-------------------------------- MODULE SharedText --------------------------------
(***************************************************************************)
(* templates/memory-shared/shm-server.c and shm-client.c: the server       *)
(* prints what clients write into a POSIX shared memory object until it    *)
(* begins with '0'. Nothing synchronizes them ("keine Synchronisation, das *)
(* ist ein Fehler"). shmKey is the object the name leads to; there are no  *)
(* semaphores, and what is mapped does not matter.                         *)
(***************************************************************************)
EXTENDS Ipc

CONSTANTS Servers, Clients,
          Mesg           \* what each client writes

Hello == "Hello World!"
Stop == "0"
Zeroed == "zeroed"       \* an object that has its length; Blank is one of length 0

Init == IpcInit

Begin(p) ==
    /\ Start(p, {"lost"} \cup (IF p \in Servers THEN {} ELSE {"loop"}))
    /\ Go(p, "shmopen") /\ UNCHANGED kernel

\* shm_open: the server creates what is not there, a client needs it.
ShmOpen(p) ==
    /\ At(p, "shmopen")
    /\ \/ ShmgetOld(p, IF p \in Servers THEN "sigaction" ELSE "mmap")
       \/ p \in Servers /\ ShmgetNew(p, "sigaction")
       \/ p \in Clients /\ ShmgetFails(p)

\* atexit and sigaction.
Sigaction(s) == At(s, "sigaction") /\ Go(s, "ftruncate") /\ UNCHANGED kernel

Ftruncate(s) ==
    /\ At(s, "ftruncate")
    /\ Put(s, IF mem[proc[s].shm] = Blank THEN Zeroed ELSE mem[proc[s].shm], "mmap")

Mmap(p) ==
    /\ At(p, "mmap") /\ Go(p, IF p \in Servers THEN "hello" ELSE "write")
    /\ UNCHANGED kernel

\* strncpy; beyond the end of an object that has no length yet it is SIGBUS.
Write(p) ==
    \/ At(p, "hello") /\ Put(p, Hello, "loop")
    \/ /\ At(p, "write")
       /\ IF mem[proc[p].shm] = Blank THEN Go(p, "end") /\ UNCHANGED kernel
                                      ELSE Put(p, Mesg[p], "end")

\* while (shm[0] != '0'), once a second.
Loop(s) == At(s, "loop") /\ mem[proc[s].shm] = Stop /\ Go(s, "unlink") /\ UNCHANGED kernel

\* exithandler: it removes the name, whatever object that leads to by now.
Unlink(s) == shmKey' = None /\ Go(s, "end") /\ UNCHANGED <<semKey, mem, sem>>
Exithandler(s) == At(s, "unlink") /\ Unlink(s)

\* SIGINT: after sigaction the handler calls exit(), which runs exithandler. A
\* server without a handler yet, or one whose exithandler was begun without
\* SIGINT, is lost: it ends and leaves the name.
Sighandler(p) ==
    /\ p \in scene.mortal
    /\ \/ p \in Servers /\ proc[p].at \in {"ftruncate", "mmap", "hello", "loop"} /\ Unlink(p)
       \/ /\ p \in Servers /\ proc[p].at \in {"sigaction", "unlink"}
          /\ Go(p, "lost") /\ UNCHANGED kernel
       \/ (p \in Clients \/ At(p, "shmopen")) /\ Killed(p)

Step(p) ==
    \/ Begin(p) \/ ShmOpen(p) \/ Sigaction(p) \/ Ftruncate(p) \/ Mmap(p) \/ Write(p)
    \/ Loop(p) \/ Exithandler(p)

Next == /\ \E p \in Procs : Step(p) \/ Sighandler(p)
        /\ UNCHANGED scene

Moves(p) == ~At(p, "new") /\ Step(p)
Spec == Init /\ [][Next]_vars /\ \A p \in Procs : WF_moving(Moves(p))
-----------------------------------------------------------------------------
TypeOK == IpcTypeOK({"shmopen", "sigaction", "ftruncate", "mmap", "hello", "write", "loop",
                     "unlink", "lost"},
                    {Blank, Zeroed, Hello} \cup {Mesg[c] : c \in Clients}, 0)

\* "Exit-Handler installieren, damit SHM in jedem Falle freigegeben wird"
\* (shm-server.c): when all servers have ended the name is gone, SIGINT or not,
\* unless one was lost, before sigaction or in exithandler.
Released ==
    /\ TypeOK
    /\ (\A s \in Servers : proc[s].at \in {"new", "end"}) => shmKey = None

\* "Server wird gestoppt bei mesg 0" (shm-client.c): one server, which has
\* greeted, and clients that only stop it.
Stopping(c) ==
    /\ scene.mortal = {} /\ scene.patient
    /\ \A d \in scene.run \cap Clients : Mesg[d] = Stop
    /\ At(c, "write")
Freed == shmKey = None
Stops == \A c \in Clients : Stopping(c) ~> Freed
=============================================================================
