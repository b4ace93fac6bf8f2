------------------------------- MODULE ShmServer -------------------------------
(***************************************************************************)
(* templates/semaphore-single/shmserver.c and shmclient.c: the server      *)
(* prints what clients leave in the segment, until it begins with '0'; one *)
(* semaphore of value 1 makes each access exclusive.                       *)
(***************************************************************************)
EXTENDS Ipc

CONSTANTS Servers,   \* runs of shmserver
          Clients,   \* runs of shmclient
          Mesg       \* what each client writes

Hello == "Hello World!"
Stop == "0"

Init == IpcInit

\* SIGINT is caught from the start; atexit comes after semget.
Caught(p) == p \in Servers /\ proc[p].at \notin {"new", "sigaction", "sigsem", "end"}
ExitStep(p) == IF Caught(p) THEN "rmshm" ELSE "end"

Settled == {"loop", "V", "sleep", "write"}

\* The server installs its handler; a client has nothing to prepare.
Begin(p) ==
    /\ Start(p, IF p \in Servers THEN {} ELSE Settled)
    /\ Go(p, IF p \in Servers THEN "sigaction" ELSE "shmget") /\ UNCHANGED kernel

Sigaction(s) == At(s, "sigaction") /\ Go(s, "shmget") /\ UNCHANGED kernel

\* The server creates the segment and the set, a client needs both.
Shmget(p) ==
    /\ At(p, "shmget")
    /\ \/ ShmgetOld(p, "semget")
       \/ p \in Servers /\ ShmgetNew(p, "semget")
       \/ p \in Clients /\ ShmgetFails(p)

Semget(p) ==
    /\ At(p, "semget")
    /\ \/ SemgetOld(p, IF p \in Servers THEN "setval" ELSE "shmat")
       \/ p \in Servers /\ SemgetNew(p, "setval")
       \/ p \in Clients /\ SemgetFails(p)

\* semctl(SETVAL), for a set that was there as well.
SetVal(s) == At(s, "setval") /\ SetAll(s, [i \in Sems |-> 1], "shmat", ExitStep(s))

Attach(p) == At(p, "shmat") /\ Shmat(p, "P", ExitStep(p))

\* A server that enters for the first time greets, later it looks; a client
\* writes. V of the loop, P and V at its end.
Lock(p) ==
    \/ At(p, "P") /\ Semop(p, 0, -1, IF p \in Servers THEN "hello" ELSE "write", ExitStep(p))
    \/ At(p, "sleep") /\ Semop(p, 0, -1, "loop", ExitStep(p))

Write(p) ==
    \/ At(p, "hello") /\ Put(p, Hello, "loop")
    \/ At(p, "write") /\ Put(p, Mesg[p], "V")

\* while (shm[0] != '0'), tested under the lock.
Loop(s) ==
    /\ At(s, "loop")
    /\ Go(s, IF mem[proc[s].shm] # Stop THEN "V" ELSE "last") /\ UNCHANGED kernel

Unlock(p) ==
    \/ At(p, "V") /\ Semop(p, 0, 1, IF p \in Servers THEN "sleep" ELSE "end", ExitStep(p))
    \/ At(p, "last") /\ Semop(p, 0, 1, "shmdt", ExitStep(p))

Detach(s) == At(s, "shmdt") /\ Shmdt(s, "rmshm")

\* exithandler: an identifier that is not there yet is 0, and names nothing
\* of these programs.
Exithandler(s) ==
    \/ At(s, "rmshm") /\ RemoveShm(s, "rmsem")
    \/ (At(s, "rmsem") \/ At(s, "sigsem")) /\ RemoveSem(s)

\* SIGINT, also in the middle of exithandler.
Sighandler(p) ==
    IF Caught(p) THEN p \in scene.mortal /\ RemoveShm(p, "sigsem")
                 ELSE ~At(p, "sigsem") /\ Killed(p)

Step(p) ==
    \/ Begin(p) \/ Sigaction(p) \/ Shmget(p) \/ Semget(p) \/ SetVal(p) \/ Attach(p)
    \/ Lock(p) \/ Write(p) \/ Loop(p) \/ Unlock(p) \/ Detach(p) \/ Exithandler(p)

Next == /\ \E p \in Procs : Step(p) \/ Sighandler(p)
        /\ UNCHANGED scene

\* A program that runs gets on; semop passes no sleeper over for ever.
Moves(p) == ~At(p, "new") /\ Step(p)
Spec == /\ Init /\ [][Next]_vars
        /\ \A p \in Procs : WF_moving(Moves(p))
        /\ \A c \in Clients : SF_moving(Lock(c))
-----------------------------------------------------------------------------
TypeOK == IpcTypeOK({"sigaction", "shmget", "semget", "setval", "shmat", "P", "hello", "write",
                     "loop", "V", "sleep", "last", "shmdt", "rmshm", "rmsem",
                     "sigsem"},
                    {Blank, Hello} \cup {Mesg[c] : c \in Clients}, 2)

\* A server that starts sets the semaphore, held or not: people start one when
\* nothing else runs.
Proper == scene.patient \/ \E s \in Servers : scene.run \cap Servers = {s}

\* One unit, in the set or with a program (shmserver.c, shmclient.c, P and V).
OneUnit == Proper => TypeOK /\ UnitsKept(1)

Inside(p) == proc[p].at \in {"hello", "write", "loop", "V", "last"}

\* Nobody uses the segment at the same time as another one (shmserver.c and
\* shmclient.c: "exklusiven Zugriff auf Shared Memory sichern").
Exclusion ==
    Proper => \A p, q \in Procs : p # q /\ Inside(p) /\ Inside(q)
                                        => proc[p].shm # proc[q].shm

\* "Server wird gestoppt bei mesg 0" (shmclient.c): a client that has written
\* it, as all others do, ends the server, and the server frees what it made. A
\* message from before the server's greeting would be lost.
Stopping(c) ==
    /\ scene.mortal = {} /\ scene.patient
    /\ \A d \in scene.run \cap Clients : Mesg[d] = Stop
    /\ At(c, "P")
Freed == semKey = None /\ shmKey = None
Stops == \A c \in Clients : Stopping(c) ~> Freed
=============================================================================
