------------------------------ MODULE ShmRequest ------------------------------
(***************************************************************************)
(* templates/semaphore-multiple/shm-sem-client.c and shm-sem-server.c:     *)
(* requests and answers through one segment and three semaphores, 0 for    *)
(* the right to ask, 1 for "a request is there", 2 for "an answer is       *)
(* there". A request that begins with '0' stops the server.                *)
(***************************************************************************)
EXTENDS Ipc

CONSTANTS Servers, Clients,
          Stoppers    \* the clients whose message begins with '0'

Answer(c) == <<c>>    \* the answer to c's request, which is c itself

Init == IpcInit

Settled == {"P0", "write", "V1", "P1", "P2", "take", "answer", "V2", "print", "V0"}

\* The server creates segment and set, a client needs both.
Shmget(p) ==
    /\ Start(p, IF p \in Servers THEN {} ELSE Settled)
    /\ \/ ShmgetOld(p, "semget")
       \/ p \in Servers /\ ShmgetNew(p, "semget")
       \/ p \in Clients /\ ShmgetFails(p)

Semget(p) ==
    /\ At(p, "semget")
    /\ \/ SemgetOld(p, IF p \in Servers THEN "setall" ELSE "shmat")
       \/ p \in Servers /\ SemgetNew(p, "setall")
       \/ p \in Clients /\ SemgetFails(p)

\* One client may ask, no request is there, no answer is there.
InitSems == [i \in Sems |-> IF i = 0 THEN 1 ELSE 0]

SetAllSems(s) == At(s, "setall") /\ SetAll(s, InitSems, "shmat", "end")

Attach(p) == At(p, "shmat") /\ Shmat(p, IF p \in Servers THEN "P1" ELSE "P0", "end")

\* One operation on semaphore i; every failure ends the program.
Op(p, step, i, n, next) == At(p, step) /\ Semop(p, i, n, next, "end")

\* A client that stops the server does not wait, and does not V(0).
ClientSemop(c) ==
    \/ Op(c, "P0", 0, -1, "write")
    \/ Op(c, "V1", 1, 1, IF c \in Stoppers THEN "end" ELSE "P2")
    \/ Op(c, "P2", 2, -1, "print")
    \/ Op(c, "V0", 0, 1, "end")

Write(c) == At(c, "write") /\ Put(c, c, "V1")
Show(c) == At(c, "print") /\ Go(c, "V0") /\ UNCHANGED kernel

\* done = (shm[0] == '0'); the answer replaces the request.
Take(s) ==
    /\ At(s, "take")
    /\ LET c == mem[proc[s].shm]
       IN Put(s, Answer(c), IF c \in Stoppers THEN "lastV2" ELSE "V2")

ServerSemop(s) ==
    \/ Op(s, "P1", 1, -1, "take")
    \/ Op(s, "V2", 2, 1, "P1")
    \/ Op(s, "lastV2", 2, 1, "rmshm")

Remove(s) ==
    \/ At(s, "rmshm") /\ RemoveShm(s, "rmsem")
    \/ At(s, "rmsem") /\ RemoveSem(s)

Step(p) ==
    \/ Shmget(p) \/ Semget(p) \/ SetAllSems(p) \/ Attach(p) \/ ClientSemop(p) \/ Write(p)
    \/ Show(p) \/ Take(p) \/ ServerSemop(p) \/ Remove(p)

Next == /\ \E p \in Procs : Step(p) \/ Killed(p)
        /\ UNCHANGED scene

\* A program that runs gets on.
Moves(p) == ~At(p, "new") /\ Step(p)
Spec == Init /\ [][Next]_vars /\ \A p \in Procs : WF_moving(Moves(p))
-----------------------------------------------------------------------------
Requests == Clients \cup {Answer(c) : c \in Clients} \cup {Blank}

TypeOK == IpcTypeOK({"semget", "setall", "shmat"} \cup Settled \cup {"lastV2", "rmshm", "rmsem"},
                    Requests, 2)

\* A server that starts sets all semaphores, also those of a set in use: people
\* start one when nothing else runs. What killed programs left is then made
\* good.
Proper == scene.patient \/ \E s \in Servers : scene.run \cap Servers = {s}

\* One token goes round from the right to ask to the request, to the answer and
\* back; nobody adds one and only a killed program takes it along.
OneToken == Proper => TypeOK /\ UnitsKept(1)

\* Who may touch the segment.
Inside(p) == proc[p].at \in {"write", "V1", "take", "V2", "lastV2", "print", "V0"}

\* The segment is with one program at a time (shm-sem-server.c: "ein
\* Clientprozess kann gleichzeitig über SHM mit uns kommunizieren").
Exclusion ==
    Proper => \A p, q \in Procs : p # q /\ Inside(p) /\ Inside(q)
                                        => proc[p].shm # proc[q].shm

\* What a client prints is the answer to its own request.
OwnAnswer ==
    Proper => \A c \in Clients : At(c, "print") => mem[proc[c].shm] = Answer(c)

\* When nobody is killed, a client that asks ends: with its answer, or because
\* the set went with the server.
Asking(c) ==
    scene.mortal = {} /\ Proper /\ At(c, "P0")
Ends == \A c \in Clients : Asking(c) ~> At(c, "end")
=============================================================================
