------------------------------ MODULE SimpleLock ------------------------------
(***************************************************************************)
(* templates/semaphore-read-write/simple-semaphore.c, simple-reader.c and  *)
(* simple-writer.c: one semaphore of value 10. A reader takes one unit, a  *)
(* writer all of them. The first reader removes segment and set at its end *)
(* or at SIGINT; every program creates the set when there is none.         *)
(***************************************************************************)
EXTENDS Ipc

CONSTANTS First,     \* runs of simple-reader without an argument
          Others,    \* runs of simple-reader 1
          Writers,   \* runs of simple-writer
          Mesg,      \* what each writer writes
          Value      \* 10

Readers == First \cup Others
Hello == "Hello World!"
Stop == "0"

Init == IpcInit

\* main has installed the handlers: only a first reader does.
Unarmed == {"new", "semget", "setval", "sigaction", "sigsem", "end"}
Armed(p) == p \in First /\ proc[p].at \notin Unarmed

\* exit(), and return from main.
ExitStep(p) == IF Armed(p) THEN "rmshm" ELSE "end"

Settled == {"loop", "P", "work", "write", "V"}

\* A reader creates the segment, a writer needs it.
Shmget(p) ==
    /\ Start(p, Settled)
    /\ LET next == IF p \in Readers THEN "semget" ELSE "shmat" IN
       \/ ShmgetOld(p, next)
       \/ p \in Readers /\ ShmgetNew(p, next)
       \/ p \in Writers /\ ShmgetFails(p)

AfterInitSema(p) == IF p \in First THEN "sigaction" ELSE IF p \in Others THEN "shmat" ELSE "P"

\* A slip: a set that exists gets its value again.
InitSemaAgain(p) ==
    /\ At(p, "semget")
    /\ SemgetNew(p, "setval") \/ SemgetOld(p, "setval")

\* initSema: semget with IPC_EXCL, or without it for a set that exists.
InitSema(p) ==
    /\ At(p, "semget")
    /\ SemgetNew(p, "setval") \/ SemgetOld(p, AfterInitSema(p))

\* semctl(SETVAL).
SetVal(p) ==
    At(p, "setval") /\ SetAll(p, [i \in Sems |-> Value], AfterInitSema(p), "end")

Sigaction(f) == At(f, "sigaction") /\ Go(f, "shmat") /\ UNCHANGED kernel

Attach(p) ==
    /\ At(p, "shmat")
    /\ Shmat(p, IF p \in First THEN "hello" ELSE IF p \in Others THEN "loop" ELSE "semget",
             ExitStep(p))

\* The first reader copies its greeting without the lock.
SayHello(f) == At(f, "hello") /\ Put(f, Hello, "loop")

\* while (shm[0] != '0'), tested without the lock.
Loop(r) ==
    /\ At(r, "loop")
    /\ Go(r, IF mem[proc[r].shm] # Stop THEN "P" ELSE "shmdt")
    /\ UNCHANGED kernel

Detach(r) == At(r, "shmdt") /\ Shmdt(r, ExitStep(r))

Amount(p) == IF p \in Writers THEN Value ELSE 1

\* A slip: a writer takes one unit, as a reader does.
P1(p) == At(p, "P") /\ Semop(p, 0, -1, IF p \in Writers THEN "write" ELSE "V", ExitStep(p))

\* P and V: semop with the given value, which sleeps or fails.
P(p) ==
    /\ At(p, "P")
    /\ Semop(p, 0, -Amount(p), IF p \in Writers THEN "write" ELSE "V", ExitStep(p))

Write(w) == At(w, "write") /\ Put(w, Mesg[w], "V")

V(p) ==
    /\ At(p, "V")
    /\ Semop(p, 0, Amount(p), IF p \in Readers THEN "loop" ELSE "end", ExitStep(p))

\* exithandler: the segment, then the set.
Exithandler(f) ==
    \/ At(f, "rmshm") /\ RemoveShm(f, "rmsem")
    \/ (At(f, "rmsem") \/ At(f, "sigsem")) /\ RemoveSem(f)

\* SIGINT: the handler of a first reader runs exithandler and _exit; it may
\* interrupt exithandler itself, but not another handler. The other programs
\* die.
Sighandler(p) ==
    IF Armed(p) THEN p \in scene.mortal /\ RemoveShm(p, "sigsem")
                ELSE ~At(p, "sigsem") /\ Killed(p)

Step(p) ==
    \/ Shmget(p) \/ InitSema(p) \/ SetVal(p) \/ Sigaction(p) \/ Attach(p)
    \/ SayHello(p) \/ Loop(p) \/ Detach(p) \/ P(p) \/ Write(p) \/ V(p) \/ Exithandler(p)

Next == /\ \E p \in Procs : Step(p) \/ Sighandler(p)
        /\ UNCHANGED scene

\* A program that runs gets on, and semop does not pass a sleeping writer
\* over for ever: V gives the units to whom they suffice before it returns.
Moves(p) == ~At(p, "new") /\ Step(p)
Spec == /\ Init /\ [][Next]_vars
        /\ \A p \in Procs : WF_moving(Moves(p))
        /\ \A w \in Writers : SF_moving(P(w))
-----------------------------------------------------------------------------
TypeOK == IpcTypeOK({"semget", "setval", "sigaction", "shmat", "hello", "loop", "P", "write",
                     "V", "shmdt", "rmshm", "rmsem", "sigsem"},
                    {Blank, Hello} \cup {Mesg[w] : w \in Writers}, Value)

\* Ten units, in the set and with the programs, whoever creates the set, finds
\* it before SETVAL, or is killed (simple-semaphore.c, initSema, P, V).
TenUnits == TypeOK /\ UnitsKept(Value)

Inside(p) == proc[p].at \in {"V", "write"}

\* A first reader removes segment and set, or has.
Removal == \E f \in First : proc[f].at \in {"rmshm", "rmsem", "sigsem", "end"}

\* A writer is alone in its set, whatever happens, and so with its segment
\* (simple-writer.c, between P and V) until a first reader ends: a writer that
\* starts just then creates a set of its own for the old segment.
Exclusion ==
    \A w \in Writers, p \in Procs : Inside(w) /\ Inside(p) /\ p # w =>
        /\ proc[w].sem # proc[p].sem
        /\ proc[w].shm # proc[p].shm \/ Removal

\* A stop message ends the program (simple-reader.c, main): with one reader
\* and nobody killed, a writer is never kept out, and when the last message is
\* the stop message segment and set are gone at the end.
Stopping(w) ==
    /\ scene.mortal = {} /\ scene.patient /\ scene.run \cap Others = {}
    /\ \A v \in scene.run \cap Writers : Mesg[v] = Stop
    /\ At(w, "P")
Freed == semKey = None /\ shmKey = None
Stops == \A w \in Writers : Stopping(w) ~> Freed
=============================================================================
