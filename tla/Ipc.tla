--------------------------------- MODULE Ipc ----------------------------------
(***************************************************************************)
(* The kernel objects that the semaphore programs of templates/ share: one *)
(* shared memory segment and one semaphore set, each under a key, with the *)
(* system calls on them as these programs use them. This is a model of the *)
(* kernel, not of code of the repository; SimpleLock, ShmServer and        *)
(* ShmRequest extend it.                                                   *)
(*                                                                         *)
(* A process is one run of a program. A segment and a set are named after  *)
(* the process that created them. A process only uses the set of its own   *)
(* semid, and semop on a removed set fails, so one variable sem holds the  *)
(* values of the set under the key.                                        *)
(***************************************************************************)
EXTENDS Integers, FiniteSets

CONSTANTS Procs,    \* runs of programs
          Sems,     \* the semaphores of a set
          Scenes,   \* what people do: see SceneType
          None,     \* no process
          Blank     \* the text of a new segment, which is zeroed

VARIABLES shmKey, semKey,   \* the segment and the set under the key, or None
          mem,              \* the contents of the segments
          sem,              \* the values of the set under the key
          proc,             \* the processes
          scene             \* rigid

kernel == <<shmKey, semKey, mem, sem>>
moving == <<kernel, proc>>
vars == <<moving, scene>>

\* run      the programs that are started
\* patient  nobody starts a program while another one is starting or ending
\* mortal   the processes that may get SIGINT
SceneType == [run : SUBSET Procs, patient : BOOLEAN, mortal : SUBSET Procs]

Zeroes == [i \in Sems |-> 0]

IpcInit ==
    /\ scene \in Scenes
    /\ shmKey = None /\ semKey = None
    /\ mem = [p \in Procs |-> Blank]
    /\ sem = Zeroes
    /\ proc = [p \in Procs |-> [at |-> "new", shm |-> None, sem |-> None,
                                mapped |-> FALSE, held |-> 0]]

\* held counts what a process has taken from the set and not given back; a
\* killed process keeps it, as no operation carries SEM_UNDO.
IpcTypeOK(Steps, Texts, Units) ==
    /\ scene \in Scenes /\ scene \in SceneType
    /\ shmKey \in Procs \cup {None} /\ semKey \in Procs \cup {None}
    /\ mem \in [Procs -> Texts]
    /\ sem \in [Sems -> 0..Units]
    /\ proc \in [Procs -> [at : Steps \cup {"new", "end"}, shm : Procs \cup {None},
                           sem : Procs \cup {None}, mapped : BOOLEAN, held : 0..Units]]

At(p, step) == proc[p].at = step

\* The end of a process detaches its segment.
Go(p, step) == proc' = [proc EXCEPT ![p].at = step, ![p].mapped = @ /\ step # "end"]

\* A segment that is marked for removal lives on while it is mapped.
Alive(s) == s = shmKey \/ \E p \in Procs : proc[p].mapped /\ proc[p].shm = s

\* A program is started; settled are the steps at which a program is at work.
Start(p, settled) ==
    /\ At(p, "new") /\ p \in scene.run
    /\ scene.patient => \A q \in Procs : proc[q].at \in settled \cup {"new", "end"}

ShmgetOld(p, next) ==
    /\ shmKey # None
    /\ proc' = [proc EXCEPT ![p].at = next, ![p].shm = shmKey]
    /\ UNCHANGED kernel

ShmgetNew(p, next) ==
    /\ shmKey = None
    /\ shmKey' = p
    /\ proc' = [proc EXCEPT ![p].at = next, ![p].shm = p]
    /\ UNCHANGED <<semKey, mem, sem>>

ShmgetFails(p) == shmKey = None /\ Go(p, "end") /\ UNCHANGED kernel

SemgetOld(p, next) ==
    /\ semKey # None
    /\ proc' = [proc EXCEPT ![p].at = next, ![p].sem = semKey]
    /\ UNCHANGED kernel

SemgetNew(p, next) ==
    /\ semKey = None
    /\ semKey' = p /\ sem' = Zeroes
    /\ proc' = [proc EXCEPT ![p].at = next, ![p].sem = p]
    /\ UNCHANGED <<shmKey, mem>>

SemgetFails(p) == semKey = None /\ Go(p, "end") /\ UNCHANGED kernel

\* shmat fails for a segment that is gone.
Shmat(p, next, fail) ==
    /\ IF Alive(proc[p].shm)
       THEN proc' = [proc EXCEPT ![p].at = next, ![p].mapped = TRUE]
       ELSE Go(p, fail)
    /\ UNCHANGED kernel

\* shmdt, of a program that goes on.
Shmdt(p, next) ==
    /\ proc' = [proc EXCEPT ![p].at = next, ![p].mapped = FALSE]
    /\ UNCHANGED kernel

SetThere(p) == proc[p].sem = semKey

\* semctl(SETVAL) and semctl(SETALL). What the dead have taken is made good.
SetAll(p, values, next, fail) ==
    /\ IF SetThere(p)
       THEN /\ sem' = values
            /\ proc' = [q \in Procs |-> IF q = p THEN [proc[p] EXCEPT !.at = next]
                                       ELSE IF At(q, "end") THEN [proc[q] EXCEPT !.held = 0]
                                       ELSE proc[q]]
       ELSE UNCHANGED sem /\ Go(p, fail)
    /\ UNCHANGED <<shmKey, semKey, mem>>

\* semop with one operation: it sleeps until the value allows it, and fails
\* when the set is, or gets, removed.
Semop(p, i, n, next, fail) ==
    /\ \/ /\ SetThere(p) /\ sem[i] + n >= 0
          /\ sem' = [sem EXCEPT ![i] = @ + n]
          /\ proc' = [proc EXCEPT ![p].at = next, ![p].held = @ - n,
                                  ![p].mapped = @ /\ next # "end"]
       \/ ~SetThere(p) /\ Go(p, fail) /\ UNCHANGED sem
    /\ UNCHANGED <<shmKey, semKey, mem>>

\* strncpy or sprintf to the segment.
Put(p, text, next) ==
    /\ mem' = [mem EXCEPT ![proc[p].shm] = text]
    /\ Go(p, next)
    /\ UNCHANGED <<shmKey, semKey, sem>>

\* shmctl(IPC_RMID) and semctl(IPC_RMID); a program that fails here ends.
RemoveShm(p, next) ==
    /\ IF Alive(proc[p].shm)
       THEN shmKey' = (IF shmKey = proc[p].shm THEN None ELSE shmKey) /\ Go(p, next)
       ELSE UNCHANGED shmKey /\ Go(p, "end")
    /\ UNCHANGED <<semKey, mem, sem>>

RemoveSem(p) ==
    /\ semKey' = (IF SetThere(p) THEN None ELSE semKey)
    /\ Go(p, "end")
    /\ UNCHANGED <<shmKey, mem, sem>>

\* What the set holds and what was taken from it, by whoever, unit by unit:
\* nothing before the set gets its first values, and total ever after.
InSet == UNION {{i} \X (1..sem[i]) : i \in Sems}
Taken == UNION {{p} \X (1..proc[p].held) : p \in {q \in Procs : SetThere(q)}}
Units == Cardinality(InSet) + Cardinality(Taken)
UnitsKept(total) == semKey # None => Units \in {0, total} /\ (Units = 0 => sem = Zeroes)

\* A signal for which the process has no handler.
Killed(p) ==
    /\ p \in scene.mortal /\ proc[p].at \notin {"new", "end"}
    /\ Go(p, "end")
    /\ UNCHANGED kernel
=============================================================================
