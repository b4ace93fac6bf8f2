----------------------------- MODULE AdvancedShm ------------------------------
(***************************************************************************)
(* templates/semaphore-read-write/advanced-reader.c and advanced-writer.c: *)
(* the programs around the lock of AdvancedLock, with the life of the two  *)
(* kernel objects they share, the shared memory segment and the semaphore  *)
(* set. The first reader creates the set and removes both objects at its   *)
(* end; a further reader and a writer use what they find.                  *)
(*                                                                         *)
(* A process of the model is one run of a program. A segment and a set are *)
(* named after the process that created them; shmKey and semKey are what   *)
(* the key leads to. As a process only ever uses the set of its own semid, *)
(* and semop on a removed set fails, one variable sem holds the values of  *)
(* the set under the key. A message is two halves, because strncpy and     *)
(* printf are not atomic.                                                  *)
(*                                                                         *)
(* What holds depends on what people do with the programs: scene, chosen   *)
(* once, says which are run, whether they are started one by one, and      *)
(* which may get SIGINT.                                                   *)
(***************************************************************************)
EXTENDS AdvancedLock, FiniteSets, Sequences

CONSTANTS First,     \* runs of advanced-reader without an argument
          Others,    \* runs of advanced-reader 1
          Writers,   \* runs of advanced-writer
          Mesg,      \* what each writer writes
          Scenes

None == "none"
Hello == "Hello World!"
Stop == "0"
Blank == "blank"        \* a new segment is zeroed

\* run      the processes that are started
\* patient  nobody starts a program before the ones started earlier have
\*          reached their loop or their lock
\* mortal   the processes that may get SIGINT
SceneType == [run : SUBSET (First \cup Others \cup Writers),
              patient : BOOLEAN,
              mortal : SUBSET (First \cup Others \cup Writers)]

\* The runs of the programs are different ones, and not endlessly many.
ASSUME ShmAssumption ==
    /\ First \cap Others = {} /\ First \cap Writers = {} /\ Others \cap Writers = {}
    /\ IsFiniteSet(First \cup Others)
    /\ Mesg \in [Writers -> STRING]
    /\ Scenes \subseteq SceneType
    /\ None \notin First \cup Others \cup Writers

VARIABLES semKey, shmKey,   \* the set and the segment under the key, or None
          removed,          \* the segments marked for destruction
          mem,              \* the contents of the segments
          proc,             \* the processes
          scene

ipcVars == <<sem, semKey, shmKey, removed, mem>>
moving == <<ipcVars, proc>>
vars == <<moving, scene>>

Readers == First \cup Others
Procs == Readers \cup Writers

Steps == {"new", "semget", "setall", "sigaction", "shmat", "hello", "hello2",
          "loop", "lock", "print", "print2", "unlock", "announce", "wait",
          "write", "write2", "rmshm", "rmsem", "end", "killed"}

Texts == {Blank, Hello} \cup {Mesg[w] : w \in Writers}

TypeOK ==
    /\ scene \in Scenes
    /\ sem \in [Sems -> 0..SEMVMX]
    /\ semKey \in First \cup {None}
    /\ shmKey \in Readers \cup {None}
    /\ removed \subseteq Readers
    /\ mem \in [Readers -> [{1, 2} -> Texts]]
    /\ proc \in [Procs -> [at : Steps,
                           shm : Readers \cup {None},
                           sem : First \cup {None},
                           mapped : BOOLEAN,        \* between shmat and shmdt
                           line : [{1, 2} -> Texts],  \* what it prints
                           inHandler : BOOLEAN]]

Blanks == [h \in {1, 2} |-> Blank]

Init ==
    /\ scene \in Scenes
    /\ sem = ClearSems
    /\ semKey = None /\ shmKey = None
    /\ removed = {}
    /\ mem = [r \in Readers |-> Blanks]
    /\ proc = [p \in Procs |-> [at |-> "new", shm |-> None, sem |-> None,
                                mapped |-> FALSE, line |-> Blanks,
                                inHandler |-> FALSE]]

At(p, step) == proc[p].at = step

\* p goes on at step.
Go(p, step) == proc' = [proc EXCEPT ![p].at = step]

\* The process is gone; the kernel detaches its segment.
Gone(p, how) == proc' = [proc EXCEPT ![p].at = how, ![p].mapped = FALSE]

\* sigaction and atexit have been called: only a first reader does.
Armed(p) == p \in First /\ ~ \E s \in {"new", "semget", "setall", "sigaction"} : At(p, s)

\* exit(), and return from main: the exit handler first, where there is one.
Exit(p) == IF Armed(p) THEN Go(p, "rmshm") ELSE Gone(p, "end")

\* A segment that is marked lives on while some process has it mapped.
Alive(s) == s \notin removed \/ \E p \in Procs : proc[p].mapped /\ proc[p].shm = s
-----------------------------------------------------------------------------
Starting(p) == \E s \in {"semget", "setall", "sigaction", "shmat", "hello", "hello2"} :
                  At(p, s)

\* The program is started and calls shmget: a reader's creates the segment.
Shmget(p) ==
    /\ At(p, "new") /\ p \in scene.run
    /\ scene.patient => \A q \in Procs : ~Starting(q)
    /\ \/ /\ shmKey # None
          /\ proc' = [proc EXCEPT ![p].shm = shmKey,
                                  ![p].at = IF p \in Writers THEN "shmat" ELSE "semget"]
          /\ UNCHANGED shmKey
       \/ /\ shmKey = None /\ p \in Readers
          /\ shmKey' = p
          /\ proc' = [proc EXCEPT ![p].shm = p, ![p].at = "semget"]
       \/ /\ shmKey = None /\ p \in Writers
          /\ Gone(p, "end")
          /\ UNCHANGED shmKey
    /\ UNCHANGED <<sem, semKey, removed, mem>>

\* initReadWriteLock, semget: the set must not exist; the kernel zeroes it.
CreateSet(f) ==
    /\ At(f, "semget")
    /\ \/ /\ semKey = None
          /\ semKey' = f
          /\ sem' = ClearSems
          /\ proc' = [proc EXCEPT ![f].sem = f, ![f].at = "setall"]
       \/ /\ semKey # None
          /\ Gone(f, "end")
          /\ UNCHANGED <<sem, semKey>>
    /\ UNCHANGED <<shmKey, removed, mem>>

\* initReadWriteLock, semctl(SETALL).
SetAll(f) ==
    /\ At(f, "setall")
    /\ sem' = ClearSems
    /\ Go(f, "sigaction")
    /\ UNCHANGED <<semKey, shmKey, removed, mem>>

Sigaction(f) == At(f, "sigaction") /\ Go(f, "shmat") /\ UNCHANGED ipcVars

\* getIdReadWriteLock: a reader calls it before shmat, a writer after.
GetId(p) ==
    /\ At(p, "semget")
    /\ IF semKey = None THEN Gone(p, "end")
       ELSE proc' = [proc EXCEPT ![p].sem = semKey,
                                 ![p].at = IF p \in Writers THEN "announce" ELSE "shmat"]
    /\ UNCHANGED ipcVars

\* A destroyed segment cannot be mapped.
Shmat(p) ==
    /\ At(p, "shmat")
    /\ IF Alive(proc[p].shm)
       THEN proc' = [proc EXCEPT ![p].mapped = TRUE,
                                 ![p].at = IF p \in Writers THEN "semget" ELSE "hello"]
       ELSE Exit(p)
    /\ UNCHANGED ipcVars

\* One half of a strncpy to the segment.
Copy(p, half, text) ==
    /\ mem' = [mem EXCEPT ![proc[p].shm][half] = text]
    /\ UNCHANGED <<sem, semKey, shmKey, removed>>

\* Every reader, also one that finds the others at work, copies its greeting,
\* and holds no lock while it does.
SayHello(r) ==
    \/ At(r, "hello") /\ Go(r, "hello2") /\ Copy(r, 1, Hello)
    \/ At(r, "hello2") /\ Go(r, "loop") /\ Copy(r, 2, Hello)

\* Slips: the loop compares with the byte 0; the end of the loop does not run
\* the exit handler.
LoopZero(r) == At(r, "loop") /\ mem[proc[r].shm][1] # Blank /\ Go(r, "lock") /\ UNCHANGED ipcVars
LoopUntidy(r) ==
    /\ At(r, "loop")
    /\ IF mem[proc[r].shm][1] # Stop THEN Go(r, "lock") ELSE Gone(r, "end")
    /\ UNCHANGED ipcVars

\* while (shm[0] != '0'): the test is made without the lock. On the way out
\* the reader unmaps the segment.
Loop(r) ==
    /\ At(r, "loop")
    /\ IF mem[proc[r].shm][1] # Stop THEN Go(r, "lock")
       ELSE proc' = [proc EXCEPT ![r].mapped = FALSE,
                                 ![r].at = IF r \in First THEN "rmshm" ELSE "end"]
    /\ UNCHANGED ipcVars

SetThere(p) == proc[p].sem = semKey

ReadLock(r) ==
    /\ At(r, "lock") /\ SetThere(r)
    /\ \/ setReadLock /\ Go(r, "print")
       \/ setReadLockRange /\ Exit(r)
    /\ UNCHANGED <<semKey, shmKey, removed, mem>>

PrintLine(r) ==
    /\ \E half \in {1, 2} :
          /\ At(r, <<"print", "print2">>[half])
          /\ proc' = [proc EXCEPT ![r].line[half] = mem[proc[r].shm][half],
                                  ![r].at = <<"print2", "unlock">>[half]]
    /\ UNCHANGED ipcVars

ReadUnlock(r) ==
    /\ At(r, "unlock") /\ SetThere(r)
    /\ releaseReadLock
    /\ proc' = [proc EXCEPT ![r].at = "loop", ![r].line = Blanks]
    /\ UNCHANGED <<semKey, shmKey, removed, mem>>

Announce(w) ==
    /\ At(w, "announce") /\ SetThere(w)
    /\ setWriteLock1 /\ Go(w, "wait")
    /\ UNCHANGED <<semKey, shmKey, removed, mem>>

WriteLock(w) ==
    /\ At(w, "wait") /\ SetThere(w)
    /\ setWriteLock2 /\ Go(w, "write")
    /\ UNCHANGED <<semKey, shmKey, removed, mem>>

Write(w) ==
    \/ At(w, "write") /\ Go(w, "write2") /\ Copy(w, 1, Mesg[w])
    \/ At(w, "write2") /\ Go(w, "unlock") /\ Copy(w, 2, Mesg[w])

WriteUnlock(w) ==
    /\ At(w, "unlock") /\ SetThere(w)
    /\ releaseWriteLock /\ Gone(w, "end")
    /\ UNCHANGED <<semKey, shmKey, removed, mem>>

\* semop on a removed set fails, also for a process asleep in it (EIDRM).
SemopFails(p) ==
    /\ \E s \in {"lock", "announce", "wait", "unlock"} : At(p, s)
    /\ ~SetThere(p)
    /\ Exit(p)
    /\ UNCHANGED ipcVars

\* exithandler: shmctl(IPC_RMID), and _exit when that fails ...
RemoveShm(f) ==
    /\ At(f, "rmshm")
    /\ IF Alive(proc[f].shm)
       THEN /\ removed' = removed \cup {proc[f].shm}
            /\ shmKey' = IF shmKey = proc[f].shm THEN None ELSE shmKey
            /\ Go(f, "rmsem")
       ELSE /\ Gone(f, "end")
            /\ UNCHANGED <<removed, shmKey>>
    /\ UNCHANGED <<sem, semKey, mem>>

\* ... then semctl(IPC_RMID).
RemoveSem(f) ==
    /\ At(f, "rmsem")
    /\ semKey' = None
    /\ Gone(f, "end")
    /\ UNCHANGED <<sem, shmKey, removed, mem>>

\* SIGINT. A first reader that has installed sighandler runs exithandler, from
\* its start and wherever it is; SIGINT is blocked in the handler itself. Any
\* other process is killed, and what it added to the semaphores stays.
Interrupt(p) ==
    /\ p \in scene.mortal
    /\ ~ \E s \in {"new", "end", "killed"} : At(p, s)
    /\ ~proc[p].inHandler
    /\ IF Armed(p)
       THEN proc' = [proc EXCEPT ![p].at = "rmshm", ![p].inHandler = TRUE]
       ELSE Gone(p, "killed")
    /\ UNCHANGED ipcVars

FirstStep(f) == CreateSet(f) \/ SetAll(f) \/ Sigaction(f) \/ RemoveShm(f) \/ RemoveSem(f)
ReaderStep(r) == SayHello(r) \/ Loop(r) \/ ReadLock(r) \/ PrintLine(r) \/ ReadUnlock(r)
WriterStep(w) == Announce(w) \/ WriteLock(w) \/ Write(w) \/ WriteUnlock(w)

Step ==
    \/ \E p \in Procs : Shmget(p) \/ Shmat(p) \/ SemopFails(p) \/ Interrupt(p)
    \/ \E p \in Others \cup Writers : GetId(p)
    \/ \E f \in First : FirstStep(f)
    \/ \E r \in Readers : ReaderStep(r)
    \/ \E w \in Writers : WriterStep(w)

Next == Step /\ UNCHANGED scene

Spec == Init /\ [][Next]_vars

\* A program that runs takes its next step; as in AdvancedLockUsers, the two
\* operations that compete for sem[1] are served in the order of arrival. No
\* program has to be started, and nobody has to press Control-C.
Fairness ==
    /\ \A p \in Procs : WF_moving(Shmat(p)) /\ WF_moving(SemopFails(p))
    /\ \A p \in Others \cup Writers : WF_moving(GetId(p))
    /\ \A f \in First : WF_moving(FirstStep(f))
    /\ \A r \in Readers : WF_moving(ReaderStep(r)) /\ SF_moving(ReadLock(r))
    /\ \A w \in Writers : WF_moving(WriterStep(w)) /\ SF_moving(Announce(w))

FairSpec == Spec /\ Fairness
-----------------------------------------------------------------------------
\* Who is between set and release of the lock of the set under the key.
ReaderInside(r) == SetThere(r) /\ \E s \in {"print", "print2", "unlock"} : At(r, s)
WriterInside(w) == SetThere(w) /\ \E s \in {"write", "write2", "unlock"} : At(w, s)

\* The lock excludes, in every set that first readers create one after the
\* other, while programs are started one by one (advanced-lock.c; a reader that
\* enters between semget and SETALL of initReadWriteLock is forgotten).
Exclusion ==
    scene.patient => \A w \in Writers : WriterInside(w) =>
        /\ \A r \in Readers : ~ReaderInside(r)
        /\ \A v \in Writers : WriterInside(v) => v = w

\* One reader: its greeting is over before a writer starts.
GreetingsOver == scene.patient /\ \A q, r \in scene.run \cap Readers : q = r

\* What a reader prints between set and release is one message, not the head
\* of one and the tail of another (advanced-reader.c, the loop), unless some
\* further reader greets at that moment.
WholeLine ==
    GreetingsOver => \A r \in Readers :
        ReaderInside(r) /\ At(r, "unlock") => proc[r].line[1] = proc[r].line[2]

\* When a first reader has ended, what it shared is gone (advanced-reader.c:
\* "damit SHM und Semaphoren in jedem Falle freigegeben werden"). SIGINT while
\* the exit handler of a normal end is at work breaks it.
ReleasedInAnyCase ==
    \A f \in First : At(f, "end") /\ proc[f].sem = f
                        => semKey # f /\ shmKey # proc[f].shm

\* A first reader that ends by itself leaves neither segment nor set, however
\* its users are started, killed or stopped. Of two first readers this cannot be
\* said: the second may find the segment of the first, which removes it and ends
\* before the second maps it; then shmctl fails in the exit handler of the
\* second, which leaves its set behind.
OneFirst == \A f, g \in scene.run \cap First : f = g
Released == TypeOK /\ (scene.mortal \cap First = {} /\ OneFirst => ReleasedInAnyCase)

\* "Server wird gestoppt bei mesg 0" (advanced-writer.c): when only stop messages
\* are written, and nobody is killed, writing one ends the first reader and
\* frees the key.
Stops ==
    \A w \in Writers :
        /\ WriterInside(w) /\ At(w, "unlock")
        /\ scene.mortal = {} /\ GreetingsOver
        /\ \A v \in scene.run \cap Writers : Mesg[v] = Stop
        ~> semKey = None /\ shmKey = None
=============================================================================
