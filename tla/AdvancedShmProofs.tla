-------------------------- MODULE AdvancedShmProofs --------------------------
(***************************************************************************)
(* Proofs about AdvancedShm, for any programs, messages and scenes: the    *)
(* lock excludes in every set under the key while programs are started one *)
(* by one, what a lone reader prints is one message, and a lone first      *)
(* reader leaves nothing behind.                                           *)
(*                                                                         *)
(* Killed processes leave the semaphores higher than they should be, so    *)
(* the invariant bounds them from below only: nobody inside is forgotten.  *)
(***************************************************************************)
EXTENDS AdvancedShm, FiniteSetTheorems, TLAPS

\* Where the programs are: from shmat on a process has a segment, and from then
\* on (a writer, after it) a set.
Ended(p) == proc[p].at \in {"end", "killed"}
InHelloOrLoop == {"hello", "hello2", "loop", "lock", "print", "print2", "unlock"}
InLock == {"announce", "wait", "write", "write2", "unlock"}
Stage(p) ==
    LET k == proc[p] IN
    /\ k.at # "new" => p \in scene.run
    /\ k.at \notin {"new", "end", "killed"} => k.shm \in Readers
    /\ k.at = "new" => k.shm = None /\ k.sem = None
    /\ k.sem # None => k.shm \in Readers
    /\ k.at \in InHelloOrLoop \cup InLock \cup {"setall", "sigaction", "rmshm", "rmsem"} => k.sem # None
    /\ p \in Writers => k.at \in {"new", "shmat", "semget", "end", "killed"} \cup InLock
    /\ p \in Readers => k.at \notin {"announce", "wait", "write", "write2"}
    /\ p \in Readers /\ k.at = "shmat" => k.sem # None
    /\ p \in First => k.sem \in {None, p} /\ (k.at \in {"new", "semget"} => k.sem = None)
    /\ p \notin First => k.at \notin {"setall", "sigaction", "rmshm", "rmsem"}

\* A set belongs to the first reader that created it, which keeps it under the
\* key until its end.
Created(f) == proc[f].sem = f
SetsOwned ==
    /\ \A f \in First : Created(f) /\ ~Ended(f) => semKey = f
    /\ \A p \in Procs, f \in First : proc[p].sem = f => Created(f)
    /\ semKey # None => Created(semKey)

\* While programs are started one by one, nobody knows a set that is not ready.
OneStarts ==
    /\ \A p, q \in Procs : Starting(p) /\ Starting(q) => p = q
    /\ \A f \in First, p \in Procs : proc[p].sem = f /\ p # f => ~Starting(f)

Inside == {r \in Readers : ReaderInside(r)}
Announced == {w \in Writers : SetThere(w) /\ proc[w].at \in InLock \ {"announce"}}
NobodyForgotten ==
    /\ Cardinality(Inside) <= sem[0]
    /\ Announced # {} => sem[1] >= 1
    /\ \A v, w \in Announced : v = w
    /\ \A w \in Writers : WriterInside(w) => Inside = {}

Base == TypeOK /\ (\A p \in Procs : Stage(p)) /\ SetsOwned
Patient == scene.patient => OneStarts /\ NobodyForgotten
-----------------------------------------------------------------------------
(* One reader. *)

\* The text in the segment is whole, or a writer is at work, or was killed at
\* its work: then nobody gets in any more.
AtWork == /\ sem[1] >= 1 /\ Inside = {}
          /\ \A w \in Announced : At(w, "write2")
Text(r) == mem[proc[r].shm]
Torn(r) == Text(r)[1] # Text(r)[2]
OneSegment ==
    /\ \A p \in Procs : proc[p].shm # None => proc[p].shm \in Readers \cap scene.run
    /\ shmKey \in scene.run \cup {None}
ReaderText(r) ==
    /\ At(r, "hello2") => Text(r)[1] = Hello
    /\ proc[r].at \in {"loop", "lock", "print", "print2", "unlock"} => ~Torn(r) \/ AtWork
    /\ At(r, "print2") => proc[r].line[1] = Text(r)[1]
    /\ At(r, "unlock") => proc[r].line[1] = proc[r].line[2]
WriterText(w) == At(w, "write2") => Text(w)[1] = Mesg[w]
OneText ==
    /\ OneSegment
    /\ \A r \in Readers : ReaderText(r)
    /\ \A w \in Announced : WriterText(w)
-----------------------------------------------------------------------------
(* One first reader, which nobody interrupts. *)

\* Only its own exit handler removes a segment; names are used once.
ShmLeft ==
    /\ \A p \in Procs : proc[p].shm # None => ~At(proc[p].shm, "new")
    /\ shmKey # None => ~At(shmKey, "new")
    /\ \A f \in First : At(f, "killed") => f \in scene.mortal
    /\ \A f \in scene.run \cap First : proc[f].at \notin {"rmsem", "end"} => removed = {}
    /\ \A f \in First : Created(f) /\ proc[f].at \in {"rmsem", "end"} => shmKey # proc[f].shm
    /\ ReleasedInAnyCase

Quiet == scene.mortal \cap First = {} /\ OneFirst

ShmInv ==
    /\ Base /\ Patient
    /\ GreetingsOver => OneText
    /\ Quiet => ShmLeft
-----------------------------------------------------------------------------
(* What the steps do to the process that takes them and to what is shared. *)

Process == [at : Steps, shm : Readers \cup {None}, sem : First \cup {None}, mapped : BOOLEAN,
            line : [{1, 2} -> Texts], inHandler : BOOLEAN]
Moved(p, at, shm, set, line) ==
    /\ \A q \in Procs \ {p} : proc'[q] = proc[q]
    /\ proc' \in [Procs -> Process]
    /\ proc'[p].at = at /\ proc'[p].shm = shm /\ proc'[p].sem = set /\ proc'[p].line = line
Walks(p, from, to) == At(p, from) /\ Moved(p, to, proc[p].shm, proc[p].sem, proc[p].line)

\* It ends, is killed, or comes to the exit handler.
Leaves(p) ==
    /\ UNCHANGED ipcVars /\ ~Ended(p) /\ p \in scene.run
    /\ \E to \in {"end", "killed", "rmshm"} :
         /\ Walks(p, proc[p].at, to)
         /\ to = "rmshm" => p \in First /\ proc[p].sem = p /\ proc[p].shm \in Readers
         /\ to = "rmshm" /\ At(p, "rmsem") => p \in scene.mortal
         /\ to = "killed" => p \in scene.mortal
         /\ to = "end" /\ p \in First /\ proc[p].sem = p => At(p, "rmshm") /\ ~Alive(proc[p].shm)

Starts(p) ==
    /\ At(p, "new") /\ p \in scene.run /\ (scene.patient => \A q \in Procs : ~Starting(q))
    /\ \E s \in Readers :
         /\ Moved(p, IF p \in Writers THEN "shmat" ELSE "semget", s, proc[p].sem, proc[p].line)
         /\ shmKey' = s /\ (shmKey = s \/ (shmKey = None /\ s = p))
    /\ UNCHANGED <<sem, semKey, removed, mem>>
Creates(f) ==
    /\ f \in First /\ At(f, "semget") /\ semKey = None
    /\ semKey' = f /\ sem' = ClearSems
    /\ Moved(f, "setall", proc[f].shm, f, proc[f].line)
    /\ UNCHANGED <<shmKey, removed, mem>>
Clears(f) ==
    /\ f \in First /\ Walks(f, "setall", "sigaction") /\ sem' = ClearSems
    /\ UNCHANGED <<semKey, shmKey, removed, mem>>
Learns(p) ==
    /\ p \notin First /\ At(p, "semget") /\ semKey # None
    /\ Moved(p, IF p \in Writers THEN "announce" ELSE "shmat", proc[p].shm, semKey, proc[p].line)
    /\ UNCHANGED ipcVars
Quietly(p) ==
    /\ \/ p \in First /\ Walks(p, "sigaction", "shmat")
       \/ p \in Readers /\ (Walks(p, "shmat", "hello") \/ Walks(p, "loop", "lock"))
       \/ p \in Writers /\ Walks(p, "shmat", "semget")
    /\ UNCHANGED ipcVars
Greets(r) ==
    /\ r \in Readers
    /\ \/ Walks(r, "hello", "hello2") /\ Copy(r, 1, Hello)
       \/ Walks(r, "hello2", "loop") /\ Copy(r, 2, Hello)
Reads(r) ==
    /\ r \in Readers /\ SetThere(r) /\ UNCHANGED <<semKey, shmKey, removed, mem>>
    /\ \/ Walks(r, "lock", "print") /\ setReadLock
       \/ At(r, "unlock") /\ Moved(r, "loop", proc[r].shm, proc[r].sem, Blanks) /\ releaseReadLock
Prints(r) ==
    /\ r \in Readers /\ UNCHANGED ipcVars
    /\ \/ /\ At(r, "print")
          /\ Moved(r, "print2", proc[r].shm, proc[r].sem,
                   [proc[r].line EXCEPT ![1] = mem[proc[r].shm][1]])
       \/ /\ At(r, "print2")
          /\ Moved(r, "unlock", proc[r].shm, proc[r].sem,
                   [proc[r].line EXCEPT ![2] = mem[proc[r].shm][2]])
Locks(w) ==
    /\ w \in Writers /\ SetThere(w) /\ UNCHANGED <<semKey, shmKey, removed, mem>>
    /\ \/ Walks(w, "announce", "wait") /\ setWriteLock1
       \/ Walks(w, "wait", "write") /\ setWriteLock2
       \/ Walks(w, "unlock", "end") /\ releaseWriteLock
Writes(w) ==
    /\ w \in Writers
    /\ \/ Walks(w, "write", "write2") /\ Copy(w, 1, Mesg[w])
       \/ Walks(w, "write2", "unlock") /\ Copy(w, 2, Mesg[w])
Removes(f) ==
    /\ f \in First /\ UNCHANGED <<sem, mem>>
    /\ \/ /\ Walks(f, "rmshm", "rmsem") /\ UNCHANGED semKey
          /\ shmKey' \in {shmKey, None} /\ shmKey' # proc[f].shm
          /\ removed' = removed \cup {proc[f].shm}
       \/ Walks(f, "rmsem", "end") /\ semKey' = None /\ UNCHANGED <<shmKey, removed>>

Kind(p) ==
    \/ Leaves(p) \/ Starts(p) \/ Creates(p) \/ Clears(p) \/ Learns(p) \/ Quietly(p) \/ Greets(p)
    \/ Reads(p) \/ Prints(p) \/ Locks(p) \/ Writes(p) \/ Removes(p)

LEMMA ProcType == TypeOK => proc \in [Procs -> Process]
  BY DEF TypeOK, Process

\* The fields that an assignment changes.
LEMMA Assigned ==
    ASSUME proc \in [Procs -> Process], NEW p \in Procs, NEW to \in Steps
    PROVE  /\ Go(p, to) => Moved(p, to, proc[p].shm, proc[p].sem, proc[p].line)
           /\ Gone(p, to) => Moved(p, to, proc[p].shm, proc[p].sem, proc[p].line)
<1>1. proc[p] \in Process
  OBVIOUS
<1>2. ASSUME Go(p, to) PROVE Moved(p, to, proc[p].shm, proc[p].sem, proc[p].line)
  <2>1. proc'[p] = [proc[p] EXCEPT !.at = to] /\ \A q \in Procs \ {p} : proc'[q] = proc[q]
    BY <1>2 DEF Go
  <2>2. proc'[p] \in Process
    BY <1>1, <2>1 DEF Process
  <2>3. proc' \in [Procs -> Process]
    BY <1>2, <2>1, <2>2 DEF Go
  <2>. QED
    BY <1>1, <2>1, <2>3 DEF Moved, Process
<1>3. ASSUME Gone(p, to) PROVE Moved(p, to, proc[p].shm, proc[p].sem, proc[p].line)
  <2>1. /\ proc'[p] = [proc[p] EXCEPT !.at = to, !.mapped = FALSE]
        /\ \A q \in Procs \ {p} : proc'[q] = proc[q]
    BY <1>3 DEF Gone
  <2>2. proc'[p] \in Process
    BY <1>1, <2>1 DEF Process
  <2>3. proc' \in [Procs -> Process]
    BY <1>3, <2>1, <2>2 DEF Gone
  <2>. QED
    BY <1>1, <2>1, <2>3 DEF Moved, Process
<1>. QED
  BY <1>2, <1>3

LEMMA AssignedRecord ==
    ASSUME proc \in [Procs -> Process], NEW p \in Procs, NEW k \in Process,
           proc' = [proc EXCEPT ![p] = k]
    PROVE  Moved(p, k.at, k.shm, k.sem, k.line)
  BY DEF Moved

\* Exit leads to the exit handler, or ends the process.
LEMMA ExitLeaves ==
    ASSUME Base, NEW p \in Procs, Exit(p), UNCHANGED ipcVars,
           proc[p].at \in {"shmat", "lock", "announce", "wait", "unlock"}
    PROVE  Leaves(p)
<1>1. proc \in [Procs -> Process] /\ Stage(p)
  BY ProcType DEF Base
<1>2. CASE p \in First
  <2>1. Armed(p) /\ Go(p, "rmshm")
    BY <1>2 DEF Exit, Armed, At
  <2>2. Walks(p, proc[p].at, "rmshm")
    BY <1>1, <2>1, Assigned DEF Walks, At, Steps
  <2>. QED
    BY <1>1, <1>2, <2>2 DEF Leaves, Stage, Ended, InHelloOrLoop, InLock, Readers, At
<1>3. CASE p \notin First
  <2>1. Gone(p, "end")
    BY <1>3 DEF Exit, Armed
  <2>2. Walks(p, proc[p].at, "end")
    BY <1>1, <2>1, Assigned DEF Walks, At, Steps
  <2>. QED
    BY <1>1, <1>3, <2>2 DEF Leaves, Stage, Ended
<1>. QED
  BY <1>2, <1>3

LEMMA ShmgetKind ==
    ASSUME Base, NEW p \in Procs, Shmget(p), UNCHANGED scene
    PROVE  Kind(p)
<1>1. proc \in [Procs -> Process] /\ Stage(p) /\ proc[p] \in Process
      /\ shmKey \in Readers \cup {None} /\ Readers \cap Writers = {}
  BY ProcType, ShmAssumption DEF Base, TypeOK, Readers
<1>2. /\ At(p, "new") /\ p \in scene.run /\ (scene.patient => \A q \in Procs : ~Starting(q))
      /\ UNCHANGED <<sem, semKey, removed, mem>>
  BY DEF Shmget
<1>3. CASE /\ shmKey = None /\ p \in Writers /\ Gone(p, "end") /\ UNCHANGED shmKey
  <2>1. Walks(p, proc[p].at, "end")
    BY <1>1, <1>3, Assigned DEF Walks, At, Steps
  <2>2. p \notin First
    BY <1>3, ShmAssumption
  <2>3. Leaves(p)
    BY <1>2, <1>3, <2>1, <2>2 DEF Leaves, Ended, At, ipcVars
  <2>. QED
    BY <2>3 DEF Kind
<1>4. ASSUME NEW s \in Readers, NEW at \in {"shmat", "semget"},
             at = IF p \in Writers THEN "shmat" ELSE "semget",
             proc' = [proc EXCEPT ![p].shm = s, ![p].at = at],
             shmKey' = s, shmKey = s \/ (shmKey = None /\ s = p)
      PROVE  Starts(p)
  <2>. DEFINE k == [proc[p] EXCEPT !.shm = s, !.at = at]
  <2>1. k \in Process /\ k.at = at /\ k.shm = s /\ k.sem = proc[p].sem /\ k.line = proc[p].line
    BY <1>1, <1>4 DEF Process, Steps
  <2>2. proc' = [proc EXCEPT ![p] = k]
    BY <1>1, <1>4
  <2>. HIDE DEF k
  <2>3. Moved(p, at, s, proc[p].sem, proc[p].line)
    BY <1>1, <2>1, <2>2, AssignedRecord
  <2>. QED
    BY <1>2, <1>4, <2>3 DEF Starts
<1>5. CASE /\ shmKey # None
           /\ proc' = [proc EXCEPT ![p].shm = shmKey,
                                   ![p].at = IF p \in Writers THEN "shmat" ELSE "semget"]
           /\ UNCHANGED shmKey
  BY <1>1, <1>4, <1>5 DEF Kind
<1>6. CASE /\ shmKey = None /\ p \in Readers /\ shmKey' = p
           /\ proc' = [proc EXCEPT ![p].shm = p, ![p].at = "semget"]
  BY <1>1, <1>4, <1>6 DEF Kind
<1>. QED
  BY <1>3, <1>5, <1>6 DEF Shmget

LEMMA ShmatKind ==
    ASSUME Base, NEW p \in Procs, Shmat(p)
    PROVE  Kind(p)
<1>1. proc \in [Procs -> Process] /\ Stage(p) /\ proc[p] \in Process /\ At(p, "shmat")
      /\ UNCHANGED ipcVars
  BY ProcType DEF Base, Shmat
<1>2. CASE Exit(p)
  BY <1>1, <1>2, ExitLeaves DEF Kind, At
<1>3. CASE proc' = [proc EXCEPT ![p].mapped = TRUE,
                                ![p].at = IF p \in Writers THEN "semget" ELSE "hello"]
  <2>. DEFINE k == [proc[p] EXCEPT !.mapped = TRUE, !.at = IF p \in Writers THEN "semget" ELSE "hello"]
  <2>1. k \in Process /\ k.shm = proc[p].shm /\ k.sem = proc[p].sem /\ k.line = proc[p].line
        /\ k.at = IF p \in Writers THEN "semget" ELSE "hello"
    BY <1>1 DEF Process, Steps
  <2>2. proc' = [proc EXCEPT ![p] = k]
    BY <1>1, <1>3
  <2>. HIDE DEF k
  <2>3. Walks(p, "shmat", IF p \in Writers THEN "semget" ELSE "hello")
    BY <1>1, <2>1, <2>2, AssignedRecord DEF Walks
  <2>. QED
    BY <1>1, <2>3 DEF Kind, Quietly, Procs
<1>. QED
  BY <1>2, <1>3 DEF Shmat

LEMMA InterruptKind ==
    ASSUME Base, NEW p \in Procs, Interrupt(p)
    PROVE  Kind(p)
<1>1. proc \in [Procs -> Process] /\ Stage(p) /\ proc[p] \in Process
      /\ UNCHANGED ipcVars /\ ~Ended(p) /\ proc[p].at # "new" /\ p \in scene.mortal
  BY ProcType DEF Base, Interrupt, At, Ended
<1>2. CASE Gone(p, "killed")
  <2>1. Walks(p, proc[p].at, "killed")
    BY <1>1, <1>2, Assigned DEF Walks, At, Steps
  <2>. QED
    BY <1>1, <2>1 DEF Kind, Leaves, Stage
<1>3. CASE Armed(p) /\ proc' = [proc EXCEPT ![p].at = "rmshm", ![p].inHandler = TRUE]
  <2>. DEFINE k == [proc[p] EXCEPT !.at = "rmshm", !.inHandler = TRUE]
  <2>1. k \in Process /\ k.shm = proc[p].shm /\ k.sem = proc[p].sem /\ k.line = proc[p].line
        /\ k.at = "rmshm"
    BY <1>1 DEF Process, Steps
  <2>2. proc' = [proc EXCEPT ![p] = k]
    BY <1>1, <1>3
  <2>. HIDE DEF k
  <2>3. Walks(p, proc[p].at, "rmshm")
    BY <1>1, <2>1, <2>2, AssignedRecord DEF Walks, At
  <2>4. p \in First /\ proc[p].sem = p /\ proc[p].shm \in Readers
    <3>1. p \in First /\ proc[p].at \notin {"new", "semget", "setall", "sigaction"}
      BY <1>3 DEF Armed, At
    <3>2. proc[p].at \in Steps
      BY <1>1 DEF Process
    <3>3. p \in Readers /\ p \notin Writers
      BY <3>1, ShmAssumption DEF Readers
    <3>4. proc[p].sem # None
      BY <1>1, <3>1, <3>2, <3>3 DEF Stage, InHelloOrLoop, InLock, Steps, Ended
    <3>. QED
      BY <1>1, <3>1, <3>4 DEF Stage, Ended
  <2>. QED
    BY <1>1, <2>3, <2>4 DEF Kind, Leaves, Stage
<1>. QED
  BY <1>2, <1>3 DEF Interrupt

LEMMA FirstKind ==
    ASSUME Base, NEW f \in First, FirstStep(f)
    PROVE  Kind(f)
<1>1. proc \in [Procs -> Process] /\ Stage(f) /\ proc[f] \in Process /\ f \in Procs
  BY ProcType DEF Base, Procs, Readers
<1>2. CASE CreateSet(f)
  <2>1. CASE semKey # None /\ Gone(f, "end") /\ UNCHANGED ipcVars
    <3>1. At(f, "semget")
      BY <1>2 DEF CreateSet
    <3>2. Walks(f, proc[f].at, "end")
      BY <1>1, <2>1, Assigned DEF Walks, At, Steps
    <3>3. proc[f].sem = None /\ f # None
      BY <1>1, <3>1, ShmAssumption DEF Stage, At
    <3>. QED
      BY <1>1, <2>1, <3>1, <3>2, <3>3 DEF Kind, Leaves, Stage, Ended, At
  <2>2. CASE semKey = None /\ semKey' = f /\ proc' = [proc EXCEPT ![f].sem = f, ![f].at = "setall"]
    <3>. DEFINE k == [proc[f] EXCEPT !.sem = f, !.at = "setall"]
    <3>1. k \in Process /\ k.shm = proc[f].shm /\ k.sem = f /\ k.line = proc[f].line
          /\ k.at = "setall"
      BY <1>1 DEF Process, Steps
    <3>2. proc' = [proc EXCEPT ![f] = k]
      BY <1>1, <2>2
    <3>. HIDE DEF k
    <3>3. Moved(f, "setall", proc[f].shm, f, proc[f].line)
      BY <1>1, <3>1, <3>2, AssignedRecord
    <3>. QED
      BY <1>2, <2>2, <3>3 DEF Kind, Creates, CreateSet
  <2>. QED
    BY <1>2, <2>1, <2>2 DEF CreateSet, ipcVars
<1>3. CASE SetAll(f)
  BY <1>1, <1>3, Assigned DEF SetAll, Kind, Clears, Walks, Steps
<1>4. CASE Sigaction(f)
  BY <1>1, <1>4, Assigned DEF Sigaction, Kind, Quietly, Walks, Steps
<1>5. CASE RemoveShm(f)
  <2>1. CASE ~Alive(proc[f].shm) /\ Gone(f, "end") /\ UNCHANGED ipcVars
    <3>1. At(f, "rmshm")
      BY <1>5 DEF RemoveShm
    <3>2. Walks(f, proc[f].at, "end")
      BY <1>1, <2>1, Assigned DEF Walks, At, Steps
    <3>. QED
      BY <1>1, <2>1, <3>1, <3>2 DEF Kind, Leaves, Stage, Ended, At
  <2>2. CASE /\ removed' = removed \cup {proc[f].shm}
             /\ shmKey' = (IF shmKey = proc[f].shm THEN None ELSE shmKey)
             /\ Go(f, "rmsem") /\ At(f, "rmshm") /\ UNCHANGED <<sem, semKey, mem>>
    <3>1. Walks(f, "rmshm", "rmsem")
      BY <1>1, <2>2, Assigned DEF Walks, Steps
    <3>2. proc[f].shm # None
      BY <1>1, <2>2, ShmAssumption DEF Stage, At, Readers
    <3>. QED
      BY <2>2, <3>1, <3>2 DEF Kind, Removes
  <2>. QED
    BY <1>5, <2>1, <2>2 DEF RemoveShm, ipcVars
<1>6. CASE RemoveSem(f)
  BY <1>1, <1>6, Assigned DEF RemoveSem, Kind, Removes, Walks, Steps
<1>. QED
  BY <1>2, <1>3, <1>4, <1>5, <1>6 DEF FirstStep

LEMMA GetIdKind ==
    ASSUME Base, NEW p \in Others \cup Writers, GetId(p)
    PROVE  Kind(p)
<1>1. proc \in [Procs -> Process] /\ Stage(p) /\ proc[p] \in Process /\ p \in Procs
      /\ p \notin First /\ At(p, "semget") /\ UNCHANGED ipcVars /\ semKey \in First \cup {None}
  BY ProcType, ShmAssumption DEF Base, Procs, Readers, GetId, TypeOK
<1>2. CASE semKey = None
  <2>1. Walks(p, proc[p].at, "end")
    BY <1>1, <1>2, Assigned DEF GetId, Walks, At, Steps
  <2>. QED
    BY <1>1, <2>1 DEF Kind, Leaves, Stage, Ended, At
<1>3. CASE semKey # None
  <2>. DEFINE to == IF p \in Writers THEN "announce" ELSE "shmat"
              k == [proc[p] EXCEPT !.sem = semKey, !.at = to]
  <2>1. k \in Process /\ k.shm = proc[p].shm /\ k.sem = semKey /\ k.line = proc[p].line
        /\ k.at = to
    BY <1>1 DEF Process, Steps
  <2>2. proc' = [proc EXCEPT ![p] = k]
    BY <1>1, <1>3 DEF GetId
  <2>. HIDE DEF k
  <2>3. Moved(p, to, proc[p].shm, semKey, proc[p].line)
    BY <1>1, <2>1, <2>2, AssignedRecord
  <2>. QED
    BY <1>1, <1>3, <2>3 DEF Kind, Learns
<1>. QED
  BY <1>2, <1>3

LEMMA ReaderKind ==
    ASSUME Base, NEW r \in Readers, ReaderStep(r)
    PROVE  Kind(r)
<1>1. proc \in [Procs -> Process] /\ Stage(r) /\ proc[r] \in Process /\ r \in Procs
      /\ mem \in [Readers -> [{1, 2} -> Texts]] /\ r \notin Writers
  BY ProcType, ShmAssumption DEF Base, Procs, Readers, TypeOK
<1>2. CASE SayHello(r)
  BY <1>1, <1>2, Assigned DEF SayHello, Kind, Greets, Walks, Steps
<1>3. CASE Loop(r)
  <2>1. At(r, "loop") /\ UNCHANGED ipcVars
    BY <1>3 DEF Loop
  <2>2. CASE Go(r, "lock")
    <3>1. Walks(r, "loop", "lock")
      BY <1>1, <2>1, <2>2, Assigned DEF Walks, Steps
    <3>. QED
      BY <2>1, <3>1 DEF Kind, Quietly
  <2>3. CASE proc' = [proc EXCEPT ![r].mapped = FALSE,
                                  ![r].at = IF r \in First THEN "rmshm" ELSE "end"]
    <3>. DEFINE to == IF r \in First THEN "rmshm" ELSE "end"
                k == [proc[r] EXCEPT !.mapped = FALSE, !.at = to]
    <3>1. k \in Process /\ k.shm = proc[r].shm /\ k.sem = proc[r].sem /\ k.line = proc[r].line
          /\ k.at = to
      BY <1>1 DEF Process, Steps
    <3>2. proc' = [proc EXCEPT ![r] = k]
      BY <1>1, <2>3
    <3>. HIDE DEF k
    <3>3. Walks(r, proc[r].at, to)
      BY <1>1, <3>1, <3>2, AssignedRecord DEF Walks, At
    <3>4. Leaves(r)
      BY <1>1, <2>1, <3>3 DEF Leaves, Stage, Ended, At, InHelloOrLoop
    <3>. QED
      BY <3>4 DEF Kind
  <2>. QED
    BY <1>3, <2>2, <2>3 DEF Loop
<1>4. CASE ReadLock(r)
  <2>1. At(r, "lock") /\ SetThere(r) /\ UNCHANGED <<semKey, shmKey, removed, mem>>
    BY <1>4 DEF ReadLock
  <2>2. CASE setReadLock /\ Go(r, "print")
    <3>1. Walks(r, "lock", "print")
      BY <1>1, <2>1, <2>2, Assigned DEF Walks, Steps
    <3>. QED
      BY <2>1, <2>2, <3>1 DEF Kind, Reads
  <2>3. CASE setReadLockRange /\ Exit(r)
    <3>1. UNCHANGED ipcVars
      BY <2>1, <2>3 DEF setReadLockRange, ipcVars
    <3>. QED
      BY <1>1, <2>1, <2>3, <3>1, ExitLeaves DEF Kind, At
  <2>. QED
    BY <1>4, <2>2, <2>3 DEF ReadLock
<1>5. CASE PrintLine(r)
  <2>1. proc[r].shm \in Readers
    BY <1>1, <1>5 DEF Stage, PrintLine, At
  <2>2. ASSUME NEW half \in {1, 2}, NEW to \in Steps,
               proc' = [proc EXCEPT ![r].line[half] = mem[proc[r].shm][half], ![r].at = to]
        PROVE  Moved(r, to, proc[r].shm, proc[r].sem,
                     [proc[r].line EXCEPT ![half] = mem[proc[r].shm][half]])
    <3>. DEFINE text == [proc[r].line EXCEPT ![half] = mem[proc[r].shm][half]]
                k == [proc[r] EXCEPT !.line = text, !.at = to]
    <3>1. text \in [{1, 2} -> Texts]
      BY <1>1, <2>1 DEF Process
    <3>2. proc' = [proc EXCEPT ![r] = k]
      BY <1>1, <2>2
    <3>. HIDE DEF text
    <3>3. k \in Process /\ k.shm = proc[r].shm /\ k.sem = proc[r].sem /\ k.line = text /\ k.at = to
      BY <1>1, <3>1 DEF Process
    <3>. HIDE DEF k
    <3>4. Moved(r, to, proc[r].shm, proc[r].sem, text)
      BY <1>1, <3>2, <3>3, AssignedRecord
    <3>. QED
      BY <3>4 DEF text
  <2>3. PICK half \in {1, 2} :
           /\ At(r, <<"print", "print2">>[half])
           /\ proc' = [proc EXCEPT ![r].line[half] = mem[proc[r].shm][half],
                                   ![r].at = <<"print2", "unlock">>[half]]
    BY <1>5 DEF PrintLine
  <2>4. UNCHANGED ipcVars
    BY <1>5 DEF PrintLine
  <2>5. CASE half = 1
    <3>1. <<"print2", "unlock">>[half] = "print2" /\ <<"print", "print2">>[half] = "print"
      BY <2>5
    <3>2. Moved(r, "print2", proc[r].shm, proc[r].sem,
                [proc[r].line EXCEPT ![1] = mem[proc[r].shm][1]])
      BY <2>2, <2>3, <2>5, <3>1 DEF Steps
    <3>. QED
      BY <2>3, <2>4, <3>1, <3>2 DEF Kind, Prints
  <2>6. CASE half = 2
    <3>1. <<"print2", "unlock">>[half] = "unlock" /\ <<"print", "print2">>[half] = "print2"
      BY <2>6
    <3>2. Moved(r, "unlock", proc[r].shm, proc[r].sem,
                [proc[r].line EXCEPT ![2] = mem[proc[r].shm][2]])
      BY <2>2, <2>3, <2>6, <3>1 DEF Steps
    <3>. QED
      BY <2>3, <2>4, <3>1, <3>2 DEF Kind, Prints
  <2>. QED
    BY <2>5, <2>6
<1>6. CASE ReadUnlock(r)
  <2>. DEFINE k == [proc[r] EXCEPT !.at = "loop", !.line = Blanks]
  <2>1. k \in Process /\ k.shm = proc[r].shm /\ k.sem = proc[r].sem /\ k.line = Blanks
        /\ k.at = "loop"
    BY <1>1 DEF Process, Steps, Blanks, Texts
  <2>2. proc' = [proc EXCEPT ![r] = k]
    BY <1>1, <1>6 DEF ReadUnlock
  <2>. HIDE DEF k
  <2>3. Moved(r, "loop", proc[r].shm, proc[r].sem, Blanks)
    BY <1>1, <2>1, <2>2, AssignedRecord
  <2>. QED
    BY <1>6, <2>3 DEF ReadUnlock, Kind, Reads
<1>. QED
  BY <1>2, <1>3, <1>4, <1>5, <1>6 DEF ReaderStep

LEMMA WriterKind ==
    ASSUME Base, NEW w \in Writers, WriterStep(w)
    PROVE  Kind(w)
<1>1. proc \in [Procs -> Process] /\ w \in Procs
  BY ProcType DEF Base, Procs
<1>2. CASE Announce(w)
  BY <1>1, <1>2, Assigned DEF Announce, Kind, Locks, Walks, Steps
<1>3. CASE WriteLock(w)
  BY <1>1, <1>3, Assigned DEF WriteLock, Kind, Locks, Walks, Steps
<1>4. CASE WriteUnlock(w)
  BY <1>1, <1>4, Assigned DEF WriteUnlock, Kind, Locks, Walks, Steps
<1>5. CASE Write(w)
  BY <1>1, <1>5, Assigned DEF Write, Kind, Writes, Walks, Steps
<1>. QED
  BY <1>2, <1>3, <1>4, <1>5 DEF WriterStep

LEMMA Kinds ==
    ASSUME Base, Next
    PROVE  scene' = scene /\ \E p \in Procs : Kind(p)
<1>1. ASSUME NEW p \in Procs, SemopFails(p) PROVE Kind(p)
  BY <1>1, ExitLeaves DEF SemopFails, Kind, At
<1>2. First \subseteq Procs /\ Readers \subseteq Procs /\ Writers \subseteq Procs
      /\ Others \subseteq Procs
  BY DEF Procs, Readers
<1>. QED
  BY <1>1, <1>2, ShmgetKind, ShmatKind, InterruptKind, FirstKind, GetIdKind, ReaderKind, WriterKind
     DEF Next, Step
-----------------------------------------------------------------------------
(* Types and stages. *)

LEMMA MemType ==
    ASSUME TypeOK, NEW p \in Procs, proc[p].shm \in Readers, NEW half \in {1, 2}, NEW text \in Texts,
           Copy(p, half, text)
    PROVE  /\ mem' \in [Readers -> [{1, 2} -> Texts]]
           /\ mem' = [mem EXCEPT ![proc[p].shm] = [mem[proc[p].shm] EXCEPT ![half] = text]]
           /\ mem'[proc[p].shm] = [mem[proc[p].shm] EXCEPT ![half] = text]
<1>1. mem \in [Readers -> [{1, 2} -> Texts]]
  BY DEF TypeOK
<1>2. mem' = [mem EXCEPT ![proc[p].shm] = [mem[proc[p].shm] EXCEPT ![half] = text]]
  BY <1>1 DEF Copy
<1>3. [mem[proc[p].shm] EXCEPT ![half] = text] \in [{1, 2} -> Texts]
  BY <1>1
<1>. QED
  BY <1>1, <1>2, <1>3

LEMMA SemType ==
    ASSUME sem \in [Sems -> 0..SEMVMX]
    PROVE  /\ setReadLock => sem' \in [Sems -> 0..SEMVMX] /\ sem'[0] = sem[0] + 1 /\ sem'[1] = sem[1]
           /\ releaseReadLock => sem' \in [Sems -> 0..SEMVMX] /\ sem'[0] = sem[0] - 1 /\ sem'[1] = sem[1]
           /\ setWriteLock1 => sem' \in [Sems -> 0..SEMVMX] /\ sem'[0] = sem[0] /\ sem'[1] = sem[1] + 1
           /\ releaseWriteLock => sem' \in [Sems -> 0..SEMVMX] /\ sem'[0] = sem[0] /\ sem'[1] = sem[1] - 1
           /\ setWriteLock2 => sem' = sem
           /\ ClearSems \in [Sems -> 0..SEMVMX] /\ ClearSems[0] = 0 /\ ClearSems[1] = 0
  BY SemvmxAssumption DEF Sems, setReadLock, releaseReadLock, setWriteLock1, releaseWriteLock,
     setWriteLock2, ClearSems

LEMMA TypeStep ==
    ASSUME Base, NEW p \in Procs, Kind(p), scene' = scene
    PROVE  TypeOK' /\ Stage(p)'
<1>. DEFINE SharedOK == /\ sem \in [Sems -> 0..SEMVMX] /\ semKey \in First \cup {None}
                        /\ shmKey \in Readers \cup {None} /\ removed \subseteq Readers
                        /\ mem \in [Readers -> [{1, 2} -> Texts]]
<1>1. /\ SharedOK /\ Stage(p) /\ proc \in [Procs -> Process] /\ proc[p] \in Process
      /\ First \subseteq Readers /\ None \notin Readers /\ None \notin First
      /\ Readers \cap Writers = {} /\ First \cap Others = {}
      /\ \A w \in Writers : Mesg[w] \in Texts
      /\ Hello \in Texts
  BY ProcType, ShmAssumption DEF Base, TypeOK, Readers, Texts
<1>2. p \in Readers \/ p \in Writers
  BY DEF Procs
<1>. HIDE DEF SharedOK
<1>3. SUFFICES SharedOK' /\ proc' \in [Procs -> Process] /\ Stage(p)'
  BY DEF TypeOK, Process, SharedOK, Base
<1>4. CASE Leaves(p)
  <2>1. SharedOK'
    BY <1>1, <1>4 DEF Leaves, SharedOK, ipcVars
  <2>2. PICK to \in {"end", "killed", "rmshm"} :
           /\ Walks(p, proc[p].at, to)
           /\ to = "rmshm" => p \in First /\ proc[p].sem = p /\ proc[p].shm \in Readers
    BY <1>4 DEF Leaves
  <2>3. Stage(p)'
    BY <1>1, <1>4, <2>2 DEF Walks, Moved, Stage, Leaves, Ended, InHelloOrLoop, InLock
  <2>. QED
    BY <2>1, <2>2, <2>3 DEF Walks, Moved
<1>5. CASE Starts(p)
  <2>1. SharedOK'
    BY <1>1, <1>5 DEF Starts, SharedOK
  <2>2. Stage(p)'
    BY <1>1, <1>2, <1>5 DEF Starts, Moved, Stage, InHelloOrLoop, InLock, At
  <2>. QED
    BY <1>5, <2>1, <2>2 DEF Starts, Moved
<1>6. CASE Creates(p)
  <2>1. SharedOK'
    BY <1>1, <1>6, SemType DEF Creates, SharedOK
  <2>2. Stage(p)'
    BY <1>1, <1>6 DEF Creates, Moved, Stage, InHelloOrLoop, InLock, At
  <2>. QED
    BY <1>6, <2>1, <2>2 DEF Creates, Moved
<1>7. CASE Clears(p)
  <2>1. SharedOK'
    BY <1>1, <1>7, SemType DEF Clears, SharedOK
  <2>2. Stage(p)'
    BY <1>1, <1>7 DEF Clears, Walks, Moved, Stage, InHelloOrLoop, InLock, At
  <2>. QED
    BY <1>7, <2>1, <2>2 DEF Clears, Walks, Moved
<1>8. CASE Learns(p)
  <2>1. SharedOK'
    BY <1>1, <1>8 DEF Learns, SharedOK, ipcVars
  <2>2. Stage(p)'
    BY <1>1, <1>2, <1>8 DEF Learns, Moved, Stage, InHelloOrLoop, InLock, At
  <2>. QED
    BY <1>8, <2>1, <2>2 DEF Learns, Moved
<1>9. CASE Quietly(p)
  <2>1. SharedOK'
    BY <1>1, <1>9 DEF Quietly, SharedOK, ipcVars
  <2>2. Stage(p)'
    BY <1>1, <1>9 DEF Quietly, Walks, Moved, Stage, InHelloOrLoop, InLock, At
  <2>. QED
    BY <1>9, <2>1, <2>2 DEF Quietly, Walks, Moved
<1>10. CASE Greets(p)
  <2>1. proc[p].shm \in Readers
    BY <1>1, <1>10 DEF Greets, Walks, Stage, At
  <2>2. SharedOK'
    <3>1. mem' \in [Readers -> [{1, 2} -> Texts]]
      BY <1>1, <1>10, <2>1, MemType DEF Greets, Base
    <3>. QED
      BY <1>1, <1>10, <3>1 DEF Greets, Copy, SharedOK
  <2>3. Stage(p)'
    BY <1>1, <1>10 DEF Greets, Walks, Moved, Stage, InHelloOrLoop, InLock, At
  <2>. QED
    BY <1>10, <2>2, <2>3 DEF Greets, Walks, Moved
<1>11. CASE Reads(p)
  <2>1. SharedOK'
    BY <1>1, <1>11, SemType DEF Reads, SharedOK
  <2>2. Stage(p)'
    BY <1>1, <1>11 DEF Reads, Walks, Moved, Stage, InHelloOrLoop, InLock, At
  <2>. QED
    BY <1>11, <2>1, <2>2 DEF Reads, Walks, Moved
<1>12. CASE Prints(p)
  <2>1. SharedOK'
    BY <1>1, <1>12 DEF Prints, SharedOK, ipcVars
  <2>2. Stage(p)'
    BY <1>1, <1>12 DEF Prints, Moved, Stage, InHelloOrLoop, InLock, At
  <2>. QED
    BY <1>12, <2>1, <2>2 DEF Prints, Moved
<1>13. CASE Locks(p)
  <2>1. SharedOK'
    BY <1>1, <1>13, SemType DEF Locks, SharedOK
  <2>2. Stage(p)'
    BY <1>1, <1>13 DEF Locks, Walks, Moved, Stage, InHelloOrLoop, InLock, At
  <2>. QED
    BY <1>13, <2>1, <2>2 DEF Locks, Walks, Moved
<1>14. CASE Writes(p)
  <2>1. proc[p].shm \in Readers
    BY <1>1, <1>14 DEF Writes, Walks, Stage, At
  <2>2. SharedOK'
    <3>1. mem' \in [Readers -> [{1, 2} -> Texts]]
      BY <1>1, <1>14, <2>1, MemType DEF Writes, Base
    <3>. QED
      BY <1>1, <1>14, <3>1 DEF Writes, Copy, SharedOK
  <2>3. Stage(p)'
    BY <1>1, <1>14 DEF Writes, Walks, Moved, Stage, InHelloOrLoop, InLock, At
  <2>. QED
    BY <1>14, <2>2, <2>3 DEF Writes, Walks, Moved
<1>15. CASE Removes(p)
  <2>1. SharedOK'
    BY <1>1, <1>15 DEF Removes, SharedOK, Walks, At, Stage
  <2>2. Stage(p)'
    BY <1>1, <1>15 DEF Removes, Walks, Moved, Stage, InHelloOrLoop, InLock, At
  <2>. QED
    BY <1>15, <2>1, <2>2 DEF Removes, Walks, Moved
<1>. QED
  BY <1>4, <1>5, <1>6, <1>7, <1>8, <1>9, <1>10, <1>11, <1>12, <1>13, <1>14, <1>15 DEF Kind

\* Only these steps change whose set is under the key, and who knows it.
LEMMA SameSets ==
    ASSUME Base, NEW p \in Procs, Kind(p), ~Creates(p), ~Learns(p)
    PROVE  /\ \A q \in Procs : proc'[q].sem = proc[q].sem
           /\ ~Ended(p)
           /\ ~(Removes(p) /\ At(p, "rmsem")) => semKey' = semKey
  BY DEF Kind, Leaves, Starts, Clears, Quietly, Greets, Reads, Prints, Locks, Writes, Removes,
     Walks, Moved, ipcVars, Ended, At, Copy

LEMMA OthersStand ==
    ASSUME NEW p \in Procs, Kind(p)
    PROVE  \A q \in Procs \ {p} : proc'[q] = proc[q]
  BY DEF Kind, Leaves, Starts, Creates, Clears, Learns, Quietly, Greets, Reads, Prints, Locks,
     Writes, Removes, Walks, Moved

LEMMA BaseStep ==
    ASSUME Base, NEW p \in Procs, Kind(p), scene' = scene
    PROVE  Base'
<1>1. \A q \in Procs \ {p} : proc'[q] = proc[q] /\ Stage(q)'
  <2>1. \A q \in Procs \ {p} : proc'[q] = proc[q]
    BY OthersStand
  <2>. QED
    BY <2>1 DEF Base, Stage
<1>2. First \subseteq Procs /\ None \notin First /\ None \notin Procs
  BY ShmAssumption DEF Procs, Readers
<1>3. SetsOwned'
  <2>1. CASE Creates(p)
    <3>1. /\ p \in First /\ semKey = None /\ semKey' = p /\ proc[p].sem = None
          /\ proc'[p].sem = p /\ At(p, "semget")
      BY <2>1 DEF Creates, Moved, Base, Stage, At
    <3>2. ASSUME NEW f \in First, Created(f)', ~Ended(f)' PROVE semKey' = f
      BY <1>1, <1>2, <3>1, <3>2 DEF Base, SetsOwned, Created, Ended
    <3>3. ASSUME NEW q \in Procs, NEW f \in First, proc'[q].sem = f PROVE Created(f)'
      <4>1. CASE q = p
        BY <3>1, <3>3, <4>1 DEF Created
      <4>2. CASE q # p
        <5>1. Created(f)
          BY <1>1, <3>3, <4>2 DEF Base, SetsOwned
        <5>2. f # p
          BY <1>2, <3>1, <5>1 DEF Created
        <5>. QED
          BY <1>1, <1>2, <5>1, <5>2 DEF Created
      <4>. QED
        BY <4>1, <4>2
    <3>4. Created(p)'
      BY <3>1 DEF Created
    <3>. QED
      BY <3>1, <3>2, <3>3, <3>4 DEF SetsOwned
  <2>2. CASE Learns(p)
    <3>1. p \notin First /\ proc'[p].sem = semKey /\ semKey' = semKey /\ semKey # None
      BY <2>2 DEF Learns, Moved, ipcVars
    <3>2. \A f \in First : (Created(f)' <=> Created(f)) /\ (Ended(f)' <=> Ended(f))
      BY <1>1, <1>2, <3>1 DEF Created, Ended
    <3>3. ASSUME NEW q \in Procs, NEW f \in First, proc'[q].sem = f PROVE Created(f)'
      BY <1>1, <3>1, <3>2, <3>3 DEF Base, SetsOwned
    <3>4. semKey \in First
      BY <3>1 DEF Base, TypeOK
    <3>. QED
      BY <3>1, <3>2, <3>3, <3>4 DEF Base, SetsOwned
  <2>3. CASE ~Creates(p) /\ ~Learns(p)
    <3>1. /\ \A q \in Procs : proc'[q].sem = proc[q].sem
          /\ ~Ended(p)
          /\ ~(Removes(p) /\ At(p, "rmsem")) => semKey' = semKey
      BY <2>3, SameSets
    <3>2. \A f \in First : (Created(f)' <=> Created(f)) /\ (Ended(f) => Ended(f)')
      BY <1>1, <1>2, <3>1 DEF Created, Ended
    <3>3. CASE semKey' = semKey
      <4>1. semKey # None => semKey \in First
        BY DEF Base, TypeOK
      <4>. QED
        BY <3>1, <3>2, <3>3, <4>1 DEF Base, SetsOwned
    <3>4. CASE Removes(p) /\ At(p, "rmsem")
      <4>1. semKey' = None /\ p \in First /\ Ended(p)' /\ proc[p].sem # None /\ ~Ended(p)
        BY <3>4 DEF Removes, Walks, Moved, At, Ended, Base, Stage
      <4>2. Created(p) /\ semKey = p
        BY <4>1 DEF Base, Stage, SetsOwned, Created
      <4>3. \A f \in First : Created(f) /\ ~Ended(f) => f = p
        BY <4>2 DEF Base, SetsOwned
      <4>. QED
        BY <3>1, <3>2, <4>1, <4>3 DEF Base, SetsOwned
    <3>. QED
      BY <3>1, <3>3, <3>4
  <2>. QED
    BY <2>1, <2>2, <2>3
<1>4. TypeOK' /\ Stage(p)'
  BY TypeStep
<1>. QED
  BY <1>1, <1>3, <1>4 DEF Base
-----------------------------------------------------------------------------
(* Programs that are started one by one. *)

\* The programs that start, and the set of one that starts is known to nobody.
LEMMA StartsStep ==
    ASSUME Base, OneStarts, scene.patient, NEW p \in Procs, Kind(p), scene' = scene
    PROVE  OneStarts'
<1>1. \A q \in Procs \ {p} : proc'[q] = proc[q] /\ (Starting(q)' <=> Starting(q))
  <2>1. \A q \in Procs \ {p} : proc'[q] = proc[q]
    BY OthersStand
  <2>. QED
    BY <2>1 DEF Starting, At
<1>2. First \subseteq Procs /\ None \notin First
  BY ShmAssumption DEF Procs, Readers
<1>3. CASE Starts(p)
  <2>1. (\A q \in Procs : ~Starting(q)) /\ At(p, "new") /\ proc'[p].sem = proc[p].sem
    BY <1>3 DEF Starts, Moved
  <2>2. proc[p].sem = None
    BY <2>1 DEF Base, Stage, At
  <2>3. \A q \in Procs, f \in First : proc'[q].sem = f => f # p
    <3>1. \A q \in Procs, f \in First : proc'[q].sem = f => Created(f)
      BY <1>1, <1>2, <2>1, <2>2 DEF Base, SetsOwned
    <3>. QED
      BY <1>2, <2>2, <3>1 DEF Created
  <2>. QED
    BY <1>1, <1>2, <2>1, <2>3 DEF OneStarts
<1>4. ASSUME Starting(p)' => Starting(p)
      PROVE  \A q, r \in Procs : Starting(q)' /\ Starting(r)' => q = r
  BY <1>1, <1>4 DEF OneStarts
<1>5. CASE Creates(p)
  <2>1. p \in First /\ proc'[p].sem = p /\ Starting(p) /\ proc[p].sem = None /\ Starting(p)'
    BY <1>5 DEF Creates, Moved, Starting, At, Base, Stage
  <2>2. \A q \in Procs \ {p} : proc[q].sem # p
    BY <1>2, <2>1 DEF Base, SetsOwned, Created
  <2>. QED
    BY <1>1, <1>2, <1>4, <2>1, <2>2 DEF OneStarts
<1>6. CASE Learns(p)
  <2>1. p \notin First /\ proc'[p].sem = semKey /\ Starting(p)
    BY <1>6 DEF Learns, Moved, Starting, At
  <2>2. ASSUME NEW f \in First, NEW q \in Procs, proc'[q].sem = f, q # f PROVE ~Starting(f)'
    BY <1>1, <1>2, <2>1, <2>2 DEF OneStarts
  <2>. QED
    BY <1>4, <2>1, <2>2 DEF OneStarts
<1>7. CASE ~Starts(p) /\ ~Creates(p) /\ ~Learns(p)
  <2>1. \A q \in Procs : proc'[q].sem = proc[q].sem
    BY <1>7, SameSets
  <2>2. Starting(p)' => Starting(p)
    BY <1>7 DEF Kind, Leaves, Clears, Quietly, Greets, Reads, Prints, Locks, Writes, Removes,
       Walks, Moved, Starting, At
  <2>3. ASSUME NEW f \in First, NEW q \in Procs, proc'[q].sem = f, q # f PROVE ~Starting(f)'
    BY <1>1, <1>2, <2>1, <2>2, <2>3 DEF OneStarts
  <2>. QED
    BY <1>4, <2>2, <2>3 DEF OneStarts
<1>. QED
  BY <1>3, <1>5, <1>6, <1>7

LEMMA Finite ==
    ASSUME TRUE
    PROVE  IsFiniteSet(Inside) /\ Cardinality(Inside) \in Nat
<1>1. Inside \subseteq Readers /\ IsFiniteSet(Readers)
  BY ShmAssumption DEF Inside, Readers
<1>. QED
  BY <1>1, FS_Subset, FS_CardinalityType

\* Fewer are inside, and nobody has entered.
LEMMA FewerInside ==
    ASSUME NobodyForgotten, TypeOK, Inside' \subseteq Inside, Announced' \subseteq Announced,
           \A w \in Writers : WriterInside(w)' => WriterInside(w),
           sem'[0] >= sem[0], sem'[1] >= sem[1], sem' \in [Sems -> 0..SEMVMX]
    PROVE  NobodyForgotten'
<1>1. Cardinality(Inside') <= Cardinality(Inside) /\ Cardinality(Inside') \in Nat
  BY Finite, FS_Subset, FS_CardinalityType
<1>2. sem[0] \in Nat /\ sem[1] \in Nat /\ sem'[0] \in Nat /\ sem'[1] \in Nat
  BY SemvmxAssumption DEF TypeOK, Sems
<1>3. Cardinality(Inside) <= sem[0] /\ Cardinality(Inside) \in Nat
  BY Finite DEF NobodyForgotten
<1>4. Cardinality(Inside') <= sem'[0]
  BY <1>1, <1>2, <1>3
<1>5. Announced' # {} => sem'[1] >= 1
  BY <1>2 DEF NobodyForgotten
<1>. QED
  BY <1>4, <1>5 DEF NobodyForgotten

\* A set that is new, cleared or gone: nobody is inside.
LEMMA NobodyInside ==
    ASSUME sem'[0] \in Nat, \A q \in Procs : ~(SetThere(q)' /\ proc'[q].at \in InHelloOrLoop \cup InLock)
    PROVE  NobodyForgotten'
<1>1. Inside' = {} /\ Announced' = {}
  BY DEF Inside, Announced, ReaderInside, At, InHelloOrLoop, InLock, Procs
<1>2. Cardinality(Inside') = 0
  BY <1>1, FS_EmptySet
<1>3. \A w \in Writers : ~WriterInside(w)'
  BY DEF WriterInside, At, InLock, Procs
<1>. QED
  BY <1>1, <1>2, <1>3 DEF NobodyForgotten

\* Who is at the lock of a set that is new, cleared or gone? Nobody.
LEMMA NobodyThere ==
    ASSUME Base, OneStarts, NEW p \in Procs,
           Creates(p) \/ Clears(p) \/ (Removes(p) /\ At(p, "rmsem"))
    PROVE  \A q \in Procs : ~(SetThere(q)' /\ proc'[q].at \in InHelloOrLoop \cup InLock)
<1>1. \A q \in Procs \ {p} : proc'[q] = proc[q]
  BY OthersStand DEF Kind
<1>2. First \subseteq Procs /\ None \notin First
  BY ShmAssumption DEF Procs, Readers
<1>3. CASE Creates(p)
  <2>1. p \in First /\ semKey' = p /\ proc'[p].at = "setall" /\ proc[p].sem = None
    BY <1>3 DEF Creates, Moved, Base, Stage, At
  <2>2. \A q \in Procs \ {p} : proc[q].sem # p
    BY <1>2, <2>1 DEF Base, SetsOwned, Created
  <2>. QED
    BY <1>1, <2>1, <2>2 DEF SetThere, InHelloOrLoop, InLock
<1>4. CASE Clears(p)
  <2>1. p \in First /\ semKey' = semKey /\ proc'[p].at = "sigaction" /\ At(p, "setall")
        /\ ~Ended(p) /\ Starting(p)
    BY <1>4 DEF Clears, Walks, Moved, At, Ended, Starting
  <2>2. semKey = p
    BY <2>1 DEF Base, Stage, SetsOwned, Created, At
  <2>3. \A q \in Procs \ {p} : proc[q].sem # p
    BY <2>1 DEF OneStarts
  <2>. QED
    BY <1>1, <2>1, <2>2, <2>3 DEF SetThere, InHelloOrLoop, InLock
<1>5. CASE Removes(p) /\ At(p, "rmsem")
  <2>1. semKey' = None /\ proc'[p].at = "end"
    BY <1>5 DEF Removes, Walks, Moved, At
  <2>2. \A q \in Procs : proc'[q].sem = None => proc'[q].at \notin InHelloOrLoop \cup InLock
    BY <1>1, <2>1 DEF Base, Stage, InHelloOrLoop, InLock
  <2>. QED
    BY <2>1, <2>2 DEF SetThere
<1>. QED
  BY <1>3, <1>4, <1>5

LEMMA ForgottenStep ==
    ASSUME Base, OneStarts, NobodyForgotten, NEW p \in Procs, Kind(p), scene' = scene
    PROVE  NobodyForgotten'
<1>1. \A q \in Procs \ {p} : proc'[q] = proc[q]
  BY OthersStand
<1>2. /\ TypeOK /\ sem \in [Sems -> 0..SEMVMX] /\ sem[0] \in Nat /\ sem[1] \in Nat
      /\ Readers \subseteq Procs /\ Writers \subseteq Procs /\ Readers \cap Writers = {}
      /\ First \subseteq Readers /\ None \notin First
  BY SemvmxAssumption, ShmAssumption DEF Base, TypeOK, Sems, Procs, Readers
<1>3. ASSUME semKey' = semKey
      PROVE  \A q \in Procs \ {p} : /\ (ReaderInside(q)' <=> ReaderInside(q))
                                    /\ (WriterInside(q)' <=> WriterInside(q))
                                    /\ (SetThere(q)' <=> SetThere(q))
  BY <1>1, <1>3 DEF ReaderInside, WriterInside, SetThere, At
<1>4. ASSUME semKey' = semKey, sem' = sem,
             p \in Readers /\ ReaderInside(p)' => ReaderInside(p),
             p \in Writers /\ WriterInside(p)' => WriterInside(p),
             p \in Writers /\ SetThere(p)' /\ proc'[p].at \in InLock \ {"announce"}
                => SetThere(p) /\ proc[p].at \in InLock \ {"announce"}
      PROVE  NobodyForgotten'
  <2>1. Inside' \subseteq Inside
    BY <1>2, <1>3, <1>4 DEF Inside
  <2>2. Announced' \subseteq Announced
    BY <1>1, <1>2, <1>3, <1>4 DEF Announced
  <2>3. \A w \in Writers : WriterInside(w)' => WriterInside(w)
    BY <1>2, <1>3, <1>4
  <2>. QED
    BY <1>2, <1>4, <2>1, <2>2, <2>3, FewerInside
<1>5. CASE Leaves(p)
  BY <1>4, <1>5 DEF Leaves, Walks, Moved, ReaderInside, WriterInside, At, InLock, ipcVars
<1>6. CASE Starts(p)
  BY <1>4, <1>6 DEF Starts, Moved, ReaderInside, WriterInside, At, InLock
<1>7. CASE Creates(p) \/ Clears(p)
  <2>1. sem'[0] \in Nat
    BY <1>2, <1>7, SemType DEF Creates, Clears
  <2>. QED
    BY <1>7, <2>1, NobodyThere, NobodyInside
<1>9. CASE Learns(p)
  BY <1>4, <1>9 DEF Learns, Moved, ReaderInside, WriterInside, At, InLock, ipcVars
<1>10. CASE Quietly(p)
  BY <1>4, <1>10 DEF Quietly, Walks, Moved, ReaderInside, WriterInside, At, InLock, ipcVars
<1>11. CASE Greets(p)
  BY <1>2, <1>4, <1>11 DEF Greets, Walks, Moved, ReaderInside, WriterInside, At, InLock, Copy
<1>12. CASE Prints(p)
  BY <1>2, <1>4, <1>12 DEF Prints, Moved, ReaderInside, SetThere, At, ipcVars
<1>13. CASE Writes(p)
  BY <1>2, <1>4, <1>13 DEF Writes, Walks, Moved, WriterInside, SetThere, At, Copy, InLock
<1>14. CASE Removes(p)
  <2>1. CASE Walks(p, "rmshm", "rmsem") /\ UNCHANGED semKey
    BY <1>4, <1>14, <2>1 DEF Removes, Walks, Moved, ReaderInside, WriterInside, At, InLock
  <2>2. CASE Walks(p, "rmsem", "end") /\ semKey' = None
    <3>1. At(p, "rmsem") /\ sem'[0] \in Nat
      BY <1>2, <1>14, <2>2 DEF Removes, Walks
    <3>. QED
      BY <1>14, <3>1, NobodyThere, NobodyInside
  <2>. QED
    BY <1>14, <2>1, <2>2 DEF Removes
<1>15. CASE Reads(p)
  <2>1. p \in Readers /\ SetThere(p) /\ semKey' = semKey /\ SetThere(p)'
    BY <1>15 DEF Reads, SetThere, Walks, Moved
  <2>2. Announced' = Announced /\ \A w \in Writers : WriterInside(w)' <=> WriterInside(w)
    BY <1>1, <1>2, <1>3, <2>1 DEF Announced
  <2>3. CASE Walks(p, "lock", "print") /\ setReadLock
    <3>1. Inside' = Inside \cup {p} /\ p \notin Inside
      BY <1>2, <1>3, <2>1, <2>3 DEF Inside, ReaderInside, Walks, Moved, At
    <3>2. Cardinality(Inside') = Cardinality(Inside) + 1
      BY <3>1, Finite, FS_AddElement
    <3>3. sem[1] = 0 /\ sem'[0] = sem[0] + 1 /\ sem'[1] = sem[1]
      BY <1>2, <2>3, SemType DEF setReadLock
    <3>4. Announced = {}
      BY <3>3 DEF NobodyForgotten
    <3>5. \A w \in Writers : WriterInside(w) => w \in Announced
      BY DEF WriterInside, Announced, At, InLock
    <3>6. Cardinality(Inside') <= sem'[0]
      BY <1>2, <3>2, <3>3, Finite DEF NobodyForgotten
    <3>. QED
      BY <2>2, <3>4, <3>5, <3>6 DEF NobodyForgotten
  <2>4. CASE At(p, "unlock") /\ Moved(p, "loop", proc[p].shm, proc[p].sem, Blanks) /\ releaseReadLock
    <3>1. Inside' = Inside \ {p} /\ p \in Inside
      BY <1>2, <1>3, <2>1, <2>4 DEF Inside, ReaderInside, Moved, At
    <3>2. Cardinality(Inside') = Cardinality(Inside) - 1
      BY <3>1, Finite, FS_RemoveElement
    <3>3. sem'[0] = sem[0] - 1 /\ sem'[1] = sem[1]
      BY <1>2, <2>4, SemType
    <3>4. Cardinality(Inside') <= sem'[0]
      BY <1>2, <3>2, <3>3, Finite DEF NobodyForgotten
    <3>5. \A w \in Writers : WriterInside(w)' => Inside' = {}
      BY <2>2, <3>1 DEF NobodyForgotten
    <3>. QED
      BY <2>2, <3>3, <3>4, <3>5 DEF NobodyForgotten
  <2>. QED
    BY <1>15, <2>3, <2>4 DEF Reads
<1>16. CASE Locks(p)
  <2>1. p \in Writers /\ SetThere(p) /\ semKey' = semKey /\ SetThere(p)'
    BY <1>16 DEF Locks, SetThere, Walks, Moved
  <2>2. Inside' = Inside
    BY <1>2, <1>3, <2>1 DEF Inside
  <2>3. CASE Walks(p, "announce", "wait") /\ setWriteLock1
    <3>1. sem[1] = 0 /\ sem'[0] = sem[0] /\ sem'[1] = sem[1] + 1
      BY <1>2, <2>3, SemType DEF setWriteLock1
    <3>2. Announced = {}
      BY <3>1 DEF NobodyForgotten
    <3>3. Announced' \subseteq {p}
      BY <1>1, <1>2, <1>3, <2>1, <3>2 DEF Announced
    <3>4. \A w \in Writers : ~WriterInside(w)'
      <4>1. \A w \in Writers : WriterInside(w) => w \in Announced
        BY DEF WriterInside, Announced, At, InLock
      <4>2. ~WriterInside(p)'
        BY <2>3 DEF WriterInside, Walks, Moved, At
      <4>3. ASSUME NEW w \in Writers PROVE ~WriterInside(w)'
        <5>1. CASE w = p
          BY <4>2, <5>1
        <5>2. CASE w # p
          BY <1>2, <1>3, <2>1, <3>2, <4>1, <5>2
        <5>. QED
          BY <5>1, <5>2
      <4>. QED
        BY <4>3
    <3>5. sem'[1] >= 1 /\ Cardinality(Inside') <= sem'[0]
      BY <1>2, <2>2, <3>1 DEF NobodyForgotten
    <3>. QED
      BY <3>3, <3>4, <3>5 DEF NobodyForgotten
  <2>4. CASE Walks(p, "wait", "write") /\ setWriteLock2
    <3>1. sem[0] = 0 /\ sem' = sem
      BY <2>4 DEF setWriteLock2
    <3>2. Inside = {}
      <4>1. Cardinality(Inside) = 0
        BY <3>1, Finite DEF NobodyForgotten
      <4>. QED
        BY <4>1, Finite, FS_EmptySet
    <3>3. Announced' = Announced
      BY <1>1, <1>2, <1>3, <2>1, <2>4 DEF Announced, Walks, Moved, At, InLock
    <3>. QED
      BY <2>2, <3>1, <3>2, <3>3 DEF NobodyForgotten
  <2>5. CASE Walks(p, "unlock", "end") /\ releaseWriteLock
    <3>1. p \in Announced
      BY <2>1, <2>5 DEF Announced, Walks, At, InLock
    <3>2. Announced' = {}
      <4>1. p \notin Announced'
        BY <2>5 DEF Announced, Walks, Moved, InLock
      <4>2. \A w \in Writers \ {p} : w \notin Announced
        BY <3>1 DEF NobodyForgotten
      <4>3. \A w \in Writers \ {p} : w \notin Announced'
        BY <1>1, <1>2, <1>3, <2>1, <4>2 DEF Announced
      <4>. QED
        BY <4>1, <4>3 DEF Announced
    <3>3. \A w \in Writers : WriterInside(w)' => w \in Announced'
      BY DEF WriterInside, Announced, At, InLock
    <3>4. sem'[0] = sem[0]
      BY <1>2, <2>5, SemType
    <3>. QED
      BY <2>2, <3>2, <3>3, <3>4 DEF NobodyForgotten
  <2>. QED
    BY <1>16, <2>3, <2>4, <2>5 DEF Locks
<1>. QED
  BY <1>5, <1>6, <1>7, <1>9, <1>10, <1>11, <1>12, <1>13, <1>14, <1>15, <1>16 DEF Kind
-----------------------------------------------------------------------------
(* One reader. *)

\* Who is in the lock uses the set and the segment of the one reader.
LEMMA Lone ==
    ASSUME Base, GreetingsOver, OneText, NEW r \in Readers, proc[r].at \in InHelloOrLoop
    PROVE  /\ SetThere(r) /\ r \in First /\ semKey = r /\ proc[r].shm \in Readers
           /\ \A q \in Readers \ {r} : At(q, "new")
           /\ \A w \in Writers : proc[w].at \in InLock =>
                SetThere(w) /\ proc[w].sem = r /\ proc[w].shm = proc[r].shm
<1>1. /\ First \subseteq Readers /\ Readers \subseteq Procs /\ Writers \subseteq Procs
      /\ None \notin Readers /\ proc \in [Procs -> Process]
  BY ProcType, ShmAssumption DEF Base, Procs, Readers
<1>2. \A q \in Readers : proc[q].at # "new" => q \in scene.run
  BY <1>1 DEF Base, Stage
<1>3. r \in scene.run /\ proc[r].shm \in Readers /\ ~Ended(r) /\ proc[r].sem # None
  BY <1>1 DEF Base, Stage, InHelloOrLoop, Ended
<1>4. \A q \in Readers \ {r} : At(q, "new")
  BY <1>2, <1>3 DEF GreetingsOver, At
<1>5. ASSUME NEW p \in Procs, proc[p].sem # None PROVE proc[p].sem = r /\ Created(r) /\ r \in First
  <2>1. proc[p].sem \in First
    BY <1>1, <1>5 DEF Process
  <2>2. Created(proc[p].sem)
    BY <2>1 DEF Base, SetsOwned
  <2>3. proc[p].sem \in scene.run
    BY <1>1, <2>1, <2>2 DEF Base, Stage, Created
  <2>. QED
    BY <1>1, <1>3, <2>1, <2>2, <2>3 DEF GreetingsOver
<1>6. proc[r].sem = r /\ r \in First /\ Created(r)
  BY <1>1, <1>3, <1>5
<1>7. semKey = r
  BY <1>3, <1>6 DEF Base, SetsOwned
<1>8. ASSUME NEW w \in Writers, proc[w].at \in InLock
      PROVE  SetThere(w) /\ proc[w].sem = r /\ proc[w].shm = proc[r].shm
  <2>1. proc[w].sem # None /\ proc[w].shm \in Readers
    BY <1>1, <1>8 DEF Base, Stage, InLock
  <2>2. proc[w].sem = r
    BY <1>1, <1>5, <2>1
  <2>3. proc[w].shm = proc[r].shm
    BY <1>1, <1>3, <2>1 DEF OneText, OneSegment, GreetingsOver
  <2>. QED
    BY <1>7, <2>2, <2>3 DEF SetThere
<1>. QED
  BY <1>3, <1>4, <1>6, <1>7, <1>8 DEF SetThere

\* There is one set, that of the one reader.
LEMMA OneSet ==
    ASSUME Base, GreetingsOver, NEW p \in Procs, NEW q \in Procs, proc[p].sem # None, proc[q].sem # None
    PROVE  proc[p].sem = proc[q].sem
<1>1. First \subseteq Readers /\ Readers \subseteq Procs /\ None \notin Readers /\ proc \in [Procs -> Process]
  BY ProcType, ShmAssumption DEF Base, Procs, Readers
<1>2. ASSUME NEW s \in Procs, proc[s].sem # None PROVE proc[s].sem \in scene.run \cap Readers
  <2>1. proc[s].sem \in First
    BY <1>1, <1>2 DEF Process
  <2>2. Created(proc[s].sem)
    BY <2>1 DEF Base, SetsOwned
  <2>. QED
    BY <1>1, <2>1, <2>2 DEF Base, Stage, Created
<1>. QED
  BY <1>2 DEF GreetingsOver

LEMMA SegmentStep ==
    ASSUME Base, OneText, NEW p \in Procs, Kind(p), scene' = scene
    PROVE  OneSegment'
<1>1. \A q \in Procs \ {p} : proc'[q] = proc[q]
  BY OthersStand
<1>2. CASE Starts(p)
  BY <1>1, <1>2, ShmAssumption DEF Starts, Moved, OneText, OneSegment, Procs, Readers
<1>3. CASE ~Starts(p)
  <2>1. proc'[p].shm = proc[p].shm /\ shmKey' \in {shmKey, None}
    BY <1>3 DEF Kind, Leaves, Creates, Clears, Learns, Quietly, Greets, Reads, Prints, Locks,
       Writes, Removes, Walks, Moved, ipcVars, Copy
  <2>. QED
    BY <1>1, <2>1 DEF OneText, OneSegment
<1>. QED
  BY <1>2, <1>3

\* Steps that touch neither the texts nor the lock.
LEMMA TextsStay ==
    ASSUME OneText, NEW p \in Procs, mem' = mem, sem' = sem, \A q \in Procs \ {p} : proc'[q] = proc[q],
           Inside' \subseteq Inside, Announced' \subseteq Announced, p \notin Announced',
           p \in Readers => ReaderText(p)'
    PROVE  (\A r \in Readers : ReaderText(r)') /\ \A w \in Announced' : WriterText(w)'
<1>1. AtWork => AtWork'
  BY DEF AtWork, At, Announced, Procs
<1>2. \A q \in Procs \ {p} : Text(q)' = Text(q)
  BY DEF Text
<1>3. ASSUME NEW r \in Readers, r # p PROVE ReaderText(r)'
  BY <1>1, <1>2, <1>3 DEF OneText, ReaderText, At, Torn, Procs
<1>4. ASSUME NEW w \in Announced' PROVE WriterText(w)'
  <2>1. w \in Announced /\ w \in Procs \ {p}
    BY DEF Announced, Procs
  <2>. QED
    BY <1>2, <2>1 DEF OneText, WriterText, At
<1>. QED
  BY <1>3, <1>4

LEMMA TextStep ==
    ASSUME Base, OneStarts, NobodyForgotten, GreetingsOver, OneText,
           NEW p \in Procs, Kind(p), scene' = scene
    PROVE  OneText'
<1>1. \A q \in Procs \ {p} : proc'[q] = proc[q]
  BY OthersStand
<1>2. /\ sem \in [Sems -> 0..SEMVMX] /\ sem[0] \in Nat /\ sem[1] \in Nat
      /\ mem \in [Readers -> [{1, 2} -> Texts]]
      /\ Readers \subseteq Procs /\ Writers \subseteq Procs /\ Readers \cap Writers = {}
      /\ First \subseteq Readers /\ None \notin First
      /\ Hello \in Texts /\ \A w \in Writers : Mesg[w] \in Texts
  BY SemvmxAssumption, ShmAssumption DEF Base, TypeOK, Sems, Procs, Readers, Texts
<1>3. SUFFICES (\A r \in Readers : ReaderText(r)') /\ \A w \in Announced' : WriterText(w)'
  BY SegmentStep DEF OneText
<1>4. ASSUME semKey' = semKey
      PROVE  \A q \in Procs \ {p} : (ReaderInside(q)' <=> ReaderInside(q))
                                    /\ (SetThere(q)' <=> SetThere(q))
  BY <1>1, <1>4 DEF ReaderInside, SetThere, At
<1>5. ASSUME semKey' = semKey, sem' = sem, mem' = mem,
             p \in Readers => (ReaderInside(p)' => ReaderInside(p)) /\ ReaderText(p)',
             p \in Writers => proc'[p].at \notin InLock \ {"announce"}
      PROVE  (\A r \in Readers : ReaderText(r)') /\ \A w \in Announced' : WriterText(w)'
  <2>1. Inside' \subseteq Inside
    BY <1>2, <1>4, <1>5 DEF Inside
  <2>2. Announced' \subseteq Announced /\ p \notin Announced'
    BY <1>1, <1>2, <1>4, <1>5 DEF Announced
  <2>. QED
    BY <1>1, <1>5, <2>1, <2>2, TextsStay
<1>6. \A r \in Readers : ReaderInside(r) <=> r \in Inside
  BY DEF Inside
<1>7. CASE Leaves(p)
  <2>1. ReaderText(p)' /\ ~ReaderInside(p)' /\ proc'[p].at \notin InLock
    BY <1>7 DEF Leaves, Walks, Moved, ReaderText, ReaderInside, At, InLock
  <2>. QED
    BY <1>5, <1>7, <2>1 DEF Leaves, ipcVars
<1>8. CASE Starts(p)
  <2>1. ReaderText(p)' /\ ~ReaderInside(p)' /\ proc'[p].at \notin InLock
    BY <1>8 DEF Starts, Moved, ReaderText, ReaderInside, At, InLock
  <2>. QED
    BY <1>5, <1>8, <2>1 DEF Starts
<1>9. CASE Creates(p) \/ Clears(p) \/ (Removes(p) /\ At(p, "rmsem"))
  <2>1. \A w \in Announced' : FALSE
    BY <1>2, <1>9, NobodyThere DEF Announced, InLock
  <2>2. p \in First /\ proc'[p].at \in {"setall", "sigaction", "end"} /\ proc[p].at # "new"
    BY <1>9 DEF Creates, Clears, Removes, Walks, Moved, At
  <2>3. \A r \in Readers \ {p} : proc'[r].at = "new"
    <3>1. \A r \in Readers : proc[r].at # "new" => r \in scene.run
      BY <1>2 DEF Base, Stage
    <3>. QED
      BY <1>1, <1>2, <2>2, <3>1 DEF GreetingsOver
  <2>. QED
    BY <2>1, <2>2, <2>3 DEF ReaderText, At
<1>10. CASE Learns(p)
  <2>1. ReaderText(p)' /\ ~ReaderInside(p)' /\ proc'[p].at \notin InLock \ {"announce"}
    BY <1>10 DEF Learns, Moved, ReaderText, ReaderInside, At, InLock
  <2>. QED
    BY <1>5, <1>10, <2>1 DEF Learns, ipcVars
<1>11. CASE Quietly(p)
  <2>1. ~ReaderInside(p)' /\ proc'[p].at \notin InLock /\ mem' = mem /\ sem' = sem
        /\ semKey' = semKey
    BY <1>11 DEF Quietly, Walks, Moved, ReaderInside, At, InLock, ipcVars
  <2>2. CASE ~At(p, "loop")
    <3>1. ReaderText(p)'
      BY <1>11, <2>2 DEF Quietly, Walks, Moved, ReaderText, At
    <3>. QED
      BY <1>5, <2>1, <3>1
  <2>3. CASE At(p, "loop")
    <3>1. p \in Readers /\ proc'[p].at = "lock" /\ proc'[p].shm = proc[p].shm
      BY <1>11, <2>3 DEF Quietly, Walks, Moved, At
    <3>2. ~Torn(p) \/ AtWork
      BY <2>3, <3>1 DEF OneText, ReaderText, At
    <3>3. Torn(p)' => Torn(p)
      BY <2>1, <3>1 DEF Torn, Text
    <3>4. AtWork => AtWork'
      <4>1. Inside' \subseteq Inside /\ Announced' \subseteq Announced /\ p \notin Announced'
        BY <1>1, <1>2, <1>4, <2>1, <3>1 DEF Inside, Announced
      <4>. QED
        BY <1>1, <1>2, <2>1, <4>1 DEF AtWork, At, Announced
    <3>5. ReaderText(p)'
      BY <3>1, <3>2, <3>3, <3>4 DEF ReaderText, At
    <3>. QED
      BY <1>5, <2>1, <3>5
  <2>. QED
    BY <2>2, <2>3
<1>12. CASE Greets(p)
  <2>1. /\ p \in Readers /\ proc[p].at \in {"hello", "hello2"} /\ proc'[p].at \in {"hello2", "loop"}
        /\ proc'[p].shm = proc[p].shm /\ semKey' = semKey
    BY <1>12 DEF Greets, Walks, Moved, At, Copy
  <2>2. proc[p].at \in InHelloOrLoop
    BY <2>1 DEF InHelloOrLoop
  <2>3. /\ p \in First /\ proc[p].shm \in Readers /\ \A q \in Readers \ {p} : At(q, "new")
        /\ \A w \in Writers : proc[w].at \in InLock => proc[w].sem = p
    BY <2>1, <2>2, Lone
  <2>4. \A w \in Writers : proc[w].at \notin InLock
    <3>1. Starting(p)
      BY <2>1 DEF Starting, At
    <3>. QED
      BY <1>2, <2>1, <2>3, <3>1 DEF OneStarts
  <2>5. Announced' = {}
    BY <1>1, <1>2, <2>1, <2>4 DEF Announced
  <2>6. ReaderText(p)'
    <3>1. CASE Walks(p, "hello", "hello2") /\ Copy(p, 1, Hello)
      <4>1. mem'[proc[p].shm] = [mem[proc[p].shm] EXCEPT ![1] = Hello]
        BY <1>2, <2>1, <2>3, <3>1, MemType DEF Base
      <4>. QED
        BY <1>2, <2>1, <2>3, <3>1, <4>1 DEF ReaderText, At, Text, Walks, Moved
    <3>2. CASE Walks(p, "hello2", "loop") /\ Copy(p, 2, Hello)
      <4>1. mem'[proc[p].shm] = [mem[proc[p].shm] EXCEPT ![2] = Hello]
        BY <1>2, <2>1, <2>3, <3>2, MemType DEF Base
      <4>2. Text(p)[1] = Hello
        BY <2>1, <3>2 DEF OneText, ReaderText, Walks
      <4>. QED
        BY <1>2, <2>1, <2>3, <3>2, <4>1, <4>2 DEF ReaderText, At, Text, Torn, Walks, Moved
    <3>. QED
      BY <1>12, <3>1, <3>2 DEF Greets
  <2>. QED
    BY <1>1, <1>2, <2>3, <2>5, <2>6 DEF ReaderText, At
<1>13. ASSUME p \in Readers, proc[p].at \in InHelloOrLoop, semKey' = semKey, mem' = mem,
              ReaderText(p)'
       PROVE  (\A r \in Readers : ReaderText(r)') /\ \A w \in Announced' : WriterText(w)'
  <2>1. \A q \in Readers \ {p} : At(q, "new")
    BY <1>13, Lone
  <2>2. Announced' = Announced
    BY <1>1, <1>2, <1>4, <1>13 DEF Announced
  <2>3. \A w \in Announced : WriterText(w)'
    BY <1>1, <1>2, <1>13 DEF OneText, WriterText, Text, At, Announced
  <2>. QED
    BY <1>1, <1>2, <1>13, <2>1, <2>2, <2>3 DEF ReaderText, At
<1>14. ASSUME p \in Readers, ReaderInside(p), proc[p].at \in {"print", "print2", "unlock"} PROVE ~Torn(p)
  BY <1>6, <1>14 DEF OneText, ReaderText, AtWork
<1>15. CASE Reads(p)
  <2>1. /\ p \in Readers /\ SetThere(p) /\ semKey' = semKey /\ mem' = mem
        /\ proc[p].at \in {"lock", "unlock"} /\ proc'[p].at \in {"print", "loop"}
        /\ proc'[p].shm = proc[p].shm
    BY <1>15 DEF Reads, Walks, Moved, At
  <2>2. ~Torn(p)
    <3>1. CASE At(p, "lock") /\ setReadLock
      <4>1. ~AtWork
        BY <3>1 DEF AtWork, setReadLock
      <4>. QED
        BY <2>1, <3>1, <4>1 DEF OneText, ReaderText, At
    <3>2. CASE At(p, "unlock")
      BY <1>14, <2>1, <3>2 DEF ReaderInside, At
    <3>. QED
      BY <1>15, <3>1, <3>2 DEF Reads, Walks
  <2>3. ReaderText(p)'
    BY <2>1, <2>2 DEF ReaderText, At, Torn, Text
  <2>4. proc[p].at \in InHelloOrLoop
    BY <2>1 DEF InHelloOrLoop
  <2>. QED
    BY <1>13, <2>1, <2>3, <2>4
<1>16. CASE Prints(p)
  <2>1. /\ p \in Readers /\ semKey' = semKey /\ mem' = mem /\ sem' = sem
        /\ proc[p].at \in {"print", "print2"} /\ proc'[p].shm = proc[p].shm
    BY <1>16 DEF Prints, Moved, At, ipcVars
  <2>2. proc[p].at \in InHelloOrLoop
    BY <2>1 DEF InHelloOrLoop
  <2>3. ReaderInside(p) /\ proc[p].shm \in Readers
    BY <2>1, <2>2, Lone DEF ReaderInside, At
  <2>4. ~Torn(p)
    BY <1>14, <2>1, <2>3
  <2>5. proc[p].line \in [{1, 2} -> Texts]
    BY <1>2, <2>1, ProcType DEF Process, Base
  <2>6. ReaderText(p)'
    <3>1. CASE At(p, "print")
      <4>1. proc'[p].at = "print2" /\ proc'[p].line[1] = mem[proc[p].shm][1]
        BY <1>16, <2>5, <3>1 DEF Prints, Moved, At
      <4>. QED
        BY <2>1, <2>4, <4>1 DEF ReaderText, At, Torn, Text
    <3>2. CASE At(p, "print2")
      <4>1. /\ proc'[p].at = "unlock" /\ proc'[p].line[2] = mem[proc[p].shm][2]
            /\ proc'[p].line[1] = proc[p].line[1]
        BY <1>16, <2>5, <3>2 DEF Prints, Moved, At
      <4>2. proc[p].line[1] = mem[proc[p].shm][1]
        BY <2>1, <3>2 DEF OneText, ReaderText, Text
      <4>. QED
        BY <2>1, <2>4, <4>1, <4>2 DEF ReaderText, At, Torn, Text
    <3>. QED
      BY <2>1, <3>1, <3>2 DEF At
  <2>. QED
    BY <1>13, <2>1, <2>2, <2>6
<1>17. CASE Locks(p)
  <2>1. /\ p \in Writers /\ SetThere(p) /\ semKey' = semKey /\ mem' = mem
        /\ proc[p].at \in {"announce", "wait", "unlock"} /\ proc'[p].at \in {"wait", "write", "end"}
    BY <1>17 DEF Locks, Walks, Moved, At
  <2>2. ~AtWork
    <3>1. CASE At(p, "announce")
      BY <1>17, <3>1 DEF Locks, Walks, At, setWriteLock1, AtWork
    <3>2. CASE ~At(p, "announce")
      <4>1. p \in Announced /\ ~At(p, "write2")
        BY <2>1, <3>2 DEF Announced, InLock, At
      <4>. QED
        BY <4>1 DEF AtWork
    <3>. QED
      BY <3>1, <3>2
  <2>3. ASSUME NEW r \in Readers PROVE ReaderText(r)'
    <3>1. proc'[r] = proc[r] /\ ReaderText(r)
      BY <1>1, <1>2, <2>1 DEF OneText
    <3>. QED
      BY <2>1, <2>2, <3>1 DEF ReaderText, At, Torn, Text
  <2>4. ASSUME NEW w \in Announced' PROVE WriterText(w)'
    <3>1. CASE w = p
      BY <2>1, <3>1 DEF WriterText, At
    <3>2. CASE w # p
      <4>1. w \in Announced /\ proc'[w] = proc[w]
        BY <1>1, <1>2, <1>4, <2>1, <3>2 DEF Announced
      <4>. QED
        BY <2>1, <4>1 DEF OneText, WriterText, At, Text
    <3>. QED
      BY <3>1, <3>2
  <2>. QED
    BY <2>3, <2>4
<1>18. CASE Writes(p)
  <2>1. /\ p \in Writers /\ semKey' = semKey /\ sem' = sem /\ proc[p].at \in {"write", "write2"}
        /\ proc'[p].at \in {"write2", "unlock"} /\ proc'[p].shm = proc[p].shm
        /\ proc'[p].sem = proc[p].sem
    BY <1>18 DEF Writes, Walks, Moved, At, Copy
  <2>2. proc[p].at \in InLock /\ proc[p].shm \in Readers /\ proc[p].sem # None
    BY <1>2, <2>1 DEF Base, Stage, InLock
  <2>3. \/ /\ proc'[p].at = "write2"
           /\ mem'[proc[p].shm] = [mem[proc[p].shm] EXCEPT ![1] = Mesg[p]]
        \/ /\ proc'[p].at = "unlock" /\ At(p, "write2")
           /\ mem'[proc[p].shm] = [mem[proc[p].shm] EXCEPT ![2] = Mesg[p]]
    BY <1>2, <1>18, <2>1, <2>2, MemType DEF Writes, Walks, Moved, Base
  <2>4. SetThere(p) => p \in Announced /\ WriterInside(p)
    BY <2>1 DEF Announced, WriterInside, InLock, At
  <2>5. SetThere(p)' <=> SetThere(p)
    BY <2>1 DEF SetThere
  <2>6. ASSUME NEW w \in Announced' PROVE WriterText(w)'
    <3>1. CASE w = p
      <4>1. mem[proc[p].shm] \in [{1, 2} -> Texts]
        BY <1>2, <2>2
      <4>. QED
        BY <1>2, <2>1, <2>3, <3>1, <4>1 DEF WriterText, At, Text
    <3>2. CASE w # p
      <4>1. w \in Announced
        BY <1>1, <1>2, <1>4, <2>1, <3>2 DEF Announced
      <4>2. w \in Writers /\ SetThere(w) /\ proc[w].at \in InLock
        BY <4>1 DEF Announced
      <4>3. proc[w].sem # None
        BY <1>2, <4>2 DEF Base, Stage
      <4>4. SetThere(p)
        BY <1>2, <2>1, <2>2, <4>2, <4>3, OneSet DEF SetThere
      <4>. QED
        BY <2>4, <3>2, <4>1, <4>4 DEF NobodyForgotten
    <3>. QED
      BY <3>1, <3>2
  <2>7. ASSUME NEW r \in Readers PROVE ReaderText(r)'
    <3>1. proc'[r] = proc[r] /\ r # p
      BY <1>1, <1>2, <2>1
    <3>2. CASE proc[r].at \notin InHelloOrLoop
      BY <3>1, <3>2 DEF ReaderText, At, InHelloOrLoop
    <3>3. CASE proc[r].at \in InHelloOrLoop
      <4>1. SetThere(p) /\ proc[p].sem = r /\ proc[p].shm = proc[r].shm /\ r \in First
        BY <2>1, <2>2, <3>3, Lone
      <4>2. ~Starting(r)
        BY <1>2, <2>1, <3>1, <4>1 DEF OneStarts
      <4>3. r \notin Inside /\ SetThere(r)
        BY <2>1, <2>4, <3>3, <4>1, Lone DEF NobodyForgotten
      <4>4. ~At(r, "print2") /\ ~At(r, "unlock") /\ ~At(r, "print") /\ ~At(r, "hello2")
        BY <4>2, <4>3 DEF Inside, ReaderInside, Starting, At
      <4>5. ~Torn(r)' \/ AtWork'
        <5>1. CASE proc'[p].at = "write2"
          <6>1. sem'[1] >= 1
            BY <2>1, <2>4, <4>1 DEF NobodyForgotten
          <6>2. Inside' = {}
            <7>1. Inside = {}
              BY <2>1, <2>4, <4>1 DEF NobodyForgotten
            <7>. QED
              BY <1>2, <1>4, <2>1, <7>1 DEF Inside
          <6>3. \A w \in Announced' : w = p
            <7>1. \A w \in Announced' : w # p => w \in Announced
              BY <1>1, <1>2, <1>4, <2>1 DEF Announced
            <7>. QED
              BY <2>4, <4>1, <7>1 DEF NobodyForgotten
          <6>. QED
            BY <5>1, <6>1, <6>2, <6>3 DEF AtWork, At
        <5>2. CASE proc'[p].at = "unlock"
          <6>1. Text(p)[1] = Mesg[p]
            BY <2>3, <2>4, <4>1, <5>2 DEF OneText, WriterText
          <6>2. mem[proc[p].shm] \in [{1, 2} -> Texts]
            BY <1>2, <2>2
          <6>. QED
            BY <2>3, <3>1, <4>1, <5>2, <6>1, <6>2 DEF Torn, Text
        <5>. QED
          BY <2>1, <5>1, <5>2
      <4>. QED
        BY <3>1, <4>4, <4>5 DEF ReaderText, At
    <3>. QED
      BY <3>2, <3>3
  <2>. QED
    BY <2>6, <2>7
<1>19. CASE Removes(p) /\ ~At(p, "rmsem")
  <2>1. /\ p \in First /\ UNCHANGED <<sem, mem, semKey>> /\ proc'[p].at = "rmsem"
    BY <1>19 DEF Removes, Walks, Moved, At
  <2>2. ReaderText(p)' /\ ~ReaderInside(p)' /\ p \notin Writers
    BY <1>2, <2>1 DEF ReaderText, ReaderInside, At
  <2>. QED
    BY <1>5, <2>1, <2>2
<1>. QED
  BY <1>7, <1>8, <1>9, <1>10, <1>11, <1>12, <1>15, <1>16, <1>17, <1>18, <1>19 DEF Kind
-----------------------------------------------------------------------------
(* One first reader, which nobody interrupts. *)

LEMMA LeftStep ==
    ASSUME Base, Quiet, ShmLeft, NEW p \in Procs, Kind(p), scene' = scene
    PROVE  ShmLeft'
<1>1. /\ \A q \in Procs \ {p} : proc'[q] = proc[q]
      /\ Base'
  BY OthersStand, BaseStep
<1>2. /\ First \subseteq Readers /\ Readers \subseteq Procs /\ None \notin Readers /\ None \notin First
      /\ proc \in [Procs -> Process] /\ proc' \in [Procs -> Process] /\ Stage(p)
      /\ shmKey \in Readers \cup {None}
  BY <1>1, ProcType, ShmAssumption DEF Base, TypeOK, Process, Procs, Readers
<1>3. proc'[p].at # "new" /\ ~Ended(p)
  BY DEF Kind, Leaves, Starts, Creates, Clears, Learns, Quietly, Greets, Reads, Prints, Locks,
     Writes, Removes, Walks, Moved, Ended, At
<1>4. \A q \in Procs : At(q, "new")' => At(q, "new") /\ q # p
  BY <1>1, <1>3 DEF At
<1>5. \/ /\ Starts(p) /\ At(p, "new") /\ shmKey' = proc'[p].shm /\ proc'[p].shm \in Readers
         /\ proc'[p].shm = shmKey \/ (shmKey = None /\ proc'[p].shm = p)
      \/ proc'[p].shm = proc[p].shm /\ shmKey' \in {shmKey, None}
  <2>1. CASE Starts(p)
    BY <2>1 DEF Starts, Moved
  <2>2. CASE ~Starts(p)
    BY <2>2 DEF Kind, Leaves, Creates, Clears, Learns, Quietly, Greets, Reads, Prints, Locks,
       Writes, Removes, Walks, Moved, ipcVars, Copy
  <2>. QED
    BY <2>1, <2>2
\* Names are used once.
<1>6. /\ \A q \in Procs : proc'[q].shm # None => proc'[proc'[q].shm].at # "new"
      /\ shmKey' # None => proc'[shmKey'].at # "new"
  <2>1. \A q \in Procs : proc[q].shm # None => proc'[proc[q].shm].at # "new"
    <3>1. \A q \in Procs : proc[q].shm # None => proc[q].shm \in Procs /\ proc[proc[q].shm].at # "new"
      BY <1>2 DEF ShmLeft, Process, At
    <3>. QED
      BY <1>4, <3>1 DEF At
  <2>2. shmKey # None => proc'[shmKey].at # "new"
    BY <1>2, <1>4 DEF ShmLeft, At
  <2>3. proc'[p].at # "new"
    BY <1>3
  <2>. QED
    BY <1>1, <1>5, <2>1, <2>2, <2>3
\* Nobody ends as killed, or comes to its exit handler again.
<1>7. p \in First => /\ ~At(p, "killed")'
                     /\ At(p, "rmsem") => At(p, "end")'
                     /\ At(p, "rmsem")' => At(p, "rmshm")
  <2>1. p \in First => p \notin scene.mortal
    BY DEF Quiet
  <2>. QED
    BY <1>2, <2>1 DEF Kind, Leaves, Starts, Creates, Clears, Learns, Quietly, Greets, Reads, Prints,
       Locks, Writes, Removes, Walks, Moved, At, Stage, Procs, Readers
<1>8. \A f \in First : At(f, "killed")' => f \in scene'.mortal
  BY <1>1, <1>2, <1>7 DEF ShmLeft, At
\* The exit handler finds its segment.
<1>9. ASSUME p \in First, proc'[p].sem = p, At(p, "end")'
      PROVE  Removes(p) /\ At(p, "rmsem")
  <2>1. CASE Leaves(p)
    <3>1. proc[p].sem = p /\ p \in scene.run
      BY <1>9, <2>1 DEF Leaves, Walks, Moved
    <3>2. At(p, "rmshm") /\ ~Alive(proc[p].shm)
      BY <1>9, <2>1, <3>1 DEF Leaves, Walks, Moved, At
    <3>3. removed = {}
      BY <1>9, <3>1, <3>2 DEF ShmLeft, At
    <3>. QED
      BY <3>2, <3>3 DEF Alive
  <2>2. CASE ~Leaves(p)
    BY <1>2, <1>9, <2>2, ShmAssumption DEF Kind, Starts, Creates, Clears, Learns, Quietly, Greets, Reads,
       Prints, Locks, Writes, Removes, Walks, Moved, At
  <2>. QED
    BY <2>1, <2>2
<1>10. ASSUME NEW f \in scene'.run \cap First, proc'[f].at \notin {"rmsem", "end"}
       PROVE  removed' = {}
  <2>1. f \in scene.run /\ (proc[f].at \notin {"rmsem", "end"})
    BY <1>1, <1>2, <1>3, <1>7, <1>10 DEF At, Ended
  <2>2. removed = {}
    BY <2>1 DEF ShmLeft
  <2>3. CASE Removes(p) /\ At(p, "rmshm")
    <3>1. p \in First /\ p \in scene.run /\ proc'[p].at = "rmsem"
      BY <1>2, <2>3 DEF Removes, Walks, Moved, At, Stage
    <3>. QED
      BY <1>10, <2>1, <3>1 DEF Quiet, OneFirst
  <2>4. CASE ~(Removes(p) /\ At(p, "rmshm"))
    <3>1. removed' = removed
      BY <2>4 DEF Kind, Leaves, Starts, Creates, Clears, Learns, Quietly, Greets, Reads, Prints, Locks,
         Writes, Removes, Walks, At, ipcVars, Copy
    <3>. QED
      BY <2>2, <3>1
  <2>. QED
    BY <2>3, <2>4
<1>11. ASSUME NEW f \in First, Created(f)', proc'[f].at \in {"rmsem", "end"}
       PROVE  shmKey' # proc'[f].shm
  <2>1. CASE f = p
    <3>1. Removes(p)
      <4>1. CASE At(p, "end")'
        BY <1>9, <1>11, <2>1, <4>1 DEF Created
      <4>2. CASE At(p, "rmsem")'
        BY <1>11, <2>1, <4>2, ShmAssumption DEF Kind, Leaves, Starts, Creates, Clears, Learns, Quietly,
           Greets, Reads, Prints, Locks, Writes, Removes, Walks, Moved, At
      <4>. QED
        BY <1>11, <2>1, <4>1, <4>2 DEF At
    <3>2. CASE Walks(p, "rmshm", "rmsem")
      BY <2>1, <3>1, <3>2 DEF Removes, Walks, Moved, At
    <3>3. CASE Walks(p, "rmsem", "end") /\ UNCHANGED shmKey
      BY <1>11, <2>1, <3>1, <3>3 DEF Removes, Walks, Moved, At, ShmLeft, Created
    <3>. QED
      BY <3>1, <3>2, <3>3 DEF Removes
  <2>2. CASE f # p
    <3>1. proc'[f] = proc[f] /\ shmKey # proc[f].shm
      BY <1>1, <1>2, <1>11, <2>2 DEF ShmLeft, Created
    <3>2. proc[f].shm # None
      BY <1>2, <1>11, <3>1 DEF Base, Stage, Created
    <3>3. proc[f].shm # p \/ ~At(p, "new")
      BY <1>2, <3>2 DEF ShmLeft
    <3>. QED
      BY <1>5, <3>1, <3>2, <3>3
  <2>. QED
    BY <2>1, <2>2
<1>12. ReleasedInAnyCase'
  <2>1. ASSUME NEW f \in First, At(f, "end")', proc'[f].sem = f PROVE semKey' # f
    <3>1. CASE f = p
      BY <1>2, <1>9, <2>1, <3>1 DEF Removes, Walks, At
    <3>2. CASE f # p
      <4>1. proc'[f] = proc[f] /\ semKey # f
        BY <1>1, <1>2, <2>1, <3>2 DEF ShmLeft, ReleasedInAnyCase, At
      <4>2. semKey' \in {semKey, None, p}
        BY DEF Kind, Leaves, Starts, Creates, Clears, Learns, Quietly, Greets, Reads, Prints, Locks,
           Writes, Removes, ipcVars, Copy
      <4>. QED
        BY <1>2, <3>2, <4>1, <4>2
    <3>. QED
      BY <3>1, <3>2
  <2>. QED
    BY <1>11, <2>1 DEF ReleasedInAnyCase, Created, At
<1>. QED
  BY <1>6, <1>8, <1>10, <1>11, <1>12 DEF ShmLeft, At
-----------------------------------------------------------------------------
LEMMA ShmInit ==
    ASSUME Init
    PROVE  ShmInv
<1>1. /\ \A p \in Procs : /\ proc[p].at = "new" /\ proc[p].shm = None /\ proc[p].sem = None
      /\ semKey = None /\ shmKey = None /\ removed = {} /\ sem = ClearSems
      /\ First \subseteq Procs /\ Readers \subseteq Procs /\ Writers \subseteq Procs
      /\ None \notin First
  BY ShmAssumption DEF Init, Procs, Readers
<1>2. TypeOK
  <2>1. Blanks \in [{1, 2} -> Texts] /\ "new" \in Steps
    BY DEF Blanks, Texts, Steps
  <2>2. sem \in [Sems -> 0..SEMVMX]
    BY <1>1, SemvmxAssumption DEF ClearSems, Sems
  <2>. QED
    BY <1>1, <2>1, <2>2 DEF Init, TypeOK
<1>3. Base
  <2>1. \A p \in Procs : Stage(p)
    BY <1>1 DEF Stage, InHelloOrLoop, InLock
  <2>2. SetsOwned
    BY <1>1 DEF SetsOwned, Created
  <2>. QED
    BY <1>2, <2>1, <2>2 DEF Base
<1>4. OneStarts
  BY <1>1 DEF OneStarts, Starting, At
<1>5. Inside = {} /\ Announced = {} /\ \A w \in Writers : ~WriterInside(w)
  BY <1>1 DEF Inside, Announced, ReaderInside, WriterInside, At, InLock
<1>6. NobodyForgotten
  <2>1. Cardinality(Inside) = 0 /\ sem[0] = 0
    BY <1>1, <1>5, FS_EmptySet DEF ClearSems, Sems
  <2>. QED
    BY <1>5, <2>1 DEF NobodyForgotten
<1>7. OneText
  BY <1>1, <1>5 DEF OneText, OneSegment, ReaderText, At
<1>8. ShmLeft
  BY <1>1 DEF ShmLeft, At, ReleasedInAnyCase, Created
<1>. QED
  BY <1>3, <1>4, <1>6, <1>7, <1>8 DEF ShmInv, Patient

LEMMA ShmStep ==
    ASSUME ShmInv, [Next]_vars
    PROVE  ShmInv'
<1>1. CASE Next
  <2>1. Base /\ scene' = scene
    BY <1>1, Kinds DEF ShmInv
  <2>2. PICK p \in Procs : Kind(p)
    BY <1>1, <2>1, Kinds
  <2>3. Base'
    BY <2>1, <2>2, BaseStep
  <2>4. Patient'
    BY <2>1, <2>2, StartsStep, ForgottenStep DEF ShmInv, Patient
  <2>5. GreetingsOver' => OneText'
    <3>1. GreetingsOver' => GreetingsOver /\ scene.patient
      BY <2>1 DEF GreetingsOver
    <3>. QED
      BY <2>1, <2>2, <3>1, TextStep DEF ShmInv, Patient
  <2>6. Quiet' => ShmLeft'
    <3>1. Quiet' => Quiet
      BY <2>1 DEF Quiet, OneFirst
    <3>. QED
      BY <2>1, <2>2, <3>1, LeftStep DEF ShmInv
  <2>. QED
    BY <2>3, <2>4, <2>5, <2>6 DEF ShmInv
<1>2. CASE UNCHANGED vars
  <2>1. UNCHANGED <<sem, semKey, shmKey, removed, mem, proc, scene>>
    BY <1>2 DEF vars, moving, ipcVars
  <2>2. Inside' = Inside /\ Announced' = Announced
    BY <2>1 DEF Inside, Announced, ReaderInside, SetThere, At
  <2>3. Base'
    BY <2>1 DEF ShmInv, Base, TypeOK, Stage, SetsOwned, Created, Ended
  <2>4. Patient'
    <3>1. scene.patient => OneStarts'
      BY <2>1 DEF ShmInv, Patient, OneStarts, Starting, At
    <3>2. scene.patient => NobodyForgotten'
      BY <2>1, <2>2 DEF ShmInv, Patient, NobodyForgotten, WriterInside, SetThere, At
    <3>. QED
      BY <2>1, <3>1, <3>2 DEF Patient
  <2>5. GreetingsOver' => OneText'
    BY <2>1, <2>2 DEF ShmInv, GreetingsOver, OneText, OneSegment, ReaderText, WriterText, AtWork, Torn,
       Text, At
  <2>6. Quiet' => ShmLeft'
    BY <2>1 DEF ShmInv, Quiet, OneFirst, ShmLeft, ReleasedInAnyCase, Created, At
  <2>. QED
    BY <2>3, <2>4, <2>5, <2>6 DEF ShmInv
<1>. QED
  BY <1>1, <1>2

\* The invariant of the programs around the lock, for any number of readers and
\* writers (advanced-reader.c, advanced-writer.c).
THEOREM InvAlways == Spec => []ShmInv
BY ShmInit, ShmStep, PTL DEF Spec

\* The lock excludes in every set under the key while programs are started one
\* by one, whoever is killed (advanced-lock.c).
THEOREM LockExcludes == Spec => []Exclusion
<1>1. ShmInv => Exclusion
  <2>1. \A w \in Writers : WriterInside(w) => w \in Announced
    BY DEF WriterInside, Announced, At, InLock
  <2>2. \A r \in Readers : ReaderInside(r) => r \in Inside
    BY DEF Inside
  <2>. QED
    BY <2>1, <2>2 DEF ShmInv, Patient, NobodyForgotten, Exclusion
<1>. QED
  BY <1>1, InvAlways, PTL

\* A lone reader prints whole messages, however many writers there are and
\* whoever of them is killed (advanced-reader.c, the loop).
THEOREM LinesWhole == Spec => []WholeLine
<1>1. ShmInv => WholeLine
  BY DEF ShmInv, WholeLine, OneText, ReaderText
<1>. QED
  BY <1>1, InvAlways, PTL

\* The one first reader frees what it shared, when it is not interrupted
\* (advanced-reader.c, exithandler); every variable stays within its type.
THEOREM FirstReleases == Spec => []Released
<1>1. ShmInv => Released
  BY DEF ShmInv, Base, Quiet, ShmLeft, Released
<1>. QED
  BY <1>1, InvAlways, PTL
=============================================================================
