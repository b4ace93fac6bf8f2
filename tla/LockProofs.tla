------------------------------ MODULE LockProofs ------------------------------
(***************************************************************************)
(* Proofs about two ways to keep others out: the semaphores of             *)
(* AdvancedLockUsers, and the mutex with its condition variable of         *)
(* FileThreadCopy.                                                         *)
(***************************************************************************)
EXTENDS AdvancedLockUsers, FileThreadCopy, FiniteSetTheorems, SequenceTheorems, TLAPS
-----------------------------------------------------------------------------
(* AdvancedLockUsers, for every finite set of readers, every set of        *)
(* writers and every limit SEMVMX: the semaphores count the readers and    *)
(* the writer exactly, the lock excludes, and it implements the abstract   *)
(* readers/writers lock.                                                   *)

USE SemvmxAssumption, UsersAssumption

\* The set of the readers inside is finite, so that it can be counted.
LEMMA ReadingFinite == IsFiniteSet(Reading) /\ Cardinality(Reading) \in Nat
<1>1. Reading \subseteq Readers
  BY DEF Reading
<1>2. IsFiniteSet(Reading)
  BY <1>1, FS_Subset
<1>. QED
  BY <1>2, FS_CardinalityType

\* Entering adds one to the number of readers inside.
LEMMA OneMoreReader ==
    ASSUME UsersTypeOK, NEW r \in Readers, Moves(r, "idle", "reading")
    PROVE  /\ Reading' = Reading \cup {r}
           /\ Cardinality(Reading') = Cardinality(Reading) + 1
<1>1. Reading' = Reading \cup {r} /\ r \notin Reading
  BY DEF Moves, Reading, UsersTypeOK, Procs
<1>. QED
  BY <1>1, ReadingFinite, FS_AddElement

\* Leaving takes one away.
LEMMA OneLessReader ==
    ASSUME UsersTypeOK, NEW r \in Readers, Moves(r, "reading", "idle")
    PROVE  /\ Reading' = Reading \ {r}
           /\ Cardinality(Reading') = Cardinality(Reading) - 1
<1>1. Reading' = Reading \ {r} /\ r \in Reading
  BY DEF Moves, Reading, UsersTypeOK, Procs
<1>. QED
  BY <1>1, ReadingFinite, FS_RemoveElement

\* The programs stay where the protocol allows and the semaphores in range.
LEMMA TypeStep == UsersTypeOK /\ [UsersNext]_usersVars => UsersTypeOK'
<1>. SUFFICES ASSUME UsersTypeOK, [UsersNext]_usersVars
              PROVE  UsersTypeOK'
  OBVIOUS
<1>. USE DEF UsersTypeOK, Procs, ReaderStates, WriterStates, Sems, Moves
<1>1. ASSUME NEW p \in Procs, Start(p) PROVE UsersTypeOK'
  BY <1>1 DEF Start
<1>2. ASSUME NEW p \in Procs, Kill(p) PROVE UsersTypeOK'
  BY <1>2 DEF Kill
<1>3. ASSUME NEW r \in Readers, ReadLock(r) PROVE UsersTypeOK'
  BY <1>3 DEF ReadLock, setReadLock
<1>4. ASSUME NEW r \in Readers, ReadLockFails(r) PROVE UsersTypeOK'
  BY <1>4 DEF ReadLockFails, setReadLockRange
<1>5. ASSUME NEW r \in Readers, ReadUnlock(r) PROVE UsersTypeOK'
  BY <1>5 DEF ReadUnlock, releaseReadLock
<1>6. ASSUME NEW r \in Readers, ReaderEnds(r) PROVE UsersTypeOK'
  BY <1>6 DEF ReaderEnds
<1>7. ASSUME NEW w \in Writers, Announce(w) PROVE UsersTypeOK'
  BY <1>7 DEF Announce, setWriteLock1
<1>8. ASSUME NEW w \in Writers, WriteLock(w) PROVE UsersTypeOK'
  BY <1>8 DEF WriteLock, setWriteLock2
<1>9. ASSUME NEW w \in Writers, WriteUnlock(w) PROVE UsersTypeOK'
  BY <1>9 DEF WriteUnlock, releaseWriteLock
<1>10. CASE UNCHANGED usersVars
  BY <1>10 DEF usersVars
<1>. QED
  BY <1>1, <1>2, <1>3, <1>4, <1>5, <1>6, <1>7, <1>8, <1>9, <1>10
     DEF UsersNext, ReaderStep, WriterStep

\* The invariant holds at the start: nobody is inside, both semaphores are 0.
LEMMA LockInit == UsersInit => LockInv
<1>. SUFFICES ASSUME UsersInit PROVE LockInv
  OBVIOUS
<1>1. UsersTypeOK
  BY DEF UsersInit, UsersTypeOK, ClearSems, Procs, ReaderStates, WriterStates, Sems
<1>2. Reading = {} /\ Announced = {} /\ Writing = {}
  BY DEF UsersInit, Reading, Announced, Writing, Procs
<1>3. Cardinality(Reading) = 0
  BY <1>2, FS_EmptySet
<1>4. sem[0] = 0 /\ sem[1] = 0
  BY DEF UsersInit, ClearSems, Sems
<1>. QED
  BY <1>1, <1>2, <1>3, <1>4 DEF LockInv, SemsExact, MutualExclusion

\* Each operation keeps the semaphores exact and the lock exclusive. A reader
\* gets in only while sem[1] is 0, hence while no writer is announced; a writer
\* gets in only while sem[0] is 0, hence while no reader is inside; and the
\* programs killed inside keep their pc, so they stay counted.
LEMMA LockStep == LockInv /\ [UsersNext]_usersVars => LockInv'
<1>. SUFFICES ASSUME LockInv, [UsersNext]_usersVars
              PROVE  SemsExact' /\ MutualExclusion'
  BY TypeStep DEF LockInv
<1>. UsersTypeOK /\ SemsExact /\ MutualExclusion
  BY DEF LockInv
<1>0. ASSUME UNCHANGED <<sem, Reading, Announced, Writing>>
      PROVE  SemsExact' /\ MutualExclusion'
  BY <1>0 DEF SemsExact, MutualExclusion
<1>1. ASSUME NEW p \in Procs, Start(p)
      PROVE  SemsExact' /\ MutualExclusion'
  <2>1. UNCHANGED <<sem, Reading, Announced, Writing>>
    BY <1>1 DEF Start, Moves, Reading, Announced, Writing, UsersTypeOK
  <2>. QED
    BY <2>1, <1>0
<1>2. ASSUME NEW p \in Procs, Kill(p)
      PROVE  SemsExact' /\ MutualExclusion'
  <2>1. UNCHANGED <<sem, Reading, Announced, Writing>>
    <3>1. CASE at[p] = "idle"
      BY <1>2, <3>1 DEF Kill, Reading, Announced, Writing, UsersTypeOK, Procs
    <3>2. CASE at[p] # "idle"
      BY <1>2, <3>2 DEF Kill, Reading, Announced, Writing
    <3>. QED
      BY <3>1, <3>2
  <2>. QED
    BY <2>1, <1>0
<1>3. ASSUME NEW r \in Readers, ReadLock(r)
      PROVE  SemsExact' /\ MutualExclusion'
  <2>1. Cardinality(Reading') = Cardinality(Reading) + 1
    BY <1>3, OneMoreReader DEF ReadLock
  <2>2. UNCHANGED <<Announced, Writing>>
    BY <1>3 DEF ReadLock, Moves, Announced, Writing, UsersTypeOK
  <2>3. Announced = {} /\ Writing = {}
    BY <1>3 DEF ReadLock, setReadLock, SemsExact, Announced, Writing
  <2>4. sem'[0] = sem[0] + 1 /\ sem'[1] = sem[1]
    BY <1>3 DEF ReadLock, setReadLock, UsersTypeOK, Sems
  <2>5. SemsExact'
    BY <2>1, <2>2, <2>4 DEF SemsExact
  <2>6. MutualExclusion'
    BY <2>2, <2>3 DEF MutualExclusion
  <2>. QED
    BY <2>5, <2>6
<1>4. ASSUME NEW r \in Readers, ReadLockFails(r)
      PROVE  SemsExact' /\ MutualExclusion'
  <2>1. UNCHANGED <<sem, Reading, Announced, Writing>>
    BY <1>4 DEF ReadLockFails, setReadLockRange, Moves, Reading, Announced, Writing, UsersTypeOK
  <2>. QED
    BY <2>1, <1>0
<1>5. ASSUME NEW r \in Readers, ReadUnlock(r)
      PROVE  SemsExact' /\ MutualExclusion'
  <2>1. /\ Cardinality(Reading') = Cardinality(Reading) - 1
        /\ Reading' \subseteq Reading
    BY <1>5, OneLessReader DEF ReadUnlock
  <2>2. UNCHANGED <<Announced, Writing>>
    BY <1>5 DEF ReadUnlock, Moves, Announced, Writing, UsersTypeOK
  <2>3. sem'[0] = sem[0] - 1 /\ sem'[1] = sem[1]
    BY <1>5 DEF ReadUnlock, releaseReadLock, UsersTypeOK, Sems
  <2>. QED
    BY <2>1, <2>2, <2>3 DEF SemsExact, MutualExclusion
<1>6. ASSUME NEW r \in Readers, ReaderEnds(r)
      PROVE  SemsExact' /\ MutualExclusion'
  <2>1. UNCHANGED <<sem, Reading, Announced, Writing>>
    BY <1>6 DEF ReaderEnds, Moves, Reading, Announced, Writing, UsersTypeOK
  <2>. QED
    BY <2>1, <1>0
<1>7. ASSUME NEW w \in Writers, Announce(w)
      PROVE  SemsExact' /\ MutualExclusion'
  <2>1. Announced = {} /\ Announced' = {w}
    BY <1>7 DEF Announce, Moves, setWriteLock1, SemsExact, Announced, UsersTypeOK, Procs
  <2>2. UNCHANGED <<Reading, Writing>>
    BY <1>7 DEF Announce, Moves, Reading, Writing, UsersTypeOK
  <2>3. sem'[0] = sem[0] /\ sem'[1] = 1
    BY <1>7 DEF Announce, setWriteLock1, UsersTypeOK, Sems
  <2>. QED
    BY <2>1, <2>2, <2>3 DEF SemsExact, MutualExclusion
<1>8. ASSUME NEW w \in Writers, WriteLock(w)
      PROVE  SemsExact' /\ MutualExclusion'
  <2>1. UNCHANGED <<sem, Reading, Announced>>
    BY <1>8 DEF WriteLock, setWriteLock2, Moves, Reading, Announced, UsersTypeOK
  <2>2. SemsExact'
    BY <2>1 DEF SemsExact
  <2>3. Reading = {}
    BY <1>8, ReadingFinite, FS_EmptySet DEF WriteLock, setWriteLock2, SemsExact
  <2>4. Writing' \subseteq Announced'
    BY DEF Writing, Announced
  <2>. QED
    BY <2>1, <2>2, <2>3, <2>4 DEF SemsExact, MutualExclusion
<1>9. ASSUME NEW w \in Writers, WriteUnlock(w)
      PROVE  SemsExact' /\ MutualExclusion'
  <2>1. Announced = {w} /\ Announced' = {}
    BY <1>9 DEF WriteUnlock, Moves, SemsExact, Announced, UsersTypeOK, Procs
  <2>2. Reading' = Reading /\ Writing' = {}
    BY <1>9, <2>1 DEF WriteUnlock, Moves, Reading, Announced, Writing, UsersTypeOK
  <2>3. sem'[0] = sem[0] /\ sem'[1] = 0
    BY <1>9, <2>1 DEF WriteUnlock, releaseWriteLock, SemsExact, UsersTypeOK, Sems
  <2>. QED
    BY <2>1, <2>2, <2>3 DEF SemsExact, MutualExclusion
<1>10. CASE UNCHANGED usersVars
  BY <1>10, <1>0 DEF usersVars, Reading, Announced, Writing
<1>. QED
  BY <1>1, <1>2, <1>3, <1>4, <1>5, <1>6, <1>7, <1>8, <1>9, <1>10
     DEF UsersNext, ReaderStep, WriterStep

\* In every behaviour of the lock and its users, whoever is killed, the
\* semaphores count exactly and a writer inside is alone.
THEOREM Invariance == UsersSpec => []LockInv
<1>. QED
  BY LockInit, LockStep, PTL DEF UsersSpec

\* Programs stay where the code lets them be, and the semaphores in range, for
\* any SEMVMX and any kills (advanced-lock.c).
THEOREM UsersTypeCorrect == UsersSpec => []UsersTypeOK
<1>1. LockInv => UsersTypeOK
  BY DEF LockInv
<1>. QED
  BY <1>1, Invariance, PTL

\* The lock excludes: no writer beside a reader or another writer.
THEOREM Exclusion == UsersSpec => []MutualExclusion
<1>1. LockInv => MutualExclusion
  BY DEF LockInv
<1>. QED
  BY <1>1, Invariance, PTL

\* The two semaphores are the number of readers inside and the flag of a
\* writer that holds or waits.
THEOREM Counting == UsersSpec => [](UsersTypeOK /\ SemsExact)
<1>1. LockInv => UsersTypeOK /\ SemsExact
  BY DEF LockInv
<1>. QED
  BY <1>1, Invariance, PTL

\* Once a writer is past its first semop nobody overtakes it.
THEOREM DoorShut == UsersSpec => NoBarging
<1>1. LockInv /\ [UsersNext]_usersVars =>
        [Announced # {} => /\ Reading' \subseteq Reading
                           /\ Announced' \subseteq Announced]_usersVars
  <2>. SUFFICES ASSUME LockInv, UsersNext, Announced # {}
                PROVE  Reading' \subseteq Reading /\ Announced' \subseteq Announced
    OBVIOUS
  <2>1. sem[1] # 0
    BY DEF LockInv, SemsExact
  <2>2. (\A r \in Readers : ~ReadLock(r)) /\ (\A w \in Writers : ~Announce(w))
    BY <2>1 DEF ReadLock, setReadLock, Announce, setWriteLock1
  <2>. USE DEF Moves, Reading, Announced, LockInv, UsersTypeOK, Procs
  <2>3. ASSUME NEW p \in Procs, Start(p) \/ Kill(p)
        PROVE  Reading' \subseteq Reading /\ Announced' \subseteq Announced
    BY <2>3 DEF Start, Kill
  <2>4. ASSUME NEW r \in Readers, ReadLockFails(r) \/ ReadUnlock(r) \/ ReaderEnds(r)
        PROVE  Reading' \subseteq Reading /\ Announced' \subseteq Announced
    BY <2>4 DEF ReadLockFails, ReadUnlock, ReaderEnds
  <2>5. ASSUME NEW w \in Writers, WriteLock(w) \/ WriteUnlock(w)
        PROVE  Reading' \subseteq Reading /\ Announced' \subseteq Announced
    BY <2>5 DEF WriteLock, WriteUnlock
  <2>. QED
    BY <2>2, <2>3, <2>4, <2>5 DEF UsersNext, ReaderStep, WriterStep
<1>. QED
  BY <1>1, Invariance, PTL DEF UsersSpec, NoBarging

-----------------------------------------------------------------------------
\* At the start nobody is inside, in the abstract lock too.
LEMMA InitRefines == UsersInit => RW!Init
  BY DEF UsersInit, RW!Init, Reading, Writing, Procs

\* Every step of the semaphores is a step of the abstract lock or changes
\* nothing there: setReadLock is BeginRead, the second semop of setWriteLock is
\* BeginWrite, the releases are the ends, and the first semop is invisible.
LEMMA StepRefines == LockInv /\ [UsersNext]_usersVars => [RW!Next]_<<Reading, Writing>>
<1>. SUFFICES ASSUME LockInv, [UsersNext]_usersVars
              PROVE  RW!Next \/ UNCHANGED <<Reading, Writing>>
  OBVIOUS
<1>. UsersTypeOK /\ SemsExact /\ MutualExclusion
  BY DEF LockInv
<1>1. ASSUME NEW p \in Procs, Start(p)
      PROVE  UNCHANGED <<Reading, Writing>>
  BY <1>1 DEF Start, Moves, Reading, Writing, UsersTypeOK, Procs
<1>2. ASSUME NEW p \in Procs, Kill(p)
      PROVE  UNCHANGED <<Reading, Writing>>
  <2>1. CASE at[p] = "idle"
    BY <1>2, <2>1 DEF Kill, Reading, Writing, UsersTypeOK, Procs
  <2>2. CASE at[p] # "idle"
    BY <1>2, <2>2 DEF Kill, Reading, Writing
  <2>. QED
    BY <2>1, <2>2
<1>3. ASSUME NEW r \in Readers, ReadLock(r)
      PROVE  RW!BeginRead(r)
  <2>1. Writing = {}
    BY <1>3 DEF ReadLock, setReadLock, SemsExact, Announced, Writing
  <2>2. r \notin Reading /\ Reading' = Reading \cup {r}
    BY <1>3, OneMoreReader DEF ReadLock, Moves, Reading
  <2>3. Writing' = Writing
    BY <1>3 DEF ReadLock, Moves, Writing, UsersTypeOK, Procs
  <2>. QED
    BY <2>1, <2>2, <2>3 DEF RW!BeginRead
<1>4. ASSUME NEW r \in Readers, ReadLockFails(r) \/ ReaderEnds(r)
      PROVE  UNCHANGED <<Reading, Writing>>
  BY <1>4 DEF ReadLockFails, ReaderEnds, Moves, Reading, Writing, UsersTypeOK, Procs
<1>5. ASSUME NEW r \in Readers, ReadUnlock(r)
      PROVE  RW!EndRead(r)
  <2>1. r \in Reading /\ Reading' = Reading \ {r}
    BY <1>5, OneLessReader DEF ReadUnlock, Moves, Reading
  <2>2. Writing' = Writing
    BY <1>5 DEF ReadUnlock, Moves, Writing, UsersTypeOK, Procs
  <2>. QED
    BY <2>1, <2>2 DEF RW!EndRead
<1>6. ASSUME NEW w \in Writers, Announce(w)
      PROVE  UNCHANGED <<Reading, Writing>>
  BY <1>6 DEF Announce, Moves, Reading, Writing, UsersTypeOK, Procs
<1>7. ASSUME NEW w \in Writers, WriteLock(w)
      PROVE  RW!BeginWrite(w)
  <2>1. Reading = {}
    BY <1>7, ReadingFinite, FS_EmptySet DEF WriteLock, setWriteLock2, SemsExact
  <2>2. Announced = {w} /\ Writing = {}
    BY <1>7 DEF WriteLock, Moves, SemsExact, Announced, Writing
  <2>3. Writing' = {w} /\ Reading' = Reading
    BY <1>7, <2>2 DEF WriteLock, Moves, Reading, Writing, UsersTypeOK, Procs
  <2>. QED
    BY <2>1, <2>2, <2>3 DEF RW!BeginWrite
<1>8. ASSUME NEW w \in Writers, WriteUnlock(w)
      PROVE  RW!EndWrite(w)
  <2>1. w \in Writing /\ Writing' = Writing \ {w}
    BY <1>8 DEF WriteUnlock, Moves, Writing, UsersTypeOK, Procs
  <2>2. Reading' = Reading
    BY <1>8 DEF WriteUnlock, Moves, Reading, UsersTypeOK, Procs
  <2>. QED
    BY <2>1, <2>2 DEF RW!EndWrite
<1>9. CASE UNCHANGED usersVars
  BY <1>9 DEF usersVars, Reading, Writing
<1>. QED
  BY <1>1, <1>2, <1>3, <1>4, <1>5, <1>6, <1>7, <1>8, <1>9
     DEF UsersNext, ReaderStep, WriterStep, RW!Next

\* advanced-lock.c implements a readers/writers lock.
THEOREM Implements == UsersSpec => Abstract
<1>. QED
  BY InitRefines, StepRefines, Invariance, PTL
     DEF UsersSpec, Abstract, RW!Spec, RW!rwVars

-----------------------------------------------------------------------------
(* FileThreadCopy, for every source file, every buffer size and every      *)
(* interleaving: the buffer is used by one thread at a time, and unless    *)
(* writes are short, no byte is lost, doubled or overtaken, and the        *)
(* program implements Copy.                                                *)

USE CopyAssumption

\* Reading the next block continues the prefix that has been read.
LEMMA PrefixGrows ==
    ASSUME NEW p \in 0..Len(Source), NEW n \in 0..(Len(Source) - p)
    PROVE  /\ Prefix(p) \o SubSeq(Source, p + 1, p + n) = Prefix(p + n)
           /\ Prefix(p) \in Seq(Nat) /\ Len(Prefix(p)) = p
           /\ SubSeq(Source, p + 1, p + n) \in Seq(Nat)
           /\ Len(SubSeq(Source, p + 1, p + n)) = n
<1>1. Prefix(p) \o SubSeq(Source, p + 1, p + n) = Prefix(p + n)
  <2>1. 1 \in 1..(Len(Source) + 1) /\ p \in (1 - 1)..Len(Source)
        /\ p + n \in p..Len(Source)
    OBVIOUS
  <2>. QED
    BY <2>1, ConcatAdjacentSubSeq DEF Prefix
<1>2. Prefix(p) \in Seq(Nat) /\ Len(Prefix(p)) = p
  <2>1. \A i \in 1..p : Source[i] \in Nat
    OBVIOUS
  <2>. QED
    BY <2>1, SubSeqProperties DEF Prefix
<1>3. /\ SubSeq(Source, p + 1, p + n) \in Seq(Nat)
      /\ Len(SubSeq(Source, p + 1, p + n)) = n
  <2>1. \A i \in (p + 1)..(p + n) : Source[i] \in Nat
    OBVIOUS
  <2>. QED
    BY <2>1, SubSeqProperties
<1>. QED
  BY <1>1, <1>2, <1>3

\* At the start nothing has been read or written.
LEMMA CopyInit == Init => CopyInv
<1>. SUFFICES ASSUME Init PROVE CopyInv
  OBVIOUS
<1>1. TypeOK
  <2>1. buf \in Seq(Nat) /\ dest \in Seq(Nat)
    BY DEF Init
  <2>2. nbytes \in -1..BUF_SIZE /\ written \in -1..BUF_SIZE /\ pos \in 0..Len(Source)
    BY DEF Init
  <2>3. pc \in [Threads -> {"new", "lock", "test", "wait", "work", "signal", "end"}]
    BY DEF Init
  <2>. QED
    BY <2>1, <2>2, <2>3 DEF Init, TypeOK
<1>2. <<>> = Prefix(0) /\ Len(<<>>) = 0 /\ <<>> \o <<>> = <<>>
  BY SubSeqEmpty, ConcatEmptySeq DEF Prefix
<1>3. NothingLost /\ DestIsPrefix
  <2>1. dest = <<>> /\ pos = 0 /\ full = FALSE
    BY DEF Init
  <2>2. NothingLost
    BY <1>2, <2>1 DEF NothingLost
  <2>3. DestIsPrefix
    BY <1>2, <2>1 DEF DestIsPrefix
  <2>. QED
    BY <2>2, <2>3
<1>4. /\ Exclusive /\ \A t \in Threads : pc[t] = "work" => MyTurn(t)
      /\ main \in {"open", "ask", "refused"} => pc[verbraucher] = "new"
  BY DEF Init, Exclusive, Threads, erzeuger, verbraucher
<1>5. /\ Len(buf) = IF nbytes = -1 THEN 0 ELSE nbytes
      /\ written = -1 => pc[verbraucher] \in {"signal", "end"}
  BY <1>2 DEF Init
<1>. QED
  BY <1>1, <1>3, <1>4, <1>5 DEF CopyInv

\* A step that touches neither the file, the buffer's bytes nor whose turn it
\* is keeps what the invariant says about them.
LEMMA DataUntouched ==
    ASSUME CopyInv, UNCHANGED <<full, buf, nbytes, fileVars, shortWrites>>
    PROVE  /\ (Len(buf) = IF nbytes = -1 THEN 0 ELSE nbytes)'
           /\ NothingLost' /\ DestIsPrefix'
           /\ full' \in BOOLEAN /\ buf' \in Seq(Nat)
           /\ nbytes' \in -1..BUF_SIZE /\ written' \in -1..BUF_SIZE
           /\ pos' \in 0..Len(Source) /\ dest' \in Seq(Nat)
           /\ shortWrites' \in BOOLEAN
  BY DEF CopyInv, TypeOK, NothingLost, DestIsPrefix, Prefix, fileVars

\* What the consumer has to write continues the destination.
LEMMA BufferFollows ==
    ASSUME CopyInv, ~shortWrites, full, written >= 0
    PROVE  /\ Len(dest) + Len(buf) = pos
           /\ dest \o buf = Prefix(pos)
           /\ SubSeq(buf, 1, Len(buf)) = buf
<1>1. dest \o buf = Prefix(pos) /\ dest \in Seq(Nat) /\ buf \in Seq(Nat)
      /\ pos \in 0..Len(Source)
  BY DEF CopyInv, NothingLost, TypeOK
<1>2. Len(Prefix(pos)) = pos
  BY <1>1, SubSeqProperties DEF Prefix
<1>3. Len(dest \o buf) = Len(dest) + Len(buf)
  BY <1>1
<1>4. SubSeq(buf, 1, Len(buf)) = buf
  BY <1>1, SubSeqFull
<1>. QED
  BY <1>1, <1>2, <1>3, <1>4

\* The part of the invariant that is about places, and not about bytes.
Places ==
    /\ main \in {"open", "ask", "join1", "join2", "success", "refused"}
    /\ pc \in [Threads -> {"new", "lock", "test", "wait", "work", "signal", "end"}]
    /\ mutex \in Threads \cup {Nobody}
    /\ asleep \in SUBSET Threads
    /\ Exclusive
    /\ \A t \in Threads : pc[t] = "work" => MyTurn(t)
    /\ main \in {"open", "ask", "refused"} => pc[verbraucher] = "new"

\* Every step keeps it: a thread enters its critical section with the mutex
\* free, and only the thread at work changes whose turn it is.
LEMMA PlacesStep == Places /\ [Next]_vars => Places'
<1>. SUFFICES ASSUME Places, [Next]_vars PROVE Places'
  OBVIOUS
<1>0. Places
  OBVIOUS
<1>. USE DEF Places, Exclusive, MyTurn, Threads, erzeuger, verbraucher, Nobody
<1>1. CASE OpenFiles
  BY <1>0, <1>1 DEF OpenFiles, StartThreads, bufferVars
<1>2. CASE Answer
  BY <1>0, <1>2 DEF Answer, StartThreads, bufferVars
<1>3. CASE Join
  BY <1>0, <1>3 DEF Join, bufferVars
<1>4. CASE Fill
  BY <1>0, <1>4 DEF Fill, Go
<1>5. CASE Drain
  BY <1>0, <1>5 DEF Drain, Go
<1>6. CASE Signal
  BY <1>0, <1>6 DEF Signal, Go, fileVars
<1>7. ASSUME NEW t \in Threads, Lock(t) PROVE Places'
  BY <1>0, <1>7 DEF Lock, Go
<1>8. ASSUME NEW t \in Threads, Test(t) PROVE Places'
  <2>. mutex = t /\ UNCHANGED <<main, full>>
    BY <1>8 DEF Test
  <2>1. CASE MyTurn(t) /\ Go(t, "test", "work") /\ UNCHANGED <<mutex, asleep>>
    <3>1. \A u \in Threads : u # t => pc[u] \notin {"test", "work"}
      BY <1>0
    <3>. QED
      BY <1>0, <2>1, <3>1 DEF Go
  <2>2. CASE /\ Go(t, "test", "wait") /\ mutex' = Nobody
             /\ asleep' = asleep \cup {t}
    BY <1>0, <2>2 DEF Go
  <2>. QED
    BY <1>8, <2>1, <2>2 DEF Test
<1>9. ASSUME NEW t \in Threads, SpuriousWakeup(t) PROVE Places'
  BY <1>0, <1>9 DEF SpuriousWakeup
<1>10. CASE UNCHANGED vars
  BY <1>0, <1>10 DEF vars, moving
<1>. QED
  BY <1>1, <1>2, <1>3, <1>4, <1>5, <1>6, <1>7, <1>8, <1>9, <1>10 DEF Next, Step

LEMMA CopyPlaces == CopyInv => Places
  BY DEF CopyInv, TypeOK, Places

\* The producer fills the buffer only when it is empty, and continues what has
\* been read so far.
LEMMA FillStep ==
    ASSUME CopyInv, Fill, UNCHANGED shortWrites
    PROVE  CopyInv'
<1>1. Places'
  BY PlacesStep, CopyPlaces DEF Next, Step
<1>2. /\ full = FALSE /\ full' = TRUE /\ dest \in Seq(Nat)
      /\ pos \in 0..Len(Source) /\ written \in -1..BUF_SIZE
      /\ UNCHANGED <<written, dest, main>>
      /\ pc[verbraucher] = pc'[verbraucher]
  BY DEF Fill, Go, CopyInv, TypeOK, MyTurn, Threads, erzeuger, verbraucher
<1>3. /\ buf' \in Seq(Nat) /\ nbytes' \in -1..BUF_SIZE /\ pos' \in 0..Len(Source)
      /\ Len(buf') = IF nbytes' = -1 THEN 0 ELSE nbytes'
      /\ Prefix(pos) \o buf' = Prefix(pos')
  <2>1. CASE /\ nbytes' = Available
             /\ buf' = SubSeq(Source, pos + 1, pos + Available)
             /\ pos' = pos + Available
    <3>1. Available \in 0..(Len(Source) - pos) /\ Available \in 0..BUF_SIZE
      BY <1>2 DEF Available, AtMost
    <3>2. /\ Prefix(pos) \o SubSeq(Source, pos + 1, pos + Available)
             = Prefix(pos + Available)
          /\ SubSeq(Source, pos + 1, pos + Available) \in Seq(Nat)
          /\ Len(SubSeq(Source, pos + 1, pos + Available)) = Available
      BY <1>2, <3>1, PrefixGrows
    <3>3. buf' \in Seq(Nat) /\ Len(buf') = nbytes' /\ nbytes' \in 0..BUF_SIZE
      BY <2>1, <3>1, <3>2
    <3>4. Prefix(pos) \o buf' = Prefix(pos')
      BY <2>1, <3>2
    <3>5. pos' \in 0..Len(Source)
      BY <1>2, <2>1, <3>1
    <3>. QED
      BY <3>3, <3>4, <3>5
  <2>2. CASE nbytes' = -1 /\ buf' = <<>> /\ UNCHANGED pos
    <3>1. Prefix(pos) \in Seq(Nat)
      <4>. 0 \in 0..(Len(Source) - pos)
        BY <1>2
      <4>. QED
        BY <1>2, PrefixGrows
    <3>2. Prefix(pos) \o <<>> = Prefix(pos) /\ Len(<<>>) = 0
      BY <3>1, ConcatEmptySeq
    <3>. QED
      BY <1>2, <2>2, <3>2
  <2>. QED
    BY <2>1, <2>2 DEF Fill
<1>4. NothingLost'
  <2>1. ~shortWrites /\ written >= 0 => dest = Prefix(pos)
    <3>1. dest \o <<>> = dest
      BY <1>2, ConcatEmptySeq
    <3>. QED
      BY <1>2, <3>1 DEF CopyInv, NothingLost
  <2>. QED
    BY <1>2, <1>3, <2>1 DEF NothingLost, Prefix
<1>5. DestIsPrefix' /\ (written = -1 => pc[verbraucher] \in {"signal", "end"})'
  BY <1>2 DEF CopyInv, DestIsPrefix, Prefix
<1>. QED
  BY <1>1, <1>2, <1>3, <1>4, <1>5 DEF CopyInv, TypeOK, Places

\* The consumer writes the buffer only when it is full, and all of it or
\* nothing, unless writes are short.
LEMMA DrainStep ==
    ASSUME CopyInv, Drain, UNCHANGED shortWrites
    PROVE  /\ CopyInv'
           /\ \/ UNCHANGED dest \/ shortWrites
              \/ /\ nbytes \in 1..BUF_SIZE
                 /\ dest' = Prefix(Len(dest) + nbytes)
                 /\ Len(dest) + nbytes <= Len(Source)
<1>1. Places'
  BY PlacesStep, CopyPlaces DEF Next, Step
<1>2. /\ full /\ full' = FALSE /\ dest \in Seq(Nat) /\ buf \in Seq(Nat)
      /\ pos \in 0..Len(Source) /\ nbytes \in -1..BUF_SIZE
      /\ written >= 0 /\ UNCHANGED <<buf, nbytes, pos>>
      /\ pc'[verbraucher] = "signal" /\ shortWrites' \in BOOLEAN
      /\ Len(buf) = IF nbytes = -1 THEN 0 ELSE nbytes
  <2>1. pc[verbraucher] = "work" /\ full' = FALSE
        /\ UNCHANGED <<buf, nbytes, pos>>
    BY DEF Drain, Go
  <2>2. pc'[verbraucher] = "signal"
    BY DEF Drain, Go, CopyInv, TypeOK, Threads, verbraucher
  <2>3. full
    BY <2>1 DEF CopyInv, MyTurn, Threads
  <2>4. written >= 0
    BY <2>1 DEF CopyInv, TypeOK
  <2>. QED
    BY <2>1, <2>2, <2>3, <2>4 DEF CopyInv, TypeOK
<1>3. ~shortWrites => /\ Len(dest) + Len(buf) = pos
                      /\ dest \o buf = Prefix(pos)
                      /\ SubSeq(buf, 1, Len(buf)) = buf
  BY <1>2, BufferFollows
<1>4. Prefix(pos) \in Seq(Nat) /\ Len(Prefix(pos)) = pos
  <2>. 0 \in 0..(Len(Source) - pos)
    BY <1>2
  <2>. QED
    BY <1>2, PrefixGrows
<1>5. CASE ~shortWrites /\ written' = nbytes /\ nbytes # -1
  <2>1. dest' = Prefix(pos)
    BY <1>2, <1>3, <1>5 DEF Drain
  <2>2. dest' \o <<>> = dest'
    BY <1>4, <2>1, ConcatEmptySeq
  <2>3. NothingLost' /\ DestIsPrefix'
    BY <1>2, <1>4, <2>1, <2>2 DEF NothingLost, DestIsPrefix, Prefix
  <2>4. CopyInv'
    BY <1>1, <1>2, <1>4, <1>5, <2>1, <2>3 DEF CopyInv, TypeOK, Places
  <2>5. UNCHANGED dest \/ /\ nbytes \in 1..BUF_SIZE
                          /\ dest' = Prefix(Len(dest) + nbytes)
                          /\ Len(dest) + nbytes <= Len(Source)
    <3>1. CASE nbytes = 0
      <4>1. buf = <<>>
        BY <1>2, <3>1
      <4>. QED
        BY <1>2, <1>3, <1>5, <2>1, <4>1, ConcatEmptySeq
    <3>2. CASE nbytes \in 1..BUF_SIZE
      BY <1>2, <1>3, <1>5, <2>1, <3>2
    <3>. QED
      BY <1>2, <1>5, <3>1, <3>2
  <2>. QED
    BY <2>4, <2>5
<1>6. CASE written' = -1
  <2>1. SubSeq(buf, 1, -1) = <<>>
    BY SubSeqEmpty
  <2>2. dest' = dest
    BY <1>2, <1>6, <2>1, ConcatEmptySeq DEF Drain
  <2>3. NothingLost' /\ DestIsPrefix'
    BY <1>6, <2>2 DEF CopyInv, NothingLost, DestIsPrefix, Prefix
  <2>4. dest' \in Seq(Nat) /\ written' \in -1..BUF_SIZE
    BY <1>2, <1>6, <2>2
  <2>5. TypeOK'
    BY <1>1, <1>2, <2>4 DEF TypeOK, Places
  <2>6. CopyInv'
    BY <1>1, <1>2, <2>3, <2>5 DEF CopyInv, Places
  <2>. QED
    BY <2>2, <2>6
<1>7. CASE shortWrites /\ written' # -1
  <2>1. written' \in 0..nbytes
    BY <1>2, <1>7 DEF Drain
  <2>2. SubSeq(buf, 1, written') \in Seq(Nat)
    <3>1. \A i \in 1..written' : buf[i] \in Nat
      BY <1>2, <2>1
    <3>. QED
      BY <2>1, <3>1, SubSeqProperties
  <2>3. dest' \in Seq(Nat)
    BY <1>2, <2>2 DEF Drain
  <2>4. CopyInv'
    <3>1. TypeOK'
      <4>1. written' \in -1..BUF_SIZE
        BY <1>2, <2>1
      <4>. QED
        BY <1>1, <1>2, <2>3, <4>1 DEF TypeOK, Places
    <3>2. NothingLost' /\ DestIsPrefix'
      BY <1>7 DEF NothingLost, DestIsPrefix
    <3>3. Len(buf') = IF nbytes' = -1 THEN 0 ELSE nbytes'
      BY <1>2
    <3>4. written' = -1 => pc'[verbraucher] \in {"signal", "end"}
      BY <1>7
    <3>. QED
      BY <1>1, <3>1, <3>2, <3>3, <3>4 DEF CopyInv, Places
  <2>. QED
    BY <1>7, <2>4
<1>. QED
  BY <1>2, <1>5, <1>6, <1>7 DEF Drain

\* Every step keeps the invariant.
LEMMA CopyStep ==
    ASSUME CopyInv, [Next]_vars
    PROVE  CopyInv'
<1>. UNCHANGED shortWrites
  BY DEF Next, vars
<1>1. Places'
  BY PlacesStep, CopyPlaces
<1>2. CASE Fill
  BY <1>2, FillStep
<1>3. CASE Drain
  BY <1>3, DrainStep
<1>4. CASE UNCHANGED <<full, buf, nbytes, fileVars>>
  <2>1. (written = -1 => pc[verbraucher] \in {"signal", "end"})'
    <3>. SUFFICES ASSUME written = -1 PROVE pc'[verbraucher] \in {"signal", "end"}
      BY <1>4 DEF fileVars
    <3>1. /\ pc[verbraucher] \in {"signal", "end"} /\ pc[verbraucher] # "new"
          /\ main \notin {"open", "ask"} /\ ~(written > 0)
      BY DEF CopyInv
    <3>2. CASE UNCHANGED pc
      BY <3>1, <3>2
    <3>3. CASE Signal
      <4>1. pc' = [pc EXCEPT ![verbraucher] = "end"]
        BY <3>1, <3>3 DEF Signal, Go
      <4>. QED
        BY <4>1 DEF CopyInv, TypeOK, Threads
    <3>4. ASSUME NEW t \in Threads, Lock(t) \/ Test(t)
          PROVE  pc'[verbraucher] \in {"signal", "end"}
      <4>1. /\ pc[t] \in {"lock", "wait", "test"}
            /\ \E to : pc' = [pc EXCEPT ![t] = to]
        BY <3>4 DEF Lock, Test, Go
      <4>2. t # verbraucher
        BY <3>1, <4>1
      <4>. QED
        BY <3>1, <4>1, <4>2 DEF CopyInv, TypeOK, Threads
    <3>5. CASE Fill
      BY <3>1, <3>5 DEF Fill, Go, CopyInv, TypeOK, Threads, erzeuger, verbraucher
    <3>6. ~Drain
      BY <3>1 DEF Drain, Go
    <3>. QED
      BY <3>1, <3>2, <3>3, <3>4, <3>5, <3>6
         DEF Next, Step, vars, moving, OpenFiles, Answer, Join, SpuriousWakeup
  <2>2. /\ (Len(buf) = IF nbytes = -1 THEN 0 ELSE nbytes)'
        /\ NothingLost' /\ DestIsPrefix'
        /\ full' \in BOOLEAN /\ buf' \in Seq(Nat)
        /\ nbytes' \in -1..BUF_SIZE /\ written' \in -1..BUF_SIZE
        /\ pos' \in 0..Len(Source) /\ dest' \in Seq(Nat)
        /\ shortWrites' \in BOOLEAN
    BY <1>4, DataUntouched
  <2>. QED
    BY <1>1, <2>1, <2>2 DEF CopyInv, TypeOK, Places
<1>. QED
  BY <1>2, <1>3, <1>4
     DEF Next, Step, vars, moving, OpenFiles, Answer, Join, Signal, Lock, Test,
         SpuriousWakeup, bufferVars, fileVars

\* The invariant holds always (thread_copy.c, both threads).
THEOREM CopyInvariance == Spec => []CopyInv
<1>1. CopyInv /\ [Next]_vars => CopyInv'
  BY CopyStep
<1>. QED
  BY <1>1, CopyInit, PTL DEF Spec

\* The buffer is used under the mutex, by one thread at a time.
THEOREM BufferExclusive == Spec => []Exclusive
<1>1. Init => Places
  BY DEF Init, Places, Exclusive, Threads, erzeuger, verbraucher, Nobody
<1>2. Places => Exclusive
  BY DEF Places
<1>. QED
  BY <1>1, <1>2, PlacesStep, PTL DEF Spec

\* A thread that sleeps waits for the other one, which is going to signal: the
\* consumer sleeps while the buffer is empty, the producer while it is full or
\* the consumer is between its unlock and its signal.
SleepInv ==
    /\ full \in BOOLEAN
    /\ main \in {"open", "ask"} => pc[erzeuger] = "new"
    /\ erzeuger \in asleep => pc[erzeuger] = "wait" /\ (full \/ pc[verbraucher] = "signal")
    /\ verbraucher \in asleep => pc[verbraucher] = "wait" /\ ~full

\* Who falls asleep has found the buffer in the state of the other one.
LEMMA SleepStep ==
    ASSUME Places, SleepInv, [Next]_vars
    PROVE  SleepInv'
<1>. USE DEF Places, SleepInv, Threads, erzeuger, verbraucher
<1>1. CASE OpenFiles \/ Answer \/ Join
  BY <1>1 DEF OpenFiles, Answer, Join, StartThreads, bufferVars
<1>2. CASE Fill \/ Signal
  BY <1>2 DEF Fill, Signal, Go
<1>3. CASE Drain
  BY <1>3 DEF Drain, Go
<1>4. ASSUME NEW t \in Threads, Lock(t) PROVE SleepInv'
  BY <1>4 DEF Lock, Go
<1>5. ASSUME NEW t \in Threads, Test(t) PROVE SleepInv'
  <2>1. UNCHANGED <<main, full>> /\ pc[t] = "test"
    BY <1>5 DEF Test, Go
  <2>2. CASE Go(t, "test", "work") /\ UNCHANGED asleep
    BY <2>1, <2>2 DEF Go
  <2>3. CASE Go(t, "test", "wait") /\ asleep' = asleep \cup {t} /\ full # (t = verbraucher)
    <3>0. main \notin {"open", "ask"}
      BY <2>1
    <3>1. CASE t = erzeuger
      <4>1. full
        BY <2>3, <3>1
      <4>2. verbraucher \notin asleep
        BY <4>1
      <4>3. verbraucher \notin asleep'
        BY <2>3, <3>1, <4>2
      <4>4. pc'["erzeuger"] = "wait"
        BY <2>3, <3>1 DEF Go
      <4>. QED
        BY <2>1, <3>0, <4>1, <4>3, <4>4
    <3>2. CASE t = verbraucher
      BY <2>1, <2>3, <3>2 DEF Go
    <3>. QED
      BY <3>1, <3>2
  <2>. QED
    BY <1>5, <2>2, <2>3 DEF Test, MyTurn
<1>6. ASSUME NEW t \in Threads, SpuriousWakeup(t) PROVE SleepInv'
  BY <1>6 DEF SpuriousWakeup
<1>7. CASE UNCHANGED vars
  BY <1>7 DEF vars, moving
<1>. QED
  BY <1>1, <1>2, <1>3, <1>4, <1>5, <1>6, <1>7 DEF Next, Step

\* One condition variable is enough for two threads: they never both sleep,
\* though the consumer signals after its unlock (thread_copy.c:87).
THEOREM OneAwake == Spec => []NotBothAsleep
<1>1. Init => Places /\ SleepInv
  BY DEF Init, Places, SleepInv, Exclusive, Threads, erzeuger, verbraucher, Nobody
<1>2. Places /\ SleepInv /\ [Next]_vars => Places' /\ SleepInv'
  BY PlacesStep, SleepStep
<1>3. SleepInv => NotBothAsleep
  BY DEF SleepInv, NotBothAsleep, Threads
<1>. QED
  BY <1>1, <1>2, <1>3, PTL DEF Spec

\* The buffer never holds more than BUF_SIZE bytes, and no thread reads past the
\* end of the source (thread_copy.c, both threads).
THEOREM TypeCorrect == Spec => []TypeOK
<1>1. CopyInv => TypeOK
  BY DEF CopyInv
<1>. QED
  BY <1>1, CopyInvariance, PTL

\* Destination and buffer together are what has been read, and the destination
\* is a beginning of the source, whatever fails, unless writes are short.
THEOREM NoByteLost == Spec => [](NothingLost /\ DestIsPrefix)
<1>1. CopyInv => NothingLost /\ DestIsPrefix
  BY DEF CopyInv
<1>. QED
  BY <1>1, CopyInvariance, PTL

\* thread_copy.c copies the file block by block, in order, unless writes are
\* short.
THEOREM ImplementsCopy == Spec => CopiesInOrder
<1>. DEFINE copied == IF shortWrites THEN <<>> ELSE dest
<1>1. Init => CopySpec!Init
  BY DEF Init, CopySpec!Init
<1>2. CopyInv /\ [Next]_vars => [CopySpec!Next]_copied
  <2>. SUFFICES ASSUME CopyInv, [Next]_vars PROVE [CopySpec!Next]_copied
    OBVIOUS
  <2>. UNCHANGED shortWrites
    BY DEF Next, vars
  <2>1. CASE Drain
    BY <2>1, DrainStep DEF CopySpec!Next, CopySpec!Extend, Prefix
  <2>2. CASE ~Drain
    BY <2>2
       DEF Next, Step, vars, moving, OpenFiles, Answer, Join, Fill, Signal, Lock, Test,
           SpuriousWakeup, fileVars
  <2>. QED
    BY <2>1, <2>2
<1>. QED
  BY <1>1, <1>2, CopyInvariance, PTL
     DEF Spec, CopiesInOrder, CopySpec!Spec
=============================================================================
