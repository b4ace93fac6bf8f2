------------------------- MODULE AdvancedLockUsers --------------------------
(***************************************************************************)
(* The lock of AdvancedLock in the hands of any number of reader and       *)
(* writer programs (advanced-reader.c, advanced-writer.c), each following  *)
(* the protocol set - work - release, started again and again, and some of *)
(* them (Mortal) killed at any moment, also while they hold the lock.      *)
(* The programs around the lock are in AdvancedShm; this module is about   *)
(* the lock itself, and what is proved about it.                           *)
(***************************************************************************)
EXTENDS AdvancedLock, FiniteSets

CONSTANTS Readers, Writers,
          Mortal            \* the programs that may be killed

ASSUME UsersAssumption ==
    /\ IsFiniteSet(Readers)
    /\ Readers \cap Writers = {}
    /\ Mortal \subseteq Readers \cup Writers

VARIABLES at,    \* where each program is
          dead   \* the programs killed while they held (part of) the lock

usersVars == <<sem, at, dead>>

Procs == Readers \cup Writers

ReaderStates == {"out", "idle", "reading"}
WriterStates == {"out", "idle", "announced", "writing"}

UsersTypeOK ==
    /\ sem \in [Sems -> 0..SEMVMX]
    /\ at \in [Procs -> ReaderStates \cup WriterStates]
    /\ \A r \in Readers : at[r] \in ReaderStates
    /\ \A w \in Writers : at[w] \in WriterStates
    /\ dead \subseteq Mortal

UsersInit ==
    /\ sem = ClearSems
    /\ at = [p \in Procs |-> "out"]
    /\ dead = {}

Moves(p, from, to) ==
    /\ p \notin dead
    /\ at[p] = from
    /\ at' = [at EXCEPT ![p] = to]
    /\ UNCHANGED dead

\* Somebody runs the program; it reaches the call of its set function.
Start(p) == Moves(p, "out", "idle") /\ UNCHANGED sem

ReadLock(r) == Moves(r, "idle", "reading") /\ setReadLock

\* setReadLock returned -1: the reader prints the error and exits.
ReadLockFails(r) == Moves(r, "idle", "out") /\ setReadLockRange

\* releaseReadLock; the loop of the reader goes on ...
ReadUnlock(r) == Moves(r, "reading", "idle") /\ releaseReadLock

\* ... until it meets the stop message.
ReaderEnds(r) == Moves(r, "idle", "out") /\ UNCHANGED sem

Announce(w) == Moves(w, "idle", "announced") /\ setWriteLock1

WriteLock(w) == Moves(w, "announced", "writing") /\ setWriteLock2

WriteUnlock(w) == Moves(w, "writing", "out") /\ releaseWriteLock

\* A signal ends p. What p added to the semaphores stays (no SEM_UNDO).
Kill(p) ==
    /\ p \in Mortal \ dead
    /\ at[p] # "out"
    /\ IF at[p] = "idle"
       THEN at' = [at EXCEPT ![p] = "out"] /\ UNCHANGED dead
       ELSE dead' = dead \cup {p} /\ UNCHANGED at
    /\ UNCHANGED sem

ReaderStep(r) == ReadLock(r) \/ ReadLockFails(r) \/ ReadUnlock(r)
WriterStep(w) == Announce(w) \/ WriteLock(w) \/ WriteUnlock(w)

UsersNext ==
    \/ \E p \in Procs : Start(p) \/ Kill(p)
    \/ \E r \in Readers : ReaderStep(r) \/ ReaderEnds(r)
    \/ \E w \in Writers : WriterStep(w)

UsersSpec == UsersInit /\ [][UsersNext]_usersVars

(***************************************************************************)
(* Fairness. A running program takes its next step. A program asleep in    *)
(* semop waits in the kernel's list of pending operations, and whoever     *)
(* changes the semaphore completes the pending operations it enables, in   *)
(* the order of their arrival: an operation that is enabled again and      *)
(* again is performed, which is strong fairness for the two operations     *)
(* that compete for sem[1]. Nobody has to start a program.                 *)
(***************************************************************************)
UsersFairness ==
    /\ \A r \in Readers : SF_usersVars(ReadLock(r)) /\ WF_usersVars(ReaderStep(r))
    /\ \A w \in Writers : SF_usersVars(Announce(w)) /\ WF_usersVars(WriterStep(w))

FairUsers == UsersSpec /\ UsersFairness
-----------------------------------------------------------------------------
Reading == {r \in Readers : at[r] = "reading"}
Announced == {w \in Writers : at[w] \in {"announced", "writing"}}
Writing == {w \in Writers : at[w] = "writing"}

\* The lock excludes: a writer that is inside is alone, also counting the
\* programs that were killed inside (advanced-lock.c, all four operations).
MutualExclusion ==
    /\ Writing # {} => Reading = {}
    /\ \A v, w \in Writing : v = w

\* The semaphores are exact: sem[0] counts the readers inside, dead ones too,
\* and sem[1] is 1 exactly when one writer is between its two semops or inside.
\* Without SEM_UNDO this is what makes a killed holder block the lock for ever.
SemsExact ==
    /\ sem[0] = Cardinality(Reading)
    /\ sem[1] = IF Announced = {} THEN 0 ELSE 1
    /\ \A v, w \in Announced : v = w

\* The inductive invariant behind MutualExclusion.
LockInv == UsersTypeOK /\ SemsExact /\ MutualExclusion

\* setWriteLock shuts the door before it waits: while a writer is between its
\* two semops or inside, no reader enters and no other writer takes its place.
NoBarging ==
    [][Announced # {} => /\ Reading' \subseteq Reading
                         /\ Announced' \subseteq Announced]_usersVars

\* The two semops of setWriteLock, setReadLock and the releases implement the
\* abstract readers/writers lock.
RW == INSTANCE ReadersWriters WITH reading <- Reading, writing <- Writing
Abstract == RW!Spec

\* When no holder is killed, whoever asks for the lock gets it, or leaves: a
\* reader turned away (ERANGE) or one that ends, a program killed before its
\* first semop. Neither streams of readers nor of writers starve anybody.
AllServed ==
    [](dead = {}) =>
        /\ \A w \in Writers : at[w] = "idle" ~> at[w] \in {"writing", "out"}
        /\ \A r \in Readers : at[r] = "idle" ~> at[r] \in {"reading", "out"}
=============================================================================
