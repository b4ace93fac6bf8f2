---------------------------- MODULE AdvancedLock ----------------------------
(***************************************************************************)
(* templates/semaphore-read-write/advanced-lock.c: a readers/writers lock  *)
(* made of one System V semaphore set of two members.                      *)
(*   sem[0]  the number of readers inside                                  *)
(*   sem[1]  1 while a writer holds or waits for the lock                  *)
(* One semop() call is atomic: all its operations happen, or the caller    *)
(* sleeps and none does. So each operation below is one semop, and a       *)
(* sleeping caller is a caller whose operation is not enabled. None of the *)
(* operations carries SEM_UNDO.                                            *)
(***************************************************************************)
EXTENDS Naturals

CONSTANT SEMVMX   \* the largest value of a semaphore (32767 on Linux)

ASSUME SemvmxAssumption == SEMVMX \in Nat \ {0}

VARIABLE sem

Sems == {0, 1}

\* semctl(SETALL) with {0, 0}: what initReadWriteLock leaves.
ClearSems == [s \in Sems |-> 0]

\* Slips of setReadLock: no limit of the count; no wait for the writer.
setReadLockUnlimited == sem[1] = 0 /\ sem' = [sem EXCEPT ![0] = @ + 1]
setReadLockBarging == sem[0] < SEMVMX /\ sem' = [sem EXCEPT ![0] = @ + 1]

\* setReadLock: one semop, {0, +1} and {1, wait for 0}.
setReadLock ==
    /\ sem[1] = 0
    /\ sem[0] < SEMVMX
    /\ sem' = [sem EXCEPT ![0] = @ + 1]

\* The same semop fails at once with ERANGE when sem[0] cannot be increased,
\* whatever sem[1] is: the kernel tries the operations in their order.
setReadLockRange == sem[0] = SEMVMX /\ UNCHANGED sem

releaseReadLock ==
    /\ sem[0] > 0
    /\ sem' = [sem EXCEPT ![0] = @ - 1]

\* A slip: no wait for the other writer.
setWriteLock1Blind == sem' = [sem EXCEPT ![1] = @ + 1]

\* setWriteLock, first semop: wait until no writer holds sem[1], take it.
setWriteLock1 ==
    /\ sem[1] = 0
    /\ sem' = [sem EXCEPT ![1] = @ + 1]

\* A slip: no wait for the readers inside.
setWriteLock2Blind == UNCHANGED sem

\* setWriteLock, second semop: wait until the readers inside have left.
setWriteLock2 == sem[0] = 0 /\ UNCHANGED sem

\* A slip: the release is forgotten.
releaseWriteLockForgotten == sem[1] > 0 /\ UNCHANGED sem

releaseWriteLock ==
    /\ sem[1] > 0
    /\ sem' = [sem EXCEPT ![1] = @ - 1]
=============================================================================
