-------------------------------- MODULE Connect --------------------------------
(***************************************************************************)
(* templates/semaphore-sync/connect.c: runs of one program that let one    *)
(* after the other in through a named semaphore of value 1, which the      *)
(* first one creates and nobody removes.                                   *)
(***************************************************************************)
EXTENDS Naturals

CONSTANTS Runs,
          Mortal,    \* the runs that may be killed
          none       \* there is no semaphore yet

VARIABLES at,        \* [Runs -> step]
          sema       \* the value of "/Connection open", or none

moving == <<at, sema>>

Init ==
    /\ at = [r \in Runs |-> "new"]
    /\ sema = none

Go(r, from, to) == at[r] = from /\ at' = [at EXCEPT ![r] = to]

\* semInit: O_CREAT and O_EXCL in one, with the value.
SemInit(r) ==
    /\ Go(r, "new", "wait")
    /\ sema' = IF sema = none THEN 1 ELSE sema

SemWait(r) ==
    /\ Go(r, "wait", "inside")
    /\ sema > 0 /\ sema' = sema - 1

SemPost(r) ==
    /\ Go(r, "inside", "done")
    /\ sema' = sema + 1

Killed(r) ==
    /\ r \in Mortal
    /\ Go(r, "wait", "done") \/ Go(r, "inside", "killed")
    /\ UNCHANGED sema

Next == \E r \in Runs : SemInit(r) \/ SemWait(r) \/ SemPost(r) \/ Killed(r)

\* Somebody types a line for getchar, and sem_post wakes a sleeper.
Moves(r) == SemWait(r) \/ SemPost(r)
Spec == Init /\ [][Next]_moving /\ \A r \in Runs : WF_moving(Moves(r))
-----------------------------------------------------------------------------
Inside == {r \in Runs : at[r] = "inside"}

\* Whoever creates the semaphore and whoever is killed, one is inside at most.
Exclusion == \A r, q \in Inside : r = q

\* One unit, in the semaphore, inside, or lost with a run killed inside.
OneUnit ==
    sema # none => \/ sema = 1 /\ \A r \in Runs : at[r] \notin {"inside", "killed"}
                   \/ sema = 0 /\ \E r \in Runs : at[r] \in {"inside", "killed"}

\* A run that waits gets in, unless one is killed inside.
Waiting(r) == at[r] = "wait"
In(r) == at[r] # "wait" \/ \E q \in Runs : at[q] = "killed"
Served == \A r \in Runs : Waiting(r) ~> In(r)
=============================================================================
