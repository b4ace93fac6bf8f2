------------------------------ MODULE CancelMutex ------------------------------
(***************************************************************************)
(* templates/thread-sync-mutex/thread-mutex-plain.c and                    *)
(* thread-mutex-cleanup.c: thread 2 cancels thread 1 when trylock finds    *)
(* the mutex locked, then locks it itself. In the second program both      *)
(* threads push a cleanup handler that unlocks the mutex.                  *)
(***************************************************************************)
CONSTANTS t1, t2, none

VARIABLES at,         \* [{main, t1, t2} -> step]
          mutex,      \* the thread that locked the mutex last, none: unlocked
          flags       \* [cleanup, cancelled, busy], see Init

moving == <<at, mutex, flags>>

Threads == {t1, t2}

\* cleanup    which of the two programs it is (rigid)
\* cancelled  pthread_cancel(thread1) has been called
\* busy       trylock found the mutex locked
Init ==
    /\ at = [t \in Threads |-> "new"]
    /\ mutex = none
    /\ flags \in [cleanup : BOOLEAN, cancelled : {FALSE}, busy : {FALSE}]

Go(t, from, to) == at[t] = from /\ at' = [at EXCEPT ![t] = to]

\* main creates thread 1, then thread 2.
Create(t) ==
    /\ t = t2 => at[t1] # "new"
    /\ Go(t, "new", IF t = t1 THEN "hello" ELSE "trylock")
    /\ UNCHANGED <<mutex, flags>>

\* A default mutex: the owner that locks it again sleeps as everybody else.
Lock(t) ==
    /\ Go(t, "lock", "inside")
    /\ mutex = none /\ mutex' = t
    /\ UNCHANGED flags

Trylock ==
    /\ Go(t2, "trylock", IF mutex = none THEN "lock" ELSE "busy")
    /\ mutex' = IF mutex = none THEN t2 ELSE mutex
    /\ flags' = [flags EXCEPT !.busy = mutex # none]

\* pthread_cancel is deferred: thread 1 ends at its next cancellation point, if
\* it has not ended (the library still knows the thread when main has joined it).
Cancel ==
    /\ Go(t2, "busy", "lock")
    /\ flags' = [flags EXCEPT !.cancelled = TRUE]
    /\ UNCHANGED mutex

\* printf and getchar of thread 1.
Show(t) ==
    /\ t = t1
    /\ Go(t, "hello", "lock") \/ Go(t, "after", "done")
    /\ UNCHANGED <<mutex, flags>>

\* pthread_mutex_unlock of a default mutex does not ask who locked it. Thread
\* 2 unlocks by its cleanup handler or by itself.
Unlock(t) ==
    /\ Go(t, "inside", IF t = t1 THEN "after" ELSE "done")
    /\ mutex' = none
    /\ UNCHANGED flags

\* Thread 1 is cancelled in printf or getchar; cleanup unlocks the mutex,
\* locked or not, whoever locked it.
Cancelled ==
    /\ flags.cancelled
    /\ \E s \in {"hello", "inside", "after"} : Go(t1, s, "cancelled")
    /\ mutex' = IF flags.cleanup THEN none ELSE mutex
    /\ UNCHANGED flags

Next == \/ \E t \in Threads : Create(t) \/ Lock(t) \/ Show(t) \/ Unlock(t)
        \/ Trylock \/ Cancel \/ Cancelled

\* Somebody types a line for getchar some time.
Spec == Init /\ [][Next]_moving /\ WF_moving(Next)
-----------------------------------------------------------------------------
Gone(t) == at[t] \in {"done", "cancelled"}

TypeOK ==
    /\ at \in [Threads -> {"new", "hello", "trylock", "busy", "lock", "inside", "after",
                           "done", "cancelled"}]
    /\ mutex \in Threads \cup {none}
    /\ flags \in [cleanup : BOOLEAN, cancelled : BOOLEAN, busy : BOOLEAN]

\* The threads are not in the critical section together (thread1fkt,
\* thread2fkt), cancelled or not.
Exclusion == TypeOK /\ ~(at[t1] = "inside" /\ at[t2] = "inside")

\* "thread cleanup functionality to ensure that the mutex is always unlocked,
\* even if a thread is cancelled" (README.md): when thread 2 found the mutex
\* busy, main joins both threads in the end. When it found it free it locks it
\* twice and sleeps for ever.
Busy == flags.cleanup /\ flags.busy
Joined == \A t \in Threads : Gone(t)
Ends == Busy ~> Joined
=============================================================================
