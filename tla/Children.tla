--------------------------------- MODULE Children ---------------------------------
(***************************************************************************)
(* templates/singnal-handling/signal-termination.c: the parent forks one   *)
(* child after the other and waits in pause() for the SIGCLD of each; the  *)
(* handler collects the child. pause() returns only for a signal that      *)
(* comes while the parent is in it.                                        *)
(***************************************************************************)
EXTENDS Integers, FiniteSets

CONSTANTS N,         \* 10 in the code
          Scenes

\* prompt   a child, which sleeps for two seconds, outlasts the parent's way
\*          from fork() into pause()
SceneType == [prompt : BOOLEAN]

VARIABLES proc,      \* the parent: [at, i, pending], pending: a SIGCLD
          child,     \* the children
          scene

moving == <<proc, child>>
vars == <<moving, scene>>

Init ==
    /\ scene \in Scenes
    /\ proc = [at |-> "fork", i |-> 0, pending |-> FALSE]
    /\ child = [n \in 0..(N - 1) |-> "none"]

At(step) == proc.at = step
Alive == {n \in 0..(N - 1) : child[n] = "alive"}
Zombies == {n \in 0..(N - 1) : child[n] = "zombie"}

Fork ==
    /\ At("fork")
    /\ \/ /\ proc.i < N
          /\ child' = [child EXCEPT ![proc.i] = "alive"]
          /\ proc' = [proc EXCEPT !.at = "forked"]
       \/ proc.i < N /\ proc' = [proc EXCEPT !.at = "failed"] /\ UNCHANGED child
       \/ proc.i = N /\ proc' = [proc EXCEPT !.at = "end"] /\ UNCHANGED child

Pause == At("forked") /\ proc' = [proc EXCEPT !.at = "pause"] /\ UNCHANGED child

\* sig_cld: one wait() for a signal. Only if it interrupts pause() the loop goes
\* on.
sig_cld ==
    /\ proc.pending /\ proc.at \notin {"end", "failed"}
    /\ \E n \in Zombies : child' = [child EXCEPT ![n] = "reaped"]
    /\ proc' = [proc EXCEPT !.pending = FALSE,
                            !.at = IF At("pause") THEN "fork" ELSE @,
                            !.i = IF At("pause") THEN @ + 1 ELSE @]

\* sleep(2) and exit(i).
ChildExits ==
    /\ \E n \in Alive :
          /\ scene.prompt => At("pause")
          /\ child' = [child EXCEPT ![n] = "zombie"]
    /\ proc' = [proc EXCEPT !.pending = TRUE]

Parent == Fork \/ Pause \/ sig_cld
Next == (Parent \/ ChildExits) /\ UNCHANGED scene

Spec == Init /\ [][Next]_vars /\ WF_moving(Parent) /\ WF_moving(ChildExits)
-----------------------------------------------------------------------------
TypeOK ==
    /\ scene \in Scenes /\ scene \in SceneType
    /\ proc \in [at : {"fork", "forked", "pause", "end", "failed"}, i : 0..N, pending : BOOLEAN]
    /\ child \in [0..(N - 1) -> {"none", "alive", "zombie", "reaped"}]

\* One child at a time, and a SIGCLD exactly when there is one to be collected:
\* wait() never finds nobody (the handler would exit), and no child is left when
\* the parent ends.
Counted ==
    /\ TypeOK
    /\ Cardinality(Alive \cup Zombies) <= 1
    /\ Zombies # {} <=> proc.pending
    /\ At("end") => \A n \in 0..(N - 1) : child[n] = "reaped"
    /\ At("failed") => Zombies = {} /\ child[proc.i] = "none"

\* The parent ends, unless a SIGCLD comes between fork() and pause(): then it
\* sleeps in pause() without any child.
Begun == At("forked") /\ scene.prompt
Ended == At("end") \/ At("failed")
Ends == Begun ~> Ended
=============================================================================
