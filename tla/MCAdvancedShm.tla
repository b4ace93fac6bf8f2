----------------------------- MODULE MCAdvancedShm -----------------------------
(* Instances of AdvancedShm for TLC. *)
EXTENDS AdvancedShm

CONSTANTS f1, f2, o1, w1, w2

MCFirst == {f1, f2}
MCOthers == {o1}
MCWriters == {w1, w2}

\* the first writer says something, the second stops the readers
MCMesg == [w \in MCWriters |-> IF w = w1 THEN "message" ELSE Stop]

Scene(run, patient, mortal) == [run |-> run, patient |-> patient, mortal |-> mortal]

MCScenes == {
    \* the lock: one reader, two writers, SIGINT to anybody
    Scene({f1, w1, w2}, TRUE, {f1, w1, w2}),
    \* one first reader after the other, or both at once, each with its set
    Scene({f1, f2, w1}, TRUE, {f1, f2}),
    \* the life of the set: everybody starts at any moment, users are killed
    Scene({f1, o1, w2}, FALSE, {o1, w2}),
    \* the set is removed by SIGINT to its owner while others use it
    Scene({f1, o1, w1}, TRUE, {f1}),
    \* only the stop message
    Scene({f1, w2}, TRUE, {}) }

\* SIGINT to the first reader as well, which the stop message ends
MCScenesLeak == { Scene({f1, w2}, TRUE, {f1}) }
================================================================================
