---------------------------- MODULE MCThreadCopy ----------------------------
(* Model values and scenes of ThreadCopy for TLC. *)
EXTENDS ThreadCopy

CONSTANTS c1, c2, f1, f2

MCClients == {c1, c2}
MCFiles == {f1, f2}

\* c1 and c2 copy to different files, c1 two blocks and c2 one, and nothing goes
\* wrong; the scenes below say what is different.
Base == [dest |-> (c1 :> f1 @@ c2 :> f2), blocks |-> (c1 :> 2 @@ c2 :> 1),
         existing |-> {}, maxFd |-> 4, backlog |-> 0, starts |-> 1,
         prompt |-> TRUE, faults |-> {}]

MCScenes == {
    \* kills, SIGINT and a second start
    [Base EXCEPT !.starts = 2, !.faults = {"kill", "sigint"}],
    \* both want one file, clients are killed, the disk and pthread_create fail
    [Base EXCEPT !.dest = (c1 :> f1 @@ c2 :> f1), !.maxFd = 3,
                 !.faults = {"kill", "disk", "nothread"}],
    \* too few descriptors, disk errors, SIGINT and two more starts
    [Base EXCEPT !.existing = {f2}, !.maxFd = 2, !.starts = 3,
                 !.blocks = (c1 :> 1 @@ c2 :> 1), !.faults = {"disk", "sigint"}],
    \* one of them is refused, and nothing fails
    [Base EXCEPT !.existing = {f2}, !.backlog = 1],
    \* a new thread is slow, clients are killed
    [Base EXCEPT !.blocks = (c1 :> 1 @@ c2 :> 1), !.prompt = FALSE,
                 !.faults = {"kill"}] }

\* c2's file is empty, and its destination exists
MCScenesResponse == { [Base EXCEPT !.existing = {f2}, !.backlog = 1,
                                   !.blocks = (c1 :> 1 @@ c2 :> 0)] }
=============================================================================
