--------------------------- MODULE MCUnixSocketCopy ---------------------------
(* Model values and scenes of UnixSocketCopy for TLC. *)
EXTENDS UnixSocketCopy

CONSTANTS c1, c2, c3, f1, f2

MCClients == {c1, c2, c3}
MCFiles == {f1, f2}

Base == [run |-> {c1, c2}, dest |-> (c1 :> f1 @@ c2 :> f2 @@ c3 :> f1),
         blocks |-> (c1 :> 2 @@ c2 :> 1 @@ c3 :> 1), existing |-> {}, starts |-> 1,
         faults |-> {}]

MCScenes == {
    \* short writes and failing ones, over the borders of blocks
    [Base EXCEPT !.faults = {"disk"}, !.blocks = (c1 :> 3 @@ c2 :> 1 @@ c3 :> 1)],
    \* killed clients, one after the other
    [Base EXCEPT !.run = MCClients, !.faults = {"kill"}],
    [Base EXCEPT !.starts = 2, !.faults = {"kill", "sigint", "disk"}],
    \* one file, and a backlog that is full
    [Base EXCEPT !.run = MCClients, !.dest = [c \in MCClients |-> f1],
                 !.blocks = (c1 :> 2 @@ c2 :> 2 @@ c3 :> 1)],
    \* an empty file, and one that exists
    [Base EXCEPT !.blocks = [c \in MCClients |-> 0], !.existing = {f2},
                 !.starts = 2, !.faults = {"sigint"}] }
==============================================================================
