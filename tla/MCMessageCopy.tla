---------------------------- MODULE MCMessageCopy ----------------------------
(* Model values and scenes of MessageCopy for TLC. *)
EXTENDS MessageCopy

CONSTANTS c1, c2, f1, f2

MCClients == {c1, c2}
MCFiles == {f1, f2}

Base == [run |-> MCClients, patient |-> TRUE, dest |-> (c1 :> f1 @@ c2 :> f2),
         blocks |-> (c1 :> 3 @@ c2 :> 1), existing |-> {}, prompt |-> TRUE,
         starts |-> 1, faults |-> {}]

MCScenes == {
    Base,
    [Base EXCEPT !.starts = 2, !.faults = {"sigint"}],
    \* a lone client, in any timing
    [Base EXCEPT !.run = {c1}, !.prompt = FALSE],
    [Base EXCEPT !.run = {c1}, !.prompt = FALSE, !.starts = 2, !.faults = {"sigint"}],
    [Base EXCEPT !.run = {c1}, !.prompt = FALSE, !.starts = 2,
                 !.faults = {"kill", "sigint", "crash"}],
    \* an empty file, and one that exists
    [Base EXCEPT !.run = {c1}, !.prompt = FALSE, !.blocks = (c1 :> 0 @@ c2 :> 0)],
    [Base EXCEPT !.run = {c2}, !.prompt = FALSE, !.existing = {f2}],
    \* everything at once
    [Base EXCEPT !.patient = FALSE, !.prompt = FALSE, !.faults = {"disk"},
                 !.blocks = (c1 :> 1 @@ c2 :> 1)] }
==============================================================================
