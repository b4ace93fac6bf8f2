------------------------------- MODULE Common --------------------------------
(***************************************************************************)
(* What the small programs share: none of them runs beside another one, so *)
(* that they use these variables in turn.                                  *)
(***************************************************************************)
EXTENDS Integers, Sequences, FiniteSets

CONSTANTS Clients, None,
          Backlog, Room,      \* connections, and messages, that a socket holds
          ScenesOf(_)         \* the scenes of each program

VARIABLES scene, server, client, backlog, child, queues

\* None stands for no process, no number and no content.
ASSUME NoneAssumption == None \notin Clients \cup Nat \cup Seq(Int)
ASSUME ClientsAssumption == IsFiniteSet(Clients)
ASSUME RoomAssumption == Backlog \in Nat /\ Room \in Nat
=============================================================================
