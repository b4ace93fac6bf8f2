-------------------------------- MODULE Copy --------------------------------
(***************************************************************************)
(* What a program that copies a file promises: the destination grows, at   *)
(* most Chunk bytes at a time, and is a beginning of the source always.    *)
(***************************************************************************)
EXTENDS Naturals, Sequences

CONSTANTS Source, Chunk

VARIABLE copied

Init == copied = <<>>

Extend(n) ==
    /\ Len(copied) + n <= Len(Source)
    /\ copied' = SubSeq(Source, 1, Len(copied) + n)

Next == \E n \in 1..Chunk : Extend(n)

Spec == Init /\ [][Next]_copied
=============================================================================
