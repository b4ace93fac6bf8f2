-------------------------- MODULE MCFileThreadCopy --------------------------
(* An instance of FileThreadCopy for TLC: five different bytes. *)
EXTENDS FileThreadCopy

FiveBytes == <<1, 2, 3, 4, 5>>
ReadWrite == {"read", "write"}
=============================================================================
