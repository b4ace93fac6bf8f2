-------------------------------- MODULE FileCopy --------------------------------
(***************************************************************************)
(* 05-file-copy/copy.c, which copies with read() and write(), and          *)
(* 07.1-file-cloning/clone.c, which copies from one mapping to another.    *)
(* Reading and writing may fail half way, and the two paths may lead to    *)
(* the same file. A file is a sequence of bytes.                           *)
(***************************************************************************)
EXTENDS Integers, Sequences

CONSTANTS Source,        \* the bytes of the source
          Old,           \* those of a destination that is already there
          None,          \* no file
          BUFFER_SIZE,
          Scenes

\* clone   clone.c runs, not copy.c
\* same    both paths lead to one file
\* there   the source, and the destination, exist
\* faults  "open", "chmod", "read", "write", "map": these calls may fail;
\*         "short": write() may write less than it was given
SceneType == [clone : BOOLEAN, same : BOOLEAN, there : SUBSET {"src", "dest"},
              faults : SUBSET {"open", "chmod", "read", "write", "map", "short"}]

VARIABLES proc,      \* [at, pos, buf, size]
          files,     \* what is in the two files
          scene

moving == <<proc, files>>
vars == <<moving, scene>>

dest == IF scene.same THEN "src" ELSE "dest"

\* pos, buf   the position in the source and what was read last
\* size       dateilaenge
Init ==
    /\ scene \in Scenes
    /\ proc = [at |-> "source", pos |-> 0, buf |-> <<>>, size |-> 0]
    /\ files = [f \in {"src", "dest"} |-> IF f \notin scene.there THEN None
                                          ELSE IF f = "src" THEN Source ELSE Old]

At(step) == proc.at = step
Go(from, to) == At(from) /\ proc' = [proc EXCEPT !.at = to]
Fails(from, call) == call \in scene.faults /\ Go(from, "failed") /\ UNCHANGED files

\* copy.c opens the source to read, clone.c creates it when it is missing.
OpenSource ==
    \/ Fails("source", "open")
    \/ ~scene.clone /\ files["src"] = None /\ Go("source", "failed") /\ UNCHANGED files
    \/ ~scene.clone /\ files["src"] # None /\ Go("source", "dest") /\ UNCHANGED files
    \/ /\ scene.clone /\ Go("source", "ask")
       /\ files' = [files EXCEPT !["src"] = IF @ = None THEN <<>> ELSE @]

\* clone.c asks before it replaces a file.
Ask ==
    /\ \/ Go("ask", "dest")
       \/ files[dest] # None /\ Go("ask", "failed")
    /\ UNCHANGED files

\* open() with O_TRUNC: from here on the old contents are gone.
OpenDest ==
    \/ Fails("dest", "open")
    \/ /\ Go("dest", "chmod")
       /\ files' = [files EXCEPT ![dest] = <<>>]

\* fstat, which comes after the truncation, and fchmod.
Chmod ==
    \/ Fails("chmod", "chmod")
    \/ /\ At("chmod")
       /\ proc' = [proc EXCEPT !.at = IF scene.clone THEN "trunc" ELSE "read",
                               !.size = Len(files["src"])]
       /\ UNCHANGED files
-----------------------------------------------------------------------------
(* The loop of copy.c. *)

\* A read that fails ends the loop like the end of the file.
Read ==
    /\ \/ /\ At("read")
          /\ LET left == Len(files["src"]) - proc.pos
                 n == IF left < BUFFER_SIZE THEN left ELSE BUFFER_SIZE
             IN proc' = [proc EXCEPT !.at = IF n > 0 THEN "write" ELSE "done", !.pos = @ + n,
                                     !.buf = SubSeq(files["src"], proc.pos + 1, proc.pos + n)]
       \/ "read" \in scene.faults /\ Go("read", "done")
    /\ UNCHANGED files

\* A short write is not continued.
Write ==
    \/ Fails("write", "write")
    \/ /\ Go("write", "read")
       /\ \E n \in 1..Len(proc.buf) :
             /\ n < Len(proc.buf) => "short" \in scene.faults
             /\ files' = [files EXCEPT ![dest] = @ \o SubSeq(proc.buf, 1, n)]
-----------------------------------------------------------------------------
(* The mappings of clone.c. *)

Zeros(n) == [i \in 1..n |-> 0]

Ftruncate ==
    \/ Fails("trunc", "map")
    \/ Go("trunc", "map") /\ files' = [files EXCEPT ![dest] = Zeros(proc.size)]

\* mmap, twice; a length of 0 is not allowed.
Mmap ==
    \/ Fails("map", "map")
    \/ Go("map", IF proc.size = 0 THEN "failed" ELSE "memcpy") /\ UNCHANGED files

\* memcpy to the second mapping, munmap. The mapping is MAP_PRIVATE: the pages
\* that are written are the program's own and never reach the file.
Memcpy == Go("memcpy", "done") /\ UNCHANGED files

Next ==
    /\ \/ OpenSource \/ Ask \/ OpenDest \/ Chmod \/ Read \/ Write
       \/ Ftruncate \/ Mmap \/ Memcpy
    /\ UNCHANGED scene

Spec == Init /\ [][Next]_vars /\ WF_moving(Next)
-----------------------------------------------------------------------------
TypeOK ==
    /\ scene \in Scenes /\ scene \in SceneType
    /\ proc.at \in {"source", "ask", "dest", "chmod", "read", "write", "trunc", "map", "memcpy",
                    "done", "failed"}
    /\ proc.pos \in 0..Len(Source) /\ Len(proc.buf) <= BUFFER_SIZE
    /\ proc.size \in 0..Len(Source)
    /\ \A f \in {"src", "dest"} : files[f] = None \/ files[f] \in Seq(Int)

\* "Programm zum kopieren von Datei <param1> nach <param2> mit identischem
\* Inhalt" (copy.c, clone.c): when the program ends with success and no call
\* has failed, the contents are equal.
SameContent ==
    At("done") /\ ~scene.same /\ scene.faults \cap {"read", "short"} = {}
        => files["dest"] = files["src"]

\* What copy.c has written is a beginning of the source at any time, unless
\* writes are short; and neither program touches the source, unless it is told
\* to copy a file to itself.
Beginning == proc.at \in {"read", "write", "done"} /\ "short" \notin scene.faults /\ ~scene.clone
Faithful ==
    /\ TypeOK
    /\ ~scene.same /\ "src" \in scene.there => files["src"] = Source
    /\ Beginning => files[dest] = SubSeq(files["src"], 1, Len(files[dest]))
    /\ ~scene.clone => SameContent

\* Both programs end, at the end of the source at the latest.
Ended == At("done") \/ At("failed")
Ends == <>Ended
=============================================================================
