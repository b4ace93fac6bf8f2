---------------------------- MODULE TransferProofs ----------------------------
(***************************************************************************)
(* Proofs about the programs of Transfers, in which files, hosts and       *)
(* processes hand bytes on, and about SignalDialog, in which two processes *)
(* hand on the turn; for all values of their constants.                    *)
(***************************************************************************)
EXTENDS Transfers, SignalDialog, FiniteSetTheorems, SequenceTheorems, TLAPS

LEMMA NoneIsNone == None \notin Clients /\ None \notin Nat /\ None \notin Seq(Int)
  BY NoneAssumption

\* The instance counts the elements of a set as FiniteSets does.
LEMMA TenCount == \A S : Ten!Cardinality(S) = Cardinality(S)
  BY DEF Ten!Cardinality, Cardinality
-----------------------------------------------------------------------------
(* SignalDialog, for every number of rounds: the processes alternate and   *)
(* neither is killed, however signals and pause() interleave. That         *)
(* they finish is not provable: it is false.                               *)

\* Before the fork nothing is printed and nothing is pending.
LEMMA TurnInit == DialogInit => TurnInv
  BY RoundsAssumption
     DEF DialogInit, TurnInv, TypeOK, Alternation, OneTurn, Turn, Level, Ahead,
         Started, NobodyKilled, Parties, PcStates

\* Every step hands the one turn on, or loses it; none makes a second one.
LEMMA TurnStep == TurnInv /\ [DialogNext]_dialog => TurnInv'
<1>. SUFFICES ASSUME TurnInv, [DialogNext]_dialog
              PROVE  TurnInv'
  OBVIOUS
<1>. USE RoundsAssumption
     DEF TurnInv, TypeOK, Alternation, OneTurn, Turn, Level, Ahead,
         Started, NobodyKilled, Parties, PcStates, Go, Peer
<1>1. CASE Sigaction
  BY <1>1 DEF Sigaction
<1>2. CASE Fork
  BY <1>2 DEF Fork
<1>3. CASE WakeUp
  BY <1>3 DEF WakeUp
<1>4. CASE Waitpid
  BY <1>4 DEF Waitpid
<1>5. ASSUME NEW p \in Parties, PrintPid(p) PROVE TurnInv'
  <2>1. CASE p = "parent"
    BY <1>5, <2>1 DEF PrintPid
  <2>2. CASE p = "child"
    BY <1>5, <2>2 DEF PrintPid
  <2>. QED
    BY <2>1, <2>2
<1>6. ASSUME NEW p \in Parties, Kill(p) PROVE TurnInv'
  <2>1. CASE p = "parent"
    BY <1>6, <2>1 DEF Kill
  <2>2. CASE p = "child"
    BY <1>6, <2>2 DEF Kill
  <2>. QED
    BY <2>1, <2>2
<1>7. ASSUME NEW p \in Parties, EnterPause(p) PROVE TurnInv'
  BY <1>7 DEF EnterPause
<1>8. ASSUME NEW p \in Parties, Deliver(p) PROVE TurnInv'
  <2>1. CASE p = "parent"
    BY <1>8, <2>1 DEF Deliver, AfterPause
  <2>2. CASE p = "child"
    BY <1>8, <2>2 DEF Deliver, AfterPause
  <2>. QED
    BY <2>1, <2>2
<1>9. CASE UNCHANGED dialog
  BY <1>9 DEF dialog
<1>. QED
  BY <1>1, <1>2, <1>3, <1>4, <1>5, <1>6, <1>7, <1>8, <1>9 DEF DialogNext

\* The invariant that ties whose turn it is to who is ahead.
THEOREM TurnInvariance == DialogSpec => []TurnInv
  BY TurnInit, TurnStep, PTL DEF DialogSpec

\* Both processes stay inside the program, whatever signals are lost (dialog.c).
THEOREM TypeCorrect == DialogSpec => []TypeOK
<1>1. TurnInv => TypeOK
  BY DEF TurnInv
<1>. QED
  BY <1>1, TurnInvariance, PTL

\* The parent is level with its child or one line ahead, for every Rounds.
THEOREM LinesAlternate == DialogSpec => []Alternation
<1>1. TurnInv => Alternation
  BY DEF TurnInv
<1>. QED
  BY <1>1, TurnInvariance, PTL

\* There is never more than one turn, and SIGUSR1 kills neither process.
THEOREM OneTurnOnly == DialogSpec => [](OneTurn /\ NobodyKilled)
<1>1. TurnInv => OneTurn /\ NobodyKilled
  BY DEF TurnInv
<1>. QED
  BY <1>1, TurnInvariance, PTL
-----------------------------------------------------------------------------
(* Children, for any number of children: one at a time, and every SIGCLD   *)
(* finds its child.                                                        *)

Indices == 0..(ChildCount - 1)

\* The children before the present one are collected, those after it not begun.
Siblings == \A n \in Indices : /\ n < proc.i => child[n] = "reaped"
                               /\ n > proc.i => child[n] = "none"

\* The present one: a SIGCLD is pending exactly while it is a zombie.
Present ==
    /\ proc.at \in {"fork", "failed", "end"} =>
          /\ ~proc.pending
          /\ proc.i \in Indices => child[proc.i] = "none"
    /\ proc.at \in {"forked", "pause"} =>
          child[proc.i] \in IF proc.pending THEN {"zombie"} ELSE {"alive", "reaped"}
    /\ proc.at \in {"forked", "pause", "failed"} => proc.i \in Indices
    /\ proc.at = "end" => proc.i = ChildCount

ChildrenInv == Ten!TypeOK /\ Siblings /\ Present

\* No child has begun when the parent does.
LEMMA ChildrenInit ==
    ASSUME ChildCount \in Nat, ScenesOf("children") \subseteq Ten!SceneType, Ten!Init
    PROVE  ChildrenInv
<1>1. Ten!TypeOK
  BY DEF Ten!Init, Ten!TypeOK
<1>2. Siblings /\ Present
  BY DEF Ten!Init, Siblings, Present, Indices
<1>. QED
  BY <1>1, <1>2 DEF ChildrenInv

\* A zombie or a living child is the present one.
LEMMA OnlyPresent ==
    ASSUME ChildCount \in Nat, ChildrenInv, NEW n \in Indices, child[n] \in {"alive", "zombie"}
    PROVE  n = proc.i /\ proc.at \in {"forked", "pause"}
<1>1. n = proc.i
  BY DEF ChildrenInv, Siblings, Ten!TypeOK, Indices
<1>. QED
  BY <1>1 DEF ChildrenInv, Present, Ten!TypeOK

\* fork(): the next child begins.
LEMMA ForkKeeps ==
    ASSUME ChildCount \in Nat, ChildrenInv, Ten!Fork, UNCHANGED scene
    PROVE  ChildrenInv'
<1>1. CASE proc.i < ChildCount /\ child' = [child EXCEPT ![proc.i] = "alive"]
           /\ proc' = [proc EXCEPT !.at = "forked"]
  <2>1. Ten!TypeOK' /\ proc.i \in Indices
    BY <1>1 DEF ChildrenInv, Ten!TypeOK, Indices
  <2>2. proc'.at = "forked" /\ proc'.i = proc.i /\ ~proc'.pending
    BY <1>1 DEF ChildrenInv, Ten!TypeOK, Present, Ten!Fork, Ten!At
  <2>3. \A n \in Indices : child'[n] = IF n = proc.i THEN "alive" ELSE child[n]
    BY <1>1 DEF ChildrenInv, Ten!TypeOK, Indices
  <2>4. Siblings' /\ Present'
    BY <2>1, <2>2, <2>3 DEF ChildrenInv, Siblings, Present, Ten!TypeOK, Indices
  <2>. QED
    BY <2>1, <2>4 DEF ChildrenInv
<1>2. CASE proc.i < ChildCount /\ proc' = [proc EXCEPT !.at = "failed"] /\ UNCHANGED child
  BY <1>2 DEF ChildrenInv, Ten!TypeOK, Siblings, Present, Indices, Ten!Fork, Ten!At
<1>3. CASE proc.i = ChildCount /\ proc' = [proc EXCEPT !.at = "end"] /\ UNCHANGED child
  BY <1>3 DEF ChildrenInv, Ten!TypeOK, Siblings, Present, Indices, Ten!Fork, Ten!At
<1>. QED
  BY <1>1, <1>2, <1>3 DEF Ten!Fork

\* The handler: wait() finds the present child; in pause() the loop goes on.
LEMMA HandlerKeeps ==
    ASSUME ChildCount \in Nat, ChildrenInv, Ten!sig_cld, UNCHANGED scene
    PROVE  ChildrenInv'
<1>1. PICK n \in Ten!Zombies : child' = [child EXCEPT ![n] = "reaped"]
  BY DEF Ten!sig_cld
<1>2. n \in Indices /\ child[n] = "zombie"
  BY <1>1 DEF Ten!Zombies, Indices
<1>3. n = proc.i /\ proc.at \in {"forked", "pause"}
  BY <1>2, OnlyPresent
<1>4. \A m \in Indices : child'[m] = IF m = n THEN "reaped" ELSE child[m]
  BY <1>1 DEF ChildrenInv, Ten!TypeOK, Indices
<1>5. CASE proc.at = "forked"
  <2>1. proc' = [proc EXCEPT !.pending = FALSE]
    BY <1>5 DEF Ten!sig_cld, Ten!At, ChildrenInv, Ten!TypeOK
  <2>2. Ten!TypeOK'
    BY <1>1, <1>2, <2>1 DEF ChildrenInv, Ten!TypeOK, Indices
  <2>3. Siblings' /\ Present'
    BY <1>2, <1>3, <1>4, <1>5, <2>1 DEF ChildrenInv, Ten!TypeOK, Siblings, Present, Indices
  <2>. QED
    BY <2>2, <2>3 DEF ChildrenInv
<1>6. CASE proc.at = "pause"
  <2>1. proc'.pending = FALSE /\ proc'.at = "fork" /\ proc'.i = proc.i + 1
    BY <1>6 DEF Ten!sig_cld, Ten!At, ChildrenInv, Ten!TypeOK
  <2>2. proc' = [at |-> "fork", i |-> proc.i + 1, pending |-> FALSE]
    BY <1>6 DEF Ten!sig_cld, Ten!At, ChildrenInv, Ten!TypeOK
  <2>3. Ten!TypeOK'
    BY <1>1, <1>2, <1>3, <2>2 DEF ChildrenInv, Ten!TypeOK, Indices
  <2>4. Siblings' /\ Present'
    BY <1>2, <1>3, <1>4, <2>1 DEF ChildrenInv, Ten!TypeOK, Siblings, Present, Indices
  <2>. QED
    BY <2>3, <2>4 DEF ChildrenInv
<1>. QED
  BY <1>3, <1>5, <1>6

\* exit(i) of the present child makes it a zombie.
LEMMA ExitKeeps ==
    ASSUME ChildCount \in Nat, ChildrenInv, Ten!ChildExits, UNCHANGED scene
    PROVE  ChildrenInv'
<1>1. PICK n \in Ten!Alive : child' = [child EXCEPT ![n] = "zombie"]
  BY DEF Ten!ChildExits
<1>2. n \in Indices /\ child[n] = "alive"
  BY <1>1 DEF Ten!Alive, Indices
<1>3. n = proc.i /\ proc.at \in {"forked", "pause"}
  BY <1>2, OnlyPresent
<1>4. \A m \in Indices : child'[m] = IF m = n THEN "zombie" ELSE child[m]
  BY <1>1 DEF ChildrenInv, Ten!TypeOK, Indices
<1>5. proc' = [proc EXCEPT !.pending = TRUE]
  BY DEF Ten!ChildExits
<1>6. Ten!TypeOK'
  BY <1>1, <1>2, <1>5 DEF ChildrenInv, Ten!TypeOK, Indices
<1>7. Siblings' /\ Present'
  BY <1>2, <1>3, <1>4, <1>5 DEF ChildrenInv, Ten!TypeOK, Siblings, Present, Indices
<1>. QED
  BY <1>6, <1>7 DEF ChildrenInv

\* The present child is the only one to count, and "end" comes after the last.
LEMMA InvCounts ==
    ASSUME ChildCount \in Nat, ChildrenInv
    PROVE  Ten!Counted
<1>1. Ten!Alive \cup Ten!Zombies \subseteq {proc.i}
  BY OnlyPresent DEF Ten!Alive, Ten!Zombies, Indices
<1>2. Cardinality(Ten!Alive \cup Ten!Zombies) <= 1
  BY <1>1, FS_Singleton, FS_Subset, IsFiniteSet({proc.i}), Cardinality({proc.i}) = 1
<1>3. Ten!Zombies # {} <=> proc.pending
  <2>1. ASSUME NEW n \in Ten!Zombies PROVE proc.pending
    <3>1. n \in Indices /\ child[n] = "zombie"
      BY <2>1 DEF Ten!Zombies, Indices
    <3>2. n = proc.i /\ proc.at \in {"forked", "pause"}
      BY <3>1, OnlyPresent
    <3>. QED
      BY <3>1, <3>2 DEF ChildrenInv, Present
  <2>2. ASSUME proc.pending PROVE proc.i \in Ten!Zombies
    BY <2>2 DEF ChildrenInv, Ten!TypeOK, Present, Ten!Zombies, Indices
  <2>. QED
    BY <2>1, <2>2
<1>4. Ten!At("end") => \A n \in Indices : child[n] = "reaped"
  BY DEF Ten!At, ChildrenInv, Siblings, Present, Indices
<1>5. Ten!At("failed") => Ten!Zombies = {} /\ child[proc.i] = "none"
  BY <1>3 DEF Ten!At, ChildrenInv, Present
<1>. QED
  BY <1>2, <1>3, <1>4, <1>5, TenCount DEF Ten!Counted, ChildrenInv, Indices

LEMMA ChildrenStep ==
    ASSUME ChildCount \in Nat, ChildrenInv, [Ten!Next]_(Ten!vars)
    PROVE  ChildrenInv'
<1>1. CASE Ten!Fork /\ UNCHANGED scene
  BY <1>1, ForkKeeps
<1>2. CASE Ten!Pause /\ UNCHANGED scene
  BY <1>2 DEF Ten!Pause, Ten!At, ChildrenInv, Ten!TypeOK, Siblings, Present, Indices
<1>3. CASE Ten!sig_cld /\ UNCHANGED scene
  BY <1>3, HandlerKeeps
<1>4. CASE Ten!ChildExits /\ UNCHANGED scene
  BY <1>4, ExitKeeps
<1>5. CASE UNCHANGED Ten!vars
  BY <1>5 DEF Ten!vars, Ten!moving, ChildrenInv, Ten!TypeOK, Siblings, Present, Indices
<1>. QED
  BY <1>1, <1>2, <1>3, <1>4, <1>5 DEF Ten!Next, Ten!Parent

\* For any number of children (ten in signal-termination.c): one at a time, a
\* SIGCLD is pending exactly while there is a child for wait() to find, and all
\* are collected when the parent has ended the loop.
THEOREM NoneLeft == Ten!Spec => []Ten!Counted
<1>1. Ten!Init => ChildrenInv
  BY ChildrenInit, SizesAssumption, TransfersAssumption
<1>2. ChildrenInv /\ [Ten!Next]_(Ten!vars) => ChildrenInv'
  BY ChildrenStep, SizesAssumption
<1>3. ChildrenInv => Ten!Counted
  BY InvCounts, SizesAssumption
<1>. QED
  BY <1>1, <1>2, <1>3, PTL DEF Ten!Spec
-----------------------------------------------------------------------------
(* FileCopy, for every source and every size of the buffer.                *)

Content == Seq(Int)
Steps == {"source", "ask", "dest", "chmod", "read", "write", "trunc", "map", "memcpy",
          "done", "failed"}
Early == {"source", "ask", "dest"}

Shape ==
    /\ scene \in ScenesOf("file") /\ scene \in File!SceneType
    /\ proc \in [at : Steps, pos : Nat, buf : Content, size : Nat]
    /\ files \in [{"src", "dest"} -> Content \cup {None}]

\* What there is of the two files at each step, and how long it is.
TwoFiles ==
    /\ proc.at \notin {"source", "failed"} => files["src"] # None
    /\ proc.at \notin Early \cup {"failed"} => files[File!dest] # None
    /\ proc.at = "chmod" => files[File!dest] = <<>>
    /\ files["src"] # None => Len(files["src"]) <= Len(Source)
    /\ ~scene.same /\ "src" \in scene.there => files["src"] = Source
    /\ scene.same /\ proc.at \notin Early \cup {"failed"} => files["src"] = <<>>

\* Where each program is, and what its variables are bounded by.
Bounds ==
    /\ proc.at \in {"ask", "trunc", "map", "memcpy"} => scene.clone
    /\ proc.at \in {"read", "write"} => ~scene.clone
    /\ proc.at \notin {"read", "write", "done", "failed"} => proc.pos = 0
    /\ proc.pos <= Len(Source) /\ proc.size <= Len(Source) /\ Len(proc.buf) <= BUFFER_SIZE
    /\ scene.same => proc.size = 0

\* copy.c: what is written, and what is in the buffer while it is written.
Copying ==
    LET src == files["src"] IN
    /\ proc.at = "read" => proc.pos <= Len(src)
    /\ proc.at \in {"read", "done"} /\ ~scene.clone /\ "short" \notin scene.faults =>
          proc.pos <= Len(src) /\ files[File!dest] = SubSeq(src, 1, proc.pos)
    /\ proc.at = "write" =>
          \E p \in 0..Len(src) :
             /\ p < proc.pos /\ proc.pos <= Len(src)
             /\ proc.buf = SubSeq(src, p + 1, proc.pos)
             /\ "short" \notin scene.faults => files[File!dest] = SubSeq(src, 1, p)
    /\ proc.at = "done" /\ ~scene.clone /\ "read" \notin scene.faults => proc.pos = Len(src)

CopyInv == Shape /\ TwoFiles /\ Bounds /\ Copying

\* What the constants are.
Given ==
    /\ Source \in Content /\ Old \in Content /\ None \notin Content
    /\ BUFFER_SIZE \in Nat \ {0}
    /\ ScenesOf("file") \subseteq File!SceneType
-----------------------------------------------------------------------------
\* A piece of a sequence between two of its positions: its length, and what it
\* becomes when the next piece follows.
LEMMA Piece ==
    ASSUME NEW s \in Content, NEW p \in Nat, NEW q \in Nat, p <= q, q <= Len(s)
    PROVE  /\ SubSeq(s, p + 1, q) \in Content
           /\ Len(SubSeq(s, p + 1, q)) = q - p
           /\ SubSeq(s, 1, p) \o SubSeq(s, p + 1, q) = SubSeq(s, 1, q)
<1>1. \A i \in (p + 1)..q : s[i] \in Int
  BY DEF Content
<1>2. /\ SubSeq(s, p + 1, q) \in Content
      /\ Len(SubSeq(s, p + 1, q)) = IF p + 1 <= q THEN q - (p + 1) + 1 ELSE 0
  BY <1>1, SubSeqProperties DEF Content
<1>3. SubSeq(s, 1, p) \o SubSeq(s, p + 1, q) = SubSeq(s, 1, q)
  BY ConcatAdjacentSubSeq DEF Content
<1>. QED
  BY <1>2, <1>3

LEMMA Begun ==
    ASSUME NEW s \in Content, NEW p \in Nat, p <= Len(s)
    PROVE  SubSeq(s, 1, p) \in Content /\ Len(SubSeq(s, 1, p)) = p
<1>1. 0 + 1 = 1 /\ p - 0 = p
  OBVIOUS
<1>. QED
  BY <1>1, Piece, 0 \in Nat

LEMMA Empty ==
    ASSUME Given
    PROVE  <<>> \in Content /\ <<>> # None /\ Len(<<>>) = 0
<1>1. <<>> \in Content /\ Len(<<>>) = 0
  BY EmptySeq DEF Content
<1>. QED
  BY <1>1 DEF Given

LEMMA InvInit ==
    ASSUME Given, File!Init
    PROVE  CopyInv
<1>1. Shape
  BY DEF Given, File!Init, Shape, Steps, Content
<1>2. TwoFiles
  BY DEF Given, File!Init, TwoFiles, Early, Content
<1>3. Bounds
  BY DEF Given, File!Init, Bounds, Content
<1>4. Copying
  BY DEF File!Init, Copying
<1>. QED
  BY <1>1, <1>2, <1>3, <1>4 DEF CopyInv
-----------------------------------------------------------------------------
\* Giving up changes nothing that is said of the files.
LEMMA InvFails ==
    ASSUME CopyInv, proc' = [proc EXCEPT !.at = "failed"], UNCHANGED <<files, scene>>
    PROVE  CopyInv'
<1>1. Shape'
  BY DEF CopyInv, Shape, Steps
<1>2. TwoFiles'
  BY DEF CopyInv, Shape, TwoFiles, Early, File!dest
<1>3. Bounds'
  BY DEF CopyInv, Shape, Bounds
<1>4. Copying'
  BY DEF CopyInv, Shape, Copying
<1>. QED
  BY <1>1, <1>2, <1>3, <1>4 DEF CopyInv

LEMMA InvOpenSource ==
    ASSUME Given, CopyInv, File!OpenSource, UNCHANGED scene
    PROVE  CopyInv'
<1>. USE DEF File!Go, File!At
<1>1. CASE proc' = [proc EXCEPT !.at = "failed"] /\ UNCHANGED files
  BY <1>1, InvFails
<1>2. CASE ~scene.clone /\ files["src"] # None /\ File!Go("source", "dest") /\ UNCHANGED files
  BY <1>2 DEF CopyInv, Shape, Steps, TwoFiles, Early, Bounds, Copying, File!dest
<1>3. CASE /\ scene.clone /\ File!Go("source", "ask")
           /\ files' = [files EXCEPT !["src"] = IF @ = None THEN <<>> ELSE @]
  <2>1. <<>> \in Content /\ <<>> # None /\ Len(<<>>) = 0
    BY Empty
  <2>2. files'["src"] = (IF files["src"] = None THEN <<>> ELSE files["src"])
        /\ files'["dest"] = files["dest"] /\ files' \in [{"src", "dest"} -> Content \cup {None}]
    BY <1>3, <2>1 DEF CopyInv, Shape
  <2>3. Shape'
    BY <1>3, <2>2 DEF CopyInv, Shape, Steps
  <2>4. TwoFiles'
    BY <1>3, <2>1, <2>2 DEF CopyInv, Shape, TwoFiles, Early, File!dest, Given, Content
  <2>5. Bounds' /\ Copying'
    BY <1>3 DEF CopyInv, Shape, Bounds, Copying
  <2>. QED
    BY <2>3, <2>4, <2>5 DEF CopyInv
<1>. QED
  BY <1>1, <1>2, <1>3 DEF File!OpenSource, File!Fails

LEMMA InvAsk ==
    ASSUME CopyInv, File!Ask, UNCHANGED scene
    PROVE  CopyInv'
<1>1. CASE File!Go("ask", "dest")
  BY <1>1 DEF File!Ask, File!Go, File!At, CopyInv, Shape, Steps, TwoFiles, Early, Bounds, Copying, File!dest
<1>2. CASE File!Go("ask", "failed")
  BY <1>2, InvFails DEF File!Ask, File!Go
<1>. QED
  BY <1>1, <1>2 DEF File!Ask

\* Truncating the destination empties the source, too, when it is the same file.
LEMMA InvOpenDest ==
    ASSUME Given, CopyInv, File!OpenDest, UNCHANGED scene
    PROVE  CopyInv'
<1>. USE DEF File!Go, File!At
<1>1. CASE File!Fails("dest", "open")
  BY <1>1, InvFails DEF File!Fails
<1>2. CASE File!Go("dest", "chmod") /\ files' = [files EXCEPT ![File!dest] = <<>>]
  <2>1. <<>> \in Content /\ <<>> # None /\ Len(<<>>) = 0
    BY Empty
  <2>2. File!dest \in {"src", "dest"} /\ File!dest' = File!dest /\ (File!dest = "src" <=> scene.same)
    BY DEF File!dest
  <2>3. \A f \in {"src", "dest"} : files'[f] = IF f = File!dest THEN <<>> ELSE files[f]
    BY <1>2, <2>2 DEF CopyInv, Shape
  <2>4. Shape'
    BY <1>2, <2>1, <2>2 DEF CopyInv, Shape, Steps
  <2>5. TwoFiles'
    BY <1>2, <2>1, <2>2, <2>3 DEF CopyInv, Shape, TwoFiles, Early, Given, Content
  <2>6. Bounds' /\ Copying'
    BY <1>2 DEF CopyInv, Shape, Bounds, Copying
  <2>. QED
    BY <2>4, <2>5, <2>6 DEF CopyInv
<1>. QED
  BY <1>1, <1>2 DEF File!OpenDest

LEMMA InvChmod ==
    ASSUME Given, CopyInv, File!Chmod, UNCHANGED scene
    PROVE  CopyInv'
<1>. USE DEF File!Go, File!At
<1>1. CASE File!Fails("chmod", "chmod")
  BY <1>1, InvFails DEF File!Fails
<1>2. CASE /\ File!At("chmod")
           /\ proc' = [proc EXCEPT !.at = IF scene.clone THEN "trunc" ELSE "read",
                                   !.size = Len(files["src"])]
           /\ UNCHANGED files
  <2>1. files["src"] \in Content /\ Len(files["src"]) \in Nat
        /\ Len(files["src"]) <= Len(Source)
    BY <1>2 DEF CopyInv, Shape, TwoFiles, Content
  <2>2. proc.pos = 0 /\ files[File!dest] = <<>> /\ File!dest' = File!dest
    BY <1>2 DEF CopyInv, TwoFiles, Bounds, File!dest
  <2>3. SubSeq(files["src"], 1, 0) = <<>>
    BY SubSeqEmpty
  <2>4. Shape'
    BY <1>2, <2>1 DEF CopyInv, Shape, Steps
  <2>5. TwoFiles'
    BY <1>2, <2>2 DEF CopyInv, Shape, TwoFiles, Early
  <2>6. scene.same => Len(files["src"]) = 0
    BY <1>2 DEF CopyInv, TwoFiles, Early
  <2>7. Bounds'
    BY <1>2, <2>1, <2>2, <2>6 DEF CopyInv, Shape, Bounds
  <2>8. Copying'
    <3>1. files' = files /\ proc'.pos = 0 /\ proc'.at \in {"trunc", "read"}
      BY <1>2, <2>2 DEF CopyInv, Shape
    <3>2. files'[File!dest'] = SubSeq(files'["src"], 1, proc'.pos)
      BY <2>2, <2>3, <3>1
    <3>. QED
      BY <2>1, <3>1, <3>2 DEF Copying
  <2>. QED
    BY <2>4, <2>5, <2>7, <2>8 DEF CopyInv
<1>. QED
  BY <1>1, <1>2 DEF File!Chmod

\* The end of the file is where nothing is left to read.
LEMMA InvRead ==
    ASSUME Given, CopyInv, File!Read, UNCHANGED scene
    PROVE  CopyInv'
<1>. DEFINE src == files["src"]
            left == Len(src) - proc.pos
            n == IF left < BUFFER_SIZE THEN left ELSE BUFFER_SIZE
<1>1. File!At("read") /\ UNCHANGED files /\ File!dest' = File!dest
  BY DEF File!Read, File!Go, File!At, File!dest
<1>2. src \in Content /\ Len(src) \in Nat /\ Len(src) <= Len(Source) /\ proc.pos \in Nat
      /\ proc.pos <= Len(src) /\ Len(Source) \in Nat
  BY <1>1 DEF CopyInv, Shape, TwoFiles, Copying, File!At, Early, Content, Given
<1>3. n \in Nat /\ n <= left /\ n <= BUFFER_SIZE /\ (n = 0 <=> left = 0)
  BY <1>2 DEF Given
<1>4. CASE proc' = [proc EXCEPT !.at = IF n > 0 THEN "write" ELSE "done", !.pos = @ + n,
                                !.buf = SubSeq(src, proc.pos + 1, proc.pos + n)]
  <2>. DEFINE piece == SubSeq(src, proc.pos + 1, proc.pos + n)
  <2>1. piece \in Content /\ Len(piece) = n
    <3>1. proc.pos + n \in Nat /\ proc.pos <= proc.pos + n /\ proc.pos + n <= Len(src)
          /\ (proc.pos + n) - proc.pos = n
      BY <1>2, <1>3
    <3>. HIDE DEF n, left, src
    <3>. QED
      BY <1>2, <3>1, Piece
  <2>2. proc.pos + n \in Nat /\ proc.pos + n <= Len(src)
    BY <1>2, <1>3
  <2>3. /\ proc'.at = (IF n > 0 THEN "write" ELSE "done") /\ proc'.pos = proc.pos + n
        /\ proc'.buf = piece /\ proc'.size = proc.size
        /\ proc' \in [at : Steps, pos : Nat, buf : Content, size : Nat]
    <3>. HIDE DEF n, left, src, piece
    <3>. QED
      BY <1>4, <2>1, <2>2 DEF CopyInv, Shape, Steps, piece
  <2>. HIDE DEF piece
  <2>4. Shape'
    BY <1>1, <2>3 DEF CopyInv, Shape
  <2>5. TwoFiles'
    BY <1>1, <2>3 DEF CopyInv, TwoFiles, Early, File!At
  <2>6. Bounds'
    <3>. HIDE DEF n, left, src
    <3>. QED
      BY <1>1, <1>2, <1>3, <2>1, <2>2, <2>3 DEF CopyInv, TwoFiles, Bounds, Shape, File!At, Given
  <2>7. Copying'
    <3>1. proc'.at = "write" =>
             /\ proc.pos \in 0..Len(src) /\ proc.pos < proc'.pos /\ proc'.pos <= Len(src)
             /\ proc'.buf = SubSeq(src, proc.pos + 1, proc'.pos)
             /\ "short" \notin scene.faults => files[File!dest] = SubSeq(src, 1, proc.pos)
      <4>1. proc'.at = "write" => n > 0
        BY <2>3
      <4>2. proc.at = "read" /\ ~scene.clone
        BY <1>1 DEF File!At, CopyInv, Bounds
      <4>3. "short" \notin scene.faults => files[File!dest] = SubSeq(src, 1, proc.pos)
        BY <4>2 DEF CopyInv, Copying
      <4>. HIDE DEF n, left, src
      <4>. QED
        BY <1>2, <1>3, <2>2, <2>3, <4>1, <4>3 DEF piece
    <3>2. proc'.at = "done" => n = 0 /\ proc'.pos = proc.pos /\ proc.pos = Len(src)
      BY <1>2, <1>3, <2>3
    <3>3. proc.at = "read"
      BY <1>1 DEF File!At
    <3>4. proc'.at \in {"write", "done"}
      BY <2>3
    <3>. QED
      BY <1>1, <3>1, <3>2, <3>3, <3>4 DEF CopyInv, Copying
  <2>. QED
    BY <2>4, <2>5, <2>6, <2>7 DEF CopyInv
<1>5. CASE "read" \in scene.faults /\ File!Go("read", "done")
  BY <1>1, <1>2, <1>5 DEF File!Go, File!At, CopyInv, Shape, Steps, TwoFiles, Early, Bounds, Copying
<1>. QED
  BY <1>4, <1>5 DEF File!Read

\* The block that is written follows what is there.
LEMMA InvWrite ==
    ASSUME Given, CopyInv, File!Write, UNCHANGED scene
    PROVE  CopyInv'
<1>. DEFINE src == files["src"]
<1>1. CASE File!Fails("write", "write")
  BY <1>1, InvFails DEF File!Fails, File!Go
<1>2. CASE File!Go("write", "read") /\ ~File!Fails("write", "write")
  <2>1. PICK n \in 1..Len(proc.buf) :
           /\ n < Len(proc.buf) => "short" \in scene.faults
           /\ files' = [files EXCEPT ![File!dest] = @ \o SubSeq(proc.buf, 1, n)]
    BY <1>2 DEF File!Write
  <2>2. proc.at = "write" /\ ~scene.clone /\ File!dest' = File!dest
    BY <1>2 DEF File!Go, File!At, CopyInv, Bounds, File!dest
  <2>3. /\ src \in Content /\ Len(src) \in Nat /\ files[File!dest] \in Content
        /\ proc.buf \in Content /\ Len(proc.buf) \in Nat /\ proc.pos \in Nat
    <3>1. File!dest \in {"src", "dest"}
      BY DEF File!dest
    <3>. QED
      BY <2>2, <3>1 DEF CopyInv, Shape, TwoFiles, Early, Content
  <2>4. PICK p \in 0..Len(src) :
           /\ p < proc.pos /\ proc.pos <= Len(src)
           /\ proc.buf = SubSeq(src, p + 1, proc.pos)
           /\ "short" \notin scene.faults => files[File!dest] = SubSeq(src, 1, p)
    BY <2>2 DEF CopyInv, Copying
  <2>5. ~scene.same /\ File!dest = "dest"
    <3>1. Len(src) > 0
      BY <2>3, <2>4
    <3>2. src # <<>>
      BY <3>1
    <3>. QED
      BY <2>2, <3>2 DEF CopyInv, TwoFiles, Early, File!dest
  <2>6. SubSeq(proc.buf, 1, n) \in Content
    BY <2>3, <2>1, Begun
  <2>7. files[File!dest] \o SubSeq(proc.buf, 1, n) \in Content
    BY <2>3, <2>6, ConcatProperties DEF Content
  <2>8. files'["src"] = src /\ files'[File!dest] = files[File!dest] \o SubSeq(proc.buf, 1, n)
        /\ files' \in [{"src", "dest"} -> Content \cup {None}]
    BY <2>1, <2>5, <2>7 DEF CopyInv, Shape
  <2>9. "short" \notin scene.faults => files'[File!dest] = SubSeq(src, 1, proc.pos)
    <3>. SUFFICES ASSUME "short" \notin scene.faults
                  PROVE  files'[File!dest] = SubSeq(src, 1, proc.pos)
      OBVIOUS
    <3>1. n = Len(proc.buf)
      BY <2>1, <2>3
    <3>2. SubSeq(proc.buf, 1, n) = proc.buf
      BY <2>3, <3>1, SubSeqFull DEF Content
    <3>3. files[File!dest] = SubSeq(src, 1, p)
      BY <2>4
    <3>4. SubSeq(src, 1, p) \o SubSeq(src, p + 1, proc.pos) = SubSeq(src, 1, proc.pos)
      <4>1. p \in Nat /\ proc.pos \in Nat /\ p <= proc.pos /\ proc.pos <= Len(src)
        BY <2>3, <2>4
      <4>. HIDE DEF src
      <4>. QED
        BY <2>3, <4>1, Piece
    <3>. QED
      BY <2>4, <2>8, <3>2, <3>3, <3>4
  <2>10. proc' = [proc EXCEPT !.at = "read"]
    BY <1>2 DEF File!Go
  <2>11. Shape'
    BY <2>8, <2>10 DEF CopyInv, Shape, Steps
  <2>12. TwoFiles'
    BY <2>2, <2>5, <2>7, <2>8, <2>10 DEF CopyInv, Shape, TwoFiles, Early, Given
  <2>13. Bounds'
    BY <2>2, <2>10 DEF CopyInv, Shape, Bounds
  <2>14. Copying'
    BY <2>2, <2>4, <2>5, <2>8, <2>9, <2>10 DEF CopyInv, Shape, Copying
  <2>. QED
    BY <2>11, <2>12, <2>13, <2>14 DEF CopyInv
<1>. QED
  BY <1>1, <1>2 DEF File!Write

\* clone.c changes the destination only by giving it a length.
LEMMA InvClone ==
    ASSUME Given, CopyInv, File!Ftruncate \/ File!Mmap \/ File!Memcpy, UNCHANGED scene
    PROVE  CopyInv'
<1>. USE DEF File!Go, File!At
<1>1. CASE proc' = [proc EXCEPT !.at = "failed"] /\ UNCHANGED files
  BY <1>1, InvFails
<1>2. CASE File!Fails("trunc", "map") \/ File!Fails("map", "map")
  BY <1>2, InvFails DEF File!Fails
<1>3. CASE File!Go("trunc", "map") /\ files' = [files EXCEPT ![File!dest] = File!Zeros(proc.size)]
  <2>1. File!Zeros(proc.size) \in Content /\ Len(File!Zeros(proc.size)) = proc.size
    BY DEF File!Zeros, Content, CopyInv, Shape
  <2>2. File!Zeros(proc.size) # None
    BY <2>1 DEF Given
  <2>3. File!dest \in {"src", "dest"} /\ File!dest' = File!dest /\ (File!dest = "src" <=> scene.same)
    BY DEF File!dest
  <2>4. \A f \in {"src", "dest"} : files'[f] = IF f = File!dest THEN File!Zeros(proc.size) ELSE files[f]
    BY <1>3, <2>3 DEF CopyInv, Shape
  <2>5. Shape'
    BY <1>3, <2>1, <2>3 DEF CopyInv, Shape, Steps
  <2>6. scene.same => File!Zeros(proc.size) = <<>>
    <3>1. scene.same => Len(File!Zeros(proc.size)) = 0
      BY <2>1 DEF CopyInv, Bounds
    <3>. QED
      BY <2>1, <3>1, EmptySeq DEF Content
  <2>7. TwoFiles'
    BY <1>3, <2>1, <2>2, <2>3, <2>4, <2>6 DEF CopyInv, Shape, TwoFiles, Early, Bounds
  <2>8. Bounds' /\ Copying'
    BY <1>3 DEF CopyInv, Shape, Bounds, Copying
  <2>. QED
    BY <2>5, <2>7, <2>8 DEF CopyInv
<1>4. CASE File!Go("map", "memcpy") /\ UNCHANGED files
  BY <1>4 DEF CopyInv, Shape, Steps, TwoFiles, Early, Bounds, Copying, File!dest
<1>5. CASE File!Memcpy
  BY <1>5 DEF File!Memcpy, CopyInv, Shape, Steps, TwoFiles, Early, Bounds, Copying, File!dest
<1>. QED
  BY <1>1, <1>2, <1>3, <1>4, <1>5 DEF File!Ftruncate, File!Mmap
-----------------------------------------------------------------------------
\* What is there is a beginning of the source, and all of it at the end.
LEMMA InvFaithful ==
    ASSUME Given, CopyInv
    PROVE  File!Faithful
<1>. DEFINE src == files["src"]
<1>1. File!TypeOK
  BY DEF CopyInv, Shape, Bounds, File!TypeOK, Steps, Content, Given
<1>2. ASSUME File!Beginning PROVE files[File!dest] = SubSeq(src, 1, Len(files[File!dest]))
  <2>1. src \in Content /\ Len(src) \in Nat /\ proc.pos \in Nat
    BY <1>2 DEF File!Beginning, CopyInv, Shape, TwoFiles, Early, Content
  <2>2. PICK p \in Nat : p <= Len(src) /\ files[File!dest] = SubSeq(src, 1, p)
    <3>1. CASE proc.at \in {"read", "done"}
      BY <1>2, <2>1, <3>1 DEF File!Beginning, CopyInv, Copying
    <3>2. CASE proc.at = "write"
      <4>1. PICK p \in 0..Len(src) : files[File!dest] = SubSeq(src, 1, p)
        BY <1>2, <3>2 DEF File!Beginning, CopyInv, Copying
      <4>. QED
        BY <2>1, <4>1
    <3>. QED
      BY <1>2, <3>1, <3>2 DEF File!Beginning
  <2>3. Len(files[File!dest]) = p
    BY <2>1, <2>2, Begun
  <2>. QED
    BY <2>2, <2>3
<1>3. ASSUME ~scene.clone PROVE File!SameContent
  <2>. SUFFICES ASSUME File!At("done"), ~scene.same, scene.faults \cap {"read", "short"} = {}
                PROVE  files["dest"] = src
    BY DEF File!SameContent
  <2>1. proc.at = "done" /\ File!dest = "dest" /\ "read" \notin scene.faults
        /\ "short" \notin scene.faults
    BY DEF File!At, File!dest
  <2>2. files["dest"] = SubSeq(src, 1, Len(src))
    BY <1>3, <2>1 DEF CopyInv, Copying
  <2>3. src \in Content
    BY <2>1 DEF CopyInv, Shape, TwoFiles
  <2>. QED
    BY <2>2, <2>3, SubSeqFull DEF Content
<1>4. ~scene.same /\ "src" \in scene.there => src = Source
  BY DEF CopyInv, TwoFiles
<1>. QED
  BY <1>1, <1>2, <1>3, <1>4 DEF File!Faithful

LEMMA CopyStep ==
    ASSUME Given, CopyInv, [File!Next]_(File!vars)
    PROVE  CopyInv'
<1>1. CASE File!Next
  BY <1>1, InvOpenSource, InvAsk, InvOpenDest, InvChmod, InvRead, InvWrite, InvClone DEF File!Next
<1>2. CASE UNCHANGED File!vars
  BY <1>2 DEF File!vars, File!moving, CopyInv, Shape, TwoFiles, Bounds, Copying, File!dest
<1>. QED
  BY <1>1, <1>2

LEMMA FileGiven == Given
<1>1. ScenesOf("file") \subseteq File!SceneType
  BY TransfersAssumption
<1>. QED
  BY <1>1, NoneIsNone, FilesAssumption, SizesAssumption DEF Given, Content

\* For every source and every size of the buffer, copy.c writes a beginning of
\* the source and ends with all of it, unless a call has failed; and neither it
\* nor clone.c touches a source that is another file than the destination.
THEOREM CopyFaithful == File!Spec => []File!Faithful
<1>1. File!Init => CopyInv
  BY InvInit, FileGiven
<1>2. CopyInv /\ [File!Next]_(File!vars) => CopyInv'
  BY CopyStep, FileGiven
<1>3. CopyInv => File!Faithful
  BY InvFaithful, FileGiven
<1>. QED
  BY <1>1, <1>2, <1>3, PTL DEF File!Spec
-----------------------------------------------------------------------------
(* PipeChild, both programs with and without a kill of the parent.         *)

\* Who holds which end open; what it means when the parent is gone without
\* having written.
PipeInv ==
    /\ Pipe!TypeOK
    /\ proc = "pipe" => child.at = "none"
    /\ child.at = "none" => proc \in {"pipe", "end"}
    /\ child.got = "hello" => queues.text
    /\ proc \in {"close", "write", "wait"} => "parent" \in queues.writes
    /\ child.at \in {"close", "exec", "read"} => "child" \in queues.reads
    /\ proc \in {"pipe", "close", "write"} => ~queues.text
    /\ proc = "wait" => queues.text
    /\ child.at # "none" /\ ~queues.text /\ proc = "end" => scene.mortal \/ scene.missing
    /\ child.at = "end" /\ child.got # "hello" =>
          scene.missing \/ (proc = "end" /\ ~queues.text /\ scene.mortal)

LEMMA PipeInit ==
    ASSUME ScenesOf("pipe") \subseteq Pipe!SceneType, Pipe!Init
    PROVE  PipeInv
  BY DEF Pipe!Init, PipeInv, Pipe!TypeOK

\* A process that ends takes its ends of the pipe with it.
LEMMA PipeExits ==
    ASSUME Pipe!TypeOK, NEW w \in {"parent", "child"}, Pipe!Exits(w)
    PROVE  /\ queues' \in [text : BOOLEAN, reads : SUBSET {"parent", "child"},
                           writes : SUBSET {"parent", "child"}]
           /\ queues'.text = queues.text
           /\ queues'.reads = queues.reads \ {w} /\ queues'.writes = queues.writes \ {w}
<1>1. \A S \in SUBSET {"parent", "child"} : S \ {w} \in SUBSET {"parent", "child"}
  OBVIOUS
<1>2. /\ queues.reads \ {w} \in SUBSET {"parent", "child"}
      /\ queues.writes \ {w} \in SUBSET {"parent", "child"}
  BY <1>1 DEF Pipe!TypeOK
<1>3. queues' = [queues EXCEPT !.reads = queues.reads \ {w}, !.writes = queues.writes \ {w}]
  BY DEF Pipe!Exits
<1>. QED
  BY <1>2, <1>3 DEF Pipe!TypeOK

\* A child that has not read yet keeps the pipe readable, and the parent keeps
\* it writable until it has written, unless it is killed.
LEMMA PipeStep ==
    ASSUME PipeInv, [Pipe!Next]_(Pipe!vars)
    PROVE  PipeInv'
<1>. USE DEF PipeInv, Pipe!TypeOK, Pipe!Child, Pipe!Close
<1>1. CASE Pipe!Fork /\ UNCHANGED scene
  <2>1. CASE proc' = "end" /\ UNCHANGED <<child, queues>>
    BY <1>1, <2>1 DEF Pipe!Fork
  <2>2. CASE /\ proc' = "close"
             /\ child' = [child EXCEPT !.at = "close"]
             /\ queues' = [queues EXCEPT !.reads = {"parent", "child"}, !.writes = {"parent", "child"}]
    <3>1. child'.at = "close" /\ child'.got = child.got /\ queues'.text = queues.text
      BY <2>2
    <3>2. queues'.reads = {"parent", "child"} /\ queues'.writes = {"parent", "child"}
      BY <2>2
    <3>3. Pipe!TypeOK'
      BY <1>1, <2>2
    <3>. QED
      BY <1>1, <2>2, <3>1, <3>2, <3>3 DEF Pipe!Fork
  <2>. QED
    BY <1>1, <2>1, <2>2 DEF Pipe!Fork
<1>2. CASE Pipe!ParentCloses /\ UNCHANGED scene
  BY <1>2 DEF Pipe!ParentCloses
<1>3. CASE Pipe!Write /\ UNCHANGED scene
  <2>1. CASE queues.reads = {}
    <3>1. child.at = "end" /\ child.got # "hello" /\ scene.missing
      BY <1>3, <2>1 DEF Pipe!Write
    <3>2. queues'.text = queues.text /\ Pipe!TypeOK'
      BY <1>3, <2>1, PipeExits DEF Pipe!Write
    <3>3. proc' = "end" /\ child' = child /\ scene' = scene
      BY <1>3, <2>1 DEF Pipe!Write
    <3>. QED
      BY <3>1, <3>2, <3>3
  <2>2. CASE queues.reads # {}
    BY <1>3, <2>2 DEF Pipe!Write
  <2>. QED
    BY <2>1, <2>2
<1>4. CASE Pipe!Wait /\ UNCHANGED scene
  BY <1>4, PipeExits DEF Pipe!Wait
<1>5. CASE Pipe!ChildCloses /\ UNCHANGED scene
  BY <1>5 DEF Pipe!ChildCloses
<1>6. CASE Pipe!Exec /\ UNCHANGED scene
  <2>1. CASE scene.missing
    <3>1. /\ queues'.text = queues.text /\ queues'.writes = queues.writes \ {"child"}
          /\ child'.at = "end" /\ child'.got = child.got /\ proc' = proc /\ scene' = scene
      BY <1>6, <2>1, PipeExits DEF Pipe!Exec
    <3>2. Pipe!TypeOK'
      BY <1>6, <2>1, PipeExits DEF Pipe!Exec
    <3>. QED
      BY <1>6, <2>1, <3>1, <3>2 DEF Pipe!Exec
  <2>2. CASE ~scene.missing
    BY <1>6, <2>2 DEF Pipe!Exec
  <2>. QED
    BY <2>1, <2>2
<1>7. CASE Pipe!Read /\ UNCHANGED scene
  BY <1>7, PipeExits DEF Pipe!Read
<1>8. CASE Pipe!Kill /\ UNCHANGED scene
  BY <1>8, PipeExits DEF Pipe!Kill
<1>9. CASE UNCHANGED Pipe!vars
  BY <1>9 DEF Pipe!vars, Pipe!moving
<1>. QED
  BY <1>1, <1>2, <1>3, <1>4, <1>5, <1>6, <1>7, <1>8, <1>9
     DEF Pipe!Next, Pipe!Parent, Pipe!ChildStep

LEMMA PipeFaithful == PipeInv => Pipe!Faithful
  BY DEF PipeInv, Pipe!Faithful, Pipe!Child
-----------------------------------------------------------------------------
(* Filter, any number of lines, any room in the socket and any buffer.      *)

ChatTyped ==
    /\ scene.lines \in Nat
    /\ proc \in [at : {"fork", "send", "read", "done", "failed", "killed"}, sent : Nat,
                got : Seq(Nat), text : Seq(Nat), shown : Seq(Nat), exact : BOOLEAN]
    /\ child \in [at : {"none", "exec", "filter", "end"}, read : Nat, wrote : Nat]
    /\ queues \in [down : Seq(Int), back : Seq(Nat), shut : BOOLEAN]

\* Half lines are numbered in the order in which they are written: those the
\* parent has got, and those that wait for it, are all that was written.
Numbered(g, b, w) ==
    /\ Len(g) + Len(b) = w
    /\ \A i \in 1..Len(g) : g[i] = i
    /\ \A i \in 1..Len(b) : b[i] = Len(g) + i

\* The parent reads some of them, or the filter writes the next two.
LEMMA NumberedShift ==
    ASSUME NEW g \in Seq(Nat), NEW b \in Seq(Nat), NEW w, NEW n \in 1..Len(b), Numbered(g, b, w)
    PROVE  /\ Numbered(g \o SubSeq(b, 1, n), SubSeq(b, n + 1, Len(b)), w)
           /\ SubSeq(b, 1, n) \in Seq(Nat) /\ g \o SubSeq(b, 1, n) \in Seq(Nat)
           /\ SubSeq(b, n + 1, Len(b)) \in Seq(Nat)
           /\ Len(SubSeq(b, 1, n)) = n /\ Len(SubSeq(b, n + 1, Len(b))) = Len(b) - n
<1>. DEFINE x == SubSeq(b, 1, n)
            y == SubSeq(b, n + 1, Len(b))
            m == Len(b)
            k == Len(g)
<1>1. /\ n \in Nat /\ m \in Nat /\ k \in Nat /\ n <= m /\ n >= 1
  OBVIOUS
<1>2. /\ x \in Seq(Nat) /\ Len(x) = n /\ \A i \in 1..n : x[i] = b[i]
  BY <1>1
<1>3. y \in Seq(Nat) /\ Len(y) = m - n /\ \A i \in 1..(m - n) : y[i] = b[n + i]
  BY <1>1
<1>4. k + m = w /\ (\A i \in 1..k : g[i] = i) /\ \A i \in 1..m : b[i] = k + i
  BY DEF Numbered
<1>5. /\ g \o x \in Seq(Nat) /\ Len(g \o x) = k + n
      /\ \A i \in 1..(k + n) : (g \o x)[i] = IF i <= k THEN g[i] ELSE x[i - k]
  <2>. HIDE DEF x
  <2>. QED
    BY <1>2, ConcatProperties
<1>. HIDE DEF x, y, m, k
<1>6. ASSUME NEW i \in 1..(k + n) PROVE (g \o x)[i] = i
  <2>1. CASE i <= k
    <3>1. i \in 1..k /\ (g \o x)[i] = g[i]
      BY <1>1, <1>5, <2>1
    <3>. QED
      BY <1>4, <3>1
  <2>2. CASE ~(i <= k)
    <3>1. i - k \in 1..n /\ i - k \in 1..m
      BY <1>1, <2>2
    <3>2. (g \o x)[i] = b[i - k] /\ b[i - k] = k + (i - k)
      BY <1>2, <1>4, <1>5, <2>2, <3>1
    <3>. QED
      BY <1>1, <3>2
  <2>. QED
    BY <2>1, <2>2
<1>7. ASSUME NEW i \in 1..(m - n) PROVE y[i] = (k + n) + i
  <2>1. n + i \in 1..m
    BY <1>1
  <2>2. y[i] = b[n + i] /\ b[n + i] = k + (n + i)
    BY <1>3, <1>4, <2>1
  <2>. QED
    BY <1>1, <2>2
<1>8. (k + n) + (m - n) = w
  BY <1>1, <1>4
<1>9. Numbered(g \o x, y, w)
  BY <1>3, <1>5, <1>6, <1>7, <1>8 DEF Numbered
<1>. QED
  BY <1>2, <1>3, <1>5, <1>9 DEF x, y, m

LEMMA NumberedMore ==
    ASSUME NEW g \in Seq(Nat), NEW b \in Seq(Nat), NEW w \in Nat, Numbered(g, b, w)
    PROVE  Numbered(g, Append(b, w + 1), w + 1)
<1>1. w = Len(g) + Len(b) /\ w + 1 \in Nat
  BY DEF Numbered
<1>2. /\ Len(Append(b, w + 1)) = Len(b) + 1 /\ Append(b, w + 1)[Len(b) + 1] = w + 1
      /\ \A i \in 1..Len(b) : Append(b, w + 1)[i] = b[i]
  BY <1>1, AppendProperties
<1>3. Len(g) + Len(Append(b, w + 1)) = w + 1
  BY <1>1, <1>2
<1>4. \A i \in 1..Len(Append(b, w + 1)) : Append(b, w + 1)[i] = Len(g) + i
  <2>. SUFFICES ASSUME NEW i \in 1..(Len(b) + 1)
                PROVE  Append(b, w + 1)[i] = Len(g) + i
    BY <1>2
  <2>1. CASE i = Len(b) + 1
    BY <1>1, <1>2, <2>1
  <2>2. CASE i \in 1..Len(b)
    BY <1>2, <2>2 DEF Numbered
  <2>. QED
    BY <2>1, <2>2
<1>. QED
  BY <1>3, <1>4 DEF Numbered

LEMMA NumberedLine ==
    ASSUME NEW g \in Seq(Nat), NEW b \in Seq(Nat), NEW k \in Nat, Numbered(g, b, 2 * k)
    PROVE  /\ b \o Chat!Line(k + 1) \in Seq(Nat) /\ Len(b \o Chat!Line(k + 1)) = Len(b) + 2
           /\ Numbered(g, b \o Chat!Line(k + 1), 2 * (k + 1))
<1>1. PICK w \in Nat : w = 2 * k
  OBVIOUS
<1>2. Chat!Line(k + 1) = <<w + 1, w + 2>> /\ 2 * (k + 1) = w + 1 + 1 /\ w + 2 = w + 1 + 1
  BY <1>1 DEF Chat!Line
<1>3. /\ w + 1 \in Nat /\ Append(b, w + 1) \in Seq(Nat)
      /\ Len(Append(b, w + 1)) = Len(b) + 1 /\ Numbered(g, Append(b, w + 1), w + 1)
  <2>1. w + 1 \in Nat
    OBVIOUS
  <2>2. Append(b, w + 1) \in Seq(Nat) /\ Len(Append(b, w + 1)) = Len(b) + 1
    BY <2>1, AppendProperties
  <2>3. Numbered(g, b, w)
    BY <1>1
  <2>4. Numbered(g, Append(b, w + 1), w + 1)
    BY <2>3, NumberedMore
  <2>. QED
    BY <2>1, <2>2, <2>4
<1>4. PICK c \in Seq(Nat), v \in Nat : c = Append(b, w + 1) /\ v = w + 1
  BY <1>3
<1>5. /\ Append(c, v + 1) \in Seq(Nat) /\ Len(Append(c, v + 1)) = Len(c) + 1
      /\ Numbered(g, Append(c, v + 1), v + 1)
  <2>1. v + 1 \in Nat
    OBVIOUS
  <2>2. Append(c, v + 1) \in Seq(Nat) /\ Len(Append(c, v + 1)) = Len(c) + 1
    BY <2>1, AppendProperties
  <2>3. Numbered(g, c, v)
    BY <1>3, <1>4
  <2>4. Numbered(g, Append(c, v + 1), v + 1)
    BY <2>3, NumberedMore
  <2>. QED
    BY <2>2, <2>4
<1>6. b \o <<w + 1, w + 2>> = Append(Append(b, w + 1), w + 2)
  OBVIOUS
<1>7. b \o Chat!Line(k + 1) = Append(c, v + 1) /\ 2 * (k + 1) = v + 1
  BY <1>2, <1>4, <1>6
<1>8. Len(Append(c, v + 1)) = Len(b) + 2
  <2>1. Len(c) = Len(b) + 1 /\ Len(b) \in Nat
    BY <1>3, <1>4
  <2>. QED
    BY <1>5, <2>1
<1>. QED
  BY <1>5, <1>7, <1>8

\* What is in a direction of the socket, with the count of what was taken from it.
Taken(n, d, sent, room) == n + Len(d) = sent /\ Len(d) <= room

LEMMA TakenMore ==
    ASSUME NEW n \in Nat, NEW d \in Seq(Int), NEW s \in Nat, NEW v \in Int, NEW room \in Nat,
           Taken(n, d, s, room), Len(d) < room
    PROVE  Taken(n, Append(d, v), s + 1, room)
<1>1. Len(Append(d, v)) = Len(d) + 1
  BY AppendProperties
<1>. QED
  BY <1>1 DEF Taken

LEMMA TakenShift ==
    ASSUME NEW n \in Nat, NEW d \in Seq(Int), NEW s \in Nat, NEW room \in Nat,
           Taken(n, d, s, room), d # <<>>
    PROVE  Taken(n + 1, Tail(d), s, room)
<1>1. Len(Tail(d)) = Len(d) - 1
  BY HeadTailProperties
<1>. QED
  BY <1>1 DEF Taken

InOrder == Numbered(proc.got, queues.back, 2 * child.wrote)
Shown == proc.exact => proc.shown = proc.got

Passed ==
    /\ Taken(child.read, queues.down, proc.sent, Lines) /\ proc.sent <= scene.lines
    /\ child.wrote <= child.read
    /\ Len(queues.back) <= 2 * Lines
    /\ proc.at \in {"read", "done"} => proc.sent = scene.lines
    /\ queues.shut => proc.at \in {"read", "done"}
    /\ child.at = "end" /\ scene.kind \in {"each", "all"} =>
          queues.down = <<>> /\ queues.shut /\ child.read = child.wrote
    /\ proc.at = "done" => child.at = "end" /\ queues.back = <<>>

ChatInv ==
    /\ scene \in ScenesOf("filter") /\ scene \in Chat!SceneType
    /\ ChatTyped /\ InOrder /\ Shown /\ Passed

LEMMA ChatInit ==
    ASSUME ScenesOf("filter") \subseteq Chat!SceneType, Lines \in Nat, Chat!Init
    PROVE  ChatInv
<1>1. <<>> \in Seq(Int) /\ <<>> \in Seq(Nat) /\ Len(<<>>) = 0
  OBVIOUS
<1>2. scene.lines \in Nat
  BY DEF Chat!Init, Chat!SceneType
<1>3. ChatTyped
  BY <1>1, <1>2 DEF Chat!Init, ChatTyped
<1>4. InOrder /\ Shown /\ Passed
  BY <1>1, <1>2 DEF Chat!Init, InOrder, Numbered, Shown, Taken, Passed
<1>. QED
  BY <1>3, <1>4 DEF Chat!Init, ChatInv

\* Each line is appended at one end and taken away at the other one.
LEMMA ChatStep ==
    ASSUME Lines \in Nat, LINELEN \in Nat, LINELEN > 0, ChatInv, [Chat!Next]_(Chat!vars)
    PROVE  ChatInv'
<1>. ChatTyped /\ InOrder /\ Shown /\ Passed
  BY DEF ChatInv
<1>. SUFFICES ASSUME scene' = scene
              PROVE  (ChatTyped /\ InOrder /\ Shown /\ Passed)'
  BY DEF ChatInv, Chat!Next, Chat!vars
<1>. USE DEF Chat!At, Chat!Child
<1>1. CASE Chat!Fork
  <2>1. ChatTyped'
    BY <1>1 DEF Chat!Fork, ChatTyped
  <2>2. queues' = queues /\ child'.read = child.read /\ child'.wrote = child.wrote
    BY <1>1 DEF Chat!Fork, ChatTyped
  <2>3. /\ proc'.sent = proc.sent /\ proc'.got = proc.got
        /\ proc'.shown = proc.shown /\ proc'.exact = proc.exact
        /\ proc.at = "fork" /\ proc'.at \in {"send", "failed"}
        /\ child'.at \in {"exec", child.at}
    BY <1>1 DEF Chat!Fork, ChatTyped
  <2>. QED
    BY <2>1, <2>2, <2>3 DEF InOrder, Shown, Passed
<1>2. CASE Chat!Send
  <2>1. CASE child.at = "end"
    <3>1. /\ ChatTyped' /\ queues' = queues /\ child' = child
          /\ proc'.sent = proc.sent /\ proc'.got = proc.got
        /\ proc'.shown = proc.shown /\ proc'.exact = proc.exact
          /\ proc.at = "send" /\ proc'.at = "killed"
      BY <1>2, <2>1 DEF Chat!Send, ChatTyped
    <3>. QED
      BY <3>1 DEF InOrder, Shown, Passed
  <2>2. CASE child.at # "end"
    <3>1. /\ queues.down \in Seq(Int) /\ proc.sent \in Nat /\ proc.sent + 1 \in Int
          /\ child.read \in Nat /\ scene.lines \in Nat
      BY DEF ChatTyped
    <3>2. /\ Append(queues.down, proc.sent + 1) \in Seq(Int)
          /\ Len(Append(queues.down, proc.sent + 1)) = Len(queues.down) + 1
      BY <3>1, AppendProperties
    <3>3. /\ child' = child
          /\ proc.at = "send" /\ Len(queues.down) < Lines /\ proc.sent < scene.lines
      BY <1>2, <2>2 DEF Chat!Send
    <3>7. /\ queues' = [queues EXCEPT !.down = Append(queues.down, proc.sent + 1)]
          /\ proc' = [proc EXCEPT !.sent = proc.sent + 1, !.text = Chat!Line(proc.sent + 1)]
      BY <1>2, <2>2 DEF Chat!Send
    <3>8. Chat!Line(proc.sent + 1) \in Seq(Nat)
      <4>1. 2 * (proc.sent + 1) - 1 \in Nat /\ 2 * (proc.sent + 1) \in Nat
        BY <3>1
      <4>. QED
        BY <4>1 DEF Chat!Line
    <3>4. /\ ChatTyped' /\ queues'.down = Append(queues.down, proc.sent + 1)
          /\ queues'.back = queues.back /\ queues'.shut = queues.shut
          /\ proc'.sent = proc.sent + 1 /\ proc'.got = proc.got
        /\ proc'.shown = proc.shown /\ proc'.exact = proc.exact /\ proc'.at = "send"
      <4>1. proc.sent + 1 \in Nat
        BY <3>1
      <4>. QED
        BY <3>2, <3>3, <3>7, <3>8, <4>1 DEF ChatTyped
    <3>5. Taken(child.read, queues'.down, proc'.sent, Lines)
      BY <3>1, <3>3, <3>4, TakenMore DEF Passed
    <3>6. proc'.sent <= scene.lines
      BY <3>1, <3>3, <3>4
    <3>. QED
      BY <2>2, <3>3, <3>4, <3>5, <3>6 DEF InOrder, Shown, Passed
  <2>. QED
    BY <2>1, <2>2
<1>3. CASE Chat!Shutdown
  <2>1. ChatTyped' /\ child' = child
    BY <1>3 DEF Chat!Shutdown, ChatTyped
  <2>2. /\ proc'.at = "read" /\ proc'.sent = proc.sent /\ proc'.got = proc.got
        /\ proc'.shown = proc.shown /\ proc'.exact = proc.exact
        /\ proc.at = "send" /\ proc.sent = scene.lines
        /\ queues'.down = queues.down /\ queues'.back = queues.back /\ queues'.shut
    BY <1>3 DEF Chat!Shutdown, ChatTyped
  <2>. QED
    BY <2>1, <2>2 DEF InOrder, Shown, Passed
<1>4. CASE Chat!Read
  <2>1. CASE queues.back # <<>> /\ queues' = [queues EXCEPT !.back = SubSeq(@, Chat!Taken + 1, Len(@))]
    <3>1. /\ queues.back \in Seq(Nat) /\ proc.got \in Seq(Nat) /\ proc.text \in Seq(Nat)
          /\ proc.shown \in Seq(Nat) /\ proc.exact \in BOOLEAN
          /\ Len(queues.back) \in Nat /\ Len(queues.back) > 0
      BY <2>1 DEF ChatTyped
    <3>2. PICK n \in 1..Len(queues.back) : n = Chat!Taken
      <4>1. Chat!Taken \in 1..Len(queues.back)
        BY <3>1 DEF Chat!Taken
      <4>. QED
        BY <4>1
    <3>3. PICK new \in Seq(Nat), left \in Seq(Nat) :
             new = SubSeq(queues.back, 1, n) /\ left = SubSeq(queues.back, n + 1, Len(queues.back))
      BY <3>1, NumberedShift DEF InOrder
    <3>4. /\ proc.got \o new \in Seq(Nat) /\ Len(left) = Len(queues.back) - n
          /\ Numbered(proc.got \o new, left, 2 * child.wrote)
      BY <3>1, <3>3, NumberedShift DEF InOrder
    <3>5. PICK rest \in Chat!Behind(n) :
             proc' = [proc EXCEPT !.got = proc.got \o new, !.text = new \o rest,
                                  !.shown = proc.shown \o new \o rest,
                                  !.exact = proc.exact /\ n = Len(proc.text)]
      BY <1>4, <2>1, <3>2, <3>3 DEF Chat!Read
    <3>6. rest \in Seq(Nat) /\ (n = Len(proc.text) => rest = <<>>)
      <4>1. CASE n <= Len(proc.text)
        <5>1. PICK t \in Seq(Nat), m \in Nat : t = proc.text /\ m = Len(t)
          BY <3>1
        <5>2. rest = SubSeq(t, n + 1, m)
          BY <3>5, <4>1, <5>1 DEF Chat!Behind
        <5>3. SubSeq(t, n + 1, m) \in Seq(Nat)
          BY <5>1
        <5>4. n = m => SubSeq(t, n + 1, m) = <<>>
          BY SubSeqEmpty
        <5>. QED
          BY <5>1, <5>2, <5>3, <5>4
      <4>2. CASE ~(n <= Len(proc.text))
        <5>1. <<>> \in Seq(Nat) /\ <<0>> \in Seq(Nat) /\ n # Len(proc.text)
          BY <3>1, <4>2
        <5>. QED
          BY <3>5, <4>2, <5>1 DEF Chat!Behind, Chat!Garbage
      <4>. QED
        BY <4>1, <4>2
    <3>7. /\ new \o rest \in Seq(Nat) /\ proc.shown \o new \o rest \in Seq(Nat)
          /\ rest = <<>> => proc.shown \o new \o rest = proc.shown \o new
      <4>1. proc.shown \o new \in Seq(Nat) /\ new \o rest \in Seq(Nat)
        BY <3>1, <3>6, ConcatProperties
      <4>. QED
        BY <3>6, <4>1, ConcatProperties, ConcatEmptySeq
    <3>8. /\ proc' \in [at : {"fork", "send", "read", "done", "failed", "killed"}, sent : Nat,
                         got : Seq(Nat), text : Seq(Nat), shown : Seq(Nat), exact : BOOLEAN]
          /\ proc'.got = proc.got \o new /\ proc'.at = proc.at /\ proc'.sent = proc.sent
          /\ proc'.shown = proc.shown \o new \o rest
          /\ proc'.exact => proc.exact /\ n = Len(proc.text)
      <4>1. (proc.exact /\ n = Len(proc.text)) \in BOOLEAN
        OBVIOUS
      <4>. QED
        BY <3>4, <3>5, <3>7, <4>1 DEF ChatTyped
    <3>9. /\ queues' = [queues EXCEPT !.back = left]
      BY <2>1, <3>2, <3>3
    <3>10. /\ ChatTyped' /\ queues'.back = left
           /\ queues'.down = queues.down /\ queues'.shut = queues.shut
           /\ child' = child /\ proc.at = "read"
      BY <1>4, <3>8, <3>9 DEF Chat!Read, ChatTyped
    <3>11. InOrder'
      BY <3>4, <3>8, <3>10 DEF InOrder
    <3>12. Shown'
      BY <3>6, <3>7, <3>8 DEF Shown
    <3>13. Len(queues'.back) <= 2 * Lines
      <4>1. Len(queues.back) <= 2 * Lines
        BY DEF Passed
      <4>. QED
        BY <3>1, <3>4, <3>10, <4>1
    <3>. QED
      BY <3>8, <3>10, <3>11, <3>12, <3>13 DEF Passed
  <2>2. CASE queues.back = <<>> /\ child.at = "end" /\ proc' = [proc EXCEPT !.at = "done"]
                                /\ UNCHANGED queues
    <3>1. /\ ChatTyped' /\ queues' = queues /\ child' = child /\ proc.at = "read"
          /\ proc'.got = proc.got
        /\ proc'.shown = proc.shown /\ proc'.exact = proc.exact /\ proc'.at = "done" /\ proc'.sent = proc.sent
      BY <1>4, <2>2 DEF Chat!Read, ChatTyped
    <3>. QED
      BY <2>2, <3>1 DEF InOrder, Shown, Passed
  <2>. QED
    BY <1>4, <2>1, <2>2 DEF Chat!Read
<1>5. CASE Chat!Exec
  <2>1. /\ ChatTyped' /\ queues' = queues /\ proc' = proc
        /\ child'.at = IF scene.kind = "none" THEN "end" ELSE "filter"
        /\ child.at = "exec" /\ child'.read = child.read /\ child'.wrote = child.wrote
    BY <1>5 DEF Chat!Exec, ChatTyped
  <2>. QED
    BY <2>1 DEF InOrder, Shown, Passed
<1>6. CASE Chat!FilterReads
  <2>1. CASE queues.down # <<>> /\ child' = [child EXCEPT !.read = @ + 1]
                                /\ queues' = [queues EXCEPT !.down = Tail(@)]
    <3>1. /\ queues.down \in Seq(Int) /\ Len(queues.down) \in Nat
          /\ child.read \in Nat /\ child.wrote \in Nat /\ proc.sent \in Nat
      BY DEF ChatTyped
    <3>2. Tail(queues.down) \in Seq(Int) /\ Len(Tail(queues.down)) = Len(queues.down) - 1
      BY <2>1, <3>1, HeadTailProperties
    <3>3. proc' = proc /\ child.at = "filter" /\ child.read + 1 \in Nat
      BY <1>6, <3>1 DEF Chat!FilterReads
    <3>4. /\ ChatTyped'
          /\ child'.read = child.read + 1 /\ child'.wrote = child.wrote /\ child'.at = child.at
          /\ queues'.down = Tail(queues.down) /\ queues'.back = queues.back
          /\ queues'.shut = queues.shut
      BY <2>1, <3>2, <3>3 DEF ChatTyped
    <3>5. Taken(child'.read, queues'.down, proc.sent, Lines)
      BY <2>1, <3>1, <3>4, TakenShift DEF Passed
    <3>6. child.wrote <= child'.read
      BY <3>1, <3>4 DEF Passed
    <3>. QED
      BY <3>3, <3>4, <3>5, <3>6 DEF InOrder, Shown, Passed
  <2>2. CASE /\ child' = [child EXCEPT !.at = "end"] /\ UNCHANGED queues
             /\ \/ scene.kind = "first"
                \/ queues.down = <<>> /\ queues.shut /\ child.read = child.wrote
    <3>1. /\ ChatTyped' /\ proc' = proc /\ queues' = queues /\ child'.at = "end"
          /\ child'.read = child.read /\ child'.wrote = child.wrote
      BY <1>6, <2>2 DEF Chat!FilterReads, ChatTyped
    <3>. QED
      BY <2>2, <3>1 DEF InOrder, Shown, Passed
  <2>. QED
    BY <1>6, <2>1, <2>2 DEF Chat!FilterReads
<1>7. CASE Chat!FilterWrites
  <2>1. /\ queues.back \in Seq(Nat) /\ proc.got \in Seq(Nat) /\ Len(queues.back) \in Nat
        /\ child.wrote \in Nat /\ child.read \in Nat
    BY DEF ChatTyped
  <2>2. PICK k \in Nat : k = child.wrote
    BY <2>1
  <2>3. PICK more \in Seq(Nat) :
           /\ more = queues.back \o Chat!Line(k + 1) /\ Len(more) = Len(queues.back) + 2
           /\ Numbered(proc.got, more, 2 * (k + 1))
    BY <2>1, <2>2, NumberedLine DEF InOrder
  <2>4. /\ proc' = proc /\ child.at = "filter" /\ child.wrote < child.read
        /\ Len(queues.back) <= 2 * (Lines - 1) /\ k + 1 \in Nat
    BY <1>7 DEF Chat!FilterWrites
  <2>5. /\ child' = [child EXCEPT !.wrote = k + 1]
        /\ queues' = [queues EXCEPT !.back = more]
    BY <1>7, <2>2, <2>3 DEF Chat!FilterWrites
  <2>6. /\ ChatTyped' /\ queues'.back = more
        /\ queues'.down = queues.down /\ queues'.shut = queues.shut
        /\ child'.wrote = k + 1 /\ child'.at = child.at /\ child'.read = child.read
    BY <2>3, <2>4, <2>5 DEF ChatTyped
  <2>7. InOrder'
    BY <2>3, <2>4, <2>6 DEF InOrder
  <2>8. child'.wrote <= child.read
    BY <2>1, <2>2, <2>4, <2>6
  <2>9. Len(queues'.back) <= 2 * Lines
    <3>1. /\ Len(queues'.back) = Len(queues.back) + 2 /\ Len(queues.back) \in Nat
          /\ Len(queues.back) <= 2 * (Lines - 1)
      BY <2>1, <2>3, <2>4, <2>6
    <3>2. 2 * (Lines - 1) + 2 = 2 * Lines
      OBVIOUS
    <3>. QED
      BY <3>1, <3>2
  <2>. QED
    BY <2>4, <2>6, <2>7, <2>8, <2>9 DEF Shown, Passed
<1>8. CASE UNCHANGED Chat!vars
  BY <1>8 DEF Chat!vars, Chat!moving, InOrder, Shown, ChatTyped, Passed
<1>. QED
  BY <1>1, <1>2, <1>3, <1>4, <1>5, <1>6, <1>7, <1>8
     DEF Chat!Next, Chat!Parent, Chat!FilterSteps

LEMMA ChatFaithful == ChatInv => Chat!Faithful
<1>. SUFFICES ASSUME ChatInv
              PROVE  Chat!Faithful
  OBVIOUS
<1>0. ChatTyped /\ InOrder /\ Shown /\ Passed /\ proc.got \in Seq(Nat)
  BY DEF ChatInv, ChatTyped
<1>1. proc.got = Chat!Upto(Len(proc.got))
  <2>1. \A g \in Seq(Nat) : (\A i \in 1..Len(g) : g[i] = i) => g = [i \in 1..Len(g) |-> i]
    OBVIOUS
  <2>. QED
    BY <1>0, <2>1 DEF InOrder, Numbered, Chat!Upto
<1>2. proc.at = "done" /\ scene.kind \in {"each", "all"} => Len(proc.got) = 2 * scene.lines
  <2>1. queues.back = <<>> => Len(queues.back) = 0
    OBVIOUS
  <2>2. queues.down = <<>> => Len(queues.down) = 0
    OBVIOUS
  <2>. QED
    BY <1>0, <2>1, <2>2 DEF InOrder, Numbered, Taken, Passed, ChatTyped
<1>3. Chat!TypeOK
  BY <1>0 DEF ChatInv, ChatTyped, Passed, Taken, Chat!TypeOK
<1>. QED
  BY <1>0, <1>1, <1>2, <1>3 DEF Shown, Chat!Faithful, Chat!At
-----------------------------------------------------------------------------
(* NetworkCopy, any number of clients, any files and any faults.            *)

Blocks == [1..BLOCKSIZE -> Nat]
Wire == Clients \cup Nat \cup Seq(Nat)

NetServerOK ==
    server \in [at : Net!Steps, conn : Clients \cup {None}, path : Clients \cup {None},
                size : Int, type : {"OK", "ERR"}, block : Blocks, pos : Nat, open : Nat]
NetClientOK ==
    client \in [Clients -> [at : Net!Over \cup {"new", "path", "answer1", "size", "answer2",
                                                 "data", "exit"},
                            pos : Nat, buf : Blocks]]
NetQueuesOK ==
    /\ queues \in [Clients -> [up : Seq(Wire), down : Seq({"OK", "ERR"}),
                               rst : BOOLEAN, closed : BOOLEAN, torn : BOOLEAN]]
    /\ \A c \in Clients : Len(queues[c].up) <= Room /\ Len(queues[c].down) <= Room
NetFilesOK == files \in [Clients -> Seq(Nat) \cup {None}]
NetTyped == NetServerOK /\ NetClientOK /\ NetQueuesOK /\ NetFilesOK /\ backlog \in Seq(Clients)

InBacklog(c) == \E i \in 1..Len(backlog) : backlog[i] = c
Dead == server.at = "dead"
Serving(c) == server.conn = c /\ server.at \notin {"accept", "dead"}

\* A client connects once, waits in one place, and is heard only then.
BacklogOnce ==
    /\ \A i, j \in 1..Len(backlog) : backlog[i] = backlog[j] => i = j
    /\ \A i \in 1..Len(backlog) :
          client[backlog[i]].at # "new" /\ server.conn # backlog[i]
    /\ \A c \in Clients : queues[c].torn => client[c].at # "new"

\* While it works on a file the server has opened it, and it is new.
Working == server.at \in {"answer1", "size", "answer2", "block", "write", "refuse2"}
OwnFile ==
    /\ server.at \notin {"accept", "dead"} => server.conn \in Clients
    /\ Working => server.path \in Clients /\ files[server.path] \in Seq(Nat)

\* What a client has sent and the server has not read, at each step of the server.
Sent(c) ==
    LET up == queues[c].up IN
    /\ InBacklog(c) \/ (Serving(c) /\ server.at = "path") => up = <<>> \/ up = <<scene.path[c]>>
    /\ Serving(c) /\ server.at \in {"answer1", "refuse", "answer2"} => up = <<>>
    /\ Serving(c) /\ server.at = "size" => up = <<>> \/ up = <<Len(scene.content[c])>>
    /\ Serving(c) /\ server.at \in {"block", "write"} => up \in Seq(Blocks \cup {<<>>})

\* Where a client is that has not failed, and what is under way to it and from it.
Quiet(c) == ~queues[c].rst /\ ~queues[c].closed
Idle(c) == queues[c].up = <<>> /\ queues[c].down = <<>>
Done(c) == queues[c].closed /\ ~Dead /\ client[c].at \in {"exit", "success"}
Talks(c) ==
    LET at == client[c].at
        up == queues[c].up
        down == queues[c].down IN
    ~Dead =>
    /\ at \notin {"exit", "success", "failed"} => Quiet(c)
    /\ at = "new" => Idle(c) /\ server.conn # c
    /\ at = "path" => Idle(c) /\ (InBacklog(c) \/ (Serving(c) /\ server.at = "path"))
    /\ at = "answer1" =>
          \/ /\ up = <<scene.path[c]>> /\ down = <<>>
             /\ InBacklog(c) \/ (Serving(c) /\ server.at = "path")
          \/ Serving(c) /\ server.at \in {"answer1", "refuse"} /\ Idle(c)
          \/ Serving(c) /\ server.at = "size" /\ up = <<>> /\ down = <<"OK">>
          \/ ~Serving(c) /\ ~InBacklog(c) /\ up = <<>> /\ down = <<"ERR">>
    /\ at = "size" => Serving(c) /\ server.at = "size" /\ Idle(c)
    /\ at = "answer2" =>
          /\ Serving(c) /\ client[c].pos = 0 
          /\ \/ server.at = "size" /\ up = <<Len(scene.content[c])>> /\ down = <<>>
             \/ server.at = "answer2" /\ Idle(c)
             \/ server.at = "block" /\ up = <<>> /\ down = <<"OK">>
    /\ at = "data" =>
          /\ Serving(c) /\ server.at \in {"block", "write"}
          /\ up \in Seq(Blocks)
    /\ at \in {"exit", "success"} =>
          \/ /\ Serving(c) /\ server.at \in {"block", "write"} /\ ~queues[c].closed
             /\ up # <<>> /\ up[Len(up)] = <<>> /\ \A j \in 1..(Len(up) - 1) : up[j] \in Blocks
          \/ Serving(c) /\ server.at = "close" /\ ~queues[c].closed
          \/ Done(c) /\ ~InBacklog(c) /\ server.conn # c

Offset(n) == n * BLOCKSIZE

\* The bytes of a client's file that a block holds.
Bytes(c, b, pos) ==
    \A i \in 1..BLOCKSIZE : pos + i <= Len(scene.content[c]) => b[i] = scene.content[c][pos + i]

\* The blocks under way: all but the last message when that is the end.
Under(c) == IF client[c].at = "data" THEN Len(queues[c].up) ELSE Len(queues[c].up) - 1
Beyond == IF server.at = "write" THEN 1 ELSE 0

Copied(c, n) ==
    /\ files[scene.path[c]] \in Seq(Nat)
    /\ Len(scene.content[c]) <= Len(files[scene.path[c]])
    /\ \A i \in 1..Len(scene.content[c]) : i <= n => files[scene.path[c]][i] = scene.content[c][i]

\* The copy of a client's file as far as it has come.
Small(c) == Len(scene.content[c]) + BLOCKSIZE <= scene.disk
Copies(c) ==
    LET at == client[c].at
        size == Len(scene.content[c]) IN
    ~Dead /\ at # "failed" =>
    /\ at \in {"new", "path", "answer1", "size", "answer2"} => client[c].pos = 0
    /\ Serving(c) /\ server.at \in {"path", "refuse", "answer1", "size", "answer2"} => server.pos = 0
    /\ Serving(c) /\ Working => server.path = scene.path[c]
    /\ Serving(c) => server.at # "refuse2"
    /\ Serving(c) /\ server.at = "answer2" => Copied(c, 0)
    /\ Serving(c) /\ server.at = "block" /\ at = "answer2" => server.pos = 0 /\ Copied(c, 0)
    /\ Small(c) /\ Serving(c) /\ server.at \in {"block", "write"} /\ at \in {"data", "exit", "success"} =>
          /\ queues[c].down = <<>> /\ Copied(c, server.pos)
          /\ client[c].pos < size + BLOCKSIZE
          /\ client[c].pos = server.pos + Offset(Under(c) + Beyond)
          /\ \A j \in 1..Under(c) :
                Bytes(c, queues[c].up[j], server.pos + Offset(j - 1 + Beyond))
          /\ server.at = "write" => Bytes(c, server.block, server.pos)
          /\ at \in {"exit", "success"} => client[c].pos >= size
    /\ Small(c) /\ Serving(c) /\ server.at = "close" => Copied(c, size)
    /\ Small(c) /\ Done(c) => Copied(c, size) /\ (Working => server.path # scene.path[c])

NetShape == NetTyped /\ BacklogOnce /\ OwnFile

\* Nothing is said of a connection that is out of step.
Whole(c) == Sent(c) /\ Talks(c) /\ Copies(c)
Good(c) == queues[c].torn \/ Whole(c)

NetInv ==
    /\ scene \in ScenesOf("net") /\ scene \in Net!SceneType
    /\ NetShape /\ \A c \in Clients : Good(c)

NetGiven ==
    /\ ScenesOf("net") \subseteq Net!SceneType /\ None \notin Seq(Nat) /\ None \notin Clients
    /\ BLOCKSIZE \in Nat /\ BLOCKSIZE > 0 /\ Room \in Nat

\* What a step does to a connection, a client and the server, one field each.
LEMMA NetUp ==
    ASSUME NetQueuesOK, NEW c \in Clients, NEW s \in Seq(Wire), Len(s) <= Room,
           queues' = [queues EXCEPT ![c].up = s]
    PROVE  /\ NetQueuesOK' /\ \A d \in Clients \ {c} : queues'[d] = queues[d]
           /\ queues'[c].up = s /\ queues'[c].down = queues[c].down
           /\ queues'[c].rst = queues[c].rst /\ queues'[c].closed = queues[c].closed
           /\ queues'[c].torn = queues[c].torn
<1>1. queues' \in [Clients -> [up : Seq(Wire), down : Seq({"OK", "ERR"}),
                               rst : BOOLEAN, closed : BOOLEAN, torn : BOOLEAN]]
  BY DEF NetQueuesOK
<1>2. /\ \A d \in Clients \ {c} : queues'[d] = queues[d]
      /\ queues'[c].up = s /\ queues'[c].down = queues[c].down
      /\ queues'[c].rst = queues[c].rst /\ queues'[c].closed = queues[c].closed
           /\ queues'[c].torn = queues[c].torn
  BY DEF NetQueuesOK
<1>. QED
  BY <1>1, <1>2 DEF NetQueuesOK

LEMMA NetDown ==
    ASSUME NetQueuesOK, NEW c \in Clients, NEW s \in Seq({"OK", "ERR"}), Len(s) <= Room,
           queues' = [queues EXCEPT ![c].down = s]
    PROVE  /\ NetQueuesOK' /\ \A d \in Clients \ {c} : queues'[d] = queues[d]
           /\ queues'[c].down = s /\ queues'[c].up = queues[c].up
           /\ queues'[c].rst = queues[c].rst /\ queues'[c].closed = queues[c].closed
           /\ queues'[c].torn = queues[c].torn
<1>1. queues' \in [Clients -> [up : Seq(Wire), down : Seq({"OK", "ERR"}),
                               rst : BOOLEAN, closed : BOOLEAN, torn : BOOLEAN]]
  BY DEF NetQueuesOK
<1>2. /\ \A d \in Clients \ {c} : queues'[d] = queues[d]
      /\ queues'[c].down = s /\ queues'[c].up = queues[c].up
      /\ queues'[c].rst = queues[c].rst /\ queues'[c].closed = queues[c].closed
           /\ queues'[c].torn = queues[c].torn
  BY DEF NetQueuesOK
<1>. QED
  BY <1>1, <1>2 DEF NetQueuesOK

LEMMA NetRst ==
    ASSUME NetQueuesOK, NEW c \in Clients, NEW b \in BOOLEAN,
           queues' = [queues EXCEPT ![c].rst = b]
    PROVE  /\ NetQueuesOK' /\ \A d \in Clients \ {c} : queues'[d] = queues[d]
           /\ queues'[c].rst = b /\ queues'[c].up = queues[c].up
           /\ queues'[c].down = queues[c].down /\ queues'[c].closed = queues[c].closed
           /\ queues'[c].torn = queues[c].torn
  BY DEF NetQueuesOK

LEMMA NetShut ==
    ASSUME NetQueuesOK, NEW c \in Clients, queues' = [queues EXCEPT ![c].closed = TRUE]
    PROVE  /\ NetQueuesOK' /\ \A d \in Clients \ {c} : queues'[d] = queues[d]
           /\ queues'[c].closed /\ queues'[c].up = queues[c].up
           /\ queues'[c].down = queues[c].down /\ queues'[c].rst = queues[c].rst
           /\ queues'[c].torn = queues[c].torn
  BY DEF NetQueuesOK

LEMMA NetDies ==
    ASSUME NetServerOK, NetQueuesOK, Net!Dies
    PROVE  /\ NetServerOK' /\ NetQueuesOK' /\ server'.at = "dead" /\ backlog' = <<>>
           /\ \A c \in Clients : queues'[c].torn = queues[c].torn
<1>1. \A c \in Clients : /\ queues'[c].torn = queues[c].torn
                         /\ queues'[c].up = queues[c].up /\ queues'[c].down = queues[c].down
                         /\ queues'[c] \in [up : Seq(Wire), down : Seq({"OK", "ERR"}),
                                            rst : BOOLEAN, closed : BOOLEAN, torn : BOOLEAN]
  BY DEF NetQueuesOK, Net!Dies
<1>2. NetQueuesOK'
  BY <1>1 DEF NetQueuesOK, Net!Dies
<1>. QED
  BY <1>1, <1>2 DEF NetServerOK, Net!Dies, Net!Main, Net!Steps

LEMMA NetMain ==
    ASSUME NetServerOK, NEW s \in Net!Steps, server' = Net!Main(s)
    PROVE  /\ NetServerOK' /\ server'.at = s /\ server'.conn = server.conn
           /\ server'.path = server.path /\ server'.size = server.size
           /\ server'.type = server.type /\ server'.block = server.block
           /\ server'.pos = server.pos /\ server'.open = server.open
  BY DEF NetServerOK, Net!Main

LEMMA NetAt ==
    ASSUME NetClientOK, NEW c \in Clients,
           NEW s \in Net!Over \cup {"new", "path", "answer1", "size", "answer2", "data", "exit"},
           client' = [client EXCEPT ![c].at = s]
    PROVE  /\ NetClientOK' /\ \A d \in Clients \ {c} : client'[d] = client[d]
           /\ client'[c].at = s /\ client'[c].pos = client[c].pos /\ client'[c].buf = client[c].buf
  BY DEF NetClientOK

LEMMA NetAnswer ==
    ASSUME Room \in Nat, NetServerOK, NetQueuesOK, NEW c \in Clients, c = server.conn,
           NEW v \in {"OK", "ERR"}, NEW s, Net!Answer(v, s)
    PROVE  \/ Net!Dies
           \/ /\ NetQueuesOK' /\ server' = s /\ backlog' = backlog /\ ~queues[c].rst
              /\ \A d \in Clients \ {c} : queues'[d] = queues[d]
              /\ queues'[c].up = queues[c].up /\ queues'[c].closed = queues[c].closed
              /\ queues'[c].torn = queues[c].torn
              /\ \/ Net!Gone(c) /\ queues'[c].down = queues[c].down
                 \/ /\ ~Net!Gone(c) /\ queues'[c].rst = queues[c].rst
                    /\ queues'[c].down = Append(queues[c].down, v)
<1>. SUFFICES ASSUME ~Net!Dies
              PROVE  /\ NetQueuesOK' /\ server' = s /\ backlog' = backlog /\ ~queues[c].rst
                     /\ \A d \in Clients \ {c} : queues'[d] = queues[d]
                     /\ queues'[c].up = queues[c].up /\ queues'[c].closed = queues[c].closed
                     /\ queues'[c].torn = queues[c].torn
                     /\ \/ Net!Gone(c) /\ queues'[c].down = queues[c].down
                        \/ /\ ~Net!Gone(c) /\ queues'[c].rst = queues[c].rst
                           /\ queues'[c].down = Append(queues[c].down, v)
  OBVIOUS
<1>1. server' = s /\ backlog' = backlog /\ ~queues[c].rst
  BY DEF Net!Answer
<1>2. CASE Net!Gone(c)
  <2>1. queues' = [queues EXCEPT ![c].rst = TRUE]
    BY <1>2 DEF Net!Answer
  <2>. QED
    BY <1>1, <1>2, <2>1, NetRst
<1>3. CASE ~Net!Gone(c)
  <2>1. queues' = [queues EXCEPT ![c].down = Append(queues[c].down, v)] /\ Len(queues[c].down) < Room
    BY <1>3 DEF Net!Answer
  <2>2. queues[c].down \in Seq({"OK", "ERR"})
    BY DEF NetQueuesOK
  <2>3. /\ Append(queues[c].down, v) \in Seq({"OK", "ERR"})
        /\ Len(Append(queues[c].down, v)) = Len(queues[c].down) + 1
    BY <2>2, AppendProperties
  <2>4. Len(Append(queues[c].down, v)) <= Room
    BY <2>1, <2>2, <2>3
  <2>. QED
    BY <1>1, <1>3, <2>1, <2>3, <2>4, NetDown
<1>. QED
  BY <1>2, <1>3

LEMMA NetReceived ==
    ASSUME Room \in Nat, NetServerOK, NetQueuesOK, NEW c \in Clients, c = server.conn, Net!Received
    PROVE  /\ NetQueuesOK' /\ \A d \in Clients \ {c} : queues'[d] = queues[d]
           /\ queues[c].up # <<>> /\ queues'[c].up = Tail(queues[c].up)
           /\ queues'[c].down = queues[c].down
           /\ queues'[c].rst = queues[c].rst /\ queues'[c].closed = queues[c].closed
           /\ queues'[c].torn = queues[c].torn /\ ~queues[c].torn
<1>1. queues[c].up \in Seq(Wire) /\ queues[c].up # <<>> /\ Len(queues[c].up) <= Room
  BY DEF NetQueuesOK, Net!Received, Net!up
<1>2. Tail(queues[c].up) \in Seq(Wire) /\ Len(Tail(queues[c].up)) = Len(queues[c].up) - 1
  BY <1>1, HeadTailProperties
<1>3. Len(Tail(queues[c].up)) <= Room
  BY <1>1, <1>2
<1>4. queues' = [queues EXCEPT ![c].up = Tail(queues[c].up)]
  BY DEF Net!Received, Net!up
<1>5. ~queues[c].torn
  BY DEF Net!Received
<1>. QED
  BY <1>1, <1>2, <1>3, <1>4, <1>5, NetUp

\* What is left of a stream after a read.
LEMMA NetLeft ==
    ASSUME NEW A, NEW s \in Seq(A), NEW t \in BOOLEAN, NEW l \in Net!Left(s, t)
    PROVE  l \in Seq(A) /\ Len(l) <= Len(s)
<1>1. PICK n \in 0..Len(s) : l = SubSeq(s, n + 1, Len(s))
  BY DEF Net!Left
<1>2. l \in Seq(A)
  BY <1>1
<1>3. CASE n = Len(s)
  <2>1. l = <<>>
    BY <1>1, <1>3, SubSeqEmpty
  <2>. QED
    BY <1>2, <2>1
<1>4. CASE n # Len(s)
  <2>1. Len(l) = Len(s) - n
    BY <1>1, <1>4
  <2>. QED
    BY <1>2, <2>1
<1>. QED
  BY <1>2, <1>3, <1>4

\* A part of a message puts a connection out of step.
LEMMA NetPart ==
    ASSUME Room \in Nat, NetServerOK, NetQueuesOK, NEW c \in Clients, c = server.conn, Net!Part
    PROVE  /\ NetQueuesOK' /\ \A d \in Clients \ {c} : queues'[d] = queues[d]
           /\ queues'[c].torn
<1>1. PICK l \in Net!Left(queues[c].up, queues[c].torn) :
         queues' = [queues EXCEPT ![c].up = l, ![c].torn = TRUE]
  BY DEF Net!Part, Net!up
<1>2. /\ queues[c].up \in Seq(Wire) /\ Len(queues[c].up) <= Room /\ queues[c].torn \in BOOLEAN
  BY DEF NetQueuesOK
<1>3. l \in Seq(Wire) /\ Len(l) <= Room
  <2>1. l \in Seq(Wire) /\ Len(l) <= Len(queues[c].up)
    BY <1>2, NetLeft
  <2>. QED
    BY <1>2, <2>1
<1>4. queues' = [queues EXCEPT ![c] = [queues[c] EXCEPT !.up = l, !.torn = TRUE]]
  BY <1>1 DEF NetQueuesOK
<1>5. /\ \A d \in Clients \ {c} : queues'[d] = queues[d]
      /\ queues'[c] = [queues[c] EXCEPT !.up = l, !.torn = TRUE]
      /\ queues' \in [Clients -> {queues'[d] : d \in Clients}]
  BY <1>4 DEF NetQueuesOK
<1>6. /\ queues'[c].up = l /\ queues'[c].down = queues[c].down /\ queues'[c].torn
      /\ queues'[c] \in [up : Seq(Wire), down : Seq({"OK", "ERR"}),
                         rst : BOOLEAN, closed : BOOLEAN, torn : BOOLEAN]
  BY <1>3, <1>5 DEF NetQueuesOK
<1>7. \A d \in Clients : queues'[d] \in [up : Seq(Wire), down : Seq({"OK", "ERR"}),
                                       rst : BOOLEAN, closed : BOOLEAN, torn : BOOLEAN]
  <2>. SUFFICES ASSUME NEW d \in Clients, d # c
                PROVE  queues'[d] \in [up : Seq(Wire), down : Seq({"OK", "ERR"}),
                                      rst : BOOLEAN, closed : BOOLEAN, torn : BOOLEAN]
    BY <1>6
  <2>1. queues'[d] = queues[d]
    BY <1>5
  <2>. QED
    BY <2>1 DEF NetQueuesOK
<1>8. \A d \in Clients : Len(queues'[d].up) <= Room /\ Len(queues'[d].down) <= Room
  BY <1>3, <1>5, <1>6 DEF NetQueuesOK
<1>9. NetQueuesOK'
  BY <1>5, <1>7, <1>8 DEF NetQueuesOK
<1>. QED
  BY <1>5, <1>6, <1>9

\* A part of an answer does so as well.
LEMMA NetHeardPart ==
    ASSUME NetQueuesOK, NEW c \in Clients, NEW l \in Net!Left(queues[c].down, queues[c].torn),
           Room \in Nat, queues' = [queues EXCEPT ![c].down = l, ![c].torn = TRUE]
    PROVE  /\ NetQueuesOK' /\ \A d \in Clients \ {c} : queues'[d] = queues[d]
           /\ queues'[c].torn
<1>1. /\ queues[c].down \in Seq({"OK", "ERR"}) /\ Len(queues[c].down) <= Room
      /\ queues[c].torn \in BOOLEAN
  BY DEF NetQueuesOK
<1>2. l \in Seq({"OK", "ERR"}) /\ Len(l) <= Room
  <2>1. l \in Seq({"OK", "ERR"}) /\ Len(l) <= Len(queues[c].down)
    BY <1>1, NetLeft
  <2>. QED
    BY <1>1, <2>1
<1>3. queues' = [queues EXCEPT ![c] = [queues[c] EXCEPT !.down = l, !.torn = TRUE]]
  BY DEF NetQueuesOK
<1>4. /\ \A d \in Clients \ {c} : queues'[d] = queues[d]
      /\ queues'[c] = [queues[c] EXCEPT !.down = l, !.torn = TRUE]
      /\ queues' \in [Clients -> {queues'[d] : d \in Clients}]
  BY <1>3 DEF NetQueuesOK
<1>5. /\ queues'[c].down = l /\ queues'[c].up = queues[c].up /\ queues'[c].torn
      /\ queues'[c] \in [up : Seq(Wire), down : Seq({"OK", "ERR"}),
                         rst : BOOLEAN, closed : BOOLEAN, torn : BOOLEAN]
  <2>1. \A q \in [up : Seq(Wire), down : Seq({"OK", "ERR"}),
                  rst : BOOLEAN, closed : BOOLEAN, torn : BOOLEAN] :
           /\ [q EXCEPT !.down = l, !.torn = TRUE].down = l
           /\ [q EXCEPT !.down = l, !.torn = TRUE].up = q.up
           /\ [q EXCEPT !.down = l, !.torn = TRUE].torn
           /\ [q EXCEPT !.down = l, !.torn = TRUE]
                 \in [up : Seq(Wire), down : Seq({"OK", "ERR"}),
                      rst : BOOLEAN, closed : BOOLEAN, torn : BOOLEAN]
    BY <1>2
  <2>2. queues[c] \in [up : Seq(Wire), down : Seq({"OK", "ERR"}),
                      rst : BOOLEAN, closed : BOOLEAN, torn : BOOLEAN]
    BY DEF NetQueuesOK
  <2>. QED
    BY <1>4, <2>1, <2>2
<1>6. \A d \in Clients : queues'[d] \in [up : Seq(Wire), down : Seq({"OK", "ERR"}),
                                       rst : BOOLEAN, closed : BOOLEAN, torn : BOOLEAN]
  <2>. SUFFICES ASSUME NEW d \in Clients, d # c
                PROVE  queues'[d] \in [up : Seq(Wire), down : Seq({"OK", "ERR"}),
                                      rst : BOOLEAN, closed : BOOLEAN, torn : BOOLEAN]
    BY <1>5
  <2>1. queues'[d] = queues[d]
    BY <1>4
  <2>. QED
    BY <2>1 DEF NetQueuesOK
<1>7. \A d \in Clients : Len(queues'[d].up) <= Room /\ Len(queues'[d].down) <= Room
  BY <1>2, <1>4, <1>5 DEF NetQueuesOK
<1>8. NetQueuesOK'
  BY <1>4, <1>6, <1>7 DEF NetQueuesOK
<1>. QED
  BY <1>4, <1>5, <1>8

\* The end of a client touches neither what it has sent nor what is closed.
LEMMA NetEnds ==
    ASSUME NetClientOK, NetQueuesOK, NEW c \in Clients, NEW how \in Net!Over, Net!Ends(c, how)
    PROVE  /\ NetClientOK' /\ \A d \in Clients \ {c} : client'[d] = client[d]
           /\ client'[c].at = how /\ client'[c].pos = client[c].pos
           /\ NetQueuesOK' /\ \A d \in Clients \ {c} : queues'[d] = queues[d]
           /\ queues'[c].up = queues[c].up /\ queues'[c].down = queues[c].down
           /\ queues'[c].closed = queues[c].closed
           /\ queues'[c].torn = queues[c].torn
<1>1. client' = [client EXCEPT ![c].at = how]
  BY DEF Net!Ends
<1>2. queues' = [queues EXCEPT ![c].rst = (queues[c].rst \/ queues[c].down # <<>>)]
  BY DEF Net!Ends
<1>. QED
  BY <1>1, <1>2, NetAt, NetRst

LEMMA NetSend ==
    ASSUME Room \in Nat, NetClientOK, NetQueuesOK, NEW c \in Clients, NEW v \in Wire, NEW s, Net!Send(c, v, s)
    PROVE  \/ queues[c].rst /\ Net!Ends(c, "failed")
           \/ /\ NetQueuesOK' /\ \A d \in Clients \ {c} : queues'[d] = queues[d]
              /\ client' = [client EXCEPT ![c] = s] /\ ~queues[c].rst
              /\ queues'[c].closed = queues[c].closed /\ queues'[c].torn = queues[c].torn
              /\ queues'[c].down = queues[c].down
              /\ queues[c].closed => queues'[c].up = queues[c].up
              /\ ~queues[c].closed => /\ queues'[c].up = Append(queues[c].up, v)
                                      /\ queues'[c].rst = queues[c].rst
<1>. SUFFICES ASSUME ~(queues[c].rst /\ Net!Ends(c, "failed"))
              PROVE  /\ NetQueuesOK' /\ \A d \in Clients \ {c} : queues'[d] = queues[d]
                     /\ client' = [client EXCEPT ![c] = s] /\ ~queues[c].rst
                     /\ queues'[c].closed = queues[c].closed /\ queues'[c].torn = queues[c].torn
                     /\ queues'[c].down = queues[c].down
                     /\ queues[c].closed => queues'[c].up = queues[c].up
                     /\ ~queues[c].closed => /\ queues'[c].up = Append(queues[c].up, v)
                                             /\ queues'[c].rst = queues[c].rst
  OBVIOUS
<1>1. client' = [client EXCEPT ![c] = s] /\ ~queues[c].rst
  BY DEF Net!Send
<1>2. CASE queues[c].closed
  <2>1. queues' = [queues EXCEPT ![c].rst = TRUE]
    BY <1>2 DEF Net!Send
  <2>. QED
    BY <1>1, <1>2, <2>1, NetRst
<1>3. CASE ~queues[c].closed
  <2>1. queues' = [queues EXCEPT ![c].up = Append(queues[c].up, v)] /\ Len(queues[c].up) < Room
    BY <1>3 DEF Net!Send
  <2>2. queues[c].up \in Seq(Wire)
    BY DEF NetQueuesOK
  <2>3. /\ Append(queues[c].up, v) \in Seq(Wire)
        /\ Len(Append(queues[c].up, v)) = Len(queues[c].up) + 1
    BY <2>2, AppendProperties
  <2>4. Len(Append(queues[c].up, v)) <= Room
    BY <2>1, <2>2, <2>3
  <2>. QED
    BY <1>1, <1>3, <2>1, <2>3, <2>4, NetUp
<1>. QED
  BY <1>2, <1>3

\* A client that neither moves nor is served is where it was.
LEMMA NetOther ==
    ASSUME NEW c \in Clients, Good(c), NetClientOK, scene' = scene,
           queues'[c] = queues[c], client'[c] = client[c], ~Serving(c), ~Serving(c)',
           InBacklog(c)' = InBacklog(c), Dead => Dead', server'.conn # c,
           Small(c) /\ Done(c) /\ Copied(c, Len(scene.content[c])) /\ ~Dead'
              /\ (Working => server.path # scene.path[c])
              => /\ Copied(c, Len(scene.content[c]))'
                 /\ Working' => server'.path # scene.path[c]
    PROVE  Good(c)'
<1>. SUFFICES ASSUME ~queues[c].torn
              PROVE  Whole(c)'
  BY DEF Good
<1>. Whole(c)
  BY DEF Good
<1>. USE DEF Serving, Dead, Whole
<1>1. Sent(c)'
  BY DEF Sent, InBacklog
<1>2. CASE server'.at = "dead"
  BY <1>1, <1>2 DEF Talks, Copies
<1>3. CASE server'.at # "dead"
  <2>1. Talks(c)'
    BY <1>3 DEF Talks, Quiet, Idle, Done
  <2>2. Copies(c)'
    BY <1>3 DEF Copies, Done, Small
  <2>. QED
    BY <1>1, <2>1, <2>2
<1>. QED
  BY <1>2, <1>3

LEMMA NetStill ==
    ASSUME NEW c \in Clients, Good(c), scene' = scene, server' = server, files' = files,
           queues'[c] = queues[c], client'[c] = client[c], InBacklog(c)' = InBacklog(c)
    PROVE  Good(c)'
<1>. SUFFICES ASSUME ~queues[c].torn
              PROVE  Whole(c)'
  BY DEF Good
<1>. Whole(c)
  BY DEF Good
<1>1. Sent(c)'
  BY DEF Whole, Sent, Serving
<1>2. Talks(c)'
  BY DEF Whole, Talks, Quiet, Idle, Done, Serving, Dead
<1>3. Copies(c)'
  <2>1. /\ Serving(c)' = Serving(c) /\ Dead' = Dead /\ Done(c)' = Done(c)
        /\ Small(c)' = Small(c) /\ Working' = Working
    BY DEF Serving, Dead, Done, Small, Working
  <2>2. \A n : Copied(c, n)' = Copied(c, n)
    BY DEF Copied
  <2>3. Under(c)' = Under(c) /\ Beyond' = Beyond
    BY DEF Under, Beyond
  <2>4. \A b, n : Bytes(c, b, n)' = Bytes(c, b, n)
    BY DEF Bytes
  <2>. QED
    BY <2>1, <2>2, <2>3, <2>4 DEF Whole, Copies
<1>. QED
  BY <1>1, <1>2, <1>3 DEF Whole

\* A server that serves one client touches neither the other ones nor the files
\* it did not open for this one.
LEMMA NetOthers ==
    ASSUME NetGiven, NetInv, server.at \notin {"accept", "dead"},
           scene' = scene, client' = client, backlog' = backlog,
           server'.conn \in {server.conn, None}, server'.at # "dead",
           \A d \in Clients \ {server.conn} : queues'[d] = queues[d],
           \A p \in Clients : files[p] \in Seq(Nat) /\ (Working => server.path # p)
                                 => files'[p] = files[p] /\ (Working' => server'.path # p)
    PROVE  BacklogOnce' /\ \A d \in Clients \ {server.conn} : Good(d)'
<1>1. BacklogOnce'
  <2>1. \A i \in 1..Len(backlog) : backlog[i] \in Clients
    BY DEF NetInv, NetShape, NetTyped
  <2>2. \A i, j \in 1..Len(backlog) : backlog[i] = backlog[j] => i = j
    BY DEF NetInv, NetShape, BacklogOnce
  <2>3. \A i \in 1..Len(backlog) : client[backlog[i]].at # "new" /\ server'.conn # backlog[i]
    BY <2>1 DEF NetInv, NetShape, BacklogOnce, NetGiven
  <2>4. server.conn \in Clients /\ client[server.conn].at # "new"
    <3>1. server.conn \in Clients /\ ~Dead
      BY DEF NetInv, NetShape, OwnFile, Dead
    <3>2. queues[server.conn].torn => client[server.conn].at # "new"
      BY <3>1 DEF NetInv, NetShape, BacklogOnce
    <3>3. Good(server.conn)
      BY <3>1 DEF NetInv
    <3>. QED
      BY <3>1, <3>2, <3>3 DEF Good, Whole, Talks
  <2>5. \A d \in Clients : queues'[d].torn => client[d].at # "new"
    <3>. SUFFICES ASSUME NEW d \in Clients, queues'[d].torn
                  PROVE  client[d].at # "new"
      OBVIOUS
    <3>1. CASE d = server.conn
      BY <2>4, <3>1
    <3>2. CASE d # server.conn
      BY <3>2 DEF NetInv, NetShape, BacklogOnce
    <3>. QED
      BY <3>1, <3>2
  <2>. QED
    BY <2>2, <2>3, <2>5 DEF BacklogOnce
<1>2. ASSUME NEW d \in Clients \ {server.conn}
      PROVE  Good(d)'
  <2>1. d \in Clients /\ Good(d) /\ NetClientOK
    BY DEF NetInv, NetShape, NetTyped
  <2>2. ~Serving(d) /\ ~Serving(d)' /\ InBacklog(d)' = InBacklog(d) /\ server'.conn # d
    BY DEF Serving, InBacklog, NetGiven
  <2>3. scene.path[d] \in Clients
    BY DEF NetInv, Net!SceneType
  <2>4. Copied(d, Len(scene.content[d])) /\ (Working => server.path # scene.path[d])
           => /\ Copied(d, Len(scene.content[d]))'
              /\ Working' => server'.path # scene.path[d]
    BY <2>3 DEF Copied
  <2>5. ~Dead
    BY DEF Dead
  <2>. QED
    BY <1>2, <2>1, <2>2, <2>4, <2>5, NetOther
<1>. QED
  BY <1>1, <1>2

LEMMA NetDead ==
    ASSUME NetGiven, NetInv, scene' = scene, client' = client, files' = files, Net!Dies
    PROVE  NetInv'
<1>1. /\ NetServerOK' /\ NetQueuesOK' /\ server'.at = "dead" /\ backlog' = <<>>
      /\ \A c \in Clients : queues'[c].torn = queues[c].torn
  BY NetDies DEF NetInv, NetShape, NetTyped
<1>2. NetTyped'
  BY <1>1 DEF NetInv, NetShape, NetTyped, NetClientOK, NetFilesOK
<1>3. BacklogOnce' /\ OwnFile'
  BY <1>1 DEF NetInv, NetShape, BacklogOnce, OwnFile, Working
<1>4. ASSUME NEW c \in Clients
      PROVE  Good(c)'
  <2>1. ~InBacklog(c)' /\ ~Serving(c)' /\ Dead'
    BY <1>1 DEF InBacklog, Serving, Dead
  <2>. QED
    BY <2>1 DEF Good, Whole, Sent, Talks, Copies
<1>. QED
  BY <1>2, <1>3, <1>4 DEF NetInv, NetShape

LEMMA NetAccept ==
    ASSUME NetGiven, NetInv, scene' = scene, Net!Accept
    PROVE  NetInv'
<1>1. client' = client /\ files' = files /\ server.at = "accept"
  BY DEF Net!Accept, Net!At
<1>2. CASE server.open >= scene.fds
  BY <1>1, <1>2, NetDead DEF Net!Accept
<1>3. CASE ~(server.open >= scene.fds)
  <2>1. backlog # <<>> /\ backlog \in Seq(Clients) /\ backlog' = Tail(backlog) /\ queues' = queues
    BY <1>3 DEF Net!Accept, NetInv, NetShape, NetTyped
  <2>2. PICK c \in Clients : c = Head(backlog)
    BY <2>1
  <2>3. c = backlog[1] /\ 1 \in 1..Len(backlog)
    BY <2>1, <2>2
  <2>4. /\ Tail(backlog) \in Seq(Clients) /\ Len(Tail(backlog)) = Len(backlog) - 1
        /\ \A i \in 1..Len(Tail(backlog)) : Tail(backlog)[i] = backlog[i + 1]
    BY <2>1, HeadTailProperties
  <2>5. server' = [server EXCEPT !.at = "path", !.conn = c, !.pos = 0]
    BY <1>3, <2>2 DEF Net!Accept, Net!Main, NetInv, NetShape, NetTyped, NetServerOK
  <2>6. /\ NetServerOK' /\ server'.at = "path" /\ server'.conn = c /\ server'.pos = 0
        /\ server'.path = server.path
    BY <2>5 DEF NetInv, NetShape, NetTyped, NetServerOK, Net!Steps
  <2>7. NetTyped'
    BY <1>1, <2>1, <2>4, <2>6
       DEF NetInv, NetShape, NetTyped, NetClientOK, NetQueuesOK, NetFilesOK
  <2>8. \A i \in 1..Len(backlog') : i + 1 \in 1..Len(backlog) /\ backlog'[i] = backlog[i + 1]
    BY <2>1, <2>4
  <2>9. \A i \in 1..Len(backlog') : backlog'[i] # c
    BY <2>1, <2>3, <2>8 DEF NetInv, NetShape, BacklogOnce
  <2>10. BacklogOnce'
    BY <1>1, <2>1, <2>6, <2>8, <2>9 DEF NetInv, NetShape, BacklogOnce
  <2>11. OwnFile'
    BY <2>6 DEF OwnFile, Working
  <2>12. InBacklog(c) /\ ~InBacklog(c)' /\ Serving(c)' /\ ~Serving(c)
    BY <1>1, <2>3, <2>6, <2>9 DEF InBacklog, Serving
  <2>13. Good(c)'
    <3>. SUFFICES ASSUME ~queues[c].torn
                  PROVE  Whole(c)'
      BY <2>1 DEF Good
    <3>. Whole(c)
      BY DEF NetInv, Good
    <3>1. ~Dead /\ client[c].at # "new" /\ ~Dead'
      BY <1>1, <2>3, <2>6 DEF NetInv, NetShape, BacklogOnce, Dead
    <3>2. Sent(c)'
      BY <1>1, <2>1, <2>6, <2>12, <3>1 DEF Whole, Sent
    <3>3. Talks(c)'
      BY <1>1, <2>1, <2>6, <2>12, <3>1 DEF Whole, Talks, Quiet, Idle, Done
    <3>4. client[c].at \notin {"exit", "success", "size", "answer2", "data"}
      BY <1>1, <2>12, <3>1 DEF Whole, Talks
    <3>5. Copies(c)'
      BY <1>1, <2>1, <2>6, <2>12, <3>1, <3>4 DEF Whole, Copies, Done, Working
    <3>. QED
      BY <3>2, <3>3, <3>5 DEF Whole
  <2>14. ASSUME NEW d \in Clients \ {c}
         PROVE  Good(d)'
    <3>1. InBacklog(d)' = InBacklog(d)
      <4>1. InBacklog(d) => InBacklog(d)'
        <5>. SUFFICES ASSUME NEW i \in 1..Len(backlog), backlog[i] = d
                      PROVE  InBacklog(d)'
          BY DEF InBacklog
        <5>1. i # 1 /\ i - 1 \in 1..Len(backlog')
          BY <2>1, <2>3, <2>4
        <5>2. backlog'[i - 1] = d
          BY <2>8, <5>1
        <5>. QED
          BY <5>1, <5>2 DEF InBacklog
      <4>2. InBacklog(d)' => InBacklog(d)
        BY <2>8 DEF InBacklog
      <4>. QED
        BY <4>1, <4>2 DEF InBacklog
    <3>2. Good(d) /\ NetClientOK /\ ~Serving(d) /\ ~Serving(d)' /\ server'.conn # d /\ ~Dead /\ ~Dead'
      BY <1>1, <2>6 DEF NetInv, NetShape, NetTyped, Serving, Dead
    <3>3. Copied(d, Len(scene.content[d])) => Copied(d, Len(scene.content[d]))'
      BY <1>1 DEF Copied
    <3>4. ~Working'
      BY <2>6 DEF Working
    <3>. QED
      BY <1>1, <2>1, <3>1, <3>2, <3>3, <3>4, NetOther
  <2>. QED
    BY <2>7, <2>10, <2>11, <2>13, <2>14 DEF NetInv, NetShape
<1>. QED
  BY <1>2, <1>3

\* What open() does, with O_EXCL: the file is new, or there is none.
LEMMA NetOpen ==
    ASSUME NetServerOK, NetFilesOK, NEW p \in Clients \cup {None}, Net!Open(p)
    PROVE  /\ NetServerOK' /\ NetFilesOK' /\ server'.path = p
           /\ server'.conn = server.conn /\ server'.pos = server.pos
           /\ \/ /\ server'.at = "answer1" /\ p \in Clients /\ files[p] = None
                 /\ files'[p] = <<>> /\ \A q \in Clients \ {p} : files'[q] = files[q]
              \/ server'.at = "refuse" /\ files' = files
<1>1. CASE p # None /\ files[p] = None /\ server.open + 1 < scene.fds
  <2>1. server' = [server EXCEPT !.at = "answer1", !.path = p]
    BY <1>1 DEF Net!Open, Net!Main, NetServerOK
  <2>2. /\ NetServerOK' /\ server'.path = p /\ server'.at = "answer1"
        /\ server'.conn = server.conn /\ server'.pos = server.pos
    BY <2>1 DEF NetServerOK, Net!Steps
  <2>3. files' = [files EXCEPT ![p] = <<>>] /\ <<>> \in Seq(Nat)
    BY <1>1 DEF Net!Open
  <2>4. NetFilesOK' /\ files'[p] = <<>> /\ \A q \in Clients \ {p} : files'[q] = files[q]
    BY <1>1, <2>3 DEF NetFilesOK
  <2>. QED
    BY <1>1, <2>2, <2>4
<1>2. CASE ~(p # None /\ files[p] = None /\ server.open + 1 < scene.fds)
  <2>1. server' = [server EXCEPT !.at = "refuse", !.path = p]
    BY <1>2 DEF Net!Open, Net!Main, NetServerOK
  <2>2. /\ NetServerOK' /\ server'.path = p /\ server'.at = "refuse"
        /\ server'.conn = server.conn /\ server'.pos = server.pos
    BY <2>1 DEF NetServerOK, Net!Steps
  <2>3. files' = files
    BY <1>2 DEF Net!Open
  <2>. QED
    BY <2>2, <2>3 DEF NetFilesOK
<1>. QED
  BY <1>1, <1>2

\* The end of a stream is that of a client that has failed, unless it was served.
LEMMA NetOnlyFailed ==
    ASSUME NetInv, NEW c \in Clients, c = server.conn, queues[c].up = <<>>, Net!Gone(c), ~queues[c].torn,
           server.at \notin {"accept", "close", "dead"}
    PROVE  client[c].at = "failed"
<1>1. Talks(c) /\ Serving(c) /\ ~Dead
  BY DEF NetInv, Good, Whole, Serving, Dead
<1>2. client[c].at # "success"
  BY <1>1 DEF Talks
<1>. QED
  BY <1>2 DEF Net!Gone, Net!Over

LEMMA NetReadPath ==
    ASSUME NetGiven, NetInv, scene' = scene, Net!ReadPath
    PROVE  NetInv'
<1>. PICK c \in Clients : c = server.conn
  BY DEF NetInv, NetShape, OwnFile, Net!ReadPath, Net!At
<1>1. server.at = "path" /\ client' = client /\ backlog' = backlog
  BY DEF Net!ReadPath, Net!At
<1>2. NetTyped /\ Good(c) /\ Serving(c) /\ ~Dead /\ ~Working /\ scene.path[c] \in Clients
  BY <1>1 DEF NetInv, NetShape, Serving, Dead, Working, Net!SceneType
<1>3. \E p \in Clients \cup {None} :
         /\ Net!Open(p) /\ NetQueuesOK' /\ \A d \in Clients \ {c} : queues'[d] = queues[d]
         /\ queues[c].torn => queues'[c].torn
         /\ \/ queues'[c].torn
            \/ queues'[c].up = <<>> /\ client[c].at = "failed"
            \/ /\ queues'[c].up = <<>> /\ p = scene.path[c] /\ queues[c].up = <<p>>
               /\ queues'[c].down = queues[c].down
               /\ queues'[c].rst = queues[c].rst /\ queues'[c].closed = queues[c].closed
  <2>1. CASE Net!Received /\ Net!Open(Head(queues[c].up))
    <3>1. /\ NetQueuesOK' /\ \A d \in Clients \ {c} : queues'[d] = queues[d]
          /\ queues[c].up # <<>> /\ queues'[c].up = Tail(queues[c].up)
          /\ queues'[c].down = queues[c].down
          /\ queues'[c].rst = queues[c].rst /\ queues'[c].closed = queues[c].closed
          /\ ~queues[c].torn /\ queues'[c].torn = queues[c].torn
      BY <1>2, <2>1, NetReceived DEF NetTyped, NetGiven
    <3>2. queues[c].up = <<scene.path[c]>>
      BY <1>1, <1>2, <3>1 DEF Good, Whole, Sent
    <3>3. Head(queues[c].up) = scene.path[c] /\ Tail(queues[c].up) = <<>>
      BY <3>2
    <3>. QED
      BY <1>2, <2>1, <3>1, <3>2, <3>3
  <2>2. CASE Net!EndOfStream /\ Net!Open(server.path)
    <3>1. queues' = queues /\ queues[c].up = <<>> /\ Net!Gone(c)
      BY <2>2 DEF Net!EndOfStream, Net!up
    <3>2. queues[c].torn \/ client[c].at = "failed"
      BY <1>1, <3>1, NetOnlyFailed
    <3>3. server.path \in Clients \cup {None}
      BY <1>2 DEF NetTyped, NetServerOK
    <3>. QED
      BY <1>2, <2>2, <3>1, <3>2, <3>3 DEF NetTyped, NetQueuesOK
  <2>3. ASSUME NEW p \in Clients \cup {None}, Net!Part, Net!Open(p)
        PROVE  /\ Net!Open(p) /\ NetQueuesOK' /\ \A d \in Clients \ {c} : queues'[d] = queues[d]
               /\ queues'[c].torn
    BY <1>2, <2>3, NetPart DEF NetTyped, NetGiven
  <2>. QED
    BY <2>1, <2>2, <2>3 DEF Net!ReadPath, Net!up
<1>4. PICK p \in Clients \cup {None} :
         /\ Net!Open(p) /\ NetQueuesOK' /\ \A d \in Clients \ {c} : queues'[d] = queues[d]
         /\ queues[c].torn => queues'[c].torn
         /\ \/ queues'[c].torn
            \/ queues'[c].up = <<>> /\ client[c].at = "failed"
            \/ /\ queues'[c].up = <<>> /\ p = scene.path[c] /\ queues[c].up = <<p>>
               /\ queues'[c].down = queues[c].down
               /\ queues'[c].rst = queues[c].rst /\ queues'[c].closed = queues[c].closed
  BY <1>3
<1>5. /\ NetServerOK' /\ NetFilesOK' /\ server'.path = p
      /\ server'.conn = server.conn /\ server'.pos = server.pos
      /\ \/ /\ server'.at = "answer1" /\ p \in Clients /\ files[p] = None
            /\ files'[p] = <<>> /\ \A q \in Clients \ {p} : files'[q] = files[q]
         \/ server'.at = "refuse" /\ files' = files
  BY <1>2, <1>4, NetOpen DEF NetTyped
<1>6. NetTyped'
  BY <1>1, <1>2, <1>4, <1>5 DEF NetTyped, NetClientOK
<1>7. OwnFile'
  <2>1. <<>> \in Seq(Nat)
    OBVIOUS
  <2>. QED
    BY <1>5, <2>1 DEF OwnFile, Working
<1>8. BacklogOnce' /\ \A d \in Clients \ {c} : Good(d)'
  <2>1. \A q \in Clients : files[q] \in Seq(Nat) /\ (Working => server.path # q)
                              => files'[q] = files[q] /\ (Working' => server'.path # q)
    BY <1>5 DEF NetGiven, Working
  <2>. QED
    BY <1>1, <1>4, <1>5, <2>1, NetOthers
<1>9. Good(c)'
  <2>. SUFFICES ASSUME ~queues'[c].torn
                PROVE  Whole(c)'
    BY DEF Good
  <2>. Whole(c)
    BY <1>2, <1>4 DEF Good
  <2>0. /\ queues'[c].up = <<>>
        /\ \/ client[c].at = "failed"
           \/ /\ p = scene.path[c] /\ queues[c].up = <<p>> /\ queues'[c].down = queues[c].down
              /\ queues'[c].rst = queues[c].rst /\ queues'[c].closed = queues[c].closed
    BY <1>4
  <2>1. Serving(c)' /\ ~Dead' /\ InBacklog(c)' = InBacklog(c)
    BY <1>1, <1>5 DEF Serving, Dead, InBacklog
  <2>2. ~InBacklog(c)
    BY DEF NetInv, NetShape, BacklogOnce, InBacklog
  <2>3. Sent(c)'
    BY <1>5, <2>0, <2>1, <2>2 DEF Sent
  <2>4. CASE client[c].at = "failed"
    BY <1>1, <2>3, <2>4 DEF Whole, Talks, Copies
  <2>5. CASE client[c].at # "failed"
    <3>1. client[c].at = "answer1" /\ queues[c].down = <<>> /\ Quiet(c)
      <4>1. queues[c].up # <<>>
        <5>1. <<p>> # <<>>
          OBVIOUS
        <5>. QED
          BY <2>0, <2>5, <5>1
      <4>2. client[c].at \in {"new", "path", "answer1", "size", "answer2", "data", "exit", "success"}
        BY <1>2, <2>5 DEF NetTyped, NetClientOK, Net!Over
      <4>. QED
        BY <1>1, <1>2, <2>2, <4>1, <4>2 DEF Whole, Talks, Idle
    <3>2. Talks(c)'
      BY <1>1, <1>5, <2>0, <2>1, <2>5, <3>1 DEF Talks, Idle, Quiet
    <3>3. Copies(c)'
      BY <1>1, <1>2, <1>5, <2>0, <2>1, <2>5, <3>1 DEF Whole, Copies, Done
    <3>. QED
      BY <2>3, <3>2, <3>3 DEF Whole
  <2>. QED
    BY <2>4, <2>5
<1>. QED
  BY <1>6, <1>7, <1>8, <1>9 DEF NetInv, NetShape

LEMMA NetRefuse ==
    ASSUME NetGiven, NetInv, scene' = scene, Net!Refuse
    PROVE  NetInv'
<1>. PICK c \in Clients : c = server.conn
  BY DEF NetInv, NetShape, OwnFile, Net!Refuse, Net!At
<1>1. server.at \in {"refuse", "refuse2"} /\ client' = client /\ files' = files
  BY DEF Net!Refuse, Net!At
<1>2. NetTyped /\ Good(c) /\ Serving(c) /\ ~Dead
  BY <1>1 DEF NetInv, NetShape, Serving, Dead
<1>3. PICK n \in {1, 2} : Net!Answer("ERR", [Net!Main("accept") EXCEPT !.open = @ + n])
  BY DEF Net!Refuse, Net!ERR
<1>4. CASE Net!Dies
  BY <1>1, <1>4, NetDead
<1>5. CASE ~Net!Dies
  <2>1. /\ NetQueuesOK' /\ server' = [Net!Main("accept") EXCEPT !.open = @ + n]
        /\ backlog' = backlog /\ ~queues[c].rst
        /\ \A d \in Clients \ {c} : queues'[d] = queues[d]
        /\ queues'[c].up = queues[c].up /\ queues'[c].closed = queues[c].closed
        /\ queues'[c].torn = queues[c].torn
        /\ \/ Net!Gone(c) /\ queues'[c].down = queues[c].down
           \/ /\ ~Net!Gone(c) /\ queues'[c].rst = queues[c].rst
              /\ queues'[c].down = Append(queues[c].down, "ERR")
    BY <1>2, <1>3, <1>5, NetAnswer DEF NetTyped, NetGiven
  <2>2. /\ NetServerOK' /\ server'.at = "accept" /\ server'.conn = c
    <3>1. server' = [server EXCEPT !.at = "accept", !.open = server.open + n]
      BY <1>2, <2>1 DEF Net!Main, NetTyped, NetServerOK
    <3>2. server.open + n \in Nat
      BY <1>2 DEF NetTyped, NetServerOK
    <3>. QED
      BY <1>2, <3>1, <3>2 DEF NetTyped, NetServerOK, Net!Steps
  <2>3. NetTyped' /\ OwnFile'
    BY <1>1, <1>2, <2>1, <2>2 DEF NetTyped, NetClientOK, NetFilesOK, OwnFile, Working
  <2>4. BacklogOnce' /\ \A d \in Clients \ {c} : Good(d)'
    BY <1>1, <2>1, <2>2, NetOthers DEF Working
  <2>5. ~Serving(c)' /\ ~Dead' /\ ~Working' /\ InBacklog(c)' = InBacklog(c) /\ ~InBacklog(c)
    BY <2>1, <2>2 DEF NetInv, NetShape, BacklogOnce, Serving, Dead, InBacklog, Working
  <2>6. Sent(c)'
    BY <2>5 DEF Sent
  <2>7. Good(c)'
    <3>. SUFFICES ASSUME ~queues[c].torn
                  PROVE  Whole(c)'
      BY <2>1 DEF Good
    <3>. Whole(c)
      BY <1>2 DEF Good
    <3>1. CASE client[c].at = "failed"
      BY <1>1, <2>6, <3>1 DEF Whole, Talks, Copies
    <3>2. CASE client[c].at # "failed"
      <4>1. server.at = "refuse"
        BY <1>1, <1>2, <3>2 DEF Whole, Copies
      <4>2. client[c].at = "answer1" /\ Idle(c) /\ Quiet(c)
        BY <1>2, <2>5, <3>2, <4>1 DEF Whole, Talks, NetTyped, NetClientOK, Net!Over, Idle
      <4>3. queues'[c].down = <<"ERR">> /\ queues'[c].rst = queues[c].rst
        BY <2>1, <4>2 DEF Net!Gone, Net!Over, Idle
      <4>4. Talks(c)'
        BY <1>1, <2>1, <2>5, <4>2, <4>3 DEF Talks, Idle, Quiet
      <4>5. Copies(c)'
        BY <1>1, <1>2, <2>5, <3>2, <4>2 DEF Whole, Copies, Done
      <4>. QED
        BY <2>6, <4>4, <4>5 DEF Whole
    <3>. QED
      BY <3>1, <3>2
  <2>. QED
    BY <2>3, <2>4, <2>7 DEF NetInv, NetShape
<1>. QED
  BY <1>4, <1>5

LEMMA NetAnswers ==
    ASSUME NetGiven, NetInv, scene' = scene, Net!Answers
    PROVE  NetInv'
<1>. PICK c \in Clients : c = server.conn
  BY DEF NetInv, NetShape, OwnFile, Net!Answers, Net!At
<1>1. server.at \in {"answer1", "answer2"} /\ client' = client /\ files' = files
  BY DEF Net!Answers, Net!At
<1>2. NetTyped /\ Good(c) /\ Serving(c) /\ ~Dead /\ Working
  BY <1>1 DEF NetInv, NetShape, Serving, Dead, Working
<1>3. PICK s \in {"size", "block"} :
          /\ Net!Answer("OK", Net!Main(s))
          /\ server.at = "answer1" => s = "size"
          /\ server.at = "answer2" => s = "block"
  BY DEF Net!Answers, Net!OK, Net!At
<1>4. CASE Net!Dies
  BY <1>1, <1>4, NetDead
<1>5. CASE ~Net!Dies
  <2>1. /\ NetQueuesOK' /\ server' = Net!Main(s)
        /\ backlog' = backlog /\ ~queues[c].rst
        /\ \A d \in Clients \ {c} : queues'[d] = queues[d]
        /\ queues'[c].up = queues[c].up /\ queues'[c].closed = queues[c].closed
        /\ queues'[c].torn = queues[c].torn
        /\ \/ Net!Gone(c) /\ queues'[c].down = queues[c].down
           \/ /\ ~Net!Gone(c) /\ queues'[c].rst = queues[c].rst
              /\ queues'[c].down = Append(queues[c].down, "OK")
    BY <1>2, <1>3, <1>5, NetAnswer DEF NetTyped, NetGiven
  <2>2. /\ NetServerOK' /\ server'.at = s /\ server'.conn = c
        /\ server'.path = server.path /\ server'.pos = server.pos
    BY <1>2, <2>1, NetMain DEF NetTyped, Net!Steps
  <2>3. NetTyped' /\ OwnFile'
    BY <1>1, <1>2, <2>1, <2>2
       DEF NetInv, NetShape, NetTyped, NetClientOK, NetFilesOK, OwnFile, Working
  <2>4. BacklogOnce' /\ \A d \in Clients \ {c} : Good(d)'
    BY <1>1, <1>2, <2>1, <2>2, NetOthers
  <2>5. Serving(c)' /\ ~Dead' /\ Working' /\ InBacklog(c)' = InBacklog(c) /\ ~InBacklog(c)
    BY <2>1, <2>2 DEF NetInv, NetShape, BacklogOnce, Serving, Dead, InBacklog, Working
  <2>6. ~queues[c].torn => Sent(c)'
    <3>. SUFFICES ASSUME ~queues[c].torn
                  PROVE  Sent(c)'
      OBVIOUS
    <3>1. queues[c].up = <<>> /\ <<>> \in Seq(Blocks \cup {<<>>})
      BY <1>1, <1>2 DEF Good, Whole, Sent
    <3>. QED
      BY <2>1, <2>2, <2>5, <3>1 DEF Sent
  <2>7. Good(c)'
    <3>. SUFFICES ASSUME ~queues[c].torn
                  PROVE  Whole(c)'
      BY <2>1 DEF Good
    <3>. Whole(c)
      BY <1>2 DEF Good
    <3>1. CASE client[c].at = "failed"
      BY <1>1, <2>6, <3>1 DEF Whole, Talks, Copies
    <3>2. CASE client[c].at # "failed"
      <4>1. client[c].at \in {"new", "path", "answer1", "size", "answer2", "data", "exit", "success"}
        BY <1>2, <3>2 DEF NetTyped, NetClientOK, Net!Over
      <4>2. /\ client[c].at = (IF server.at = "answer1" THEN "answer1" ELSE "answer2")
            /\ Idle(c) /\ Quiet(c) /\ (client[c].at = "answer2" => client[c].pos = 0)
        BY <1>1, <1>2, <2>5, <3>2, <4>1 DEF Whole, Talks, Idle
      <4>3. queues'[c].down = <<"OK">> /\ queues'[c].rst = queues[c].rst
        BY <2>1, <4>2 DEF Net!Gone, Net!Over, Idle
      <4>4. Talks(c)'
        BY <1>1, <1>3, <2>1, <2>2, <2>5, <4>2, <4>3 DEF Talks, Idle, Quiet
      <4>5. /\ server.pos = 0 /\ server.path = scene.path[c] /\ client[c].pos = 0
            /\ server.at = "answer2" => Copied(c, 0)
        BY <1>1, <1>2, <3>2, <4>2 DEF Whole, Copies
      <4>6. server.at = "answer2" => Copied(c, 0)'
        BY <1>1, <4>5 DEF Copied
      <4>7. Copies(c)'
        BY <1>1, <1>3, <2>1, <2>2, <2>5, <4>2, <4>5, <4>6 DEF Copies, Done, Quiet
      <4>. QED
        BY <2>6, <4>4, <4>7 DEF Whole
    <3>. QED
      BY <3>1, <3>2
  <2>. QED
    BY <2>3, <2>4, <2>7 DEF NetInv, NetShape
<1>. QED
  BY <1>4, <1>5

\* ftruncate() makes room for the file, or the server refuses it.
LEMMA NetFtruncate ==
    ASSUME NetServerOK, NetFilesOK, NEW p \in Clients, p = server.path, NEW n \in Int,
           Net!Ftruncate(n)
    PROVE  /\ NetServerOK' /\ NetFilesOK' /\ server'.path = server.path
           /\ server'.conn = server.conn /\ server'.pos = server.pos
           /\ \A q \in Clients \ {p} : files'[q] = files[q]
           /\ \/ /\ n >= 0 /\ server'.at = "answer2"
                 /\ files'[p] \in Seq(Nat) /\ Len(files'[p]) = n
              \/ n < 0 /\ server'.at = "refuse2" /\ files' = files
<1>1. CASE n >= 0
  <2>1. server' = [server EXCEPT !.at = "answer2", !.size = n]
    BY <1>1 DEF Net!Ftruncate, Net!Main, NetServerOK
  <2>2. /\ NetServerOK' /\ server'.path = server.path /\ server'.at = "answer2"
        /\ server'.conn = server.conn /\ server'.pos = server.pos
    BY <2>1 DEF NetServerOK, Net!Steps
  <2>3. \A k \in Nat : [i \in 1..k |-> 0] \in Seq(Nat) /\ Len([i \in 1..k |-> 0]) = k
    OBVIOUS
  <2>4. files' = [files EXCEPT ![p] = [i \in 1..n |-> 0]]
    BY <1>1 DEF Net!Ftruncate
  <2>5. [i \in 1..n |-> 0] \in Seq(Nat) /\ Len([i \in 1..n |-> 0]) = n
    BY <1>1, <2>3
  <2>6. files'[p] = [i \in 1..n |-> 0] /\ \A q \in Clients \ {p} : files'[q] = files[q]
    BY <2>4 DEF NetFilesOK
  <2>7. NetFilesOK'
    BY <2>4, <2>5 DEF NetFilesOK
  <2>. QED
    BY <1>1, <2>2, <2>5, <2>6, <2>7
<1>2. CASE n < 0
  <2>1. server' = [server EXCEPT !.at = "refuse2", !.size = n]
    BY <1>2 DEF Net!Ftruncate, Net!Main, NetServerOK
  <2>2. /\ NetServerOK' /\ server'.path = server.path /\ server'.at = "refuse2"
        /\ server'.conn = server.conn /\ server'.pos = server.pos
    BY <2>1 DEF NetServerOK, Net!Steps
  <2>3. files' = files
    BY <1>2 DEF Net!Ftruncate
  <2>. QED
    BY <1>2, <2>2, <2>3 DEF NetFilesOK
<1>. QED
  BY <1>1, <1>2

LEMMA NetReadSize ==
    ASSUME NetGiven, NetInv, scene' = scene, Net!ReadSize
    PROVE  NetInv'
<1>. PICK c \in Clients : c = server.conn
  BY DEF NetInv, NetShape, OwnFile, Net!ReadSize, Net!At
<1>1. server.at = "size" /\ client' = client
  BY DEF Net!ReadSize, Net!At
<1>2. NetTyped /\ Good(c) /\ Serving(c) /\ ~Dead /\ Working /\ scene.content[c] \in Seq(Nat)
  BY <1>1 DEF NetInv, NetShape, Serving, Dead, Working, Net!SceneType
<1>3. PICK p \in Clients : p = server.path /\ files[p] \in Seq(Nat)
  BY <1>2 DEF NetInv, NetShape, OwnFile
<1>4. CASE Net!Dies /\ files' = files
  BY <1>1, <1>4, NetDead
<1>5. CASE ~(Net!Dies /\ files' = files)
  <2>1. \E n \in Int :
           /\ Net!Ftruncate(n) /\ NetQueuesOK' /\ \A d \in Clients \ {c} : queues'[d] = queues[d]
           /\ backlog' = backlog /\ (queues[c].torn => queues'[c].torn)
           /\ \/ queues'[c].torn
              \/ queues'[c].up = <<>> /\ client[c].at = "failed"
              \/ /\ queues'[c].up = <<>> /\ n = Len(scene.content[c]) /\ queues[c].up = <<n>>
                 /\ queues'[c].down = queues[c].down
                 /\ queues'[c].rst = queues[c].rst /\ queues'[c].closed = queues[c].closed
    <3>1. CASE Net!Received /\ Net!Ftruncate(Head(queues[c].up)) /\ backlog' = backlog
      <4>1. /\ NetQueuesOK' /\ \A d \in Clients \ {c} : queues'[d] = queues[d]
            /\ queues[c].up # <<>> /\ queues'[c].up = Tail(queues[c].up)
            /\ queues'[c].down = queues[c].down
            /\ queues'[c].rst = queues[c].rst /\ queues'[c].closed = queues[c].closed
            /\ ~queues[c].torn /\ queues'[c].torn = queues[c].torn
        BY <1>2, <3>1, NetReceived DEF NetTyped, NetGiven
      <4>2. queues[c].up = <<Len(scene.content[c])>>
        BY <1>1, <1>2, <4>1 DEF Good, Whole, Sent
      <4>3. /\ Head(queues[c].up) = Len(scene.content[c]) /\ Tail(queues[c].up) = <<>>
            /\ Len(scene.content[c]) \in Int
        BY <1>2, <4>2
      <4>. QED
        BY <1>2, <3>1, <4>1, <4>2, <4>3
    <3>2. CASE Net!EndOfStream /\ Net!Ftruncate(server.size) /\ backlog' = backlog
      <4>1. queues' = queues /\ queues[c].up = <<>> /\ Net!Gone(c)
        BY <3>2 DEF Net!EndOfStream, Net!up
      <4>2. queues[c].torn \/ client[c].at = "failed"
        BY <1>1, <4>1, NetOnlyFailed
      <4>3. server.size \in Int
        BY <1>2 DEF NetTyped, NetServerOK
      <4>. QED
        BY <1>2, <3>2, <4>1, <4>2, <4>3 DEF NetTyped, NetQueuesOK
    <3>3. ASSUME NEW n \in {-1, BLOCKSIZE}, Net!Part, Net!Ftruncate(n), backlog' = backlog
          PROVE  /\ Net!Ftruncate(n) /\ NetQueuesOK' /\ n \in Int
                 /\ \A d \in Clients \ {c} : queues'[d] = queues[d]
                 /\ queues'[c].torn /\ backlog' = backlog
      BY <1>2, <3>3, NetPart DEF NetTyped, NetGiven
    <3>. QED
      BY <1>5, <3>1, <3>2, <3>3 DEF Net!ReadSize, Net!up
  <2>2. PICK n \in Int :
           /\ Net!Ftruncate(n) /\ NetQueuesOK' /\ \A d \in Clients \ {c} : queues'[d] = queues[d]
           /\ backlog' = backlog /\ (queues[c].torn => queues'[c].torn)
           /\ \/ queues'[c].torn
              \/ queues'[c].up = <<>> /\ client[c].at = "failed"
              \/ /\ queues'[c].up = <<>> /\ n = Len(scene.content[c]) /\ queues[c].up = <<n>>
                 /\ queues'[c].down = queues[c].down
                 /\ queues'[c].rst = queues[c].rst /\ queues'[c].closed = queues[c].closed
    BY <2>1
  <2>3. /\ NetServerOK' /\ NetFilesOK' /\ server'.path = server.path
        /\ server'.conn = c /\ server'.pos = server.pos
        /\ \A q \in Clients \ {p} : files'[q] = files[q]
        /\ \/ /\ n >= 0 /\ server'.at = "answer2"
              /\ files'[p] \in Seq(Nat) /\ Len(files'[p]) = n
           \/ n < 0 /\ server'.at = "refuse2" /\ files' = files
    BY <1>2, <1>3, <2>2, NetFtruncate DEF NetTyped
  <2>4. NetTyped' /\ OwnFile'
    BY <1>1, <1>2, <1>3, <2>2, <2>3 DEF NetTyped, NetClientOK, OwnFile
  <2>5. BacklogOnce' /\ \A d \in Clients \ {c} : Good(d)'
    <3>1. \A q \in Clients : files[q] \in Seq(Nat) /\ (Working => server.path # q)
                                => files'[q] = files[q] /\ (Working' => server'.path # q)
      BY <1>2, <1>3, <2>3
    <3>. QED
      BY <1>1, <2>2, <2>3, <3>1, NetOthers
  <2>6. Serving(c)' /\ ~Dead' /\ InBacklog(c)' = InBacklog(c) /\ ~InBacklog(c)
    BY <2>2, <2>3 DEF NetInv, NetShape, BacklogOnce, Serving, Dead, InBacklog
  <2>7. Good(c)'
    <3>. SUFFICES ASSUME ~queues'[c].torn
                  PROVE  Whole(c)'
      BY DEF Good
    <3>. Whole(c)
      BY <1>2, <2>2 DEF Good
    <3>0. /\ queues'[c].up = <<>>
          /\ \/ client[c].at = "failed"
             \/ /\ n = Len(scene.content[c]) /\ queues[c].up = <<n>>
                /\ queues'[c].down = queues[c].down
                /\ queues'[c].rst = queues[c].rst /\ queues'[c].closed = queues[c].closed
      BY <2>2
    <3>3. Sent(c)'
      BY <2>3, <2>6, <3>0 DEF Sent
    <3>1. CASE client[c].at = "failed"
      BY <1>1, <3>3, <3>1 DEF Whole, Talks, Copies
    <3>2. CASE client[c].at # "failed"
      <4>1. client[c].at \in {"new", "path", "answer1", "size", "answer2", "data", "exit", "success"}
        BY <1>2, <3>2 DEF NetTyped, NetClientOK, Net!Over
      <4>2. queues[c].up # <<>>
        <5>1. <<n>> # <<>>
          OBVIOUS
        <5>2. queues[c].up = <<n>>
          BY <3>0, <3>2
        <5>. QED
          BY <5>1, <5>2
      <4>3. client[c].at = "answer2" /\ queues[c].down = <<>> /\ Quiet(c) /\ client[c].pos = 0
        BY <1>1, <1>2, <2>6, <3>2, <4>1, <4>2 DEF Whole, Talks, Idle
      <4>4. server'.at = "answer2" /\ files'[p] \in Seq(Nat) /\ Len(files'[p]) = Len(scene.content[c])
        BY <1>2, <2>3, <3>0, <3>2
      <4>5. Talks(c)'
        BY <1>1, <2>6, <3>0, <3>2, <4>3, <4>4 DEF Talks, Idle, Quiet
      <4>6. server.pos = 0 /\ server.path = scene.path[c]
        BY <1>1, <1>2, <3>2 DEF Whole, Copies
      <4>7. Copied(c, 0)'
        <5>1. \A i \in 1..Len(scene.content[c]) : ~(i <= 0)
          BY <1>2
        <5>. QED
          BY <1>2, <1>3, <4>4, <4>6, <5>1 DEF Copied
      <4>8. Copies(c)'
        BY <1>1, <2>3, <2>6, <3>0, <3>2, <4>3, <4>4, <4>6, <4>7 DEF Copies, Done, Quiet
      <4>. QED
        BY <3>3, <4>5, <4>8 DEF Whole
    <3>. QED
      BY <3>1, <3>2
  <2>. QED
    BY <2>4, <2>5, <2>7 DEF NetInv, NetShape
<1>. QED
  BY <1>4, <1>5

LEMMA OffsetNext ==
    ASSUME NetGiven
    PROVE  /\ Offset(0) = 0
           /\ \A n \in Nat : Offset(n) \in Nat /\ Offset(n + 1) = Offset(n) + BLOCKSIZE
  BY DEF Offset, NetGiven

LEMMA NetClose ==
    ASSUME NetGiven, NetInv, scene' = scene, Net!Close
    PROVE  NetInv'
<1>. PICK c \in Clients : c = server.conn
  BY DEF NetInv, NetShape, OwnFile, Net!Close, Net!At
<1>1. server.at = "close" /\ client' = client /\ files' = files /\ backlog' = backlog
  BY DEF Net!Close, Net!At
<1>2. NetTyped /\ Good(c) /\ Serving(c) /\ ~Dead /\ ~Working
  BY <1>1 DEF NetInv, NetShape, Serving, Dead, Working
<1>3. queues' = [queues EXCEPT ![c].closed = TRUE]
  BY DEF Net!Close
<1>4. /\ NetQueuesOK' /\ \A d \in Clients \ {c} : queues'[d] = queues[d]
      /\ queues'[c].closed /\ queues'[c].up = queues[c].up
      /\ queues'[c].down = queues[c].down /\ queues'[c].rst = queues[c].rst
      /\ queues'[c].torn = queues[c].torn
  BY <1>2, <1>3, NetShut DEF NetTyped
<1>5. NetServerOK' /\ server'.at = "accept" /\ server'.conn = None
  <2>1. server' = [server EXCEPT !.at = "accept", !.conn = None]
    BY <1>2 DEF Net!Close, Net!Main, NetTyped, NetServerOK
  <2>. QED
    BY <1>2, <2>1 DEF NetTyped, NetServerOK, Net!Steps
<1>6. NetTyped' /\ OwnFile'
  BY <1>1, <1>2, <1>4, <1>5 DEF NetTyped, NetClientOK, NetFilesOK, OwnFile, Working
<1>7. BacklogOnce' /\ \A d \in Clients \ {c} : Good(d)'
  BY <1>1, <1>4, <1>5, NetOthers DEF Working
<1>8. ~Serving(c)' /\ ~Dead' /\ ~Working' /\ InBacklog(c)' = InBacklog(c) /\ ~InBacklog(c)
  BY <1>1, <1>5 DEF NetInv, NetShape, BacklogOnce, Serving, Dead, InBacklog, Working, NetGiven
<1>9. Good(c)'
  <2>. SUFFICES ASSUME ~queues'[c].torn
                PROVE  Whole(c)'
    BY DEF Good
  <2>. Whole(c)
    BY <1>2, <1>4 DEF Good
  <2>1. Sent(c)'
    BY <1>8 DEF Sent
  <2>2. CASE client[c].at = "failed"
    BY <1>1, <2>1, <2>2 DEF Whole, Talks, Copies
  <2>3. CASE client[c].at # "failed"
    <3>1. client[c].at \in {"new", "path", "answer1", "size", "answer2", "data", "exit", "success"}
      BY <1>2, <2>3 DEF NetTyped, NetClientOK, Net!Over
    <3>2. client[c].at \in {"exit", "success"}
      BY <1>1, <1>2, <1>8, <3>1 DEF Whole, Talks
    <3>3. Talks(c)'
      BY <1>1, <1>4, <1>5, <1>8, <3>2 DEF Talks, Done, NetGiven
    <3>4. Small(c) => Copied(c, Len(scene.content[c]))'
      BY <1>1, <1>2, <2>3 DEF Whole, Copies, Copied
    <3>5. Copies(c)'
      BY <1>1, <1>8, <3>2, <3>4 DEF Copies, Small
    <3>. QED
      BY <2>1, <3>3, <3>5 DEF Whole
  <2>. QED
    BY <2>2, <2>3
<1>. QED
  BY <1>6, <1>7, <1>9 DEF NetInv, NetShape

\* The last message is the last one still when another one has been read, and
\* alone when it is the first.
LEMMA NetLastStays ==
    ASSUME NEW S, NEW e, NEW u \in Seq(S \cup {e}), u # <<>>, u[Len(u)] = e,
           \A j \in 1..(Len(u) - 1) : u[j] \in S
    PROVE  /\ Head(u) # e =>
                 /\ Len(u) # 1 /\ Tail(u) # <<>> /\ Tail(u)[Len(Tail(u))] = e
                 /\ \A j \in 1..(Len(Tail(u)) - 1) : Tail(u)[j] \in S
           /\ Head(u) = e /\ e \notin S => Len(u) = 1
<1>1. /\ Len(u) \in Nat /\ Len(u) >= 1 /\ Head(u) = u[1]
      /\ Tail(u) \in Seq(S \cup {e}) /\ Len(Tail(u)) = Len(u) - 1
      /\ \A j \in 1..Len(Tail(u)) : Tail(u)[j] = u[j + 1]
  BY HeadTailProperties
<1>2. ASSUME Head(u) # e
      PROVE  /\ Len(u) # 1 /\ Tail(u) # <<>> /\ Tail(u)[Len(Tail(u))] = e
             /\ \A j \in 1..(Len(Tail(u)) - 1) : Tail(u)[j] \in S
  <2>. DEFINE m == Len(Tail(u))
  <2>1. Len(u) # 1
    BY <1>1, <1>2
  <2>2. m \in Nat /\ m >= 1 /\ m + 1 = Len(u)
    BY <1>1, <2>1
  <2>3. Tail(u) # <<>>
    <3>1. Len(<<>>) = 0
      OBVIOUS
    <3>2. Len(Tail(u)) # 0
      BY <2>2
    <3>. QED
      BY <3>1, <3>2
  <2>. HIDE DEF m
  <2>4. Tail(u)[m] = e
    <3>1. m \in 1..Len(Tail(u))
      BY <2>2 DEF m
    <3>. QED
      BY <1>1, <2>2, <3>1
  <2>5. ASSUME NEW j \in 1..(m - 1) PROVE Tail(u)[j] \in S
    <3>1. j \in 1..Len(Tail(u)) /\ j + 1 \in 1..(Len(u) - 1)
      BY <2>2 DEF m
    <3>. QED
      BY <1>1, <3>1
  <2>. QED
    BY <2>1, <2>3, <2>4, <2>5 DEF m
<1>3. ASSUME Head(u) = e, e \notin S PROVE Len(u) = 1
  <2>. SUFFICES ASSUME Len(u) # 1 PROVE FALSE
    OBVIOUS
  <2>1. 1 \in 1..(Len(u) - 1)
    BY <1>1
  <2>. QED
    BY <1>1, <1>3, <2>1
<1>. QED
  BY <1>2, <1>3

\* Blocks and the last message, which is none.
LEMMA NetByeIsNoBlock == NetGiven => <<>> \notin Blocks /\ <<>> \in Seq(Blocks)
<1>. SUFFICES ASSUME NetGiven, <<>> \in Blocks
              PROVE  FALSE
  OBVIOUS
<1>1. 1 \in 1..BLOCKSIZE
  BY DEF NetGiven
<1>2. DOMAIN <<>> = 1..BLOCKSIZE
  BY DEF Blocks
<1>3. DOMAIN <<>> = {}
  OBVIOUS
<1>. QED
  BY <1>1, <1>2, <1>3

LEMMA NetReadBlock ==
    ASSUME NetGiven, NetInv, scene' = scene, Net!ReadBlock
    PROVE  NetInv'
<1>. PICK c \in Clients : c = server.conn
  BY DEF NetInv, NetShape, OwnFile, Net!ReadBlock, Net!At
<1>1. server.at = "block" /\ client' = client /\ files' = files /\ backlog' = backlog
  BY DEF Net!ReadBlock, Net!At
<1>2. NetTyped /\ Good(c) /\ Serving(c) /\ ~Dead /\ Working /\ scene.content[c] \in Seq(Nat)
  BY <1>1 DEF NetInv, NetShape, Serving, Dead, Working, Net!SceneType
<1>3. ~queues[c].torn => Whole(c) /\ queues[c].up \in Seq(Blocks \cup {<<>>})
  BY <1>1, <1>2 DEF Good, Whole, Sent
<1>4. ASSUME NetQueuesOK', NetServerOK', \A d \in Clients \ {c} : queues'[d] = queues[d],
             server'.at \in {"close", "write"}, server'.conn = c,
             server'.path = server.path, server'.pos = server.pos
      PROVE  /\ NetTyped' /\ OwnFile' /\ BacklogOnce' /\ \A d \in Clients \ {c} : Good(d)'
             /\ Serving(c)' /\ ~Dead' /\ InBacklog(c)' = InBacklog(c) /\ ~InBacklog(c)
  <2>1. NetTyped' /\ OwnFile'
    BY <1>1, <1>2, <1>4 DEF NetInv, NetShape, NetTyped, NetClientOK, NetFilesOK, OwnFile, Working
  <2>2. BacklogOnce' /\ \A d \in Clients \ {c} : Good(d)'
    BY <1>1, <1>2, <1>4, NetOthers
  <2>3. Serving(c)' /\ ~Dead' /\ InBacklog(c)' = InBacklog(c) /\ ~InBacklog(c)
    BY <1>1, <1>4 DEF NetInv, NetShape, BacklogOnce, Serving, Dead, InBacklog
  <2>. QED
    BY <2>1, <2>2, <2>3
<1>5. CASE /\ Net!Received
           /\ server' = IF Head(queues[c].up) = <<>> THEN [Net!Main("close") EXCEPT !.type = "ERR"]
                        ELSE [Net!Main("write") EXCEPT !.type = "OK", !.block = Head(queues[c].up)]
  <2>1. /\ NetQueuesOK' /\ \A d \in Clients \ {c} : queues'[d] = queues[d]
        /\ queues[c].up # <<>> /\ queues'[c].up = Tail(queues[c].up)
        /\ queues'[c].down = queues[c].down
        /\ queues'[c].rst = queues[c].rst /\ queues'[c].closed = queues[c].closed
        /\ ~queues[c].torn
    BY <1>2, <1>5, NetReceived DEF NetTyped, NetGiven
  <2>0. Whole(c) /\ queues[c].up \in Seq(Blocks \cup {<<>>})
    BY <1>3, <2>1
  <2>2. PICK b \in Blocks \cup {<<>>} : b = Head(queues[c].up) /\ b = queues[c].up[1]
    BY <2>0, <2>1
  <2>3. /\ Tail(queues[c].up) \in Seq(Blocks \cup {<<>>})
        /\ Len(Tail(queues[c].up)) = Len(queues[c].up) - 1 /\ Len(queues[c].up) \in Nat \ {0}
        /\ \A j \in 1..Len(Tail(queues[c].up)) : Tail(queues[c].up)[j] = queues[c].up[j + 1]
    BY <2>0, <2>1, HeadTailProperties
  <2>4. <<>> \notin Blocks
    BY NetByeIsNoBlock
  <2>5. client[c].at # "failed" => client[c].at \in {"data", "exit", "success"}
    <3>1. client[c].at # "failed" => client[c].at \in {"new", "path", "answer1", "size", "answer2",
                                                        "data", "exit", "success"}
      BY <1>2 DEF NetTyped, NetClientOK, Net!Over
    <3>2. ~InBacklog(c)
      BY DEF NetInv, NetShape, BacklogOnce, InBacklog
    <3>. QED
      BY <2>0, <1>1, <1>2, <2>1, <3>1, <3>2 DEF Whole, Talks, Idle
  <2>6. CASE b = <<>>
    <3>1. server' = [server EXCEPT !.at = "close", !.type = "ERR"]
      BY <1>2, <1>5, <2>2, <2>6
         DEF Net!Main, NetTyped, NetServerOK
    <3>2. /\ NetServerOK' /\ server'.at = "close" /\ server'.conn = c
          /\ server'.path = server.path /\ server'.pos = server.pos
      BY <1>2, <3>1 DEF NetTyped, NetServerOK, Net!Steps
    <3>3. /\ NetTyped' /\ OwnFile' /\ BacklogOnce' /\ \A d \in Clients \ {c} : Good(d)'
          /\ Serving(c)' /\ ~Dead' /\ InBacklog(c)' = InBacklog(c) /\ ~InBacklog(c)
      BY <1>4, <2>1, <3>2
    <3>4. Sent(c)'
      BY <3>2, <3>3 DEF Sent
    <3>5. CASE client[c].at = "failed"
      BY <2>0, <1>1, <3>3, <3>4, <3>5 DEF Good, Whole, Talks, Copies, NetInv, NetShape
    <3>6. CASE client[c].at # "failed"
      <4>1. client[c].at \in {"exit", "success"}
        <5>1. client[c].at = "data" => queues[c].up \in Seq(Blocks)
          BY <2>0, <1>2 DEF Whole, Talks
        <5>2. queues[c].up \in Seq(Blocks) => Head(queues[c].up) \in Blocks
          BY <2>1
        <5>. QED
          BY <2>2, <2>4, <2>5, <2>6, <3>6, <5>1, <5>2
      <4>2. ~queues[c].closed /\ \A j \in 1..(Len(queues[c].up) - 1) : queues[c].up[j] \in Blocks
        BY <2>0, <1>1, <1>2, <4>1 DEF Whole, Talks, Done
      <4>3. Len(queues[c].up) = 1
        <5>1. queues[c].up[Len(queues[c].up)] = <<>>
          BY <2>0, <1>1, <1>2, <4>1, <4>2 DEF Whole, Talks, Done
        <5>2. Head(queues[c].up) = <<>> /\ queues[c].up # <<>>
          BY <2>1, <2>2, <2>6
        <5>. QED
          BY <2>0, <2>4, <4>2, <5>1, <5>2, NetLastStays
      <4>4. Talks(c)'
        BY <1>1, <2>1, <3>2, <3>3, <4>1, <4>2 DEF Talks
      <4>5. Small(c) => /\ Copied(c, server.pos)
                        /\ client[c].pos = server.pos + Offset(Under(c) + Beyond)
                        /\ client[c].pos >= Len(scene.content[c])
        BY <2>0, <1>1, <1>2, <3>6, <4>1 DEF Whole, Copies
      <4>6. Small(c) => server.pos >= Len(scene.content[c])
        <5>1. Under(c) + Beyond = 0
          BY <1>1, <4>1, <4>3 DEF Under, Beyond
        <5>. QED
          BY <1>2, <4>5, <5>1, OffsetNext DEF NetTyped, NetServerOK
      <4>7. Small(c) => Copied(c, Len(scene.content[c]))
        BY <1>2, <4>5, <4>6 DEF Copied, NetTyped, NetServerOK
      <4>8. Small(c) => Copied(c, Len(scene.content[c]))'
        BY <1>1, <4>7 DEF Copied
      <4>9. server.path = scene.path[c]
        BY <2>0, <1>2, <3>6 DEF Whole, Copies
      <4>10. Copies(c)'
        BY <1>1, <2>1, <3>2, <3>3, <4>1, <4>2, <4>8 DEF Copies, Done, Small, Working
      <4>11. Good(c)'
        BY <2>0, <3>4, <4>4, <4>10 DEF Good, Whole
      <4>. QED
        BY <3>3, <4>11 DEF NetInv, NetShape
    <3>. QED
      BY <3>5, <3>6
  <2>7. CASE b # <<>>
    <3>0. b \in Blocks
      BY <2>7
    <3>1. server' = [server EXCEPT !.at = "write", !.type = "OK", !.block = b]
      BY <1>2, <1>5, <2>1, <2>2, <2>7
         DEF Net!Main, NetTyped, NetServerOK
    <3>2. /\ NetServerOK' /\ server'.at = "write" /\ server'.conn = c /\ server'.block = b
          /\ server'.path = server.path /\ server'.pos = server.pos
      BY <1>2, <3>0, <3>1 DEF NetTyped, NetServerOK, Net!Steps
    <3>3. /\ NetTyped' /\ OwnFile' /\ BacklogOnce' /\ \A d \in Clients \ {c} : Good(d)'
          /\ Serving(c)' /\ ~Dead' /\ InBacklog(c)' = InBacklog(c) /\ ~InBacklog(c)
      BY <1>4, <2>1, <3>2
    <3>4. Sent(c)'
      BY <2>1, <2>3, <3>2, <3>3 DEF Sent
    <3>5. CASE client[c].at = "failed"
      BY <2>0, <1>1, <3>3, <3>4, <3>5 DEF Good, Whole, Talks, Copies, NetInv, NetShape
    <3>6. CASE client[c].at # "failed"
      <4>1. Quiet(c) \/ client[c].at \in {"exit", "success"}
        BY <2>0, <1>2, <2>5, <3>6 DEF Whole, Talks
      <4>2. client[c].at = "data" => queues'[c].up \in Seq(Blocks)
        <5>1. client[c].at = "data" => queues[c].up \in Seq(Blocks)
          BY <2>0, <1>2 DEF Whole, Talks
        <5>2. queues[c].up \in Seq(Blocks) => Tail(queues[c].up) \in Seq(Blocks)
          BY <2>1
        <5>. QED
          BY <2>1, <5>1, <5>2
      <4>3. client[c].at \in {"exit", "success"} =>
               /\ ~queues[c].closed /\ Len(queues'[c].up) = Len(queues[c].up) - 1
               /\ queues'[c].up # <<>> /\ queues'[c].up[Len(queues'[c].up)] = <<>>
               /\ \A j \in 1..(Len(queues'[c].up) - 1) : queues'[c].up[j] \in Blocks
        <5>. SUFFICES ASSUME client[c].at \in {"exit", "success"}
                      PROVE  /\ ~queues[c].closed /\ Len(Tail(queues[c].up)) = Len(queues[c].up) - 1
                             /\ Tail(queues[c].up) # <<>>
                             /\ Tail(queues[c].up)[Len(Tail(queues[c].up))] = <<>>
                             /\ \A j \in 1..(Len(Tail(queues[c].up)) - 1) :
                                   Tail(queues[c].up)[j] \in Blocks
          BY <2>1
        <5>1. /\ ~queues[c].closed /\ queues[c].up[Len(queues[c].up)] = <<>>
              /\ \A j \in 1..(Len(queues[c].up) - 1) : queues[c].up[j] \in Blocks
          BY <2>0, <1>1, <1>2 DEF Whole, Talks, Done
        <5>2. Head(queues[c].up) # <<>> /\ queues[c].up # <<>>
          BY <2>1, <2>2, <2>7
        <5>. DEFINE u == queues[c].up
        <5>3. /\ u \in Seq(Blocks \cup {<<>>}) /\ u # <<>> /\ u[Len(u)] = <<>>
              /\ \A j \in 1..(Len(u) - 1) : u[j] \in Blocks
              /\ Head(u) # <<>>
          BY <2>0, <5>1, <5>2
        <5>4. /\ Tail(u) # <<>> /\ Tail(u)[Len(Tail(u))] = <<>>
              /\ \A j \in 1..(Len(Tail(u)) - 1) : Tail(u)[j] \in Blocks
          <6>. HIDE DEF u
          <6>. QED
            BY <5>3, NetLastStays
        <5>. QED
          BY <2>3, <5>1, <5>4
      <4>4. Talks(c)'
        BY <1>1, <2>1, <2>5, <3>2, <3>3, <3>6, <4>1, <4>2, <4>3 DEF Talks, Quiet
      <4>5. Copies(c)'
        <5>1. server.path = scene.path[c]
          BY <2>0, <1>2, <3>6 DEF Whole, Copies
        <5>2. ASSUME Small(c)
              PROVE  /\ queues'[c].down = <<>> /\ Copied(c, server.pos)'
                     /\ client[c].pos < Len(scene.content[c]) + BLOCKSIZE
                     /\ client[c].pos = server.pos + Offset(Under(c)' + 1)
                     /\ \A j \in 1..Under(c)' :
                           Bytes(c, queues'[c].up[j], server.pos + Offset(j - 1 + 1))
                     /\ Bytes(c, b, server.pos)
                     /\ client[c].at \in {"exit", "success"} =>
                           client[c].pos >= Len(scene.content[c])
          <6>1. /\ queues[c].down = <<>> /\ Copied(c, server.pos)
                /\ client[c].pos < Len(scene.content[c]) + BLOCKSIZE
                /\ client[c].pos = server.pos + Offset(Under(c))
                /\ \A j \in 1..Under(c) : Bytes(c, queues[c].up[j], server.pos + Offset(j - 1))
                /\ client[c].at \in {"exit", "success"} =>
                      client[c].pos >= Len(scene.content[c])
            <7>1. Beyond = 0 /\ Under(c) \in Int
              BY <1>1, <2>3 DEF Beyond, Under
            <7>2. Under(c) + Beyond = Under(c) /\ \A j \in 1..Under(c) : j - 1 + Beyond = j - 1
              BY <7>1
            <7>. QED
              BY <2>0, <1>1, <1>2, <2>5, <3>6, <5>2, <7>2 DEF Whole, Copies
          <6>2. Under(c) >= 1 /\ Under(c)' = Under(c) - 1 /\ Under(c) \in Nat
                /\ Under(c) <= Len(queues[c].up)
            <7>1. Len(queues'[c].up) = Len(queues[c].up) - 1
              BY <2>1, <2>3
            <7>2. client[c].at \in {"exit", "success"} => Len(queues[c].up) # 1
              <8>1. client[c].at \in {"exit", "success"} =>
                       /\ queues[c].up[Len(queues[c].up)] = <<>>
                       /\ \A j \in 1..(Len(queues[c].up) - 1) : queues[c].up[j] \in Blocks
                BY <2>0, <1>1, <1>2 DEF Whole, Talks, Done
              <8>2. Head(queues[c].up) # <<>>
                BY <2>2, <2>7
              <8>. QED
                BY <2>0, <2>1, <8>1, <8>2, NetLastStays
            <7>3. Len(queues[c].up) \in Nat \ {0}
              BY <2>3
            <7>. DEFINE n == Len(queues[c].up)
                        m == Len(queues'[c].up)
            <7>. HIDE DEF n, m
            <7>4. CASE client[c].at = "data"
              <8>1. Under(c) = n /\ Under(c)' = m
                BY <1>1, <7>4 DEF Under, n, m
              <8>2. m = n - 1 /\ n \in Nat \ {0}
                BY <7>1, <7>3 DEF n, m
              <8>3. Under(c) >= 1 /\ Under(c)' = Under(c) - 1 /\ Under(c) \in Nat /\ Under(c) <= n
                BY <8>1, <8>2
              <8>. QED
                BY <8>3 DEF n
            <7>5. CASE client[c].at # "data"
              <8>1. Under(c) = n - 1 /\ Under(c)' = m - 1
                BY <1>1, <7>5 DEF Under, n, m
              <8>2. m = n - 1 /\ n \in Nat \ {0} /\ n # 1
                BY <2>5, <3>6, <7>1, <7>2, <7>3, <7>5 DEF n, m
              <8>3. Under(c) >= 1 /\ Under(c)' = Under(c) - 1 /\ Under(c) \in Nat /\ Under(c) <= n
                BY <8>1, <8>2
              <8>. QED
                BY <8>3 DEF n
            <7>. QED
              BY <7>4, <7>5
          <6>3. Copied(c, server.pos)'
            BY <1>1, <3>2, <6>1 DEF Copied
          <6>4. \A j \in 1..Under(c)' : Bytes(c, queues'[c].up[j], server.pos + Offset(j - 1 + 1))
            <7>. SUFFICES ASSUME NEW j \in 1..Under(c)'
                          PROVE  Bytes(c, queues'[c].up[j], server.pos + Offset(j - 1 + 1))
              OBVIOUS
            <7>1. j + 1 \in 1..Under(c) /\ j \in 1..Len(Tail(queues[c].up))
              BY <2>3, <6>2
            <7>2. queues'[c].up[j] = queues[c].up[j + 1]
              BY <2>1, <2>3, <7>1
            <7>3. j + 1 - 1 = j - 1 + 1
              BY <7>1
            <7>. QED
              BY <6>1, <7>1, <7>2, <7>3
          <6>5. Bytes(c, b, server.pos)
            <7>1. 1 \in 1..Under(c) /\ server.pos + Offset(1 - 1) = server.pos
              BY <1>2, <6>2, OffsetNext DEF NetTyped, NetServerOK
            <7>. QED
              BY <2>2, <6>1, <7>1
          <6>6. client[c].pos = server.pos + Offset(Under(c)' + 1)
            <7>1. Under(c)' + 1 = Under(c)
              BY <6>2
            <7>. QED
              BY <6>1, <7>1
          <6>. QED
            BY <2>1, <6>1, <6>3, <6>4, <6>5, <6>6
        <5>3. /\ client[c].at # "answer2" /\ ~Done(c)' /\ Beyond' = 1 /\ Small(c)' = Small(c)
          BY <1>1, <2>1, <2>5, <3>2, <3>6, <4>1, <4>3 DEF Done, Quiet, Beyond, Small
        <5>4. \A x, y : Bytes(c, x, y)' = Bytes(c, x, y)
          BY DEF Bytes
        <5>. QED
          BY <1>1, <2>5, <3>2, <3>3, <3>6, <5>1, <5>2, <5>3, <5>4 DEF Copies
      <4>6. Good(c)'
        BY <2>0, <3>4, <4>4, <4>5 DEF Good, Whole
      <4>. QED
        BY <3>3, <4>6 DEF NetInv, NetShape
    <3>. QED
      BY <3>5, <3>6
  <2>. QED
    BY <2>6, <2>7
<1>6. CASE (Net!EndOfStream \/ Net!Reset) /\ server' = Net!Main(IF server.type = "ERR" THEN "close" ELSE "write")
  <2>1. queues' = queues /\ queues[c].up = <<>>
    BY <1>6 DEF Net!EndOfStream, Net!Reset, Net!up
  <2>2. PICK s \in {"close", "write"} : server' = Net!Main(s)
    BY <1>6
  <2>3. /\ NetServerOK' /\ server'.at = s /\ server'.conn = c
        /\ server'.path = server.path /\ server'.pos = server.pos
    BY <1>2, <2>2, NetMain DEF NetTyped, Net!Steps
  <2>4. NetQueuesOK' /\ \A d \in Clients \ {c} : queues'[d] = queues[d]
    BY <1>2, <2>1 DEF NetTyped, NetQueuesOK
  <2>5. /\ NetTyped' /\ OwnFile' /\ BacklogOnce' /\ \A d \in Clients \ {c} : Good(d)'
        /\ Serving(c)' /\ ~Dead' /\ InBacklog(c)' = InBacklog(c) /\ ~InBacklog(c)
    BY <1>4, <2>3, <2>4
  <2>6. Good(c)'
    <3>. SUFFICES ASSUME ~queues'[c].torn
                  PROVE  Whole(c)'
      BY DEF Good
    <3>0. ~queues[c].torn /\ Whole(c) /\ queues[c].up \in Seq(Blocks \cup {<<>>})
      BY <1>3, <2>1
    <3>1. client[c].at = "failed"
      <4>1. CASE Net!EndOfStream
        BY <1>1, <2>1, <3>0, <4>1, NetOnlyFailed DEF Net!EndOfStream
      <4>2. CASE Net!Reset
        <5>1. queues[c].rst
          BY <4>2 DEF Net!Reset
        <5>2. client[c].at \in {"exit", "success", "failed"}
          BY <1>2, <3>0, <5>1 DEF Whole, Talks, Quiet
        <5>. QED
          BY <1>1, <1>2, <2>1, <3>0, <5>2 DEF Whole, Talks
      <4>. QED
        BY <1>6, <4>1, <4>2
    <3>2. Sent(c)'
      BY <2>1, <2>3, <2>5, <3>0 DEF Sent
    <3>. QED
      BY <1>1, <3>1, <3>2 DEF Whole, Talks, Copies
  <2>. QED
    BY <2>5, <2>6 DEF NetInv, NetShape
<1>7. CASE /\ Net!Part
           /\ \/ server' = [Net!Main("close") EXCEPT !.type = "ERR"]
              \/ server' = [Net!Main("write") EXCEPT !.type = "OK"]
  <2>1. NetQueuesOK' /\ (\A d \in Clients \ {c} : queues'[d] = queues[d]) /\ queues'[c].torn
    BY <1>2, <1>7, NetPart DEF NetTyped, NetGiven
  <2>2. PICK s \in {"close", "write"}, y \in {"OK", "ERR"} :
           server' = [server EXCEPT !.at = s, !.type = y]
    BY <1>2, <1>7 DEF Net!Main, NetTyped, NetServerOK
  <2>3. /\ NetServerOK' /\ server'.at = s /\ server'.conn = c
        /\ server'.path = server.path /\ server'.pos = server.pos
    BY <1>2, <2>2 DEF NetTyped, NetServerOK, Net!Steps
  <2>. QED
    BY <1>4, <2>1, <2>3 DEF NetInv, NetShape, Good
<1>. QED
  BY <1>5, <1>6, <1>7 DEF Net!ReadBlock, Net!Bye, Net!up, Net!ERR, Net!OK

\* A block is written into the file at an offset: what precedes it stays.
LEMMA NetStored ==
    ASSUME NEW f \in Seq(Nat), NEW pos \in Nat, NEW b \in Blocks, BLOCKSIZE \in Nat,
           NEW n \in 1..BLOCKSIZE, pos <= Len(f)
    PROVE  /\ Net!Stored(f, pos, n, b) \in Seq(Nat)
           /\ Len(f) <= Len(Net!Stored(f, pos, n, b))
           /\ pos + n <= Len(Net!Stored(f, pos, n, b))
           /\ \A i \in 1..Len(f) : i <= pos => Net!Stored(f, pos, n, b)[i] = f[i]
           /\ \A j \in 1..n : Net!Stored(f, pos, n, b)[pos + j] = b[j]
<1>1. b \in Seq(Nat) /\ Len(b) = BLOCKSIZE /\ Len(f) \in Nat
  BY DEF Blocks
<1>. DEFINE k == IF pos + n > Len(f) THEN pos + n ELSE Len(f)
            g == [i \in 1..k |-> IF i \in (pos + 1)..(pos + n) THEN b[i - pos] ELSE f[i]]
<1>2. k \in Nat /\ k >= Len(f) /\ k >= pos + n
  BY <1>1
<1>3. \A i \in 1..k : i \in 1..Len(f) \/ i \in (pos + 1)..(pos + n)
  <2>. SUFFICES ASSUME NEW i \in 1..k, i \notin 1..Len(f) PROVE i \in (pos + 1)..(pos + n)
    OBVIOUS
  <2>. QED
    BY <1>1
<1>. HIDE DEF k
<1>. g = Net!Stored(f, pos, n, b)
  BY DEF Net!Stored, k
<1>4. \A i \in 1..k : g[i] \in Nat
  <2>. SUFFICES ASSUME NEW i \in 1..k PROVE g[i] \in Nat
    OBVIOUS
  <2>1. CASE i \in (pos + 1)..(pos + n)
    <3>1. i - pos \in 1..BLOCKSIZE
      BY <1>1, <2>1
    <3>. QED
      BY <2>1, <3>1 DEF Blocks
  <2>2. CASE i \notin (pos + 1)..(pos + n)
    <3>1. i \in 1..Len(f)
      BY <1>3, <2>2
    <3>. QED
      BY <2>2, <3>1
  <2>. QED
    BY <2>1, <2>2
<1>5. g \in Seq(Nat) /\ Len(g) = k
  <2>. DEFINE h(i) == IF i \in (pos + 1)..(pos + n) THEN b[i - pos] ELSE f[i]
  <2>1. \A i \in 1..k : h(i) \in Nat
    BY <1>4
  <2>. HIDE DEF h
  <2>2. [i \in 1..k |-> h(i)] \in Seq(Nat) /\ Len([i \in 1..k |-> h(i)]) = k
    BY <1>2, <2>1
  <2>. QED
    BY <2>2 DEF h
<1>6. ASSUME NEW i \in 1..Len(f), i <= pos PROVE g[i] = f[i]
  <2>1. i \in 1..k /\ i \notin (pos + 1)..(pos + n)
    BY <1>1, <1>2, <1>6
  <2>. QED
    BY <2>1
<1>7. ASSUME NEW j \in 1..n PROVE g[pos + j] = b[j]
  <2>1. pos + j \in 1..k /\ pos + j \in (pos + 1)..(pos + n) /\ pos + j - pos = j
    BY <1>1, <1>2
  <2>. QED
    BY <2>1
<1>. HIDE DEF g
<1>. QED
  BY <1>2, <1>5, <1>6, <1>7

\* Of a small file a block more has been copied.
LEMMA NetCopiedMore ==
    ASSUME NetGiven, scene' = scene, NEW c \in Clients, scene.content[c] \in Seq(Nat), NEW pos \in Nat,
           NEW b \in Blocks, Copied(c, pos), Bytes(c, b, pos),
           pos <= Len(files[scene.path[c]]),
           files'[scene.path[c]] = Net!Stored(files[scene.path[c]], pos, BLOCKSIZE, b)
    PROVE  Copied(c, pos + BLOCKSIZE)'
<1>. DEFINE s == scene.content[c]
            f == files[scene.path[c]]
            g == Net!Stored(f, pos, BLOCKSIZE, b)
<1>1. f \in Seq(Nat) /\ Len(s) <= Len(f) /\ \A i \in 1..Len(s) : i <= pos => f[i] = s[i]
  BY DEF Copied
<1>2. \A i \in 1..BLOCKSIZE : pos + i <= Len(s) => b[i] = s[pos + i]
  BY DEF Bytes
<1>3. /\ g \in Seq(Nat) /\ Len(f) <= Len(g)
      /\ \A i \in 1..Len(f) : i <= pos => g[i] = f[i]
      /\ \A j \in 1..BLOCKSIZE : g[pos + j] = b[j]
  <2>1. BLOCKSIZE \in 1..BLOCKSIZE
    BY DEF NetGiven
  <2>2. f \in Seq(Nat) /\ pos <= Len(f) /\ BLOCKSIZE \in Nat
    BY <1>1 DEF NetGiven
  <2>. HIDE DEF f
  <2>3. \A n \in 1..BLOCKSIZE :
           /\ Net!Stored(f, pos, n, b) \in Seq(Nat)
           /\ Len(f) <= Len(Net!Stored(f, pos, n, b))
           /\ \A i \in 1..Len(f) : i <= pos => Net!Stored(f, pos, n, b)[i] = f[i]
           /\ \A j \in 1..n : Net!Stored(f, pos, n, b)[pos + j] = b[j]
    BY <2>2, NetStored
  <2>. QED
    BY <2>1, <2>3
<1>4. files'[scene.path[c]] = g /\ scene' = scene
  OBVIOUS
<1>5. Len(s) \in Nat /\ Len(f) \in Nat /\ Len(g) \in Nat
  BY <1>1, <1>3
<1>. HIDE DEF f, g, s
<1>6. ASSUME NEW i \in 1..Len(s), i <= pos + BLOCKSIZE PROVE g[i] = s[i]
  <2>1. CASE i <= pos
    <3>1. i \in 1..Len(f)
      BY <1>1, <1>5
    <3>. QED
      BY <1>1, <1>3, <2>1, <3>1
  <2>2. CASE ~(i <= pos)
    <3>1. i - pos \in 1..BLOCKSIZE /\ pos + (i - pos) = i
      BY <1>5, <1>6, <2>2 DEF NetGiven
    <3>2. b[i - pos] = s[i]
      BY <1>2, <1>5, <3>1
    <3>. QED
      BY <1>3, <3>1, <3>2
  <2>. QED
    BY <2>1, <2>2
<1>7. Len(s) <= Len(g)
  BY <1>1, <1>3, <1>5
<1>. QED
  BY <1>3, <1>4, <1>6, <1>7 DEF Copied, s

\* Where the server is in a small file while it has a block to store.
LEMMA NetAtBlock ==
    ASSUME NetGiven, NetInv, NEW c \in Clients, Serving(c), server.at = "write",
           client[c].at # "failed", ~queues[c].torn
    PROVE  /\ client[c].at \in {"data", "exit", "success"} /\ server.path = scene.path[c]
           /\ Under(c) \in Nat
           /\ Small(c) =>
                 /\ queues[c].down = <<>> /\ Copied(c, server.pos)
                 /\ Bytes(c, server.block, server.pos)
                 /\ client[c].pos < Len(scene.content[c]) + BLOCKSIZE
                 /\ client[c].pos = server.pos + BLOCKSIZE + Offset(Under(c))
                 /\ \A j \in 1..Under(c) :
                       Bytes(c, queues[c].up[j], server.pos + BLOCKSIZE + Offset(j - 1))
                 /\ client[c].at \in {"exit", "success"} => client[c].pos >= Len(scene.content[c])
<1>1. ~Dead /\ Whole(c) /\ NetTyped /\ ~InBacklog(c) /\ Working
  BY DEF NetInv, NetShape, BacklogOnce, Serving, Dead, InBacklog, Working, Good
<1>2. client[c].at \in {"new", "path", "answer1", "size", "answer2", "data", "exit", "success"}
  BY <1>1 DEF NetTyped, NetClientOK, Net!Over
<1>3. client[c].at \in {"data", "exit", "success"}
  BY <1>1, <1>2 DEF Whole, Talks, Serving
<1>4. server.path = scene.path[c]
  BY <1>1 DEF Whole, Copies
<1>5. queues[c].up \in Seq(Wire) /\ Len(queues[c].up) \in Nat
  BY <1>1 DEF NetTyped, NetQueuesOK
<1>6. Under(c) \in Nat
  <2>1. CASE client[c].at = "data"
    BY <1>5, <2>1 DEF Under
  <2>2. CASE client[c].at # "data"
    <3>1. queues[c].up # <<>>
      BY <1>1, <1>3, <2>2 DEF Whole, Talks, Done, Serving
    <3>2. Len(queues[c].up) # 0
      BY <1>5, <3>1, EmptySeq
    <3>3. Len(queues[c].up) - 1 \in Nat
      BY <1>5, <3>2
    <3>. QED
      BY <2>2, <3>3 DEF Under
  <2>. QED
    BY <2>1, <2>2
<1>7. ASSUME Small(c)
      PROVE  /\ queues[c].down = <<>> /\ Copied(c, server.pos)
             /\ Bytes(c, server.block, server.pos)
             /\ client[c].pos < Len(scene.content[c]) + BLOCKSIZE
             /\ client[c].pos = server.pos + BLOCKSIZE + Offset(Under(c))
             /\ \A j \in 1..Under(c) :
                   Bytes(c, queues[c].up[j], server.pos + BLOCKSIZE + Offset(j - 1))
             /\ client[c].at \in {"exit", "success"} => client[c].pos >= Len(scene.content[c])
  <2>1. Beyond = 1
    BY DEF Beyond
  <2>2. /\ queues[c].down = <<>> /\ Copied(c, server.pos)
        /\ Bytes(c, server.block, server.pos)
        /\ client[c].pos < Len(scene.content[c]) + BLOCKSIZE
        /\ client[c].pos = server.pos + Offset(Under(c) + 1)
        /\ \A j \in 1..Under(c) : Bytes(c, queues[c].up[j], server.pos + Offset(j - 1 + 1))
        /\ client[c].at \in {"exit", "success"} => client[c].pos >= Len(scene.content[c])
    BY <1>1, <1>3, <1>7, <2>1 DEF Whole, Copies
  <2>3. server.pos \in Nat /\ BLOCKSIZE \in Nat
    BY <1>1 DEF NetTyped, NetServerOK, NetGiven
  <2>4. \A n \in Nat : server.pos + Offset(n + 1) = server.pos + BLOCKSIZE + Offset(n)
    <3>. SUFFICES ASSUME NEW n \in Nat
                  PROVE  server.pos + Offset(n + 1) = server.pos + BLOCKSIZE + Offset(n)
      OBVIOUS
    <3>1. Offset(n) \in Nat /\ Offset(n + 1) = Offset(n) + BLOCKSIZE
      BY OffsetNext
    <3>. QED
      BY <2>3, <3>1
  <2>5. ASSUME NEW j \in 1..Under(c)
        PROVE  Bytes(c, queues[c].up[j], server.pos + BLOCKSIZE + Offset(j - 1))
    <3>1. j - 1 \in Nat
      BY <1>6
    <3>2. server.pos + Offset(j - 1 + 1) = server.pos + BLOCKSIZE + Offset(j - 1)
      BY <2>4, <3>1
    <3>. QED
      BY <2>2, <3>2
  <2>. QED
    BY <1>6, <2>2, <2>4, <2>5
<1>. QED
  BY <1>3, <1>4, <1>6, <1>7

\* The server never writes behind the end of the file.
InFile ==
    /\ server.at \in {"path", "refuse", "answer1", "size", "refuse2", "answer2"} => server.pos = 0
    /\ server.at \in {"block", "write"} => server.pos <= Len(files[server.path])

LEMMA NetWriteBlock ==
    ASSUME NetGiven, NetInv, InFile, scene' = scene, Net!WriteBlock
    PROVE  NetInv'
<1>. PICK c \in Clients : c = server.conn
  BY DEF NetInv, NetShape, OwnFile, Net!WriteBlock, Net!At
<1>1. server.at = "write" /\ client' = client
  BY DEF Net!WriteBlock, Net!At
<1>2. NetTyped /\ Good(c) /\ Serving(c) /\ ~Dead /\ Working /\ scene.content[c] \in Seq(Nat)
  BY <1>1 DEF NetInv, NetShape, Serving, Dead, Working, Net!SceneType
<1>3. PICK p \in Clients : p = server.path /\ files[p] \in Seq(Nat)
  BY <1>2 DEF NetInv, NetShape, OwnFile
<1>4. server.pos \in Nat /\ server.block \in Blocks /\ BLOCKSIZE \in Nat \ {0}
      /\ server.pos <= Len(files[p])
  BY <1>1, <1>2, <1>3 DEF NetTyped, NetServerOK, NetGiven, InFile
<1>5. /\ ~queues[c].torn => Whole(c) /\ queues[c].up \in Seq(Blocks \cup {<<>>})
      /\ ~InBacklog(c) /\ scene.disk \in Nat
  BY <1>1, <1>2 DEF Good, Whole, Sent, NetInv, NetShape, BacklogOnce, InBacklog, Net!SceneType
<1>6. CASE /\ server.pos < scene.disk
           /\ files' = [files EXCEPT ![server.path] =
                                      Net!Stored(@, server.pos, Net!Fitting, server.block)]
           /\ server' = [Net!Main("block") EXCEPT !.pos = @ + Net!Fitting]
           /\ backlog' = backlog /\ queues' = queues
  <2>0. PICK m \in 1..BLOCKSIZE :
           m = Net!Fitting /\ (server.pos + BLOCKSIZE <= scene.disk => m = BLOCKSIZE)
    <3>1. CASE server.pos + BLOCKSIZE <= scene.disk
      BY <1>4, <3>1 DEF Net!Fitting
    <3>2. CASE ~(server.pos + BLOCKSIZE <= scene.disk)
      <4>1. scene.disk - server.pos \in 1..BLOCKSIZE
        BY <1>4, <1>5, <1>6, <3>2
      <4>. QED
        BY <3>2, <4>1 DEF Net!Fitting
    <3>. QED
      BY <3>1, <3>2
  <2>1. files' = [files EXCEPT ![p] = Net!Stored(files[p], server.pos, m, server.block)]
    BY <1>3, <1>6, <2>0
  <2>2. Net!Stored(files[p], server.pos, m, server.block) \in Seq(Nat)
    BY <1>3, <1>4, NetStored
  <2>3. /\ NetFilesOK' /\ files'[p] = Net!Stored(files[p], server.pos, m, server.block)
        /\ \A q \in Clients \ {p} : files'[q] = files[q]
    BY <1>2, <2>1, <2>2 DEF NetTyped, NetFilesOK
  <2>4. PICK n \in Nat : n = server.pos + m
    BY <1>4
  <2>5. server' = [server EXCEPT !.at = "block", !.pos = n]
    BY <1>2, <1>6, <2>0, <2>4 DEF Net!Main, NetTyped, NetServerOK
  <2>6. /\ NetServerOK' /\ server'.at = "block" /\ server'.conn = c /\ server'.path = p
        /\ server'.pos = n
    BY <1>2, <1>3, <2>5 DEF NetTyped, NetServerOK, Net!Steps
  <2>7. NetTyped' /\ OwnFile' /\ Working'
    BY <1>1, <1>2, <1>6, <2>2, <2>3, <2>6
       DEF NetTyped, NetClientOK, NetQueuesOK, OwnFile, Working
  <2>8. BacklogOnce' /\ \A d \in Clients \ {c} : Good(d)'
    BY <1>1, <1>2, <1>3, <1>6, <2>3, <2>6, NetOthers
  <2>9. Serving(c)' /\ ~Dead' /\ InBacklog(c)' = InBacklog(c) /\ queues' = queues
    BY <1>6, <2>6 DEF Serving, Dead, InBacklog
  <2>10. Good(c)'
    <3>. SUFFICES ASSUME ~queues[c].torn
                  PROVE  Whole(c)'
      BY <2>9 DEF Good
    <3>. Whole(c) /\ queues[c].up \in Seq(Blocks \cup {<<>>})
      BY <1>5
    <3>1. Sent(c)'
      BY <1>5, <2>6, <2>9 DEF Sent
    <3>2. CASE client[c].at = "failed"
      BY <1>1, <3>1, <3>2 DEF Whole, Talks, Copies
    <3>3. CASE client[c].at # "failed"
      <4>1. /\ client[c].at \in {"data", "exit", "success"} /\ server.path = scene.path[c]
            /\ Under(c) \in Nat
            /\ Small(c) =>
                  /\ queues[c].down = <<>> /\ Copied(c, server.pos)
                  /\ Bytes(c, server.block, server.pos)
                  /\ client[c].pos < Len(scene.content[c]) + BLOCKSIZE
                  /\ client[c].pos = server.pos + BLOCKSIZE + Offset(Under(c))
                  /\ \A j \in 1..Under(c) :
                        Bytes(c, queues[c].up[j], server.pos + BLOCKSIZE + Offset(j - 1))
                  /\ client[c].at \in {"exit", "success"} => client[c].pos >= Len(scene.content[c])
        BY <1>1, <1>2, <3>3, NetAtBlock
      <4>2. Talks(c)'
        BY <1>1, <1>2, <2>6, <2>9, <3>3, <4>1 DEF Whole, Talks, Quiet, Done
      <4>3. Small(c) => m = BLOCKSIZE /\ n = server.pos + BLOCKSIZE
        <5>. SUFFICES ASSUME Small(c) PROVE server.pos + BLOCKSIZE <= scene.disk
          BY <2>0, <2>4
        <5>1. Offset(Under(c)) \in Nat
          BY <4>1, OffsetNext
        <5>2. /\ Len(scene.content[c]) \in Nat /\ client[c].pos \in Nat
              /\ Len(scene.content[c]) + BLOCKSIZE <= scene.disk
          BY <1>2 DEF NetTyped, NetClientOK, Small
        <5>. DEFINE size == Len(scene.content[c])
                    o == Offset(Under(c))
        <5>3. /\ size \in Nat /\ o \in Nat /\ client[c].pos \in Nat
              /\ size + BLOCKSIZE <= scene.disk /\ client[c].pos < size + BLOCKSIZE
              /\ client[c].pos = server.pos + BLOCKSIZE + o
          BY <4>1, <5>1, <5>2
        <5>. HIDE DEF size, o
        <5>. QED
          BY <1>4, <1>5, <5>3
      <4>4. Small(c) => Copied(c, n)'
        BY <1>2, <1>3, <1>4, <2>3, <4>1, <4>3, NetCopiedMore
      <4>5. /\ Beyond' = 0 /\ Under(c)' = Under(c) /\ Small(c)' = Small(c) /\ ~Done(c)'
        BY <1>1, <1>2, <2>6, <2>9, <4>1 DEF Beyond, Under, Small, Whole, Talks, Quiet, Done
      <4>6. \A x, y : Bytes(c, x, y)' = Bytes(c, x, y)
        BY DEF Bytes
      <4>7. Under(c)' + Beyond' = Under(c) /\ \A j \in 1..Under(c) : j - 1 + Beyond' = j - 1
        BY <4>1, <4>5
      <4>8. Copies(c)'
        BY <1>1, <1>3, <2>6, <2>9, <4>1, <4>3, <4>4, <4>5, <4>6, <4>7 DEF Copies
      <4>. QED
        BY <3>1, <4>2, <4>8 DEF Whole
    <3>. QED
      BY <3>2, <3>3
  <2>. QED
    BY <2>7, <2>8, <2>10 DEF NetInv, NetShape
<1>7. CASE server.pos >= scene.disk /\ Net!Answer("ERR", Net!Main("block")) /\ files' = files
  <2>1. CASE Net!Dies
    BY <1>1, <1>7, <2>1, NetDead
  <2>2. CASE ~Net!Dies
    <3>1. /\ NetQueuesOK' /\ server' = Net!Main("block") /\ backlog' = backlog
          /\ \A d \in Clients \ {c} : queues'[d] = queues[d]
          /\ queues'[c].up = queues[c].up /\ queues'[c].closed = queues[c].closed
          /\ Net!Gone(c) \/ queues'[c].rst = queues[c].rst
          /\ queues'[c].torn = queues[c].torn
      BY <1>2, <1>7, <2>2, NetAnswer DEF NetTyped, NetGiven
    <3>2. /\ NetServerOK' /\ server'.at = "block" /\ server'.conn = c
          /\ server'.path = server.path /\ server'.pos = server.pos
      BY <1>2, <3>1, NetMain DEF NetTyped, Net!Steps
    <3>3. NetTyped' /\ OwnFile' /\ Working'
      BY <1>1, <1>2, <1>3, <1>7, <3>1, <3>2 DEF NetTyped, NetClientOK, NetFilesOK, OwnFile, Working
    <3>4. BacklogOnce' /\ \A d \in Clients \ {c} : Good(d)'
      BY <1>1, <1>2, <1>7, <3>1, <3>2, NetOthers
    <3>5. Serving(c)' /\ ~Dead' /\ InBacklog(c)' = InBacklog(c)
      BY <3>1, <3>2 DEF Serving, Dead, InBacklog
    <3>6. Good(c)'
      <4>. SUFFICES ASSUME ~queues[c].torn
                    PROVE  Whole(c)'
        BY <3>1 DEF Good
      <4>. Whole(c) /\ queues[c].up \in Seq(Blocks \cup {<<>>})
        BY <1>5
      <4>1. Sent(c)'
        BY <1>5, <3>1, <3>2, <3>5 DEF Sent
      <4>2. CASE client[c].at = "failed"
        BY <1>1, <4>1, <4>2 DEF Whole, Talks, Copies
      <4>3. CASE client[c].at # "failed"
        <5>1. /\ client[c].at \in {"data", "exit", "success"} /\ server.path = scene.path[c]
              /\ Small(c) => /\ client[c].pos < Len(scene.content[c]) + BLOCKSIZE
                             /\ client[c].pos = server.pos + BLOCKSIZE + Offset(Under(c))
              /\ Under(c) \in Nat
          BY <1>1, <1>2, <4>3, NetAtBlock
        <5>2. ~Small(c)
          <6>. SUFFICES ASSUME Small(c) PROVE FALSE
            OBVIOUS
          <6>1. Offset(Under(c)) \in Nat
            BY <5>1, OffsetNext
          <6>2. /\ Len(scene.content[c]) \in Nat /\ client[c].pos \in Nat
                /\ Len(scene.content[c]) + BLOCKSIZE <= scene.disk
            BY <1>2 DEF NetTyped, NetClientOK, Small
          <6>. DEFINE size == Len(scene.content[c])
                      o == Offset(Under(c))
          <6>3. /\ size \in Nat /\ o \in Nat /\ client[c].pos \in Nat
                /\ size + BLOCKSIZE <= scene.disk /\ client[c].pos < size + BLOCKSIZE
                /\ client[c].pos = server.pos + BLOCKSIZE + o /\ server.pos >= scene.disk
            BY <1>7, <5>1, <6>1, <6>2
          <6>. HIDE DEF size, o
          <6>. QED
            BY <1>4, <1>5, <6>3
        <5>3. client[c].at = "data" => queues'[c].rst = queues[c].rst
          BY <3>1 DEF Net!Gone, Net!Over
        <5>4. Talks(c)'
          BY <1>1, <1>2, <3>1, <3>2, <3>5, <5>1, <5>3 DEF Whole, Talks, Quiet, Done
        <5>5. ~Small(c)'
          BY <5>2 DEF Small
        <5>6. Copies(c)'
          BY <1>1, <3>2, <3>5, <5>1, <5>5 DEF Copies
        <5>. QED
          BY <4>1, <5>4, <5>6 DEF Whole
      <4>. QED
        BY <4>2, <4>3
    <3>. QED
      BY <3>3, <3>4, <3>6 DEF NetInv, NetShape
  <2>. QED
    BY <2>1, <2>2
<1>. QED
  BY <1>6, <1>7 DEF Net!WriteBlock, Net!ERR

LEMMA NetInFile ==
    ASSUME NetGiven, NetInv, InFile, Net!Serve
    PROVE  InFile'
<1>. NetServerOK /\ NetQueuesOK /\ NetFilesOK /\ Room \in Nat /\ OwnFile
  BY DEF NetInv, NetShape, NetTyped, NetGiven
<1>1. CASE Net!Dies
  BY <1>1, NetDies DEF InFile
<1>2. CASE Net!Accept /\ ~Net!Dies
  <2>1. server' = [Net!Main("path") EXCEPT !.conn = Head(backlog), !.pos = 0]
    BY <1>2 DEF Net!Accept
  <2>2. server'.at = "path" /\ server'.pos = 0
    BY <2>1 DEF Net!Main, NetServerOK
  <2>. QED
    BY <2>2 DEF InFile
<1>3. CASE Net!ReadPath
  <2>1. server.at = "path"
    BY <1>3 DEF Net!ReadPath, Net!At
  <2>2. \E p : Net!Open(p)
    BY <1>3 DEF Net!ReadPath, Net!up
  <2>3. server'.pos = server.pos /\ server'.at \in {"answer1", "refuse"}
    BY <2>2 DEF Net!Open, Net!Main, NetServerOK
  <2>. QED
    BY <2>1, <2>3 DEF InFile
<1>5. CASE Net!Refuse /\ ~Net!Dies
  <2>1. PICK n \in {1, 2} : server' = [Net!Main("accept") EXCEPT !.open = @ + n]
    BY <1>5 DEF Net!Refuse, Net!Answer
  <2>2. server'.at = "accept"
    BY <2>1 DEF Net!Main, NetServerOK
  <2>. QED
    BY <2>2 DEF InFile
<1>6. CASE Net!Answers /\ ~Net!Dies
  <2>1. files' = files /\ server.at \in {"answer1", "answer2"}
    BY <1>6 DEF Net!Answers, Net!At
  <2>2. PICK s \in {"size", "block"} : server' = Net!Main(s)
    BY <1>6 DEF Net!Answers, Net!Answer
  <2>3. server'.at = s /\ server'.pos = server.pos /\ server'.path = server.path
    BY <2>2, NetMain DEF Net!Steps
  <2>4. files[server.path] \in Seq(Nat) /\ server.pos = 0
    BY <2>1 DEF OwnFile, Working, InFile
  <2>5. 0 <= Len(files[server.path])
    BY <2>4
  <2>. QED
    BY <2>1, <2>3, <2>4, <2>5 DEF InFile
<1>7. CASE Net!ReadSize /\ ~Net!Dies
  <2>1. server.at = "size"
    BY <1>7 DEF Net!ReadSize, Net!At
  <2>3. PICK n : Net!Ftruncate(n)
    BY <1>7 DEF Net!ReadSize, Net!up
  <2>4. CASE n >= 0
    <3>1. /\ files' = [files EXCEPT ![server.path] = [i \in 1..n |-> 0]]
          /\ server' = [Net!Main("answer2") EXCEPT !.size = n]
      BY <2>3, <2>4 DEF Net!Ftruncate
    <3>2. server'.at = "answer2" /\ server'.pos = server.pos
      BY <3>1 DEF Net!Main, NetServerOK
    <3>. QED
      BY <2>1, <3>2 DEF InFile
  <2>5. CASE ~(n >= 0)
    <3>1. server' = [Net!Main("refuse2") EXCEPT !.size = n]
      BY <2>3, <2>5 DEF Net!Ftruncate
    <3>2. server'.at = "refuse2" /\ server'.pos = server.pos
      BY <3>1 DEF Net!Main, NetServerOK
    <3>. QED
      BY <2>1, <3>2 DEF InFile
  <2>. QED
    BY <2>4, <2>5
<1>8. CASE Net!ReadBlock
  <2>1. server.at = "block" /\ files' = files
    BY <1>8 DEF Net!ReadBlock, Net!At
  <2>2. server'.pos = server.pos /\ server'.path = server.path /\ server'.at \in {"close", "write"}
    BY <1>8 DEF Net!ReadBlock, Net!Main, NetServerOK
  <2>. QED
    BY <2>1, <2>2 DEF InFile
<1>9. CASE Net!WriteBlock /\ ~Net!Dies
  <2>1. server.at = "write" /\ server.path \in Clients /\ files[server.path] \in Seq(Nat)
        /\ server.pos \in Nat /\ server.pos <= Len(files[server.path]) /\ server.block \in Blocks
    BY <1>9 DEF Net!WriteBlock, Net!At, OwnFile, Working, InFile, NetServerOK
  <2>2. CASE /\ files' = [files EXCEPT ![server.path] =
                                       Net!Stored(@, server.pos, Net!Fitting, server.block)]
             /\ server' = [Net!Main("block") EXCEPT !.pos = @ + Net!Fitting]
             /\ server.pos < scene.disk
    <3>0. Net!Fitting \in 1..BLOCKSIZE
      <4>1. BLOCKSIZE \in Nat \ {0} /\ scene.disk \in Nat
        BY DEF NetInv, NetGiven, Net!SceneType
      <4>2. CASE server.pos + BLOCKSIZE <= scene.disk
        BY <4>1, <4>2 DEF Net!Fitting
      <4>3. CASE ~(server.pos + BLOCKSIZE <= scene.disk)
        <5>1. scene.disk - server.pos \in 1..BLOCKSIZE
          BY <2>1, <2>2, <4>1, <4>3
        <5>. QED
          BY <4>3, <5>1 DEF Net!Fitting
      <4>. QED
        BY <4>2, <4>3
    <3>1. files'[server.path] = Net!Stored(files[server.path], server.pos, Net!Fitting, server.block)
      BY <2>1, <2>2 DEF NetFilesOK
    <3>2. server.pos + Net!Fitting
             <= Len(Net!Stored(files[server.path], server.pos, Net!Fitting, server.block))
      BY <2>1, <3>0, NetStored DEF NetGiven
    <3>3. /\ server'.at = "block" /\ server'.path = server.path
          /\ server'.pos = server.pos + Net!Fitting
      BY <2>2 DEF Net!Main, NetServerOK
    <3>. QED
      BY <3>1, <3>2, <3>3 DEF InFile
  <2>3. CASE files' = files /\ server' = Net!Main("block")
    <3>1. server'.at = "block" /\ server'.path = server.path /\ server'.pos = server.pos
      BY <2>3, NetMain DEF Net!Steps
    <3>. QED
      BY <2>1, <2>3, <3>1 DEF InFile
  <2>. QED
    BY <1>9, <2>2, <2>3 DEF Net!WriteBlock, Net!Answer
<1>10. CASE Net!Close
  <2>1. server' = [Net!Main("accept") EXCEPT !.conn = None]
    BY <1>10 DEF Net!Close
  <2>2. server'.at = "accept"
    BY <2>1 DEF Net!Main, NetServerOK
  <2>. QED
    BY <2>2 DEF InFile
<1>. QED
  BY <1>1, <1>2, <1>3, <1>5, <1>6, <1>7, <1>8, <1>9, <1>10 DEF Net!Serve

\* Nobody waits any more for a server that is dead.
Alone == Dead => backlog = <<>>

\* What a client does concerns its own connection only.
LEMMA NetClient ==
    ASSUME NetGiven, NetInv, NEW c \in Clients, scene' = scene, server' = server, files' = files,
           backlog' = backlog, NetClientOK', NetQueuesOK',
           \A d \in Clients \ {c} : queues'[d] = queues[d] /\ client'[d] = client[d],
           client'[c].at # "new", Good(c)'
    PROVE  NetInv'
<1>1. NetTyped' /\ OwnFile'
  BY DEF NetInv, NetShape, NetTyped, NetServerOK, NetFilesOK, OwnFile, Working
<1>2. BacklogOnce'
  <2>1. \A i \in 1..Len(backlog) : backlog[i] \in Clients
    BY DEF NetInv, NetShape, NetTyped
  <2>2. \A i \in 1..Len(backlog) : client'[backlog[i]].at # "new"
    BY <2>1 DEF NetInv, NetShape, BacklogOnce
  <2>. QED
    BY <2>2 DEF NetInv, NetShape, BacklogOnce
<1>3. \A d \in Clients \ {c} : Good(d)'
  <2>. SUFFICES ASSUME NEW d \in Clients \ {c} PROVE Good(d)'
    OBVIOUS
  <2>1. InBacklog(d)' = InBacklog(d) /\ Good(d) /\ queues'[d] = queues[d] /\ client'[d] = client[d]
    BY DEF InBacklog, NetInv
  <2>. QED
    BY <2>1, NetStill
<1>. QED
  BY <1>1, <1>2, <1>3 DEF NetInv, NetShape

\* A client that has failed says nothing any more.
LEMMA NetFailed ==
    ASSUME NetGiven, NetInv, NEW c \in Clients, scene' = scene, server' = server, files' = files,
           backlog' = backlog, NetClientOK', NetQueuesOK',
           \A d \in Clients \ {c} : queues'[d] = queues[d] /\ client'[d] = client[d],
           client'[c].at = "failed", queues'[c].up = queues[c].up,
           queues[c].torn => queues'[c].torn
    PROVE  NetInv'
<1>1. ~queues'[c].torn => Sent(c)'
  BY DEF NetInv, Good, Whole, Sent, Serving, InBacklog
<1>2. Good(c)'
  BY <1>1 DEF Good, Whole, Talks, Copies
<1>. QED
  BY <1>2, NetClient

LEMMA NetEndsFailed ==
    ASSUME NetGiven, NetInv, NEW c \in Clients, scene' = scene, server' = server, files' = files,
           backlog' = backlog, Net!Ends(c, "failed")
    PROVE  NetInv'
<1>1. NetClientOK /\ NetQueuesOK /\ "failed" \in Net!Over
  BY DEF NetInv, NetShape, NetTyped, Net!Over
<1>. QED
  BY <1>1, NetEnds, NetFailed

\* Without a server anything may be sent.
LEMMA NetToNobody ==
    ASSUME NetGiven, NetInv, Alone, Dead, NEW c \in Clients, scene' = scene, server' = server,
           files' = files, backlog' = backlog, NetClientOK', NetQueuesOK',
           \A d \in Clients \ {c} : queues'[d] = queues[d] /\ client'[d] = client[d],
           client'[c].at # "new"
    PROVE  NetInv'
<1>1. ~Serving(c)' /\ ~InBacklog(c)' /\ Dead'
  BY DEF Alone, Dead, Serving, InBacklog
<1>2. Good(c)'
  BY <1>1 DEF Good, Whole, Sent, Talks, Copies
<1>. QED
  BY <1>2, NetClient

LEMMA NetConnect ==
    ASSUME NetGiven, NetInv, NEW c \in Clients, scene' = scene, Net!Connect(c)
    PROVE  NetInv'
<1>1. client[c].at = "new" /\ server' = server /\ files' = files /\ queues' = queues
  BY DEF Net!Connect, Net!Client
<1>2. NetTyped /\ Good(c) /\ NetClientOK /\ NetQueuesOK /\ NetQueuesOK'
  BY <1>1 DEF NetInv, NetShape, NetTyped, NetQueuesOK
<1>3. CASE Net!At("dead")
  <2>1. client' = [client EXCEPT ![c].at = "failed"] /\ backlog' = backlog
    BY <1>3 DEF Net!Connect
  <2>2. NetClientOK' /\ client'[c].at = "failed" /\ \A d \in Clients \ {c} : client'[d] = client[d]
    BY <1>2, <2>1, NetAt DEF Net!Over
  <2>. QED
    BY <1>1, <1>2, <2>1, <2>2, NetFailed
<1>4. CASE ~Net!At("dead")
  <2>1. client' = [client EXCEPT ![c].at = "path"] /\ backlog' = Append(backlog, c)
    BY <1>4 DEF Net!Connect
  <2>2. /\ NetClientOK' /\ client'[c].at = "path" /\ client'[c].pos = client[c].pos
        /\ \A d \in Clients \ {c} : client'[d] = client[d]
    BY <1>2, <2>1, NetAt DEF Net!Over
  <2>3. backlog \in Seq(Clients)
    BY <1>2 DEF NetTyped
  <2>4. /\ backlog' \in Seq(Clients) /\ Len(backlog') = Len(backlog) + 1 /\ Len(backlog) \in Nat
        /\ \A i \in 1..Len(backlog) : backlog'[i] = backlog[i] /\ backlog[i] \in Clients
        /\ backlog'[Len(backlog) + 1] = c
    BY <2>1, <2>3, AppendProperties
  <2>5. \A i \in 1..Len(backlog') : i \in 1..Len(backlog) \/ i = Len(backlog) + 1
    BY <2>4
  <2>0. ~queues[c].torn /\ Whole(c)
    BY <1>1 DEF NetInv, NetShape, BacklogOnce, Good
  <2>6. ~Dead /\ Idle(c) /\ Quiet(c) /\ server.conn # c /\ ~Serving(c) /\ client[c].pos = 0
    BY <1>1, <1>2, <1>4, <2>0 DEF Dead, Net!At, Whole, Talks, Serving, Copies
  <2>7. \A i \in 1..Len(backlog) : backlog[i] # c
    BY <1>1 DEF NetInv, NetShape, BacklogOnce
  <2>8. NetTyped' /\ OwnFile'
    BY <1>1, <1>2, <2>2, <2>4 DEF NetInv, NetShape, NetTyped, NetServerOK, NetFilesOK, OwnFile, Working
  <2>9. BacklogOnce'
    <3>1. ASSUME NEW i \in 1..Len(backlog'), NEW j \in 1..Len(backlog'), backlog'[i] = backlog'[j]
          PROVE  i = j
      <4>1. CASE i \in 1..Len(backlog) /\ j \in 1..Len(backlog)
        BY <2>4, <3>1, <4>1 DEF NetInv, NetShape, BacklogOnce
      <4>. QED
        BY <2>4, <2>5, <2>7, <3>1, <4>1
    <3>2. ASSUME NEW i \in 1..Len(backlog')
          PROVE  client'[backlog'[i]].at # "new" /\ server.conn # backlog'[i]
      <4>1. CASE i \in 1..Len(backlog)
        BY <2>2, <2>4, <2>7, <4>1 DEF NetInv, NetShape, BacklogOnce
      <4>2. CASE i = Len(backlog) + 1
        BY <2>2, <2>4, <2>6, <4>2
      <4>. QED
        BY <2>5, <4>1, <4>2
    <3>3. ASSUME NEW d \in Clients, queues[d].torn
          PROVE  client'[d].at # "new"
      BY <2>2, <3>3 DEF NetInv, NetShape, BacklogOnce
    <3>. QED
      BY <1>1, <3>1, <3>2, <3>3 DEF BacklogOnce
  <2>10. ASSUME NEW d \in Clients \ {c} PROVE Good(d)'
    <3>1. InBacklog(d)' = InBacklog(d)
      <4>1. InBacklog(d) => InBacklog(d)'
        <5>. SUFFICES ASSUME NEW i \in 1..Len(backlog), backlog[i] = d PROVE InBacklog(d)'
          BY DEF InBacklog
        <5>1. i \in 1..Len(backlog') /\ backlog'[i] = d
          BY <2>4
        <5>. QED
          BY <5>1 DEF InBacklog
      <4>2. InBacklog(d)' => InBacklog(d)
        BY <2>4, <2>5, <2>10 DEF InBacklog
      <4>. QED
        BY <4>1, <4>2 DEF InBacklog
    <3>2. Good(d) /\ queues'[d] = queues[d] /\ client'[d] = client[d]
      BY <1>1, <2>2 DEF NetInv
    <3>. QED
      BY <1>1, <3>1, <3>2, NetStill
  <2>11. InBacklog(c)' /\ ~Serving(c)' /\ ~Dead'
    <3>1. Len(backlog) + 1 \in 1..Len(backlog')
      BY <2>4
    <3>. QED
      BY <1>1, <2>4, <2>6, <3>1 DEF InBacklog, Serving, Dead
  <2>12. Good(c)'
    BY <1>1, <2>2, <2>6, <2>11 DEF Good, Whole, Sent, Talks, Copies, Idle, Quiet, Done
  <2>. QED
    BY <2>8, <2>9, <2>10, <2>12 DEF NetInv, NetShape
<1>. QED
  BY <1>3, <1>4

\* The block a client sends next.
LEMMA NetFilled ==
    ASSUME NetGiven, NetInv, NEW c \in Clients
    PROVE  Net!Filled(c) \in Blocks /\ Bytes(c, Net!Filled(c), client[c].pos)
<1>. DEFINE s == scene.content[c]
            p == client[c].pos
            b == client[c].buf
            h(i) == IF i <= Len(s) - p THEN s[p + i] ELSE b[i]
<1>1. s \in Seq(Nat) /\ Len(s) \in Nat /\ p \in Nat /\ b \in Blocks
  BY DEF NetInv, Net!SceneType, NetShape, NetTyped, NetClientOK
<1>2. Net!Filled(c) = [i \in 1..BLOCKSIZE |-> h(i)]
  BY DEF Net!Filled
<1>3. \A x, y : Bytes(c, x, y) = \A i \in 1..BLOCKSIZE : y + i <= Len(s) => x[i] = s[y + i]
  BY DEF Bytes
<1>. HIDE DEF s, p, b
<1>4. ASSUME NEW i \in 1..BLOCKSIZE PROVE h(i) \in Nat
  <2>1. CASE i <= Len(s) - p
    <3>1. p + i \in 1..Len(s)
      BY <1>1, <2>1
    <3>. QED
      BY <1>1, <2>1, <3>1
  <2>2. CASE ~(i <= Len(s) - p)
    BY <1>1, <2>2 DEF Blocks
  <2>. QED
    BY <2>1, <2>2
<1>5. ASSUME NEW i \in 1..BLOCKSIZE, p + i <= Len(s) PROVE h(i) = s[p + i]
  <2>1. i <= Len(s) - p
    BY <1>1, <1>5
  <2>. QED
    BY <2>1
<1>. HIDE DEF h
<1>6. Net!Filled(c) \in Blocks
  BY <1>2, <1>4 DEF Blocks
<1>7. Bytes(c, Net!Filled(c), p)
  BY <1>2, <1>3, <1>5
<1>. QED
  BY <1>6, <1>7 DEF p

\* The path, the length and the end: what is sent is all that is under way.
LEMMA NetTells ==
    ASSUME NetGiven, NetInv, NEW c \in Clients, scene' = scene, server' = server, files' = files,
           backlog' = backlog, ~Dead, ~queues[c].torn,
           \/ client[c].at = "path" /\ Net!Send(c, scene.path[c], [client[c] EXCEPT !.at = "answer1"])
           \/ /\ client[c].at = "size"
              /\ Net!Send(c, Len(scene.content[c]), [client[c] EXCEPT !.at = "answer2"])
    PROVE  NetInv'
<1>1. Whole(c) /\ Quiet(c) /\ Idle(c) /\ NetClientOK /\ NetQueuesOK /\ Room \in Nat /\ client[c].pos = 0
  BY DEF NetInv, Good, Whole, Talks, Copies, NetShape, NetTyped, NetGiven
<1>2. scene.path[c] \in Wire /\ Len(scene.content[c]) \in Wire
  <2>1. scene.path[c] \in Clients /\ scene.content[c] \in Seq(Nat)
    BY DEF NetInv, Net!SceneType
  <2>2. Len(scene.content[c]) \in Nat
    BY <2>1
  <2>. QED
    BY <2>1, <2>2 DEF Wire
<1>3. PICK v \in Wire, s \in {"answer1", "answer2"} :
        /\ Net!Send(c, v, [client[c] EXCEPT !.at = s])
        /\ s = "answer1" => client[c].at = "path" /\ v = scene.path[c]
        /\ s = "answer2" => client[c].at = "size" /\ v = Len(scene.content[c])
  BY <1>2
<1>4. /\ NetQueuesOK' /\ \A d \in Clients \ {c} : queues'[d] = queues[d]
      /\ client' = [client EXCEPT ![c] = [client[c] EXCEPT !.at = s]]
      /\ queues'[c].closed = queues[c].closed /\ queues'[c].down = queues[c].down
      /\ queues'[c].up = Append(queues[c].up, v) /\ queues'[c].rst = queues[c].rst
  BY <1>1, <1>3, NetSend DEF Quiet
<1>5. queues'[c].up = <<v>>
  BY <1>1, <1>4 DEF Idle
<1>6. client' = [client EXCEPT ![c].at = s]
  BY <1>1, <1>4 DEF NetClientOK
<1>7. /\ NetClientOK' /\ \A d \in Clients \ {c} : client'[d] = client[d]
      /\ client'[c].at = s /\ client'[c].pos = client[c].pos
  BY <1>1, <1>6, NetAt
<1>8. InBacklog(c)' = InBacklog(c) /\ Serving(c)' = Serving(c) /\ Dead' = Dead
  BY DEF InBacklog, Serving, Dead
<1>9. queues'[c].down = <<>> /\ queues'[c].rst = queues[c].rst /\ queues'[c].closed = queues[c].closed
  BY <1>1, <1>4 DEF Idle
<1>10. s = "answer1" => InBacklog(c) \/ (Serving(c) /\ server.at = "path")
  BY <1>1, <1>3 DEF Whole, Talks
<1>11. s = "answer2" => Serving(c) /\ server.at = "size" /\ ~InBacklog(c)
  BY <1>1, <1>3 DEF Whole, Talks, NetInv, NetShape, BacklogOnce, InBacklog, Serving
<1>12. ~(InBacklog(c) /\ Serving(c))
  BY DEF NetInv, NetShape, BacklogOnce, InBacklog, Serving
<1>13. Sent(c)'
  BY <1>3, <1>5, <1>8, <1>10, <1>11, <1>12 DEF Sent
<1>14. Talks(c)'
  BY <1>1, <1>3, <1>5, <1>7, <1>8, <1>9, <1>10, <1>11 DEF Talks, Quiet
<1>15. Copies(c)'
  <2>1. /\ Working' = Working /\ Small(c)' = Small(c) /\ ~Done(c)' /\ ~Done(c)
        /\ \A n : Copied(c, n)' = Copied(c, n)
    BY <1>1, <1>3, <1>7 DEF Working, Small, Done, Copied
  <2>2. ~(Serving(c) /\ server.at \in {"block", "write", "close"})
    BY <1>3, <1>10, <1>11, <1>12 DEF Serving
  <2>3. client[c].at \in {"path", "size"} /\ client'[c].at \in {"answer1", "answer2"}
    BY <1>3, <1>7
  <2>. QED
    BY <1>1, <1>7, <1>8, <2>1, <2>2, <2>3 DEF Whole, Copies
<1>. QED
  BY <1>4, <1>7, <1>13, <1>14, <1>15, NetClient DEF Good, Whole

\* The answer to the path or to the length.
LEMMA NetHears ==
    ASSUME NetGiven, NetInv, NEW c \in Clients, scene' = scene, server' = server, files' = files,
           backlog' = backlog, ~Dead, ~queues[c].torn, ~queues'[c].torn,
           Net!Hear(c, "answer1", "size") \/ Net!Hear(c, "answer2", "data")
    PROVE  NetInv'
<1>. PICK to \in {"size", "data"}, from \in {"answer1", "answer2"} :
        Net!Hear(c, from, to) /\ (from = "answer1" <=> to = "size")
  OBVIOUS
<1>1. /\ client[c].at = from /\ Whole(c) /\ Quiet(c) /\ NetClientOK /\ NetQueuesOK
      /\ Room \in Nat /\ client[c].pos = 0
  BY DEF NetInv, Good, Whole, Talks, Copies, NetShape, NetTyped, NetGiven, Net!Hear, Net!Client
<1>0. ~ \E l \in Net!Left(queues[c].down, queues[c].torn) :
         queues' = [queues EXCEPT ![c].down = l, ![c].torn = TRUE]
  BY <1>1, NetHeardPart
<1>2. /\ queues[c].down # <<>> /\ queues' = [queues EXCEPT ![c].down = Tail(queues[c].down)]
      /\ client' = [client EXCEPT ![c].at = IF Head(queues[c].down) = "OK" THEN to ELSE "failed"]
  BY <1>0, <1>1 DEF Net!Hear, Quiet, Net!OK
<1>3. queues[c].up = <<>> /\ queues[c].down \in {<<"OK">>, <<"ERR">>}
  BY <1>1, <1>2 DEF Whole, Talks, Idle
<1>4. Tail(queues[c].down) = <<>> /\ <<>> \in Seq({"OK", "ERR"}) /\ Len(<<>>) <= Room
  <2>1. Tail(<<"OK">>) = <<>> /\ Tail(<<"ERR">>) = <<>>
    OBVIOUS
  <2>2. <<>> \in Seq({"OK", "ERR"}) /\ Len(<<>>) = 0
    OBVIOUS
  <2>3. Tail(queues[c].down) = <<>>
    BY <1>3, <2>1
  <2>4. Len(<<>>) <= Room
    BY <1>1, <2>2
  <2>. QED
    BY <2>2, <2>3, <2>4
<1>5. queues' = [queues EXCEPT ![c].down = <<>>]
  BY <1>2, <1>4
<1>6. /\ NetQueuesOK' /\ \A d \in Clients \ {c} : queues'[d] = queues[d]
      /\ queues'[c].down = <<>> /\ queues'[c].up = queues[c].up
      /\ queues'[c].rst = queues[c].rst /\ queues'[c].closed = queues[c].closed
  BY <1>1, <1>4, <1>5, NetDown
<1>7. CASE queues[c].down = <<"ERR">>
  <2>1. client' = [client EXCEPT ![c].at = "failed"]
    BY <1>2, <1>7
  <2>2. NetClientOK' /\ client'[c].at = "failed" /\ \A d \in Clients \ {c} : client'[d] = client[d]
    BY <1>1, <2>1, NetAt DEF Net!Over
  <2>. QED
    BY <1>6, <2>2, NetFailed
<1>8. CASE queues[c].down = <<"OK">>
  <2>1. client' = [client EXCEPT ![c].at = to]
    BY <1>2, <1>8
  <2>2. /\ NetClientOK' /\ client'[c].at = to /\ client'[c].pos = client[c].pos
        /\ \A d \in Clients \ {c} : client'[d] = client[d]
    BY <1>1, <2>1, NetAt
  <2>3. Serving(c) /\ server.at = (IF to = "size" THEN "size" ELSE "block")
    BY <1>1, <1>8 DEF Whole, Talks, Idle
  <2>4. /\ InBacklog(c)' = InBacklog(c) /\ Serving(c)' = Serving(c) /\ Dead' = Dead /\ ~InBacklog(c)
    BY <2>3 DEF InBacklog, Serving, Dead, NetInv, NetShape, BacklogOnce
  <2>5. Sent(c)'
    BY <1>1, <1>6, <2>4 DEF Whole, Sent
  <2>6. Talks(c)'
    <3>1. <<>> \in Seq(Blocks)
      OBVIOUS
    <3>. QED
      BY <1>1, <1>3, <1>6, <2>2, <2>3, <2>4, <3>1 DEF Talks, Quiet, Idle
  <2>7. /\ server.path = scene.path[c]
        /\ to = "data" => server.pos = 0 /\ Copied(c, 0)
    BY <1>1, <2>3 DEF Whole, Copies, Dead, Working
  <2>8. ASSUME to = "size" PROVE Copies(c)'
    BY <1>1, <1>6, <2>2, <2>3, <2>4, <2>7, <2>8 DEF Whole, Copies, Quiet, Done
  <2>9. CASE to = "data"
    <3>1. Under(c)' = 0 /\ Beyond' = 0
      BY <1>3, <1>6, <2>2, <2>3, <2>9 DEF Under, Beyond
    <3>2. Under(c)' + Beyond' = 0
      BY <3>1
    <3>3. Offset(0) = 0 /\ BLOCKSIZE \in Nat /\ BLOCKSIZE > 0 /\ Len(scene.content[c]) \in Nat
      <4>1. scene.content[c] \in Seq(Nat)
        BY DEF NetInv, Net!SceneType
      <4>2. Len(scene.content[c]) \in Nat
        BY <4>1
      <4>3. Offset(0) = 0
        BY OffsetNext
      <4>. QED
        BY <4>2, <4>3 DEF NetGiven
    <3>4. 0 < Len(scene.content[c]) + BLOCKSIZE /\ 0 = 0 + Offset(0)
      BY <3>3
    <3>5. Copied(c, server.pos)' /\ server.pos = 0
      BY <2>7, <2>9 DEF Copied
    <3>6. Copies(c)'
      BY <1>1, <1>6, <2>2, <2>3, <2>4, <2>7, <2>9, <3>1, <3>2, <3>4, <3>5 DEF Copies, Quiet, Done
    <3>. QED
      BY <1>6, <2>2, <2>5, <2>6, <3>6, NetClient DEF Good, Whole
  <2>. QED
    BY <1>6, <2>2, <2>5, <2>6, <2>8, <2>9, NetClient DEF Good, Whole
<1>. QED
  BY <1>3, <1>7, <1>8

\* The next block, or the end after the last one.
LEMMA NetSends ==
    ASSUME NetGiven, NetInv, NEW c \in Clients, scene' = scene, server' = server, files' = files,
           backlog' = backlog, ~Dead, ~queues[c].torn, client[c].at = "data",
           \/ /\ client[c].pos < Len(scene.content[c])
              /\ Net!Send(c, Net!Filled(c),
                          [client[c] EXCEPT !.pos = @ + BLOCKSIZE, !.buf = Net!Filled(c)])
           \/ /\ client[c].pos >= Len(scene.content[c])
              /\ Net!Send(c, <<>>, [client[c] EXCEPT !.at = "exit"])
    PROVE  NetInv'
<1>. DEFINE size == Len(scene.content[c])
            u == queues[c].up
            more == client[c].pos < size
<1>1. /\ Whole(c) /\ Quiet(c) /\ NetClientOK /\ NetQueuesOK /\ Room \in Nat
      /\ Serving(c) /\ server.at \in {"block", "write"} /\ u \in Seq(Blocks)
  BY DEF NetInv, Good, Whole, Talks, NetShape, NetTyped, NetGiven
<1>2. /\ size \in Nat /\ client[c].pos \in Nat /\ BLOCKSIZE \in Nat /\ BLOCKSIZE > 0
      /\ server.pos \in Nat /\ Len(u) \in Nat
  <2>1. scene.content[c] \in Seq(Nat)
    BY DEF NetInv, Net!SceneType
  <2>2. size \in Nat /\ Len(u) \in Nat
    BY <1>1, <2>1
  <2>. QED
    BY <1>1, <2>2 DEF NetGiven, NetClientOK, NetInv, NetShape, NetTyped, NetServerOK
<1>3. Net!Filled(c) \in Blocks /\ Bytes(c, Net!Filled(c), client[c].pos)
  BY NetFilled
<1>4. PICK n \in Nat : n = client[c].pos + BLOCKSIZE
  BY <1>2
<1>5. PICK v \in Blocks \cup {<<>>} : /\ more => v = Net!Filled(c)
                                      /\ ~more => v = <<>>
  BY <1>3
<1>6. v \in Wire
  <2>1. <<>> \in Seq(Nat)
    OBVIOUS
  <2>2. \A b \in Blocks : b \in Seq(Nat)
    BY <1>2 DEF Blocks
  <2>. QED
    BY <1>5, <2>1, <2>2 DEF Wire
<1>7. PICK s : /\ Net!Send(c, v, s)
               /\ more => s = [client[c] EXCEPT !.pos = n, !.buf = Net!Filled(c)]
               /\ ~more => s = [client[c] EXCEPT !.at = "exit"]
  <2>1. CASE more
    <3>1. Net!Send(c, Net!Filled(c), [client[c] EXCEPT !.pos = @ + BLOCKSIZE, !.buf = Net!Filled(c)])
      BY <1>2, <2>1
    <3>2. [client[c] EXCEPT !.pos = @ + BLOCKSIZE, !.buf = Net!Filled(c)]
            = [client[c] EXCEPT !.pos = n, !.buf = Net!Filled(c)]
      BY <1>4
    <3>. QED
      BY <1>5, <2>1, <3>1, <3>2
  <2>2. CASE ~more
    BY <1>2, <1>5, <2>2
  <2>. QED
    BY <2>1, <2>2
<1>8. /\ NetQueuesOK' /\ \A d \in Clients \ {c} : queues'[d] = queues[d]
      /\ client' = [client EXCEPT ![c] = s]
      /\ queues'[c].closed = queues[c].closed /\ queues'[c].down = queues[c].down
      /\ queues'[c].up = Append(u, v) /\ queues'[c].rst = queues[c].rst
  BY <1>1, <1>6, <1>7, NetSend DEF Quiet
<1>9. /\ s \in [at : Net!Over \cup {"new", "path", "answer1", "size", "answer2", "data", "exit"},
                pos : Nat, buf : Blocks]
      /\ more => s.at = "data" /\ s.pos = n
      /\ ~more => s.at = "exit" /\ s.pos = client[c].pos
  <2>1. client[c] \in [at : Net!Over \cup {"new", "path", "answer1", "size", "answer2", "data",
                                           "exit"}, pos : Nat, buf : Blocks]
    BY <1>1 DEF NetClientOK
  <2>. HIDE DEF more
  <2>2. CASE more
    <3>1. s = [client[c] EXCEPT !.pos = n, !.buf = Net!Filled(c)]
      BY <1>7, <2>2
    <3>. QED
      BY <1>3, <2>1, <2>2, <3>1
  <2>3. CASE ~more
    <3>1. s = [client[c] EXCEPT !.at = "exit"]
      BY <1>7, <2>3
    <3>. QED
      BY <2>1, <2>3, <3>1
  <2>. QED
    BY <2>2, <2>3
<1>10. /\ NetClientOK' /\ client'[c].at = s.at /\ client'[c].pos = s.pos
       /\ \A d \in Clients \ {c} : client'[d] = client[d]
  <2>1. client'[c] = s /\ \A d \in Clients \ {c} : client'[d] = client[d]
    BY <1>1, <1>8 DEF NetClientOK
  <2>2. NetClientOK'
    BY <1>1, <1>8, <1>9 DEF NetClientOK
  <2>. QED
    BY <2>1, <2>2
<1>11. InBacklog(c)' = InBacklog(c) /\ Serving(c)' /\ Dead' = Dead /\ ~InBacklog(c)
  BY <1>1 DEF InBacklog, Serving, Dead, NetInv, NetShape, BacklogOnce
<1>12. /\ \A j \in 1..Len(u) : queues'[c].up[j] = u[j]
       /\ queues'[c].up[Len(u) + 1] = v /\ queues'[c].up # <<>>
  BY <1>1, <1>8
<1>13. Len(queues'[c].up) = Len(u) + 1
  BY <1>1, <1>8
<1>14. queues'[c].up \in Seq(Blocks \cup {<<>>}) /\ (more => queues'[c].up \in Seq(Blocks))
  <2>1. u \in Seq(Blocks \cup {<<>>})
    BY <1>1
  <2>2. queues'[c].up \in Seq(Blocks \cup {<<>>})
    BY <1>5, <1>8, <2>1
  <2>3. more => v \in Blocks
    BY <1>3, <1>5
  <2>4. v \in Blocks => queues'[c].up \in Seq(Blocks)
    BY <1>1, <1>8
  <2>. QED
    BY <2>2, <2>3, <2>4
<1>15. \A j \in 1..Len(u) : queues'[c].up[j] \in Blocks
  BY <1>1, <1>12
<1>. HIDE DEF more
<1>16. Sent(c)'
  BY <1>1, <1>11, <1>14 DEF Sent
<1>17. Talks(c)'
  <2>1. CASE more
    BY <1>1, <1>8, <1>9, <1>10, <1>11, <1>14, <2>1 DEF Talks, Quiet
  <2>2. CASE ~more
    <3>1. /\ queues'[c].up[Len(queues'[c].up)] = <<>>
          /\ \A j \in 1..(Len(queues'[c].up) - 1) : queues'[c].up[j] \in Blocks
      <4>1. Len(queues'[c].up) - 1 = Len(u)
        BY <1>2, <1>13
      <4>2. queues'[c].up[Len(queues'[c].up)] = <<>>
        BY <1>5, <1>12, <1>13, <2>2
      <4>. QED
        BY <1>15, <4>1, <4>2
    <3>. QED
      BY <1>1, <1>8, <1>9, <1>10, <1>11, <1>12, <2>2, <3>1 DEF Talks, Quiet
  <2>. QED
    BY <2>1, <2>2
<1>18. Under(c) = Len(u) /\ Beyond' = Beyond /\ Beyond \in {0, 1}
  BY DEF Under, Beyond
<1>19. Under(c)' = IF more THEN Len(u) + 1 ELSE Len(u)
  <2>1. CASE more
    <3>1. Under(c)' = Len(queues'[c].up)
      BY <1>9, <1>10, <2>1 DEF Under
    <3>. QED
      BY <1>13, <2>1, <3>1
  <2>2. CASE ~more
    <3>1. Under(c)' = Len(queues'[c].up) - 1
      BY <1>9, <1>10, <2>2 DEF Under
    <3>2. Len(queues'[c].up) - 1 = Len(u)
      BY <1>2, <1>13
    <3>. QED
      BY <2>2, <3>1, <3>2
  <2>. QED
    BY <2>1, <2>2
<1>20. /\ Working' = Working /\ Small(c)' = Small(c) /\ ~Done(c)' /\ ~Done(c)
       /\ \A k : Copied(c, k)' = Copied(c, k)
       /\ \A x, y : Bytes(c, x, y)' = Bytes(c, x, y)
  BY <1>1, <1>8 DEF Working, Small, Done, Copied, Bytes, Quiet
<1>21. ASSUME Small(c)
       PROVE  /\ queues[c].down = <<>> /\ Copied(c, server.pos) /\ client[c].pos < size + BLOCKSIZE
              /\ client[c].pos = server.pos + Offset(Len(u) + Beyond)
              /\ \A j \in 1..Len(u) : Bytes(c, u[j], server.pos + Offset(j - 1 + Beyond))
              /\ server.at = "write" => Bytes(c, server.block, server.pos)
  BY <1>1, <1>18, <1>21 DEF Whole, Copies, Dead
<1>22. ASSUME Small(c)
       PROVE  /\ s.pos < size + BLOCKSIZE
              /\ s.pos = server.pos + Offset(Under(c)' + Beyond)
              /\ \A j \in 1..Under(c)' :
                    Bytes(c, queues'[c].up[j], server.pos + Offset(j - 1 + Beyond))
              /\ s.at = "exit" => s.pos >= size
  <2>. DEFINE k == Len(u)
              q == queues'[c].up
  <2>1. k \in Nat /\ k + Beyond \in Nat
    BY <1>2, <1>18
  <2>2. Offset(k + Beyond) \in Nat /\ Offset(k + Beyond + 1) = Offset(k + Beyond) + BLOCKSIZE
    BY <2>1, OffsetNext
  <2>3. /\ client[c].pos < size + BLOCKSIZE /\ client[c].pos = server.pos + Offset(k + Beyond)
        /\ \A j \in 1..k : Bytes(c, u[j], server.pos + Offset(j - 1 + Beyond))
    BY <1>21, <1>22
  <2>4. (\A j \in 1..k : q[j] = u[j]) /\ q[k + 1] = v
    BY <1>12
  <2>. HIDE DEF k, q, size
  <2>5. CASE more
    <3>1. s.pos = n /\ n = client[c].pos + BLOCKSIZE /\ Under(c)' = k + 1 /\ s.at = "data"
      BY <1>4, <1>9, <1>19, <2>5 DEF k
    <3>2. n < size + BLOCKSIZE
      BY <1>2, <1>4, <2>5 DEF more, size
    <3>3. k + 1 + Beyond = k + Beyond + 1
      BY <1>18, <2>1
    <3>4. n = server.pos + Offset(k + 1 + Beyond)
      <4>1. client[c].pos = server.pos + Offset(k + Beyond)
        BY <2>3
      <4>. QED
        BY <1>2, <2>2, <3>1, <3>3, <4>1
    <3>5. v = Net!Filled(c) /\ Bytes(c, v, server.pos + Offset(k + Beyond))
      BY <1>3, <1>5, <2>3, <2>5
    <3>6. ASSUME NEW j \in 1..(k + 1) PROVE Bytes(c, q[j], server.pos + Offset(j - 1 + Beyond))
      <4>1. CASE j \in 1..k
        BY <2>3, <2>4, <4>1
      <4>2. CASE j \notin 1..k
        <5>1. j = k + 1 /\ j - 1 + Beyond = k + Beyond
          BY <1>18, <2>1, <4>2
        <5>. QED
          BY <2>4, <3>5, <5>1
      <4>. QED
        BY <4>1, <4>2
    <3>. QED
      BY <3>1, <3>2, <3>4, <3>6 DEF q
  <2>6. CASE ~more
    <3>1. s.pos = client[c].pos /\ Under(c)' = k /\ s.at = "exit"
      BY <1>9, <1>19, <2>6 DEF k
    <3>2. client[c].pos >= size
      BY <1>2, <2>6 DEF more, size
    <3>. QED
      BY <2>3, <2>4, <3>1, <3>2 DEF q
  <2>. QED
    BY <2>5, <2>6
<1>23. Copies(c)'
  <2>1. server.path = scene.path[c] /\ s.at \in {"data", "exit"}
    BY <1>1, <1>9 DEF Whole, Copies, Dead, Working
  <2>2. Small(c) =>
          /\ queues'[c].down = <<>> /\ Copied(c, server.pos)'
          /\ client'[c].pos < Len(scene.content[c]) + BLOCKSIZE
          /\ client'[c].pos = server.pos + Offset(Under(c)' + Beyond')
          /\ \A j \in 1..Under(c)' : Bytes(c, queues'[c].up[j], server.pos + Offset(j - 1 + Beyond'))
          /\ server.at = "write" => Bytes(c, server.block, server.pos)
          /\ client'[c].at \in {"exit", "success"} => client'[c].pos >= Len(scene.content[c])
    <3>1. Beyond' = Beyond /\ client'[c].at = s.at /\ client'[c].pos = s.pos
          /\ queues'[c].down = queues[c].down
      BY <1>8, <1>10, <1>18
    <3>2. Copied(c, server.pos) => Copied(c, server.pos)'
      BY DEF Copied
    <3>. QED
      BY <1>21, <1>22, <2>1, <3>1, <3>2
  <2>3. client'[c].at \in {"data", "exit"} /\ server.at \in {"block", "write"} /\ Serving(c)'
        /\ Small(c)' = Small(c) /\ ~Done(c)'
    BY <1>1, <1>10, <1>11, <1>20, <2>1
  <2>4. \A x, y : Bytes(c, x, y)' = Bytes(c, x, y)
    BY <1>20
  <2>. QED
    BY <2>1, <2>2, <2>3, <2>4 DEF Copies
<1>24. client'[c].at # "new"
  BY <1>9, <1>10
<1>. QED
  BY <1>8, <1>10, <1>16, <1>17, <1>23, <1>24, NetClient DEF Good, Whole

\* A client ends with success: nothing changes but that, and a reset.
LEMMA NetExit ==
    ASSUME NetGiven, NetInv, NEW c \in Clients, scene' = scene, server' = server, files' = files,
           backlog' = backlog, ~Dead, ~queues[c].torn, client[c].at = "exit", Net!Ends(c, "success")
    PROVE  NetInv'
<1>1. Whole(c) /\ NetClientOK /\ NetQueuesOK
  BY DEF NetInv, Good, NetShape, NetTyped
<1>2. /\ NetClientOK' /\ \A d \in Clients \ {c} : client'[d] = client[d]
      /\ client'[c].at = "success" /\ client'[c].pos = client[c].pos
      /\ NetQueuesOK' /\ \A d \in Clients \ {c} : queues'[d] = queues[d]
      /\ queues'[c].up = queues[c].up /\ queues'[c].down = queues[c].down
      /\ queues'[c].closed = queues[c].closed
  BY <1>1, NetEnds DEF Net!Over
<1>3. /\ InBacklog(c)' = InBacklog(c) /\ Serving(c)' = Serving(c) /\ Dead' = Dead
      /\ Done(c)' = Done(c) /\ Working' = Working /\ Small(c)' = Small(c)
      /\ Under(c)' = Under(c) /\ Beyond' = Beyond
  BY <1>2 DEF InBacklog, Serving, Dead, Done, Working, Small, Under, Beyond
<1>4. Sent(c)'
  BY <1>1, <1>2, <1>3 DEF Whole, Sent
<1>5. Talks(c)'
  BY <1>1, <1>2, <1>3 DEF Whole, Talks
<1>6. /\ \A n : Copied(c, n)' = Copied(c, n)
      /\ \A x, y : Bytes(c, x, y)' = Bytes(c, x, y)
  BY DEF Copied, Bytes
<1>7. Copies(c)'
  BY <1>1, <1>2, <1>3, <1>6 DEF Whole, Copies
<1>. QED
  BY <1>2, <1>4, <1>5, <1>7, NetClient DEF Good, Whole

LEMMA NetTalk ==
    ASSUME NetGiven, NetInv, Alone, NEW c \in Clients, scene' = scene, Net!Talk(c)
    PROVE  NetInv'
<1>1. server' = server /\ files' = files /\ backlog' = backlog
  BY DEF Net!Talk
<1>2. CASE ~Dead /\ ~queues[c].torn /\ ~queues'[c].torn
  <2>1. Net!Client(c, "exit") /\ Net!Ends(c, "success") => NetInv'
    BY <1>1, <1>2, NetExit DEF Net!Client
  <2>2. Net!Hear(c, "answer1", "size") \/ Net!Hear(c, "answer2", "data") => NetInv'
    BY <1>1, <1>2, NetHears
  <2>3. \/ Net!Client(c, "path") /\ Net!Send(c, scene.path[c], [client[c] EXCEPT !.at = "answer1"])
        \/ /\ Net!Client(c, "size")
           /\ Net!Send(c, Len(scene.content[c]), [client[c] EXCEPT !.at = "answer2"])
        => NetInv'
    BY <1>1, <1>2, NetTells DEF Net!Client
  <2>4. Net!Client(c, "data") /\ client[c].pos < Len(scene.content[c])
        /\ Net!Send(c, Net!Filled(c),
                    [client[c] EXCEPT !.pos = @ + BLOCKSIZE, !.buf = Net!Filled(c)]) => NetInv'
    BY <1>1, <1>2, NetSends DEF Net!Client
  <2>5. Net!Client(c, "data") /\ client[c].pos >= Len(scene.content[c])
        /\ Net!Send(c, <<>>, [client[c] EXCEPT !.at = "exit"]) => NetInv'
    BY <1>1, <1>2, NetSends DEF Net!Client
  <2>. QED
    BY <2>1, <2>2, <2>3, <2>4, <2>5 DEF Net!Talk, Net!Bye
<1>3. CASE ~(~Dead /\ ~queues[c].torn /\ ~queues'[c].torn)
  <2>1. NetClientOK /\ NetQueuesOK /\ Room \in Nat
    BY DEF NetInv, NetShape, NetTyped, NetGiven
  <2>2. ASSUME NetClientOK', NetQueuesOK', client'[c].at # "new",
               \A d \in Clients \ {c} : queues'[d] = queues[d] /\ client'[d] = client[d],
               queues[c].torn => queues'[c].torn
        PROVE  NetInv'
    <3>1. CASE Dead
      BY <1>1, <2>2, <3>1, NetToNobody
    <3>2. CASE ~Dead
      <4>1. Good(c)'
        BY <1>3, <2>2, <3>2 DEF Good
      <4>. QED
        BY <1>1, <2>2, <4>1, NetClient
    <3>. QED
      BY <3>1, <3>2
  <2>3. ASSUME NEW how \in Net!Over, Net!Ends(c, how) PROVE NetInv'
    <3>1. how # "new"
      BY DEF Net!Over
    <3>. QED
      BY <2>1, <2>2, <2>3, <3>1, NetEnds
  <2>4. ASSUME NEW v \in Wire, NEW s \in [at : {"answer1", "answer2", "data", "exit"}, pos : Nat, buf : Blocks],
               Net!Send(c, v, s)
        PROVE  NetInv'
    <3>1. CASE Net!Ends(c, "failed")
      BY <2>3, <3>1 DEF Net!Over
    <3>2. CASE ~Net!Ends(c, "failed")
      <4>1. /\ NetQueuesOK' /\ \A d \in Clients \ {c} : queues'[d] = queues[d]
            /\ client' = [client EXCEPT ![c] = s] /\ queues'[c].torn = queues[c].torn
        BY <2>1, <2>4, <3>2, NetSend
      <4>2. NetClientOK' /\ client'[c] = s /\ \A d \in Clients \ {c} : client'[d] = client[d]
        BY <2>1, <4>1 DEF NetClientOK
      <4>. QED
        BY <2>2, <4>1, <4>2
    <3>. QED
      BY <3>1, <3>2
  <2>5. ASSUME NEW from, NEW to \in {"size", "data"}, Net!Hear(c, from, to) PROVE NetInv'
    <3>1. PICK s \in {to, "failed"} : client' = [client EXCEPT ![c].at = s]
      BY <2>5 DEF Net!Hear
    <3>2. NetClientOK' /\ client'[c].at = s /\ \A d \in Clients \ {c} : client'[d] = client[d]
      BY <2>1, <3>1, NetAt DEF Net!Over
    <3>3. queues' = queues => NetQueuesOK'
      BY <2>1 DEF NetQueuesOK
    <3>4. ASSUME queues[c].down # <<>>, queues' = [queues EXCEPT ![c].down = Tail(@)]
          PROVE  /\ NetQueuesOK' /\ \A d \in Clients \ {c} : queues'[d] = queues[d]
                 /\ queues'[c].torn = queues[c].torn
      <4>1. queues[c].down \in Seq({"OK", "ERR"}) /\ Len(queues[c].down) <= Room
        BY <2>1 DEF NetQueuesOK
      <4>2. Tail(queues[c].down) \in Seq({"OK", "ERR"})
            /\ Len(Tail(queues[c].down)) = Len(queues[c].down) - 1
        BY <3>4, <4>1, HeadTailProperties
      <4>3. Len(Tail(queues[c].down)) <= Room /\ queues' = [queues EXCEPT ![c].down = Tail(queues[c].down)]
        BY <2>1, <3>4, <4>1, <4>2
      <4>. QED
        BY <2>1, <4>2, <4>3, NetDown
    <3>5. ASSUME NEW l \in Net!Left(queues[c].down, queues[c].torn),
                 queues' = [queues EXCEPT ![c].down = l, ![c].torn = TRUE]
          PROVE  /\ NetQueuesOK' /\ \A d \in Clients \ {c} : queues'[d] = queues[d]
                 /\ queues'[c].torn
      BY <2>1, <3>5, NetHeardPart
    <3>. QED
      BY <2>2, <2>5, <3>2, <3>3, <3>4, <3>5 DEF Net!Hear
  <2>6. client[c] \in [at : Net!Over \cup {"new", "path", "answer1", "size", "answer2", "data",
                                           "exit"}, pos : Nat, buf : Blocks]
        /\ client[c].pos + BLOCKSIZE \in Nat /\ Net!Filled(c) \in Blocks
    BY <2>1, NetFilled DEF NetClientOK, NetGiven
  <2>7. scene.path[c] \in Wire /\ Len(scene.content[c]) \in Wire /\ <<>> \in Wire
        /\ Net!Filled(c) \in Wire
    <3>1. scene.path[c] \in Clients /\ scene.content[c] \in Seq(Nat) /\ <<>> \in Seq(Nat)
      BY DEF NetInv, Net!SceneType
    <3>2. Len(scene.content[c]) \in Nat
      BY <3>1
    <3>3. Net!Filled(c) \in Seq(Nat)
      BY <2>6 DEF Blocks, NetGiven
    <3>. QED
      BY <3>1, <3>2, <3>3 DEF Wire
  <2>8. Net!Client(c, "path") /\ Net!Send(c, scene.path[c], [client[c] EXCEPT !.at = "answer1"]) => NetInv'
    BY <2>4, <2>6, <2>7
  <2>9. Net!Send(c, Len(scene.content[c]), [client[c] EXCEPT !.at = "answer2"]) => NetInv'
    BY <2>4, <2>6, <2>7
  <2>10. Net!Client(c, "data")
         /\ Net!Send(c, Net!Filled(c), [client[c] EXCEPT !.pos = @ + BLOCKSIZE, !.buf = Net!Filled(c)])
         => NetInv'
    <3>1. Net!Client(c, "data") =>
            [client[c] EXCEPT !.pos = @ + BLOCKSIZE, !.buf = Net!Filled(c)]
              \in [at : {"answer1", "answer2", "data", "exit"}, pos : Nat, buf : Blocks]
      BY <2>6 DEF Net!Client
    <3>. QED
      BY <2>4, <2>7, <3>1
  <2>11. Net!Send(c, <<>>, [client[c] EXCEPT !.at = "exit"]) => NetInv'
    BY <2>4, <2>6, <2>7
  <2>12. "success" \in Net!Over
    BY DEF Net!Over
  <2>. QED
    BY <2>3, <2>5, <2>8, <2>9, <2>10, <2>11, <2>12 DEF Net!Talk, Net!Bye
<1>. QED
  BY <1>2, <1>3

\* When the server is gone nobody waits to be accepted any more.
LEMMA NetAlone ==
    ASSUME NetGiven, NetInv, Alone, Net!Serve
    PROVE  Alone'
<1>. USE DEF Alone, Dead
<1>1. NetServerOK /\ NetQueuesOK /\ NetFilesOK /\ Room \in Nat
  BY DEF NetInv, NetShape, NetTyped, NetGiven
<1>2. CASE Net!Dies
  BY <1>1, <1>2, NetDies
<1>3. \A s \in Net!Steps \ {"dead"} : server' = Net!Main(s) => server'.at # "dead"
  BY <1>1 DEF Net!Main, NetServerOK
<1>4. CASE Net!Accept /\ ~Net!Dies
  BY <1>1, <1>4 DEF Net!Accept, Net!Main, NetServerOK
<1>5. CASE Net!ReadPath
  <2>1. \A p : Net!Open(p) => server'.at # "dead"
    BY <1>1 DEF Net!Open, Net!Main, NetServerOK
  <2>. QED
    BY <1>5, <2>1 DEF Net!ReadPath
<1>6. CASE Net!Refuse /\ ~Net!Dies
  <2>1. server' = [Net!Main("accept") EXCEPT !.open = @ + 1]
        \/ server' = [Net!Main("accept") EXCEPT !.open = @ + 2]
    BY <1>6 DEF Net!Refuse, Net!Answer
  <2>. QED
    BY <1>1, <2>1 DEF Net!Main, NetServerOK
<1>7. CASE Net!Answers /\ ~Net!Dies
  BY <1>3, <1>7 DEF Net!Answers, Net!Answer, Net!Steps
<1>8. CASE Net!ReadSize /\ ~Net!Dies
  <2>1. \A n : Net!Ftruncate(n) => server'.at # "dead"
    BY <1>1 DEF Net!Ftruncate, Net!Main, NetServerOK
  <2>. QED
    BY <1>8, <2>1 DEF Net!ReadSize
<1>9. CASE Net!ReadBlock
  BY <1>1, <1>9 DEF Net!ReadBlock, Net!Main, NetServerOK
<1>10. CASE Net!WriteBlock /\ ~Net!Dies
  <2>1. server' = [Net!Main("block") EXCEPT !.pos = @ + Net!Fitting] \/ server' = Net!Main("block")
    BY <1>10 DEF Net!WriteBlock, Net!Answer
  <2>. QED
    BY <1>1, <2>1 DEF Net!Main, NetServerOK
<1>11. CASE Net!Close
  BY <1>1, <1>11 DEF Net!Close, Net!Main, NetServerOK
<1>. QED
  BY <1>2, <1>4, <1>5, <1>6, <1>7, <1>8, <1>9, <1>10, <1>11 DEF Net!Serve

\* All that NetworkCopy keeps.
NetWhole == NetInv /\ InFile /\ Alone

LEMMA NetInit ==
    ASSUME NetGiven, Net!Init
    PROVE  NetWhole
<1>. USE DEF Net!Init
<1>1. scene \in ScenesOf("net") /\ scene \in Net!SceneType
  BY DEF NetGiven
<1>2. Net!Zeroes \in Blocks
  BY DEF Net!Zeroes, Blocks
<1>3. NetServerOK
  BY <1>2 DEF NetServerOK, Net!Steps, Net!OK
<1>4. NetClientOK
  BY <1>2 DEF NetClientOK
<1>5. <<>> \in Seq(Wire) /\ <<>> \in Seq({"OK", "ERR"}) /\ <<>> \in Seq(Clients) /\ Len(<<>>) = 0
  OBVIOUS
<1>6. NetQueuesOK
  BY <1>5 DEF NetQueuesOK, NetGiven
<1>7. NetFilesOK /\ backlog \in Seq(Clients)
  BY <1>5 DEF NetFilesOK
<1>8. Len(backlog) = 0 /\ server.at = "accept" /\ server.conn = None
  BY <1>5
<1>9. BacklogOnce /\ OwnFile /\ InFile /\ Alone /\ ~Working
  BY <1>8 DEF BacklogOnce, OwnFile, InFile, Alone, Dead, Working
<1>10. \A c \in Clients : Good(c)
  <2>. SUFFICES ASSUME NEW c \in Clients PROVE Good(c)
    OBVIOUS
  <2>1. /\ client[c].at = "new" /\ client[c].pos = 0 /\ queues[c].up = <<>> /\ queues[c].down = <<>>
        /\ ~queues[c].rst /\ ~queues[c].closed /\ ~queues[c].torn /\ ~Serving(c) /\ server.conn # c
    BY <1>8 DEF Serving, NetGiven
  <2>2. Sent(c)
    BY <2>1 DEF Sent
  <2>3. Talks(c)
    BY <2>1 DEF Talks, Quiet, Idle
  <2>4. Copies(c)
    BY <2>1 DEF Copies, Done
  <2>. QED
    BY <2>2, <2>3, <2>4 DEF Good, Whole
<1>. QED
  BY <1>1, <1>3, <1>4, <1>6, <1>7, <1>9, <1>10 DEF NetWhole, NetInv, NetShape, NetTyped

LEMMA NetStep ==
    ASSUME NetGiven, NetWhole, [Net!Next]_(Net!vars)
    PROVE  NetWhole'
<1>. USE DEF NetWhole
<1>1. CASE Net!Serve /\ UNCHANGED scene
  <2>1. InFile' /\ Alone'
    BY <1>1, NetInFile, NetAlone
  <2>2. CASE Net!Accept
    BY <1>1, <2>1, <2>2, NetAccept
  <2>3. CASE Net!ReadPath
    BY <1>1, <2>1, <2>3, NetReadPath
  <2>4. CASE Net!Refuse
    BY <1>1, <2>1, <2>4, NetRefuse
  <2>5. CASE Net!Answers
    BY <1>1, <2>1, <2>5, NetAnswers
  <2>6. CASE Net!ReadSize
    BY <1>1, <2>1, <2>6, NetReadSize
  <2>7. CASE Net!ReadBlock
    BY <1>1, <2>1, <2>7, NetReadBlock
  <2>8. CASE Net!WriteBlock
    BY <1>1, <2>1, <2>8, NetWriteBlock
  <2>9. CASE Net!Close
    BY <1>1, <2>1, <2>9, NetClose
  <2>. QED
    BY <1>1, <2>2, <2>3, <2>4, <2>5, <2>6, <2>7, <2>8, <2>9 DEF Net!Serve
<1>2. ASSUME NEW c \in Clients, Net!Connect(c) \/ Net!Talk(c) \/ Net!Kill(c), UNCHANGED scene
      PROVE  NetWhole'
  <2>1. server' = server /\ files' = files /\ (Dead => backlog' = backlog)
    BY <1>2 DEF Net!Connect, Net!Talk, Net!Kill, Dead, Net!At
  <2>2. InFile' /\ Alone'
    BY <2>1 DEF InFile, Alone, Dead
  <2>3. CASE Net!Connect(c)
    BY <1>2, <2>2, <2>3, NetConnect
  <2>4. CASE Net!Talk(c)
    BY <1>2, <2>2, <2>4, NetTalk
  <2>5. CASE Net!Kill(c)
    <3>1. Net!Ends(c, "failed") /\ backlog' = backlog
      BY <2>5 DEF Net!Kill
    <3>. QED
      BY <1>2, <2>1, <2>2, <3>1, NetEndsFailed
  <2>. QED
    BY <1>2, <2>3, <2>4, <2>5
<1>3. CASE UNCHANGED Net!vars
  <2>1. server' = server /\ client' = client /\ backlog' = backlog /\ queues' = queues
        /\ files' = files /\ scene' = scene
    BY <1>3 DEF Net!vars, Net!moving
  <2>2. NetShape' /\ InFile' /\ Alone'
    <3>1. NetTyped'
      BY <2>1 DEF NetInv, NetShape, NetTyped, NetServerOK, NetClientOK, NetQueuesOK, NetFilesOK
    <3>2. BacklogOnce' /\ OwnFile'
      BY <2>1 DEF NetInv, NetShape, BacklogOnce, OwnFile, Working
    <3>3. InFile' /\ Alone'
      BY <2>1 DEF InFile, Alone, Dead
    <3>. QED
      BY <3>1, <3>2, <3>3 DEF NetShape
  <2>3. \A c \in Clients : Good(c)'
    BY <2>1, NetStill DEF NetInv, InBacklog
  <2>. QED
    BY <2>1, <2>2, <2>3 DEF NetInv
<1>. QED
  BY <1>1, <1>2, <1>3 DEF Net!Next

LEMMA NetFaithful ==
    ASSUME NetGiven, NetInv
    PROVE  Net!Faithful
<1>1. Net!TypeOK
  BY DEF NetInv, NetShape, NetTyped, NetServerOK, NetClientOK, NetQueuesOK, NetFilesOK,
         Net!TypeOK, Net!Over, Net!OK, Net!ERR
<1>2. ASSUME NEW c \in Clients, Net!Client(c, "success"), queues[c].closed, ~Net!At("dead"), ~queues[c].torn,
             Len(scene.content[c]) + BLOCKSIZE <= scene.disk
      PROVE  /\ Len(scene.content[c]) <= Len(files[scene.path[c]])
             /\ SubSeq(files[scene.path[c]], 1, Len(scene.content[c])) = scene.content[c]
  <2>1. Done(c) /\ Small(c) /\ Whole(c) /\ client[c].at # "failed"
    BY <1>2 DEF Done, Small, Dead, Net!Client, Net!At, NetInv, Good
  <2>2. Copied(c, Len(scene.content[c]))
    BY <2>1 DEF Whole, Copies, Done
  <2>. DEFINE s == scene.content[c]
              f == files[scene.path[c]]
  <2>3. s \in Seq(Nat)
    BY DEF NetInv, Net!SceneType
  <2>4. /\ f \in Seq(Nat) /\ Len(s) <= Len(f)
        /\ \A i \in 1..Len(s) : i <= Len(s) => f[i] = s[i]
    BY <2>2 DEF Copied
  <2>. HIDE DEF s, f
  <2>5. Len(s) \in Nat /\ Len(f) \in Nat
    BY <2>3, <2>4
  <2>6. SubSeq(f, 1, Len(s)) = [i \in 1..Len(s) |-> f[i]]
    BY <2>4, <2>5
  <2>7. \A i \in 1..Len(s) : f[i] = s[i]
    BY <2>4, <2>5
  <2>8. s = [i \in 1..Len(s) |-> s[i]]
    BY <2>3
  <2>9. SubSeq(f, 1, Len(s)) = s
    BY <2>6, <2>7, <2>8
  <2>10. /\ Len(scene.content[c]) <= Len(files[scene.path[c]])
         /\ SubSeq(files[scene.path[c]], 1, Len(scene.content[c])) = scene.content[c]
    BY <2>4, <2>9 DEF s, f
  <2>. QED
    BY <2>10
<1>. QED
  BY <1>1, <1>2 DEF Net!Faithful

LEMMA NetIsGiven == NetGiven
<1>1. ScenesOf("net") \subseteq Net!SceneType
  BY TransfersAssumption
<1>2. None \notin Seq(Nat)
  <2>1. Seq(Nat) \subseteq Seq(Int)
    <3>1. \A s \in Seq(Nat) : s \in Seq(Int)
      OBVIOUS
    <3>. QED
      BY <3>1
  <2>. QED
    BY <2>1, NoneIsNone
<1>3. BLOCKSIZE \in Nat /\ BLOCKSIZE > 0 /\ Room \in Nat
  BY SizesAssumption, RoomAssumption
<1>. QED
  BY <1>1, <1>2, <1>3, NoneIsNone DEF NetGiven
=============================================================================
