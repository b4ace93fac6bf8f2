------------------------------ MODULE Transfers ------------------------------
(***************************************************************************)
(* The small programs that move bytes between files, hosts and processes.  *)
(***************************************************************************)
EXTENDS Common

CONSTANTS Source, Old, BUFFER_SIZE,       \* of FileCopy
          BLOCKSIZE,                      \* of NetworkCopy
          Lines, LINELEN, ChildCount      \* of Filter and Children

VARIABLES proc, files

File == INSTANCE FileCopy WITH Scenes <- ScenesOf("file")
Net == INSTANCE NetworkCopy WITH Scenes <- ScenesOf("net")
Chat == INSTANCE Filter WITH Room <- Lines, Scenes <- ScenesOf("filter")
Pipe == INSTANCE PipeChild WITH Scenes <- ScenesOf("pipe")
Ten == INSTANCE Children WITH N <- ChildCount, Scenes <- ScenesOf("children")

ASSUME SizesAssumption ==
    /\ Lines \in Nat /\ LINELEN \in Nat \ {0, 1} /\ ChildCount \in Nat
    /\ BUFFER_SIZE \in Nat \ {0} /\ BLOCKSIZE \in Nat \ {0}
ASSUME FilesAssumption == Source \in Seq(Int) /\ Old \in Seq(Int)

\* What a scene says fits the program.
ASSUME TransfersAssumption ==
    /\ ScenesOf("file") \subseteq File!SceneType
    /\ ScenesOf("net") \subseteq Net!SceneType
    /\ ScenesOf("filter") \subseteq Chat!SceneType
    /\ ScenesOf("pipe") \subseteq Pipe!SceneType
    /\ ScenesOf("children") \subseteq Ten!SceneType
=============================================================================
