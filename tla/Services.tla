------------------------------ MODULE Services -------------------------------
(***************************************************************************)
(* The small programs that serve clients: over connections, message queues *)
(* and datagrams.                                                          *)
(***************************************************************************)
EXTENDS Common

CONSTANTS Writers,            \* the clients that send datagrams
          Pid,                \* the process ids of System V clients
          Server, MaxConn, MaxOrders, MaxResults, MaxFds, Cap,
          Orders, Lives       \* bounds

Tcp == INSTANCE TcpServer WITH Scenes <- ScenesOf("tcp")
Number == INSTANCE NumberServer WITH Scenes <- ScenesOf("number")
Stream == INSTANCE StreamCalculator WITH Scenes <- ScenesOf("stream")
Posix == INSTANCE PosixCalculator WITH Scenes <- ScenesOf("posix")
SysV == INSTANCE SysVCalculator WITH
    Clients <- DOMAIN Pid, queue <- queues, Scenes <- ScenesOf("sysv")
Dgram == INSTANCE DatagramCalculator WITH
    Clients <- Writers, sockets <- queues, Scenes <- ScenesOf("dgram")

ASSUME ServerAssumption == Server \notin Writers
ASSUME BoundsAssumption == {MaxConn, MaxOrders, MaxFds, Orders, Lives} \subseteq Nat

\* What a scene says fits the program.
ASSUME ServicesAssumption ==
    /\ ScenesOf("tcp") \subseteq Tcp!SceneType
    /\ ScenesOf("number") \subseteq Number!SceneType
    /\ ScenesOf("stream") \subseteq Stream!SceneType
    /\ ScenesOf("posix") \subseteq Posix!SceneType
    /\ ScenesOf("sysv") \subseteq SysV!SceneType
    /\ ScenesOf("dgram") \subseteq Dgram!SceneType
=============================================================================
