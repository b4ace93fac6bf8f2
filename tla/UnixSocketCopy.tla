---------------------------- MODULE UnixSocketCopy ----------------------------
(***************************************************************************)
(* 11-unix-socket-copy: an iterative server stores the files that clients  *)
(* send it over a Unix stream socket, block by block, each block answered. *)
(*                                                                         *)
(* read() returns 0 at the end of a stream, which neither program looks    *)
(* at: the variable it should have filled keeps its old value. write() to  *)
(* a closed connection raises SIGPIPE, which nobody handles. An end that   *)
(* is closed with unread data in it makes the other end's read() fail once *)
(* its own data are taken (ECONNRESET). Sizes count blocks.                *)
(***************************************************************************)
EXTENDS Naturals, Sequences, SequencesExt

CONSTANTS Clients,    \* the client programs, each run once
          Files,      \* the file names at the server
          Backlog,    \* of listen()
          Scenes

\* run            the clients that are run
\* dest, blocks   where to each client copies, and how much
\* existing       the files that exist beforehand
\* starts         how often the server is started
\* faults         a client is killed, the server gets SIGINT, disks fail
SceneType == [run : SUBSET Clients, dest : [Clients -> Files], blocks : [Clients -> Nat],
              existing : SUBSET Files, starts : Nat,
              faults : SUBSET {"kill", "sigint", "disk"}]

None == "none"

\* "other" and None are not the name of a file.
ASSUME SocketAssumption ==
    /\ None \notin Clients /\ Files \cap {None, "other"} = {}
    /\ Backlog \in Nat
    /\ Scenes \subseteq SceneType

VARIABLES path,      \* the socket file exists
          backlog,   \* connections not accepted yet
          conn,      \* the connection of each client
          srv, cli,  \* the server and the clients
          disk,      \* the files that exist, each a sequence of blocks
          scene      \* chosen once

moving == <<path, backlog, conn, srv, cli, disk>>
vars == <<moving, scene>>

Kinds == {"INFO", "DATA", "BYE"}
Answers == {"SUCCESS", "ERROR"}
Block(c, n) == <<c, n>>
Zeros == <<None, 0>>            \* a block nobody has written yet
Torn(c) == Block(c, 0)          \* bytes of c, but not the block that belongs there
Whole(c) == [n \in 1..scene.blocks[c] |-> Block(c, n)]
Fault(kind) == kind \in scene.faults

\* up, down   what is in the stream to the server and to the client
\* open       the ends that are not closed
\* reset      the ends whose next read() of an empty stream fails
NoConn == [up |-> <<>>, down |-> <<>>, open |-> {}, reset |-> {}]
NewConn == [NoConn EXCEPT !.open = {"client", "server"}]

\* conv, name   the message type and the file name read last
\* fd           the destination file; "other" has a name that came out of
\*              uninitialised memory
\* off, count   the offset in it, rounded down to blocks, and the blocks written,
\*              whole or in part
SrvAt == {"off", "accept", "first", "info", "loop", "data", "answer", "refuse", "close"}
CliAt == {"new", "infotype", "info", "infoanswer", "next", "data", "dataanswer",
          "bye", "exit", "done", "failed"}

TypeOK ==
    /\ scene \in Scenes
    /\ path \in BOOLEAN
    /\ IsInjective(backlog) /\ ToSet(backlog) \subseteq scene.run
    /\ Len(backlog) <= Backlog + 1
    /\ srv.at \in SrvAt /\ srv.conv \in Kinds \cup {None}
    /\ srv.name \in Files \cup {None} /\ srv.fd \in Files \cup {"other", None}
    /\ srv.peer \in Clients \cup {None} /\ srv.resp \in Answers
    /\ srv.off \in 0..srv.count /\ srv.starts \in 0..scene.starts
    /\ srv.at \in {"accept", "off"} <=> srv.peer = None
    /\ \A c \in Clients :
         /\ cli[c].at \in CliAt /\ cli[c].told \in BOOLEAN
         /\ cli[c].sent \in 0..scene.blocks[c]
         /\ "server" \in conn[c].open <=> c = srv.peer \/ c \in ToSet(backlog)
         /\ Len(conn[c].up) <= 2 /\ Len(conn[c].down) <= 1

Init ==
    /\ scene \in Scenes
    /\ path = FALSE /\ backlog = <<>>
    /\ conn = [c \in Clients |-> NoConn]
    /\ srv = [at |-> "off", starts |-> 0, peer |-> None, conv |-> None, name |-> None,
              resp |-> "SUCCESS", fd |-> None, off |-> 0, count |-> 0]
    /\ cli = [c \in Clients |-> [at |-> "new", sent |-> 0, told |-> FALSE]]
    /\ disk = [f \in scene.existing |-> <<>>]
-----------------------------------------------------------------------------
(* Connections. *)

Incoming(end) == IF end = "server" THEN "up" ELSE "down"

\* close(), by the program or by its end.
Closed(k, end) ==
    LET other == CHOOSE e \in {"client", "server"} : e # end IN
    [k EXCEPT !.open = @ \ {end},
              !.reset = IF k[Incoming(end)] # <<>> THEN @ \cup {other} ELSE @,
              ![Incoming(end)] = <<>>]

\* What a read() at this end meets.
HasData(c, end) == conn[c][Incoming(end)] # <<>>
Fails(c, end) == ~HasData(c, end) /\ end \in conn[c].reset
AtEnd(c, end) == /\ ~HasData(c, end) /\ end \notin conn[c].reset
                 /\ conn[c].open = {end}
First(c, end) == Head(conn[c][Incoming(end)])
Taken(c, end) == [conn EXCEPT ![c][Incoming(end)] = Tail(@)]
-----------------------------------------------------------------------------
(* The server. *)

\* bind() fails while the socket file exists. The stack variables are not
\* initialised.
StartServer ==
    /\ srv.at = "off" /\ srv.starts < scene.starts /\ ~path
    /\ \E kind \in Kinds \cup {None} :
         srv' = [srv EXCEPT !.at = "accept", !.starts = @ + 1, !.conv = kind, !.name = None]
    /\ path' = TRUE
    /\ UNCHANGED <<backlog, conn, cli, disk>>

\* The end of the server closes every connection. unlinkSocket runs in exit(),
\* not when a signal ends the process.
Dies(byExit) ==
    /\ srv' = [srv EXCEPT !.at = "off", !.peer = None, !.fd = None]
    /\ path' = (path /\ ~byExit)
    /\ backlog' = <<>>
    /\ conn' = [c \in Clients |->
                  IF "server" \in conn[c].open THEN Closed(conn[c], "server") ELSE conn[c]]
    /\ UNCHANGED <<cli, disk>>

\* beendeServer
Sigint == Fault("sigint") /\ srv.at # "off" /\ Dies(TRUE)

Accept ==
    /\ srv.at = "accept" /\ backlog # <<>>
    /\ srv' = [srv EXCEPT !.at = "first", !.peer = Head(backlog)]
    /\ backlog' = Tail(backlog)
    /\ UNCHANGED <<path, conn, cli, disk>>

\* read() by the server: new(x) is what it does with x, and old what it does at
\* the end of the stream.
ServerReads(at, new(_), old) ==
    LET c == srv.peer IN
    /\ srv.at = at
    /\ \/ /\ HasData(c, "server")
          /\ conn' = Taken(c, "server") /\ new(First(c, "server"))
          /\ UNCHANGED <<path, backlog, cli>>
       \/ /\ AtEnd(c, "server")
          /\ old
          /\ UNCHANGED <<path, backlog, conn, cli>>
       \/ Fails(c, "server") /\ Dies(TRUE)

\* Only INFO opens a conversation.
FirstType(kind) ==
    /\ srv' = [srv EXCEPT !.conv = kind, !.at = IF kind = "INFO" THEN "info" ELSE "close"]
    /\ UNCHANGED disk
ReadFirst == ServerReads("first", FirstType, FirstType(srv.conv))

\* open(O_CREAT | O_EXCL), ftruncate; only the server sees the files. When
\* ftruncate fails the file stays, and so does its descriptor.
Refuse(name) == srv' = [srv EXCEPT !.name = name, !.resp = "ERROR", !.at = "refuse"]
Welcome(name, fd) ==
    srv' = [srv EXCEPT !.name = name, !.resp = "SUCCESS", !.at = "answer",
                       !.fd = fd, !.off = 0, !.count = 0]
Blank(n) == [i \in 1..n |-> Zeros]
Created(file, content) ==
    disk' = [f \in DOMAIN disk \cup {file} |-> IF f = file THEN content ELSE disk[f]]

\* A slip: without O_EXCL.
OpenFileShared(name, size) ==
    /\ name \in Files
    /\ Welcome(name, name)
    /\ IF name \in DOMAIN disk THEN UNCHANGED disk ELSE Created(name, Blank(size))

OpenFile(name, size) ==
    \/ /\ name \in Files \ DOMAIN disk
       /\ \/ Welcome(name, name) /\ Created(name, Blank(size))
          \/ Fault("disk") /\ Refuse(name) /\ Created(name, <<>>)
    \/ (name \in DOMAIN disk \/ name = None) /\ Refuse(name) /\ UNCHANGED disk
    \/ name = None /\ Welcome(name, "other") /\ UNCHANGED disk

\* At the end of the stream the name is that of the client before.
ReadInfo == ServerReads("info",
                        LAMBDA info : OpenFile(info.dest, info.size),
                        OpenFile(srv.name, 0))

\* sendResponse: write() to a closed connection raises SIGPIPE, unless it fails
\* with ECONNRESET first; then it calls exit().
Respond ==
    LET c == srv.peer IN
    /\ srv.at \in {"answer", "refuse"}
    /\ \/ /\ "client" \in conn[c].open
          /\ conn' = [conn EXCEPT ![c].down = Append(@, srv.resp)]
          /\ srv' = [srv EXCEPT !.at = IF @ = "answer" THEN "loop" ELSE "close"]
          /\ UNCHANGED <<path, backlog, cli, disk>>
       \/ "client" \notin conn[c].open /\ Dies("server" \in conn[c].reset)

\* A slip: BYE is ignored.
NextTypeForever(kind) ==
    /\ srv' = [srv EXCEPT !.conv = kind, !.at = IF kind = "DATA" THEN "data" ELSE "loop"]
    /\ UNCHANGED disk

NextType(kind) ==
    /\ srv' = [srv EXCEPT !.conv = kind,
                          !.at = CASE kind = "BYE" -> "close"
                                   [] kind = "DATA" -> "data"
                                   [] OTHER -> "loop"]
    /\ UNCHANGED disk
ReadType == ServerReads("loop", NextType, NextType(srv.conv))

\* The cells of the file that a write() reaches hold x afterwards.
Put(cells, x) ==
    disk' = IF srv.fd \in Files
            THEN [disk EXCEPT ![srv.fd] = [i \in DOMAIN @ |-> IF i \in cells THEN x ELSE @[i]]]
            ELSE disk
Moved(off) ==
    srv' = [srv EXCEPT !.off = off, !.count = @ + 1, !.resp = "SUCCESS", !.at = "answer"]

\* The offset is where the next block belongs: a whole write(), or one that is
\* short because the disk is full, which the server takes for a success.
StoreInPlace(b) ==
    /\ srv.off = srv.count
    /\ \/ Moved(srv.off + 1) /\ Put({srv.off + 1}, b)
       \/ Fault("disk") /\ Moved(srv.off) /\ Put({srv.off + 1}, Torn(srv.peer))

\* After a short write() the offset lags behind, and every block comes to lie
\* before its place, across a border or not.
StoreBehind ==
    /\ srv.off < srv.count
    /\ \E off \in {srv.off, srv.off + 1} :
         /\ Moved(off)
         /\ \E last \in {srv.off + 1, off + 1} : Put((srv.off + 1)..last, Torn(srv.peer))

\* A slip: a failed write() is not told to the client.
StoreSilent(b) ==
    \/ StoreInPlace(b)
    \/ StoreBehind
    \/ /\ Fault("disk")
       /\ srv' = [srv EXCEPT !.resp = "SUCCESS", !.at = "answer"]
       /\ UNCHANGED disk

\* Only a result below 0 is an error.
Store(b) ==
    \/ StoreInPlace(b)
    \/ StoreBehind
    \/ /\ Fault("disk")
       /\ srv' = [srv EXCEPT !.resp = "ERROR", !.at = "refuse"]
       /\ UNCHANGED disk
StoreNothing == srv' = [srv EXCEPT !.resp = "SUCCESS", !.at = "answer"] /\ UNCHANGED disk
ReadData == ServerReads("data", Store, StoreNothing)

Close ==
    /\ srv.at = "close"
    /\ conn' = [conn EXCEPT ![srv.peer] = Closed(@, "server")]
    /\ srv' = [srv EXCEPT !.at = "accept", !.peer = None, !.fd = None]
    /\ UNCHANGED <<path, backlog, cli, disk>>
-----------------------------------------------------------------------------
(* A client. *)

Ended(c) == cli[c].at \in {"done", "failed"}
Running(c) == cli[c].at # "new" /\ ~Ended(c)

\* connect() fails without a listening server, and sleeps while the backlog is
\* full.
Connect(c) ==
    /\ c \in scene.run /\ cli[c].at = "new"
    /\ \/ /\ srv.at # "off" /\ Len(backlog) <= Backlog
          /\ cli' = [cli EXCEPT ![c].at = "infotype"]
          /\ conn' = [conn EXCEPT ![c] = NewConn]
          /\ backlog' = Append(backlog, c)
       \/ /\ srv.at = "off"
          /\ cli' = [cli EXCEPT ![c].at = "failed"]
          /\ UNCHANGED <<conn, backlog>>
    /\ UNCHANGED <<path, srv, disk>>

Ends(c, how) ==
    /\ cli' = [cli EXCEPT ![c].at = how]
    /\ conn' = [conn EXCEPT ![c] = Closed(@, "client")]

\* write() by the client, or SIGPIPE.
Write(c, at, x, to) ==
    /\ cli[c].at = at
    /\ \/ /\ "server" \in conn[c].open
          /\ conn' = [conn EXCEPT ![c].up = Append(@, x)]
          /\ cli' = [cli EXCEPT ![c].at = to]
       \/ "server" \notin conn[c].open /\ Ends(c, "failed")
    /\ UNCHANGED <<path, backlog, srv, disk>>

SendInfoType(c) == Write(c, "infotype", "INFO", "info")
SendInfo(c) == Write(c, "info", [dest |-> scene.dest[c], size |-> scene.blocks[c]], "infoanswer")
\* A block is on its way ("data") once its type is.
SendType(c) == cli[c].sent < scene.blocks[c] /\ Write(c, "next", "DATA", "data")
SendData(c) == Write(c, "data", Block(c, cli[c].sent + 1), "dataanswer")
SendBye(c) == cli[c].sent = scene.blocks[c] /\ Write(c, "next", "BYE", "bye")

\* The answer. ERROR is printed, and the client goes on. At the end of the
\* stream the old answer is looked at again; there is none before the first. A
\* failing read() calls exit(), whose BYE meets a closed connection.
ReadAnswer(c) ==
    /\ cli[c].at \in {"infoanswer", "dataanswer"}
    /\ LET to == [cli[c] EXCEPT !.at = "next", !.sent = IF cli[c].at = "dataanswer" THEN @ + 1 ELSE @] IN
       \/ /\ HasData(c, "client")
          /\ cli' = [cli EXCEPT ![c] = [to EXCEPT !.told = @ \/ First(c, "client") = "ERROR"]]
          /\ conn' = Taken(c, "client")
       \/ /\ AtEnd(c, "client")
          /\ \E told \in IF cli[c].at = "infoanswer" THEN BOOLEAN ELSE {cli[c].told} :
               cli' = [cli EXCEPT ![c] = [to EXCEPT !.told = told]]
          /\ UNCHANGED conn
       \/ Fails(c, "client") /\ Ends(c, "failed")
    /\ UNCHANGED <<path, backlog, srv, disk>>

\* The source cannot be read: exit(EXIT_FAILURE).
SourceFails(c) ==
    /\ Fault("disk") /\ cli[c].at = "next"
    /\ cli' = [cli EXCEPT ![c].at = "exit"]
    /\ UNCHANGED <<path, backlog, conn, srv, disk>>

\* beendeClient says BYE, for the second time after a copy, and the process ends.
WithBye(k) == [k EXCEPT !.up = Append(@, "BYE")]
SayBye(c) ==
    LET how == IF cli[c].at = "bye" THEN "done" ELSE "failed" IN
    /\ cli[c].at \in {"bye", "exit"}
    /\ \/ /\ "server" \in conn[c].open
          /\ cli' = [cli EXCEPT ![c].at = how]
          /\ conn' = [conn EXCEPT ![c] = Closed(WithBye(@), "client")]
       \/ "server" \notin conn[c].open /\ Ends(c, "failed")
    /\ UNCHANGED <<path, backlog, srv, disk>>

Kill(c) ==
    /\ Fault("kill") /\ Running(c)
    /\ Ends(c, "failed")
    /\ UNCHANGED <<path, backlog, srv, disk>>

ServerStep ==
    Accept \/ ReadFirst \/ ReadInfo \/ Respond \/ ReadType \/ ReadData \/ Close
ClientStep(c) ==
    \/ SendInfoType(c) \/ SendInfo(c) \/ SendType(c) \/ SendData(c) \/ SendBye(c)
    \/ ReadAnswer(c) \/ SourceFails(c) \/ SayBye(c)

Step ==
    \/ StartServer \/ Sigint \/ ServerStep
    \/ \E c \in Clients : Connect(c) \/ ClientStep(c) \/ Kill(c)

Next == Step /\ UNCHANGED scene

Spec == Init /\ [][Next]_vars

\* Programs that run take their next step. Nobody has to start one.
Fairness == WF_moving(ServerStep) /\ \A c \in Clients : WF_moving(ClientStep(c))

FairSpec == Spec /\ Fairness
-----------------------------------------------------------------------------
\* However clients die, and whatever old type or name the server looks at again,
\* a file that was there stays as it was, and a new one holds blocks of one
\* client only, each in its place (open(O_EXCL) and the inner loop of server.c).
\* On a full disk a short write(), which the server does not notice, leaves
\* other bytes of the same client in a block's place.
OneClientPerFile ==
    TypeOK /\ \A f \in DOMAIN disk :
        IF f \in scene.existing THEN disk[f] = <<>>
        ELSE \E c \in Clients :
                /\ scene.dest[c] = f
                /\ \A i \in DOMAIN disk[f] :
                     disk[f][i] \in {Block(c, i), Zeros} \cup (IF Fault("disk") THEN {Torn(c)} ELSE {})

\* A client that ends with EXIT_SUCCESS and has not been told ERROR has copied
\* its file, though the server may have died or been restarted meanwhile (main
\* of client.c). A write() that was short is all that the server keeps from it,
\* and the gap shows in the file.
DoneMeansCopied ==
    \A c \in Clients :
        cli[c].at = "done" /\ ~cli[c].told
            => /\ scene.dest[c] \in DOMAIN disk
               /\ LET file == disk[scene.dest[c]] IN
                  file = Whole(c) \/ (Fault("disk") /\ Torn(c) \in ToSet(file))

\* As long as no client is killed, neither is the server: clients that are
\* refused, fail or end early leave it ready for the next one (sendResponse,
\* beendeClient). A killed client makes it spin, die of SIGPIPE or exit.
Served ==
    \A c \in Clients :
        (scene.faults \subseteq {"disk"} /\ Running(c)) ~> (Ended(c) /\ srv.at = "accept")
==============================================================================
