-------------------------- MODULE UnixSocketCopyProofs --------------------------
(***************************************************************************)
(* Proofs about UnixSocketCopy, for any set of clients, files and scenes:  *)
(* whatever is killed, stopped or fails, files hold the blocks of one      *)
(* client, and a client that ends well has copied its file.                *)
(*                                                                         *)
(* The argument is the conversation: where a client is, what is in its     *)
(* stream and where the server is with it determine each other, as long as *)
(* both ends are open. From that follows which block the server takes next *)
(* and what is in the file.                                                *)
(***************************************************************************)
EXTENDS UnixSocketCopy, SequenceTheorems, TLAPS

Request(c) == [dest |-> scene.dest[c], size |-> scene.blocks[c]]
Message == Kinds \cup [dest : Files, size : Nat] \cup (Clients \X Nat)
Sides == {"client", "server"}

SrvOK ==
    /\ srv.off <= srv.count
    /\ srv \in [at : SrvAt, starts : Nat, peer : Clients \cup {None}, conv : Kinds \cup {None},
                name : Files \cup {None}, resp : Answers, fd : Files \cup {"other", None},
                off : Nat, count : Nat]
CliOK == cli \in [Clients -> [at : CliAt, sent : Nat, told : BOOLEAN]]
Connection == [up : Seq(Message), down : Seq(Answers), open : SUBSET Sides, reset : SUBSET Sides]
ConnOK == conn \in [Clients -> Connection]
SceneOK == scene \in Scenes /\ scene \in SceneType

\* Where a client is that has not been told an error, and what it has sent.
Counts(c) ==
    LET k == cli[c] IN
    /\ k.sent <= scene.blocks[c]
    /\ k.at \in {"new", "infotype", "info", "infoanswer"} => k.sent = 0 /\ ~k.told
    /\ k.at \in {"data", "dataanswer"} => k.sent < scene.blocks[c]
    /\ k.at \in {"bye", "done"} => k.sent = scene.blocks[c]
    /\ "client" \in conn[c].open <=> k.at \notin {"new", "done", "failed"}
    /\ k.at = "new" => conn[c] = NoConn

\* Who the server has to do with.
Held(c) == c = srv.peer \/ c \in ToSet(backlog)
Queue ==
    /\ backlog \in Seq(scene.run) /\ IsInjective(backlog) /\ Len(backlog) <= Backlog + 1
    /\ srv.peer \notin ToSet(backlog)
    /\ srv.at = "off" => backlog = <<>>
    /\ srv.at \in {"accept", "off"} <=> srv.peer = None
    /\ srv.starts <= scene.starts
    /\ path \in BOOLEAN
    /\ \A c \in Clients : "server" \in conn[c].open <=> Held(c)

\* The file of c with its first n blocks.
Partial(c, n) == [i \in 1..scene.blocks[c] |-> IF i <= n THEN Block(c, i) ELSE Zeros]
\* A file of c in which the gap of a short write shows.
Broken(c, file) ==
    /\ Fault("disk") /\ DOMAIN file = 1..scene.blocks[c]
    /\ \A i \in 1..scene.blocks[c] : file[i] \in {Block(c, i), Zeros, Torn(c)}
    /\ \E i \in 1..scene.blocks[c] : file[i] = Torn(c)
Holds(c, n) ==
    /\ n \in 0..scene.blocks[c] /\ scene.dest[c] \in DOMAIN disk \ scene.existing
    /\ disk[scene.dest[c]] = Partial(c, n) \/ Broken(c, disk[scene.dest[c]])
-----------------------------------------------------------------------------
(* The conversation of a client with both ends, by what the server does.   *)

Alive(c) == "client" \in conn[c].open
Is(c, at, up, down) == cli[c].at = at /\ conn[c].up = up /\ conn[c].down = down
Dead(c, ups) == cli[c].at = "failed" /\ conn[c].up \in ups /\ conn[c].down = <<>>

\* nothing has been read
Opening(c) ==
    /\ ~cli[c].told
    /\ \/ Is(c, "infotype", <<>>, <<>>)
       \/ Is(c, "info", <<"INFO">>, <<>>)
       \/ Is(c, "infoanswer", <<"INFO", Request(c)>>, <<>>)
       \/ Dead(c, {<<>>, <<"INFO">>, <<"INFO", Request(c)>>})

AtInfo(c) ==
    /\ ~cli[c].told
    /\ \/ Is(c, "info", <<>>, <<>>)
       \/ Is(c, "infoanswer", <<Request(c)>>, <<>>)
       \/ Dead(c, {<<>>, <<Request(c)>>})

\* the file is open, and so much is in it: all in its place, or with a gap
Opened(c) ==
    /\ srv.fd = scene.dest[c] /\ Holds(c, srv.count)
    /\ IF srv.off = srv.count THEN disk[scene.dest[c]] = Partial(c, srv.count)
       ELSE Broken(c, disk[scene.dest[c]])
Answered(c) ==
    \/ cli[c].at = "infoanswer" /\ srv.count = 0
    \/ cli[c].at = "dataanswer" /\ srv.count = cli[c].sent + 1
AtAnswer(c) ==
    /\ ~cli[c].told /\ conn[c].up = <<>> /\ conn[c].down = <<>>
    /\ \/ cli[c].at = "failed"
       \/ srv.resp = "SUCCESS" /\ Opened(c) /\ Answered(c)

AtRefuse(c) ==
    /\ ~cli[c].told /\ conn[c].up = <<>> /\ conn[c].down = <<>> /\ srv.resp = "ERROR"
    /\ cli[c].at \in {"failed", "infoanswer", "dataanswer"}

\* the block that comes next
NextBlock(c) == Block(c, srv.count + 1)
AtLoop(c) ==
    /\ ~cli[c].told /\ Opened(c)
    /\ \/ conn[c].up = <<>> /\ conn[c].down = <<"SUCCESS">> /\ Answered(c)
       \/ /\ srv.count = cli[c].sent
          /\ \/ Is(c, "next", <<>>, <<>>) \/ Is(c, "exit", <<>>, <<>>)
             \/ Is(c, "data", <<"DATA">>, <<>>)
             \/ Is(c, "dataanswer", <<"DATA", NextBlock(c)>>, <<>>)
             \/ Is(c, "bye", <<"BYE">>, <<>>)
             \/ Is(c, "done", <<"BYE", "BYE">>, <<>>)
       \/ Dead(c, {<<>>, <<"DATA">>, <<"BYE">>})
       \/ Dead(c, {<<"DATA", NextBlock(c)>>}) /\ srv.count < scene.blocks[c]

AtData(c) ==
    /\ ~cli[c].told /\ Opened(c)
    /\ \/ srv.count = cli[c].sent /\ Is(c, "data", <<>>, <<>>)
       \/ srv.count = cli[c].sent /\ Is(c, "dataanswer", <<NextBlock(c)>>, <<>>)
       \/ Dead(c, {<<>>})
       \/ Dead(c, {<<NextBlock(c)>>}) /\ srv.count < scene.blocks[c]

\* The server is about to close: after an error, which the client learns, or
\* after a BYE, and the file is whole.
AtClose(c) ==
    \/ /\ cli[c].at \in {"infoanswer", "dataanswer"} /\ ~cli[c].told
       /\ conn[c].up = <<>> /\ conn[c].down = <<"ERROR">>
    \/ /\ cli[c].told /\ conn[c].down = <<>>
       /\ \/ cli[c].at \in {"next", "exit"} /\ conn[c].up = <<>>
          \/ cli[c].at \in {"data", "bye"} /\ Len(conn[c].up) = 1
          \/ cli[c].at = "dataanswer" /\ Len(conn[c].up) = 2
    \/ ~cli[c].told /\ Is(c, "bye", <<>>, <<>>) /\ Holds(c, scene.blocks[c])
    \/ cli[c].at \in {"done", "failed"} /\ Len(conn[c].up) <= 2 /\ conn[c].down = <<>>

Conversation(c) ==
    /\ c \in ToSet(backlog) => Opening(c)
    /\ c = srv.peer =>
         /\ srv.at = "first" => Opening(c)
         /\ srv.at = "info" => AtInfo(c)
         /\ srv.at = "answer" => AtAnswer(c)
         /\ srv.at = "refuse" => AtRefuse(c)
         /\ srv.at = "loop" => AtLoop(c)
         /\ srv.at = "data" => AtData(c)
         /\ srv.at = "close" => AtClose(c)
    /\ ~Held(c) => conn[c].up = <<>> /\ Len(conn[c].down) <= 1
-----------------------------------------------------------------------------
\* Each new file belongs to one client; the server opens no file twice.
Owned(f) ==
    \E c \in Clients :
        /\ scene.dest[c] = f
        /\ \/ disk[f] = <<>> \/ Broken(c, disk[f])
           \/ \E n \in 0..scene.blocks[c] : disk[f] = Partial(c, n)
DiskOK ==
    /\ scene.existing \subseteq DOMAIN disk /\ DOMAIN disk \subseteq Files
    /\ \A f \in DOMAIN disk : IF f \in scene.existing THEN disk[f] = <<>> ELSE Owned(f)
    /\ srv.name \in Files => srv.name \in DOMAIN disk

\* A client that ended well has its file, which nobody else has open.
Good(c) == cli[c].at = "done" /\ ~cli[c].told
Kept ==
    \A c \in Clients : Good(c) =>
        /\ Holds(c, scene.blocks[c])
        /\ c # srv.peer => srv.fd # scene.dest[c]

SocketInv ==
    /\ SceneOK /\ SrvOK /\ CliOK /\ ConnOK
    /\ Queue /\ DiskOK /\ Kept
    /\ \A c \in Clients : Counts(c) /\ Conversation(c)
-----------------------------------------------------------------------------
(* Streams, queues and ends of connections. *)

\* Streams with one or two messages in them.
LEMMA Streams ==
    ASSUME NEW x, NEW y
    PROVE  /\ <<x>> # <<>> /\ Head(<<x>>) = x /\ Tail(<<x>>) = <<>> /\ Len(<<x>>) = 1
           /\ <<x, y>> # <<>> /\ Head(<<x, y>>) = x /\ Tail(<<x, y>>) = <<y>>
           /\ Len(<<x, y>>) = 2 /\ Len(<<>>) = 0
           /\ Append(<<>>, x) = <<x>> /\ Append(<<x>>, y) = <<x, y>>
<1>1. <<x>> # <<>> /\ Head(<<x>>) = x /\ Len(<<x>>) = 1 /\ Len(<<>>) = 0
  OBVIOUS
<1>2. <<x, y>> # <<>> /\ Head(<<x, y>>) = x /\ Len(<<x, y>>) = 2
  OBVIOUS
<1>3. Tail(<<x>>) = <<>>
  OBVIOUS
<1>4. Tail(<<x, y>>) = <<y>>
  OBVIOUS
<1>5. Append(<<>>, x) = <<x>>
  OBVIOUS
<1>6. Append(<<x>>, y) = <<x, y>>
  <2>1. <<x>> \in Seq({x, y}) /\ y \in {x, y} /\ <<x, y>> \in Seq({x, y})
    OBVIOUS
  <2>2. /\ Append(<<x>>, y) \in Seq({x, y}) /\ Len(Append(<<x>>, y)) = Len(<<x, y>>)
        /\ \A i \in 1..Len(Append(<<x>>, y)) : Append(<<x>>, y)[i] = <<x, y>>[i]
    BY <2>1, AppendProperties
  <2>. QED
    BY <2>1, <2>2, SeqEqual
<1>. QED
  BY <1>1, <1>2, <1>3, <1>4, <1>5, <1>6

\* What is written, and what is left after a read, are messages again.
LEMMA MoreAndLess ==
    ASSUME NEW T, NEW s \in Seq(T)
    PROVE  /\ \A x \in T : Append(s, x) \in Seq(T) /\ Len(Append(s, x)) = Len(s) + 1
           /\ s # <<>> => Tail(s) \in Seq(T) /\ Len(Tail(s)) = Len(s) - 1 /\ Head(s) \in T
           /\ <<>> \in Seq(T) /\ Len(s) \in Nat
<1>1. \A x \in T : Append(s, x) \in Seq(T) /\ Len(Append(s, x)) = Len(s) + 1
  BY AppendProperties
<1>2. s # <<>> => Tail(s) \in Seq(T) /\ Len(Tail(s)) = Len(s) - 1 /\ Head(s) \in T
  BY HeadTailProperties
<1>. QED
  BY <1>1, <1>2, EmptySeq, LenProperties

\* A new connection waits behind the others.
LEMMA QueueGrows ==
    ASSUME NEW T, NEW s \in Seq(T), IsInjective(s), NEW c \in T, c \notin ToSet(s)
    PROVE  IsInjective(Append(s, c)) /\ ToSet(Append(s, c)) = ToSet(s) \cup {c}
<1>1. /\ DOMAIN Append(s, c) = 1..(Len(s) + 1) /\ DOMAIN s = 1..Len(s)
      /\ \A i \in 1..Len(s) : Append(s, c)[i] = s[i]
      /\ Append(s, c)[Len(s) + 1] = c
  OBVIOUS
<1>2. \A i \in 1..Len(s) : s[i] # c
  BY <1>1 DEF ToSet
<1>. QED
  BY <1>1, <1>2 DEF ToSet, IsInjective

\* The first one leaves.
LEMMA QueueShrinks ==
    ASSUME NEW T, NEW s \in Seq(T), IsInjective(s), s # <<>>
    PROVE  /\ IsInjective(Tail(s)) /\ ToSet(Tail(s)) = ToSet(s) \ {Head(s)}
           /\ Head(s) \in ToSet(s)
<1>1. /\ DOMAIN Tail(s) = 1..(Len(s) - 1) /\ DOMAIN s = 1..Len(s) /\ Len(s) \in Nat \ {0}
      /\ \A i \in 1..(Len(s) - 1) : Tail(s)[i] = s[i + 1]
      /\ Head(s) = s[1]
  OBVIOUS
<1>2. ToSet(Tail(s)) \subseteq ToSet(s) \ {Head(s)}
  BY <1>1 DEF ToSet, IsInjective
<1>3. ASSUME NEW x \in ToSet(s), x # Head(s) PROVE x \in ToSet(Tail(s))
  <2>1. PICK i \in 1..Len(s) : s[i] = x
    BY <1>1 DEF ToSet
  <2>2. i - 1 \in 1..(Len(s) - 1) /\ (i - 1) + 1 = i
    BY <1>1, <1>3, <2>1
  <2>3. Tail(s)[i - 1] = x
    BY <1>1, <2>1, <2>2
  <2>. QED
    BY <1>1, <2>2, <2>3 DEF ToSet
<1>4. IsInjective(Tail(s))
  BY <1>1 DEF IsInjective
<1>. QED
  BY <1>1, <1>2, <1>3, <1>4 DEF ToSet

\* close() drops what this end has not read.
LEMMA CloseServer ==
    ASSUME NEW k \in Connection
    PROVE  LET closed == Closed(k, "server") IN
           /\ closed \in Connection /\ closed.open = k.open \ {"server"}
           /\ closed.up = <<>> /\ closed.down = k.down
<1>1. (CHOOSE e \in {"client", "server"} : e # "server") \in Sides
  BY DEF Sides
<1>2. <<>> \in Seq(Message)
  BY MoreAndLess
<1>. QED
  BY <1>1, <1>2 DEF Closed, Incoming, Connection, Sides

LEMMA CloseClient ==
    ASSUME NEW k \in Connection
    PROVE  LET closed == Closed(k, "client") IN
           /\ closed \in Connection /\ closed.open = k.open \ {"client"}
           /\ closed.up = k.up /\ closed.down = <<>>
<1>1. (CHOOSE e \in {"client", "server"} : e # "client") \in Sides
  BY DEF Sides
<1>2. <<>> \in Seq(Answers)
  BY MoreAndLess
<1>. QED
  BY <1>1, <1>2 DEF Closed, Incoming, Connection, Sides
-----------------------------------------------------------------------------
(* What a client does concerns its own conversation only. *)

\* What is in the files depends on nothing but them and the scene.
LEMMA SameContents ==
    ASSUME UNCHANGED scene
    PROVE  /\ \A c \in Clients : \A n : Partial(c, n)' = Partial(c, n)
           /\ \A c \in Clients : \A g : Broken(c, g)' <=> Broken(c, g)
  BY DEF Partial, Broken, Fault

LEMMA SameHolds ==
    ASSUME UNCHANGED <<disk, scene>>
    PROVE  /\ \A f : Owned(f)' <=> Owned(f)
           /\ \A c \in Clients : \A n : Holds(c, n)' <=> Holds(c, n)
           /\ srv'.name = srv.name /\ DiskOK => DiskOK'
<1>1. ASSUME NEW f PROVE Owned(f)' <=> Owned(f)
  <2>1. \A c \in Clients : Broken(c, disk[f])' <=> Broken(c, disk[f])
    BY DEF Broken, Fault
  <2>. QED
    BY <2>1, SameContents DEF Owned
<1>2. ASSUME NEW c \in Clients, NEW n PROVE Holds(c, n)' <=> Holds(c, n)
  <2>1. Broken(c, disk[scene.dest[c]])' <=> Broken(c, disk[scene.dest[c]])
    BY DEF Broken, Fault
  <2>. QED
    BY <2>1, SameContents DEF Holds
<1>. QED
  BY <1>1, <1>2 DEF DiskOK

\* The file that is open is as before.
LEMMA SameOpened ==
    ASSUME UNCHANGED <<disk, scene>>, srv'.fd = srv.fd, srv'.off = srv.off, srv'.count = srv.count
    PROVE  \A c \in Clients : (Opened(c)' <=> Opened(c)) /\ NextBlock(c)' = NextBlock(c)
<1>. SUFFICES ASSUME NEW c \in Clients
              PROVE  (Opened(c)' <=> Opened(c)) /\ NextBlock(c)' = NextBlock(c)
  OBVIOUS
<1>1. /\ Partial(c, srv.count)' = Partial(c, srv.count)
      /\ Broken(c, disk[scene.dest[c]])' <=> Broken(c, disk[scene.dest[c]])
      /\ Holds(c, srv.count)' <=> Holds(c, srv.count)
  BY DEF Holds, Partial, Broken, Fault
<1>. QED
  BY <1>1 DEF Opened, NextBlock

LEMMA OneClient ==
    ASSUME SocketInv, NEW c \in Clients, UNCHANGED <<srv, disk, scene>>, CliOK', ConnOK', Queue',
           \A d \in Clients \ {c} : cli'[d] = cli[d] /\ conn'[d] = conn[d],
           \A d \in Clients \ {c} : d \in ToSet(backlog') <=> d \in ToSet(backlog),
           Counts(c)', Conversation(c)',
           Good(c)' => Good(c) \/ (c = srv.peer /\ Holds(c, scene.blocks[c]))
    PROVE  SocketInv'
<1>1. SceneOK' /\ SrvOK'
  BY DEF SocketInv, SceneOK, SrvOK
<1>2. DiskOK'
  BY SameHolds DEF SocketInv
<1>3. \A d \in Clients : Counts(d)'
  BY DEF SocketInv, Counts
<1>4. ASSUME NEW d \in Clients, d # c PROVE Conversation(d)'
  <2>1. Conversation(d) /\ cli'[d] = cli[d] /\ conn'[d] = conn[d]
        /\ (d \in ToSet(backlog') <=> d \in ToSet(backlog))
    BY <1>4 DEF SocketInv
  <2>. QED
    BY <2>1, SameOpened, SameHolds DEF Conversation, Held, Opening, AtInfo, AtAnswer, AtRefuse,
       AtLoop, AtData, AtClose, Is, Dead, Request, Answered
<1>5. Kept'
  <2>. SUFFICES ASSUME NEW d \in Clients, Good(d)'
                PROVE  Holds(d, scene.blocks[d])' /\ (d # srv.peer => srv.fd # scene.dest[d])
    BY DEF Kept
  <2>1. Good(d) \/ (d = srv.peer /\ Holds(d, scene.blocks[d]))
    BY DEF Good
  <2>2. Holds(d, scene.blocks[d]) /\ (d # srv.peer => srv.fd # scene.dest[d])
    BY <2>1 DEF SocketInv, Kept
  <2>3. scene'.blocks[d] = scene.blocks[d] /\ Holds(d, scene.blocks[d])'
    <3>1. \A n : Holds(d, n)' <=> Holds(d, n)
      BY SameHolds
    <3>. QED
      BY <2>2, <3>1 DEF Holds, Partial, Broken, Fault
  <2>. QED
    BY <2>2, <2>3
<1>. QED
  BY <1>1, <1>2, <1>3, <1>4, <1>5 DEF SocketInv

LEMMA OthersKeep ==
    ASSUME SocketInv, NEW c \in Clients, UNCHANGED <<path, backlog, srv, disk, scene>>,
           CliOK', ConnOK',
           \A d \in Clients \ {c} : cli'[d] = cli[d] /\ conn'[d] = conn[d],
           "server" \in conn'[c].open <=> "server" \in conn[c].open,
           Counts(c)', Conversation(c)',
           Good(c)' => Good(c) \/ (c = srv.peer /\ Holds(c, scene.blocks[c]))
    PROVE  SocketInv'
<1>1. Queue'
  BY DEF SocketInv, Queue, Held
<1>. QED
  BY <1>1, OneClient

\* A client that fails leaves what it has sent in the stream.
LEMMA HangUp ==
    ASSUME SocketInv, NEW c \in Clients, Ends(c, "failed"), Alive(c),
           UNCHANGED <<path, backlog, srv, disk, scene>>
    PROVE  SocketInv'
<1>1. /\ cli'[c] = [cli[c] EXCEPT !.at = "failed"]
      /\ conn'[c] = Closed(conn[c], "client")
      /\ \A d \in Clients \ {c} : cli'[d] = cli[d] /\ conn'[d] = conn[d]
  BY DEF Ends, SocketInv, CliOK, ConnOK
<1>2. conn[c] \in Connection
  BY DEF SocketInv, ConnOK
<1>3. /\ conn'[c] \in Connection /\ conn'[c].open = conn[c].open \ {"client"}
      /\ conn'[c].up = conn[c].up /\ conn'[c].down = <<>>
  BY <1>1, <1>2, CloseClient
<1>4. /\ cli'[c].at = "failed" /\ cli'[c].sent = cli[c].sent /\ cli'[c].told = cli[c].told
      /\ CliOK' /\ ConnOK'
  BY <1>1, <1>3 DEF Ends, SocketInv, CliOK, ConnOK, CliAt
<1>5. Counts(c)'
  BY <1>3, <1>4 DEF SocketInv, Counts
<1>6. Conversation(c)'
  <2>1. Conversation(c) /\ cli[c].at \notin {"new", "done", "failed"}
    BY DEF SocketInv, Counts, Alive
  <2>2. c \in ToSet(backlog) \/ (c = srv.peer /\ srv.at = "first") => Opening(c)'
    BY <1>3, <1>4, <2>1 DEF Conversation, Opening, Is, Dead, Request
  <2>3. c = srv.peer /\ srv.at = "info" => AtInfo(c)'
    BY <1>3, <1>4, <2>1 DEF Conversation, AtInfo, Is, Dead, Request
  <2>4. c = srv.peer /\ srv.at = "answer" => AtAnswer(c)'
    BY <1>3, <1>4, <2>1 DEF Conversation, AtAnswer
  <2>5. c = srv.peer /\ srv.at = "refuse" => AtRefuse(c)'
    BY <1>3, <1>4, <2>1 DEF Conversation, AtRefuse
  <2>6. c = srv.peer /\ srv.at = "loop" => AtLoop(c)'
    <3>. SUFFICES ASSUME c = srv.peer, srv.at = "loop" PROVE AtLoop(c)'
      OBVIOUS
    <3>1. AtLoop(c)
      BY <2>1 DEF Conversation
    <3>2. Opened(c)' /\ NextBlock(c)' = NextBlock(c)
      BY <3>1, SameOpened DEF AtLoop
    <3>3. cli[c].at = "dataanswer" => cli[c].sent < scene.blocks[c]
      BY DEF SocketInv, Counts
    <3>. QED
      BY <1>3, <1>4, <2>1, <3>1, <3>2, <3>3 DEF AtLoop, Is, Dead
  <2>7. c = srv.peer /\ srv.at = "data" => AtData(c)'
    <3>. SUFFICES ASSUME c = srv.peer, srv.at = "data" PROVE AtData(c)'
      OBVIOUS
    <3>1. AtData(c)
      BY <2>1 DEF Conversation
    <3>2. Opened(c)' /\ NextBlock(c)' = NextBlock(c)
      BY <3>1, SameOpened DEF AtData
    <3>3. cli[c].at = "dataanswer" => cli[c].sent < scene.blocks[c]
      BY DEF SocketInv, Counts
    <3>. QED
      BY <1>3, <1>4, <2>1, <3>1, <3>2, <3>3 DEF AtData, Is, Dead
  <2>8. c = srv.peer /\ srv.at = "close" => AtClose(c)'
    <3>. SUFFICES ASSUME AtClose(c) PROVE AtClose(c)'
      BY <2>1 DEF Conversation
    <3>. DEFINE n == Len(conn[c].up)
    <3>1. conn[c].up = <<>> => n = 0
      OBVIOUS
    <3>2. n = 0 \/ n = 1 \/ n = 2
      BY <2>1, <3>1 DEF AtClose, Is
    <3>3. n <= 2
      <4>. HIDE DEF n
      <4>. QED
        BY <3>2
    <3>. QED
      BY <1>3, <1>4, <3>3 DEF AtClose
  <2>9. ~Held(c) => conn'[c].up = <<>> /\ Len(conn'[c].down) <= 1
    BY <1>3, <2>1, EmptySeq DEF Conversation
  <2>. QED
    BY <2>2, <2>3, <2>4, <2>5, <2>6, <2>7, <2>8, <2>9 DEF Conversation, Held
<1>7. ~Good(c)'
  BY <1>4 DEF Good
<1>. QED
  BY <1>1, <1>3, <1>4, <1>5, <1>6, <1>7, OthersKeep
-----------------------------------------------------------------------------
(* The client's own steps. *)

\* A write() appends to the stream, or the client fails.
LEMMA Wrote ==
    ASSUME SocketInv, NEW c \in Clients, NEW at, NEW x \in Message, NEW to,
           at \in CliAt \ {"new", "done", "failed"}, to \in CliAt \ {"new", "done", "failed"},
           Write(c, at, x, to), UNCHANGED scene
    PROVE  \/ SocketInv'
           \/ /\ Held(c) /\ cli[c].at = at /\ Conversation(c) /\ Counts(c)
              /\ cli'[c].at = to /\ cli'[c].sent = cli[c].sent /\ cli'[c].told = cli[c].told
              /\ conn'[c].up = Append(conn[c].up, x) /\ conn'[c].down = conn[c].down
              /\ conn'[c].open = conn[c].open /\ conn[c].up \in Seq(Message)
              /\ UNCHANGED <<srv, backlog, disk, scene>>
              /\ Counts(c)' /\ Conversation(c)' => SocketInv'
<1>1. cli[c].at = at /\ UNCHANGED <<path, backlog, srv, disk, scene>>
  BY DEF Write
<1>2. Conversation(c) /\ Counts(c) /\ Alive(c)
  BY <1>1 DEF SocketInv, Counts, Alive
<1>3. CASE "server" \notin conn[c].open /\ Ends(c, "failed")
  BY <1>1, <1>2, <1>3, HangUp
<1>4. CASE /\ "server" \in conn[c].open
           /\ conn' = [conn EXCEPT ![c].up = Append(@, x)]
           /\ cli' = [cli EXCEPT ![c].at = to]
  <2>1. conn[c] \in Connection /\ conn[c].up \in Seq(Message) /\ cli[c] \in [at : CliAt, sent : Nat, told : BOOLEAN]
    BY DEF SocketInv, ConnOK, CliOK, Connection
  <2>2. Append(conn[c].up, x) \in Seq(Message)
    BY <2>1, MoreAndLess
  <2>3. /\ conn'[c].up = Append(conn[c].up, x) /\ conn'[c].down = conn[c].down
        /\ conn'[c].open = conn[c].open
        /\ \A d \in Clients \ {c} : conn'[d] = conn[d]
        /\ ConnOK'
    BY <1>4, <2>1, <2>2 DEF SocketInv, ConnOK, Connection
  <2>4. /\ cli'[c].at = to /\ cli'[c].sent = cli[c].sent /\ cli'[c].told = cli[c].told
        /\ \A d \in Clients \ {c} : cli'[d] = cli[d]
        /\ CliOK'
    BY <1>4, <2>1 DEF SocketInv, CliOK
  <2>5. ~Good(c)'
    BY <2>4 DEF Good
  <2>6. Held(c)
    BY <1>4 DEF SocketInv, Queue
  <2>7. Counts(c)' /\ Conversation(c)' => SocketInv'
    BY <1>1, <2>3, <2>4, <2>5, OthersKeep
  <2>. QED
    BY <1>1, <1>2, <2>1, <2>3, <2>4, <2>6, <2>7
<1>. QED
  BY <1>3, <1>4 DEF Write

\* A client in a conversation meets the server at one of these steps.
LEMMA Meets ==
    ASSUME SocketInv, NEW c \in Clients, Held(c)
    PROVE  \/ c \in ToSet(backlog) /\ c # srv.peer
           \/ /\ c = srv.peer /\ c \notin ToSet(backlog)
              /\ srv.at \in {"first", "info", "answer", "refuse", "loop", "data", "close"}
<1>1. srv.at \in SrvAt /\ srv.peer \notin ToSet(backlog)
  BY DEF SocketInv, SrvOK, Queue
<1>2. c = srv.peer => srv.at \notin {"accept", "off"}
  BY SocketAssumption DEF SocketInv, Queue
<1>. QED
  BY <1>1, <1>2 DEF Held, SrvAt

LEMMA SendInfoTypeKeeps ==
    ASSUME SocketInv, NEW c \in Clients, SendInfoType(c), UNCHANGED scene
    PROVE  SocketInv'
<1>. SUFFICES
       ASSUME Held(c), cli[c].at = "infotype", Conversation(c), Counts(c),
              cli'[c].at = "info", cli'[c].sent = cli[c].sent, cli'[c].told = cli[c].told,
              conn'[c].up = Append(conn[c].up, "INFO"), conn'[c].down = conn[c].down,
              conn'[c].open = conn[c].open, UNCHANGED <<srv, backlog, disk, scene>>
       PROVE  Counts(c)' /\ Conversation(c)'
  BY Wrote DEF SendInfoType, Message, Kinds, CliAt
<1>1. Counts(c)'
  BY DEF Counts
<1>2. /\ c = srv.peer => srv.at = "first"
      /\ Opening(c)
  BY Meets DEF Conversation, Opening, AtInfo, AtAnswer, AtRefuse, AtLoop, AtData, AtClose, Is,
     Dead, Answered
<1>3. Is(c, "infotype", <<>>, <<>>)
  BY <1>2 DEF Opening, Is, Dead
<1>4. Is(c, "info", <<"INFO">>, <<>>)'
  BY <1>3, Streams DEF Is
<1>5. Opening(c)'
  BY <1>2, <1>4 DEF Opening
<1>. QED
  BY <1>1, <1>2, <1>5 DEF Conversation, Held

LEMMA SendInfoKeeps ==
    ASSUME SocketInv, NEW c \in Clients, SendInfo(c), UNCHANGED scene
    PROVE  SocketInv'
<1>1. Request(c) \in Message
  BY DEF SocketInv, SceneOK, SceneType, Request, Message
<1>. SUFFICES
       ASSUME Held(c), cli[c].at = "info", Conversation(c), Counts(c),
              cli'[c].at = "infoanswer", cli'[c].sent = cli[c].sent, cli'[c].told = cli[c].told,
              conn'[c].up = Append(conn[c].up, Request(c)), conn'[c].down = conn[c].down,
              conn'[c].open = conn[c].open, UNCHANGED <<srv, backlog, disk, scene>>
       PROVE  Counts(c)' /\ Conversation(c)'
  BY <1>1, Wrote DEF SendInfo, Request, CliAt
<1>2. Counts(c)'
  BY DEF Counts
<1>3. Request(c)' = Request(c)
  BY DEF Request
<1>4. \/ Opening(c) /\ (c = srv.peer => srv.at = "first")
      \/ AtInfo(c) /\ c = srv.peer /\ srv.at = "info" /\ c \notin ToSet(backlog)
  BY Meets DEF Conversation, Opening, AtInfo, AtAnswer, AtRefuse, AtLoop, AtData, AtClose, Is,
     Dead, Answered
<1>5. CASE Opening(c) /\ (c = srv.peer => srv.at = "first")
  <2>1. Is(c, "info", <<"INFO">>, <<>>)
    BY <1>5 DEF Opening, Is, Dead
  <2>2. Is(c, "infoanswer", <<"INFO", Request(c)>>, <<>>)'
    BY <1>3, <2>1, Streams DEF Is
  <2>3. Opening(c)'
    BY <1>5, <2>2 DEF Opening
  <2>. QED
    BY <1>2, <1>5, <2>3 DEF Conversation, Held
<1>6. CASE AtInfo(c) /\ c = srv.peer /\ srv.at = "info" /\ c \notin ToSet(backlog)
  <2>1. Is(c, "info", <<>>, <<>>)
    BY <1>6 DEF AtInfo, Is, Dead
  <2>2. Is(c, "infoanswer", <<Request(c)>>, <<>>)'
    BY <1>3, <2>1, Streams DEF Is
  <2>3. AtInfo(c)'
    BY <1>6, <2>2 DEF AtInfo
  <2>. QED
    BY <1>2, <1>6, <2>3 DEF Conversation, Held
<1>. QED
  BY <1>4, <1>5, <1>6

\* Once its request is answered, a client meets the server in the inner loop, or
\* when it is about to close.
LEMMA MeetsLater ==
    ASSUME SocketInv, NEW c \in Clients, Held(c), cli[c].at \in {"next", "exit", "data", "bye"}
    PROVE  /\ c = srv.peer /\ c \notin ToSet(backlog)
           /\ \/ srv.at = "loop" /\ AtLoop(c)
              \/ srv.at = "data" /\ AtData(c)
              \/ srv.at = "close" /\ AtClose(c)
<1>1. Conversation(c)
  BY DEF SocketInv
<1>2. ~Opening(c) /\ ~AtInfo(c) /\ ~AtRefuse(c) /\ ~AtAnswer(c)
  BY DEF Opening, AtInfo, AtAnswer, AtRefuse, Is, Dead, Answered
<1>. QED
  BY <1>1, <1>2, Meets DEF Conversation

LEMMA SendTypeKeeps ==
    ASSUME SocketInv, NEW c \in Clients, SendType(c), UNCHANGED scene
    PROVE  SocketInv'
<1>. SUFFICES
       ASSUME Held(c), cli[c].at = "next", Conversation(c), Counts(c), conn[c].up \in Seq(Message),
              cli'[c].at = "data", cli'[c].sent = cli[c].sent, cli'[c].told = cli[c].told,
              conn'[c].up = Append(conn[c].up, "DATA"), conn'[c].down = conn[c].down,
              conn'[c].open = conn[c].open, UNCHANGED <<srv, backlog, disk, scene>>
       PROVE  Counts(c)' /\ Conversation(c)'
  BY Wrote DEF SendType, Message, Kinds, CliAt
<1>1. Counts(c)'
  BY DEF Counts, SendType
<1>2. c = srv.peer /\ c \notin ToSet(backlog) /\ srv.at \in {"loop", "close"}
  BY MeetsLater DEF AtData, Is, Dead
<1>3. conn[c].up = <<>> /\ conn[c].down = <<>>
  BY MeetsLater DEF AtLoop, AtData, AtClose, Is, Dead, Answered
<1>4. Is(c, "data", <<"DATA">>, <<>>)' /\ Len(<<"DATA">>) = 1
  BY <1>3, Streams DEF Is
<1>5. CASE srv.at = "loop"
  <2>1. ~cli[c].told /\ Opened(c) /\ srv.count = cli[c].sent
    BY <1>2, <1>5, MeetsLater DEF AtLoop, Is, Dead, Answered
  <2>2. Opened(c)'
    BY <2>1 DEF Opened, Holds, Partial, Broken, Fault
  <2>3. AtLoop(c)'
    BY <1>4, <2>1, <2>2 DEF AtLoop
  <2>. QED
    BY <1>1, <1>2, <1>5, <2>3 DEF Conversation, Held
<1>6. CASE srv.at = "close"
  <2>1. cli[c].told
    BY <1>2, <1>6, MeetsLater DEF AtClose, Is
  <2>2. AtClose(c)'
    BY <1>4, <2>1 DEF AtClose, Is
  <2>. QED
    BY <1>1, <1>2, <1>6, <2>2 DEF Conversation, Held
<1>. QED
  BY <1>2, <1>5, <1>6

LEMMA SendDataKeeps ==
    ASSUME SocketInv, NEW c \in Clients, SendData(c), UNCHANGED scene
    PROVE  SocketInv'
<1>0. cli[c].sent + 1 \in Nat /\ Block(c, cli[c].sent + 1) \in Message
  <2>1. cli[c].sent \in Nat
    BY DEF SocketInv, CliOK
  <2>. QED
    BY <2>1 DEF Block, Message
<1>. DEFINE b == Block(c, cli[c].sent + 1)
<1>. SUFFICES
       ASSUME Held(c), cli[c].at = "data", Conversation(c), Counts(c), conn[c].up \in Seq(Message),
              cli'[c].at = "dataanswer", cli'[c].sent = cli[c].sent, cli'[c].told = cli[c].told,
              conn'[c].up = Append(conn[c].up, b), conn'[c].down = conn[c].down,
              conn'[c].open = conn[c].open, UNCHANGED <<srv, backlog, disk, scene>>
       PROVE  Counts(c)' /\ Conversation(c)'
  BY <1>0, Wrote DEF SendData, CliAt
<1>1. Counts(c)'
  BY DEF Counts
<1>2. c = srv.peer /\ c \notin ToSet(backlog) /\ srv.at \in {"loop", "data", "close"}
  BY MeetsLater
<1>3. srv.at \in {"loop", "data"} => ~cli[c].told /\ Opened(c) /\ srv.count = cli[c].sent
  BY <1>2, MeetsLater DEF AtLoop, AtData, Is, Dead, Answered
<1>4. srv.at \in {"loop", "data"} => Opened(c)' /\ NextBlock(c)' = b
  BY <1>3 DEF Opened, Holds, Partial, Broken, Fault, NextBlock
<1>. HIDE DEF b
<1>5. CASE srv.at = "loop"
  <2>1. Is(c, "data", <<"DATA">>, <<>>)
    BY <1>2, <1>5, MeetsLater DEF AtLoop, Is, Dead, Answered
  <2>2. Is(c, "dataanswer", <<"DATA", NextBlock(c)>>, <<>>)'
    BY <1>4, <1>5, <2>1, Streams DEF Is
  <2>3. AtLoop(c)'
    BY <1>3, <1>4, <1>5, <2>2 DEF AtLoop
  <2>. QED
    BY <1>1, <1>2, <1>5, <2>3 DEF Conversation, Held
<1>6. CASE srv.at = "data"
  <2>1. Is(c, "data", <<>>, <<>>)
    BY <1>2, <1>6, MeetsLater DEF AtData, Is, Dead
  <2>2. Is(c, "dataanswer", <<NextBlock(c)>>, <<>>)'
    BY <1>4, <1>6, <2>1, Streams DEF Is
  <2>3. AtData(c)'
    BY <1>3, <1>4, <1>6, <2>2 DEF AtData
  <2>. QED
    BY <1>1, <1>2, <1>6, <2>3 DEF Conversation, Held
<1>7. CASE srv.at = "close"
  <2>1. cli[c].told /\ conn[c].down = <<>> /\ Len(conn[c].up) = 1
    BY <1>2, <1>7, MeetsLater DEF AtClose, Is
  <2>2. Len(conn'[c].up) = 2
    <3>1. Len(conn'[c].up) = Len(conn[c].up) + 1
      BY <1>0, MoreAndLess DEF b
    <3>. QED
      BY <2>1, <3>1
  <2>3. AtClose(c)'
    BY <2>1, <2>2 DEF AtClose
  <2>. QED
    BY <1>1, <1>2, <1>7, <2>3 DEF Conversation, Held
<1>. QED
  BY <1>2, <1>5, <1>6, <1>7

LEMMA SendByeKeeps ==
    ASSUME SocketInv, NEW c \in Clients, SendBye(c), UNCHANGED scene
    PROVE  SocketInv'
<1>. SUFFICES
       ASSUME Held(c), cli[c].at = "next", Conversation(c), Counts(c), conn[c].up \in Seq(Message),
              cli'[c].at = "bye", cli'[c].sent = cli[c].sent, cli'[c].told = cli[c].told,
              conn'[c].up = Append(conn[c].up, "BYE"), conn'[c].down = conn[c].down,
              conn'[c].open = conn[c].open, UNCHANGED <<srv, backlog, disk, scene>>
       PROVE  Counts(c)' /\ Conversation(c)'
  BY Wrote DEF SendBye, Message, Kinds, CliAt
<1>1. Counts(c)'
  BY DEF Counts, SendBye
<1>2. c = srv.peer /\ c \notin ToSet(backlog) /\ srv.at \in {"loop", "close"}
  BY MeetsLater DEF AtData, Is, Dead
<1>3. conn[c].up = <<>> /\ conn[c].down = <<>>
  BY MeetsLater DEF AtLoop, AtData, AtClose, Is, Dead, Answered
<1>4. Is(c, "bye", <<"BYE">>, <<>>)' /\ Len(<<"BYE">>) = 1
  BY <1>3, Streams DEF Is
<1>5. CASE srv.at = "loop"
  <2>1. ~cli[c].told /\ Opened(c) /\ srv.count = cli[c].sent
    BY <1>2, <1>5, MeetsLater DEF AtLoop, Is, Dead, Answered
  <2>2. Opened(c)'
    BY <2>1 DEF Opened, Holds, Partial, Broken, Fault
  <2>3. AtLoop(c)'
    BY <1>4, <2>1, <2>2 DEF AtLoop
  <2>. QED
    BY <1>1, <1>2, <1>5, <2>3 DEF Conversation, Held
<1>6. CASE srv.at = "close"
  <2>1. cli[c].told
    BY <1>2, <1>6, MeetsLater DEF AtClose, Is
  <2>2. AtClose(c)'
    BY <1>4, <2>1 DEF AtClose, Is
  <2>. QED
    BY <1>1, <1>2, <1>6, <2>2 DEF Conversation, Held
<1>. QED
  BY <1>2, <1>5, <1>6

LEMMA ReadAnswerKeeps ==
    ASSUME SocketInv, NEW c \in Clients, ReadAnswer(c), UNCHANGED scene
    PROVE  SocketInv'
<1>. DEFINE sent == IF cli[c].at = "dataanswer" THEN cli[c].sent + 1 ELSE cli[c].sent
            to == [cli[c] EXCEPT !.at = "next",
                                 !.sent = IF cli[c].at = "dataanswer" THEN @ + 1 ELSE @]
<1>1. /\ cli[c].at \in {"infoanswer", "dataanswer"} /\ UNCHANGED <<path, backlog, srv, disk, scene>>
      /\ Conversation(c) /\ Counts(c) /\ Alive(c)
  BY DEF SocketInv, Counts, Alive, ReadAnswer
<1>2. /\ cli[c] \in [at : CliAt, sent : Nat, told : BOOLEAN] /\ conn[c] \in Connection
      /\ scene.blocks[c] \in Nat
  BY DEF SocketInv, CliOK, ConnOK, SceneOK, SceneType
<1>3. sent \in Nat /\ sent <= scene.blocks[c]
  BY <1>1, <1>2 DEF Counts
<1>4. to \in [at : CliAt, sent : Nat, told : BOOLEAN] /\ to.at = "next" /\ to.sent = sent
      /\ to.told = cli[c].told
  BY <1>2, <1>3 DEF CliAt
<1>. HIDE DEF to, sent
<1>5. CASE Fails(c, "client") /\ Ends(c, "failed")
  BY <1>1, <1>5, HangUp
<1>6. CASE /\ HasData(c, "client") /\ conn' = Taken(c, "client")
           /\ cli' = [cli EXCEPT ![c] = [to EXCEPT !.told = @ \/ First(c, "client") = "ERROR"]]
  <2>. DEFINE down == conn[c].down
  <2>1. down # <<>> /\ down \in Seq(Answers) /\ First(c, "client") = Head(down)
    BY <1>2, <1>6 DEF HasData, Incoming, Connection, First
  <2>2. /\ Tail(down) \in Seq(Answers) /\ Len(Tail(down)) = Len(down) - 1 /\ Len(down) \in Nat
    BY <2>1, MoreAndLess
  <2>3. /\ conn'[c].up = conn[c].up /\ conn'[c].down = Tail(down) /\ conn'[c].open = conn[c].open
        /\ \A d \in Clients \ {c} : conn'[d] = conn[d]
        /\ ConnOK'
    <3>1. conn' = [conn EXCEPT ![c].down = Tail(@)]
      BY <1>6 DEF Taken, Incoming
    <3>. QED
      BY <1>2, <2>2, <3>1 DEF SocketInv, ConnOK, Connection
  <2>4. /\ cli'[c].at = "next" /\ cli'[c].sent = sent
        /\ Head(down) = "ERROR" => cli'[c].told
        /\ Head(down) # "ERROR" => (cli'[c].told <=> cli[c].told)
        /\ \A d \in Clients \ {c} : cli'[d] = cli[d]
        /\ CliOK'
    <3>1. (to.told \/ First(c, "client") = "ERROR") \in BOOLEAN
      OBVIOUS
    <3>. QED
      BY <1>4, <1>6, <2>1, <3>1 DEF SocketInv, CliOK
  <2>. HIDE DEF down
  <2>5. Counts(c)'
    BY <1>1, <1>3, <2>3, <2>4 DEF Counts
  <2>6. Conversation(c)'
    <3>1. CASE ~Held(c)
      <4>1. Len(Tail(down)) <= 1 /\ conn[c].up = <<>>
        BY <1>1, <2>2, <3>1 DEF Conversation, down
      <4>. QED
        BY <1>1, <2>3, <3>1, <4>1 DEF Conversation, Held
    <3>2. CASE Held(c)
      <4>1. /\ c = srv.peer /\ c \notin ToSet(backlog)
            /\ \/ srv.at = "loop" /\ AtLoop(c)
               \/ srv.at = "close" /\ AtClose(c)
        BY <1>1, <2>1, <3>2, Meets DEF Conversation, Opening, AtInfo, AtAnswer, AtRefuse, AtData,
           Is, Dead, down
      <4>2. CASE srv.at = "loop" /\ AtLoop(c)
        <5>1. conn[c].up = <<>> /\ down = <<"SUCCESS">> /\ Answered(c) /\ Opened(c) /\ ~cli[c].told
          BY <1>1, <2>1, <4>2 DEF AtLoop, Is, Dead, down
        <5>2. Tail(down) = <<>> /\ Head(down) = "SUCCESS"
          BY <5>1, Streams
        <5>3. srv.count = sent
          BY <1>1, <5>1 DEF Answered, Counts, sent
        <5>4. Opened(c)'
          BY <1>1, <5>1 DEF Opened, Holds, Partial, Broken, Fault
        <5>5. AtLoop(c)'
          BY <1>1, <2>3, <2>4, <5>1, <5>2, <5>3, <5>4 DEF AtLoop, Is
        <5>. QED
          BY <1>1, <2>3, <4>1, <4>2, <5>5 DEF Conversation, Held
      <4>3. CASE srv.at = "close" /\ AtClose(c)
        <5>1. conn[c].up = <<>> /\ down = <<"ERROR">>
          BY <1>1, <2>1, <4>3 DEF AtClose, Is, down
        <5>2. Tail(down) = <<>> /\ Head(down) = "ERROR"
          BY <5>1, Streams
        <5>3. AtClose(c)'
          BY <2>3, <2>4, <5>1, <5>2 DEF AtClose
        <5>. QED
          BY <1>1, <2>3, <4>1, <4>3, <5>3 DEF Conversation, Held
      <4>. QED
        BY <4>1, <4>2, <4>3
    <3>. QED
      BY <3>1, <3>2
  <2>. QED
    BY <1>1, <2>3, <2>4, <2>5, <2>6, OthersKeep DEF Good
<1>7. CASE /\ AtEnd(c, "client") /\ UNCHANGED conn
           /\ \E told \in BOOLEAN : cli' = [cli EXCEPT ![c] = [to EXCEPT !.told = told]]
  <2>1. /\ cli'[c].at = "next" /\ cli'[c].sent = sent
        /\ \A d \in Clients \ {c} : cli'[d] = cli[d]
        /\ CliOK' /\ ConnOK'
    BY <1>4, <1>7 DEF SocketInv, CliOK, ConnOK
  <2>2. ~Held(c)
    BY <1>7 DEF AtEnd, SocketInv, Queue
  <2>3. Counts(c)'
    BY <1>1, <1>3, <1>7, <2>1 DEF Counts
  <2>4. Conversation(c)'
    BY <1>1, <1>7, <2>2 DEF Conversation, Held
  <2>. QED
    BY <1>1, <1>7, <2>1, <2>3, <2>4, OthersKeep DEF Good
<1>8. \A told \in IF cli[c].at = "infoanswer" THEN BOOLEAN ELSE {cli[c].told} : told \in BOOLEAN
  BY <1>2
<1>. QED
  BY <1>5, <1>6, <1>7, <1>8 DEF ReadAnswer, to

LEMMA SourceFailsKeeps ==
    ASSUME SocketInv, NEW c \in Clients, SourceFails(c), UNCHANGED scene
    PROVE  SocketInv'
<1>1. /\ cli[c].at = "next" /\ UNCHANGED <<path, backlog, conn, srv, disk, scene>>
      /\ Conversation(c) /\ Counts(c)
  BY DEF SocketInv, SourceFails
<1>2. /\ cli'[c].at = "exit" /\ cli'[c].sent = cli[c].sent /\ cli'[c].told = cli[c].told
      /\ \A d \in Clients \ {c} : cli'[d] = cli[d]
      /\ CliOK' /\ ConnOK'
  BY <1>1 DEF SourceFails, SocketInv, CliOK, CliAt, ConnOK
<1>3. Counts(c)'
  BY <1>1, <1>2 DEF Counts
<1>4. Conversation(c)'
  <2>1. CASE ~Held(c)
    BY <1>1, <2>1 DEF Conversation, Held
  <2>2. CASE Held(c)
    <3>0. ~AtData(c)
      BY <1>1 DEF AtData, Is, Dead
    <3>1. /\ c = srv.peer /\ c \notin ToSet(backlog)
          /\ \/ srv.at = "loop" /\ AtLoop(c)
             \/ srv.at = "close" /\ AtClose(c)
      BY <1>1, <2>2, <3>0, MeetsLater
    <3>2. conn[c].up = <<>> /\ conn[c].down = <<>>
      BY <1>1, <3>1 DEF AtLoop, AtClose, Is, Dead, Answered
    <3>3. AtLoop(c) /\ srv.at = "loop" => AtLoop(c)'
      BY <1>1, <1>2, <3>2 DEF AtLoop, Is, Dead, Answered, Opened, Holds, Partial, Broken, Fault
    <3>4. AtClose(c) => AtClose(c)'
      BY <1>1, <1>2, <3>2 DEF AtClose, Is
    <3>. QED
      BY <1>1, <3>1, <3>3, <3>4 DEF Conversation, Held
  <2>. QED
    BY <2>1, <2>2
<1>. QED
  BY <1>1, <1>2, <1>3, <1>4, OthersKeep DEF Good

LEMMA SayByeKeeps ==
    ASSUME SocketInv, NEW c \in Clients, SayBye(c), UNCHANGED scene
    PROVE  SocketInv'
<1>. DEFINE how == IF cli[c].at = "bye" THEN "done" ELSE "failed"
            said == WithBye(conn[c])
<1>1. /\ cli[c].at \in {"bye", "exit"} /\ UNCHANGED <<path, backlog, srv, disk, scene>>
      /\ Conversation(c) /\ Counts(c) /\ Alive(c)
  BY DEF SocketInv, Counts, Alive, SayBye
<1>2. CASE "server" \notin conn[c].open /\ Ends(c, "failed")
  BY <1>1, <1>2, HangUp
<1>3. CASE /\ "server" \in conn[c].open
           /\ cli' = [cli EXCEPT ![c].at = how]
           /\ conn' = [conn EXCEPT ![c] = Closed(said, "client")]
  <2>1. conn[c] \in Connection /\ conn[c].up \in Seq(Message) /\ "BYE" \in Message
    BY DEF SocketInv, ConnOK, Connection, Message, Kinds
  <2>2. Append(conn[c].up, "BYE") \in Seq(Message)
        /\ Len(Append(conn[c].up, "BYE")) = Len(conn[c].up) + 1
    BY <2>1, MoreAndLess
  <2>3. said \in Connection /\ said.up = Append(conn[c].up, "BYE") /\ said.open = conn[c].open
    BY <2>1, <2>2 DEF Connection, WithBye
  <2>. HIDE DEF said
  <2>4. /\ conn'[c].up = Append(conn[c].up, "BYE") /\ conn'[c].down = <<>>
        /\ conn'[c].open = conn[c].open \ {"client"}
        /\ \A d \in Clients \ {c} : conn'[d] = conn[d]
        /\ ConnOK'
    <3>1. LET closed == Closed(said, "client") IN
          /\ closed \in Connection /\ closed.open = said.open \ {"client"}
          /\ closed.up = said.up /\ closed.down = <<>>
      BY <2>3, CloseClient
    <3>2. conn'[c] = Closed(said, "client") /\ \A d \in Clients \ {c} : conn'[d] = conn[d]
      BY <1>3 DEF SocketInv, ConnOK
    <3>3. ConnOK'
      BY <1>3, <3>1 DEF SocketInv, ConnOK
    <3>. QED
      BY <2>3, <3>1, <3>2, <3>3
  <2>5. /\ cli'[c].at = how /\ cli'[c].sent = cli[c].sent /\ cli'[c].told = cli[c].told
        /\ \A d \in Clients \ {c} : cli'[d] = cli[d]
        /\ CliOK'
    BY <1>3 DEF SocketInv, CliOK, CliAt
  <2>6. Counts(c)'
    BY <1>1, <2>4, <2>5 DEF Counts
  <2>7. Held(c)
    BY <1>3 DEF SocketInv, Queue
  <2>8. /\ c = srv.peer /\ c \notin ToSet(backlog) /\ ~AtData(c)
        /\ \/ srv.at = "loop" /\ AtLoop(c)
           \/ srv.at = "close" /\ AtClose(c)
    <3>1. ~AtData(c)
      BY <1>1 DEF AtData, Is, Dead
    <3>. QED
      BY <1>1, <2>7, <3>1, MeetsLater
  <2>9. CASE srv.at = "loop" /\ AtLoop(c)
    <3>1. /\ ~cli[c].told /\ Opened(c) /\ srv.count = cli[c].sent /\ conn[c].down = <<>>
          /\ cli[c].at = "bye" => conn[c].up = <<"BYE">>
          /\ cli[c].at = "exit" => conn[c].up = <<>>
      BY <1>1, <2>9 DEF AtLoop, Is, Dead, Answered
    <3>2. Opened(c)'
      BY <1>1, <3>1 DEF Opened, Holds, Partial, Broken, Fault
    <3>3. CASE cli[c].at = "bye"
      <4>0. Append(<<"BYE">>, "BYE") = <<"BYE", "BYE">>
        BY Streams
      <4>1. Is(c, "done", <<"BYE", "BYE">>, <<>>)'
        BY <2>4, <2>5, <3>1, <3>3, <4>0 DEF Is
      <4>2. AtLoop(c)'
        BY <1>1, <2>5, <3>1, <3>2, <4>1 DEF AtLoop
      <4>3. Holds(c, scene.blocks[c])
        BY <1>1, <3>1, <3>3 DEF Opened, Counts
      <4>4. Conversation(c)'
        BY <1>1, <2>8, <2>9, <4>2 DEF Conversation, Held
      <4>. QED
        BY <1>1, <2>4, <2>5, <2>6, <2>8, <4>3, <4>4, OthersKeep
    <3>4. CASE cli[c].at = "exit"
      <4>1. Dead(c, {<<"BYE">>})' /\ cli'[c].at = "failed"
        BY <2>4, <2>5, <3>1, <3>4, Streams DEF Dead
      <4>2. AtLoop(c)'
        BY <1>1, <2>5, <3>1, <3>2, <4>1 DEF AtLoop, Dead
      <4>3. Conversation(c)'
        BY <1>1, <2>8, <2>9, <4>2 DEF Conversation, Held
      <4>. QED
        BY <1>1, <2>4, <2>5, <2>6, <4>1, <4>3, OthersKeep DEF Good
    <3>. QED
      BY <1>1, <3>3, <3>4
  <2>10. CASE srv.at = "close" /\ AtClose(c)
    <3>. DEFINE n == Len(conn[c].up)
    <3>1. \/ conn[c].up = <<>>
          \/ n = 1
      BY <1>1, <2>10 DEF AtClose, Is
    <3>2. conn[c].up = <<>> => n = 0
      OBVIOUS
    <3>3. Len(conn'[c].up) <= 2
      <4>1. n = 0 \/ n = 1
        BY <3>1, <3>2
      <4>2. Len(conn'[c].up) = n + 1
        BY <2>2, <2>4
      <4>. HIDE DEF n
      <4>. QED
        BY <4>1, <4>2
    <3>4. AtClose(c)'
      BY <2>4, <2>5, <3>3 DEF AtClose
    <3>5. Conversation(c)'
      BY <1>1, <2>8, <2>10, <3>4 DEF Conversation, Held
    <3>6. Good(c)' => Holds(c, scene.blocks[c])
      BY <1>1, <2>5, <2>10 DEF Good, AtClose, Is
    <3>. QED
      BY <1>1, <2>4, <2>5, <2>6, <2>8, <3>5, <3>6, OthersKeep
  <2>. QED
    BY <2>8, <2>9, <2>10
<1>4. \/ "server" \notin conn[c].open /\ Ends(c, "failed")
      \/ /\ "server" \in conn[c].open
         /\ cli' = [cli EXCEPT ![c].at = how]
         /\ conn' = [conn EXCEPT ![c] = Closed(said, "client")]
  BY DEF SayBye
<1>. QED
  BY <1>2, <1>3, <1>4

LEMMA ConnectKeeps ==
    ASSUME SocketInv, NEW c \in Clients, Connect(c), UNCHANGED scene
    PROVE  SocketInv'
<1>1. /\ cli[c].at = "new" /\ c \in scene.run /\ UNCHANGED <<path, srv, disk, scene>>
      /\ Conversation(c) /\ Counts(c) /\ conn[c] = NoConn
  BY DEF SocketInv, Counts, Connect
<1>2. ~Held(c)
  BY <1>1 DEF SocketInv, Queue, NoConn
<1>3. CASE /\ srv.at # "off" /\ Len(backlog) <= Backlog
           /\ cli' = [cli EXCEPT ![c].at = "infotype"]
           /\ conn' = [conn EXCEPT ![c] = NewConn]
           /\ backlog' = Append(backlog, c)
  <2>1. /\ NewConn \in Connection /\ NewConn.up = <<>> /\ NewConn.down = <<>>
        /\ NewConn.open = {"client", "server"}
    BY EmptySeq DEF NewConn, NoConn, Connection, Sides
  <2>2. /\ conn'[c] = NewConn /\ \A d \in Clients \ {c} : conn'[d] = conn[d]
        /\ ConnOK'
    BY <1>3, <2>1 DEF SocketInv, ConnOK
  <2>3. /\ cli'[c].at = "infotype" /\ cli'[c].sent = cli[c].sent /\ cli'[c].told = cli[c].told
        /\ \A d \in Clients \ {c} : cli'[d] = cli[d]
        /\ CliOK'
    BY <1>3 DEF SocketInv, CliOK, CliAt
  <2>4. /\ backlog \in Seq(scene.run) /\ IsInjective(backlog) /\ c \notin ToSet(backlog)
        /\ Len(backlog) \in Nat
    BY <1>2, LenProperties DEF SocketInv, Queue, Held
  <2>5. /\ ToSet(backlog') = ToSet(backlog) \cup {c} /\ IsInjective(backlog')
        /\ backlog' \in Seq(scene.run) /\ Len(backlog') = Len(backlog) + 1
    BY <1>1, <1>3, <2>4, QueueGrows, AppendProperties
  <2>6. Queue'
    <3>1. Len(backlog') <= Backlog + 1
      BY <1>3, <2>4, <2>5, SocketAssumption
    <3>2. \A d \in Clients : "server" \in conn'[d].open <=> Held(d)'
      BY <1>1, <2>1, <2>2, <2>5 DEF SocketInv, Queue, Held
    <3>. QED
      BY <1>1, <1>2, <1>3, <2>5, <3>1, <3>2 DEF SocketInv, Queue, Held
  <2>7. cli[c].sent = 0 /\ ~cli[c].told
    BY <1>1 DEF Counts
  <2>8. Counts(c)'
    BY <1>1, <2>1, <2>2, <2>3, <2>7 DEF Counts
  <2>9. Opening(c)'
    BY <2>1, <2>2, <2>3, <2>7 DEF Opening, Is
  <2>10. Conversation(c)'
    BY <1>1, <1>2, <2>5, <2>9 DEF Conversation, Held
  <2>11. \A d \in Clients \ {c} : d \in ToSet(backlog') <=> d \in ToSet(backlog)
    BY <2>5
  <2>. QED
    BY <1>1, <2>2, <2>3, <2>6, <2>8, <2>10, <2>11, OneClient DEF Good
<1>4. CASE cli' = [cli EXCEPT ![c].at = "failed"] /\ UNCHANGED <<conn, backlog>>
  <2>1. /\ cli'[c].at = "failed" /\ cli'[c].sent = cli[c].sent /\ cli'[c].told = cli[c].told
        /\ \A d \in Clients \ {c} : cli'[d] = cli[d]
        /\ CliOK' /\ ConnOK'
    BY <1>4 DEF SocketInv, CliOK, CliAt, ConnOK
  <2>2. Counts(c)'
    BY <1>1, <1>4, <2>1 DEF Counts, NoConn
  <2>3. Conversation(c)'
    BY <1>1, <1>2, <1>4 DEF Conversation, Held
  <2>. QED
    BY <1>1, <1>4, <2>1, <2>2, <2>3, OthersKeep DEF Good
<1>. QED
  BY <1>3, <1>4 DEF Connect
-----------------------------------------------------------------------------
(* The server: it has to do with one client at a time. *)

\* Nobody has more than two messages to the server in the stream, nor more than
\* one answer.
LEMMA Short ==
    ASSUME SocketInv, NEW c \in Clients
    PROVE  Len(conn[c].up) <= 2 /\ Len(conn[c].down) <= 1
<1>1. Conversation(c)
  BY DEF SocketInv
<1>. DEFINE n == Len(conn[c].up)
            m == Len(conn[c].down)
<1>2. /\ conn[c].up = <<>> => n = 0
      /\ \A x : conn[c].up = <<x>> => n = 1
      /\ \A x, y : conn[c].up = <<x, y>> => n = 2
  BY Streams
<1>3. conn[c].down = <<>> => m = 0
  OBVIOUS
<1>4. \A x : conn[c].down = <<x>> => m = 1
  BY Streams
<1>5. CASE Held(c)
  <2>1. n \in {0, 1, 2} \/ n <= 2
    BY <1>1, <1>2, <1>5, Meets DEF Conversation, Opening, AtInfo, AtAnswer, AtRefuse, AtLoop, AtData,
       AtClose, Is, Dead
  <2>2. m \in {0, 1}
    BY <1>1, <1>3, <1>4, <1>5, Meets DEF Conversation, Opening, AtInfo, AtAnswer, AtRefuse, AtLoop,
       AtData, AtClose, Is, Dead
  <2>. HIDE DEF n, m
  <2>3. n <= 2 /\ m <= 1
    BY <2>1, <2>2
  <2>. QED
    BY <2>3 DEF n, m
<1>6. CASE ~Held(c)
  BY <1>1, <1>2, <1>6 DEF Conversation
<1>. QED
  BY <1>5, <1>6

LEMMA StartServerKeeps ==
    ASSUME SocketInv, StartServer, UNCHANGED scene
    PROVE  SocketInv'
<1>1. /\ srv.at = "off" /\ srv.starts < scene.starts /\ srv.peer = None /\ backlog = <<>>
      /\ path' = TRUE /\ UNCHANGED <<backlog, conn, cli, disk, scene>>
  BY DEF StartServer, SocketInv, Queue
<1>2. srv \in [at : SrvAt, starts : Nat, peer : Clients \cup {None}, conv : Kinds \cup {None},
               name : Files \cup {None}, resp : Answers, fd : Files \cup {"other", None}, off : Nat,
             count : Nat]
      /\ scene.starts \in Nat
  BY DEF SocketInv, SrvOK, SceneOK, SceneType
<1>3. PICK kind \in Kinds \cup {None} :
         srv' = [srv EXCEPT !.at = "accept", !.starts = @ + 1, !.conv = kind, !.name = None]
  BY DEF StartServer
<1>4. /\ SrvOK' /\ srv'.at = "accept" /\ srv'.peer = None /\ srv'.name = None /\ srv'.fd = srv.fd
      /\ srv'.starts = srv.starts + 1
  <2>1. srv.starts + 1 \in Nat
    BY <1>2
  <2>. QED
    BY <1>1, <1>2, <1>3, <2>1 DEF SocketInv, SrvOK, SrvAt
<1>5. srv'.starts <= scene.starts
  BY <1>1, <1>2, <1>4
<1>6. Queue'
  BY <1>1, <1>4, <1>5 DEF SocketInv, Queue, Held
<1>7. SceneOK' /\ CliOK' /\ ConnOK'
  BY <1>1 DEF SocketInv, SceneOK, CliOK, ConnOK
<1>8. DiskOK'
  BY <1>1, <1>4, SocketAssumption DEF SocketInv, DiskOK, Owned, Partial, Broken, Fault
<1>9. Kept'
  BY <1>1, <1>4 DEF SocketInv, Kept, Good, Holds, Partial, Broken, Fault
<1>10. \A c \in Clients : Counts(c)'
  BY <1>1 DEF SocketInv, Counts
<1>11. ASSUME NEW c \in Clients PROVE Conversation(c)'
  <2>1. ~Held(c) /\ ~Held(c)'
    BY <1>1, <1>4, SocketAssumption DEF Held, ToSet
  <2>2. c # srv'.peer /\ c \notin ToSet(backlog')
    BY <2>1 DEF Held
  <2>. QED
    BY <1>1, <2>1, <2>2 DEF SocketInv, Conversation
<1>. QED
  BY <1>4, <1>6, <1>7, <1>8, <1>9, <1>10, <1>11 DEF SocketInv

\* However the server ends, all connections are closed and all is forgotten.
LEMMA DiesKeeps ==
    ASSUME SocketInv, NEW byExit \in BOOLEAN, Dies(byExit), UNCHANGED scene
    PROVE  SocketInv'
<1>1. /\ srv'.at = "off" /\ srv'.peer = None /\ srv'.fd = None /\ srv'.name = srv.name
      /\ srv'.starts = srv.starts /\ SrvOK'
  BY DEF Dies, SocketInv, SrvOK, SrvAt
<1>2. backlog' = <<>> /\ UNCHANGED <<cli, disk, scene>> /\ path' \in BOOLEAN
  BY DEF Dies
<1>3. ASSUME NEW c \in Clients
      PROVE  /\ conn'[c] \in Connection /\ conn'[c].open = conn[c].open \ {"server"}
             /\ conn'[c].up = <<>> /\ conn'[c].down = conn[c].down
             /\ "server" \notin conn[c].open => conn'[c] = conn[c]
  <2>1. conn[c] \in Connection
    BY DEF SocketInv, ConnOK
  <2>2. conn'[c] = IF "server" \in conn[c].open THEN Closed(conn[c], "server") ELSE conn[c]
    BY DEF Dies
  <2>3. "server" \notin conn[c].open => conn[c].up = <<>>
    BY DEF SocketInv, Queue, Conversation
  <2>4. "server" \notin conn[c].open => conn[c].open = conn[c].open \ {"server"}
    OBVIOUS
  <2>5. CASE "server" \in conn[c].open
    BY <2>1, <2>2, <2>5, CloseServer
  <2>6. CASE "server" \notin conn[c].open
    BY <2>1, <2>2, <2>3, <2>4, <2>6
  <2>. QED
    BY <2>5, <2>6
<1>4. ConnOK'
  BY <1>3 DEF Dies, ConnOK
<1>5. \A c \in Clients : ~Held(c)'
  BY <1>1, <1>2, SocketAssumption DEF Held, ToSet
<1>6. Queue'
  <2>1. backlog' \in Seq(scene'.run) /\ Len(backlog') = 0 /\ 0 <= Backlog + 1
    BY <1>2, EmptySeq, SocketAssumption
  <2>2. IsInjective(backlog') /\ ToSet(backlog') = {}
    BY <1>2 DEF IsInjective, ToSet
  <2>3. \A c \in Clients : "server" \notin conn'[c].open
    BY <1>3
  <2>. QED
    BY <1>1, <1>2, <1>5, <2>1, <2>2, <2>3 DEF SocketInv, Queue
<1>7. DiskOK'
  BY <1>1, <1>2 DEF SocketInv, DiskOK, Owned, Partial, Broken, Fault
<1>8. Kept'
  <2>1. \A c \in Clients : scene.dest[c] # None
    BY SocketAssumption DEF SocketInv, SceneOK, SceneType
  <2>. QED
    BY <1>1, <1>2, <2>1 DEF SocketInv, Kept, Good, Holds, Partial, Broken, Fault
<1>9. \A c \in Clients : Counts(c)'
  BY <1>2, <1>3 DEF SocketInv, Counts, NoConn
<1>10. ASSUME NEW c \in Clients PROVE Conversation(c)'
  <2>1. conn'[c].up = <<>> /\ Len(conn'[c].down) <= 1
    BY <1>3, Short
  <2>2. c # srv'.peer /\ c \notin ToSet(backlog')
    BY <1>5 DEF Held
  <2>. QED
    BY <2>1, <2>2 DEF Conversation
<1>11. SceneOK' /\ CliOK'
  BY <1>2 DEF SocketInv, SceneOK, CliOK
<1>. QED
  BY <1>1, <1>4, <1>6, <1>7, <1>8, <1>9, <1>10, <1>11 DEF SocketInv

LEMMA AcceptKeeps ==
    ASSUME SocketInv, Accept, UNCHANGED scene
    PROVE  SocketInv'
<1>. DEFINE p == Head(backlog)
<1>1. /\ srv.at = "accept" /\ srv.peer = None /\ backlog # <<>> /\ backlog' = Tail(backlog)
      /\ UNCHANGED <<path, conn, cli, disk, scene>>
  BY DEF Accept, SocketInv, Queue
<1>2. /\ backlog \in Seq(scene.run) /\ IsInjective(backlog) /\ Len(backlog) <= Backlog + 1
      /\ scene.run \subseteq Clients
  BY DEF SocketInv, Queue, SceneOK, SceneType
<1>3. /\ p \in ToSet(backlog) /\ ToSet(backlog') = ToSet(backlog) \ {p} /\ IsInjective(backlog')
      /\ backlog' \in Seq(scene.run) /\ p \in Clients
      /\ Len(backlog') = Len(backlog) - 1 /\ Len(backlog) \in Nat
  BY <1>1, <1>2, QueueShrinks, HeadTailProperties, LenProperties
<1>. HIDE DEF p
<1>4. /\ srv'.at = "first" /\ srv'.peer = p /\ srv'.fd = srv.fd /\ srv'.name = srv.name
      /\ srv'.starts = srv.starts /\ SrvOK'
  BY <1>3 DEF Accept, SocketInv, SrvOK, SrvAt, p
<1>5. \A c \in Clients : Held(c)' <=> Held(c)
  BY <1>1, <1>3, <1>4, SocketAssumption DEF Held
<1>6. Queue'
  <2>1. Len(backlog') <= Backlog + 1
    BY <1>2, <1>3, SocketAssumption
  <2>. QED
    BY <1>1, <1>3, <1>4, <1>5, <2>1, SocketAssumption DEF SocketInv, Queue
<1>7. SceneOK' /\ CliOK' /\ ConnOK'
  BY <1>1 DEF SocketInv, SceneOK, CliOK, ConnOK
<1>8. DiskOK'
  BY <1>1, <1>4 DEF SocketInv, DiskOK, Owned, Partial, Broken, Fault
<1>9. Kept'
  BY <1>1, <1>4, SocketAssumption DEF SocketInv, Kept, Good, Holds, Partial, Broken, Fault
<1>10. \A c \in Clients : Counts(c)'
  BY <1>1 DEF SocketInv, Counts
<1>11. ASSUME NEW c \in Clients PROVE Conversation(c)'
  <2>1. Opening(c)' <=> Opening(c)
    BY <1>1 DEF Opening, Is, Dead, Request
  <2>. QED
    BY <1>1, <1>3, <1>4, <1>5, <2>1 DEF SocketInv, Conversation
<1>. QED
  BY <1>4, <1>6, <1>7, <1>8, <1>9, <1>10, <1>11 DEF SocketInv

\* A step for the client at hand concerns its own conversation and file only.
LEMMA ServerOne ==
    ASSUME SocketInv, NEW p \in Clients, p = srv.peer, p = srv'.peer,
           srv'.at \in {"first", "info", "answer", "refuse", "loop", "data", "close"},
           srv'.starts = srv.starts, UNCHANGED <<path, backlog, cli, scene>>,
           SrvOK', ConnOK', DiskOK', Kept',
           \A c \in Clients \ {p} : conn'[c] = conn[c],
           conn'[p].open = conn[p].open, Conversation(p)'
    PROVE  SocketInv'
<1>1. SceneOK' /\ CliOK'
  BY DEF SocketInv, SceneOK, CliOK
<1>2. Queue'
  BY SocketAssumption DEF SocketInv, Queue, Held
<1>3. \A c \in Clients : Counts(c)'
  BY DEF SocketInv, Counts, NoConn, Queue, Held
<1>4. ASSUME NEW c \in Clients, c # p PROVE Conversation(c)'
  <2>1. Conversation(c) /\ conn'[c] = conn[c]
    BY <1>4 DEF SocketInv
  <2>. QED
    BY <1>4, <2>1 DEF Conversation, Held, Opening, Is, Dead, Request
<1>. QED
  BY <1>1, <1>2, <1>3, <1>4 DEF SocketInv

\* The files are as before.
LEMMA SameFiles ==
    ASSUME SocketInv, UNCHANGED <<disk, cli, scene>>, srv'.peer = srv.peer, srv'.fd = srv.fd,
           srv'.name = srv.name
    PROVE  DiskOK' /\ Kept'
<1>1. DiskOK'
  BY SameHolds DEF SocketInv
<1>2. ASSUME NEW c \in Clients, Good(c)
      PROVE  Holds(c, scene.blocks[c])' /\ (c # srv'.peer => srv'.fd # scene'.dest[c])
  <2>1. Holds(c, scene.blocks[c]) /\ (c # srv.peer => srv.fd # scene.dest[c])
    BY <1>2 DEF SocketInv, Kept
  <2>. QED
    BY <2>1 DEF Holds, Partial, Broken, Fault
<1>. QED
  BY <1>1, <1>2 DEF Kept, Good

\* What a read() takes out of the stream.
LEMMA Took ==
    ASSUME SocketInv, NEW p \in Clients, HasData(p, "server"), conn' = Taken(p, "server")
    PROVE  /\ conn[p].up # <<>> /\ conn[p].up \in Seq(Message)
           /\ conn'[p].up = Tail(conn[p].up) /\ conn'[p].down = conn[p].down
           /\ conn'[p].open = conn[p].open /\ ConnOK'
           /\ \A c \in Clients \ {p} : conn'[c] = conn[c]
           /\ First(p, "server") = Head(conn[p].up)
<1>1. conn[p] \in Connection /\ conn[p].up \in Seq(Message) /\ conn[p].up # <<>>
      /\ First(p, "server") = Head(conn[p].up)
  BY DEF SocketInv, ConnOK, Connection, HasData, Incoming, First
<1>2. Tail(conn[p].up) \in Seq(Message)
  BY <1>1, MoreAndLess
<1>3. conn' = [conn EXCEPT ![p].up = Tail(@)]
  BY DEF Taken, Incoming
<1>. QED
  BY <1>1, <1>2, <1>3 DEF SocketInv, ConnOK, Connection

\* At the end of the stream there is nothing in it and the client is gone.
LEMMA Ended0 ==
    ASSUME SocketInv, NEW p \in Clients, AtEnd(p, "server")
    PROVE  conn[p].up = <<>> /\ cli[p].at \in {"new", "done", "failed"}
  BY DEF SocketInv, AtEnd, HasData, Incoming, Counts

\* The client at hand is one, and waits for nothing else.
LEMMA AtHand ==
    ASSUME SocketInv, srv.at \notin {"off", "accept"}
    PROVE  /\ srv.peer \in Clients /\ srv.peer \notin ToSet(backlog)
           /\ Held(srv.peer) /\ Conversation(srv.peer)
  BY DEF SocketInv, Queue, SrvOK, Held

LEMMA ReadFirstKeeps ==
    ASSUME SocketInv, ReadFirst, UNCHANGED scene
    PROVE  SocketInv'
<1>1. srv.at = "first"
  BY DEF ReadFirst, ServerReads
<1>. PICK p \in Clients : p = srv.peer
  BY <1>1, AtHand
<1>2. p \notin ToSet(backlog) /\ Opening(p)
  BY <1>1, AtHand DEF Conversation
<1>3. ASSUME NEW kind \in Kinds \cup {None}, FirstType(kind)
      PROVE  /\ SrvOK' /\ srv'.at = (IF kind = "INFO" THEN "info" ELSE "close")
             /\ srv'.peer = srv.peer /\ srv'.fd = srv.fd /\ srv'.name = srv.name
             /\ srv'.starts = srv.starts /\ UNCHANGED disk
  BY <1>3 DEF FirstType, SocketInv, SrvOK, SrvAt
<1>4. CASE /\ HasData(p, "server") /\ conn' = Taken(p, "server") /\ FirstType(First(p, "server"))
           /\ UNCHANGED <<path, backlog, cli>>
  <2>1. conn[p].up # <<>> /\ conn'[p].up = Tail(conn[p].up) /\ conn'[p].down = conn[p].down
        /\ First(p, "server") = Head(conn[p].up)
    BY <1>2, <1>4, Took
  <2>2. /\ conn[p].down = <<>>
        /\ conn[p].up = <<"INFO">> \/ conn[p].up = <<"INFO", Request(p)>>
        /\ \/ cli[p].at = "info" /\ conn[p].up = <<"INFO">>
           \/ cli[p].at = "infoanswer" /\ conn[p].up = <<"INFO", Request(p)>>
           \/ cli[p].at = "failed"
    BY <1>2, <2>1 DEF Opening, Is, Dead
  <2>3. /\ First(p, "server") = "INFO"
        /\ conn[p].up = <<"INFO">> => conn'[p].up = <<>>
        /\ conn[p].up = <<"INFO", Request(p)>> => conn'[p].up = <<Request(p)>>
    <3>. DEFINE r == Request(p)
    <3>1. /\ Head(<<"INFO">>) = "INFO" /\ Tail(<<"INFO">>) = <<>>
          /\ Head(<<"INFO", r>>) = "INFO" /\ Tail(<<"INFO", r>>) = <<r>>
      BY Streams
    <3>. HIDE DEF r
    <3>2. conn[p].up = <<"INFO">> \/ conn[p].up = <<"INFO", r>>
      BY <2>2 DEF r
    <3>3. /\ First(p, "server") = "INFO"
          /\ conn[p].up = <<"INFO">> => conn'[p].up = <<>>
          /\ conn[p].up = <<"INFO", r>> => conn'[p].up = <<r>>
      BY <2>1, <3>1, <3>2
    <3>. QED
      BY <3>3 DEF r
  <2>4. srv'.at = "info" /\ srv'.peer = p
    BY <1>3, <1>4, <2>3 DEF Kinds
  <2>5. AtInfo(p)'
    <3>1. ~cli[p].told /\ cli' = cli /\ Request(p)' = Request(p)
      BY <1>2, <1>4 DEF Opening, Request
    <3>. QED
      BY <1>4, <2>1, <2>2, <2>3, <3>1 DEF AtInfo, Is, Dead
  <2>6. Conversation(p)'
    BY <1>2, <1>4, <2>4, <2>5 DEF Conversation, Held
  <2>. QED
    BY <1>2, <1>3, <1>4, <2>3, <2>4, <2>6, Took, SameFiles, ServerOne DEF Kinds
<1>5. CASE /\ AtEnd(p, "server") /\ FirstType(srv.conv)
           /\ UNCHANGED <<path, backlog, conn, cli>>
  <2>1. conn[p].up = <<>> /\ cli[p].at = "failed" /\ conn[p].down = <<>> /\ ~cli[p].told
    BY <1>2, <1>5, Ended0 DEF Opening, Is, Dead
  <2>2. srv.conv \in Kinds \cup {None}
    BY DEF SocketInv, SrvOK
  <2>3. srv'.at \in {"info", "close"} /\ srv'.peer = p /\ SrvOK' /\ UNCHANGED disk
        /\ srv'.fd = srv.fd /\ srv'.name = srv.name /\ srv'.starts = srv.starts
    BY <1>3, <1>5, <2>2
  <2>4. AtInfo(p)' /\ AtClose(p)'
    <3>1. cli' = cli /\ conn' = conn
      BY <1>5
    <3>2. AtInfo(p)'
      BY <2>1, <3>1 DEF AtInfo, Dead
    <3>3. Len(conn'[p].up) <= 2
      BY <2>1, <3>1, Short
    <3>. QED
      BY <2>1, <3>1, <3>2, <3>3 DEF AtClose
  <2>5. Conversation(p)'
    BY <1>2, <1>5, <2>3, <2>4 DEF Conversation, Held
  <2>6. ConnOK'
    BY <1>5 DEF SocketInv, ConnOK
  <2>. QED
    BY <1>2, <1>5, <2>3, <2>5, <2>6, SameFiles, ServerOne
<1>6. CASE Dies(TRUE)
  BY <1>6, DiesKeeps
<1>. QED
  BY <1>4, <1>5, <1>6 DEF ReadFirst, ServerReads

\* A new file: nobody has it, and nobody else gets it.
LEMMA NewFile ==
    ASSUME SocketInv, NEW p \in Clients, p = srv.peer, cli[p].at # "done",
           UNCHANGED <<cli, scene>>, srv'.peer = p,
           NEW content, Created(scene.dest[p], content), scene.dest[p] \notin DOMAIN disk,
           content = <<>> \/ content = Partial(p, 0),
           srv'.name = scene.dest[p], srv'.fd \in {scene.dest[p], srv.fd}
    PROVE  /\ DiskOK' /\ Kept'
           /\ scene.dest[p] \in DOMAIN disk' \ scene.existing /\ disk'[scene.dest[p]] = content
<1>. DEFINE f == scene.dest[p]
<1>1. f \in Files /\ scene.blocks[p] \in Nat
  BY DEF SocketInv, SceneOK, SceneType
<1>2. /\ DOMAIN disk' = DOMAIN disk \cup {f} /\ disk'[f] = content
      /\ \A g \in DOMAIN disk : disk'[g] = disk[g]
  BY DEF Created
<1>3. /\ f \notin scene.existing
      /\ \A c \in Clients : \A n : Partial(c, n)' = Partial(c, n)
      /\ \A c \in Clients : \A g : Broken(c, g)' <=> Broken(c, g)
  BY DEF SocketInv, DiskOK, Partial, Broken, Fault
<1>. HIDE DEF f
<1>4. Owned(f)'
  BY <1>1, <1>2, <1>3 DEF Owned, f
<1>5. \A g \in DOMAIN disk : Owned(g) => Owned(g)'
  BY <1>2, <1>3 DEF Owned
<1>6. DiskOK'
  BY <1>1, <1>2, <1>3, <1>4, <1>5 DEF SocketInv, DiskOK, f
<1>7. Kept'
  <2>. SUFFICES ASSUME NEW c \in Clients, Good(c)
                PROVE  Holds(c, scene.blocks[c])' /\ (c # srv'.peer => srv'.fd # scene.dest[c])
    BY DEF Kept, Good
  <2>1. /\ c # p /\ scene.dest[c] \in DOMAIN disk /\ Holds(c, scene.blocks[c])
        /\ srv.fd # scene.dest[c]
    BY DEF SocketInv, Kept, Good, Holds
  <2>2. srv'.fd # scene.dest[c]
    BY <2>1
  <2>3. Holds(c, scene.blocks[c])'
    BY <1>2, <1>3, <2>1 DEF Holds
  <2>. QED
    BY <2>2, <2>3
<1>. QED
  BY <1>2, <1>3, <1>6, <1>7 DEF f

LEMMA ReadInfoKeeps ==
    ASSUME SocketInv, ReadInfo, UNCHANGED scene
    PROVE  SocketInv'
<1>1. srv.at = "info"
  BY DEF ReadInfo, ServerReads
<1>. PICK p \in Clients : p = srv.peer
  BY <1>1, AtHand
<1>2. p \notin ToSet(backlog) /\ AtInfo(p)
  BY <1>1, AtHand DEF Conversation
<1>3. scene.dest[p] \in Files /\ scene.blocks[p] \in Nat
  BY DEF SocketInv, SceneOK, SceneType
<1>4. ASSUME NEW name \in Files \cup {None}, Refuse(name)
      PROVE  /\ SrvOK' /\ srv'.at = "refuse" /\ srv'.peer = srv.peer /\ srv'.fd = srv.fd
             /\ srv'.name = name /\ srv'.resp = "ERROR" /\ srv'.starts = srv.starts
  BY <1>4 DEF Refuse, SocketInv, SrvOK, SrvAt, Answers
<1>5. ASSUME NEW name \in Files \cup {None}, NEW fd \in Files \cup {"other"}, Welcome(name, fd)
      PROVE  /\ SrvOK' /\ srv'.at = "answer" /\ srv'.peer = srv.peer /\ srv'.fd = fd
             /\ srv'.name = name /\ srv'.resp = "SUCCESS" /\ srv'.count = 0 /\ srv'.off = 0
             /\ srv'.starts = srv.starts
  <2>1. srv' = [srv EXCEPT !.name = name, !.resp = "SUCCESS", !.at = "answer",
                           !.fd = fd, !.off = 0, !.count = 0]
    BY <1>5 DEF Welcome
  <2>2. /\ srv'.at = "answer" /\ srv'.peer = srv.peer /\ srv'.fd = fd
        /\ srv'.name = name /\ srv'.resp = "SUCCESS" /\ srv'.count = 0 /\ srv'.off = 0
        /\ srv'.starts = srv.starts
    BY <2>1 DEF SocketInv, SrvOK
  <2>3. SrvOK'
    <3>1. srv'.off <= srv'.count
      BY <2>2
    <3>. QED
      BY <2>1, <3>1 DEF SocketInv, SrvOK, SrvAt, Answers
  <2>. QED
    BY <2>2, <2>3
<1>6. CASE /\ HasData(p, "server") /\ conn' = Taken(p, "server")
           /\ OpenFile(First(p, "server").dest, First(p, "server").size)
           /\ UNCHANGED <<path, backlog, cli>>
  <2>1. conn[p].up # <<>> /\ conn'[p].up = Tail(conn[p].up) /\ conn'[p].down = conn[p].down
        /\ First(p, "server") = Head(conn[p].up)
    BY <1>2, <1>6, Took
  <2>2. /\ conn[p].down = <<>> /\ ~cli[p].told /\ conn[p].up = <<Request(p)>>
        /\ cli[p].at \in {"infoanswer", "failed"}
    BY <1>2, <2>1 DEF AtInfo, Is, Dead
  <2>3. First(p, "server") = Request(p) /\ conn'[p].up = <<>>
    BY <2>1, <2>2, Streams
  <2>4. OpenFile(scene.dest[p], scene.blocks[p])
    BY <1>6, <2>3 DEF Request
  <2>5. UNCHANGED <<cli, scene>> /\ conn'[p].down = <<>>
    BY <1>6, <2>1, <2>2
  <2>6. Blank(scene.blocks[p]) = Partial(p, 0)
    BY <1>3 DEF Blank, Partial
  <2>7. CASE /\ scene.dest[p] \notin DOMAIN disk
             /\ Welcome(scene.dest[p], scene.dest[p])
             /\ Created(scene.dest[p], Blank(scene.blocks[p]))
    <3>1. /\ SrvOK' /\ srv'.at = "answer" /\ srv'.peer = srv.peer /\ srv'.fd = scene.dest[p]
          /\ srv'.name = scene.dest[p] /\ srv'.resp = "SUCCESS" /\ srv'.count = 0
          /\ srv'.off = 0 /\ srv'.starts = srv.starts
      BY <1>3, <1>5, <2>7
    <3>2. /\ DiskOK' /\ Kept'
          /\ scene.dest[p] \in DOMAIN disk' \ scene.existing /\ disk'[scene.dest[p]] = Partial(p, 0)
      BY <2>2, <2>5, <2>6, <2>7, <3>1, NewFile
    <3>3. Opened(p)'
      BY <1>3, <2>5, <3>1, <3>2 DEF Opened, Holds, Partial, Broken, Fault
    <3>4. AtAnswer(p)'
      BY <2>2, <2>3, <2>5, <3>1, <3>3 DEF AtAnswer, Answered
    <3>5. Conversation(p)'
      BY <1>2, <1>6, <3>1, <3>4 DEF Conversation, Held
    <3>. QED
      BY <1>6, <3>1, <3>2, <3>5, Took, ServerOne
  <2>8. CASE /\ scene.dest[p] \notin DOMAIN disk /\ Refuse(scene.dest[p])
             /\ Created(scene.dest[p], <<>>)
    <3>1. /\ SrvOK' /\ srv'.at = "refuse" /\ srv'.peer = srv.peer /\ srv'.fd = srv.fd
          /\ srv'.name = scene.dest[p] /\ srv'.resp = "ERROR" /\ srv'.starts = srv.starts
      BY <1>3, <1>4, <2>8
    <3>2. DiskOK' /\ Kept'
      BY <2>2, <2>5, <2>8, <3>1, NewFile
    <3>3. AtRefuse(p)'
      BY <2>2, <2>3, <2>5, <3>1 DEF AtRefuse
    <3>4. Conversation(p)'
      BY <1>2, <1>6, <3>1, <3>3 DEF Conversation, Held
    <3>. QED
      BY <1>6, <3>1, <3>2, <3>4, Took, ServerOne
  <2>9. CASE scene.dest[p] \in DOMAIN disk /\ Refuse(scene.dest[p]) /\ UNCHANGED disk
    <3>1. /\ SrvOK' /\ srv'.at = "refuse" /\ srv'.peer = srv.peer /\ srv'.fd = srv.fd
          /\ srv'.name = scene.dest[p] /\ srv'.resp = "ERROR" /\ srv'.starts = srv.starts
      BY <1>3, <1>4, <2>9
    <3>2. DiskOK' /\ Kept'
      BY <1>6, <2>9, <3>1 DEF SocketInv, DiskOK, Owned, Partial, Broken, Fault, Kept, Good, Holds
    <3>3. AtRefuse(p)'
      BY <2>2, <2>3, <2>5, <3>1 DEF AtRefuse
    <3>4. Conversation(p)'
      BY <1>2, <1>6, <3>1, <3>3 DEF Conversation, Held
    <3>. QED
      BY <1>6, <3>1, <3>2, <3>4, Took, ServerOne
  <2>. QED
    BY <1>3, <2>4, <2>7, <2>8, <2>9, SocketAssumption DEF OpenFile
<1>7. CASE /\ AtEnd(p, "server") /\ OpenFile(srv.name, 0)
           /\ UNCHANGED <<path, backlog, conn, cli>>
  <2>1. conn[p].up = <<>> /\ cli[p].at = "failed" /\ conn[p].down = <<>> /\ ~cli[p].told
    BY <1>2, <1>7, Ended0 DEF AtInfo, Is, Dead
  <2>2. srv.name \in Files \cup {None} /\ srv.name \notin Files \ DOMAIN disk
    BY DEF SocketInv, SrvOK, DiskOK
  <2>3. cli' = cli /\ conn' = conn /\ ConnOK' /\ scene' = scene
    BY <1>7 DEF SocketInv, ConnOK
  <2>4. CASE Refuse(srv.name) /\ UNCHANGED disk
    <3>1. /\ SrvOK' /\ srv'.at = "refuse" /\ srv'.peer = srv.peer /\ srv'.fd = srv.fd
          /\ srv'.name = srv.name /\ srv'.resp = "ERROR" /\ srv'.starts = srv.starts
      BY <1>4, <2>2, <2>4
    <3>2. AtRefuse(p)'
      BY <2>1, <2>3, <3>1 DEF AtRefuse
    <3>3. Conversation(p)'
      BY <1>2, <1>7, <3>1, <3>2 DEF Conversation, Held
    <3>. QED
      BY <1>7, <2>3, <2>4, <3>1, <3>3, SameFiles, ServerOne
  <2>5. CASE srv.name = None /\ Welcome(srv.name, "other") /\ UNCHANGED disk
    <3>1. /\ SrvOK' /\ srv'.at = "answer" /\ srv'.peer = srv.peer /\ srv'.fd = "other"
          /\ srv'.name = srv.name /\ srv'.resp = "SUCCESS" /\ srv'.starts = srv.starts
      BY <1>5, <2>2, <2>5
    <3>2. DiskOK'
      BY <2>3, <2>5, <3>1 DEF SocketInv, DiskOK, Owned, Partial, Broken, Fault
    <3>3. Kept'
      <4>1. \A c \in Clients : scene.dest[c] # "other"
        BY SocketAssumption DEF SocketInv, SceneOK, SceneType
      <4>. QED
        BY <2>3, <2>5, <3>1, <4>1 DEF SocketInv, Kept, Good, Holds, Partial, Broken, Fault
    <3>4. AtAnswer(p)'
      BY <2>1, <2>3, <3>1 DEF AtAnswer
    <3>5. Conversation(p)'
      BY <1>2, <1>7, <3>1, <3>4 DEF Conversation, Held
    <3>. QED
      BY <1>7, <2>3, <2>5, <3>1, <3>2, <3>3, <3>5, ServerOne
  <2>. QED
    BY <1>7, <2>2, <2>4, <2>5 DEF OpenFile
<1>8. CASE Dies(TRUE)
  BY <1>8, DiesKeeps
<1>. QED
  BY <1>6, <1>7, <1>8 DEF ReadInfo, ServerReads

LEMMA RespondKeeps ==
    ASSUME SocketInv, Respond, UNCHANGED scene
    PROVE  SocketInv'
<1>1. srv.at \in {"answer", "refuse"}
  BY DEF Respond
<1>. PICK p \in Clients : p = srv.peer
  BY <1>1, AtHand
<1>2. /\ p \notin ToSet(backlog)
      /\ srv.at = "answer" => AtAnswer(p)
      /\ srv.at = "refuse" => AtRefuse(p)
  BY AtHand, <1>1 DEF Conversation
<1>3. CASE /\ "client" \in conn[p].open
           /\ conn' = [conn EXCEPT ![p].down = Append(@, srv.resp)]
           /\ srv' = [srv EXCEPT !.at = IF @ = "answer" THEN "loop" ELSE "close"]
           /\ UNCHANGED <<path, backlog, cli, disk>>
  <2>1. cli[p].at \notin {"new", "done", "failed"}
    BY <1>3 DEF SocketInv, Counts
  <2>2. conn[p].up = <<>> /\ conn[p].down = <<>> /\ ~cli[p].told
    BY <1>1, <1>2 DEF AtAnswer, AtRefuse
  <2>3. conn[p] \in Connection /\ srv.resp \in Answers /\ <<srv.resp>> \in Seq(Answers)
    BY DEF SocketInv, ConnOK, SrvOK
  <2>4. Append(conn[p].down, srv.resp) = <<srv.resp>>
    BY <2>2, Streams
  <2>5. /\ conn'[p].down = <<srv.resp>> /\ conn'[p].up = <<>> /\ conn'[p].open = conn[p].open
        /\ \A c \in Clients \ {p} : conn'[c] = conn[c]
        /\ ConnOK'
    BY <1>3, <2>2, <2>3, <2>4 DEF SocketInv, ConnOK, Connection
  <2>6. /\ SrvOK' /\ srv'.at = (IF srv.at = "answer" THEN "loop" ELSE "close")
        /\ srv'.peer = srv.peer /\ srv'.fd = srv.fd /\ srv'.name = srv.name /\ srv'.count = srv.count
        /\ srv'.off = srv.off /\ srv'.starts = srv.starts
    BY <1>3 DEF SocketInv, SrvOK, SrvAt
  <2>7. CASE srv.at = "answer"
    <3>1. srv.resp = "SUCCESS" /\ Opened(p) /\ Answered(p)
      BY <1>2, <2>1, <2>7 DEF AtAnswer
    <3>2. Opened(p)' /\ Answered(p)'
      BY <1>3, <2>6, <3>1, SameOpened DEF Answered
    <3>3. AtLoop(p)'
      BY <1>3, <2>2, <2>5, <3>1, <3>2 DEF AtLoop
    <3>4. Conversation(p)'
      BY <1>2, <1>3, <2>6, <2>7, <3>3 DEF Conversation, Held
    <3>. QED
      BY <1>3, <2>5, <2>6, <2>7, <3>4, SameFiles, ServerOne
  <2>8. CASE srv.at = "refuse"
    <3>1. srv.resp = "ERROR" /\ cli[p].at \in {"infoanswer", "dataanswer"}
      BY <1>2, <2>1, <2>8 DEF AtRefuse
    <3>2. AtClose(p)'
      BY <1>3, <2>2, <2>5, <3>1 DEF AtClose
    <3>3. Conversation(p)'
      BY <1>2, <1>3, <2>6, <2>8, <3>2 DEF Conversation, Held
    <3>. QED
      BY <1>3, <2>5, <2>6, <2>8, <3>3, SameFiles, ServerOne
  <2>. QED
    BY <1>1, <2>7, <2>8
<1>4. CASE Dies("server" \in conn[p].reset)
  <2>1. ("server" \in conn[p].reset) \in BOOLEAN
    OBVIOUS
  <2>. QED
    BY <1>4, <2>1, DiesKeeps
<1>. QED
  BY <1>3, <1>4 DEF Respond

LEMMA ReadTypeKeeps ==
    ASSUME SocketInv, ReadType, UNCHANGED scene
    PROVE  SocketInv'
<1>1. srv.at = "loop"
  BY DEF ReadType, ServerReads
<1>. PICK p \in Clients : p = srv.peer
  BY <1>1, AtHand
<1>2. p \notin ToSet(backlog) /\ AtLoop(p) /\ Counts(p)
  BY <1>1, AtHand DEF Conversation, SocketInv
<1>3. ASSUME NEW kind \in Kinds \cup {None}, NextType(kind)
      PROVE  /\ SrvOK' /\ srv'.peer = srv.peer /\ srv'.fd = srv.fd /\ srv'.name = srv.name
             /\ srv'.starts = srv.starts /\ srv'.count = srv.count /\ srv'.off = srv.off /\ UNCHANGED disk
             /\ srv'.at = (IF kind = "BYE" THEN "close" ELSE IF kind = "DATA" THEN "data" ELSE "loop")
  <2>. DEFINE at == IF kind = "BYE" THEN "close" ELSE IF kind = "DATA" THEN "data" ELSE "loop"
  <2>1. srv' = [srv EXCEPT !.conv = kind, !.at = at] /\ UNCHANGED disk
    BY <1>3 DEF NextType
  <2>2. SrvOK /\ at \in SrvAt
    BY DEF SocketInv, SrvAt
  <2>. HIDE DEF at
  <2>3. srv'.off = srv.off /\ srv'.count = srv.count /\ SrvOK'
    BY <1>3, <2>1, <2>2 DEF SrvOK
  <2>4. /\ srv'.peer = srv.peer /\ srv'.fd = srv.fd /\ srv'.name = srv.name
        /\ srv'.starts = srv.starts /\ srv'.at = at
    BY <2>1, <2>2 DEF SrvOK
  <2>. QED
    BY <2>1, <2>3, <2>4 DEF at
<1>4. ASSUME UNCHANGED <<cli, disk, scene>>, srv'.count = srv.count, srv'.off = srv.off,
             srv'.fd = srv.fd
      PROVE  NextBlock(p)' = NextBlock(p) /\ (Opened(p) => Opened(p)')
             /\ \A n : Holds(p, n) => Holds(p, n)'
  BY <1>4, SameOpened, SameHolds
<1>5. CASE /\ HasData(p, "server") /\ conn' = Taken(p, "server") /\ NextType(First(p, "server"))
           /\ UNCHANGED <<path, backlog, cli>>
  <2>. DEFINE b == NextBlock(p)
              up == conn[p].up
              kind == First(p, "server")
  <2>1. up # <<>> /\ conn'[p].up = Tail(up) /\ conn'[p].down = conn[p].down /\ kind = Head(up)
    BY <1>2, <1>5, Took
  <2>2. /\ Head(<<"DATA">>) = "DATA" /\ Tail(<<"DATA">>) = <<>>
        /\ Head(<<"BYE">>) = "BYE" /\ Tail(<<"BYE">>) = <<>>
        /\ Head(<<"DATA", b>>) = "DATA" /\ Tail(<<"DATA", b>>) = <<b>>
        /\ Head(<<"BYE", "BYE">>) = "BYE" /\ Tail(<<"BYE", "BYE">>) = <<"BYE">>
        /\ Len(<<"BYE">>) = 1
    BY Streams
  <2>3. /\ conn[p].down = <<>> /\ ~cli[p].told /\ Opened(p)
        /\ \/ up = <<"DATA">> /\ srv.count = cli[p].sent /\ cli[p].at = "data"
           \/ up = <<"DATA", b>> /\ srv.count = cli[p].sent /\ cli[p].at = "dataanswer"
           \/ up = <<"BYE">> /\ srv.count = cli[p].sent /\ cli[p].at = "bye"
           \/ up = <<"BYE", "BYE">> /\ srv.count = cli[p].sent /\ cli[p].at = "done"
           \/ up \in {<<"DATA">>, <<"BYE">>} /\ cli[p].at = "failed"
           \/ up = <<"DATA", b>> /\ cli[p].at = "failed" /\ srv.count < scene.blocks[p]
    BY <1>2, <2>1 DEF AtLoop, Is, Dead
  <2>. HIDE DEF b, up, kind
  <2>4. \/ kind = "DATA" /\ up = <<"DATA">> /\ conn'[p].up = <<>>
        \/ kind = "DATA" /\ up = <<"DATA", b>> /\ conn'[p].up = <<b>>
        \/ kind = "BYE" /\ up = <<"BYE">> /\ conn'[p].up = <<>>
        \/ kind = "BYE" /\ up = <<"BYE", "BYE">> /\ conn'[p].up = <<"BYE">>
    BY <2>1, <2>2, <2>3
  <2>5. NextType(kind) /\ kind \in Kinds \cup {None}
    BY <1>5, <2>4 DEF kind, Kinds
  <2>6. /\ SrvOK' /\ srv'.peer = srv.peer /\ srv'.fd = srv.fd /\ srv'.name = srv.name
        /\ srv'.starts = srv.starts /\ srv'.count = srv.count /\ srv'.off = srv.off /\ UNCHANGED disk
        /\ srv'.at = (IF kind = "BYE" THEN "close" ELSE IF kind = "DATA" THEN "data" ELSE "loop")
    BY <1>3, <2>5
  <2>7. /\ cli' = cli /\ scene' = scene /\ conn'[p].down = <<>>
        /\ NextBlock(p)' = b /\ Opened(p)'
        /\ \A n : Holds(p, n) => Holds(p, n)'
    BY <1>4, <1>5, <2>1, <2>3, <2>6 DEF b
  <2>8. CASE kind = "DATA"
    <3>1. \/ conn'[p].up = <<>> /\ srv.count = cli[p].sent /\ cli[p].at = "data"
          \/ conn'[p].up = <<b>> /\ srv.count = cli[p].sent /\ cli[p].at = "dataanswer"
          \/ conn'[p].up = <<>> /\ cli[p].at = "failed"
          \/ conn'[p].up = <<b>> /\ cli[p].at = "failed" /\ srv.count < scene.blocks[p]
      <4>. DEFINE d == <<"DATA">>
                  db == <<"DATA", b>>
                  y == <<"BYE">>
                  yy == <<"BYE", "BYE">>
      <4>1. d # db /\ y # db /\ yy # db /\ d # y /\ d # yy
        OBVIOUS
      <4>. HIDE DEF d, db, y, yy
      <4>2. /\ up = d \/ up = db
            /\ up = d => conn'[p].up = <<>>
            /\ up = db => conn'[p].up = <<b>>
        BY <2>4, <2>8, <4>1 DEF d, db, y, yy
      <4>3. \/ up = d /\ srv.count = cli[p].sent /\ cli[p].at = "data"
            \/ up = db /\ srv.count = cli[p].sent /\ cli[p].at = "dataanswer"
            \/ up \in {y, yy}
            \/ up = d /\ cli[p].at = "failed"
            \/ up = db /\ cli[p].at = "failed" /\ srv.count < scene.blocks[p]
        BY <2>3 DEF d, db, y, yy
      <4>. QED
        BY <4>1, <4>2, <4>3
    <3>2. AtData(p)'
      BY <2>3, <2>6, <2>7, <3>1 DEF AtData, Is, Dead
    <3>3. Conversation(p)'
      BY <1>2, <1>5, <2>6, <2>8, <3>2 DEF Conversation, Held
    <3>. QED
      BY <1>5, <2>6, <2>8, <3>3, Took, SameFiles, ServerOne
  <2>9. CASE kind = "BYE"
    <3>1. \/ conn'[p].up = <<>> /\ srv.count = cli[p].sent /\ cli[p].at = "bye"
          \/ conn'[p].up = <<"BYE">> /\ cli[p].at = "done"
          \/ conn'[p].up = <<>> /\ cli[p].at = "failed"
      <4>. DEFINE d == <<"DATA">>
                  db == <<"DATA", b>>
                  y == <<"BYE">>
                  yy == <<"BYE", "BYE">>
      <4>1. y # yy /\ y # db /\ yy # db /\ d # y /\ d # yy
        OBVIOUS
      <4>. HIDE DEF d, db, y, yy
      <4>2. /\ up = y \/ up = yy
            /\ up = y => conn'[p].up = <<>>
            /\ up = yy => conn'[p].up = y
        BY <2>4, <2>9, <4>1 DEF d, db, y, yy
      <4>3. \/ up \in {d, db}
            \/ up = y /\ srv.count = cli[p].sent /\ cli[p].at = "bye"
            \/ up = yy /\ cli[p].at = "done"
            \/ up = y /\ cli[p].at = "failed"
        BY <2>3 DEF d, db, y, yy
      <4>4. \/ conn'[p].up = <<>> /\ srv.count = cli[p].sent /\ cli[p].at = "bye"
            \/ conn'[p].up = y /\ cli[p].at = "done"
            \/ conn'[p].up = <<>> /\ cli[p].at = "failed"
        BY <4>1, <4>2, <4>3
      <4>. QED
        BY <4>4 DEF y
    <3>2. Len(conn'[p].up) <= 2
      <4>. DEFINE m == Len(conn'[p].up)
      <4>1. m \in {0, 1}
        BY <2>2, <3>1
      <4>. HIDE DEF m
      <4>2. m <= 2
        BY <4>1
      <4>. QED
        BY <4>2 DEF m
    <3>3. cli[p].at = "bye" => srv.count = cli[p].sent /\ Holds(p, scene.blocks[p])
      BY <1>2, <2>3, <3>1 DEF Counts, Opened
    <3>4. AtClose(p)'
      BY <2>3, <2>7, <3>1, <3>2, <3>3 DEF AtClose, Is
    <3>5. Conversation(p)'
      BY <1>2, <1>5, <2>6, <2>9, <3>4 DEF Conversation, Held
    <3>. QED
      BY <1>5, <2>6, <2>9, <3>5, Took, SameFiles, ServerOne
  <2>. QED
    BY <2>4, <2>8, <2>9
<1>6. CASE /\ AtEnd(p, "server") /\ NextType(srv.conv)
           /\ UNCHANGED <<path, backlog, conn, cli>>
  <2>1. /\ conn[p].up = <<>> /\ cli[p].at = "failed" /\ conn[p].down = <<>> /\ ~cli[p].told
        /\ Opened(p)
    <3>1. conn[p].up = <<>> /\ cli[p].at \in {"new", "done", "failed"}
      BY <1>6, Ended0
    <3>2. <<>> # <<"BYE", "BYE">>
      OBVIOUS
    <3>. QED
      BY <1>2, <3>1, <3>2 DEF AtLoop, Is, Dead, Answered
  <2>2. srv.conv \in Kinds \cup {None}
    BY DEF SocketInv, SrvOK
  <2>3. /\ srv'.at \in {"close", "data", "loop"} /\ srv'.peer = srv.peer /\ SrvOK' /\ UNCHANGED disk
        /\ srv'.fd = srv.fd /\ srv'.name = srv.name /\ srv'.starts = srv.starts
        /\ srv'.count = srv.count /\ srv'.off = srv.off
    BY <1>3, <1>6, <2>2
  <2>4. Opened(p)' /\ cli' = cli /\ conn' = conn
    BY <1>4, <1>6, <2>1, <2>3
  <2>5. AtData(p)' /\ AtLoop(p)' /\ AtClose(p)'
    <3>1. Len(conn'[p].up) <= 2
      BY <2>1, <2>4, Short
    <3>2. AtData(p)'
      BY <2>1, <2>4 DEF AtData, Dead
    <3>3. AtLoop(p)'
      BY <2>1, <2>4 DEF AtLoop, Dead
    <3>. QED
      BY <2>1, <2>4, <3>1, <3>2, <3>3 DEF AtClose
  <2>6. Conversation(p)'
    BY <1>2, <1>6, <2>3, <2>5 DEF Conversation, Held
  <2>7. ConnOK'
    BY <1>6 DEF SocketInv, ConnOK
  <2>. QED
    BY <1>6, <2>3, <2>6, <2>7, SameFiles, ServerOne
<1>7. CASE Dies(TRUE)
  BY <1>7, DiesKeeps
<1>. QED
  BY <1>5, <1>6, <1>7 DEF ReadType, ServerReads

LEMMA CloseKeeps ==
    ASSUME SocketInv, Close, UNCHANGED scene
    PROVE  SocketInv'
<1>1. /\ srv.at = "close" /\ srv' = [srv EXCEPT !.at = "accept", !.peer = None, !.fd = None]
      /\ UNCHANGED <<path, backlog, cli, disk, scene>>
  BY DEF Close
<1>. PICK p \in Clients : p = srv.peer
  BY <1>1, AtHand
<1>2. p \notin ToSet(backlog) /\ Counts(p) /\ conn[p] \in Connection
  BY <1>1, AtHand DEF SocketInv, ConnOK
<1>3. /\ SrvOK' /\ srv'.at = "accept" /\ srv'.peer = None /\ srv'.fd = None
      /\ srv'.name = srv.name /\ srv'.starts = srv.starts
  BY <1>1 DEF SocketInv, SrvOK, SrvAt
<1>4. /\ conn'[p] \in Connection /\ conn'[p].open = conn[p].open \ {"server"}
      /\ conn'[p].up = <<>> /\ conn'[p].down = conn[p].down
      /\ \A c \in Clients \ {p} : conn'[c] = conn[c]
      /\ ConnOK'
  <2>1. conn' = [conn EXCEPT ![p] = Closed(conn[p], "server")]
    BY DEF Close
  <2>2. /\ conn'[p] = Closed(conn[p], "server") /\ \A c \in Clients \ {p} : conn'[c] = conn[c]
    BY <2>1 DEF SocketInv, ConnOK
  <2>3. /\ conn'[p] \in Connection /\ conn'[p].open = conn[p].open \ {"server"}
        /\ conn'[p].up = <<>> /\ conn'[p].down = conn[p].down
    BY <1>2, <2>2, CloseServer
  <2>4. ConnOK'
    BY <2>1, <2>2, <2>3 DEF SocketInv, ConnOK
  <2>. QED
    BY <2>2, <2>3, <2>4
<1>5. None \notin ToSet(backlog)
  BY SocketAssumption DEF SocketInv, Queue, SceneOK, SceneType, ToSet
<1>6. /\ ~Held(p)' /\ \A c \in Clients \ {p} : Held(c)' <=> Held(c)
  BY <1>1, <1>2, <1>3, SocketAssumption DEF Held
<1>7. Queue'
  <2>1. \A c \in Clients : "server" \in conn'[c].open <=> Held(c)'
    BY <1>4, <1>6 DEF SocketInv, Queue
  <2>. QED
    BY <1>1, <1>3, <1>5, <2>1 DEF SocketInv, Queue
<1>8. SceneOK' /\ CliOK'
  BY <1>1 DEF SocketInv, SceneOK, CliOK
<1>9. DiskOK'
  BY <1>1, <1>3 DEF SocketInv, DiskOK, Owned, Partial, Broken, Fault
<1>10. Kept'
  <2>1. \A c \in Clients : scene.dest[c] # None
    BY SocketAssumption DEF SocketInv, SceneOK, SceneType
  <2>. QED
    BY <1>1, <1>3, <2>1 DEF SocketInv, Kept, Good, Holds, Partial, Broken, Fault
<1>11. \A c \in Clients : Counts(c)'
  BY <1>1, <1>4 DEF SocketInv, Counts, NoConn, Queue, Held
<1>12. ASSUME NEW c \in Clients PROVE Conversation(c)'
  <2>1. CASE c = p
    <3>1. Len(conn'[p].down) <= 1
      BY <1>4, Short
    <3>. QED
      BY <1>4, <1>6, <2>1, <3>1 DEF Conversation, Held
  <2>2. CASE c # p
    <3>1. Opening(c)' <=> Opening(c)
      BY <1>1, <1>4, <2>2 DEF Opening, Is, Dead, Request
    <3>2. c # srv'.peer /\ Conversation(c) /\ conn'[c] = conn[c] /\ backlog' = backlog
      BY <1>1, <1>3, <1>4, <2>2, SocketAssumption DEF SocketInv
    <3>. QED
      BY <1>6, <2>2, <3>1, <3>2 DEF Conversation
  <2>. QED
    BY <2>1, <2>2
<1>. QED
  BY <1>3, <1>4, <1>7, <1>8, <1>9, <1>10, <1>11, <1>12 DEF SocketInv

\* The files after a write() by the server.
LEMMA NewBlock ==
    ASSUME SocketInv, NEW p \in Clients, p = srv.peer, Opened(p), srv.count < scene.blocks[p],
           UNCHANGED <<cli, scene>>, cli[p].at # "done",
           DOMAIN disk' = DOMAIN disk, \A g \in DOMAIN disk \ {srv.fd} : disk'[g] = disk[g],
           srv'.peer = p, srv'.fd = srv.fd, srv'.name = srv.name,
           srv'.count = srv.count + 1,
           IF srv'.off = srv.count + 1 THEN disk'[srv.fd] = Partial(p, srv.count + 1)
           ELSE Broken(p, disk'[srv.fd])
    PROVE  DiskOK' /\ Kept' /\ Opened(p)'
<1>. PICK file : file = scene.dest[p]
  OBVIOUS
<1>. PICK n : n = srv.count
  OBVIOUS
<1>. PICK size : size = scene.blocks[p]
  OBVIOUS
<1>1. /\ file \in DOMAIN disk \ scene.existing /\ srv.fd = file /\ n \in Nat /\ size \in Nat
      /\ n < size /\ n + 1 \in 0..size
  BY DEF Opened, Holds, SocketInv, SceneOK, SceneType
<1>2. \A c \in Clients : \A i : Partial(c, i)' = Partial(c, i)
  BY DEF Partial
<1>3. \A c \in Clients : \A g : Broken(c, g)' <=> Broken(c, g)
  BY DEF Broken, Fault
<1>4. /\ DOMAIN disk' = DOMAIN disk
      /\ disk'[file] = Partial(p, n + 1) \/ Broken(p, disk'[file])
      /\ \A g \in DOMAIN disk \ {file} : disk'[g] = disk[g]
  BY <1>1
<1>5. Owned(file)'
  BY <1>1, <1>2, <1>3, <1>4 DEF Owned
<1>6. \A g \in DOMAIN disk \ {file} : Owned(g) => Owned(g)'
  BY <1>2, <1>3, <1>4 DEF Owned
<1>7. DiskOK'
  BY <1>1, <1>4, <1>5, <1>6 DEF SocketInv, DiskOK
<1>8. Kept'
  <2>. SUFFICES ASSUME NEW c \in Clients, Good(c)
                PROVE  Holds(c, scene.blocks[c])' /\ (c # srv'.peer => srv'.fd # scene.dest[c])
    BY DEF Kept, Good
  <2>1. c # p /\ Holds(c, scene.blocks[c]) /\ srv.fd # scene.dest[c]
    BY DEF SocketInv, Kept, Good
  <2>2. Holds(c, scene.blocks[c])'
    BY <1>1, <1>2, <1>3, <1>4, <2>1 DEF Holds
  <2>. QED
    BY <2>1, <2>2
<1>9. Opened(p)'
  <2>1. scene'.dest[p] = file /\ scene'.blocks[p] = size /\ scene' = scene
    OBVIOUS
  <2>2. n + 1 \in 0..size /\ file \in DOMAIN disk' \ scene.existing
    BY <1>1, <1>4
  <2>3. IF srv'.off = srv'.count THEN disk'[file] = Partial(p, n + 1)' ELSE Broken(p, disk[file])'
    <3>1. Broken(p, disk[file])' <=> Broken(p, disk'[file])
      BY DEF Broken, Fault
    <3>. QED
      BY <1>1, <1>2, <3>1
  <2>. QED
    BY <1>1, <2>1, <2>2, <2>3 DEF Opened, Holds
<1>. QED
  BY <1>7, <1>8, <1>9

\* What a write() makes of the file of the client at hand: while none has been
\* short, the next block is in its place; else there is a gap.
LEMMA Put1 ==
    ASSUME SocketInv, NEW p \in Clients, p = srv.peer, Opened(p), srv.count < scene.blocks[p],
           StoreInPlace(NextBlock(p)) \/ StoreBehind
    PROVE  /\ SrvOK' /\ srv'.at = "answer" /\ srv'.peer = p /\ srv'.fd = srv.fd
           /\ srv'.name = srv.name /\ srv'.starts = srv.starts /\ srv'.resp = "SUCCESS"
           /\ srv'.count = srv.count + 1
           /\ DOMAIN disk' = DOMAIN disk /\ \A g \in DOMAIN disk \ {srv.fd} : disk'[g] = disk[g]
           /\ IF srv'.off = srv.count + 1 THEN disk'[srv.fd] = Partial(p, srv.count + 1)
              ELSE Broken(p, disk'[srv.fd])
<1>. PICK file : file = srv.fd
  OBVIOUS
<1>. PICK n : n = srv.count
  OBVIOUS
<1>. PICK m : m = srv.off
  OBVIOUS
<1>. PICK size : size = scene.blocks[p]
  OBVIOUS
<1>1. /\ file \in DOMAIN disk /\ file \in Files /\ file = scene.dest[p] /\ size \in Nat
      /\ n \in Nat /\ m \in Nat /\ m <= n /\ n < size
      /\ IF m = n THEN disk[file] = Partial(p, n) ELSE Broken(p, disk[file])
  BY DEF Opened, Holds, SocketInv, SceneOK, SceneType, SrvOK
<1>2. DOMAIN disk[file] = 1..size
  BY <1>1 DEF Partial, Broken
<1>3. ASSUME NEW off \in Nat, off <= n + 1, Moved(off)
      PROVE  /\ SrvOK' /\ srv'.at = "answer" /\ srv'.peer = p /\ srv'.fd = file
             /\ srv'.name = srv.name /\ srv'.starts = srv.starts /\ srv'.resp = "SUCCESS"
             /\ srv'.count = n + 1 /\ srv'.off = off
  <2>1. n + 1 \in Nat
    BY <1>1
  <2>2. srv' = [srv EXCEPT !.off = off, !.count = n + 1, !.resp = "SUCCESS", !.at = "answer"]
    BY <1>3 DEF Moved
  <2>. QED
    BY <1>3, <2>1, <2>2 DEF SocketInv, SrvOK, SrvAt, Answers
<1>4. ASSUME NEW cells, NEW x, Put(cells, x)
      PROVE  /\ DOMAIN disk' = DOMAIN disk /\ \A g \in DOMAIN disk \ {file} : disk'[g] = disk[g]
             /\ disk'[file] = [i \in 1..size |-> IF i \in cells THEN x ELSE disk[file][i]]
  <2>1. disk' = [disk EXCEPT ![file] = [i \in 1..size |-> IF i \in cells THEN x ELSE disk[file][i]]]
    BY <1>1, <1>2, <1>4 DEF Put
  <2>. QED
    BY <1>1, <2>1
<1>5. CASE m = n /\ Moved(n + 1) /\ Put({n + 1}, NextBlock(p))
  <2>1. [i \in 1..size |-> IF i \in {n + 1} THEN NextBlock(p) ELSE disk[file][i]] = Partial(p, n + 1)
    <3>1. ASSUME NEW i \in 1..size
          PROVE  (IF i \in {n + 1} THEN NextBlock(p) ELSE disk[file][i])
                    = IF i <= n + 1 THEN Block(p, i) ELSE Zeros
      BY <1>1, <1>5, <3>1 DEF Partial, NextBlock
    <3>. QED
      BY <3>1 DEF Partial
  <2>2. n + 1 \in Nat /\ n + 1 <= n + 1
    BY <1>1
  <2>. QED
    BY <1>3, <1>4, <1>5, <2>1, <2>2
<1>6. ASSUME NEW off \in Nat, off <= n, Moved(off), NEW cells, Put(cells, Torn(p)), Fault("disk"),
             \/ m < n
             \/ m = n /\ n + 1 \in cells
      PROVE  srv'.off # n + 1 /\ Broken(p, disk'[file])
  <2>1. \A i \in 1..size : disk[file][i] \in {Block(p, i), Zeros, Torn(p)}
    BY <1>1 DEF Partial, Broken
  <2>2. \E i \in 1..size : i \in cells \/ disk[file][i] = Torn(p)
    <3>1. CASE m < n
      BY <1>1, <3>1 DEF Broken
    <3>2. CASE n + 1 \in cells
      BY <1>1, <3>2
    <3>. QED
      BY <1>6, <3>1, <3>2
  <2>3. srv'.off = off /\ off # n + 1
    BY <1>1, <1>3, <1>6
  <2>4. disk'[file] = [i \in 1..size |-> IF i \in cells THEN Torn(p) ELSE disk[file][i]]
    BY <1>4, <1>6
  <2>. QED
    BY <1>6, <2>1, <2>2, <2>3, <2>4 DEF Broken
<1>7. CASE m = n /\ Fault("disk") /\ Moved(n) /\ Put({n + 1}, Torn(p))
  <2>1. n <= n /\ n <= n + 1 /\ n + 1 \in {n + 1}
    BY <1>1
  <2>2. srv'.off # n + 1 /\ Broken(p, disk'[file])
    BY <1>1, <1>6, <1>7, <2>1
  <2>. QED
    BY <1>1, <1>3, <1>4, <1>7, <2>1, <2>2
<1>8. CASE StoreBehind
  <2>1. PICK off \in {m, m + 1} : Moved(off) /\ \E last \in {m + 1, off + 1} : Put((m + 1)..last, Torn(p))
    BY <1>8 DEF StoreBehind
  <2>2. PICK last \in {m + 1, off + 1} : Put((m + 1)..last, Torn(p))
    BY <2>1
  <2>3. m < n /\ Fault("disk")
    BY <1>1, <1>8 DEF StoreBehind, Broken
  <2>4. off \in Nat /\ off <= n /\ off <= n + 1
    BY <1>1, <2>3
  <2>5. srv'.off # n + 1 /\ Broken(p, disk'[file])
    BY <1>6, <2>1, <2>2, <2>3, <2>4
  <2>. QED
    BY <1>3, <1>4, <2>1, <2>2, <2>4, <2>5
<1>. QED
  BY <1>5, <1>7, <1>8 DEF StoreInPlace

LEMMA ReadDataKeeps ==
    ASSUME SocketInv, ReadData, UNCHANGED scene
    PROVE  SocketInv'
<1>1. srv.at = "data"
  BY DEF ReadData, ServerReads
<1>. PICK p \in Clients : p = srv.peer
  BY <1>1, AtHand
<1>2. p \notin ToSet(backlog) /\ AtData(p) /\ Counts(p) /\ srv.count \in Nat
  BY <1>1, AtHand DEF Conversation, SocketInv, SrvOK
<1>3. scene.dest[p] \in Files /\ srv.fd = scene.dest[p] /\ scene.blocks[p] \in Nat
  BY <1>2 DEF AtData, Opened, SocketInv, SceneOK, SceneType
<1>4. CASE /\ HasData(p, "server") /\ conn' = Taken(p, "server") /\ Store(First(p, "server"))
           /\ UNCHANGED <<path, backlog, cli>>
  <2>. DEFINE b == NextBlock(p)
  <2>1. conn[p].up # <<>> /\ conn'[p].up = Tail(conn[p].up) /\ conn'[p].down = conn[p].down
        /\ First(p, "server") = Head(conn[p].up)
    BY <1>2, <1>4, Took
  <2>2. /\ conn[p].down = <<>> /\ ~cli[p].told /\ Opened(p) /\ conn[p].up = <<b>>
        /\ \/ cli[p].at = "dataanswer" /\ srv.count = cli[p].sent
           \/ cli[p].at = "failed" /\ srv.count < scene.blocks[p]
    BY <1>2, <2>1 DEF AtData, Is, Dead
  <2>3. srv.count < scene.blocks[p]
    BY <1>2, <2>2 DEF Counts
  <2>4. Head(<<b>>) = b /\ Tail(<<b>>) = <<>>
    BY Streams
  <2>. HIDE DEF b
  <2>5. First(p, "server") = b /\ conn'[p].up = <<>> /\ conn'[p].down = <<>>
        /\ UNCHANGED <<cli, scene>>
    BY <1>4, <2>1, <2>2, <2>4
  <2>6. Store(b)
    BY <1>4, <2>5
  <2>7. CASE StoreInPlace(b) \/ StoreBehind
    <3>1. /\ SrvOK' /\ srv'.at = "answer" /\ srv'.peer = p /\ srv'.fd = srv.fd
          /\ srv'.name = srv.name /\ srv'.starts = srv.starts /\ srv'.resp = "SUCCESS"
          /\ srv'.count = srv.count + 1
          /\ DOMAIN disk' = DOMAIN disk /\ \A g \in DOMAIN disk \ {srv.fd} : disk'[g] = disk[g]
          /\ IF srv'.off = srv.count + 1 THEN disk'[srv.fd] = Partial(p, srv.count + 1)
             ELSE Broken(p, disk'[srv.fd])
      BY <2>2, <2>3, <2>7, Put1 DEF b
    <3>3. DiskOK' /\ Kept' /\ Opened(p)'
      BY <2>2, <2>3, <2>5, <3>1, NewBlock
    <3>4. AtAnswer(p)'
      BY <2>2, <2>5, <3>1, <3>3 DEF AtAnswer, Answered
    <3>5. Conversation(p)'
      BY <1>2, <1>4, <3>1, <3>4 DEF Conversation, Held
    <3>. QED
      BY <1>4, <3>1, <3>3, <3>5, Took, ServerOne
  <2>8. CASE srv' = [srv EXCEPT !.resp = "ERROR", !.at = "refuse"] /\ UNCHANGED disk
    <3>1. /\ SrvOK' /\ srv'.at = "refuse" /\ srv'.peer = srv.peer /\ srv'.fd = srv.fd
          /\ srv'.name = srv.name /\ srv'.starts = srv.starts /\ srv'.resp = "ERROR"
      BY <2>8 DEF SocketInv, SrvOK, SrvAt, Answers
    <3>2. AtRefuse(p)'
      BY <2>2, <2>5, <3>1 DEF AtRefuse
    <3>3. Conversation(p)'
      BY <1>2, <1>4, <3>1, <3>2 DEF Conversation, Held
    <3>. QED
      BY <1>4, <2>8, <3>1, <3>3, Took, SameFiles, ServerOne
  <2>. QED
    BY <2>6, <2>7, <2>8 DEF Store
<1>5. CASE /\ AtEnd(p, "server") /\ StoreNothing
           /\ UNCHANGED <<path, backlog, conn, cli>>
  <2>1. conn[p].up = <<>> /\ cli[p].at = "failed" /\ conn[p].down = <<>> /\ ~cli[p].told
    BY <1>2, <1>5, Ended0 DEF AtData, Is, Dead
  <2>2. /\ SrvOK' /\ srv'.at = "answer" /\ srv'.peer = srv.peer /\ srv'.fd = srv.fd
        /\ srv'.name = srv.name /\ srv'.starts = srv.starts /\ UNCHANGED disk
    BY <1>5 DEF StoreNothing, SocketInv, SrvOK, SrvAt, Answers
  <2>3. AtAnswer(p)' /\ ConnOK'
    BY <1>5, <2>1 DEF AtAnswer, SocketInv, ConnOK
  <2>4. Conversation(p)'
    BY <1>2, <1>5, <2>2, <2>3 DEF Conversation, Held
  <2>. QED
    BY <1>5, <2>2, <2>3, <2>4, SameFiles, ServerOne
<1>6. CASE Dies(TRUE)
  BY <1>6, DiesKeeps
<1>. QED
  BY <1>4, <1>5, <1>6 DEF ReadData, ServerReads

LEMMA KillKeeps ==
    ASSUME SocketInv, NEW c \in Clients, Kill(c), UNCHANGED scene
    PROVE  SocketInv'
<1>1. Alive(c)
  BY DEF SocketInv, Counts, Alive, Kill, Running, Ended
<1>. QED
  BY <1>1, HangUp DEF Kill

LEMMA InvInit == Init => SocketInv
<1>. SUFFICES ASSUME Init PROVE SocketInv
  OBVIOUS
<1>1. /\ scene \in Scenes /\ scene \in SceneType /\ scene.run \subseteq Clients
      /\ scene.existing \subseteq Files
  BY SocketAssumption DEF Init, SceneType
<1>2. /\ srv.at = "off" /\ srv.peer = None /\ srv.starts = 0 /\ srv.name = None
      /\ backlog = <<>> /\ path = FALSE
  BY DEF Init
<1>3. \A c \in Clients : conn[c] = NoConn /\ cli[c] = [at |-> "new", sent |-> 0, told |-> FALSE]
  BY DEF Init
<1>4. /\ NoConn.up = <<>> /\ NoConn.down = <<>> /\ NoConn.open = {} /\ Len(NoConn.down) <= 1
      /\ NoConn \in Connection
  BY EmptySeq DEF NoConn, Connection
<1>5. SceneOK /\ SrvOK /\ CliOK /\ ConnOK
  BY <1>1, <1>3, <1>4 DEF Init, SceneOK, SrvOK, CliOK, ConnOK, SrvAt, CliAt, Answers
<1>6. ToSet(backlog) = {} /\ IsInjective(backlog) /\ backlog \in Seq(scene.run)
      /\ Len(backlog) = 0
  BY <1>2, EmptySeq DEF ToSet, IsInjective
<1>7. \A c \in Clients : ~Held(c)
  BY <1>2, <1>6, SocketAssumption DEF Held
<1>8. Queue
  <2>1. scene.starts \in Nat
    BY <1>1 DEF SceneType
  <2>2. Len(backlog) <= Backlog + 1 /\ srv.starts <= scene.starts
    BY <1>2, <1>6, <2>1, SocketAssumption
  <2>3. \A c \in Clients : "server" \notin conn[c].open
    BY <1>3, <1>4
  <2>. QED
    BY <1>2, <1>6, <1>7, <2>2, <2>3 DEF Queue
<1>9. DiskOK /\ Kept
  BY <1>1, <1>2, <1>3, SocketAssumption DEF Init, DiskOK, Kept, Good
<1>10. ASSUME NEW c \in Clients PROVE Counts(c) /\ Conversation(c)
  <2>1. scene.blocks[c] \in Nat
    BY <1>1 DEF SceneType
  <2>2. Counts(c)
    BY <1>3, <1>4, <2>1 DEF Counts
  <2>3. c # srv.peer /\ c \notin ToSet(backlog)
    BY <1>7 DEF Held
  <2>. QED
    BY <1>3, <1>4, <2>2, <2>3 DEF Conversation
<1>. QED
  BY <1>5, <1>8, <1>9, <1>10 DEF SocketInv

\* Every step keeps the invariant.
LEMMA InvNext == SocketInv /\ [Next]_vars => SocketInv'
<1>. SUFFICES ASSUME SocketInv, [Next]_vars PROVE SocketInv'
  OBVIOUS
<1>1. CASE UNCHANGED vars
  <2>1. UNCHANGED <<path, backlog, conn, srv, cli, disk, scene>>
    BY <1>1 DEF vars, moving
  <2>2. (SceneOK /\ SrvOK /\ CliOK /\ ConnOK /\ Queue /\ DiskOK /\ Kept)'
    BY <2>1, SameFiles DEF SocketInv, SceneOK, SrvOK, CliOK, ConnOK, Queue, Held
  <2>3. \A c \in Clients : Counts(c)'
    BY <2>1 DEF SocketInv, Counts
  <2>4. ASSUME NEW c \in Clients PROVE Conversation(c)'
    <3>1. Conversation(c)
      BY DEF SocketInv
    <3>2. /\ (Opening(c)' <=> Opening(c)) /\ (AtInfo(c)' <=> AtInfo(c))
          /\ (AtAnswer(c)' <=> AtAnswer(c)) /\ (AtRefuse(c)' <=> AtRefuse(c))
          /\ (AtLoop(c)' <=> AtLoop(c)) /\ (AtData(c)' <=> AtData(c)) /\ (AtClose(c)' <=> AtClose(c))
      BY <2>1 DEF Opening, AtInfo, AtAnswer, AtRefuse, AtLoop, AtData, AtClose, Is, Dead, Request,
         Opened, Answered, NextBlock, Holds, Partial, Broken, Fault
    <3>. QED
      BY <2>1, <3>1, <3>2 DEF Conversation, Held
  <2>. QED
    BY <2>2, <2>3, <2>4 DEF SocketInv
<1>2. CASE StartServer /\ UNCHANGED scene
  BY <1>2, StartServerKeeps
<1>3. CASE Sigint /\ UNCHANGED scene
  BY <1>3, DiesKeeps DEF Sigint
<1>4. CASE ServerStep /\ UNCHANGED scene
  BY <1>4, AcceptKeeps, ReadFirstKeeps, ReadInfoKeeps, RespondKeeps, ReadTypeKeeps, ReadDataKeeps,
     CloseKeeps DEF ServerStep
<1>5. ASSUME NEW c \in Clients, Connect(c) \/ ClientStep(c) \/ Kill(c), UNCHANGED scene
      PROVE  SocketInv'
  <2>1. CASE Connect(c)
    BY <1>5, <2>1, ConnectKeeps
  <2>2. CASE Kill(c)
    BY <1>5, <2>2, KillKeeps
  <2>3. CASE SendInfoType(c)
    BY <1>5, <2>3, SendInfoTypeKeeps
  <2>4. CASE SendInfo(c)
    BY <1>5, <2>4, SendInfoKeeps
  <2>5. CASE SendType(c)
    BY <1>5, <2>5, SendTypeKeeps
  <2>6. CASE SendData(c)
    BY <1>5, <2>6, SendDataKeeps
  <2>7. CASE SendBye(c)
    BY <1>5, <2>7, SendByeKeeps
  <2>8. CASE ReadAnswer(c)
    BY <1>5, <2>8, ReadAnswerKeeps
  <2>9. CASE SourceFails(c)
    BY <1>5, <2>9, SourceFailsKeeps
  <2>10. CASE SayBye(c)
    BY <1>5, <2>10, SayByeKeeps
  <2>. QED
    BY <1>5, <2>1, <2>2, <2>3, <2>4, <2>5, <2>6, <2>7, <2>8, <2>9, <2>10 DEF ClientStep
<1>. QED
  BY <1>1, <1>2, <1>3, <1>4, <1>5 DEF Next, Step

THEOREM InvAlways == Spec => []SocketInv
  BY InvInit, InvNext, PTL DEF Spec
-----------------------------------------------------------------------------
\* The blocks of a new file are those of one client, each in its place.
LEMMA InvOneClient == SocketInv => OneClientPerFile
<1>. SUFFICES ASSUME SocketInv PROVE OneClientPerFile
  OBVIOUS
<1>1. TypeOK
  <2>1. /\ backlog \in Seq(scene.run)
        /\ scene.blocks \in [Clients -> Nat] /\ scene.starts \in Nat
    BY DEF SocketInv, Queue, SceneOK, SceneType
  <2>2. ToSet(backlog) \subseteq scene.run
    BY <2>1 DEF ToSet
  <2>3. srv.starts \in 0..scene.starts
    BY <2>1 DEF SocketInv, Queue, SrvOK
  <2>4. ASSUME NEW c \in Clients
        PROVE  /\ cli[c].at \in CliAt /\ cli[c].told \in BOOLEAN
               /\ cli[c].sent \in 0..scene.blocks[c]
               /\ "server" \in conn[c].open <=> c = srv.peer \/ c \in ToSet(backlog)
               /\ Len(conn[c].up) <= 2 /\ Len(conn[c].down) <= 1
    <3>1. cli[c] \in [at : CliAt, sent : Nat, told : BOOLEAN] /\ cli[c].sent <= scene.blocks[c]
      BY DEF SocketInv, CliOK, Counts
    <3>2. cli[c].sent \in 0..scene.blocks[c]
      BY <2>1, <3>1
    <3>3. "server" \in conn[c].open <=> Held(c)
      BY DEF SocketInv, Queue
    <3>. QED
      BY <3>1, <3>2, <3>3, Short DEF Held
  <2>. QED
    BY <2>2, <2>3, <2>4 DEF TypeOK, SocketInv, SceneOK, Queue, SrvOK
<1>2. ASSUME NEW f \in DOMAIN disk, f \notin scene.existing
      PROVE  \E c \in Clients :
                /\ scene.dest[c] = f
                /\ \A i \in DOMAIN disk[f] :
                     disk[f][i] \in {Block(c, i), Zeros} \cup (IF Fault("disk") THEN {Torn(c)} ELSE {})
  <2>1. PICK c \in Clients :
           /\ scene.dest[c] = f
           /\ \/ disk[f] = <<>> \/ Broken(c, disk[f])
              \/ \E n \in 0..scene.blocks[c] : disk[f] = Partial(c, n)
    BY <1>2 DEF SocketInv, DiskOK, Owned
  <2>2. CASE disk[f] = <<>>
    BY <2>1, <2>2
  <2>3. CASE \E n \in 0..scene.blocks[c] : disk[f] = Partial(c, n)
    BY <2>1, <2>3 DEF Partial
  <2>4. CASE Broken(c, disk[f])
    BY <2>1, <2>4 DEF Broken
  <2>. QED
    BY <2>1, <2>2, <2>3, <2>4
<1>3. \A f \in DOMAIN disk : f \in scene.existing => disk[f] = <<>>
  BY DEF SocketInv, DiskOK
<1>. QED
  BY <1>1, <1>2, <1>3 DEF OneClientPerFile

LEMMA InvCopied == SocketInv => DoneMeansCopied
<1>. SUFFICES ASSUME SocketInv, NEW c \in Clients, Good(c)
              PROVE  /\ scene.dest[c] \in DOMAIN disk
                     /\ \/ disk[scene.dest[c]] = Whole(c)
                        \/ Fault("disk") /\ Torn(c) \in ToSet(disk[scene.dest[c]])
  BY DEF DoneMeansCopied, Good
<1>1. /\ scene.dest[c] \in DOMAIN disk
      /\ \/ disk[scene.dest[c]] = Partial(c, scene.blocks[c])
         \/ Broken(c, disk[scene.dest[c]])
  BY DEF SocketInv, Kept, Holds
<1>2. Partial(c, scene.blocks[c]) = Whole(c)
  BY DEF SocketInv, SceneOK, SceneType, Partial, Whole
<1>3. Broken(c, disk[scene.dest[c]]) => Fault("disk") /\ Torn(c) \in ToSet(disk[scene.dest[c]])
  BY DEF Broken, ToSet
<1>. QED
  BY <1>1, <1>2, <1>3

\* Whatever dies and fails, and however stale what the server looks at again, a
\* file that was there stays as it was, and a new one holds blocks of one client
\* only, each in its place (open(O_EXCL) and the inner loop of server.c). A short
\* write() on a full disk, which the server takes for a success, leaves other
\* bytes of the same client in a block's place, and nothing else does.
THEOREM FilesNotMixed == Spec => []OneClientPerFile
  BY InvAlways, InvOneClient, PTL

\* A client that ends with EXIT_SUCCESS and has not been told ERROR has its copy,
\* and keeps it while others come and the server is started again (main of
\* client.c), unless a write() of the server was short: then the gap shows.
THEOREM CopiedWhenDone == Spec => []DoneMeansCopied
  BY InvAlways, InvCopied, PTL
=============================================================================
