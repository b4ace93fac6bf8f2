-------------------------- MODULE ThreadCopyProofs --------------------------
(***************************************************************************)
(* Proofs about ThreadCopy, for any number of clients, files and scenes.   *)
(*                                                                         *)
(* That no file mixes two clients holds always, and follows from O_EXCL:   *)
(* of the threads that have opened a file no two have opened the same.     *)
(* The rest is about scenes where a new thread has read its argument       *)
(* before main accepts the next client: then a connection has one thread,  *)
(* and where the client is, what is in the streams and where its thread is *)
(* determine each other (Talk), whatever the other threads do.             *)
(***************************************************************************)
EXTENDS ThreadCopy, SequenceTheorems, FiniteSetTheorems, TLAPS

\* Every type; a client has a block to send when it is about to; a thread, and
\* main on the way to one, have a socket.
Handing == srv.main = "create" \/ \E t \in Threads : thr[t].pc = "arg"
Types == /\ TypeOK /\ scene \in SceneType
         /\ \A c \in Clients : cli[c].pc = "data" => cli[c].sent < Blocks[c]
         /\ \A t \in Threads : Live(t) => thr[t].sock \in Clients
         /\ Handing => srv.accept_socket \in Clients

\* The thread has opened its file and not yet left the function.
Past(t) == \/ thr[t].pc \in {"type", "data", "store", "finish"}
           \/ thr[t].pc \in {"send", "write"} /\ thr[t].next # "exit"
File(t) == disk[thr[t].name]

Owns(t) == /\ thr[t].name \in DOMAIN disk
           /\ \A i \in DOMAIN File(t) : File(t)[i].from = thr[t].sock
OneWriter == \A t, u \in Threads : Past(t) /\ Past(u) /\ thr[t].name = thr[u].name => t = u
OneSource == \A f \in DOMAIN disk : \A i, j \in DOMAIN disk[f] : disk[f][i].from = disk[f][j].from
MixInv == OneWriter /\ OneSource /\ \A t \in Threads : Past(t) => Owns(t)
-----------------------------------------------------------------------------
(* The conversation of client c, whose state is k, with its thread.        *)

INFO == Unit("INFO", 0)
FINFO == Unit("finfo", 0)
BLOCK == Unit("BLOCK", 0)
BYE == Unit("BYE", 0)
Data(n) == Unit("data", n)

Is(k, pc, up) == k.pc = pc /\ k.up = up
Cut(k, ups) == k.pc = "killed" /\ Fault("kill") /\ k.up \in ups
Quiet(k) == k.up = <<>> /\ k.down = <<>>

\* nothing has been read
Opening(k) ==
    /\ k.sent = 0 /\ k.down = <<>>
    /\ \/ Is(k, "info", <<>>)
       \/ Is(k, "finfo", <<INFO>>)
       \/ Is(k, "wait", <<INFO, FINFO>>)
       \/ Cut(k, {<<>>, <<INFO>>, <<INFO, FINFO>>})

AtInfo(k) ==
    /\ k.sent = 0 /\ k.down = <<>>
    /\ \/ Is(k, "finfo", <<>>)
       \/ Is(k, "wait", <<FINFO>>)
       \/ Cut(k, {<<>>, <<FINFO>>})

AtOpen(k, c, name) ==
    /\ k.sent = 0 /\ Quiet(k)
    /\ \/ k.pc = "wait" /\ name = Dest[c]
       \/ Cut(k, {<<>>}) /\ name \in {Dest[c], ""}

\* an answer is due, and n blocks are stored
AtAnswer(k, n) ==
    Quiet(k) /\ \/ k.pc \in {"wait", "ack"} /\ k.sent = n
                \/ Cut(k, {<<>>})
AtRefuse(k) ==
    /\ Quiet(k) /\ (k.pc \in {"wait", "ack"} \/ Cut(k, {<<>>}))
    /\ NoErrors => k.pc = "killed"

AtType(k, c, n) ==
    \/ /\ k.up = <<>> /\ Len(k.down) = 1
       /\ \/ k.pc \in {"wait", "ack"} /\ k.sent = n
          \/ Cut(k, {<<>>})
    \/ /\ k.down = <<>>
       /\ \/ /\ k.sent = n
             /\ \/ Is(k, "next", <<>>) \/ Is(k, "data", <<BLOCK>>)
                \/ Is(k, "bye", <<>>) \/ Is(k, "done", <<BYE>>)
          \/ k.sent = n + 1 /\ Is(k, "ack", <<BLOCK, Data(n + 1)>>)
          \/ Cut(k, {<<>>, <<BLOCK>>})
          \/ Cut(k, {<<BLOCK, Data(n + 1)>>}) /\ n < Blocks[c]

AtData(k, c, n) ==
    /\ k.down = <<>>
    /\ \/ k.sent = n /\ Is(k, "data", <<>>)
       \/ k.sent = n + 1 /\ Is(k, "ack", <<Data(n + 1)>>)
       \/ Cut(k, {<<>>})
       \/ Cut(k, {<<Data(n + 1)>>}) /\ n < Blocks[c]

AtStore(k, c, n, item) ==
    /\ Quiet(k)
    /\ \/ k.pc = "ack" /\ k.sent = n + 1 /\ item = Data(n + 1)
       \/ Cut(k, {<<>>}) /\ item = NoBytes
       \/ Cut(k, {<<>>}) /\ item = Data(n + 1) /\ n < Blocks[c]

\* after an error the client goes on, and nobody listens
AtEnd(k) == k.pc # "start" /\ (NoErrors => k.pc \in {"done", "killed"})

\* the file has the first n blocks of c, some perhaps cut off by a full disk
PartOf(file, c, n) ==
    /\ DOMAIN file = 1..n
    /\ \A i \in 1..n : file[i] \in {Piece(c, Data(i)), Piece(c, Torn(Data(i)))}

Speaks(th, k, c, n) ==
    /\ th.pc = "type" => AtType(k, c, n)
    /\ th.pc = "data" => AtData(k, c, n)
    /\ th.pc = "store" => AtStore(k, c, n, th.item)
    /\ th.pc \in {"send", "write"} /\ th.next = "type" => AtAnswer(k, n)
    /\ th.pc \in {"send", "write"} /\ th.next = "finish" => AtRefuse(k)
    /\ th.pc = "finish" => AtEnd(k)

Begins(th, k, c) ==
    /\ th.pc = "type0" => Opening(k)
    /\ th.pc = "finfo" => AtInfo(k)
    /\ th.pc = "open" => AtOpen(k, c, th.name)
    /\ th.pc \in {"send", "write"} => AtRefuse(k)
    /\ th.pc = "exit" => AtEnd(k)

Talk(t) ==
    LET c == thr[t].sock IN
    IF ~Past(t) THEN Begins(thr[t], cli[c], c)
    ELSE /\ thr[t].name = Dest[c] /\ Dest[c] \in DOMAIN disk \ Existing
         /\ \E n \in 0..Blocks[c] : PartOf(File(t), c, n) /\ Speaks(thr[t], cli[c], c, n)
-----------------------------------------------------------------------------
(* Who serves whom.                                                        *)

Under(c) == c \in ToSet(pending) \/ c \in open      \* a connection with both ends
Serves(t, c) == Live(t) /\ thr[t].sock = c
Unserved(c) == Under(c) /\ \A t \in Threads : ~Serves(t, c)

Wiring ==
    /\ IsInjective(pending)
    /\ \A c \in ToSet(pending) : c \notin open
    /\ \A c \in Clients : cli[c].pc = "start" => ~Under(c) /\ cli[c].sent = 0 /\ Quiet(cli[c])
    /\ ~srv.on => /\ srv.main = "accept" /\ pending = <<>> /\ open = {}
                  /\ \A t \in Threads : thr[t].pc = "none"
    /\ \A t \in Threads : Live(t) => thr[t].sock \in Clients \cap open
    /\ \A t, u \in Threads : Live(t) /\ Live(u) /\ thr[t].sock = thr[u].sock => t = u
    /\ \A t \in Threads : thr[t].pc = "arg" =>
          srv.main = "accept" /\ \A u \in Threads : thr[u].pc = "arg" => t = u
    /\ Handing => srv.accept_socket \in Clients \cap open /\ Unserved(srv.accept_socket)

Talking == /\ \A t \in Threads : Live(t) => Talk(t)
           /\ \A c \in Clients : Unserved(c) => Opening(cli[c])

Stored(f) ==
    IF f \in Existing THEN disk[f] = <<Piece(Nobody, NoBytes)>>
    ELSE /\ \E c \in Clients : Dest[c] = f /\ \E n \in 0..Blocks[c] : PartOf(disk[f], c, n)
         /\ ~Fault("disk") => \A i \in DOMAIN disk[f] : disk[f][i].data.kind # "torn"
DiskOK == /\ \A f \in DOMAIN disk : Stored(f)
          /\ open \cap Files \subseteq DOMAIN disk

\* The client has asked for nothing, or for a file its thread has not created.
Fresh(c) ==
    \/ cli[c].pc = "start"
    \/ Under(c) /\ \A t \in Threads : Serves(t, c) => thr[t].pc \in {"type0", "finfo", "open"}
Copied(c) == Dest[c] \in DOMAIN disk /\ disk[Dest[c]] = Whole(c)
Good == NoErrors => \A c \in Clients :
            /\ Fresh(c) => Dest[c] \notin DOMAIN disk
            /\ cli[c].pc = "done" /\ cli[c].sent = Blocks[c] => Copied(c)

Handed(c) == \/ \E t \in Threads : Serves(t, c)
             \/ Handing /\ c = srv.accept_socket
Held(f) == \E t \in Threads : Past(t) /\ thr[t].name = f
Kept == /\ ~Fault("nothread") => \A c \in Clients \cap open : Handed(c)
        /\ scene.faults = {} => \A f \in Files \cap open : Held(f)
        /\ ~Fault("kill") => srv.on = srv.bound

PromptParts == Wiring /\ Talking /\ DiskOK /\ Good /\ Kept
PromptInv == scene.prompt => PromptParts
ThreadInv == Types /\ MixInv /\ PromptInv
-----------------------------------------------------------------------------
(* Types.                                                                  *)

LEMMA SceneTypes ==
    ASSUME Types
    PROVE  /\ scene \in SceneType /\ scene.prompt \in BOOLEAN /\ Existing \subseteq Files
           /\ \A c \in Clients : Dest[c] \in Files /\ Blocks[c] \in Nat
  BY DEF Types, SceneType, Dest, Blocks, Existing

LEMMA ThreadTypes ==
    ASSUME Types, NEW t \in Threads
    PROVE  /\ thr[t] \in ThreadState /\ thr = [u \in Threads |-> thr[u]]
           /\ thr[t].name \in Files \cup {""} /\ thr[t].msgt \in AnyInt
           /\ thr[t].item \in Units /\ thr[t].resp \in Answers
           /\ thr[t].next \in {"type", "exit", "finish"}
           /\ Live(t) => thr[t].sock \in Clients
  BY DEF Types, TypeOK, ThreadState

LEMMA ClientTypes ==
    ASSUME Types, NEW c \in Clients
    PROVE  /\ cli[c] \in Client /\ cli[c].sent \in Nat /\ cli[c].up \in Seq(Units)
           /\ cli[c].down \in Seq(Answers) /\ cli[c].resp \in Answers
           /\ cli[c].sent <= Blocks[c] /\ Blocks[c] \in Nat
           /\ cli[c].pc = "data" => cli[c].sent < Blocks[c]
  BY SceneTypes DEF Types, TypeOK, Client

\* What a step of thread t leaves alone.
LEMMA Moves ==
    ASSUME Types, NEW t \in Threads, NEW th, Becomes(t, th)
    PROVE  /\ thr'[t] = th /\ \A u \in Threads \ {t} : thr'[u] = thr[u]
           /\ srv' = srv /\ pending' = pending
           /\ th \in ThreadState => thr' \in [Threads -> ThreadState]
  BY DEF Types, TypeOK, Becomes

LEMMA ClientMoves ==
    ASSUME Types, NEW c \in Clients, NEW k, cli' = [cli EXCEPT ![c] = k]
    PROVE  /\ cli'[c] = k /\ \A d \in Clients \ {c} : cli'[d] = cli[d]
           /\ k \in Client => cli' \in [Clients -> Client]
  BY DEF Types, TypeOK

LEMMA UnitTypes ==
    /\ \A n \in Nat : Unit("data", n) \in Units
    /\ \A m \in MsgTypes \cup {"finfo"} : Unit(m, 0) \in Units
    /\ NoBytes \in Units /\ \A u \in Units : Torn(u) \in Units
  BY DEF Unit, Units, NoBytes, Torn

LEMMA NewThread ==
    ASSUME NEW pc, NEW sock PROVE
    LET th == Thread(pc, sock) IN
    /\ th.pc = pc /\ th.sock = sock /\ th.name = "" /\ th.next = "exit"
    /\ pc \in {"none", "arg", "type0", "end"} /\ sock \in Clients \cup {Nobody} => th \in ThreadState
  BY UnitTypes DEF Thread, ThreadState, AnyInt, MsgTypes, Answers
\* The three forms of a thread's step.
LEMMA Goes ==
    ASSUME Types, NEW t \in Threads, NEW pc, Becomes(t, [thr[t] EXCEPT !.pc = pc])
    PROVE  /\ thr'[t].pc = pc /\ thr'[t].name = thr[t].name /\ thr'[t].sock = thr[t].sock
           /\ thr'[t].next = thr[t].next /\ thr'[t].resp = thr[t].resp
           /\ \A u \in Threads \ {t} : thr'[u] = thr[u]
           /\ srv' = srv /\ pending' = pending
<1>1. PICK th : th = [thr[t] EXCEPT !.pc = pc]
  OBVIOUS
<1>2. Becomes(t, th)
  BY <1>1
<1>3. thr'[t] = th /\ thr[t] \in ThreadState
  BY <1>2, Moves, ThreadTypes
<1>4. /\ \A u \in Threads \ {t} : thr'[u] = thr[u]
      /\ srv' = srv /\ pending' = pending
  BY <1>2, Moves
<1>. QED
  BY <1>1, <1>3, <1>4 DEF ThreadState

LEMMA Sent ==
    ASSUME Types, NEW t \in Threads, NEW r, NEW next, Sends(t, r, next)
    PROVE  /\ thr'[t].pc = "send" /\ thr'[t].resp = r /\ thr'[t].next = next
           /\ thr'[t].name = thr[t].name /\ thr'[t].sock = thr[t].sock
           /\ \A u \in Threads \ {t} : thr'[u] = thr[u]
           /\ srv' = srv /\ pending' = pending
<1>1. PICK th : th = [thr[t] EXCEPT !.pc = "send", !.resp = r, !.next = next,
                                       !.item = NoBytes]
  OBVIOUS
<1>2. Becomes(t, th)
  BY <1>1 DEF Sends
<1>3. thr'[t] = th /\ thr[t] \in ThreadState
  BY <1>2, Moves, ThreadTypes
<1>4. /\ \A u \in Threads \ {t} : thr'[u] = thr[u]
      /\ srv' = srv /\ pending' = pending
  BY <1>2, Moves
<1>5. /\ th.pc = "send" /\ th.resp = r /\ th.next = next
      /\ th.name = thr[t].name /\ th.sock = thr[t].sock
  BY <1>1, <1>3 DEF ThreadState
<1>. QED
  BY <1>3, <1>4, <1>5

LEMMA Ended ==
    ASSUME Types, NEW t \in Threads, NEW closed, Ends(t, closed)
    PROVE  /\ thr'[t].pc = "end" /\ open' = open \ closed
           /\ \A u \in Threads \ {t} : thr'[u] = thr[u]
           /\ UNCHANGED <<srv, pending, response, disk>>
<1>1. PICK th : th = Thread("end", Nobody)
  OBVIOUS
<1>2. Becomes(t, th)
  BY <1>1 DEF Ends
<1>3. /\ thr'[t] = th /\ \A u \in Threads \ {t} : thr'[u] = thr[u]
      /\ srv' = srv /\ pending' = pending
  BY <1>2, Moves
<1>4. th.pc = "end"
  BY <1>1 DEF Thread
<1>. QED
  BY <1>3, <1>4 DEF Ends

-----------------------------------------------------------------------------
(* The types, step by step. *)

\* What the types of the process and its threads are after a step of thread t.
LEMMA ThreadKeepsTypes ==
    ASSUME Types, NEW t \in Threads, NEW th \in ThreadState, Becomes(t, th), UNCHANGED scene,
           th.pc # "arg", th.sock \in Clients \/ th.pc = "end",
           open' \subseteq Clients \cup Files, response' \in Answers,
           cli' \in [Clients -> Client],
           \A c \in Clients : cli'[c].pc = cli[c].pc /\ cli'[c].sent = cli[c].sent,
           disk' \in [DOMAIN disk' -> Seq(Pieces)],
           Existing \subseteq DOMAIN disk', DOMAIN disk' \subseteq Files
    PROVE  Types'
<1>1. /\ thr' \in [Threads -> ThreadState] /\ srv' = srv /\ pending' = pending
      /\ thr'[t] = th /\ \A u \in Threads \ {t} : thr'[u] = thr[u]
  BY Moves
<1>2. TypeOK'
  BY <1>1 DEF Types, TypeOK, Threads, Existing, Blocks
<1>3. \A u \in Threads : Live(u)' => thr'[u].sock \in Clients
  BY <1>1 DEF Types, Live
<1>4. Handing' => srv'.accept_socket \in Clients
  BY <1>1 DEF Types, Handing
<1>5. \A c \in Clients : cli'[c].pc = "data" => cli'[c].sent < Blocks[c]
  BY DEF Types
<1>. QED
  BY <1>2, <1>3, <1>4, <1>5 DEF Types, Blocks, Threads

LEMMA ClientKeepsTypes ==
    ASSUME Types, NEW c \in Clients, NEW k \in Client, cli' = [cli EXCEPT ![c] = k],
           UNCHANGED <<srv, thr, open, response, disk, scene>>, pending' \in Seq(Clients),
           k.sent <= Blocks[c], k.pc = "data" => k.sent < Blocks[c]
    PROVE  Types'
<1>1. /\ cli' \in [Clients -> Client] /\ cli'[c] = k
      /\ \A d \in Clients \ {c} : cli'[d] = cli[d]
  BY ClientMoves
<1>2. \A d \in Clients : /\ cli'[d].sent <= Blocks[d]
                         /\ cli'[d].pc = "data" => cli'[d].sent < Blocks[d]
  BY <1>1 DEF Types, TypeOK
<1>3. TypeOK'
  BY <1>1, <1>2 DEF Types, TypeOK, Blocks, Existing
<1>. QED
  BY <1>2, <1>3 DEF Types, Blocks, Live, Handing

LEMMA Streams ==
    ASSUME NEW S, NEW s \in Seq(S)
    PROVE  /\ \A x \in S : Append(s, x) \in Seq(S) /\ <<x>> \o s \in Seq(S)
           /\ s # <<>> => /\ Head(s) \in S /\ Tail(s) \in Seq(S)
                          /\ s[1] \in S /\ Head(s) = s[1]
           /\ <<>> \in Seq(S)
  OBVIOUS

LEMMA DiesKeepsTypes ==
    ASSUME Types, NEW run \in BOOLEAN, Dies(run), UNCHANGED scene
    PROVE  Types'
<1>1. \A t \in Threads : thr'[t].pc = "none"
  BY NewThread DEF Dies
<1>2. thr' \in [Threads -> ThreadState]
  BY NewThread DEF Dies
<1>3. srv' \in Process /\ srv'.starts <= scene.starts /\ srv'.main = "accept"
  BY DEF Types, TypeOK, Process, Dies
<1>4. TypeOK'
  BY <1>2, <1>3 DEF Types, TypeOK, Dies, Answers, Threads, Blocks, Existing
<1>5. \A t \in Threads : ~Live(t)' /\ thr'[t].pc # "arg"
  BY <1>1 DEF Live
<1>6. ~Handing'
  BY <1>3, <1>5 DEF Handing, Threads
<1>. QED
  BY <1>4, <1>5, <1>6 DEF Types, Dies, Threads, Blocks

LEMMA ServerKeepsTypes ==
    ASSUME Types, StartServer \/ Sigint \/ Accept \/ Create, UNCHANGED scene
    PROVE  Types'
<1>1. CASE StartServer
  <2>1. /\ srv \in Process /\ srv.starts < scene.starts
        /\ srv.starts \in Nat /\ scene.starts \in Nat /\ (~srv.bound) \in BOOLEAN
    BY <1>1 DEF Types, TypeOK, Process, StartServer, SceneType
  <2>2. srv.starts + 1 \in Nat /\ srv.starts + 1 <= scene.starts
    BY <2>1
  <2>3. /\ srv' \in Process /\ srv'.starts <= scene.starts
        /\ srv'.main = srv.main /\ srv'.accept_socket = srv.accept_socket
    BY <1>1, <2>1, <2>2 DEF Process, StartServer
  <2>. QED
    BY <1>1, <2>3 DEF Types, TypeOK, StartServer, Threads, Blocks, Existing, Live, Handing
<1>2. CASE Sigint
  BY <1>2, DiesKeepsTypes DEF Sigint
<1>3. CASE Accept
  <2>1. CASE MoreFds
    <3>1. Head(pending) \in Clients /\ Tail(pending) \in Seq(Clients)
      BY <1>3 DEF Types, TypeOK, Accept
    <3>2. /\ srv' = [srv EXCEPT !.main = "create", !.accept_socket = Head(pending)]
          /\ open' = open \cup {Head(pending)} /\ pending' = Tail(pending)
          /\ UNCHANGED <<thr, response, cli, disk>>
      BY <1>3, <2>1 DEF Accept
    <3>3. srv' \in Process /\ srv'.starts <= scene.starts /\ srv'.accept_socket \in Clients
      BY <3>1, <3>2 DEF Types, TypeOK, Process
    <3>. QED
      BY <3>1, <3>2, <3>3 DEF Types, TypeOK, Threads, Blocks, Existing, Live, Handing
  <2>. QED
    BY <1>3, <2>1, DiesKeepsTypes DEF Accept
<1>4. CASE Create
  <2>1. /\ srv' \in Process /\ srv'.starts <= scene.starts /\ srv'.main = "accept"
        /\ srv'.accept_socket = srv.accept_socket /\ srv.accept_socket \in Clients
        /\ UNCHANGED <<open, response, pending, cli, disk>>
    BY <1>4 DEF Types, TypeOK, Process, Create, Handing
  <2>2. CASE UNCHANGED thr
    BY <2>1, <2>2 DEF Types, TypeOK, Threads, Blocks, Existing, Live, Handing
  <2>3. ASSUME NEW t \in Threads, thr' = [thr EXCEPT ![t] = Thread("arg", Nobody)]
        PROVE  Types'
    <3>1. Thread("arg", Nobody) \in ThreadState /\ Thread("arg", Nobody).pc = "arg"
      BY NewThread
    <3>2. thr' \in [Threads -> ThreadState] /\ thr'[t].pc = "arg"
          /\ \A u \in Threads \ {t} : thr'[u] = thr[u]
      BY <2>3, <3>1 DEF Types, TypeOK
    <3>3. \A u \in Threads : Live(u)' => thr'[u].sock \in Clients
      BY <3>2 DEF Types, Live
    <3>. QED
      BY <2>1, <3>2, <3>3 DEF Types, TypeOK, Threads, Blocks, Existing, Handing
  <2>. QED
    BY <1>4, <2>2, <2>3 DEF Create
<1>. QED
  BY <1>1, <1>2, <1>3, <1>4

\* What read() of an int gives and leaves is of the right type.
LEMMA IntReadTypes ==
    ASSUME Types, NEW t \in Threads, thr[t].sock \in Clients, NEW got \in IntReads(t)
    PROVE  got[1] \in AnyInt /\ got[2] \in Seq(Units)
<1>. DEFINE c == thr[t].sock
<1>1. cli[c].up \in Seq(Units) /\ thr[t].msgt \in AnyInt
  BY ClientTypes, ThreadTypes
<1>2. CASE cli[c].up = <<>>
  <2>1. got \in AnyInt \X {<<>>}
    BY <1>1, <1>2 DEF IntReads
  <2>2. got[1] \in AnyInt /\ got[2] = <<>>
    BY <2>1
  <2>. QED
    BY <2>2
<1>3. CASE cli[c].up # <<>>
  <2>1. /\ Tail(cli[c].up) \in Seq(Units) /\ cli[c].up[1] \in Units
        /\ <<Torn(cli[c].up[1])>> \o Tail(cli[c].up) \in Seq(Units)
    BY <1>1, <1>3, Streams, UnitTypes
  <2>2. got \in AnyInt \X {Tail(cli[c].up), <<Torn(cli[c].up[1])>> \o Tail(cli[c].up)}
    BY <1>3 DEF IntReads, AnyInt
  <2>3. got[1] \in AnyInt
        /\ got[2] \in {Tail(cli[c].up), <<Torn(cli[c].up[1])>> \o Tail(cli[c].up)}
    BY <2>2
  <2>. QED
    BY <2>1, <2>3
<1>. QED
  BY <1>2, <1>3

\* An update of one of the two streams of a client.
LEMMA UpSet ==
    ASSUME Types, NEW c \in Clients, NEW up \in Seq(Units), cli' = [cli EXCEPT ![c].up = up]
    PROVE  /\ cli' \in [Clients -> Client]
           /\ \A d \in Clients : cli'[d].pc = cli[d].pc /\ cli'[d].sent = cli[d].sent
           /\ cli'[c].up = up /\ cli'[c].down = cli[c].down
           /\ \A d \in Clients \ {c} : cli'[d] = cli[d]
  BY ClientTypes DEF Types, TypeOK, Client

LEMMA DownSet ==
    ASSUME Types, NEW c \in Clients, NEW down \in Seq(Answers),
           cli' = [cli EXCEPT ![c].down = down]
    PROVE  /\ cli' \in [Clients -> Client]
           /\ \A d \in Clients : cli'[d].pc = cli[d].pc /\ cli'[d].sent = cli[d].sent
           /\ cli'[c].down = down /\ cli'[c].up = cli[c].up
           /\ \A d \in Clients \ {c} : cli'[d] = cli[d]
  BY ClientTypes DEF Types, TypeOK, Client

LEMMA ThreadStepKeepsTypes ==
    ASSUME Types, MixInv, UNCHANGED scene, NEW t \in Threads, ThreadStep(t)
    PROVE  Types'
<1>. DEFINE c == thr[t].sock
            Streamed == /\ cli' \in [Clients -> Client]
                        /\ \A d \in Clients : cli'[d].pc = cli[d].pc /\ cli'[d].sent = cli[d].sent
<1>1. /\ thr[t] \in ThreadState
      /\ cli \in [Clients -> Client] /\ disk \in [DOMAIN disk -> Seq(Pieces)]
      /\ Existing \subseteq DOMAIN disk /\ DOMAIN disk \subseteq Files
      /\ open \subseteq Clients \cup Files /\ response \in Answers
  BY ThreadTypes DEF Types, TypeOK
<1>2. Live(t) => /\ c \in Clients
                 /\ cli[c].up \in Seq(Units) /\ cli[c].down \in Seq(Answers)
  BY ThreadTypes, ClientTypes
<1>3. /\ <<>> \in Seq(Units) /\ <<>> \in Seq(Answers)
      /\ UNCHANGED cli => Streamed
      /\ \A up \in Seq(Units) : Live(t) /\ cli' = [cli EXCEPT ![c].up = up] => Streamed
      /\ \A down \in Seq(Answers) : Live(t) /\ cli' = [cli EXCEPT ![c].down = down] => Streamed
  BY <1>1, <1>2, UpSet, DownSet
<1>. HIDE DEF Streamed
\* a step that leaves the files alone
<1>4. ASSUME NEW th, Becomes(t, th), th \in ThreadState, th.pc # "arg",
             th.sock \in Clients \/ th.pc = "end",
             open' \subseteq open, response' \in Answers, Streamed, disk' = disk
      PROVE  Types'
  BY <1>1, <1>4, ThreadKeepsTypes DEF Streamed
\* ... and only sends the thread to another place
<1>5. ASSUME NEW th \in ThreadState, Becomes(t, th), th.sock = c, Live(t), th.pc # "arg",
             UNCHANGED <<open, disk>>, response' \in Answers, Streamed
      PROVE  Types'
  BY <1>2, <1>4, <1>5
<1>6. ASSUME NEW closed, Ends(t, closed), Streamed
      PROVE  Types'
  <2>1. PICK th : th = Thread("end", Nobody)
    OBVIOUS
  <2>2. th \in ThreadState /\ th.pc = "end" /\ Becomes(t, th)
    BY <1>6, <2>1, NewThread DEF Ends
  <2>3. open' \subseteq open /\ response' \in Answers /\ disk' = disk
    BY <1>1, <1>6 DEF Ends
  <2>. QED
    BY <1>4, <1>6, <2>2, <2>3
<1>7. CASE TakeArgument(t)
  <2>1. srv.accept_socket \in Clients
    BY <1>7 DEF TakeArgument, Types, Handing
  <2>2. PICK th : th = Thread("type0", srv.accept_socket)
    OBVIOUS
  <2>3. th \in ThreadState /\ th.pc = "type0" /\ th.sock = srv.accept_socket
    BY <2>1, <2>2, UnitTypes DEF Thread, ThreadState, AnyInt, MsgTypes, Answers
  <2>4. Becomes(t, th) /\ UNCHANGED <<open, response, cli, disk>>
    BY <1>7, <2>2 DEF TakeArgument
  <2>. QED
    BY <1>1, <1>3, <1>4, <2>1, <2>3, <2>4
<1>8. CASE ReadFails(t)
  BY <1>3, <1>6, <1>8 DEF ReadFails, Live, ReadPcs
<1>9. CASE ReadType(t)
  <2>1. PICK got \in IntReads(t) :
          /\ Becomes(t, [thr[t] EXCEPT !.msgt = got[1], !.pc = AfterType(thr[t].pc, got[1])])
          /\ cli' = [cli EXCEPT ![c].up = got[2]]
    BY <1>9 DEF ReadType
  <2>2. Live(t) /\ UNCHANGED <<open, response, disk>>
    BY <1>9 DEF ReadType, Live
  <2>3. got[1] \in AnyInt /\ got[2] \in Seq(Units)
    BY <1>2, <2>2, IntReadTypes
  <2>4. AfterType(thr[t].pc, got[1]) \in {"finfo", "exit", "finish", "data", "type"}
    BY DEF AfterType
  <2>5. PICK th : th = [thr[t] EXCEPT !.msgt = got[1], !.pc = AfterType(thr[t].pc, got[1])]
    OBVIOUS
  <2>6. th \in ThreadState /\ th.sock = c /\ th.pc # "arg"
    BY <1>1, <2>3, <2>4, <2>5 DEF ThreadState
  <2>. QED
    BY <1>1, <1>3, <1>5, <2>1, <2>2, <2>3, <2>5, <2>6
<1>10. CASE ReadInfo(t)
  <2>1. PICK f \in Names(c) : Becomes(t, [thr[t] EXCEPT !.name = f, !.pc = "open"])
    BY <1>10 DEF ReadInfo
  <2>2. Live(t) /\ UNCHANGED <<open, response, disk>> /\ cli' = [cli EXCEPT ![c].up = <<>>]
    BY <1>10 DEF ReadInfo, Live, TakeAll
  <2>3. f \in Files \cup {""}
    BY <1>2, <2>2, SceneTypes DEF Names
  <2>4. PICK th : th = [thr[t] EXCEPT !.name = f, !.pc = "open"]
    OBVIOUS
  <2>5. th \in ThreadState /\ th.sock = c /\ th.pc # "arg"
    BY <1>1, <2>3, <2>4 DEF ThreadState
  <2>. QED
    BY <1>1, <1>3, <1>5, <2>1, <2>2, <2>4, <2>5
<1>11. ASSUME NEW r \in Answers, NEW next \in {"type", "exit", "finish"}
       PROVE  LET th == [thr[t] EXCEPT !.pc = "send", !.resp = r, !.next = next,
                                          !.item = NoBytes]
              IN  th \in ThreadState /\ th.sock = c /\ th.pc # "arg"
  BY <1>1, UnitTypes DEF ThreadState
<1>12. CASE OpenFile(t)
  <2>1. Live(t) /\ UNCHANGED <<response, cli>>
    BY <1>12 DEF OpenFile, Live
  <2>2. CASE Sends(t, "ERROR", "exit") /\ UNCHANGED <<open, disk>>
    BY <1>1, <1>3, <1>5, <1>11, <2>1, <2>2 DEF Sends, Answers
  <2>3. CASE ~(Sends(t, "ERROR", "exit") /\ UNCHANGED <<open, disk>>)
    <3>. DEFINE f == thr[t].name
    <3>1. /\ f \notin DOMAIN disk \cup {""}
          /\ disk' = [g \in DOMAIN disk \cup {f} |-> IF g = f THEN <<>> ELSE disk[g]]
          /\ open' = open \cup {f}
      BY <1>12, <2>3 DEF OpenFile
    <3>2. PICK r \in Answers, next \in {"type", "exit"} : Sends(t, r, next)
      BY <1>12, <2>3 DEF OpenFile, Answers
    <3>3. f \in Files
      BY <3>1, ThreadTypes
    <3>4. /\ disk' \in [DOMAIN disk' -> Seq(Pieces)]
          /\ Existing \subseteq DOMAIN disk' /\ DOMAIN disk' \subseteq Files
      <4>1. DOMAIN disk' = DOMAIN disk \cup {f}
        BY <3>1
      <4>2. <<>> \in Seq(Pieces)
        OBVIOUS
      <4>3. \A g \in DOMAIN disk' : disk'[g] \in Seq(Pieces)
        BY <1>1, <3>1, <4>1, <4>2
      <4>. QED
        BY <1>1, <3>1, <3>3, <4>1, <4>3
    <3>5. PICK th : th = [thr[t] EXCEPT !.pc = "send", !.resp = r, !.next = next,
                                           !.item = NoBytes]
      OBVIOUS
    <3>6. th \in ThreadState /\ th.sock = c /\ th.pc # "arg" /\ Becomes(t, th)
      BY <1>11, <3>2, <3>5 DEF Sends
    <3>. QED
      BY <1>1, <1>2, <1>3, <2>1, <3>1, <3>3, <3>4, <3>6, ThreadKeepsTypes DEF Streamed
  <2>. QED
    BY <2>2, <2>3
<1>13. ASSUME NEW pc \in {"write", "type", "exit", "finish"}
       PROVE  LET th == [thr[t] EXCEPT !.pc = pc]
              IN  th \in ThreadState /\ th.sock = c /\ th.pc # "arg"
  BY <1>1 DEF ThreadState
<1>14. CASE SetResponse(t)
  <2>1. thr[t].resp \in Answers
    BY ThreadTypes
  <2>. QED
    BY <1>3, <1>5, <1>13, <1>14, <2>1 DEF SetResponse, Live
<1>15. CASE WriteResponse(t)
  <2>1. CASE /\ cli' = [cli EXCEPT ![c].down = Append(@, response)]
             /\ Becomes(t, [thr[t] EXCEPT !.pc = thr[t].next])
             /\ UNCHANGED <<open, response, disk>>
    <3>1. Live(t) /\ thr[t].next \in {"type", "exit", "finish"}
      BY <1>15, ThreadTypes DEF WriteResponse, Live
    <3>2. Append(cli[c].down, response) \in Seq(Answers)
      BY <1>1, <1>2, <3>1
    <3>3. cli' = [cli EXCEPT ![c].down = Append(cli[c].down, response)]
      BY <1>1, <1>2, <2>1, <3>1
    <3>4. Streamed
      BY <1>3, <3>1, <3>2, <3>3
    <3>. QED
      BY <1>1, <1>5, <1>13, <2>1, <3>1, <3>4
  <2>2. CASE Dies(FALSE)
    BY <2>2, DiesKeepsTypes
  <2>3. CASE Ends(t, {}) /\ UNCHANGED cli
    BY <1>3, <1>6, <2>3
  <2>. QED
    BY <1>15, <2>1, <2>2, <2>3 DEF WriteResponse
<1>16. CASE ReadData(t)
  <2>1. PICK item : item = IF cli[c].up = <<>> THEN NoBytes ELSE cli[c].up[1]
    OBVIOUS
  <2>2. /\ Live(t) /\ UNCHANGED <<open, response, disk>> /\ cli' = [cli EXCEPT ![c].up = <<>>]
        /\ Becomes(t, [thr[t] EXCEPT !.pc = "store", !.item = item])
    BY <1>16, <2>1 DEF ReadData, Live, TakeAll
  <2>3. item \in Units
    BY <1>2, <2>1, <2>2, Streams, UnitTypes
  <2>4. PICK th : th = [thr[t] EXCEPT !.pc = "store", !.item = item]
    OBVIOUS
  <2>5. th \in ThreadState /\ th.sock = c /\ th.pc # "arg"
    BY <1>1, <2>3, <2>4 DEF ThreadState
  <2>. QED
    BY <1>1, <1>3, <1>5, <2>2, <2>4, <2>5
<1>17. CASE Store(t)
  <2>1. Live(t) /\ Past(t) /\ UNCHANGED <<open, response, cli>>
    BY <1>17 DEF Store, Live, Past
  <2>2. PICK r \in Answers, next \in {"type", "finish"} : Sends(t, r, next)
    BY <1>17 DEF Store, Answers
  <2>3. PICK th : th = [thr[t] EXCEPT !.pc = "send", !.resp = r, !.next = next,
                                         !.item = NoBytes]
    OBVIOUS
  <2>4. th \in ThreadState /\ th.sock = c /\ th.pc # "arg" /\ Becomes(t, th)
    BY <1>11, <2>2, <2>3 DEF Sends
  <2>5. CASE disk' = disk
    BY <1>1, <1>3, <1>5, <2>1, <2>4, <2>5
  <2>6. ASSUME NEW unit \in {thr[t].item, Torn(thr[t].item)}, Put(t, unit)
        PROVE  Types'
    <3>1. thr[t].name \in DOMAIN disk /\ Piece(c, unit) \in Pieces
      BY <1>2, <2>1, ThreadTypes, UnitTypes DEF MixInv, Owns, Piece, Pieces
    <3>2. /\ DOMAIN disk' = DOMAIN disk /\ disk' \in [DOMAIN disk' -> Seq(Pieces)]
      <4>1. disk' = [disk EXCEPT ![thr[t].name] = Append(@, Piece(c, unit))]
        BY <1>1, <2>6 DEF Put
      <4>. QED
        BY <1>1, <3>1, <4>1
    <3>. QED
      BY <1>1, <1>2, <1>3, <2>1, <2>4, <3>2, ThreadKeepsTypes DEF Streamed
  <2>. QED
    BY <1>17, <2>5, <2>6 DEF Store
<1>18. CASE ThreadEnds(t)
  BY <1>3, <1>6, <1>18 DEF ThreadEnds
<1>. QED
  BY <1>7, <1>8, <1>9, <1>10, <1>12, <1>14, <1>15, <1>16, <1>17, <1>18 DEF ThreadStep

LEMMA ClientStepKeepsTypes ==
    ASSUME Types, UNCHANGED scene, NEW c \in Clients,
           Connect(c) \/ ClientStep(c) \/ KillClient(c)
    PROVE  Types'
<1>. DEFINE k == cli[c]
            Pcs == {"start", "info", "finfo", "wait", "next", "data", "ack", "bye", "done",
                    "failed", "killed"}
<1>1. /\ k \in Client /\ k.sent \in Nat /\ k.up \in Seq(Units) /\ k.down \in Seq(Answers)
      /\ k.sent <= Blocks[c] /\ Blocks[c] \in Nat /\ k.resp \in Answers
      /\ pending \in Seq(Clients) /\ cli = [d \in Clients |-> cli[d]]
  BY ClientTypes DEF Types, TypeOK
<1>2. \A u \in Units : Append(k.up, u) \in Seq(Units)
  BY <1>1
\* a step that gives c another place, stream or answer
<1>3. ASSUME NEW new, new \in Client, cli' = [cli EXCEPT ![c] = new],
             new.sent = k.sent \/ (new.sent = k.sent + 1 /\ new.sent <= Blocks[c]),
             new.pc = "data" => new.sent < Blocks[c],
             UNCHANGED <<srv, thr, open, response, disk>>, pending' \in Seq(Clients)
      PROVE  Types'
  BY <1>1, <1>3, ClientKeepsTypes
<1>4. ASSUME NEW pc \in Pcs, NEW up \in Seq(Units), NEW sent \in Nat
      PROVE  LET new == [k EXCEPT !.pc = pc, !.up = up, !.sent = sent]
             IN  new \in Client /\ new.pc = pc /\ new.sent = sent
  BY <1>1 DEF Client
<1>5. ASSUME NEW pc \in Pcs \ {"data"}, ClientBecomes(c, [k EXCEPT !.pc = pc])
      PROVE  Types'
  <2>1. PICK new : new = [k EXCEPT !.pc = pc]
    OBVIOUS
  <2>2. new \in Client /\ new.sent = k.sent /\ new.pc # "data"
    BY <1>1, <2>1 DEF Client
  <2>. QED
    BY <1>1, <1>3, <1>5, <2>1, <2>2 DEF ClientBecomes
<1>6. CASE Connect(c)
  <2>1. UNCHANGED <<srv, thr, open, response, disk>>
    BY <1>6 DEF Connect
  <2>2. ASSUME NEW pc \in {"info", "failed"}, cli' = [cli EXCEPT ![c].pc = pc],
               pending' \in Seq(Clients)
        PROVE  Types'
    <3>1. PICK new : new = [k EXCEPT !.pc = pc]
      OBVIOUS
    <3>2. new \in Client /\ new.sent = k.sent /\ new.pc # "data" /\ cli' = [cli EXCEPT ![c] = new]
      BY <1>1, <2>2, <3>1 DEF Client
    <3>. QED
      BY <1>1, <1>3, <2>1, <2>2, <3>2
  <2>3. Append(pending, c) \in Seq(Clients)
    BY <1>1
  <2>. QED
    BY <1>1, <1>6, <2>2, <2>3 DEF Connect
<1>7. ASSUME NEW from, NEW unit \in Units, NEW to \in Pcs, Write(c, from, unit, to),
             to = "data" => k.sent < Blocks[c]
      PROVE  Types'
  <2>1. CASE ServerOpen(c)
    <3>1. PICK new : new = [k EXCEPT !.pc = to, !.up = Append(@, unit)]
      OBVIOUS
    <3>2. new \in Client /\ new.sent = k.sent /\ new.pc = to
      BY <1>1, <1>2, <3>1 DEF Client
    <3>. QED
      BY <1>1, <1>3, <1>7, <2>1, <3>1, <3>2 DEF Write, ClientBecomes
  <2>. QED
    BY <1>5, <1>7, <2>1 DEF Write
<1>8. ASSUME NEW from, NEW to \in Pcs \ {"data"}, Read(c, from, to)
      PROVE  Types'
  <2>1. CASE k.down # <<>> /\ ClientBecomes(c, [k EXCEPT !.pc = to, !.resp = Head(k.down),
                                                         !.down = Tail(@)])
    <3>1. PICK new : new = [k EXCEPT !.pc = to, !.resp = Head(k.down), !.down = Tail(@)]
      OBVIOUS
    <3>2. Head(k.down) \in Answers /\ Tail(k.down) \in Seq(Answers)
      BY <1>1, <2>1
    <3>3. new \in Client /\ new.sent = k.sent /\ new.pc = to
      BY <1>1, <3>1, <3>2 DEF Client
    <3>. QED
      BY <1>1, <1>3, <2>1, <3>1, <3>3 DEF ClientBecomes
  <2>2. CASE ClientBecomes(c, [k EXCEPT !.pc = IF k.up = <<>> THEN to ELSE "bye"])
    <3>1. PICK pc \in Pcs \ {"data"} : pc = IF k.up = <<>> THEN to ELSE "bye"
      OBVIOUS
    <3>. QED
      BY <1>5, <2>2, <3>1
  <2>. QED
    BY <1>8, <2>1, <2>2 DEF Read
<1>9. CASE ClientStep(c)
  <2>1. CASE SendInfoType(c) \/ SendInfo(c) \/ SayBye(c)
    <3>1. Unit("INFO", 0) \in Units /\ Unit("finfo", 0) \in Units /\ Unit("BYE", 0) \in Units
      BY UnitTypes DEF MsgTypes
    <3>. QED
      BY <1>7, <2>1, <3>1 DEF SendInfoType, SendInfo, SayBye
  <2>2. CASE SendBlockType(c)
    <3>1. Unit("BLOCK", 0) \in Units
      BY UnitTypes DEF MsgTypes
    <3>. QED
      BY <1>7, <2>2, <3>1 DEF SendBlockType
  <2>3. CASE InfoAnswered(c) \/ BlockAnswered(c)
    BY <1>8, <2>3 DEF InfoAnswered, BlockAnswered
  <2>4. CASE SendBlock(c)
    <3>. DEFINE n == k.sent + 1
    <3>1. n \in Nat /\ n <= Blocks[c] /\ Unit("data", n) \in Units
      <4>1. k.sent < Blocks[c]
        BY <2>4, ClientTypes DEF SendBlock
      <4>2. n \in Nat /\ n <= Blocks[c]
        BY <1>1, <4>1
      <4>. QED
        BY <4>2, UnitTypes
    <3>2. CASE ServerOpen(c)
      <4>1. PICK new : new = [k EXCEPT !.pc = "ack", !.sent = n,
                                       !.up = Append(@, Unit("data", n))]
        OBVIOUS
      <4>2. new \in Client /\ new.sent = k.sent + 1 /\ new.sent <= Blocks[c] /\ new.pc = "ack"
        BY <1>1, <1>2, <3>1, <4>1 DEF Client
      <4>. QED
        BY <1>1, <1>3, <2>4, <3>2, <4>1, <4>2 DEF SendBlock, ClientBecomes
    <3>. QED
      BY <1>5, <2>4, <3>2 DEF SendBlock
  <2>5. CASE SourceEnds(c)
    BY <1>5, <2>5 DEF SourceEnds
  <2>. QED
    BY <1>9, <2>1, <2>2, <2>3, <2>4, <2>5 DEF ClientStep
<1>10. CASE KillClient(c)
  BY <1>5, <1>10 DEF KillClient
<1>. QED
  BY <1>6, <1>9, <1>10
-----------------------------------------------------------------------------
(* No file mixes two clients. *)

\* A step after which no more threads have a file, and the files are the same.
LEMMA MixStays ==
    ASSUME MixInv, UNCHANGED disk,
           \A u \in Threads : Past(u)' => /\ Past(u) /\ thr'[u].name = thr[u].name
                                          /\ thr'[u].sock = thr[u].sock
    PROVE  MixInv'
<1>1. OneSource'
  BY DEF MixInv, OneSource
<1>2. OneWriter'
  BY DEF MixInv, OneWriter, Threads
<1>3. \A u \in Threads : Past(u)' => Owns(u)'
  BY DEF MixInv, Owns, File
<1>. QED
  BY <1>1, <1>2, <1>3 DEF MixInv, Threads

\* A step of thread t that does not take it past the opening of its file.
LEMMA MixStep ==
    ASSUME Types, MixInv, NEW t \in Threads, NEW th, Becomes(t, th), UNCHANGED disk,
           Past(t)' => Past(t) /\ th.name = thr[t].name /\ th.sock = thr[t].sock
    PROVE  MixInv'
<1>1. thr'[t] = th /\ \A u \in Threads \ {t} : thr'[u] = thr[u]
  BY Moves
<1>2. \A u \in Threads \ {t} : Past(u)' <=> Past(u)
  BY <1>1 DEF Past
<1>. QED
  BY <1>1, <1>2, MixStays

\* The thread opens a new file.
LEMMA MixOpens ==
    ASSUME Types, MixInv, NEW t \in Threads, thr[t].pc = "open", OpenFile(t),
           ~(Sends(t, "ERROR", "exit") /\ UNCHANGED <<open, disk>>)
    PROVE  MixInv'
<1>. DEFINE f == thr[t].name
<1>1. /\ f \notin DOMAIN disk
      /\ disk' = [g \in DOMAIN disk \cup {f} |-> IF g = f THEN <<>> ELSE disk[g]]
  BY DEF OpenFile
<1>2. PICK r \in Answers, next \in {"type", "exit"} : Sends(t, r, next)
  BY DEF OpenFile, Answers
<1>3. thr'[t].name = f /\ \A u \in Threads \ {t} : thr'[u] = thr[u]
  BY <1>2, Sent
<1>4. \A u \in Threads \ {t} : /\ Past(u)' <=> Past(u)
                              /\ Past(u) => thr[u].name \in DOMAIN disk /\ thr[u].name # f
  BY <1>1, <1>3 DEF Past, MixInv, Owns
<1>5. DOMAIN disk' = DOMAIN disk \cup {f} /\ disk'[f] = <<>>
      /\ \A g \in DOMAIN disk : disk'[g] = disk[g]
  BY <1>1
<1>. HIDE DEF f
<1>6. OneWriter'
  <2>. SUFFICES ASSUME NEW u \in Threads, NEW v \in Threads, Past(u)', Past(v)',
                       thr'[u].name = thr'[v].name
                PROVE  u = v
    BY DEF OneWriter, Threads
  <2>1. (u = t <=> v = t)
    BY <1>3, <1>4 DEF Past
  <2>. QED
    BY <1>3, <1>4, <2>1 DEF MixInv, OneWriter, Past
<1>7. OneSource'
  BY <1>5 DEF MixInv, OneSource
<1>8. \A u \in Threads : Past(u)' => Owns(u)'
  <2>1. Owns(t)'
    BY <1>3, <1>5 DEF Owns, File
  <2>2. ASSUME NEW u \in Threads \ {t}, Past(u)' PROVE Owns(u)'
    <3>1. Owns(u) /\ thr'[u] = thr[u] /\ thr[u].name \in DOMAIN disk
      BY <1>3, <1>4, <2>2 DEF MixInv, Past
    <3>2. disk'[thr'[u].name] = disk[thr[u].name] /\ thr'[u].name \in DOMAIN disk'
      BY <1>5, <3>1
    <3>. QED
      BY <3>1, <3>2 DEF Owns, File
  <2>. QED
    BY <2>1, <2>2
<1>. QED
  BY <1>6, <1>7, <1>8 DEF MixInv, Threads

\* The thread stores what came from its connection.
LEMMA MixStores ==
    ASSUME Types, MixInv, NEW t \in Threads, thr[t].pc = "store", NEW r, Sends(t, r, "type"),
           NEW unit, Put(t, unit)
    PROVE  MixInv'
<1>. DEFINE f == thr[t].name
            p == Piece(thr[t].sock, unit)
<1>1. Past(t) /\ Owns(t) /\ f \in DOMAIN disk /\ disk[f] \in Seq(Pieces)
  BY DEF Past, MixInv, Owns, Types, TypeOK
<1>2. /\ thr'[t].name = f /\ thr'[t].sock = thr[t].sock
      /\ \A u \in Threads \ {t} : thr'[u] = thr[u]
  BY Sent
<1>3. \A u \in Threads \ {t} : /\ Past(u)' <=> Past(u)
                              /\ Past(u) => thr[u].name # f
  BY <1>1, <1>2 DEF Past, MixInv, OneWriter
<1>4. /\ DOMAIN disk' = DOMAIN disk /\ disk'[f] = Append(disk[f], p)
      /\ \A g \in DOMAIN disk \ {f} : disk'[g] = disk[g]
  BY <1>1 DEF Types, TypeOK, Put
<1>5. \A i \in DOMAIN disk'[f] : disk'[f][i].from = thr[t].sock
  <2>1. /\ DOMAIN disk'[f] = 1..Len(disk[f]) + 1 /\ Len(disk[f]) \in Nat
        /\ \A i \in 1..Len(disk[f]) : disk'[f][i] = disk[f][i] /\ i \in DOMAIN disk[f]
        /\ disk'[f][Len(disk[f]) + 1] = p
    BY <1>1, <1>4
  <2>2. \A i \in 1..Len(disk[f]) : disk[f][i].from = thr[t].sock
    BY <1>1 DEF Owns, File
  <2>3. p.from = thr[t].sock
    BY DEF Piece
  <2>. HIDE DEF f, p
  <2>4. \A i \in 1..Len(disk[f]) + 1 : i \in 1..Len(disk[f]) \/ i = Len(disk[f]) + 1
    BY <2>1
  <2>. QED
    BY <2>1, <2>2, <2>3, <2>4
<1>. HIDE DEF f, p
<1>6. OneWriter'
  <2>. SUFFICES ASSUME NEW u \in Threads, NEW v \in Threads, Past(u)', Past(v)',
                       thr'[u].name = thr'[v].name
                PROVE  u = v
    BY DEF OneWriter, Threads
  <2>1. (u = t <=> v = t)
    BY <1>2, <1>3 DEF Past
  <2>. QED
    BY <1>2, <1>3, <2>1 DEF MixInv, OneWriter, Past
<1>7. OneSource'
  BY <1>4, <1>5 DEF MixInv, OneSource
<1>8. \A u \in Threads : Past(u)' => Owns(u)'
  <2>1. Owns(t)'
    BY <1>1, <1>2, <1>4, <1>5 DEF Owns, File
  <2>2. ASSUME NEW u \in Threads \ {t}, Past(u)' PROVE Owns(u)'
    <3>1. Owns(u) /\ thr'[u] = thr[u] /\ thr[u].name \in DOMAIN disk \ {f}
      BY <1>2, <1>3, <2>2 DEF MixInv, Owns, Past
    <3>2. disk'[thr'[u].name] = disk[thr[u].name] /\ thr'[u].name \in DOMAIN disk'
      BY <1>4, <3>1
    <3>. QED
      BY <3>1, <3>2 DEF Owns, File
  <2>. QED
    BY <2>1, <2>2
<1>. QED
  BY <1>6, <1>7, <1>8 DEF MixInv, Threads

LEMMA NobodyPast ==
    ASSUME NEW run, Dies(run) PROVE \A t \in Threads : ~Past(t)'
<1>. SUFFICES ASSUME NEW t \in Threads PROVE ~Past(t)'
  BY DEF Threads
<1>1. thr'[t].pc = "none"
  BY NewThread DEF Dies
<1>. QED
  BY <1>1 DEF Past

LEMMA MixNext ==
    ASSUME Types, MixInv, Step, UNCHANGED scene
    PROVE  MixInv'
<1>1. ASSUME NEW run, Dies(run) PROVE MixInv'
  <2>1. UNCHANGED disk /\ \A t \in Threads : ~Past(t)'
    BY <1>1, NobodyPast DEF Dies
  <2>. QED
    BY <2>1, MixStays
<1>2. ASSUME UNCHANGED <<thr, disk>> PROVE MixInv'
  BY <1>2, MixStays DEF Past
<1>3. CASE StartServer \/ Sigint \/ Accept
  BY <1>1, <1>2, <1>3 DEF StartServer, Sigint, Accept
<1>4. CASE Create
  <2>1. ASSUME NEW t \in Threads, thr' = [thr EXCEPT ![t] = Thread("arg", Nobody)], UNCHANGED disk
        PROVE  MixInv'
    <3>1. /\ \A u \in Threads \ {t} : thr'[u] = thr[u]
          /\ thr'[t].pc = "arg"
      BY <2>1, ThreadTypes DEF Thread
    <3>. QED
      BY <2>1, <3>1, MixStays DEF Past
  <2>. QED
    BY <1>2, <1>4, <2>1 DEF Create
<1>5. ASSUME NEW c \in Clients, Connect(c) \/ ClientStep(c) \/ KillClient(c) PROVE MixInv'
  BY <1>2, <1>5 DEF Connect, ClientStep, KillClient, ClientBecomes, SendInfoType, SendInfo,
     InfoAnswered, SendBlockType, SendBlock, BlockAnswered, SourceEnds, SayBye, Write, Read
<1>6. ASSUME NEW t \in Threads, ThreadStep(t) PROVE MixInv'
  <2>1. thr[t] \in ThreadState
    BY ThreadTypes
  <2>2. ASSUME NEW closed, Ends(t, closed) PROVE MixInv'
    <3>1. thr'[t].pc = "end" /\ UNCHANGED disk
      BY <2>2, Ended
    <3>. QED
      BY <2>2, <3>1, MixStep DEF Ends, Past
  <2>3. CASE TakeArgument(t)
    <3>1. PICK th : th = Thread("type0", srv.accept_socket) /\ Becomes(t, th)
      BY <2>3 DEF TakeArgument
    <3>2. thr'[t].pc = "type0" /\ UNCHANGED disk
      <4>1. th.pc = "type0"
        BY <3>1 DEF Thread
      <4>. QED
        BY <2>3, <3>1, <4>1, Moves DEF TakeArgument
    <3>. QED
      BY <3>1, <3>2, MixStep DEF Past
  <2>4. CASE ReadFails(t) \/ ThreadEnds(t)
    BY <2>2, <2>4 DEF ReadFails, ThreadEnds
  <2>5. CASE ReadType(t)
    <3>1. PICK msgt, pc, th : /\ Becomes(t, th) /\ pc = AfterType(thr[t].pc, msgt)
                              /\ th = [thr[t] EXCEPT !.msgt = msgt, !.pc = pc]
      BY <2>5 DEF ReadType
    <3>2. th.pc = pc /\ th.name = thr[t].name /\ th.sock = thr[t].sock
      BY <2>1, <3>1 DEF ThreadState
    <3>3. thr[t].pc = "type0" => pc \in {"finfo", "exit"}
      BY <3>1 DEF AfterType
    <3>4. thr[t].pc \in {"type0", "type"} /\ UNCHANGED disk
      BY <2>5 DEF ReadType
    <3>5. thr'[t] = th
      BY <3>1, Moves
    <3>. QED
      BY <3>1, <3>2, <3>3, <3>4, <3>5, MixStep DEF Past
  <2>6. CASE ReadInfo(t)
    <3>1. PICK f, th : th = [thr[t] EXCEPT !.name = f, !.pc = "open"] /\ Becomes(t, th)
      BY <2>6 DEF ReadInfo
    <3>2. thr'[t].pc = "open" /\ UNCHANGED disk
      <4>1. th.pc = "open"
        BY <2>1, <3>1 DEF ThreadState
      <4>. QED
        BY <2>6, <3>1, <4>1, Moves DEF ReadInfo
    <3>. QED
      BY <3>1, <3>2, MixStep DEF Past
  <2>7. CASE OpenFile(t)
    <3>1. thr[t].pc = "open"
      BY <2>7 DEF OpenFile
    <3>2. CASE Sends(t, "ERROR", "exit") /\ UNCHANGED <<open, disk>>
      <4>1. thr'[t].pc = "send" /\ thr'[t].next = "exit"
        BY <3>2, Sent
      <4>. QED
        BY <3>2, <4>1, MixStep DEF Past, Sends
    <3>. QED
      BY <2>7, <3>1, <3>2, MixOpens
  <2>8. ASSUME NEW pc, Becomes(t, [thr[t] EXCEPT !.pc = pc]), UNCHANGED disk,
               Past(t)' => Past(t)
        PROVE  MixInv'
    <3>1. PICK th : th = [thr[t] EXCEPT !.pc = pc] /\ Becomes(t, th)
      BY <2>8
    <3>2. th.name = thr[t].name /\ th.sock = thr[t].sock
      BY <2>1, <3>1 DEF ThreadState
    <3>. QED
      BY <2>8, <3>1, <3>2, MixStep
  <2>9. CASE SetResponse(t)
    <3>1. Becomes(t, [thr[t] EXCEPT !.pc = "write"]) /\ thr[t].pc = "send" /\ UNCHANGED disk
      BY <2>9 DEF SetResponse
    <3>2. Past(t)' => Past(t)
      BY <3>1, Goes DEF Past
    <3>. QED
      BY <2>8, <3>1, <3>2
  <2>10. CASE WriteResponse(t)
    <3>1. CASE Becomes(t, [thr[t] EXCEPT !.pc = thr[t].next]) /\ UNCHANGED disk
      <4>1. Past(t)' => Past(t)
        BY <2>10, <3>1, Goes DEF WriteResponse, Past
      <4>. QED
        BY <2>8, <3>1, <4>1
    <3>. QED
      BY <1>1, <2>2, <2>10, <3>1 DEF WriteResponse
  <2>11. CASE ReadData(t)
    <3>1. PICK item, th : Becomes(t, th) /\ th = [thr[t] EXCEPT !.pc = "store", !.item = item]
      BY <2>11 DEF ReadData
    <3>2. th.name = thr[t].name /\ th.sock = thr[t].sock
      BY <2>1, <3>1 DEF ThreadState
    <3>3. thr[t].pc = "data" /\ UNCHANGED disk
      BY <2>11 DEF ReadData
    <3>. QED
      BY <3>1, <3>2, <3>3, MixStep DEF Past
  <2>12. CASE Store(t)
    <3>1. PICK r \in Answers, next \in {"type", "finish"} :
             Sends(t, r, next) /\ (next = "finish" => disk' = disk)
      BY <2>12 DEF Store, Answers
    <3>2. CASE disk' = disk
      <4>1. PICK th : /\ Becomes(t, th)
                      /\ th = [thr[t] EXCEPT !.pc = "send", !.resp = r, !.next = next,
                                             !.item = NoBytes]
        BY <3>1 DEF Sends
      <4>2. th.name = thr[t].name /\ th.sock = thr[t].sock
        BY <2>1, <4>1 DEF ThreadState
      <4>3. Past(t)
        BY <2>12 DEF Store, Past
      <4>. QED
        BY <3>2, <4>1, <4>2, <4>3, MixStep
    <3>3. CASE disk' # disk
      <4>1. /\ thr[t].pc = "store" /\ next = "type"
            /\ \E unit \in {thr[t].item, Torn(thr[t].item)} : Put(t, unit)
        BY <2>12, <3>1, <3>3 DEF Store
      <4>. QED
        BY <3>1, <4>1, MixStores
    <3>. QED
      BY <3>2, <3>3
  <2>. QED
    BY <1>6, <2>3, <2>4, <2>5, <2>6, <2>7, <2>9, <2>10, <2>11, <2>12 DEF ThreadStep
<1>. QED
  BY <1>3, <1>4, <1>5, <1>6 DEF Step
-----------------------------------------------------------------------------
(* The parts of PromptInv that a step of thread t leaves alone while it     *)
(* keeps its connection.                                                   *)

LEMMA WiringStays ==
    ASSUME Wiring, UNCHANGED <<scene, srv, pending>>, NEW t \in Threads, Live(t), Live(t)',
           thr'[t].sock = thr[t].sock, \A u \in Threads \ {t} : thr'[u] = thr[u],
           open' \cap Clients = open \cap Clients, open \subseteq open',
           pending \in Seq(Clients),
           \A d \in Clients \ {thr[t].sock} : cli'[d] = cli[d],
           cli'[thr[t].sock].pc # "start"
    PROVE  /\ Wiring'
           /\ \A d \in Clients : Under(d)' <=> Under(d)
           /\ \A d \in Clients : Unserved(d)' => Unserved(d) /\ cli'[d] = cli[d]
           /\ \A d \in Clients : Handed(d) => Handed(d)'
<1>. DEFINE c == thr[t].sock
<1>1. \A u \in Threads : /\ Live(u)' <=> Live(u)
                         /\ thr'[u].sock = thr[u].sock
                         /\ thr'[u].pc = "arg" <=> thr[u].pc = "arg"
                         /\ thr'[u].pc = "none" <=> thr[u].pc = "none"
  BY DEF Live
<1>2. Handing' <=> Handing
  BY <1>1 DEF Handing, Threads
<1>3. \A d \in Clients : Under(d)' <=> Under(d)
  BY DEF Under
<1>4. \A d \in Clients : Unserved(d)' <=> Unserved(d)
  BY <1>1, <1>3 DEF Unserved, Serves, Threads, Live, Under
<1>5. c \in Clients /\ c \in open
  BY DEF Wiring
<1>6. Serves(t, c)
  BY DEF Serves
<1>7. \A d \in ToSet(pending) : d \in Clients
  BY DEF ToSet
<1>8. Wiring'
  <2>1. /\ IsInjective(pending')
        /\ \A d \in ToSet(pending') : d \notin open'
    BY <1>7 DEF Wiring
  <2>2. \A d \in Clients : cli'[d].pc = "start" =>
           ~Under(d)' /\ cli'[d].sent = 0 /\ Quiet(cli[d])'
    <3>. SUFFICES ASSUME NEW d \in Clients, cli'[d].pc = "start"
                  PROVE  ~Under(d)' /\ cli'[d].sent = 0 /\ Quiet(cli[d])'
      OBVIOUS
    <3>1. cli'[d] = cli[d] /\ cli[d].pc = "start"
      OBVIOUS
    <3>2. ~Under(d)'
      BY <3>1 DEF Wiring, Under
    <3>3. cli[d].sent = 0 /\ cli[d].up = <<>> /\ cli[d].down = <<>>
      BY <3>1 DEF Wiring, Quiet
    <3>. QED
      BY <3>1, <3>2, <3>3 DEF Quiet
  <2>. QED
    BY <1>1, <1>2, <1>3, <1>4, <1>5, <2>1, <2>2 DEF Wiring
<1>9. \A d \in Clients : Unserved(d)' => Unserved(d) /\ cli'[d] = cli[d]
  BY <1>1, <1>3, <1>4 DEF Unserved, Serves, Live, Threads, Under
<1>10. \A d \in Clients : Handed(d) => Handed(d)'
  BY <1>1, <1>2 DEF Handed, Serves, Live, Threads, Handing
<1>. QED
  BY <1>3, <1>8, <1>9, <1>10

\* The conversation of another thread goes on as before.
LEMMA TalkStays ==
    ASSUME UNCHANGED scene, NEW u \in Threads, Talk(u), thr'[u] = thr[u],
           cli'[thr[u].sock] = cli[thr[u].sock],
           Past(u) => /\ thr[u].name \in DOMAIN disk =>
                            thr[u].name \in DOMAIN disk' /\ disk'[thr[u].name] = File(u)
    PROVE  Talk(u)'
<1>1. Past(u)' <=> Past(u)
  BY DEF Past
<1>2. CASE ~Past(u)
  <2>1. Begins(thr[u], cli[thr[u].sock], thr[u].sock)
    BY <1>2 DEF Talk
  <2>2. PICK th, k, c : th = thr[u] /\ k = cli[thr[u].sock] /\ c = thr[u].sock
    OBVIOUS
  <2>3. th = thr'[u] /\ k = cli'[thr'[u].sock] /\ c = thr'[u].sock
    BY <2>2
  <2>4. Begins(th, k, c)
    BY <2>1, <2>2
  <2>5. Begins(th, k, c)'
    BY <2>4 DEF Begins, Opening, AtInfo, AtOpen, AtRefuse, AtEnd, Is, Cut, Quiet, Fault, Dest,
       NoErrors, Existing
  <2>. QED
    BY <1>1, <1>2, <2>3, <2>5 DEF Talk
<1>3. CASE Past(u)
  <2>2. PICK th, k, c : th = thr[u] /\ k = cli[thr[u].sock] /\ c = thr[u].sock
    OBVIOUS
  <2>3. th = thr'[u] /\ k = cli'[thr'[u].sock] /\ c = thr'[u].sock
    BY <2>2
  <2>4. /\ th.name = Dest[c] /\ Dest[c] \in DOMAIN disk \ Existing
        /\ \E n \in 0..Blocks[c] : PartOf(File(u), c, n) /\ Speaks(th, k, c, n)
    BY <1>3, <2>2 DEF Talk
  <2>5. PICK n \in 0..Blocks[c] : PartOf(File(u), c, n) /\ Speaks(th, k, c, n)
    BY <2>4
  <2>6. Speaks(th, k, c, n)'
    BY <2>5 DEF Speaks, AtType, AtData, AtStore, AtAnswer, AtRefuse, AtEnd, Is, Cut, Quiet,
       Fault, Blocks, Dest, NoErrors, Existing
  <2>7. PartOf(File(u)', c, n)
    BY <1>3, <2>2, <2>4, <2>5 DEF File
  <2>. QED
    BY <1>1, <1>3, <2>3, <2>4, <2>6, <2>7 DEF Talk, Dest, Existing, Blocks
<1>. QED
  BY <1>2, <1>3


\* The conversations of the others, and the connections without a thread.
LEMMA TalkingStays ==
    ASSUME Wiring, Wiring', Talking, UNCHANGED scene, NEW t \in Threads, Live(t),
           \A u \in Threads \ {t} : thr'[u] = thr[u],
           \A d \in Clients \ {thr[t].sock} : cli'[d] = cli[d],
           \A d \in Clients : Unserved(d)' => Unserved(d) /\ cli'[d] = cli[d],
           \A u \in Threads \ {t} : Past(u) /\ thr[u].name \in DOMAIN disk =>
                thr[u].name \in DOMAIN disk' /\ disk'[thr[u].name] = disk[thr[u].name],
           Live(t)' => Talk(t)'
    PROVE  Talking'
<1>1. ASSUME NEW u \in Threads, Live(u)' PROVE Talk(u)'
  <2>1. CASE u = t
    BY <1>1, <2>1
  <2>2. CASE u # t
    <3>1. Live(u) /\ Talk(u) /\ thr'[u] = thr[u]
      BY <1>1, <2>2 DEF Live, Talking
    <3>2. thr[u].sock \in Clients /\ thr[u].sock # thr[t].sock
      BY <2>2, <3>1 DEF Wiring
    <3>. QED
      BY <2>2, <3>1, <3>2, TalkStays DEF File
  <2>. QED
    BY <2>1, <2>2
<1>2. ASSUME NEW d \in Clients, Unserved(d)' PROVE Opening(cli[d])'
  <2>1. Unserved(d) /\ cli'[d] = cli[d]
    BY <1>2
  <2>2. Opening(cli[d])
    BY <2>1 DEF Talking
  <2>3. PICK k : k = cli[d] /\ k = cli'[d]
    BY <2>1
  <2>4. Opening(k)
    BY <2>2, <2>3
  <2>5. Opening(k)'
    BY <2>4 DEF Opening, Is, Cut, Fault
  <2>. QED
    BY <2>3, <2>5
<1>. QED
  BY <1>1, <1>2 DEF Talking, Threads

\* The thread goes on with its connection, and the files stay.
LEMMA StaysKeeps ==
    ASSUME Types, PromptParts, UNCHANGED <<scene, srv, pending, open, disk>>,
           NEW t \in Threads, Live(t), Live(t)',
           thr'[t].sock = thr[t].sock, \A u \in Threads \ {t} : thr'[u] = thr[u],
           Past(t) => Past(t)' /\ thr'[t].name = thr[t].name,
           thr'[t].pc \in {"type0", "finfo", "open"} => thr[t].pc \in {"type0", "finfo", "open"},
           \A d \in Clients \ {thr[t].sock} : cli'[d] = cli[d],
           cli'[thr[t].sock].pc = cli[thr[t].sock].pc,
           cli'[thr[t].sock].sent = cli[thr[t].sock].sent,
           Talk(t)'
    PROVE  PromptParts'
<1>. DEFINE c == thr[t].sock
<1>1. c \in Clients /\ c \in open /\ cli[c].pc # "start"
  BY DEF PromptParts, Wiring, Under
<1>2. pending \in Seq(Clients)
  BY DEF Types, TypeOK
<1>3. /\ Wiring'
      /\ \A d \in Clients : Under(d)' <=> Under(d)
      /\ \A d \in Clients : Unserved(d)' => Unserved(d) /\ cli'[d] = cli[d]
      /\ \A d \in Clients : Handed(d) => Handed(d)'
  BY <1>1, <1>2, WiringStays DEF PromptParts
<1>4. Talking'
  BY <1>3, TalkingStays DEF PromptParts
<1>5. DiskOK'
  BY DEF PromptParts, DiskOK, Stored, Existing, Dest, Blocks, Fault
<1>6. \A d \in Clients : /\ cli'[d].pc = cli[d].pc /\ cli'[d].sent = cli[d].sent
                         /\ Fresh(d)' => Fresh(d)
  <2>1. \A d \in Clients : cli'[d].pc = cli[d].pc /\ cli'[d].sent = cli[d].sent
    BY <1>1
  <2>. SUFFICES ASSUME NEW d \in Clients, Fresh(d)' PROVE Fresh(d)
    BY <2>1
  <2>2. CASE cli'[d].pc = "start"
    BY <2>1, <2>2 DEF Fresh
  <2>3. CASE Under(d)' /\ \A u \in Threads : Serves(u, d)' => thr'[u].pc \in {"type0", "finfo", "open"}
    <3>1. Under(d)
      BY <2>3 DEF Under
    <3>2. ASSUME NEW u \in Threads, Serves(u, d) PROVE thr[u].pc \in {"type0", "finfo", "open"}
      <4>1. Serves(u, d)'
        BY <3>2 DEF Serves, Live
      <4>. QED
        BY <2>3, <4>1
    <3>. QED
      BY <3>1, <3>2 DEF Fresh
  <2>. QED
    BY <2>2, <2>3 DEF Fresh, Threads
<1>7. Good'
  BY <1>6 DEF PromptParts, Good, NoErrors, Copied, Dest, Existing, Blocks, Whole, Fault
<1>8. Kept'
  <2>1. ASSUME NEW f \in Files, Held(f) PROVE Held(f)'
    BY <2>1 DEF Held, Past, Threads
  <2>. QED
    BY <1>3, <2>1 DEF PromptParts, Kept, Fault
<1>. QED
  BY <1>3, <1>4, <1>5, <1>7, <1>8 DEF PromptParts
-----------------------------------------------------------------------------
(* The steps of a thread with its client. *)

PastOf(th) == \/ th.pc \in {"type", "data", "store", "finish"}
              \/ th.pc \in {"send", "write"} /\ th.next # "exit"

\* How a conversation is stated after a step.
LEMMA TalkBegins ==
    ASSUME UNCHANGED scene, NEW t \in Threads, NEW th, NEW c, NEW k,
           th = thr'[t], c = th.sock, k = cli'[c], ~PastOf(th), Begins(th, k, c)
    PROVE  Talk(t)'
<1>1. Begins(th, k, c)'
  BY DEF Begins, Opening, AtInfo, AtOpen, AtRefuse, AtEnd, Is, Cut, Quiet, Fault, Dest,
     NoErrors, Existing
<1>2. ~Past(t)'
  BY DEF Past, PastOf
<1>. QED
  BY <1>1, <1>2 DEF Talk

LEMMA TalkGoesOn ==
    ASSUME UNCHANGED scene, NEW t \in Threads, NEW th, NEW c, NEW k, NEW n \in 0..Blocks[c],
           th = thr'[t], c = th.sock, k = cli'[c], PastOf(th), th.name = Dest[c],
           Dest[c] \in DOMAIN disk' \ Existing, PartOf(disk'[Dest[c]], c, n),
           Speaks(th, k, c, n)
    PROVE  Talk(t)'
<1>1. Speaks(th, k, c, n)'
  BY DEF Speaks, AtType, AtData, AtStore, AtAnswer, AtRefuse, AtEnd, Is, Cut, Quiet,
     Fault, Blocks, Dest, NoErrors, Existing
<1>2. Past(t)'
  BY DEF Past, PastOf
<1>. QED
  BY <1>1, <1>2 DEF Talk, Dest, Existing, Blocks, File

\* What is known about a thread that has opened its file, and its client.
LEMMA TalkIs ==
    ASSUME Types, PromptParts, NEW t \in Threads, Live(t)
    PROVE  LET c == thr[t].sock IN
           /\ c \in Clients /\ c \in open /\ cli[c].pc # "start"
           /\ ~Past(t) => Begins(thr[t], cli[c], c)
           /\ Past(t) => /\ thr[t].name = Dest[c] /\ Dest[c] \in DOMAIN disk \ Existing
                         /\ \E n \in 0..Blocks[c] :
                               PartOf(disk[Dest[c]], c, n) /\ Speaks(thr[t], cli[c], c, n)
  BY DEF PromptParts, Wiring, Talking, Talk, Under, File

LEMMA Constants ==
    /\ INFO.kind = "INFO" /\ FINFO.kind = "finfo" /\ BLOCK.kind = "BLOCK" /\ BYE.kind = "BYE"
    /\ \A n \in Nat : Data(n).kind = "data" /\ Data(n) # NoBytes
    /\ NoBytes.kind = "none" /\ INFO # FINFO
    /\ \A a : <<a>> # <<>> /\ <<a>>[1] = a /\ Tail(<<a>>) = <<>>
    /\ \A a, b : <<a, b>> # <<>> /\ <<a, b>>[1] = a /\ Tail(<<a, b>>) = <<b>>
  BY DEF INFO, FINFO, BLOCK, BYE, Data, NoBytes, Unit

\* A type is read whole, when the stream begins with one; or the client is gone.
LEMMA TypeRead ==
    ASSUME NEW t \in Threads, NEW got \in IntReads(t), NEW c, c = thr[t].sock
    PROVE  /\ cli[c].up = <<>> => ~ClientOpen(c) /\ cli[c].down = <<>> /\ got[2] = <<>>
           /\ cli[c].up # <<>> /\ cli[c].up[1].kind \in MsgTypes =>
                got[1] = cli[c].up[1].kind /\ got[2] = Tail(cli[c].up)
<1>. DEFINE up == cli[c].up
<1>1. CASE up = <<>>
  <2>1. AtEof(c) /\ got \in (AnyInt \cup {thr[t].msgt}) \X {<<>>}
    BY <1>1 DEF IntReads, AnyInt
  <2>. QED
    BY <1>1, <2>1 DEF AtEof
<1>2. CASE up # <<>> /\ up[1].kind \in MsgTypes
  <2>1. got \in {<<up[1].kind, Tail(up)>>}
    BY <1>2 DEF IntReads
  <2>2. got = <<up[1].kind, Tail(up)>>
    BY <2>1
  <2>. QED
    BY <1>2, <2>2
<1>. QED
  BY <1>1, <1>2

LEMMA ReadTypeKeeps ==
    ASSUME Types, PromptParts, UNCHANGED scene, NEW t \in Threads, ReadType(t)
    PROVE  PromptParts'
<1>. DEFINE c == thr[t].sock
<1>1. PICK got \in IntReads(t) :
        /\ Becomes(t, [thr[t] EXCEPT !.msgt = got[1], !.pc = AfterType(thr[t].pc, got[1])])
        /\ cli' = [cli EXCEPT ![c].up = got[2]]
  BY DEF ReadType
<1>2. Live(t) /\ thr[t].pc \in {"type0", "type"} /\ UNCHANGED <<open, disk>>
  BY DEF ReadType, Live
<1>3. c \in Clients /\ cli[c].pc # "start"
  BY <1>2, TalkIs
<1>4. PICK th : th = [thr[t] EXCEPT !.msgt = got[1], !.pc = AfterType(thr[t].pc, got[1])]
  OBVIOUS
<1>5. /\ thr'[t] = th /\ \A u \in Threads \ {t} : thr'[u] = thr[u]
      /\ UNCHANGED <<srv, pending>>
  BY <1>1, <1>4, Moves
<1>6. /\ th.pc = AfterType(thr[t].pc, got[1]) /\ th.name = thr[t].name /\ th.sock = c
  BY <1>4, ThreadTypes DEF ThreadState
<1>7. got[2] \in Seq(Units)
  BY <1>3, IntReadTypes
<1>8. PICK k : k = cli'[c]
  OBVIOUS
<1>9. /\ k.pc = cli[c].pc /\ k.sent = cli[c].sent /\ k.down = cli[c].down /\ k.up = got[2]
      /\ \A d \in Clients \ {c} : cli'[d] = cli[d]
  BY <1>1, <1>3, <1>7, <1>8, UpSet
<1>10. /\ cli[c].up = <<>> => ~ClientOpen(c) /\ cli[c].down = <<>> /\ got[2] = <<>>
       /\ cli[c].up # <<>> /\ cli[c].up[1].kind \in MsgTypes =>
                got[1] = cli[c].up[1].kind /\ got[2] = Tail(cli[c].up)
  BY TypeRead
<1>11. Talk(t)'
  <2>1. CASE thr[t].pc = "type0"
    <3>1. th.pc \in {"finfo", "exit"} /\ (th.pc = "finfo" <=> got[1] = "INFO") /\ ~PastOf(th)
      BY <1>6, <2>1 DEF AfterType, PastOf
    <3>2. Opening(cli[c])
      BY <1>2, <2>1, TalkIs DEF Past, Begins
    <3>3. Begins(th, k, c)
      <4>1. CASE cli[c].up = <<>>
        <5>1. cli[c].pc = "killed" /\ Fault("kill") /\ k.up = <<>>
          BY <1>9, <1>10, <3>2, <4>1 DEF Opening, Is, Cut, ClientOpen
        <5>. QED
          BY <1>9, <3>1, <3>2, <5>1 DEF Begins, Opening, AtInfo, AtEnd, Cut
      <4>2. CASE cli[c].up # <<>>
        <5>1. cli[c].up[1].kind = "INFO" /\ (cli[c].up = <<INFO>> \/ cli[c].up = <<INFO, FINFO>>)
          BY <3>2, <4>2, Constants DEF Opening, Is, Cut
        <5>2. th.pc = "finfo" /\ k.up = Tail(cli[c].up)
          BY <1>9, <1>10, <3>1, <4>2, <5>1 DEF MsgTypes
        <5>3. AtInfo(k)
          <6>1. <<INFO>> # <<INFO, FINFO>>
            OBVIOUS
          <6>2. CASE cli[c].up = <<INFO>>
            <7>1. k.up = <<>>
              BY <5>2, <6>2, Constants
            <7>. QED
              BY <1>9, <3>2, <6>1, <6>2, <7>1, Constants DEF Opening, AtInfo, Is, Cut
          <6>3. CASE cli[c].up = <<INFO, FINFO>>
            <7>1. k.up = <<FINFO>>
              BY <5>2, <6>3, Constants
            <7>. QED
              BY <1>9, <3>2, <6>1, <6>3, <7>1, Constants DEF Opening, AtInfo, Is, Cut
          <6>. QED
            BY <5>1, <6>2, <6>3
        <5>. QED
          BY <5>2, <5>3 DEF Begins
      <4>. QED
        BY <4>1, <4>2
    <3>. QED
      BY <1>5, <1>6, <1>8, <3>1, <3>3, TalkBegins
  <2>2. CASE thr[t].pc = "type"
    <3>1. PICK n \in 0..Blocks[c] : PartOf(disk[Dest[c]], c, n) /\ Speaks(thr[t], cli[c], c, n)
      BY <1>2, <2>2, TalkIs DEF Past
    <3>2. AtType(cli[c], c, n) /\ n \in Nat
      BY <1>3, <2>2, <3>1, SceneTypes DEF Speaks
    <3>3. /\ th.pc \in {"finish", "data", "type"} /\ PastOf(th)
          /\ th.pc = "finish" <=> got[1] = "BYE"
          /\ th.pc = "data" <=> got[1] = "BLOCK"
      BY <1>6, <2>2 DEF AfterType, PastOf
    <3>4. Speaks(th, k, c, n)
      <4>1. CASE cli[c].up = <<>>
        <5>1. cli[c].pc \in {"killed"} /\ Fault("kill") /\ k.up = <<>> /\ k.down = <<>>
          BY <1>9, <1>10, <3>2, <4>1, Constants DEF AtType, Is, Cut, ClientOpen
        <5>. QED
          BY <1>9, <3>3, <5>1 DEF Speaks, AtType, AtData, AtEnd, Cut
      <4>2. CASE cli[c].up # <<>>
        <5>1. cli[c].up \in {<<BLOCK>>, <<BYE>>, <<BLOCK, Data(n + 1)>>} /\ cli[c].down = <<>>
          BY <3>2, <4>2, Constants DEF AtType, Is, Cut
        <5>2. cli[c].up[1].kind \in {"BLOCK", "BYE"}
          BY <5>1, Constants
        <5>3. got[1] = cli[c].up[1].kind /\ k.up = Tail(cli[c].up)
          BY <1>9, <1>10, <4>2, <5>2 DEF MsgTypes
        <5>4. CASE cli[c].up = <<BYE>>
          <6>1. th.pc = "finish" /\ k.pc = "done"
            BY <1>9, <3>2, <3>3, <5>3, <5>4, Constants DEF AtType, Is, Cut
          <6>. QED
            BY <6>1 DEF Speaks, AtEnd
        <5>5. CASE cli[c].up = <<BLOCK>>
          <6>1. th.pc = "data" /\ k.up = <<>>
            BY <3>3, <5>3, <5>5, Constants
          <6>2. AtData(k, c, n)
            BY <1>9, <3>2, <5>1, <5>5, <6>1, Constants DEF AtType, AtData, Is, Cut
          <6>. QED
            BY <6>1, <6>2 DEF Speaks
        <5>6. CASE cli[c].up = <<BLOCK, Data(n + 1)>>
          <6>1. th.pc = "data" /\ k.up = <<Data(n + 1)>>
            BY <3>3, <5>3, <5>6, Constants
          <6>2. AtData(k, c, n)
            BY <1>9, <3>2, <5>1, <5>6, <6>1, Constants DEF AtType, AtData, Is, Cut
          <6>. QED
            BY <6>1, <6>2 DEF Speaks
        <5>. QED
          BY <5>1, <5>4, <5>5, <5>6
      <4>. QED
        BY <4>1, <4>2
    <3>5. thr[t].name = Dest[c] /\ Dest[c] \in DOMAIN disk' \ Existing
          /\ PartOf(disk'[Dest[c]], c, n)
      BY <1>2, <2>2, <3>1, TalkIs DEF Past
    <3>. QED
      BY <1>5, <1>6, <1>8, <3>3, <3>4, <3>5, TalkGoesOn
  <2>. QED
    BY <1>2, <2>1, <2>2
<1>12. thr[t].pc = "type0" => th.pc \in {"finfo", "exit"}
  BY <1>6 DEF AfterType
<1>13. /\ thr[t].pc = "type" => th.pc \in {"finish", "data", "type"}
       /\ thr'[t].sock = c
  BY <1>5, <1>6 DEF AfterType
<1>14. Live(t)' /\ (Past(t) => Past(t)')
  BY <1>2, <1>5, <1>12, <1>13 DEF Live, Past
<1>. QED
  BY <1>2, <1>5, <1>6, <1>8, <1>9, <1>11, <1>12, <1>13, <1>14, StaysKeeps

LEMMA ReadInfoKeeps ==
    ASSUME Types, PromptParts, UNCHANGED scene, NEW t \in Threads, ReadInfo(t)
    PROVE  PromptParts'
<1>. DEFINE c == thr[t].sock
<1>1. PICK f \in Names(c) : Becomes(t, [thr[t] EXCEPT !.name = f, !.pc = "open"])
  BY DEF ReadInfo
<1>2. /\ Live(t) /\ thr[t].pc = "finfo" /\ ~Past(t) /\ UNCHANGED <<open, disk>>
      /\ cli' = [cli EXCEPT ![c].up = <<>>] /\ (cli[c].up # <<>> \/ AtEof(c))
  BY DEF ReadInfo, Live, TakeAll, Past
<1>3. c \in Clients /\ cli[c].pc # "start" /\ AtInfo(cli[c])
  BY <1>2, TalkIs DEF Begins
<1>4. PICK th : th = [thr[t] EXCEPT !.name = f, !.pc = "open"]
  OBVIOUS
<1>5. /\ thr'[t] = th /\ \A u \in Threads \ {t} : thr'[u] = thr[u]
      /\ UNCHANGED <<srv, pending>>
  BY <1>1, <1>4, Moves
<1>6. th.pc = "open" /\ th.name = f /\ th.sock = c
  BY <1>4, ThreadTypes DEF ThreadState
<1>7. <<>> \in Seq(Units)
  OBVIOUS
<1>8. PICK k : k = cli'[c]
  OBVIOUS
<1>9. /\ k.pc = cli[c].pc /\ k.sent = cli[c].sent /\ k.down = cli[c].down /\ k.up = <<>>
      /\ \A d \in Clients \ {c} : cli'[d] = cli[d]
  BY <1>2, <1>3, <1>7, <1>8, UpSet
<1>10. AtOpen(k, c, f)
  <2>1. CASE cli[c].up = <<>>
    <3>1. k.pc = "killed" /\ Fault("kill") /\ f = ""
      BY <1>1, <1>2, <1>3, <1>9, <2>1, Constants DEF AtInfo, Is, Cut, AtEof, ClientOpen, Names
    <3>. QED
      BY <1>3, <1>9, <3>1 DEF AtInfo, AtOpen, Quiet, Cut
  <2>2. CASE cli[c].up # <<>>
    <3>1. cli[c].up = <<FINFO>> /\ (k.pc = "wait" \/ (k.pc = "killed" /\ Fault("kill")))
      BY <1>3, <1>9, <2>2 DEF AtInfo, Is, Cut
    <3>2. f = Dest[c]
      BY <1>1, <2>2, <3>1 DEF Names, FINFO
    <3>. QED
      BY <1>3, <1>9, <3>1, <3>2 DEF AtInfo, AtOpen, Quiet, Cut
  <2>. QED
    BY <2>1, <2>2
<1>11. ~PastOf(th) /\ Begins(th, k, c)
  BY <1>6, <1>10 DEF PastOf, Begins
<1>12. Talk(t)'
  BY <1>5, <1>6, <1>8, <1>11, TalkBegins
<1>13. Live(t)' /\ thr'[t].sock = c
  BY <1>5, <1>6 DEF Live
<1>. QED
  BY <1>2, <1>5, <1>8, <1>9, <1>12, <1>13, StaysKeeps

LEMMA SetResponseKeeps ==
    ASSUME Types, PromptParts, UNCHANGED scene, NEW t \in Threads, SetResponse(t)
    PROVE  PromptParts'
<1>. DEFINE c == thr[t].sock
<1>1. /\ Live(t) /\ thr[t].pc = "send" /\ UNCHANGED <<open, disk, cli>>
      /\ Becomes(t, [thr[t] EXCEPT !.pc = "write"])
  BY DEF SetResponse, Live
<1>2. PICK th : th = thr'[t]
  OBVIOUS
<1>3. /\ th.pc = "write" /\ th.name = thr[t].name /\ th.sock = c /\ th.next = thr[t].next
      /\ \A u \in Threads \ {t} : thr'[u] = thr[u]
      /\ UNCHANGED <<srv, pending>>
  BY <1>1, <1>2, Goes
<1>4. PICK k : k = cli[c]
  OBVIOUS
<1>5. Past(t) <=> PastOf(th)
  BY <1>1, <1>3 DEF Past, PastOf
<1>6. CASE ~Past(t)
  <2>1. Begins(thr[t], k, c)
    BY <1>1, <1>4, <1>6, TalkIs
  <2>2. Begins(th, k, c)
    BY <1>1, <1>3, <2>1 DEF Begins
  <2>3. Talk(t)'
    BY <1>1, <1>2, <1>3, <1>4, <1>5, <1>6, <2>2, TalkBegins
  <2>. QED
    BY <1>1, <1>2, <1>3, <1>6, <2>3, StaysKeeps DEF Live
<1>7. CASE Past(t)
  <2>1. /\ thr[t].name = Dest[c] /\ Dest[c] \in DOMAIN disk \ Existing
        /\ \E n \in 0..Blocks[c] : PartOf(disk[Dest[c]], c, n) /\ Speaks(thr[t], k, c, n)
    BY <1>1, <1>4, <1>7, TalkIs
  <2>2. PICK n \in 0..Blocks[c] : PartOf(disk[Dest[c]], c, n) /\ Speaks(thr[t], k, c, n)
    BY <2>1
  <2>3. Speaks(th, k, c, n)
    BY <1>1, <1>3, <2>2 DEF Speaks
  <2>4. Talk(t)'
    BY <1>1, <1>2, <1>3, <1>4, <1>5, <1>7, <2>1, <2>2, <2>3, TalkGoesOn
  <2>5. Past(t)'
    BY <1>2, <1>5, <1>7 DEF Past, PastOf
  <2>. QED
    BY <1>1, <1>2, <1>3, <1>7, <2>4, <2>5, StaysKeeps DEF Live
<1>. QED
  BY <1>6, <1>7

LEMMA ReadDataKeeps ==
    ASSUME Types, PromptParts, UNCHANGED scene, NEW t \in Threads, ReadData(t)
    PROVE  PromptParts'
<1>. DEFINE c == thr[t].sock
<1>1. PICK item : item = IF cli[c].up = <<>> THEN NoBytes ELSE cli[c].up[1]
  OBVIOUS
<1>2. /\ Live(t) /\ thr[t].pc = "data" /\ Past(t) /\ UNCHANGED <<open, disk>>
      /\ Becomes(t, [thr[t] EXCEPT !.pc = "store", !.item = item])
      /\ cli' = [cli EXCEPT ![c].up = <<>>] /\ (cli[c].up # <<>> \/ AtEof(c))
  BY <1>1 DEF ReadData, Live, TakeAll, Past
<1>3. /\ c \in Clients /\ cli[c].pc # "start"
      /\ thr[t].name = Dest[c] /\ Dest[c] \in DOMAIN disk \ Existing
      /\ \E n \in 0..Blocks[c] : PartOf(disk[Dest[c]], c, n) /\ Speaks(thr[t], cli[c], c, n)
  BY <1>2, TalkIs
<1>4. PICK n \in 0..Blocks[c] : PartOf(disk[Dest[c]], c, n) /\ Speaks(thr[t], cli[c], c, n)
  BY <1>3
<1>5. AtData(cli[c], c, n) /\ n \in Nat
  BY <1>2, <1>3, <1>4, SceneTypes DEF Speaks
<1>6. PICK th : th = [thr[t] EXCEPT !.pc = "store", !.item = item]
  OBVIOUS
<1>7. /\ thr'[t] = th /\ \A u \in Threads \ {t} : thr'[u] = thr[u]
      /\ UNCHANGED <<srv, pending>>
  BY <1>2, <1>6, Moves
<1>8. th.pc = "store" /\ th.name = thr[t].name /\ th.sock = c /\ th.item = item
  BY <1>6, ThreadTypes DEF ThreadState
<1>9. <<>> \in Seq(Units)
  OBVIOUS
<1>10. PICK k : k = cli'[c]
  OBVIOUS
<1>11. /\ k.pc = cli[c].pc /\ k.sent = cli[c].sent /\ k.down = cli[c].down /\ k.up = <<>>
       /\ \A d \in Clients \ {c} : cli'[d] = cli[d]
  BY <1>2, <1>3, <1>9, <1>10, UpSet
<1>12. AtStore(k, c, n, item)
  <2>1. CASE cli[c].up = <<>>
    <3>1. k.pc = "killed" /\ Fault("kill") /\ item = NoBytes
      BY <1>1, <1>2, <1>5, <1>11, <2>1, Constants DEF AtData, Is, Cut, AtEof, ClientOpen
    <3>. QED
      BY <1>5, <1>11, <3>1 DEF AtData, AtStore, Quiet, Cut
  <2>2. CASE cli[c].up # <<>>
    <3>1. cli[c].up = <<Data(n + 1)>>
      BY <1>5, <2>2 DEF AtData, Is, Cut
    <3>2. item = Data(n + 1)
      BY <1>1, <2>2, <3>1, Constants
    <3>. QED
      BY <1>5, <1>11, <2>2, <3>2 DEF AtData, AtStore, Quiet, Is, Cut
  <2>. QED
    BY <2>1, <2>2
<1>13. PastOf(th) /\ Speaks(th, k, c, n)
  BY <1>8, <1>12 DEF PastOf, Speaks
<1>14. Talk(t)'
  BY <1>2, <1>3, <1>4, <1>7, <1>8, <1>10, <1>13, TalkGoesOn
<1>15. Live(t)' /\ thr'[t].sock = c /\ Past(t)'
  BY <1>7, <1>8 DEF Live, Past
<1>. QED
  BY <1>2, <1>7, <1>8, <1>10, <1>11, <1>14, <1>15, StaysKeeps

\* The process ends, by a signal's default only when a client was killed.
LEMMA DiesKeeps ==
    ASSUME Types, PromptParts, UNCHANGED scene, NEW run \in BOOLEAN, Dies(run),
           run \/ Fault("kill")
    PROVE  PromptParts'
<1>1. /\ \A t \in Threads : thr'[t].pc = "none"
      /\ open' = {} /\ pending' = <<>> /\ UNCHANGED <<cli, disk>>
  BY NewThread DEF Dies
<1>2. /\ srv'.on = FALSE /\ srv'.main = "accept"
      /\ run => srv'.bound = FALSE
  BY DEF Dies, Types, TypeOK, Process
<1>3. /\ \A t \in Threads : ~Live(t)' /\ ~Past(t)' /\ thr'[t].pc # "arg"
      /\ \A c \in Clients : ~Under(c)'
  BY <1>1 DEF Live, Past, Under, ToSet
<1>4. ~Handing'
  BY <1>2, <1>3 DEF Handing, Threads
<1>5. Wiring'
  <2>1. IsInjective(pending') /\ ToSet(pending') = {}
    BY <1>1 DEF IsInjective, ToSet
  <2>2. \A c \in Clients : cli'[c].pc = "start" => cli'[c].sent = 0 /\ Quiet(cli[c])'
    BY <1>1 DEF PromptParts, Wiring, Quiet
  <2>. QED
    BY <1>1, <1>2, <1>3, <1>4, <2>1, <2>2 DEF Wiring, Threads
<1>6. Talking'
  BY <1>3 DEF Talking, Unserved, Threads
<1>7. DiskOK'
  BY <1>1 DEF PromptParts, DiskOK, Stored, Existing, Dest, Blocks, Fault
<1>8. Good'
  <2>1. \A c \in Clients : Fresh(c)' => Fresh(c)
    BY <1>1, <1>3 DEF Fresh
  <2>. QED
    BY <1>1, <2>1 DEF PromptParts, Good, NoErrors, Copied, Dest, Existing, Blocks, Whole, Fault
<1>9. Kept'
  BY <1>1, <1>2 DEF Kept, Fault
<1>. QED
  BY <1>5, <1>6, <1>7, <1>8, <1>9 DEF PromptParts

\* A thread ends, and closes its connection.
LEMMA EndsKeeps ==
    ASSUME Types, PromptParts, UNCHANGED scene, NEW t \in Threads, Live(t), NEW closed,
           Ends(t, closed), closed \subseteq {thr[t].sock, thr[t].name}, thr[t].sock \in closed,
           \A d \in Clients \ {thr[t].sock} : cli'[d] = cli[d],
           cli'[thr[t].sock].pc = cli[thr[t].sock].pc,
           cli'[thr[t].sock].sent = cli[thr[t].sock].sent,
           scene.faults = {} /\ Past(t) => thr[t].name \in closed
    PROVE  PromptParts'
<1>0. PICK c : c = thr[t].sock
  OBVIOUS
<1>. USE <1>0
<1>1. /\ thr'[t].pc = "end" /\ open' = open \ closed
      /\ \A u \in Threads \ {t} : thr'[u] = thr[u]
      /\ UNCHANGED <<srv, pending, response, disk>>
  BY Ended
<1>2. /\ c \in Clients /\ c \in open /\ cli[c].pc # "start" /\ c \notin ToSet(pending)
      /\ \A d \in Clients : d \in closed => d = c
  <2>1. c \in Clients /\ c \in open /\ cli[c].pc # "start"
    BY TalkIs
  <2>2. c \notin ToSet(pending)
    BY <2>1 DEF PromptParts, Wiring
  <2>3. thr[t].name \notin Clients
    BY ThreadTypes, ThreadCopyAssumption
  <2>. QED
    BY <2>1, <2>2, <2>3
<1>3. /\ ~Live(t)' /\ ~Past(t)' /\ \A u \in Threads \ {t} : Live(u)' <=> Live(u)
      /\ \A u \in Threads : /\ thr'[u].pc = "arg" <=> thr[u].pc = "arg"
                            /\ thr'[u].pc = "none" <=> thr[u].pc = "none"
  BY <1>1 DEF Live, Past
<1>4. Handing' <=> Handing
  BY <1>1, <1>3 DEF Handing, Threads
<1>5. ~Under(c)' /\ \A d \in Clients \ {c} : Under(d)' <=> Under(d)
  <2>1. ASSUME NEW d \in Clients \ {c} PROVE d \in open' <=> d \in open
    BY <1>1, <1>2
  <2>. QED
    BY <1>1, <1>2, <2>1 DEF Under
<1>6. \A d \in Clients \ {c} : \A u \in Threads : Serves(u, d)' <=> Serves(u, d)
  BY <1>1, <1>3 DEF Serves, Live
<1>7. /\ \A d \in Clients : Unserved(d)' => d # c /\ Unserved(d) /\ cli'[d] = cli[d]
      /\ \A d \in Clients \ {c} : Unserved(d) => Unserved(d)'
  <2>1. ASSUME NEW d \in Clients \ {c} PROVE Unserved(d)' <=> Unserved(d)
    BY <1>5, <1>6 DEF Unserved, Under, Serves, Live, Threads
  <2>2. ~Unserved(c)'
    BY <1>5 DEF Unserved
  <2>3. ASSUME NEW d \in Clients, Unserved(d)' PROVE d # c
    BY <1>5, <2>3 DEF Unserved, Under
  <2>. QED
    BY <2>1, <2>2, <2>3 DEF Unserved, Under, Serves, Live, Threads
<1>8. Handing => srv.accept_socket \in Clients \ {c} /\ srv.accept_socket \in open'
                 /\ Unserved(srv.accept_socket)'
  <2>1. ~Unserved(c)
    BY DEF Unserved, Serves
  <2>. QED
    BY <1>1, <1>2, <1>7, <2>1 DEF PromptParts, Wiring
<1>9. \A d \in ToSet(pending) : d \in Clients
  BY DEF ToSet, Types, TypeOK
<1>10. Wiring'
  <2>1. /\ IsInjective(pending')
        /\ \A d \in ToSet(pending') : d \notin open'
    BY <1>1 DEF PromptParts, Wiring
  <2>2. \A d \in Clients : cli'[d].pc = "start" =>
           ~Under(d)' /\ cli'[d].sent = 0 /\ Quiet(cli[d])'
    <3>. SUFFICES ASSUME NEW d \in Clients, cli'[d].pc = "start"
                  PROVE  ~Under(d)' /\ cli'[d].sent = 0 /\ Quiet(cli[d])'
      OBVIOUS
    <3>1. d # c /\ cli'[d] = cli[d] /\ cli[d].pc = "start"
      BY <1>2
    <3>2. ~Under(d)'
      BY <1>1, <3>1 DEF PromptParts, Wiring, Under
    <3>3. cli[d].sent = 0 /\ cli[d].up = <<>> /\ cli[d].down = <<>>
      BY <3>1 DEF PromptParts, Wiring, Quiet
    <3>. QED
      BY <3>1, <3>2, <3>3 DEF Quiet
  <2>3. ~srv'.on => /\ srv'.main = "accept" /\ pending' = <<>> /\ open' = {}
                    /\ \A u \in Threads : thr'[u].pc = "none"
    BY <1>1, <1>2 DEF PromptParts, Wiring
  <2>4. \A u \in Threads : Live(u)' => u # t /\ thr'[u].sock \in Clients \cap open'
    <3>. SUFFICES ASSUME NEW u \in Threads, Live(u)'
                  PROVE  u # t /\ thr'[u].sock \in Clients \cap open'
      OBVIOUS
    <3>1. u # t /\ thr'[u] = thr[u] /\ Live(u)
      BY <1>1, <1>3 DEF Live
    <3>2. thr[u].sock \in Clients \cap open /\ thr[u].sock # c
      BY <3>1 DEF PromptParts, Wiring
    <3>. QED
      BY <1>1, <1>2, <3>1, <3>2
  <2>5. \A u, v \in Threads : Live(u)' /\ Live(v)' /\ thr'[u].sock = thr'[v].sock => u = v
    BY <1>1, <1>3, <2>4 DEF PromptParts, Wiring, Live
  <2>6. \A u \in Threads : thr'[u].pc = "arg" =>
           srv'.main = "accept" /\ \A v \in Threads : thr'[v].pc = "arg" => u = v
    BY <1>1, <1>3 DEF PromptParts, Wiring
  <2>7. Handing' => srv'.accept_socket \in Clients \cap open' /\ Unserved(srv.accept_socket)'
    BY <1>1, <1>4, <1>8
  <2>. QED
    BY <2>1, <2>2, <2>3, <2>4, <2>5, <2>6, <2>7 DEF Wiring, Threads
<1>11. Talking'
  BY <1>1, <1>3, <1>7, <1>10, TalkingStays DEF PromptParts
<1>12. DiskOK'
  BY <1>1 DEF PromptParts, DiskOK, Stored, Existing, Dest, Blocks, Fault
<1>13. Good'
  <2>1. \A d \in Clients : cli'[d].pc = cli[d].pc /\ cli'[d].sent = cli[d].sent
    BY <1>2
  <2>2. ASSUME NEW d \in Clients, Fresh(d)' PROVE Fresh(d)
    <3>1. CASE cli'[d].pc = "start"
      BY <2>1, <3>1 DEF Fresh
    <3>2. CASE cli'[d].pc # "start"
      <4>1. d # c /\ Under(d)
        <5>1. Under(d)'
          BY <2>2, <3>2 DEF Fresh
        <5>. QED
          BY <1>5, <5>1 DEF Under
      <4>2. ASSUME NEW u \in Threads, Serves(u, d) PROVE thr[u].pc \in {"type0", "finfo", "open"}
        <5>1. Serves(u, d)' /\ u # t
          BY <1>1, <1>3, <4>1, <4>2 DEF Serves, Live
        <5>. QED
          BY <1>1, <2>2, <3>2, <5>1 DEF Fresh, Threads
      <4>. QED
        BY <4>1, <4>2 DEF Fresh
    <3>. QED
      BY <3>1, <3>2
  <2>. QED
    BY <1>1, <2>1, <2>2 DEF PromptParts, Good, NoErrors, Copied, Dest, Existing, Blocks, Whole, Fault
<1>14. Kept'
  <2>1. \A d \in Clients : Handed(d) /\ d # c => Handed(d)'
    BY <1>1, <1>4, <1>6 DEF Handed, Serves, Live, Threads, Handing
  <2>2. ~Fault("nothread") => \A d \in Clients \cap open' : Handed(d)'
    BY <1>1, <1>2, <2>1 DEF PromptParts, Kept
  <2>3. ASSUME scene.faults = {}, NEW f \in Files \cap open' PROVE Held(f)'
    <3>1. Held(f)
      BY <1>1, <2>3 DEF PromptParts, Kept
    <3>2. PICK u \in Threads : Past(u) /\ thr[u].name = f
      BY <3>1 DEF Held
    <3>3. u # t
      BY <1>1, <2>3, <3>2
    <3>4. Past(u)' /\ thr'[u].name = f
      BY <1>1, <3>2, <3>3 DEF Past
    <3>. QED
      BY <3>4 DEF Held, Threads
  <2>. QED
    BY <1>1, <2>2, <2>3 DEF PromptParts, Kept, Fault
<1>. QED
  BY <1>10, <1>11, <1>12, <1>13, <1>14 DEF PromptParts

LEMMA ReadFailsKeeps ==
    ASSUME Types, PromptParts, UNCHANGED scene, NEW t \in Threads, ReadFails(t)
    PROVE  PromptParts'
<1>. DEFINE c == thr[t].sock
<1>1. Live(t) /\ thr[t].pc \in ReadPcs /\ Ends(t, {c})
  BY DEF ReadFails, ReadPcs, Live
<1>2. c \in Clients /\ c \in open
  BY <1>1, TalkIs
<1>3. /\ cli[c].up = <<>> /\ ~ClientOpen(c) /\ cli[c].down # <<>>
      /\ cli' = [cli EXCEPT ![c].down = <<>>]
  BY <1>2 DEF ReadFails
<1>4. <<>> \in Seq(Answers)
  OBVIOUS
<1>5. /\ \A d \in Clients : cli'[d].pc = cli[d].pc /\ cli'[d].sent = cli[d].sent
      /\ \A d \in Clients \ {c} : cli'[d] = cli[d]
  BY <1>2, <1>3, <1>4, DownSet
<1>6. ASSUME Past(t) PROVE scene.faults # {}
  <2>1. PICK n \in 0..Blocks[c] : Speaks(thr[t], cli[c], c, n)
    BY <1>1, <1>6, TalkIs
  <2>2. CASE thr[t].pc = "type"
    <3>1. AtType(cli[c], c, n)
      BY <2>1, <2>2 DEF Speaks
    <3>2. Fault("kill")
      BY <1>3, <3>1 DEF AtType, Cut, ClientOpen
    <3>. QED
      BY <3>2 DEF Fault
  <2>3. CASE thr[t].pc = "data"
    BY <1>3, <2>1, <2>3 DEF Speaks, AtData
  <2>. QED
    BY <1>1, <1>6, <2>2, <2>3 DEF ReadPcs, Past
<1>. QED
  BY <1>1, <1>2, <1>5, <1>6, EndsKeeps

LEMMA ThreadEndsKeeps ==
    ASSUME Types, PromptParts, UNCHANGED scene, NEW t \in Threads, ThreadEnds(t)
    PROVE  PromptParts'
<1>1. UNCHANGED cli /\ Live(t)
  BY DEF ThreadEnds, Live
<1>2. CASE thr[t].pc = "exit" /\ Ends(t, {thr[t].sock})
  BY <1>1, <1>2, EndsKeeps DEF Past
<1>3. CASE thr[t].pc = "finish" /\ Ends(t, {thr[t].name, thr[t].sock})
  BY <1>1, <1>3, EndsKeeps
<1>. QED
  BY <1>2, <1>3 DEF ThreadEnds

LEMMA WriteResponseKeeps ==
    ASSUME Types, PromptParts, UNCHANGED scene, NEW t \in Threads, WriteResponse(t)
    PROVE  PromptParts'
<1>. DEFINE c == thr[t].sock
<1>1. Live(t) /\ thr[t].pc = "write"
  BY DEF WriteResponse, Live
<1>2. c \in Clients /\ c \in open /\ cli[c].pc # "start"
  BY <1>1, TalkIs
\* the client waits for the answer, or was killed
<1>3. /\ cli[c].down = <<>> /\ cli[c].up = <<>>
      /\ cli[c].pc \in {"wait", "ack"} \/ (cli[c].pc = "killed" /\ Fault("kill"))
  <2>1. ~Past(t) => AtRefuse(cli[c])
    BY <1>1, TalkIs DEF Begins
  <2>2. Past(t) => \E n \in 0..Blocks[c] : AtAnswer(cli[c], n) \/ AtRefuse(cli[c])
    <3>1. Past(t) => thr[t].next \in {"type", "finish"}
      BY <1>1, ThreadTypes DEF Past
    <3>. QED
      BY <1>1, <3>1, TalkIs DEF Speaks
  <2>. QED
    BY <2>1, <2>2 DEF AtRefuse, AtAnswer, Quiet, Cut
<1>4. CASE ~ClientOpen(c) /\ Dies(FALSE)
  <2>1. Fault("kill")
    BY <1>3, <1>4 DEF ClientOpen
  <2>. QED
    BY <1>4, <2>1, DiesKeeps
<1>5. CASE /\ ClientOpen(c) /\ cli' = [cli EXCEPT ![c].down = Append(@, response)]
           /\ Becomes(t, [thr[t] EXCEPT !.pc = thr[t].next])
           /\ UNCHANGED <<open, response, disk>>
  <2>1. PICK th : th = thr'[t]
    OBVIOUS
  <2>2. /\ th.pc = thr[t].next /\ th.name = thr[t].name /\ th.sock = c
        /\ th.next = thr[t].next
        /\ \A u \in Threads \ {t} : thr'[u] = thr[u]
        /\ UNCHANGED <<srv, pending>>
    BY <1>5, <2>1, Goes
  <2>3. <<response>> \in Seq(Answers) /\ Append(cli[c].down, response) = <<response>>
    BY <1>3 DEF Types, TypeOK
  <2>4. cli' = [cli EXCEPT ![c].down = <<response>>]
    BY <1>2, <1>5, <2>3 DEF Types, TypeOK
  <2>5. PICK k : k = cli'[c]
    OBVIOUS
  <2>6. /\ k.pc = cli[c].pc /\ k.sent = cli[c].sent /\ k.down = <<response>> /\ k.up = <<>>
        /\ \A d \in Clients \ {c} : cli'[d] = cli[d]
    BY <1>2, <1>3, <2>3, <2>4, <2>5, DownSet
  <2>7. k.pc \in {"wait", "ack"} /\ Len(k.down) = 1
    BY <1>3, <1>5, <2>6 DEF ClientOpen
  <2>8. AtRefuse(cli[c]) => AtEnd(k)
    BY <2>6, <2>7 DEF AtRefuse, AtEnd
  <2>9. CASE ~Past(t)
    <3>1. th.pc = "exit"
      BY <1>1, <2>2, <2>9, ThreadTypes DEF Past
    <3>2. AtRefuse(cli[c])
      BY <1>1, <2>9, TalkIs DEF Begins
    <3>3. ~PastOf(th) /\ Begins(th, k, c)
      BY <2>8, <3>1, <3>2 DEF PastOf, Begins
    <3>4. Talk(t)'
      BY <2>1, <2>2, <2>5, <3>3, TalkBegins
    <3>. QED
      BY <1>1, <1>5, <2>1, <2>2, <2>5, <2>6, <2>9, <3>1, <3>4, StaysKeeps DEF Live
  <2>10. CASE Past(t)
    <3>1. thr[t].next \in {"type", "finish"}
      BY <1>1, <2>10, ThreadTypes DEF Past
    <3>2. /\ thr[t].name = Dest[c] /\ Dest[c] \in DOMAIN disk \ Existing
          /\ \E n \in 0..Blocks[c] : PartOf(disk[Dest[c]], c, n) /\ Speaks(thr[t], cli[c], c, n)
      BY <1>1, <2>10, TalkIs
    <3>3. PICK n \in 0..Blocks[c] : PartOf(disk[Dest[c]], c, n) /\ Speaks(thr[t], cli[c], c, n)
      BY <3>2
    <3>4. PastOf(th) /\ Past(t)' /\ Live(t)'
      BY <2>1, <2>2, <3>1 DEF PastOf, Past, Live
    <3>5. Speaks(th, k, c, n)
      <4>1. CASE thr[t].next = "type"
        <5>1. AtAnswer(cli[c], n)
          BY <1>1, <3>3, <4>1 DEF Speaks
        <5>2. AtType(k, c, n)
          BY <2>6, <2>7, <5>1 DEF AtAnswer, AtType, Cut
        <5>. QED
          BY <2>2, <4>1, <5>2 DEF Speaks
      <4>2. CASE thr[t].next = "finish"
        BY <1>1, <2>2, <2>8, <3>3, <4>2 DEF Speaks
      <4>. QED
        BY <3>1, <4>1, <4>2
    <3>6. Talk(t)'
      BY <1>5, <2>1, <2>2, <2>5, <3>2, <3>3, <3>4, <3>5, TalkGoesOn
    <3>7. thr'[t].pc \in {"type", "finish"}
      BY <2>1, <2>2, <3>1
    <3>. QED
      BY <1>1, <1>5, <2>1, <2>2, <2>5, <2>6, <3>4, <3>6, <3>7, StaysKeeps
  <2>. QED
    BY <2>9, <2>10
<1>. QED
  BY <1>2, <1>4, <1>5 DEF WriteResponse

LEMMA TakeArgumentKeeps ==
    ASSUME Types, PromptParts, UNCHANGED scene, NEW t \in Threads, TakeArgument(t)
    PROVE  PromptParts'
<1>1. PICK c : c = srv.accept_socket
  OBVIOUS
<1>2. /\ thr[t].pc = "arg" /\ Becomes(t, Thread("type0", c)) /\ UNCHANGED <<open, cli, disk>>
      /\ ~Live(t) /\ ~Past(t)
  BY <1>1 DEF TakeArgument, Live, Past
<1>3. PICK th : th = Thread("type0", c)
  OBVIOUS
<1>4. th.pc = "type0" /\ th.sock = c
  BY <1>3 DEF Thread
<1>5. /\ thr'[t] = th /\ \A u \in Threads \ {t} : thr'[u] = thr[u]
      /\ UNCHANGED <<srv, pending>>
  BY <1>2, <1>3, Moves
<1>6. /\ srv.main = "accept" /\ \A u \in Threads : thr[u].pc = "arg" => u = t
      /\ c \in Clients /\ c \in open /\ Unserved(c) /\ srv.on
  BY <1>1, <1>2 DEF PromptParts, Wiring, Handing
<1>7. \A u \in Threads : /\ thr'[u].pc # "arg"
                         /\ Live(u)' <=> (u = t \/ Live(u))
                         /\ thr'[u].pc = "none" <=> thr[u].pc = "none"
  BY <1>2, <1>4, <1>5, <1>6 DEF Live
<1>8. ~Handing'
  BY <1>5, <1>6, <1>7 DEF Handing, Threads
<1>9. \A u \in Threads : Live(u) => u # t /\ thr[u].sock # c /\ thr'[u] = thr[u]
  BY <1>2, <1>5, <1>6 DEF Unserved, Serves
<1>10. \A d \in Clients : /\ Under(d)' <=> Under(d)
                          /\ Unserved(d)' => d # c /\ Unserved(d)
  <2>1. \A d \in Clients : Under(d)' <=> Under(d)
    BY <1>2, <1>5 DEF Under
  <2>2. ASSUME NEW d \in Clients, Unserved(d)' PROVE d # c /\ Unserved(d)
    <3>1. Under(d)' /\ \A u \in Threads : ~Serves(u, d)'
      BY <2>2 DEF Unserved, Threads
    <3>2. d # c
      BY <1>4, <1>5, <1>7, <3>1 DEF Serves
    <3>3. \A u \in Threads : ~Serves(u, d)
      BY <1>7, <1>9, <3>1 DEF Serves
    <3>. QED
      BY <2>1, <3>1, <3>2, <3>3 DEF Unserved
  <2>. QED
    BY <2>1, <2>2
<1>11. Wiring'
  <2>1. /\ IsInjective(pending')
        /\ \A d \in ToSet(pending') : d \notin open'
    BY <1>2, <1>5 DEF PromptParts, Wiring
  <2>2. \A d \in Clients : cli'[d].pc = "start" =>
           ~Under(d)' /\ cli'[d].sent = 0 /\ Quiet(cli[d])'
    BY <1>2, <1>10 DEF PromptParts, Wiring, Quiet
  <2>3. srv'.on
    BY <1>5, <1>6
  <2>4. \A u \in Threads : Live(u)' => thr'[u].sock \in Clients \cap open'
    BY <1>2, <1>4, <1>5, <1>6, <1>7, <1>9 DEF PromptParts, Wiring, Live
  <2>5. \A u, v \in Threads : Live(u)' /\ Live(v)' /\ thr'[u].sock = thr'[v].sock => u = v
    <3>. SUFFICES ASSUME NEW u \in Threads, NEW v \in Threads, Live(u)', Live(v)',
                         thr'[u].sock = thr'[v].sock
                  PROVE  u = v
      OBVIOUS
    <3>1. (u = t \/ Live(u)) /\ (v = t \/ Live(v))
      BY <1>7 DEF Live
    <3>. QED
      BY <1>4, <1>5, <1>9, <3>1 DEF PromptParts, Wiring
  <2>6. \A u \in Threads : thr'[u].pc # "arg"
    BY <1>7
  <2>. QED
    BY <1>8, <2>1, <2>2, <2>3, <2>4, <2>5, <2>6 DEF Wiring, Threads
<1>12. Talking'
  <2>1. ASSUME NEW u \in Threads, Live(u)' PROVE Talk(u)'
    <3>1. CASE u = t
      <4>1. PICK k : k = cli[c] /\ k = cli'[c]
        BY <1>2
      <4>2. Opening(k)
        BY <1>6, <4>1 DEF PromptParts, Talking
      <4>3. ~PastOf(th) /\ Begins(th, k, c)
        BY <1>4, <4>2 DEF PastOf, Begins
      <4>. QED
        BY <1>4, <1>5, <3>1, <4>1, <4>3, TalkBegins
    <3>2. CASE u # t
      <4>1. Live(u) /\ thr'[u] = thr[u] /\ Talk(u)
        BY <1>5, <2>1, <3>2 DEF Live, PromptParts, Talking
      <4>. QED
        BY <1>2, <4>1, TalkStays DEF File
    <3>. QED
      BY <3>1, <3>2
  <2>2. ASSUME NEW d \in Clients, Unserved(d)' PROVE Opening(cli[d])'
    <3>1. PICK k : k = cli[d] /\ k = cli'[d]
      BY <1>2
    <3>2. Opening(k)
      BY <1>10, <2>2, <3>1 DEF PromptParts, Talking, Unserved, Under, Serves, Live
    <3>3. Opening(k)'
      BY <3>2 DEF Opening, Is, Cut, Fault
    <3>. QED
      BY <3>1, <3>3
  <2>. QED
    BY <2>1, <2>2 DEF Talking, Threads
<1>13. DiskOK'
  BY <1>2 DEF PromptParts, DiskOK, Stored, Existing, Dest, Blocks, Fault
<1>14. Good'
  <2>1. ASSUME NEW d \in Clients, Fresh(d)' PROVE Fresh(d)
    <3>1. CASE cli'[d].pc = "start"
      BY <1>2, <3>1 DEF Fresh
    <3>2. CASE cli'[d].pc # "start"
      <4>1. Under(d)
        <5>1. Under(d)'
          BY <2>1, <3>2 DEF Fresh
        <5>. QED
          BY <1>2, <1>5, <5>1 DEF Under
      <4>2. ASSUME NEW u \in Threads, Serves(u, d) PROVE thr[u].pc \in {"type0", "finfo", "open"}
        <5>1. Serves(u, d)' /\ thr'[u] = thr[u]
          BY <1>9, <4>2 DEF Serves, Live
        <5>. QED
          BY <2>1, <3>2, <5>1 DEF Fresh, Threads
      <4>. QED
        BY <4>1, <4>2 DEF Fresh
    <3>. QED
      BY <3>1, <3>2
  <2>. QED
    BY <1>2, <2>1 DEF PromptParts, Good, NoErrors, Copied, Dest, Existing, Blocks, Whole, Fault
<1>15. Kept'
  <2>1. ASSUME NEW d \in Clients, Handed(d) PROVE Handed(d)'
    <3>1. CASE d = c
      <4>1. Serves(t, d)'
        BY <1>4, <1>5, <3>1 DEF Serves, Live
      <4>. QED
        BY <4>1 DEF Handed, Threads
    <3>2. CASE d # c
      <4>1. PICK u \in Threads : Serves(u, d)
        BY <1>1, <2>1, <3>2 DEF Handed
      <4>2. Serves(u, d)'
        BY <1>9, <4>1 DEF Serves, Live
      <4>. QED
        BY <4>2 DEF Handed, Threads
    <3>. QED
      BY <3>1, <3>2
  <2>2. ASSUME NEW f \in Files, Held(f) PROVE Held(f)'
    <3>1. PICK u \in Threads : Past(u) /\ thr[u].name = f
      BY <2>2 DEF Held
    <3>2. Past(u)' /\ thr'[u].name = f
      BY <1>2, <1>5, <3>1 DEF Past
    <3>. QED
      BY <3>2 DEF Held, Threads
  <2>. QED
    BY <1>2, <1>5, <2>1, <2>2 DEF PromptParts, Kept, Fault
<1>. QED
  BY <1>11, <1>12, <1>13, <1>14, <1>15 DEF PromptParts

LEMMA PartGrows ==
    ASSUME NEW T, NEW s \in Seq(T), NEW c, NEW n \in Nat, PartOf(s, c, n),
           NEW x \in {Piece(c, Data(n + 1)), Piece(c, Torn(Data(n + 1)))}, x \in T
    PROVE  PartOf(Append(s, x), c, n + 1)
<1>1. Len(s) = n
  BY DEF PartOf
<1>2. /\ DOMAIN Append(s, x) = 1..n + 1 /\ Append(s, x)[n + 1] = x
      /\ \A i \in 1..n : Append(s, x)[i] = s[i]
  BY <1>1
<1>3. \A i \in 1..n + 1 : i \in 1..n \/ i = n + 1
  OBVIOUS
<1>. QED
  BY <1>2, <1>3 DEF PartOf

\* A step of thread t that changes its file only.
LEMMA StoreKeeps ==
    ASSUME Types, MixInv, PromptParts, UNCHANGED scene, NEW t \in Threads, Store(t)
    PROVE  PromptParts'
<1>0. PICK c : c = thr[t].sock
  OBVIOUS
<1>1. /\ Live(t) /\ Past(t) /\ thr[t].pc = "store" /\ UNCHANGED <<open, response, cli>>
  BY DEF Store, Live, Past
<1>2. /\ c \in Clients /\ cli[c].pc # "start" /\ thr[t].name = Dest[c]
      /\ Dest[c] \in DOMAIN disk \ Existing /\ Dest[c] \in Files
      /\ \E n \in 0..Blocks[c] : PartOf(disk[Dest[c]], c, n) /\ Speaks(thr[t], cli[c], c, n)
  BY <1>0, <1>1, TalkIs, SceneTypes
<1>3. PICK n \in 0..Blocks[c] : PartOf(disk[Dest[c]], c, n) /\ Speaks(thr[t], cli[c], c, n)
  BY <1>2
<1>4. PICK f, item, k : f = Dest[c] /\ item = thr[t].item /\ k = cli[c] /\ k = cli'[c]
  BY <1>1
<1>5. AtStore(k, c, n, item) /\ n \in Nat /\ Blocks[c] \in Nat
  BY <1>1, <1>2, <1>3, <1>4, SceneTypes DEF Speaks
<1>6. PICK r \in Answers, next \in {"type", "finish"} :
         /\ Sends(t, r, next)
         /\ \/ next = "finish" /\ Fault("disk") /\ UNCHANGED disk
            \/ next = "type" /\ item = NoBytes /\ UNCHANGED disk
            \/ /\ next = "type" /\ item # NoBytes
               /\ \E unit \in {item, Torn(item)} : Put(t, unit) /\ (unit = item \/ Fault("disk"))
  BY <1>0, <1>2, <1>4 DEF Store, Answers
<1>7. PICK th : th = thr'[t]
  OBVIOUS
<1>8. /\ th.pc = "send" /\ th.next = next /\ th.name = f /\ th.sock = c
      /\ \A u \in Threads \ {t} : thr'[u] = thr[u]
      /\ UNCHANGED <<srv, pending>>
  BY <1>0, <1>2, <1>4, <1>6, <1>7, Sent
<1>9. PastOf(th) /\ Past(t)' /\ Live(t)'
  BY <1>6, <1>7, <1>8 DEF PastOf, Past, Live
<1>10. CASE next = "finish" \/ item = NoBytes
  <2>1. UNCHANGED disk
    BY <1>6, <1>10
  <2>2. Speaks(th, k, c, n)
    <3>1. next = "finish" => AtRefuse(k)
      BY <1>5, <1>6 DEF AtStore, AtRefuse, NoErrors, Quiet, Cut
    <3>2. next = "type" => AtAnswer(k, n)
      BY <1>5, <1>10, Constants DEF AtStore, AtAnswer, Cut
    <3>. QED
      BY <1>8, <3>1, <3>2 DEF Speaks
  <2>3. Talk(t)'
    BY <1>2, <1>3, <1>4, <1>7, <1>8, <1>9, <2>1, <2>2, TalkGoesOn
  <2>. QED
    BY <1>0, <1>1, <1>2, <1>4, <1>7, <1>8, <1>9, <2>1, <2>3, StaysKeeps
<1>11. CASE next = "type" /\ item # NoBytes
  <2>1. item = Data(n + 1) /\ n + 1 \in 0..Blocks[c] /\ AtAnswer(k, n + 1)
        /\ k.pc \in {"ack", "killed"}
    <3>1. k.sent <= Blocks[c] /\ k.sent \in Nat
      BY <1>2, <1>4, ClientTypes
    <3>. QED
      BY <1>5, <1>11, <3>1 DEF AtStore, AtAnswer, Cut
  <2>13. PICK unit \in {item, Torn(item)} : Put(t, unit) /\ (unit = item \/ Fault("disk"))
    BY <1>6, <1>11
  <2>14. PICK x : x = Piece(c, unit)
    OBVIOUS
  <2>2. disk' = [disk EXCEPT ![f] = Append(disk[f], x)]
    BY <1>0, <1>2, <1>4, <2>13, <2>14 DEF Put
  <2>15. disk[f] \in Seq(Pieces) /\ x \in Pieces
    <3>1. item \in Units
      BY <1>1, <1>4, ThreadTypes
    <3>. QED
      BY <1>2, <1>4, <2>13, <2>14, <3>1, UnitTypes DEF Types, TypeOK, Piece, Pieces
  <2>16. PartOf(Append(disk[f], x), c, n + 1)
    BY <1>3, <1>4, <1>5, <2>1, <2>13, <2>14, <2>15, PartGrows
  <2>3. /\ DOMAIN disk' = DOMAIN disk /\ PartOf(disk'[f], c, n + 1)
        /\ disk'[f] = Append(disk[f], x)
        /\ \A g \in DOMAIN disk \ {f} : disk'[g] = disk[g]
    BY <1>2, <1>4, <2>2, <2>16 DEF Types, TypeOK
  <2>4. Speaks(th, k, c, n + 1)
    BY <1>8, <1>11, <2>1 DEF Speaks
  <2>5. Talk(t)'
    BY <1>2, <1>4, <1>7, <1>8, <1>9, <2>1, <2>3, <2>4, TalkGoesOn
  <2>6. \A u \in Threads \ {t} : Past(u) => thr[u].name # f
    BY <1>1, <1>2, <1>4 DEF MixInv, OneWriter
  <2>7. cli'[c].pc # "start" /\ pending \in Seq(Clients)
    BY <1>1, <1>2 DEF Types, TypeOK
  <2>8. /\ Wiring' /\ \A d \in Clients : Under(d)' <=> Under(d)
        /\ \A d \in Clients : Unserved(d)' => Unserved(d) /\ cli'[d] = cli[d]
        /\ \A d \in Clients : Handed(d) => Handed(d)'
    BY <1>0, <1>1, <1>7, <1>8, <1>9, <2>7, WiringStays DEF PromptParts
  <2>9. Talking'
    BY <1>0, <1>1, <1>8, <2>3, <2>5, <2>6, <2>8, TalkingStays DEF PromptParts
  <2>10. DiskOK'
    <3>1. Stored(f)'
      <4>1. ASSUME ~Fault("disk"), NEW i \in DOMAIN disk'[f] PROVE disk'[f][i].data.kind # "torn"
        <5>1. /\ DOMAIN disk'[f] = 1..Len(disk[f]) + 1 /\ Len(disk[f]) \in Nat
              /\ \A j \in 1..Len(disk[f]) : disk'[f][j] = disk[f][j] /\ j \in DOMAIN disk[f]
              /\ disk'[f][Len(disk[f]) + 1] = x
          BY <2>3, <2>15
        <5>2. x.data.kind # "torn"
          BY <2>1, <2>13, <2>14, <4>1, <1>5, Constants DEF Piece
        <5>3. \A j \in DOMAIN disk[f] : disk[f][j].data.kind # "torn"
          BY <1>2, <1>4, <4>1 DEF PromptParts, DiskOK, Stored
        <5>. QED
          BY <4>1, <5>1, <5>2, <5>3
      <4>. QED
        BY <1>2, <1>4, <2>1, <2>3, <4>1 DEF Stored, Existing, Dest, Blocks, Fault
    <3>2. ASSUME NEW g \in DOMAIN disk \ {f} PROVE Stored(g)'
      BY <2>3, <3>2 DEF PromptParts, DiskOK, Stored, Existing, Dest, Blocks, Fault
    <3>. QED
      BY <1>1, <2>3, <3>1, <3>2 DEF PromptParts, DiskOK
  <2>11. Good'
    <3>. SUFFICES ASSUME NoErrors, NEW d \in Clients
                  PROVE  /\ Fresh(d)' => Dest[d] \notin DOMAIN disk
                         /\ cli[d].pc = "done" /\ cli[d].sent = Blocks[d] => Copied(d)'
      BY <1>1, <2>3 DEF Good, NoErrors, Existing, Dest, Blocks, Fault
    <3>1. Fresh(d)' => Fresh(d)
      <4>. SUFFICES ASSUME Fresh(d)' PROVE Fresh(d)
        OBVIOUS
      <4>1. CASE cli[d].pc = "start"
        BY <4>1 DEF Fresh
      <4>2. CASE cli[d].pc # "start"
        <5>1. Under(d)' /\ \A u \in Threads : Serves(u, d)' => thr'[u].pc \in {"type0", "finfo", "open"}
          BY <1>1, <4>2 DEF Fresh, Threads
        <5>2. Under(d)
          BY <1>1, <1>8, <5>1 DEF Under
        <5>3. ASSUME NEW u \in Threads, Serves(u, d) PROVE thr[u].pc \in {"type0", "finfo", "open"}
          <6>1. Serves(u, d)'
            BY <1>0, <1>7, <1>8, <5>3 DEF Serves, Live
          <6>2. u # t
            BY <1>7, <1>8, <5>1, <6>1
          <6>. QED
            BY <1>8, <5>1, <6>1, <6>2
        <5>. QED
          BY <5>2, <5>3 DEF Fresh
      <4>. QED
        BY <4>1, <4>2
    <3>2. ASSUME cli[d].pc = "done", cli[d].sent = Blocks[d] PROVE Copied(d)'
      <4>1. d # c
        BY <1>4, <2>1, <3>2
      <4>2. Copied(d) /\ Dest[d] # f
        BY <1>2, <1>4, <3>2, <4>1 DEF PromptParts, Good, NoErrors
      <4>. QED
        BY <2>3, <4>2 DEF Copied, Dest, Whole, Blocks
    <3>. QED
      BY <3>1, <3>2 DEF PromptParts, Good
  <2>12. Kept'
    <3>1. ASSUME NEW g \in Files, Held(g) PROVE Held(g)'
      <4>1. PICK u \in Threads : Past(u) /\ thr[u].name = g
        BY <3>1 DEF Held
      <4>2. Past(u)' /\ thr'[u].name = g
        BY <1>2, <1>4, <1>7, <1>8, <1>9, <4>1 DEF Past
      <4>. QED
        BY <4>2 DEF Held, Threads
    <3>. QED
      BY <1>1, <1>8, <2>8, <3>1 DEF PromptParts, Kept, Fault
  <2>. QED
    BY <2>8, <2>9, <2>10, <2>11, <2>12 DEF PromptParts
<1>. QED
  BY <1>6, <1>10, <1>11

\* With two descriptors for each client there is one left for a file that does
\* not exist.
LEMMA EnoughFds ==
    ASSUME Types, PromptParts, NoErrors, NEW c \in Clients, Dest[c] \notin DOMAIN disk
    PROVE  MoreFds
<1>. DEFINE N == {Dest[d] : d \in Clients \ {c}}
<1>1. IsFiniteSet(Clients) /\ Cardinality(Clients) \in Nat
  BY ThreadCopyAssumption, FS_CardinalityType
<1>2. /\ IsFiniteSet(Clients \ {c}) /\ Cardinality(Clients \ {c}) = Cardinality(Clients) - 1
  BY <1>1, FS_RemoveElement
<1>3. IsFiniteSet(N) /\ Cardinality(N) <= Cardinality(Clients) - 1
  <2>. DEFINE S == Clients \ {c}
              F == [d \in S |-> Dest[d]]
  <2>1. F \in Surjection(S, N)
    BY DEF Surjection
  <2>. QED
    BY <1>2, <2>1, FS_Surjection
<1>4. open \subseteq Clients \cup N
  <2>. SUFFICES ASSUME NEW x \in open, x \notin Clients PROVE x \in N
    OBVIOUS
  <2>1. x \in Files /\ x \in DOMAIN disk /\ Stored(x) /\ x \notin Existing
    BY DEF Types, TypeOK, PromptParts, DiskOK, NoErrors
  <2>2. PICK d \in Clients : Dest[d] = x
    BY <2>1 DEF Stored
  <2>. QED
    BY <2>1, <2>2
<1>. HIDE DEF N
<1>5. /\ IsFiniteSet(Clients \cup N)
      /\ Cardinality(Clients \cup N) =
           Cardinality(Clients) + Cardinality(N) - Cardinality(Clients \cap N)
  BY <1>1, <1>3, FS_Union
<1>6. /\ Cardinality(N) \in Nat /\ IsFiniteSet(Clients \cap N)
      /\ Cardinality(Clients \cap N) \in Nat /\ Cardinality(Clients \cup N) \in Nat
  BY <1>1, <1>3, <1>5, FS_CardinalityType, FS_Intersection
<1>7. Cardinality(open) \in Nat /\ Cardinality(open) <= Cardinality(Clients \cup N)
  BY <1>4, <1>5, FS_Subset, FS_CardinalityType
<1>8. Cardinality(open) < 2 * Cardinality(Clients)
  BY <1>1, <1>3, <1>5, <1>6, <1>7
<1>9. scene.maxFd \in Nat /\ scene.maxFd >= 2 * Cardinality(Clients)
  BY DEF Types, SceneType, NoErrors
<1>. QED
  BY <1>1, <1>7, <1>8, <1>9 DEF MoreFds

LEMMA OpenFileKeeps ==
    ASSUME Types, MixInv, PromptParts, UNCHANGED scene, NEW t \in Threads, OpenFile(t)
    PROVE  PromptParts'
<1>0. PICK c, f, k : c = thr[t].sock /\ f = thr[t].name /\ k = cli[c]
  OBVIOUS
<1>1. Live(t) /\ ~Past(t) /\ thr[t].pc = "open" /\ UNCHANGED <<response, cli>>
  BY DEF OpenFile, Live, Past
<1>2. /\ c \in Clients /\ c \in open /\ k.pc # "start" /\ AtOpen(k, c, f) /\ k = cli'[c]
      /\ Dest[c] \in Files /\ Dest[c] # "" /\ Blocks[c] \in Nat
  BY <1>0, <1>1, TalkIs, SceneTypes, ThreadCopyAssumption DEF Begins
<1>3. PICK th : th = thr'[t]
  OBVIOUS
<1>4. CASE (f \in DOMAIN disk \cup {""} \/ ~MoreFds) /\ Sends(t, "ERROR", "exit")
           /\ UNCHANGED <<open, disk>>
  <2>1. /\ th.pc = "send" /\ th.next = "exit" /\ th.sock = c
        /\ \A u \in Threads \ {t} : thr'[u] = thr[u]
        /\ UNCHANGED <<srv, pending>>
    BY <1>0, <1>3, <1>4, Sent
  <2>2. NoErrors => k.pc = "killed"
    <3>. SUFFICES ASSUME NoErrors, k.pc # "killed" PROVE FALSE
      OBVIOUS
    <3>1. f = Dest[c]
      BY <1>2 DEF AtOpen, Cut
    <3>2. Fresh(c)
      BY <1>0, <1>1, <1>2 DEF Fresh, Under, Serves, PromptParts, Wiring
    <3>3. Dest[c] \notin DOMAIN disk
      BY <1>2, <3>2 DEF PromptParts, Good
    <3>. QED
      BY <1>2, <1>4, <3>1, <3>3, EnoughFds
  <2>3. AtRefuse(k)
    BY <1>2, <2>2 DEF AtOpen, AtRefuse, Cut
  <2>4. ~PastOf(th) /\ Begins(th, k, c)
    BY <2>1, <2>3 DEF PastOf, Begins
  <2>5. Talk(t)'
    BY <1>2, <1>3, <2>1, <2>4, TalkBegins
  <2>. QED
    BY <1>0, <1>1, <1>3, <1>4, <2>1, <2>5, StaysKeeps DEF Live
<1>5. CASE /\ f \notin DOMAIN disk \cup {""}
           /\ disk' = [g \in DOMAIN disk \cup {f} |-> IF g = f THEN <<>> ELSE disk[g]]
           /\ open' = open \cup {f}
           /\ \/ Sends(t, "SUCCESS", "type")
              \/ Fault("disk") /\ Sends(t, "ERROR", "exit")
  <2>1. PICK next \in {"type", "exit"} :
           \E r : Sends(t, r, next) /\ (next = "exit" => Fault("disk"))
    BY <1>5
  <2>2. /\ th.pc = "send" /\ th.next = next /\ th.sock = c /\ th.name = f
        /\ \A u \in Threads \ {t} : thr'[u] = thr[u]
        /\ UNCHANGED <<srv, pending>>
    BY <1>0, <1>3, <2>1, Sent
  <2>3. f = Dest[c] /\ f \in Files /\ f \notin Existing /\ f \notin Clients
    BY <1>2, <1>5, ThreadCopyAssumption DEF AtOpen, Types, TypeOK
  <2>4. /\ DOMAIN disk' = DOMAIN disk \cup {f} /\ disk'[f] = <<>>
        /\ \A g \in DOMAIN disk : disk'[g] = disk[g]
    BY <1>5
  <2>5. PartOf(disk'[f], c, 0)
    BY <2>4 DEF PartOf
  <2>12. 0 \in 0..Blocks[c]
    <3>1. Blocks[c] \in Nat
      BY <1>2
    <3>. QED
      BY <3>1
  <2>6. Talk(t)'
    <3>1. CASE next = "type"
      <4>1. AtAnswer(k, 0)
        BY <1>2 DEF AtOpen, AtAnswer, Cut
      <4>2. PastOf(th) /\ Speaks(th, k, c, 0)
        BY <2>2, <3>1, <4>1 DEF PastOf, Speaks
      <4>3. 0 \in 0..Blocks[c]
        BY <2>12
      <4>. QED
        BY <1>2, <1>3, <2>2, <2>3, <2>4, <2>5, <4>2, <4>3, TalkGoesOn
    <3>2. CASE next = "exit"
      <4>1. AtRefuse(k)
        BY <1>2, <2>1, <3>2 DEF AtOpen, AtRefuse, Cut, NoErrors
      <4>2. ~PastOf(th) /\ Begins(th, k, c)
        BY <2>2, <3>2, <4>1 DEF PastOf, Begins
      <4>. QED
        BY <1>2, <1>3, <2>2, <4>2, TalkBegins
    <3>. QED
      BY <3>1, <3>2
  <2>7. /\ open' \cap Clients = open \cap Clients /\ open \subseteq open'
        /\ cli'[c].pc # "start" /\ pending \in Seq(Clients) /\ Live(t)'
    BY <1>2, <1>3, <1>5, <2>2, <2>3 DEF Types, TypeOK, Live
  <2>8. /\ Wiring' /\ \A d \in Clients : Under(d)' <=> Under(d)
        /\ \A d \in Clients : Unserved(d)' => Unserved(d) /\ cli'[d] = cli[d]
        /\ \A d \in Clients : Handed(d) => Handed(d)'
    BY <1>0, <1>1, <1>3, <2>2, <2>7, WiringStays DEF PromptParts
  <2>9. Talking'
    BY <1>1, <2>2, <2>4, <2>6, <2>8, TalkingStays DEF PromptParts
  <2>10. DiskOK'
    <3>1. Stored(f)'
      <4>1. 0 \in 0..Blocks[c]
        BY <2>12
      <4>2. DOMAIN disk'[f] = {}
        BY <2>4
      <4>. QED
        BY <1>2, <2>3, <2>4, <2>5, <4>1, <4>2 DEF Stored, Existing, Dest, Blocks
    <3>2. ASSUME NEW g \in DOMAIN disk PROVE Stored(g)'
      BY <2>4, <3>2 DEF PromptParts, DiskOK, Stored, Existing, Dest, Blocks, Fault
    <3>. QED
      BY <1>5, <2>4, <3>1, <3>2 DEF PromptParts, DiskOK
  <2>11. Good'
    <3>. SUFFICES ASSUME NoErrors, NEW d \in Clients
                  PROVE  /\ Fresh(d)' => Dest[d] \notin DOMAIN disk'
                         /\ cli[d].pc = "done" /\ cli[d].sent = Blocks[d] => Copied(d)'
      BY <1>1 DEF Good, NoErrors, Existing, Dest, Blocks, Fault
    <3>1. ASSUME Fresh(d)' PROVE d # c /\ Fresh(d)
      <4>1. CASE cli[d].pc = "start"
        BY <1>0, <1>2, <4>1 DEF Fresh
      <4>2. CASE cli[d].pc # "start"
        <5>1. Under(d)' /\ \A u \in Threads : Serves(u, d)' => thr'[u].pc \in {"type0", "finfo", "open"}
          BY <1>1, <3>1, <4>2 DEF Fresh, Threads
        <5>2. Under(d)
          BY <2>8, <5>1 DEF Under
        <5>3. d # c
          <6>1. d = c => Serves(t, d)'
            BY <1>3, <2>2 DEF Serves, Live
          <6>. QED
            BY <1>3, <2>2, <5>1, <6>1
        <5>4. ASSUME NEW u \in Threads, Serves(u, d) PROVE thr[u].pc \in {"type0", "finfo", "open"}
          <6>1. Serves(u, d)' /\ u # t
            BY <1>0, <2>2, <5>3, <5>4 DEF Serves, Live
          <6>. QED
            BY <2>2, <5>1, <6>1
        <5>. QED
          BY <5>2, <5>3, <5>4 DEF Fresh
      <4>. QED
        BY <4>1, <4>2
    <3>2. ASSUME Fresh(d)' PROVE Dest[d] \notin DOMAIN disk'
      BY <1>2, <2>3, <2>4, <3>1, <3>2 DEF PromptParts, Good, NoErrors
    <3>3. ASSUME cli[d].pc = "done", cli[d].sent = Blocks[d] PROVE Copied(d)'
      <4>1. Copied(d)
        BY <3>3 DEF PromptParts, Good
      <4>. QED
        BY <2>4, <4>1 DEF Copied, Dest, Whole, Blocks
    <3>. QED
      BY <3>2, <3>3
  <2>13. Kept'
    <3>1. ASSUME NEW g \in Files, Held(g) PROVE Held(g)'
      <4>1. PICK u \in Threads : Past(u) /\ thr[u].name = g
        BY <3>1 DEF Held
      <4>2. Past(u)' /\ thr'[u].name = g
        BY <1>1, <2>2, <4>1 DEF Past
      <4>. QED
        BY <4>2 DEF Held, Threads
    <3>2. scene.faults = {} => Held(f)'
      <4>1. scene.faults = {} => next = "type"
        BY <2>1 DEF Fault
      <4>2. next = "type" => Past(t)' /\ thr'[t].name = f
        BY <1>3, <2>2 DEF Past
      <4>. QED
        BY <4>1, <4>2 DEF Held, Threads
    <3>3. \A d \in Clients \cap open' : d \in open
      BY <2>7
    <3>. QED
      BY <1>5, <2>2, <2>8, <3>1, <3>2, <3>3 DEF PromptParts, Kept, Fault
  <2>. QED
    BY <2>8, <2>9, <2>10, <2>11, <2>13 DEF PromptParts
<1>. QED
  BY <1>0, <1>4, <1>5 DEF OpenFile

LEMMA ThreadStepKeeps ==
    ASSUME Types, MixInv, PromptParts, UNCHANGED scene, NEW t \in Threads, ThreadStep(t)
    PROVE  PromptParts'
  BY TakeArgumentKeeps, ReadFailsKeeps, ReadTypeKeeps, ReadInfoKeeps, OpenFileKeeps,
     SetResponseKeeps, WriteResponseKeeps, ReadDataKeeps, StoreKeeps, ThreadEndsKeeps
     DEF ThreadStep
-----------------------------------------------------------------------------
(* The steps of the server's main thread.                                  *)

LEMMA TailApart ==
    ASSUME NEW S, NEW s \in Seq(S), s # <<>>, IsInjective(s)
    PROVE  /\ IsInjective(Tail(s)) /\ Head(s) \in S
           /\ Head(s) \notin ToSet(Tail(s))
           /\ \A x : x \in ToSet(s) <=> x = Head(s) \/ x \in ToSet(Tail(s))
<1>1. /\ Len(s) \in Nat \ {0} /\ Head(s) = s[1] /\ DOMAIN s = 1..Len(s) /\ Head(s) \in S
      /\ DOMAIN Tail(s) = 1..Len(s) - 1 /\ \A i \in 1..Len(s) - 1 : Tail(s)[i] = s[i + 1]
  OBVIOUS
<1>2. \A i \in 2..Len(s) : i - 1 \in 1..Len(s) - 1 /\ Tail(s)[i - 1] = s[i]
  BY <1>1
<1>3. IsInjective(Tail(s))
  BY <1>1 DEF IsInjective
<1>4. Head(s) \notin ToSet(Tail(s))
  BY <1>1 DEF IsInjective, ToSet
<1>5. ASSUME NEW x \in ToSet(s) PROVE x = Head(s) \/ x \in ToSet(Tail(s))
  <2>1. PICK i \in 1..Len(s) : s[i] = x
    BY <1>1, <1>5 DEF ToSet
  <2>2. CASE i = 1
    BY <1>1, <2>1, <2>2
  <2>3. CASE i # 1
    <3>1. i - 1 \in DOMAIN Tail(s) /\ Tail(s)[i - 1] = x
      BY <1>1, <1>2, <2>1, <2>3
    <3>. QED
      BY <3>1 DEF ToSet
  <2>. QED
    BY <2>2, <2>3
<1>6. ASSUME NEW x, x = Head(s) \/ x \in ToSet(Tail(s)) PROVE x \in ToSet(s)
  BY <1>1, <1>6 DEF ToSet
<1>. QED
  BY <1>1, <1>3, <1>4, <1>5, <1>6

LEMMA AppendApart ==
    ASSUME NEW S, NEW s \in Seq(S), NEW x \in S, IsInjective(s), x \notin ToSet(s)
    PROVE  /\ IsInjective(Append(s, x))
           /\ \A y : y \in ToSet(Append(s, x)) <=> y = x \/ y \in ToSet(s)
<1>1. PICK a : a = Append(s, x)
  OBVIOUS
<1>2. /\ Len(s) \in Nat /\ DOMAIN s = 1..Len(s) /\ DOMAIN a = 1..Len(s) + 1
      /\ a[Len(s) + 1] = x /\ \A i \in 1..Len(s) : a[i] = s[i]
  BY <1>1
<1>3. \A i \in 1..Len(s) : s[i] # x
  BY <1>2 DEF ToSet
<1>4. ASSUME NEW i \in DOMAIN a, NEW j \in DOMAIN a, a[i] = a[j] PROVE i = j
  <2>1. (i \in 1..Len(s) \/ i = Len(s) + 1) /\ (j \in 1..Len(s) \/ j = Len(s) + 1)
    BY <1>2
  <2>. QED
    BY <1>2, <1>3, <1>4, <2>1 DEF IsInjective
<1>5. ASSUME NEW y PROVE y \in ToSet(a) <=> y = x \/ y \in ToSet(s)
  BY <1>2 DEF ToSet
<1>. QED
  BY <1>1, <1>4, <1>5 DEF IsInjective

LEMMA ServerKeeps ==
    ASSUME Types, PromptParts, UNCHANGED <<scene, cli, disk>>, Wiring', Kept',
           \A t \in Threads : Live(t)' <=> Live(t),
           \A t \in Threads : Live(t) => thr'[t] = thr[t],
           \A d \in Clients : Under(d)' <=> Under(d),
           open' \cap Files = open \cap Files
    PROVE  PromptParts'
<1>1. \A d \in Clients, t \in Threads : Serves(t, d)' <=> Serves(t, d)
  BY DEF Serves, Live
<1>2. \A d \in Clients : Unserved(d)' => Unserved(d)
  BY <1>1 DEF Unserved, Threads
<1>3. Talking'
  <2>1. ASSUME NEW t \in Threads, Live(t)' PROVE Talk(t)'
    <3>1. Live(t) /\ thr'[t] = thr[t] /\ Talk(t)
      BY <2>1 DEF PromptParts, Talking
    <3>. QED
      BY <3>1, TalkStays DEF File
  <2>2. ASSUME NEW d \in Clients, Unserved(d)' PROVE Opening(cli[d])'
    <3>1. Opening(cli[d])
      BY <1>2, <2>2 DEF PromptParts, Talking
    <3>2. PICK k : k = cli[d] /\ k = cli'[d]
      OBVIOUS
    <3>3. Opening(k)
      BY <3>1, <3>2
    <3>4. Opening(k)'
      BY <3>3 DEF Opening, Is, Cut, Fault
    <3>. QED
      BY <3>2, <3>4
  <2>. QED
    BY <2>1, <2>2 DEF Talking, Threads
<1>4. DiskOK'
  BY DEF PromptParts, DiskOK, Stored, Existing, Dest, Blocks, Fault
<1>5. \A d \in Clients : Fresh(d)' => Fresh(d)
  <2>. SUFFICES ASSUME NEW d \in Clients, Fresh(d)', cli[d].pc # "start" PROVE Fresh(d)
    BY DEF Fresh
  <2>1. Under(d)' /\ \A u \in Threads : Serves(u, d)' => thr'[u].pc \in {"type0", "finfo", "open"}
    BY DEF Fresh, Threads
  <2>2. \A u \in Threads : Serves(u, d) => Live(u)
    BY DEF Serves
  <2>. QED
    BY <1>1, <2>1, <2>2 DEF Fresh
<1>6. Good'
  BY <1>5 DEF PromptParts, Good, NoErrors, Copied, Dest, Existing, Blocks, Whole, Fault
<1>. QED
  BY <1>3, <1>4, <1>6 DEF PromptParts

LEMMA StartServerKeeps ==
    ASSUME Types, PromptParts, UNCHANGED scene, StartServer
    PROVE  PromptParts'
<1>1. /\ ~srv.on /\ UNCHANGED <<thr, open, response, pending, cli, disk>>
      /\ \A t \in Threads : thr[t].pc = "none"
      /\ srv.main = "accept" /\ pending = <<>> /\ open = {}
  BY DEF StartServer, PromptParts, Wiring
<1>2. /\ srv'.on = ~srv.bound /\ srv'.bound = TRUE /\ srv'.main = "accept"
      /\ srv'.accept_socket = srv.accept_socket
  BY <1>1 DEF StartServer, Types, TypeOK, Process
<1>3. /\ \A t \in Threads : (Live(t)' <=> Live(t)) /\ thr'[t] = thr[t]
      /\ \A d \in Clients : Under(d)' <=> Under(d)
  BY <1>1 DEF Live, Under
<1>4. ~Handing'
  BY <1>1, <1>2 DEF Handing, Threads
<1>5. Wiring'
  <2>1. \A d \in Clients : cli'[d].pc = "start" =>
           ~Under(d)' /\ cli'[d].sent = 0 /\ Quiet(cli[d])'
    BY <1>1, <1>3 DEF PromptParts, Wiring, Quiet
  <2>2. IsInjective(pending') /\ \A d \in ToSet(pending') : d \notin open'
    BY <1>1 DEF PromptParts, Wiring
  <2>3. \A t \in Threads : ~Live(t)' /\ thr'[t].pc = "none"
    BY <1>1 DEF Live
  <2>. QED
    BY <1>1, <1>2, <1>4, <2>1, <2>2, <2>3 DEF Wiring, Threads
<1>6. Kept'
  <2>1. ~Fault("kill") => srv'.on = srv'.bound
    BY <1>1, <1>2 DEF PromptParts, Kept, Types, TypeOK, Process
  <2>. QED
    BY <1>1, <2>1 DEF Kept, Fault
<1>. QED
  BY <1>1, <1>3, <1>5, <1>6, ServerKeeps

LEMMA AcceptKeeps ==
    ASSUME Types, PromptParts, UNCHANGED scene, scene.prompt, Accept
    PROVE  PromptParts'
<1>1. CASE ~MoreFds
  <2>1. Dies(TRUE)
    BY <1>1 DEF Accept
  <2>. QED
    BY <2>1, DiesKeeps
<1>2. CASE MoreFds
  <2>1. PICK h : h = Head(pending)
    OBVIOUS
  <2>2. /\ srv.on /\ srv.main = "accept" /\ pending \in Seq(Clients) /\ pending # <<>>
        /\ \A t \in Threads : thr[t].pc # "arg"
        /\ srv' = [srv EXCEPT !.main = "create", !.accept_socket = h]
        /\ open' = open \cup {h} /\ pending' = Tail(pending)
        /\ UNCHANGED <<thr, response, cli, disk>>
    BY <1>2, <2>1 DEF Accept, Types, TypeOK
  <2>3. /\ srv'.on = srv.on /\ srv'.bound = srv.bound /\ srv'.main = "create"
        /\ srv'.accept_socket = h
    BY <2>2 DEF Types, TypeOK, Process
  <2>4. /\ IsInjective(pending') /\ h \in Clients /\ h \notin ToSet(pending')
        /\ \A x : x \in ToSet(pending) <=> x = h \/ x \in ToSet(pending')
    BY <2>1, <2>2, TailApart DEF PromptParts, Wiring
  <2>5. /\ h \in ToSet(pending) /\ h \notin open /\ h \notin Files
        /\ \A d \in ToSet(pending) : d \notin open
    BY <2>4, ThreadCopyAssumption DEF PromptParts, Wiring
  <2>6. \A d \in Clients : Under(d)' <=> Under(d)
    BY <2>2, <2>4, <2>5 DEF Under
  <2>7. \A t \in Threads : (Live(t)' <=> Live(t)) /\ thr'[t] = thr[t]
    BY <2>2 DEF Live
  <2>8. ~Handing /\ Handing'
    BY <2>2, <2>3 DEF Handing
  <2>9. \A t \in Threads : Live(t) => thr[t].sock \in Clients \cap open
    BY DEF PromptParts, Wiring
  <2>10. Unserved(h)'
    <3>1. Under(h)'
      BY <2>2 DEF Under
    <3>2. \A t \in Threads : ~Serves(t, h)'
      BY <2>5, <2>7, <2>9 DEF Serves
    <3>. QED
      BY <3>1, <3>2 DEF Unserved, Threads
  <2>12. Unserved(srv.accept_socket)'
    BY <2>3, <2>10
  <2>13. Wiring'
    <3>1. \A d \in ToSet(pending') : d \notin open'
      BY <2>2, <2>4, <2>5
    <3>2. \A d \in Clients : cli'[d].pc = "start" =>
             ~Under(d)' /\ cli'[d].sent = 0 /\ Quiet(cli[d])'
      BY <2>2, <2>6 DEF PromptParts, Wiring, Quiet
    <3>3. \A t \in Threads : Live(t)' => thr'[t].sock \in Clients \cap open'
      BY <2>2, <2>7, <2>9
    <3>4. \A t, u \in Threads : Live(t)' /\ Live(u)' /\ thr'[t].sock = thr'[u].sock => t = u
      BY <2>7 DEF PromptParts, Wiring
    <3>5. \A t \in Threads : thr'[t].pc # "arg"
      BY <2>2
    <3>6. srv'.on /\ srv'.accept_socket \in Clients \cap open'
      BY <2>2, <2>3, <2>4
    <3>. QED
      BY <2>4, <2>12, <3>1, <3>2, <3>3, <3>4, <3>5, <3>6 DEF Wiring, Threads
  <2>14. Kept'
    <3>1. ASSUME NEW d \in Clients, d \in open', d \in open => Handed(d) PROVE Handed(d)'
      <4>1. CASE d = h
        BY <2>3, <2>8, <4>1 DEF Handed
      <4>2. CASE d # h
        <5>1. PICK t \in Threads : Serves(t, d)
          BY <2>2, <2>8, <3>1, <4>2 DEF Handed
        <5>2. Serves(t, d)'
          BY <2>7, <5>1 DEF Serves
        <5>. QED
          BY <5>2 DEF Handed, Threads
      <4>. QED
        BY <4>1, <4>2
    <3>2. \A f \in Files : (f \in open' => f \in open) /\ (Held(f)' <=> Held(f))
      BY <2>2, <2>5 DEF Held, Past, Threads
    <3>. QED
      BY <2>3, <3>1, <3>2 DEF PromptParts, Kept, Fault
  <2>15. open' \cap Files = open \cap Files
    BY <2>2, <2>5
  <2>. QED
    BY <2>2, <2>6, <2>7, <2>13, <2>14, <2>15, ServerKeeps
<1>. QED
  BY <1>1, <1>2

LEMMA CreateKeeps ==
    ASSUME Types, PromptParts, UNCHANGED scene, Create
    PROVE  PromptParts'
<1>1. PICK h : h = srv.accept_socket
  OBVIOUS
<1>2. /\ srv.on /\ srv.main = "create" /\ srv' = [srv EXCEPT !.main = "accept"]
      /\ UNCHANGED <<open, response, pending, cli, disk>>
  BY DEF Create
<1>3. /\ srv'.on = srv.on /\ srv'.bound = srv.bound /\ srv'.main = "accept"
      /\ srv'.accept_socket = h
  BY <1>1, <1>2 DEF Types, TypeOK, Process
<1>4. /\ \A t \in Threads : thr[t].pc # "arg"
      /\ h \in Clients \cap open /\ Unserved(h) /\ Handing
  BY <1>1, <1>2 DEF PromptParts, Wiring, Handing
<1>. DEFINE New(T) == /\ \A t, u \in T : t = u
                      /\ T = {} => Fault("nothread")
                      /\ \A t \in T : thr[t].pc = "none" /\ thr'[t].pc = "arg"
                      /\ \A t \in Threads \ T : thr'[t] = thr[t]
<1>5. PICK T \in SUBSET Threads : New(T)
  <2>1. CASE Fault("nothread") /\ UNCHANGED thr
    <3>1. {} \in SUBSET Threads /\ New({})
      BY <2>1
    <3>. QED
      BY <3>1
  <2>2. ASSUME NEW t \in Threads, thr[t].pc = "none",
               thr' = [thr EXCEPT ![t] = Thread("arg", Nobody)]
        PROVE  \E T \in SUBSET Threads : New(T)
    <3>1. thr'[t].pc = "arg" /\ \A u \in Threads \ {t} : thr'[u] = thr[u]
      BY <2>2, NewThread DEF Types, TypeOK
    <3>2. {t} \in SUBSET Threads /\ New({t})
      BY <2>2, <3>1
    <3>. QED
      BY <3>2
  <2>. QED
    BY <2>1, <2>2 DEF Create
<1>6. /\ \A t \in Threads : Live(t)' <=> Live(t)
      /\ \A t \in Threads : Live(t) => thr'[t] = thr[t]
      /\ \A t \in Threads : thr'[t].pc = "arg" <=> t \in T
  BY <1>4, <1>5 DEF Live
<1>7. \A d \in Clients : Under(d)' <=> Under(d)
  BY <1>2 DEF Under
<1>8. Unserved(srv.accept_socket)'
  <2>1. \A t \in Threads : Serves(t, h)' => Serves(t, h)
    BY <1>6 DEF Serves
  <2>2. Unserved(h)'
    BY <1>4, <1>7, <2>1 DEF Unserved, Threads
  <2>. QED
    BY <1>3, <2>2
<1>9. Wiring'
  <2>1. IsInjective(pending') /\ \A d \in ToSet(pending') : d \notin open'
    BY <1>2 DEF PromptParts, Wiring
  <2>2. \A d \in Clients : cli'[d].pc = "start" =>
           ~Under(d)' /\ cli'[d].sent = 0 /\ Quiet(cli[d])'
    BY <1>2, <1>7 DEF PromptParts, Wiring, Quiet
  <2>3. \A t \in Threads : Live(t)' => thr'[t].sock \in Clients \cap open'
    BY <1>2, <1>6 DEF PromptParts, Wiring
  <2>4. \A t, u \in Threads : Live(t)' /\ Live(u)' /\ thr'[t].sock = thr'[u].sock => t = u
    BY <1>6 DEF PromptParts, Wiring
  <2>5. \A t \in Threads : thr'[t].pc = "arg" =>
          srv'.main = "accept" /\ \A u \in Threads : thr'[u].pc = "arg" => t = u
    BY <1>3, <1>5, <1>6
  <2>6. srv'.on /\ srv'.accept_socket \in Clients \cap open'
    BY <1>2, <1>3, <1>4
  <2>. QED
    BY <1>8, <2>1, <2>2, <2>3, <2>4, <2>5, <2>6 DEF Wiring, Threads
<1>10. Kept'
  <2>1. ASSUME ~Fault("nothread"), NEW d \in Clients, d \in open PROVE Handed(d)'
    <3>1. Handed(d)
      BY <2>1 DEF PromptParts, Kept
    <3>2. CASE d = h
      <4>1. PICK t \in T : TRUE
        BY <1>5, <2>1
      <4>2. Handing'
        BY <1>5, <4>1 DEF Handing, Threads
      <4>. QED
        BY <1>3, <3>2, <4>2 DEF Handed
    <3>3. CASE d # h
      <4>1. PICK t \in Threads : Serves(t, d)
        BY <1>1, <3>1, <3>3 DEF Handed
      <4>2. Serves(t, d)'
        BY <1>6, <4>1 DEF Serves
      <4>. QED
        BY <4>2 DEF Handed, Threads
    <3>. QED
      BY <3>2, <3>3
  <2>2. ASSUME NEW f \in Files, Held(f) PROVE Held(f)'
    <3>1. PICK t \in Threads : Past(t) /\ thr[t].name = f
      BY <2>2 DEF Held
    <3>2. thr'[t] = thr[t]
      BY <1>5, <3>1 DEF Past
    <3>. QED
      BY <3>1, <3>2 DEF Held, Past, Threads
  <2>. QED
    BY <1>2, <1>3, <2>1, <2>2 DEF PromptParts, Kept, Fault
<1>. QED
  BY <1>2, <1>6, <1>7, <1>9, <1>10, ServerKeeps
-----------------------------------------------------------------------------
(* The steps of the client c, whose next state is k.                       *)

LEMMA ClientMovesKeep ==
    ASSUME Types, PromptParts, UNCHANGED <<scene, srv, thr, open, disk>>, Wiring',
           NEW c \in Clients, NEW k, cli'[c] = k,
           \A d \in Clients \ {c} : cli'[d] = cli[d] /\ (Under(d)' <=> Under(d)),
           Fresh(c)' => Fresh(c), Unserved(c)' => Opening(k),
           \A t \in Threads : Serves(t, c) => Talk(t)',
           NoErrors /\ k.pc = "done" /\ k.sent = Blocks[c] => Copied(c)
    PROVE  PromptParts'
<1>1. \A t \in Threads, d \in Clients : Serves(t, d)' <=> Serves(t, d)
  BY DEF Serves, Live
<1>2. Talking'
  <2>1. ASSUME NEW t \in Threads, Live(t)' PROVE Talk(t)'
    <3>1. Live(t) /\ Talk(t) /\ thr[t].sock \in Clients
      BY <2>1 DEF Live, PromptParts, Talking, Wiring
    <3>2. CASE thr[t].sock = c
      BY <3>1, <3>2 DEF Serves
    <3>3. CASE thr[t].sock # c
      BY <3>1, <3>3, TalkStays DEF File
    <3>. QED
      BY <3>2, <3>3
  <2>2. ASSUME NEW d \in Clients, Unserved(d)' PROVE Opening(cli[d])'
    <3>1. PICK j : j = cli'[d]
      OBVIOUS
    <3>2. Opening(j)
      <4>1. CASE d = c
        BY <2>2, <3>1, <4>1
      <4>2. CASE d # c
        <5>1. Unserved(d) /\ cli'[d] = cli[d]
          BY <1>1, <2>2, <4>2 DEF Unserved, Threads
        <5>. QED
          BY <3>1, <5>1 DEF PromptParts, Talking
      <4>. QED
        BY <4>1, <4>2
    <3>3. Opening(j)'
      BY <3>2 DEF Opening, Is, Cut, Fault
    <3>. QED
      BY <3>1, <3>3
  <2>. QED
    BY <2>1, <2>2 DEF Talking, Threads
<1>3. DiskOK'
  BY DEF PromptParts, DiskOK, Stored, Existing, Dest, Blocks, Fault
<1>4. ASSUME NEW d \in Clients, Fresh(d)' PROVE Fresh(d)
  <2>1. CASE d = c
    BY <1>4, <2>1
  <2>2. CASE d # c
    <3>1. cli'[d] = cli[d] /\ (Under(d)' <=> Under(d))
      BY <2>2
    <3>2. CASE cli[d].pc = "start"
      BY <3>2 DEF Fresh
    <3>3. CASE cli[d].pc # "start"
      <4>1. Under(d)' /\ \A u \in Threads : Serves(u, d)' => thr'[u].pc \in {"type0", "finfo", "open"}
        BY <1>4, <3>1, <3>3 DEF Fresh, Threads
      <4>. QED
        BY <1>1, <3>1, <4>1 DEF Fresh
    <3>. QED
      BY <3>2, <3>3
  <2>. QED
    BY <2>1, <2>2
<1>5. Good'
  <2>. SUFFICES ASSUME NoErrors, NEW d \in Clients
                PROVE  /\ Fresh(d)' => Dest[d] \notin DOMAIN disk
                       /\ cli'[d].pc = "done" /\ cli'[d].sent = Blocks[d] => Copied(d)
    BY DEF Good, NoErrors, Existing, Dest, Blocks, Fault, Copied, Whole
  <2>. QED
    BY <1>4 DEF PromptParts, Good
<1>6. Kept'
  BY <1>1 DEF PromptParts, Kept, Fault, Handed, Handing, Held, Past, Threads
<1>. QED
  BY <1>2, <1>3, <1>5, <1>6 DEF PromptParts

\* Wherever the client and its thread were, they are still in step.
Follows(j, k, c) ==
    /\ Opening(j) => Opening(k)
    /\ AtInfo(j) => AtInfo(k)
    /\ \A name : AtOpen(j, c, name) => AtOpen(k, c, name)
    /\ \A n \in Nat : AtAnswer(j, n) => AtAnswer(k, n)
    /\ AtRefuse(j) => AtRefuse(k)
    /\ \A n \in Nat : AtType(j, c, n) => AtType(k, c, n)
    /\ \A n \in Nat : AtData(j, c, n) => AtData(k, c, n)
    /\ \A n \in Nat : \A item : AtStore(j, c, n, item) => AtStore(k, c, n, item)
    /\ AtEnd(j) => AtEnd(k)

LEMMA ClientKeeps ==
    ASSUME Types, PromptParts, UNCHANGED scene, NEW c \in Clients, NEW k,
           ClientBecomes(c, k), cli[c].pc # "start", k.pc # "start",
           Under(c) => Follows(cli[c], k, c),
           NoErrors /\ k.pc = "done" /\ k.sent = Blocks[c] => Copied(c)
    PROVE  PromptParts'
<1>1. /\ UNCHANGED <<srv, thr, open, pending, disk>>
      /\ cli'[c] = k /\ \A d \in Clients \ {c} : cli'[d] = cli[d]
  BY ClientMoves DEF ClientBecomes
<1>2. \A d \in Clients : /\ Under(d)' <=> Under(d)
                         /\ Unserved(d)' <=> Unserved(d)
  BY <1>1 DEF Under, Unserved, Serves, Live, Threads
<1>3. Wiring'
  <2>1. \A d \in Clients : cli'[d].pc = "start" =>
           ~Under(d)' /\ cli'[d].sent = 0 /\ Quiet(cli[d])'
    <3>. SUFFICES ASSUME NEW d \in Clients, cli'[d].pc = "start"
                  PROVE  ~Under(d)' /\ cli'[d].sent = 0 /\ Quiet(cli[d])'
      OBVIOUS
    <3>1. d # c /\ cli'[d] = cli[d]
      BY <1>1
    <3>2. ~Under(d)' /\ cli[d].sent = 0 /\ cli[d].up = <<>> /\ cli[d].down = <<>>
      BY <1>2, <3>1 DEF PromptParts, Wiring, Quiet
    <3>. QED
      BY <3>1, <3>2 DEF Quiet
  <2>2. \A t \in Threads : Live(t)' <=> Live(t)
    BY <1>1 DEF Live
  <2>3. Handing' <=> Handing
    BY <1>1 DEF Handing, Threads
  <2>4. Handing => srv.accept_socket \in Clients \cap open /\ Unserved(srv.accept_socket)
    BY DEF PromptParts, Wiring
  <2>5. Handing' => srv'.accept_socket \in Clients \cap open' /\ Unserved(srv.accept_socket)'
    BY <1>1, <2>3, <2>4 DEF Unserved, Under, Serves, Live, Threads
  <2>. QED
    BY <1>1, <2>1, <2>2, <2>5 DEF PromptParts, Wiring, Threads
<1>4. Fresh(c)' => Fresh(c)
  BY <1>1, <1>2 DEF Fresh, Serves, Live, Threads
<1>5. Unserved(c)' => Opening(k)
  BY <1>2 DEF PromptParts, Talking, Unserved, Follows
<1>6. ASSUME NEW t \in Threads, Serves(t, c) PROVE Talk(t)'
  <2>1. PICK th : th = thr[t] /\ th = thr'[t]
    BY <1>1
  <2>2. Live(t) /\ th.sock = c /\ Follows(cli[c], k, c)
    BY <1>6, <2>1, TalkIs DEF Serves, Under
  <2>3. CASE ~Past(t)
    <3>1. Begins(th, cli[c], c)
      BY <2>1, <2>2, <2>3, TalkIs
    <3>2. Begins(th, k, c) /\ ~PastOf(th)
      BY <2>1, <2>2, <2>3, <3>1 DEF Begins, Follows, Past, PastOf
    <3>. QED
      BY <1>1, <2>1, <2>2, <3>2, TalkBegins
  <2>4. CASE Past(t)
    <3>1. /\ th.name = Dest[c] /\ Dest[c] \in DOMAIN disk \ Existing
          /\ \E n \in 0..Blocks[c] : PartOf(disk[Dest[c]], c, n) /\ Speaks(th, cli[c], c, n)
      BY <2>1, <2>2, <2>4, TalkIs
    <3>2. PICK n \in 0..Blocks[c] : PartOf(disk[Dest[c]], c, n) /\ Speaks(th, cli[c], c, n)
      BY <3>1
    <3>3. n \in Nat
      BY ClientTypes
    <3>4. Speaks(th, k, c, n) /\ PastOf(th)
      BY <2>1, <2>2, <2>4, <3>2, <3>3 DEF Speaks, Follows, Past, PastOf
    <3>. QED
      BY <1>1, <2>1, <2>2, <3>1, <3>2, <3>4, TalkGoesOn
  <2>. QED
    BY <2>3, <2>4
<1>. QED
  BY <1>1, <1>2, <1>3, <1>4, <1>5, <1>6, ClientMovesKeep

\* While its connection stands a thread reads from no other.
LEMMA OpenAtServer ==
    ASSUME Types, PromptParts, NEW c \in Clients
    PROVE  ServerOpen(c) <=> Under(c)
<1>1. ASSUME NEW t \in Threads, Reads(t, c) PROVE c \in open
  <2>1. Live(t) /\ thr[t].sock = c
    BY <1>1 DEF Reads, ReadPcs, Live
  <2>. QED
    BY <2>1, TalkIs
<1>. QED
  BY <1>1 DEF ServerOpen, Under

LEMMA PcSet ==
    ASSUME Types, NEW c \in Clients, NEW pc, NEW k, k = [cli[c] EXCEPT !.pc = pc]
    PROVE  k.pc = pc /\ k.sent = cli[c].sent /\ k.up = cli[c].up /\ k.down = cli[c].down
  BY ClientTypes DEF Client

\* A client without a connection is killed by its write.
LEMMA CutOffKeeps ==
    ASSUME Types, PromptParts, UNCHANGED scene, NEW c \in Clients, cli[c].pc # "start",
           ~ServerOpen(c), NEW k, k = [cli[c] EXCEPT !.pc = "killed"], ClientBecomes(c, k)
    PROVE  PromptParts'
<1>1. ~Under(c)
  BY OpenAtServer
<1>2. k.pc = "killed"
  BY PcSet
<1>. QED
  BY <1>1, <1>2, ClientKeeps

\* A write to a connection that stands, or PromptParts'.
LEMMA WriteKeeps ==
    ASSUME Types, PromptParts, UNCHANGED scene, NEW c \in Clients, NEW from, NEW unit, NEW to,
           Write(c, from, unit, to), from # "start", to # "start",
           \A k : /\ k.pc = to /\ k.sent = cli[c].sent /\ k.up = Append(cli[c].up, unit)
                  /\ k.down = cli[c].down /\ Under(c)
                  => /\ Follows(cli[c], k, c)
                     /\ NoErrors /\ to = "done" /\ k.sent = Blocks[c] => Copied(c)
    PROVE  PromptParts'
<1>1. CASE ServerOpen(c)
  <2>1. PICK k : k = [cli[c] EXCEPT !.pc = to, !.up = Append(cli[c].up, unit)]
    OBVIOUS
  <2>2. ClientBecomes(c, k) /\ cli[c].pc = from
    BY <1>1, <2>1 DEF Write
  <2>3. /\ k.pc = to /\ k.sent = cli[c].sent /\ k.up = Append(cli[c].up, unit)
        /\ k.down = cli[c].down
    BY <2>1, ClientTypes DEF Client
  <2>4. Under(c)
    BY <1>1, OpenAtServer
  <2>. QED
    BY <2>2, <2>3, <2>4, ClientKeeps
<1>2. CASE ~ServerOpen(c)
  <2>1. ClientBecomes(c, [cli[c] EXCEPT !.pc = "killed"]) /\ cli[c].pc = from
    BY <1>2 DEF Write
  <2>. QED
    BY <1>2, <2>1, CutOffKeeps
<1>. QED
  BY <1>1, <1>2

LEMMA Joined ==
    /\ \A x : Append(<<>>, x) = <<x>>
    /\ \A x, y : Append(<<x>>, y) = <<x, y>>
<1>. SUFFICES ASSUME NEW x, NEW y
              PROVE  Append(<<>>, x) = <<x>> /\ Append(<<x>>, y) = <<x, y>>
  OBVIOUS
<1>0. PICK S : S = {x, y}
  OBVIOUS
<1>1. <<>> \in Seq(S)
  OBVIOUS
<1>2. <<x>> \in Seq(S)
  BY <1>0
<1>3. Append(<<>>, x) = <<x>>
  BY <1>1
<1>4. PICK s \in Seq(S) : s = <<x>>
  BY <1>2
<1>5. y \in S /\ Len(s) = 1 /\ s[1] = x
  BY <1>0, <1>4
<1>6. PICK z : z = Append(s, y)
  OBVIOUS
<1>7. /\ z \in Seq(S) /\ Len(z) = Len(s) + 1 /\ \A i \in 1..Len(s) : z[i] = s[i]
      /\ z[Len(s) + 1] = y
  BY <1>5, <1>6
<1>8. z \in Seq(S) /\ Len(z) = 2 /\ z[1] = x /\ z[2] = y
  BY <1>5, <1>7
<1>9. z = <<x, y>>
  BY <1>8
<1>. QED
  BY <1>3, <1>4, <1>6, <1>9

LEMMA SendInfoTypeKeeps ==
    ASSUME Types, PromptParts, UNCHANGED scene, NEW c \in Clients, SendInfoType(c)
    PROVE  PromptParts'
<1>1. Write(c, "info", INFO, "finfo") /\ cli[c].pc = "info"
  BY DEF SendInfoType, Write, INFO
<1>2. ASSUME NEW k, k.pc = "finfo", k.sent = cli[c].sent, k.up = Append(cli[c].up, INFO),
             k.down = cli[c].down
      PROVE  Follows(cli[c], k, c)
  BY <1>1, <1>2, Joined
     DEF Follows, Opening, AtInfo, AtOpen, AtAnswer, AtRefuse, AtType, AtData, AtStore, AtEnd,
         Is, Cut, Quiet
<1>. QED
  BY <1>1, <1>2, WriteKeeps

LEMMA SendInfoKeeps ==
    ASSUME Types, PromptParts, UNCHANGED scene, NEW c \in Clients, SendInfo(c)
    PROVE  PromptParts'
<1>1. Write(c, "finfo", FINFO, "wait") /\ cli[c].pc = "finfo"
  BY DEF SendInfo, Write, FINFO
<1>2. ASSUME NEW k, k.pc = "wait", k.sent = cli[c].sent, k.up = Append(cli[c].up, FINFO),
             k.down = cli[c].down
      PROVE  Follows(cli[c], k, c)
  BY <1>1, <1>2, Joined
     DEF Follows, Opening, AtInfo, AtOpen, AtAnswer, AtRefuse, AtType, AtData, AtStore, AtEnd,
         Is, Cut, Quiet
<1>. QED
  BY <1>1, <1>2, WriteKeeps

LEMMA SendBlockTypeKeeps ==
    ASSUME Types, PromptParts, UNCHANGED scene, NEW c \in Clients, SendBlockType(c)
    PROVE  PromptParts'
<1>1. Write(c, "next", BLOCK, "data") /\ cli[c].pc = "next"
  BY DEF SendBlockType, Write, BLOCK
<1>2. ASSUME NEW k, k.pc = "data", k.sent = cli[c].sent, k.up = Append(cli[c].up, BLOCK),
             k.down = cli[c].down
      PROVE  Follows(cli[c], k, c)
  BY <1>1, <1>2, Joined
     DEF Follows, Opening, AtInfo, AtOpen, AtAnswer, AtRefuse, AtType, AtData, AtStore, AtEnd,
         Is, Cut, Quiet
<1>. QED
  BY <1>1, <1>2, WriteKeeps

LEMMA SendBlockKeeps ==
    ASSUME Types, PromptParts, UNCHANGED scene, NEW c \in Clients, SendBlock(c)
    PROVE  PromptParts'
<1>1. PICK n : n = cli[c].sent + 1
  OBVIOUS
<1>2. cli[c].pc = "data" /\ cli[c].sent \in Nat
  BY ClientTypes DEF SendBlock
<1>3. CASE ServerOpen(c)
  <2>1. PICK k : k = [cli[c] EXCEPT !.pc = "ack", !.sent = n,
                                    !.up = Append(cli[c].up, Data(n))]
    OBVIOUS
  <2>2. ClientBecomes(c, k)
    BY <1>1, <1>3, <2>1 DEF SendBlock, Data
  <2>3. /\ k.pc = "ack" /\ k.sent = n /\ k.up = Append(cli[c].up, Data(n))
        /\ k.down = cli[c].down
    BY <2>1, ClientTypes DEF Client
  <2>4. Follows(cli[c], k, c)
    BY <1>1, <1>2, <2>3, Joined
       DEF Follows, Opening, AtInfo, AtOpen, AtAnswer, AtRefuse, AtType, AtData, AtStore, AtEnd,
           Is, Cut, Quiet
  <2>. QED
    BY <1>2, <2>2, <2>3, <2>4, ClientKeeps
<1>4. CASE ~ServerOpen(c)
  <2>1. ClientBecomes(c, [cli[c] EXCEPT !.pc = "killed"])
    BY <1>4 DEF SendBlock
  <2>. QED
    BY <1>2, <1>4, <2>1, CutOffKeeps
<1>. QED
  BY <1>3, <1>4

LEMMA LastTaken ==
    ASSUME NEW S, NEW s \in Seq(S), Len(s) = 1 PROVE Tail(s) = <<>>
<1>1. PICK r : r = Tail(s)
  OBVIOUS
<1>2. r \in Seq(S) /\ Len(r) = 0
  BY <1>1
<1>. QED
  BY <1>1, <1>2, EmptySeq

\* The answer of a thread, when the connection stands.
LEMMA AnswerKeeps ==
    ASSUME Types, PromptParts, UNCHANGED scene, NEW c \in Clients, NEW from \in {"wait", "ack"},
           Read(c, from, "next")
    PROVE  PromptParts'
<1>1. cli[c].pc = from
  BY DEF Read
<1>2. CASE /\ cli[c].down # <<>>
           /\ ClientBecomes(c, [cli[c] EXCEPT !.pc = "next", !.resp = Head(cli[c].down),
                                              !.down = Tail(@)])
  <2>1. PICK r : r = Head(cli[c].down)
    OBVIOUS
  <2>. DEFINE rest == Tail(cli[c].down)
  <2>2. PICK k : k = [cli[c] EXCEPT !.pc = "next", !.resp = r, !.down = rest]
    OBVIOUS
  <2>3. ClientBecomes(c, k)
    BY <1>2, <2>1, <2>2
  <2>4. k.pc = "next" /\ k.sent = cli[c].sent /\ k.up = cli[c].up /\ k.down = rest
    BY <2>2, ClientTypes DEF Client
  <2>5. Len(cli[c].down) = 1 => k.down = <<>>
    <3>1. cli[c].down \in Seq(Answers)
      BY ClientTypes
    <3>. QED
      BY <2>4, <3>1, LastTaken
  <2>6. Follows(cli[c], k, c)
    BY <1>1, <1>2, <2>4, <2>5
       DEF Follows, Opening, AtInfo, AtOpen, AtAnswer, AtRefuse, AtType, AtData, AtStore, AtEnd,
           Is, Cut, Quiet
  <2>. QED
    BY <1>1, <2>3, <2>4, <2>6, ClientKeeps
<1>3. CASE /\ ~ServerOpen(c)
           /\ ClientBecomes(c, [cli[c] EXCEPT !.pc = IF cli[c].up = <<>> THEN "next" ELSE "bye"])
  <2>1. PICK pc \in {"next", "bye"} : pc = IF cli[c].up = <<>> THEN "next" ELSE "bye"
    OBVIOUS
  <2>2. PICK k : k = [cli[c] EXCEPT !.pc = pc]
    OBVIOUS
  <2>3. ClientBecomes(c, k) /\ k.pc = pc
    BY <1>3, <2>1, <2>2, PcSet
  <2>4. ~Under(c)
    BY <1>3, OpenAtServer
  <2>. QED
    BY <1>1, <2>1, <2>3, <2>4, ClientKeeps
<1>. QED
  BY <1>2, <1>3 DEF Read

LEMMA SourceEndsKeeps ==
    ASSUME Types, PromptParts, UNCHANGED scene, NEW c \in Clients, SourceEnds(c)
    PROVE  PromptParts'
<1>1. PICK k : k = [cli[c] EXCEPT !.pc = "bye"]
  OBVIOUS
<1>2. ClientBecomes(c, k) /\ cli[c].pc = "next"
  BY <1>1 DEF SourceEnds
<1>3. k.pc = "bye" /\ k.sent = cli[c].sent /\ k.up = cli[c].up /\ k.down = cli[c].down
  BY <1>1, PcSet
<1>4. Follows(cli[c], k, c)
  BY <1>2, <1>3
     DEF Follows, Opening, AtInfo, AtOpen, AtAnswer, AtRefuse, AtType, AtData, AtStore, AtEnd,
         Is, Cut, Quiet
<1>. QED
  BY <1>2, <1>3, <1>4, ClientKeeps

\* A client says BYE, without errors and with all blocks sent: its thread has
\* stored them.
LEMMA ByeIsCopied ==
    ASSUME Types, PromptParts, NoErrors, NEW c \in Clients, Under(c), cli[c].pc = "bye",
           cli[c].sent = Blocks[c]
    PROVE  Copied(c)
<1>1. ~Opening(cli[c]) /\ ~AtInfo(cli[c]) /\ ~AtRefuse(cli[c]) /\ ~AtEnd(cli[c])
  BY DEF Opening, AtInfo, AtRefuse, AtEnd, Is, Cut
<1>2. PICK t \in Threads : Serves(t, c)
  BY <1>1 DEF PromptParts, Talking, Unserved
<1>3. Live(t) /\ thr[t].sock = c /\ thr[t].pc # "arg" /\ thr[t].pc # "none" /\ thr[t].pc # "end"
  BY <1>2 DEF Serves, Live
<1>4. \A name : ~AtOpen(cli[c], c, name)
  BY DEF AtOpen, Cut
<1>5. PICK th : th = thr[t]
  OBVIOUS
<1>6. th.pc \in {"type0", "finfo", "open", "type", "data", "store", "send", "write", "exit", "finish"}
      /\ th.next \in {"type", "exit", "finish"}
  BY <1>3, <1>5, ThreadTypes DEF ThreadState
<1>7. Past(t)
  <2>. SUFFICES ASSUME ~Past(t) PROVE FALSE
    OBVIOUS
  <2>1. Begins(th, cli[c], c)
    BY <1>3, <1>5, TalkIs
  <2>. QED
    BY <1>1, <1>4, <1>5, <1>6, <2>1 DEF Begins, Past
<1>8. PICK n \in 0..Blocks[c] : PartOf(disk[Dest[c]], c, n) /\ Speaks(th, cli[c], c, n)
  BY <1>3, <1>5, <1>7, TalkIs
<1>9. Dest[c] \in DOMAIN disk
  BY <1>3, <1>7, TalkIs
<1>10. \A item : ~AtAnswer(cli[c], n) /\ ~AtData(cli[c], c, n) /\ ~AtStore(cli[c], c, n, item)
  BY DEF AtAnswer, AtData, AtStore, Is, Cut
<1>11. AtType(cli[c], c, n)
  BY <1>1, <1>5, <1>6, <1>7, <1>8, <1>10 DEF Speaks, Past
<1>12. n = Blocks[c]
  BY <1>11 DEF AtType, Is, Cut
<1>13. PICK file : file = disk[Dest[c]]
  OBVIOUS
<1>14. \A i \in DOMAIN file : file[i].data.kind # "torn"
  <2>1. Dest[c] \notin Existing /\ ~Fault("disk")
    BY DEF NoErrors
  <2>. QED
    BY <1>9, <1>13, <2>1 DEF PromptParts, DiskOK, Stored
<1>15. file \in Seq(Pieces) /\ PartOf(file, c, n) /\ n \in Nat
  BY <1>8, <1>9, <1>13 DEF Types, TypeOK
<1>16. DOMAIN file = 1..n /\ \A i \in 1..n : file[i] = Piece(c, Unit("data", i))
  BY <1>14, <1>15 DEF PartOf, Piece, Torn, Unit, Data
<1>17. file = [i \in 1..n |-> Piece(c, Unit("data", i))]
  <2>1. file = [i \in DOMAIN file |-> file[i]]
    BY <1>15
  <2>. QED
    BY <1>16, <2>1
<1>. QED
  BY <1>9, <1>12, <1>13, <1>17 DEF Copied, Whole

LEMMA SayByeKeeps ==
    ASSUME Types, PromptParts, UNCHANGED scene, NEW c \in Clients, SayBye(c)
    PROVE  PromptParts'
<1>1. Write(c, "bye", BYE, "done") /\ cli[c].pc = "bye"
  BY DEF SayBye, Write, BYE
<1>2. ASSUME NEW k, k.pc = "done", k.sent = cli[c].sent, k.up = Append(cli[c].up, BYE),
             k.down = cli[c].down, Under(c)
      PROVE  Follows(cli[c], k, c) /\ (NoErrors /\ k.sent = Blocks[c] => Copied(c))
  <2>1. Follows(cli[c], k, c)
    BY <1>1, <1>2, Joined
       DEF Follows, Opening, AtInfo, AtOpen, AtAnswer, AtRefuse, AtType, AtData, AtStore, AtEnd,
           Is, Cut, Quiet
  <2>2. NoErrors /\ k.sent = Blocks[c] => Copied(c)
    BY <1>1, <1>2, ByeIsCopied
  <2>. QED
    BY <2>1, <2>2
<1>. QED
  BY <1>1, <1>2, WriteKeeps

LEMMA KillClientKeeps ==
    ASSUME Types, PromptParts, UNCHANGED scene, NEW c \in Clients, KillClient(c)
    PROVE  PromptParts'
<1>1. PICK k : k = [cli[c] EXCEPT !.pc = "killed"]
  OBVIOUS
<1>2. /\ ClientBecomes(c, k) /\ Fault("kill")
      /\ cli[c].pc \notin {"start", "done", "failed", "killed"}
  BY <1>1 DEF KillClient, ClientOpen
<1>3. k.pc = "killed" /\ k.sent = cli[c].sent /\ k.up = cli[c].up /\ k.down = cli[c].down
  BY <1>1, PcSet
<1>4. cli[c].sent \in Nat /\ Blocks[c] \in Nat /\ cli[c].sent <= Blocks[c]
  BY ClientTypes
<1>5. Follows(cli[c], k, c)
  <2>1. Opening(cli[c]) => Opening(k)
    BY <1>2, <1>3 DEF Opening, Is, Cut
  <2>2. AtInfo(cli[c]) => AtInfo(k)
    BY <1>2, <1>3 DEF AtInfo, Is, Cut
  <2>3. \A name : AtOpen(cli[c], c, name) => AtOpen(k, c, name)
    BY <1>2, <1>3 DEF AtOpen, Is, Cut, Quiet
  <2>4. \A n \in Nat : AtAnswer(cli[c], n) => AtAnswer(k, n)
    BY <1>2, <1>3 DEF AtAnswer, Cut, Quiet
  <2>5. AtRefuse(cli[c]) => AtRefuse(k)
    BY <1>2, <1>3 DEF AtRefuse, Cut, Quiet
  <2>6. \A n \in Nat : AtType(cli[c], c, n) => AtType(k, c, n)
    <3>. SUFFICES ASSUME NEW n \in Nat, AtType(cli[c], c, n) PROVE AtType(k, c, n)
      OBVIOUS
    <3>1. cli[c].sent = n + 1 => n < Blocks[c]
      BY <1>4
    <3>. QED
      BY <1>2, <1>3, <3>1 DEF AtType, Is, Cut
  <2>7. \A n \in Nat : AtData(cli[c], c, n) => AtData(k, c, n)
    <3>. SUFFICES ASSUME NEW n \in Nat, AtData(cli[c], c, n) PROVE AtData(k, c, n)
      OBVIOUS
    <3>1. cli[c].sent = n + 1 => n < Blocks[c]
      BY <1>4
    <3>. QED
      BY <1>2, <1>3, <3>1 DEF AtData, Is, Cut
  <2>8. \A n \in Nat : \A item : AtStore(cli[c], c, n, item) => AtStore(k, c, n, item)
    BY <1>2, <1>3, <1>4 DEF AtStore, Cut, Quiet
  <2>9. AtEnd(cli[c]) => AtEnd(k)
    BY <1>2, <1>3 DEF AtEnd
  <2>. QED
    BY <2>1, <2>2, <2>3, <2>4, <2>5, <2>6, <2>7, <2>8, <2>9 DEF Follows
<1>. QED
  BY <1>2, <1>3, <1>5, ClientKeeps

LEMMA ConnectKeeps ==
    ASSUME Types, PromptParts, UNCHANGED scene, NEW c \in Clients, Connect(c)
    PROVE  PromptParts'
<1>1. /\ cli[c].pc = "start" /\ UNCHANGED <<srv, thr, open, response, disk>>
      /\ ~Under(c) /\ cli[c].sent = 0 /\ cli[c].up = <<>> /\ cli[c].down = <<>>
  BY DEF Connect, PromptParts, Wiring, Quiet
<1>2. PICK pc \in {"info", "failed"} :
        /\ cli' = [cli EXCEPT ![c].pc = pc]
        /\ pc = "info" => srv.on /\ pending' = Append(pending, c)
        /\ pc = "failed" => pending' = pending
  BY DEF Connect
<1>3. PICK k : k = [cli[c] EXCEPT !.pc = pc]
  OBVIOUS
<1>4. k.pc = pc /\ k.sent = 0 /\ k.up = <<>> /\ k.down = <<>>
  BY <1>1, <1>3, PcSet
<1>5. cli'[c] = k /\ \A d \in Clients \ {c} : cli'[d] = cli[d]
  BY <1>2, <1>3 DEF Types, TypeOK
<1>6. /\ pending \in Seq(Clients) /\ IsInjective(pending) /\ c \notin ToSet(pending)
      /\ c \notin open /\ \A d \in ToSet(pending) : d \notin open
  BY <1>1 DEF Types, TypeOK, PromptParts, Wiring, Under
<1>7. /\ IsInjective(pending') /\ \A d \in ToSet(pending') : d \notin open'
      /\ \A d \in Clients \ {c} : Under(d)' <=> Under(d)
      /\ pc = "failed" => ~Under(c)'
  <2>1. CASE pc = "info"
    <3>1. /\ IsInjective(pending')
          /\ \A d : d \in ToSet(pending') <=> d = c \/ d \in ToSet(pending)
      BY <1>2, <1>6, <2>1, AppendApart
    <3>. QED
      BY <1>1, <1>6, <2>1, <3>1 DEF Under
  <2>2. CASE pc = "failed"
    BY <1>1, <1>2, <1>6, <2>2 DEF Under
  <2>. QED
    BY <2>1, <2>2
<1>8. \A t \in Threads : /\ Live(t)' <=> Live(t)
                         /\ Live(t) => thr[t].sock \in Clients \cap open /\ thr[t].sock # c
  BY <1>1, <1>6 DEF Live, PromptParts, Wiring
<1>9. Wiring'
  <2>1. \A d \in Clients : cli'[d].pc = "start" =>
           ~Under(d)' /\ cli'[d].sent = 0 /\ Quiet(cli[d])'
    <3>. SUFFICES ASSUME NEW d \in Clients, cli'[d].pc = "start"
                  PROVE  ~Under(d)' /\ cli'[d].sent = 0 /\ Quiet(cli[d])'
      OBVIOUS
    <3>1. d # c /\ cli'[d] = cli[d]
      BY <1>4, <1>5
    <3>2. ~Under(d)' /\ cli[d].sent = 0 /\ cli[d].up = <<>> /\ cli[d].down = <<>>
      BY <1>7, <3>1 DEF PromptParts, Wiring, Quiet
    <3>. QED
      BY <3>1, <3>2 DEF Quiet
  <2>2. ~srv'.on => pending' = <<>>
    BY <1>1, <1>2 DEF PromptParts, Wiring
  <2>3. Handing' <=> Handing
    BY <1>1 DEF Handing, Threads
  <2>4. Handing => srv.accept_socket \in Clients \cap open /\ Unserved(srv.accept_socket)
    BY DEF PromptParts, Wiring
  <2>5. Handing' => srv'.accept_socket \in Clients \cap open' /\ Unserved(srv.accept_socket)'
    BY <1>1, <2>3, <2>4 DEF Unserved, Under, Serves, Live, Threads
  <2>. QED
    BY <1>1, <1>7, <1>8, <2>1, <2>2, <2>5 DEF PromptParts, Wiring, Threads
<1>10. Fresh(c)
  BY <1>1 DEF Fresh
<1>11. Unserved(c)' => Opening(k)
  <2>1. Unserved(c)' => k.pc = "info"
    BY <1>2, <1>4, <1>7 DEF Unserved
  <2>. QED
    BY <1>4, <2>1 DEF Opening, Is
<1>12. \A t \in Threads : ~Serves(t, c)
  BY <1>8 DEF Serves
<1>. QED
  BY <1>1, <1>2, <1>4, <1>5, <1>7, <1>9, <1>10, <1>11, <1>12, ClientMovesKeep

LEMMA ClientStepKeeps ==
    ASSUME Types, PromptParts, UNCHANGED scene, NEW c \in Clients,
           Connect(c) \/ ClientStep(c) \/ KillClient(c)
    PROVE  PromptParts'
  BY ConnectKeeps, SendInfoTypeKeeps, SendInfoKeeps, AnswerKeeps, SendBlockTypeKeeps,
     SendBlockKeeps, SourceEndsKeeps, SayByeKeeps, KillClientKeeps
     DEF ClientStep, InfoAnswered, BlockAnswered
-----------------------------------------------------------------------------
(* The inductive invariant.                                                *)

LEMMA InvInit == Init => ThreadInv
<1>. SUFFICES ASSUME Init PROVE ThreadInv
  OBVIOUS
<1>1. /\ scene \in Scenes /\ scene \in SceneType
      /\ srv = [on |-> FALSE, bound |-> FALSE, starts |-> 0, main |-> "accept",
                accept_socket |-> Nobody]
      /\ open = {} /\ response = "SUCCESS" /\ pending = <<>>
      /\ cli = [c \in Clients |-> [pc |-> "start", resp |-> "SUCCESS", sent |-> 0,
                                   up |-> <<>>, down |-> <<>>]]
      /\ disk = [f \in Existing |-> <<Piece(Nobody, NoBytes)>>]
  BY ThreadCopyAssumption DEF Init
<1>2. /\ thr \in [Threads -> ThreadState] /\ \A t \in Threads : thr[t].pc = "none"
  BY NewThread DEF Init
<1>3. /\ \A t \in Threads : ~Live(t) /\ ~Past(t) /\ thr[t].pc # "arg"
      /\ \A c \in Clients : ~Under(c) /\ ~Unserved(c)
  BY <1>1, <1>2 DEF Live, Past, Under, Unserved, ToSet
<1>4. ~Handing
  BY <1>1, <1>3 DEF Handing
<1>5. \A c \in Clients : cli[c].pc = "start" /\ cli[c].sent = 0 /\ Quiet(cli[c])
  BY <1>1 DEF Quiet
<1>6. Existing \subseteq Files /\ \A c \in Clients : Blocks[c] \in Nat
  BY <1>1 DEF SceneType, Existing, Blocks
<1>7. Types
  <2>1. cli \in [Clients -> Client]
    <3>1. <<>> \in Seq(Units)
      OBVIOUS
    <3>2. <<>> \in Seq(Answers)
      OBVIOUS
    <3>. QED
      BY <1>1, <3>1, <3>2 DEF Client, Answers
  <2>2. disk \in [DOMAIN disk -> Seq(Pieces)] /\ DOMAIN disk = Existing
    <3>1. Piece(Nobody, NoBytes) \in Pieces
      BY UnitTypes DEF Piece, Pieces
    <3>2. PICK s : s = <<Piece(Nobody, NoBytes)>>
      OBVIOUS
    <3>3. s \in Seq(Pieces)
      BY <3>1, <3>2
    <3>4. disk = [f \in Existing |-> s]
      BY <1>1, <3>2
    <3>. QED
      BY <3>3, <3>4
  <2>3. srv \in Process /\ srv.starts <= scene.starts /\ scene.starts \in Nat
    BY <1>1 DEF Process, SceneType
  <2>4. pending \in Seq(Clients)
    BY <1>1
  <2>. QED
    BY <1>1, <1>2, <1>3, <1>4, <1>5, <1>6, <2>1, <2>2, <2>3, <2>4 DEF Types, TypeOK, Answers
<1>8. MixInv
  <2>1. \A f \in DOMAIN disk : disk[f] = <<Piece(Nobody, NoBytes)>>
    BY <1>1
  <2>. QED
    BY <1>3, <2>1 DEF MixInv, OneWriter, OneSource
<1>9. Wiring
  <2>1. IsInjective(pending) /\ ToSet(pending) = {}
    BY <1>1 DEF IsInjective, ToSet
  <2>. QED
    BY <1>1, <1>2, <1>3, <1>4, <1>5, <2>1 DEF Wiring
<1>10. Talking /\ Kept
  BY <1>1, <1>3 DEF Talking, Kept
<1>11. DiskOK
  BY <1>1 DEF DiskOK, Stored
<1>12. Good
  <2>1. \A c \in Clients : cli[c].pc # "done"
    BY <1>5
  <2>2. NoErrors => DOMAIN disk = {}
    BY <1>1 DEF NoErrors
  <2>. QED
    BY <2>1, <2>2 DEF Good
<1>. QED
  BY <1>7, <1>8, <1>9, <1>10, <1>11, <1>12 DEF ThreadInv, PromptInv, PromptParts

LEMMA PromptNext ==
    ASSUME Types, MixInv, PromptInv, Step, UNCHANGED scene
    PROVE  PromptInv'
<1>. SUFFICES ASSUME scene.prompt PROVE PromptParts'
  BY DEF PromptInv
<1>1. PromptParts
  BY DEF PromptInv
<1>2. CASE StartServer \/ Sigint \/ Accept \/ Create
  BY <1>1, <1>2, StartServerKeeps, AcceptKeeps, CreateKeeps, DiesKeeps DEF Sigint
<1>3. ASSUME NEW t \in Threads, ThreadStep(t) PROVE PromptParts'
  BY <1>1, <1>3, ThreadStepKeeps
<1>4. ASSUME NEW c \in Clients, Connect(c) \/ ClientStep(c) \/ KillClient(c)
      PROVE  PromptParts'
  BY <1>1, <1>4, ClientStepKeeps
<1>. QED
  BY <1>2, <1>3, <1>4 DEF Step

LEMMA InvNext == ThreadInv /\ [Next]_vars => ThreadInv'
<1>. SUFFICES ASSUME ThreadInv, [Next]_vars PROVE ThreadInv'
  OBVIOUS
<1>1. Types /\ MixInv /\ PromptInv
  BY DEF ThreadInv
<1>2. CASE Next
  <2>1. Step /\ UNCHANGED scene
    BY <1>2 DEF Next
  <2>2. Types'
    <3>1. ASSUME NEW t \in Threads, ThreadStep(t) PROVE Types'
      BY <1>1, <2>1, <3>1, ThreadStepKeepsTypes
    <3>2. ASSUME NEW c \in Clients, Connect(c) \/ ClientStep(c) \/ KillClient(c) PROVE Types'
      BY <1>1, <2>1, <3>2, ClientStepKeepsTypes
    <3>. QED
      BY <1>1, <2>1, <3>1, <3>2, ServerKeepsTypes DEF Step
  <2>. QED
    BY <1>1, <2>1, <2>2, MixNext, PromptNext DEF ThreadInv
<1>3. CASE UNCHANGED vars
  <2>1. UNCHANGED <<srv, thr, open, response, pending, cli, disk, scene>>
    BY <1>3 DEF vars, moving
  <2>2. Types'
    BY <1>1, <2>1 DEF Types, TypeOK, Handing, Live, Threads, Blocks, Existing
  <2>3. MixInv'
    BY <1>1, <2>1, MixStays DEF Past
  <2>4. ASSUME PromptParts PROVE PromptParts'
    <3>1. Wiring'
      BY <2>1, <2>4
         DEF PromptParts, Wiring, Handing, Unserved, Serves, Live, Under, Quiet, Threads
    <3>2. Kept'
      BY <2>1, <2>4
         DEF PromptParts, Kept, Handed, Handing, Held, Serves, Live, Past, Fault, Threads
    <3>3. /\ \A t \in Threads : (Live(t)' <=> Live(t)) /\ thr'[t] = thr[t]
          /\ \A d \in Clients : Under(d)' <=> Under(d)
      BY <2>1 DEF Live, Under
    <3>. QED
      BY <1>1, <2>1, <2>4, <3>1, <3>2, <3>3, ServerKeeps
  <2>. QED
    BY <1>1, <2>1, <2>2, <2>3, <2>4 DEF ThreadInv, PromptInv
<1>. QED
  BY <1>2, <1>3

THEOREM InvAlways == Spec => []ThreadInv
<1>1. Init => ThreadInv
  BY InvInit
<1>2. ThreadInv /\ [Next]_vars => ThreadInv'
  BY InvNext
<1>. QED
  BY <1>1, <1>2, PTL DEF Spec
-----------------------------------------------------------------------------
\* No file ever holds blocks of two clients, whatever is killed and however the
\* threads' arguments get mixed up: open() has O_EXCL, and a thread reads from
\* the socket it took first (thread_function of server.c).
THEOREM FilesUnmixed == Spec => []NoMixing
<1>1. ThreadInv => NoMixing
  <2>. SUFFICES ASSUME ThreadInv, NEW f \in DOMAIN disk
                PROVE  Cardinality({disk[f][i].from : i \in DOMAIN disk[f]}) <= 1
    BY DEF NoMixing
  <2>. DEFINE S == {disk[f][i].from : i \in DOMAIN disk[f]}
  <2>1. \A x, y \in S : x = y
    BY DEF ThreadInv, MixInv, OneSource
  <2>. HIDE DEF S
  <2>2. S = {} \/ \E x : S = {x}
    BY <2>1
  <2>3. Cardinality(S) = 0 \/ Cardinality(S) = 1
    BY <2>2, FS_EmptySet, FS_Singleton
  <2>4. Cardinality(S) <= 1
    BY <2>3
  <2>. QED
    BY <2>4 DEF S
<1>. QED
  BY <1>1, InvAlways, PTL

\* A file the server creates holds the first blocks of one client that asked for
\* it, each once and in order, and a file that existed is never touched, whoever
\* is killed (O_EXCL, the loop of read and write in thread_function, and the
\* client that waits for each answer). A block is short only where a full disk
\* cut off a write(), which the server does not look for.
THEOREM FilesInOrder == Spec => []FilesFaithful
<1>1. ThreadInv => FilesFaithful
  <2>. SUFFICES ASSUME ThreadInv, scene.prompt, NEW f \in DOMAIN disk
                PROVE  IF f \in Existing THEN disk[f] = <<Piece(Nobody, NoBytes)>>
                       ELSE \E c \in Clients :
                               /\ Dest[c] = f /\ Len(disk[f]) <= Blocks[c]
                               /\ \A i \in DOMAIN disk[f] :
                                    \/ disk[f][i] = Whole(c)[i]
                                    \/ Fault("disk") /\ disk[f][i] = Piece(c, Torn(Unit("data", i)))
    BY DEF FilesFaithful
  <2>1. Stored(f) /\ disk[f] \in Seq(Pieces)
    BY DEF ThreadInv, PromptInv, PromptParts, DiskOK, Types, TypeOK
  <2>2. CASE f \notin Existing
    <3>1. PICK c \in Clients : Dest[c] = f /\ \E n \in 0..Blocks[c] : PartOf(disk[f], c, n)
      BY <2>1, <2>2 DEF Stored
    <3>2. PICK n \in 0..Blocks[c] : PartOf(disk[f], c, n)
      BY <3>1
    <3>3. Blocks[c] \in Nat
      BY SceneTypes DEF ThreadInv
    <3>4. Len(disk[f]) = n /\ DOMAIN disk[f] = 1..n /\ n <= Blocks[c]
      BY <2>1, <3>2, <3>3 DEF PartOf
    <3>5. ASSUME NEW i \in 1..n
          PROVE  \/ disk[f][i] = Whole(c)[i]
                 \/ Fault("disk") /\ disk[f][i] = Piece(c, Torn(Unit("data", i)))
      <4>1. disk[f][i] \in {Piece(c, Unit("data", i)), Piece(c, Torn(Unit("data", i)))}
        BY <3>2 DEF PartOf, Data
      <4>2. Whole(c)[i] = Piece(c, Unit("data", i))
        BY <3>2, <3>3 DEF Whole
      <4>3. Piece(c, Torn(Unit("data", i))).data.kind = "torn"
        BY DEF Piece, Torn, Unit
      <4>4. ~Fault("disk") => disk[f][i].data.kind # "torn"
        BY <2>1, <2>2, <3>4 DEF Stored
      <4>. QED
        BY <4>1, <4>2, <4>3, <4>4
    <3>. QED
      BY <2>2, <3>1, <3>4, <3>5
  <2>. QED
    BY <2>1, <2>2 DEF Stored
<1>. QED
  BY <1>1, InvAlways, PTL

\* When nobody can be refused, a client that has sent all its blocks and ended
\* has its file at the server, complete, whoever else is killed and however
\* often the server is started (the answer to each block in server.c, and the
\* client that reads it before it goes on).
THEOREM DoneIsCopied == Spec => []CopiedUnlessRefused
<1>1. ThreadInv => CopiedUnlessRefused
  BY DEF ThreadInv, PromptInv, PromptParts, Good, Copied, CopiedUnlessRefused, SuccessMeansCopied
<1>. QED
  BY <1>1, InvAlways, PTL

\* When nothing fails, every descriptor in use is of a thread at work or of a
\* connection on its way to one: thread_function closes its file and its socket
\* at its end, and the socket when it ends early. With it, every variable has
\* its type.
THEOREM DescriptorsClosed == Spec => []NothingLeaks
<1>1. ThreadInv => NothingLeaks
  <2>. SUFFICES ASSUME ThreadInv PROVE NothingLeaks
    OBVIOUS
  <2>1. Types /\ TypeOK
    BY DEF ThreadInv, Types
  <2>2. ASSUME scene.prompt, scene.faults = {}, NEW x \in open
        PROVE  \/ \E t \in Threads : x \in {thr[t].sock, thr[t].name}
               \/ x = srv.accept_socket /\ Handing
    <3>1. Kept /\ x \in Clients \cup Files
      BY <2>1, <2>2 DEF ThreadInv, PromptInv, PromptParts, TypeOK
    <3>2. CASE x \in Clients
      <4>1. Handed(x)
        BY <2>2, <3>1, <3>2 DEF Kept, Fault
      <4>. QED
        BY <4>1 DEF Handed, Serves
    <3>3. CASE x \in Files
      <4>1. Held(x)
        BY <2>2, <3>1, <3>3 DEF Kept
      <4>. QED
        BY <4>1 DEF Held
    <3>. QED
      BY <3>1, <3>2, <3>3
  <2>. QED
    BY <2>1, <2>2 DEF NothingLeaks, Handing
<1>. QED
  BY <1>1, InvAlways, PTL

\* Without a killed client no thread writes to a client that has gone, so no
\* SIGPIPE ends the server: its exit handlers run, and the socket file exists
\* exactly while it does (atexit and sigaction in server.c).
THEOREM PathIsServers == Spec => []PathFollowsServer
<1>1. ThreadInv => PathFollowsServer
  <2>. SUFFICES ASSUME ThreadInv, scene.prompt, ~Fault("kill")
                PROVE  /\ \A t \in Threads : thr[t].pc = "write" /\ thr[t].sock \in open
                                                => ClientOpen(thr[t].sock)
                       /\ srv.on = srv.bound
    BY DEF PathFollowsServer
  <2>1. Types /\ PromptParts
    BY DEF ThreadInv, PromptInv
  <2>2. ASSUME NEW t \in Threads, thr[t].pc = "write" PROVE ClientOpen(thr[t].sock)
    <3>1. PICK c : c = thr[t].sock
      OBVIOUS
    <3>2. Live(t)
      BY <2>2 DEF Live
    <3>3. thr[t].next \in {"type", "exit", "finish"}
      BY <2>1, ThreadTypes
    <3>4. \A n : AtAnswer(cli[c], n) \/ AtRefuse(cli[c]) => cli[c].pc \in {"wait", "ack"}
      BY DEF AtAnswer, AtRefuse, Cut
    <3>5. CASE Past(t)
      <4>1. PICK n : Speaks(thr[t], cli[c], c, n)
        BY <2>1, <3>1, <3>2, <3>5, TalkIs
      <4>2. thr[t].next # "exit"
        BY <2>2, <3>5 DEF Past
      <4>3. AtAnswer(cli[c], n) \/ AtRefuse(cli[c])
        BY <2>2, <3>3, <4>1, <4>2 DEF Speaks
      <4>. QED
        BY <3>1, <3>4, <4>3 DEF ClientOpen
    <3>6. CASE ~Past(t)
      <4>1. Begins(thr[t], cli[c], c)
        BY <2>1, <3>1, <3>2, <3>6, TalkIs
      <4>2. AtRefuse(cli[c])
        BY <2>2, <4>1 DEF Begins
      <4>. QED
        BY <3>1, <3>4, <4>2 DEF ClientOpen
    <3>. QED
      BY <3>5, <3>6
  <2>. QED
    BY <2>1, <2>2 DEF PromptParts, Kept
<1>. QED
  BY <1>1, InvAlways, PTL
=============================================================================
