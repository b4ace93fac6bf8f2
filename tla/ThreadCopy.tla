----------------------------- MODULE ThreadCopy -----------------------------
(***************************************************************************)
(* 12-multi-thread-copy: clients send files over a Unix stream socket, the *)
(* server's main thread accepts them and starts one detached thread each.  *)
(*                                                                         *)
(* The server's threads share main's variable accept_socket (each new      *)
(* thread gets its ADDRESS), the static response of send_response, the     *)
(* descriptors, and the process, which one SIGPIPE ends for all.           *)
(*                                                                         *)
(* A stream holds what each write() put there as one unit: the int of a    *)
(* message type, the file information, or one block. Descriptors are named *)
(* by what they refer to, a connection or a file; that a closed number is  *)
(* given out again is left out.                                            *)
(***************************************************************************)
EXTENDS Naturals, FiniteSets, Sequences, SequencesExt

CONSTANTS
    Clients,     \* the client programs, each run once; also their connections
    Files,       \* the file names at the server
    Scenes       \* the situations the programs are run in

\* dest      the destination each client asks for
\* blocks    the number of blocks of each client's source file
\* existing  the files that exist before the server starts
\* maxFd     the descriptors the server may have besides its own
\* backlog   the argument of listen() (5 in the code)
\* starts    how often the user starts the server
\* prompt    a new thread has read its argument before main accepts the next
\*           client (a matter of timing; no code waits for it)
\* faults    what may go wrong: a client is killed, the server gets SIGINT, the
\*           disk fails, pthread_create fails
SceneType == [dest : [Clients -> Files], blocks : [Clients -> Nat],
              existing : SUBSET Files, maxFd : Nat, backlog : Nat, starts : Nat,
              prompt : BOOLEAN,
              faults : SUBSET {"kill", "sigint", "disk", "nothread"}]

Nobody == "nobody"

ASSUME ThreadCopyAssumption ==
    /\ IsFiniteSet(Clients) /\ Clients \cap Files = {}
    /\ Nobody \notin Clients /\ "" \notin Clients \cup Files
    /\ Scenes \subseteq SceneType

VARIABLES
    srv,         \* the process: running, socket file bound, number of starts,
                 \* what main does, its variable accept_socket
    thr,         \* the threads, in the order of their creation
    open,        \* the connections and files the server has a descriptor for
    response,    \* the type in send_response's static variable
    pending,     \* the connections waiting for accept()
    cli,         \* the clients: place, type of the last response, blocks sent,
                 \* the stream up to the server and the stream down from it
    disk,        \* the files that exist, each with what every write() put there
    scene        \* chosen once

moving == <<srv, thr, open, response, pending, cli, disk>>
vars == <<moving, scene>>

Dest == scene.dest
Blocks == scene.blocks
Existing == scene.existing
Fault(kind) == kind \in scene.faults

Threads == 1..Cardinality(Clients)
MsgTypes == {"INFO", "BLOCK", "BYE"}
Answers == {"SUCCESS", "ERROR"}
AnyInt == MsgTypes \cup {"other"}          \* what four arbitrary bytes may say
Unit(k, n) == [kind |-> k, blk |-> n]      \* what a stream holds
Torn(u) == Unit("torn", u.blk)             \* part of it: of a read or a short write
NoBytes == Unit("none", 0)
Piece(c, u) == [from |-> c, data |-> u]    \* what a file holds
Units == [kind : MsgTypes \cup {"finfo", "data", "torn", "none"}, blk : Nat]
Pieces == [from : Clients \cup {Nobody}, data : Units]

Thread(pc, sock) == [pc |-> pc, sock |-> sock, msgt |-> "other", name |-> "",
                     item |-> NoBytes, resp |-> "SUCCESS", next |-> "exit"]

Process == [on : BOOLEAN, bound : BOOLEAN, starts : Nat, main : {"accept", "create"},
            accept_socket : Clients \cup {Nobody}]
ThreadState ==
    [pc : {"none", "arg", "type0", "finfo", "open", "type", "data", "store", "send",
           "write", "exit", "finish", "end"},
     sock : Clients \cup {Nobody}, msgt : AnyInt, name : Files \cup {""}, item : Units,
     resp : Answers, next : {"type", "exit", "finish"}]
Client ==
    [pc : {"start", "info", "finfo", "wait", "next", "data", "ack", "bye", "done",
           "failed", "killed"},
     resp : Answers, sent : Nat, up : Seq(Units), down : Seq(Answers)]

TypeOK ==
    /\ scene \in Scenes
    /\ srv \in Process /\ srv.starts <= scene.starts
    /\ thr \in [Threads -> ThreadState]
    /\ open \subseteq Clients \cup Files
    /\ response \in Answers
    /\ pending \in Seq(Clients)
    /\ cli \in [Clients -> Client] /\ \A c \in Clients : cli[c].sent <= Blocks[c]
    /\ disk \in [DOMAIN disk -> Seq(Pieces)]
    /\ Existing \subseteq DOMAIN disk /\ DOMAIN disk \subseteq Files

Init ==
    /\ scene \in Scenes
    /\ srv = [on |-> FALSE, bound |-> FALSE, starts |-> 0, main |-> "accept",
              accept_socket |-> Nobody]
    /\ thr = [t \in Threads |-> Thread("none", Nobody)]
    /\ open = {}
    /\ response = "SUCCESS"
    /\ pending = <<>>
    /\ cli = [c \in Clients |-> [pc |-> "start", resp |-> "SUCCESS", sent |-> 0,
                                 up |-> <<>>, down |-> <<>>]]
    /\ disk = [f \in Existing |-> <<Piece(Nobody, NoBytes)>>]

ClientOpen(c) == cli[c].pc \notin {"start", "done", "failed", "killed"}

ReadPcs == {"type0", "finfo", "type", "data"}
Reads(t, c) == thr[t].pc \in ReadPcs /\ thr[t].sock = c

\* The server's end of the connection: waiting for accept(), open, or in use by
\* a read() that began before another thread closed the descriptor.
ServerOpen(c) == \/ c \in ToSet(pending) \cup open
                 \/ \E t \in Threads : Reads(t, c)

MoreFds == Cardinality(open) < scene.maxFd
-----------------------------------------------------------------------------
(* The server process and its main thread. *)

\* socket, bind, listen, exit handlers. bind() fails, and the server exits,
\* when the socket file of an earlier server is still there.
StartServer ==
    /\ ~srv.on /\ srv.starts < scene.starts
    /\ srv' = [srv EXCEPT !.on = ~srv.bound, !.bound = TRUE, !.starts = @ + 1]
    /\ UNCHANGED <<thr, open, response, pending, cli, disk>>

\* A slip: the socket file is not removed.
DiesUntidy(handlersRun) ==
    /\ srv' = [srv EXCEPT !.on = FALSE, !.main = "accept", !.accept_socket = Nobody]
    /\ thr' = [t \in Threads |-> Thread("none", Nobody)]
    /\ open' = {} /\ response' = "SUCCESS" /\ pending' = <<>>
    /\ UNCHANGED <<cli, disk>>

\* The end of the process takes its threads, descriptors and waiting clients
\* along. exit() runs the handlers, which remove the socket file; the default
\* action of a signal does not.
Dies(handlersRun) ==
    /\ srv' = [srv EXCEPT !.on = FALSE, !.bound = @ /\ ~handlersRun,
                          !.main = "accept", !.accept_socket = Nobody]
    /\ thr' = [t \in Threads |-> Thread("none", Nobody)]
    /\ open' = {}
    /\ response' = "SUCCESS"
    /\ pending' = <<>>
    /\ UNCHANGED <<cli, disk>>

Sigint == Fault("sigint") /\ srv.on /\ Dies(TRUE)

\* accept() stores into accept_socket, whoever still has its address; when it
\* fails for want of a descriptor, main exits.
Accept ==
    /\ srv.on /\ srv.main = "accept" /\ pending # <<>>
    /\ scene.prompt => \A t \in Threads : thr[t].pc # "arg"
    /\ \/ /\ MoreFds
          /\ srv' = [srv EXCEPT !.main = "create", !.accept_socket = Head(pending)]
          /\ open' = open \cup {Head(pending)}
          /\ pending' = Tail(pending)
          /\ UNCHANGED <<thr, response, cli, disk>>
       \/ ~MoreFds /\ Dies(TRUE)

\* pthread_create passes &accept_socket. Its errors are positive numbers, which
\* main takes for success: then the connection stays without a thread.
Create ==
    /\ srv.on /\ srv.main = "create"
    /\ srv' = [srv EXCEPT !.main = "accept"]
    /\ \/ \E t \in Threads :
             /\ thr[t].pc = "none" /\ \A u \in Threads : u < t => thr[u].pc # "none"
             /\ thr' = [thr EXCEPT ![t] = Thread("arg", Nobody)]
       \/ Fault("nothread") /\ UNCHANGED thr
    /\ UNCHANGED <<open, response, pending, cli, disk>>
-----------------------------------------------------------------------------
(* thread_function: the steps of thread t. *)

Becomes(t, th) == thr' = [thr EXCEPT ![t] = th] /\ UNCHANGED <<srv, pending>>

\* socket = *argument: whatever accept_socket is by now.
TakeArgument(t) ==
    /\ thr[t].pc = "arg"
    /\ Becomes(t, Thread("type0", srv.accept_socket))
    /\ UNCHANGED <<open, response, cli, disk>>

\* The end of a thread. pthread_exit closes the socket only; after the loop the
\* file is closed as well.
Ends(t, closed) == /\ open' = open \ closed
                   /\ Becomes(t, Thread("end", Nobody))
                   /\ UNCHANGED <<response, disk>>

\* A read fails: EBADF after another thread closed the descriptor, or, once,
\* ECONNRESET when the client went away with responses unread.
ReadFails(t) ==
    /\ thr[t].pc \in ReadPcs
    /\ LET c == thr[t].sock IN
       \/ c \notin open /\ UNCHANGED cli
       \/ /\ cli[c].up = <<>> /\ ~ClientOpen(c) /\ cli[c].down # <<>>
          /\ cli' = [cli EXCEPT ![c].down = <<>>]
    /\ Ends(t, {thr[t].sock})

AtEof(c) == cli[c].up = <<>> /\ ~ClientOpen(c) /\ cli[c].down = <<>>

\* What read(socket, &msgt, sizeof(int)) may give, and what it leaves in the
\* stream: a type; the first bytes of something longer (a file name is no type,
\* file data may be any); at the end of the stream msgt keeps its value, which
\* at a thread's first read is whatever its stack holds.
IntReads(t) ==
    LET c == thr[t].sock
        up == cli[c].up IN
    IF up = <<>> THEN (IF ~AtEof(c) THEN {} ELSE IF thr[t].pc = "type0" THEN AnyInt
                       ELSE {thr[t].msgt}) \X {<<>>}
    ELSE IF up[1].kind \in MsgTypes THEN {<<up[1].kind, Tail(up)>>}
    ELSE (IF up[1].kind = "finfo" THEN {"other"} ELSE AnyInt)
           \X {Tail(up), <<Torn(up[1])>> \o Tail(up)}

AfterType(pc, v) ==
    CASE pc = "type0"                 -> IF v = "INFO" THEN "finfo" ELSE "exit"
      [] pc = "type" /\ v = "BYE"     -> "finish"
      [] pc = "type" /\ v = "BLOCK"   -> "data"
      [] OTHER                        -> "type"

ReadType(t) ==
    /\ thr[t].pc \in {"type0", "type"}
    /\ \E got \in IntReads(t) :
          /\ Becomes(t, [thr[t] EXCEPT !.msgt = got[1],
                                       !.pc = AfterType(thr[t].pc, got[1])])
          /\ cli' = [cli EXCEPT ![thr[t].sock].up = got[2]]
    /\ UNCHANGED <<open, response, disk>>

\* Reading the file information or a block takes all there is.
TakeAll(c) == (cli[c].up # <<>> \/ AtEof(c)) /\ cli' = [cli EXCEPT ![c].up = <<>>]

\* finfo is zero beforehand: at the end of the stream the name stays empty. A
\* torn one gives some other name.
Names(c) == IF cli[c].up = <<>> THEN {""}
            ELSE IF cli[c].up = <<Unit("finfo", 0)>> THEN {Dest[c]} ELSE Files \cup {""}

ReadInfo(t) ==
    /\ thr[t].pc = "finfo"
    /\ TakeAll(thr[t].sock)
    /\ \E f \in Names(thr[t].sock) :
          Becomes(t, [thr[t] EXCEPT !.name = f, !.pc = "open"])
    /\ UNCHANGED <<open, response, disk>>

\* The call send_response(r, socket), after which the thread goes to next.
Sends(t, r, next) ==
    Becomes(t, [thr[t] EXCEPT !.pc = "send", !.resp = r, !.next = next,
                                 !.item = NoBytes])

\* A slip: open() without O_EXCL.
OpenFileShared(t) ==
    /\ thr[t].pc = "open"
    /\ IF thr[t].name = "" \/ ~MoreFds
       THEN Sends(t, "ERROR", "exit") /\ UNCHANGED <<open, disk>>
       ELSE /\ disk' = disk @@ (thr[t].name :> <<>>)
            /\ open' = open \cup {thr[t].name}
            /\ Sends(t, "SUCCESS", "type")
    /\ UNCHANGED <<response, cli>>

\* open(O_CREAT | O_EXCL) and ftruncate(); when ftruncate fails the new file and
\* its descriptor stay behind.
OpenFile(t) ==
    /\ thr[t].pc = "open"
    /\ LET f == thr[t].name IN
       \/ /\ f \in DOMAIN disk \cup {""} \/ ~MoreFds
          /\ Sends(t, "ERROR", "exit")
          /\ UNCHANGED <<open, disk>>
       \/ /\ f \notin DOMAIN disk \cup {""} /\ MoreFds
          /\ disk' = [g \in DOMAIN disk \cup {f} |-> IF g = f THEN <<>> ELSE disk[g]]
          /\ open' = open \cup {f}
          /\ \/ Sends(t, "SUCCESS", "type")
             \/ Fault("disk") /\ Sends(t, "ERROR", "exit")
    /\ UNCHANGED <<response, cli>>

\* send_response: first the static variable takes the type ...
SetResponse(t) ==
    /\ thr[t].pc = "send"
    /\ response' = thr[t].resp
    /\ Becomes(t, [thr[t] EXCEPT !.pc = "write"])
    /\ UNCHANGED <<open, cli, disk>>

\* ... then write() sends the variable, as it is by now. Writing to a client
\* that has gone raises SIGPIPE; to a closed descriptor, EBADF.
WriteResponse(t) ==
    /\ thr[t].pc = "write"
    /\ LET c == thr[t].sock IN
       \/ /\ c \in open /\ ClientOpen(c)
          /\ cli' = [cli EXCEPT ![c].down = Append(@, response)]
          /\ Becomes(t, [thr[t] EXCEPT !.pc = thr[t].next])
          /\ UNCHANGED <<open, response, disk>>
       \/ c \in open /\ ~ClientOpen(c) /\ Dies(FALSE)
       \/ c \notin open /\ Ends(t, {}) /\ UNCHANGED cli

\* read(socket, &fdata, BLOCK_SIZE): a block, or nothing at the end.
ReadData(t) ==
    /\ thr[t].pc = "data"
    /\ LET up == cli[thr[t].sock].up IN
       Becomes(t, [thr[t] EXCEPT !.pc = "store",
                                 !.item = IF up = <<>> THEN NoBytes ELSE up[1]])
    /\ TakeAll(thr[t].sock)
    /\ UNCHANGED <<open, response, disk>>

\* A slip: a block is stored and not answered.
StoreSilent(t) ==
    /\ thr[t].pc = "store"
    /\ disk' = [disk EXCEPT ![thr[t].name] = Append(@, Piece(thr[t].sock, thr[t].item))]
    /\ Becomes(t, [thr[t] EXCEPT !.pc = "type", !.item = NoBytes])
    /\ UNCHANGED <<open, response, cli>>

Put(t, unit) == disk' = [disk EXCEPT ![thr[t].name] = Append(@, Piece(thr[t].sock, unit))]

\* write(filefd, &fdata, bytesRead) and the answer. Writing 0 bytes succeeds; a
\* full disk makes write() fail, or write a part, which passes for a success:
\* the next block follows right after it.
Store(t) ==
    /\ thr[t].pc = "store"
    /\ \/ /\ IF thr[t].item = NoBytes THEN UNCHANGED disk
              ELSE Put(t, thr[t].item) \/ (Fault("disk") /\ Put(t, Torn(thr[t].item)))
          /\ Sends(t, "SUCCESS", "type")
       \/ Fault("disk") /\ Sends(t, "ERROR", "finish") /\ UNCHANGED disk
    /\ UNCHANGED <<open, response, cli>>

\* A slip: the file is not closed.
ThreadEndsOpen(t) ==
    /\ thr[t].pc \in {"exit", "finish"} /\ Ends(t, {thr[t].sock})
    /\ UNCHANGED cli

\* pthread_exit, or the end of the function.
ThreadEnds(t) ==
    /\ \/ thr[t].pc = "exit" /\ Ends(t, {thr[t].sock})
       \/ thr[t].pc = "finish" /\ Ends(t, {thr[t].name, thr[t].sock})
    /\ UNCHANGED cli

ThreadStep(t) ==
    \/ TakeArgument(t) \/ ReadFails(t) \/ ReadType(t) \/ ReadInfo(t) \/ OpenFile(t)
    \/ SetResponse(t) \/ WriteResponse(t) \/ ReadData(t) \/ Store(t) \/ ThreadEnds(t)
-----------------------------------------------------------------------------
(* The client: main of client.c and its exit handler. *)

\* connect(): refused without a server, blocks while the backlog is full.
Connect(c) ==
    /\ cli[c].pc = "start"
    /\ \/ /\ srv.on /\ Len(pending) <= scene.backlog
          /\ pending' = Append(pending, c)
          /\ cli' = [cli EXCEPT ![c].pc = "info"]
       \/ ~srv.on /\ cli' = [cli EXCEPT ![c].pc = "failed"] /\ UNCHANGED pending
    /\ UNCHANGED <<srv, thr, open, response, disk>>

ClientBecomes(c, new) ==
    cli' = [cli EXCEPT ![c] = new] /\ UNCHANGED <<srv, thr, open, response, pending, disk>>

\* write(sock_fd, ...): a closed connection ends the client by SIGPIPE.
Write(c, from, unit, to) ==
    /\ cli[c].pc = from
    /\ ClientBecomes(c, IF ServerOpen(c)
                        THEN [cli[c] EXCEPT !.pc = to, !.up = Append(@, unit)]
                        ELSE [cli[c] EXCEPT !.pc = "killed"])

\* read(sock_fd, &response, ...). At the end of the stream the old response is
\* looked at again; with bytes left unread by the server the read fails, and
\* the client exits. An ERROR is printed, and the client goes on all the same.
Read(c, from, to) ==
    /\ cli[c].pc = from
    /\ \/ /\ cli[c].down # <<>>
          /\ ClientBecomes(c, [cli[c] EXCEPT !.pc = to, !.resp = Head(cli[c].down),
                                             !.down = Tail(@)])
       \/ /\ cli[c].down = <<>> /\ ~ServerOpen(c)
          /\ ClientBecomes(c, [cli[c] EXCEPT !.pc = IF cli[c].up = <<>> THEN to ELSE "bye"])

\* A slip of the client: an answer is not waited for.
BlockUnanswered(c) == cli[c].pc = "ack" /\ ClientBecomes(c, [cli[c] EXCEPT !.pc = "next"])

SendInfoType(c) == Write(c, "info", Unit("INFO", 0), "finfo")
SendInfo(c) == Write(c, "finfo", Unit("finfo", 0), "wait")
InfoAnswered(c) == Read(c, "wait", "next")
SendBlockType(c) == cli[c].sent < Blocks[c] /\ Write(c, "next", Unit("BLOCK", 0), "data")
SendBlock(c) ==
    LET n == cli[c].sent + 1 IN
    /\ cli[c].pc = "data"
    /\ ClientBecomes(c, IF ServerOpen(c)
                        THEN [cli[c] EXCEPT !.pc = "ack", !.sent = n,
                                            !.up = Append(@, Unit("data", n))]
                        ELSE [cli[c] EXCEPT !.pc = "killed"])
BlockAnswered(c) == Read(c, "ack", "next")

\* The end of the source file, or an error when reading it: exit().
SourceEnds(c) ==
    /\ cli[c].pc = "next"
    /\ cli[c].sent = Blocks[c] \/ Fault("disk")
    /\ ClientBecomes(c, [cli[c] EXCEPT !.pc = "bye"])

\* The exit handler, however the client came to exit().
SayBye(c) == Write(c, "bye", Unit("BYE", 0), "done")

KillClient(c) ==
    /\ Fault("kill") /\ ClientOpen(c)
    /\ ClientBecomes(c, [cli[c] EXCEPT !.pc = "killed"])

ClientStep(c) ==
    \/ SendInfoType(c) \/ SendInfo(c) \/ InfoAnswered(c) \/ SendBlockType(c)
    \/ SendBlock(c) \/ BlockAnswered(c) \/ SourceEnds(c) \/ SayBye(c)

Step ==
    \/ StartServer \/ Sigint \/ Accept \/ Create
    \/ \E t \in Threads : ThreadStep(t)
    \/ \E c \in Clients : Connect(c) \/ ClientStep(c) \/ KillClient(c)

Next == Step /\ UNCHANGED scene

Spec == Init /\ [][Next]_vars

\* The kernel runs every process and thread; users need not start anything and
\* nothing has to go wrong.
Fairness ==
    /\ WF_moving(Accept) /\ WF_moving(Create)
    /\ \A t \in Threads : WF_moving(ThreadStep(t))
    /\ \A c \in Clients : WF_moving(ClientStep(c))

FairSpec == Spec /\ Fairness
-----------------------------------------------------------------------------
Live(t) == thr[t].pc \notin {"none", "arg", "end"}
Whole(c) == [i \in 1..Blocks[c] |-> Piece(c, Unit("data", i))]

\* A file the server creates holds blocks of one client that asked for it, in
\* order, none twice and none left out, whatever the other threads do and
\* whoever is killed; a file that existed is never touched (thread_function:
\* O_EXCL, the loop of read and write, the stop-and-wait of the client). Only on
\* a full disk is the rest of a block missing: nobody looks for a short write().
FilesFaithful ==
    scene.prompt => \A f \in DOMAIN disk :
        IF f \in Existing THEN disk[f] = <<Piece(Nobody, NoBytes)>>
        ELSE \E c \in Clients :
                /\ Dest[c] = f /\ Len(disk[f]) <= Blocks[c]
                /\ \A i \in DOMAIN disk[f] :
                     \/ disk[f][i] = Whole(c)[i]
                     \/ Fault("disk") /\ disk[f][i] = Piece(c, Torn(Unit("data", i)))

\* Even when two threads read from one connection, no file ever mixes what two
\* clients sent (O_EXCL: one thread writes a file, and a thread serves one
\* connection all its life).
NoMixing ==
    \A f \in DOMAIN disk : Cardinality({disk[f][i].from : i \in DOMAIN disk[f]}) <= 1

\* A client that has sent its whole file and saw no error has its file at the
\* server, complete. README of 12: "Error handling and response mechanisms are
\* in place to ensure proper communication and file transfer between the client
\* and server." Two threads share the response, which breaks it.
SuccessMeansCopied ==
    \A c \in Clients :
        cli[c].pc = "done" /\ cli[c].resp = "SUCCESS" /\ cli[c].sent = Blocks[c]
        => Dest[c] \in DOMAIN disk /\ disk[Dest[c]] = Whole(c)

\* Nothing makes a thread answer ERROR.
NoErrors == /\ Existing = {} /\ ~Fault("disk")
            /\ \A c, d \in Clients : c # d => Dest[c] # Dest[d]
            /\ scene.maxFd >= 2 * Cardinality(Clients)

\* It holds while nobody is refused, whoever is killed or interrupted and
\* however often the server is started: a client cut off never sees SUCCESS for
\* its last block.
CopiedUnlessRefused == NoErrors /\ scene.prompt => SuccessMeansCopied

\* Every descriptor in use belongs to a thread at work, or to a connection on
\* its way to a thread: neither a socket nor a file is forgotten when nothing
\* fails (close at the end of thread_function and in its cleanup handler).
NothingLeaks ==
    TypeOK /\ (scene.prompt /\ scene.faults = {} =>
        \A x \in open : \/ \E t \in Threads : x \in {thr[t].sock, thr[t].name}
                        \/ x = srv.accept_socket /\ (srv.main = "create" \/
                             \E t \in Threads : thr[t].pc = "arg"))

\* Only a killed client makes a thread write to a client that has gone (SIGPIPE,
\* which is neither ignored nor handled, would end the server for all): the
\* protocol leaves no other client with an answer under way at its end. So the
\* server always ends through its handlers, the socket file exists exactly
\* while it runs, and a new server can bind it.
PathFollowsServer ==
    scene.prompt /\ ~Fault("kill") =>
        /\ \A t \in Threads : thr[t].pc = "write" /\ thr[t].sock \in open
                                => ClientOpen(thr[t].sock)
        /\ srv.on = srv.bound

\* A client that got through connect() ends, and so does its transfer, unless
\* pthread_create failed for it.
Served ==
    scene.prompt /\ ~Fault("nothread") =>
        \A c \in Clients : cli[c].pc = "info" ~> ~ClientOpen(c)
=============================================================================
