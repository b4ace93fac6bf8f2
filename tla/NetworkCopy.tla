------------------------------- MODULE NetworkCopy -------------------------------
(***************************************************************************)
(* 13-network-copy: a client sends a path, a length and the blocks of a    *)
(* file over TCP, the server stores it under the path. The server serves   *)
(* one client after the other. What the sources leave to be filled in (the *)
(* server's socket, bind and listen) is taken as done, and SIGPIPE as not  *)
(* caught. A read takes one message that was written, or only a part of    *)
(* one: then the two ends of the connection are out of step for ever.      *)
(***************************************************************************)
EXTENDS Integers, Sequences

CONSTANTS Clients, Scenes, None,
          BLOCKSIZE,
          Backlog,
          Room         \* the messages a direction of a connection holds

\* content    the bytes of each client's file
\* path       where it wants it
\* mortal     the clients that may be killed
\* disk       the bytes that can be written to a file
\* fds        the descriptors the server has for connections and files
\* short      the clients to or from which a message may arrive in parts
SceneType == [content : [Clients -> Seq(Nat)], path : [Clients -> Clients],
              mortal : SUBSET Clients, disk : Nat, fds : Nat, short : SUBSET Clients]

VARIABLES server,     \* [at, conn, path, size, type, block, pos, open]
          client,     \* [Clients -> [at, pos, buf, error]]
          backlog,
          queues,     \* the connections: [Clients -> [up, down, rst, closed, torn]]
          files,      \* what is stored under each path
          scene

moving == <<server, client, backlog, queues, files>>
vars == <<moving, scene>>

Zeroes == [i \in 1..BLOCKSIZE |-> 0]
OK == "OK"
ERR == "ERR"
Bye == <<>>       \* the message with type MSGT_ERR; its block is left out

\* type, block, path and size are the variables of the server's main, which
\* keep their values; open counts descriptors that are not given back; torn says
\* that a read on this connection has brought a part of a message.
Init ==
    /\ scene \in Scenes
    /\ server = [at |-> "accept", conn |-> None, path |-> None, size |-> -1, type |-> OK,
                 block |-> Zeroes, pos |-> 0, open |-> 0]
    /\ client = [c \in Clients |-> [at |-> "new", pos |-> 0, buf |-> Zeroes]]
    /\ backlog = <<>>
    /\ queues = [c \in Clients |-> [up |-> <<>>, down |-> <<>>, rst |-> FALSE, closed |-> FALSE,
                                    torn |-> FALSE]]
    /\ files = [c \in Clients |-> None]

At(step) == server.at = step
Main(step) == [server EXCEPT !.at = step]
Client(c, step) == client[c].at = step
Over == {"success", "failed"}
Gone(c) == client[c].at \in Over
File == files[server.path]

\* What may be left in a stream after a read() that does not end where a message
\* does: all of it the first time, and any later part when it is out of step.
Left(stream, torn) ==
    {SubSeq(stream, n + 1, Len(stream)) : n \in IF torn THEN 0..Len(stream) ELSE {0}}
-----------------------------------------------------------------------------
(* The server. *)

\* exit() and SIGPIPE: connections with unread data are reset.
Dies ==
    /\ server' = Main("dead")
    /\ queues' = [c \in Clients |-> [queues[c] EXCEPT !.closed = TRUE,
                                                   !.rst = @ \/ queues[c].up # <<>>]]
    /\ backlog' = <<>>

\* accept() fails when no descriptor is left, and the read from -1 ends main.
Accept ==
    /\ At("accept")
    /\ IF server.open >= scene.fds
       THEN Dies
       ELSE /\ backlog # <<>>
            /\ server' = [Main("path") EXCEPT !.conn = Head(backlog), !.pos = 0]
            /\ backlog' = Tail(backlog)
            /\ UNCHANGED queues
    /\ UNCHANGED <<client, files>>

\* read(): what was sent, a part of it, the end of the stream, or an error. After
\* a part the variable that is read holds any value, as nobody looks at how much
\* has come.
up == queues[server.conn].up
Received ==
    /\ up # <<>> /\ ~queues[server.conn].torn
    /\ queues' = [queues EXCEPT ![server.conn].up = Tail(@)]
Part ==
    /\ up # <<>> /\ server.conn \in scene.short
    /\ \E left \in Left(up, queues[server.conn].torn) :
          queues' = [queues EXCEPT ![server.conn].up = left, ![server.conn].torn = TRUE]
EndOfStream == up = <<>> /\ Gone(server.conn) /\ ~queues[server.conn].rst /\ UNCHANGED queues
Reset == up = <<>> /\ queues[server.conn].rst /\ UNCHANGED queues

\* write(): it sleeps while there is no room, raises SIGPIPE after a reset,
\* and is the cause of one when the client is gone.
Answer(v, server1) ==
    LET c == server.conn IN
    \/ queues[c].rst /\ Dies
    \/ /\ ~queues[c].rst
       /\ Gone(c) \/ Len(queues[c].down) < Room
       /\ queues' = IF Gone(c) THEN [queues EXCEPT ![c].rst = TRUE]
                               ELSE [queues EXCEPT ![c].down = Append(@, v)]
       /\ server' = server1
       /\ UNCHANGED backlog

\* A slip: a file that is there is written again.
OpenAny(p) ==
    IF p # None /\ server.open + 1 < scene.fds
    THEN files' = [files EXCEPT ![p] = <<>>] /\ server' = [Main("answer1") EXCEPT !.path = p]
    ELSE UNCHANGED files /\ server' = [Main("refuse") EXCEPT !.path = p]

\* open() with O_EXCL.
Open(p) ==
    IF p # None /\ files[p] = None /\ server.open + 1 < scene.fds
    THEN files' = [files EXCEPT ![p] = <<>>] /\ server' = [Main("answer1") EXCEPT !.path = p]
    ELSE UNCHANGED files /\ server' = [Main("refuse") EXCEPT !.path = p]

\* At the end of the stream the path is that of an earlier client. There is no
\* reset yet, as nothing has been sent to the client.
ReadPath ==
    /\ At("path")
    /\ \/ Received /\ Open(Head(up)) /\ UNCHANGED backlog
       \/ Part /\ (\E p \in Clients \cup {None} : Open(p)) /\ UNCHANGED backlog
       \/ EndOfStream /\ Open(server.path) /\ UNCHANGED backlog
    /\ UNCHANGED client

\* The next client is served without closing this one's connection, nor the
\* file when ftruncate has failed.
Refuse ==
    /\ \/ At("refuse") /\ Answer(ERR, [Main("accept") EXCEPT !.open = @ + 1])
       \/ At("refuse2") /\ Answer(ERR, [Main("accept") EXCEPT !.open = @ + 2])
    /\ UNCHANGED <<client, files>>

Answers ==
    /\ \/ At("answer1") /\ Answer(OK, Main("size"))
       \/ At("answer2") /\ Answer(OK, Main("block"))
    /\ UNCHANGED <<client, files>>

\* ftruncate() sets the length to begin with, without taking any space.
Ftruncate(n) ==
    IF n >= 0
    THEN /\ files' = [files EXCEPT ![server.path] = [i \in 1..n |-> 0]]
         /\ server' = [Main("answer2") EXCEPT !.size = n]
    ELSE UNCHANGED files /\ server' = [Main("refuse2") EXCEPT !.size = n]

ReadSize ==
    /\ At("size")
    /\ \/ Received /\ Ftruncate(Head(up)) /\ UNCHANGED backlog
       \/ Part /\ (\E n \in {-1, BLOCKSIZE} : Ftruncate(n)) /\ UNCHANGED backlog
       \/ EndOfStream /\ Ftruncate(server.size) /\ UNCHANGED backlog
       \/ up = <<>> /\ queues[server.conn].rst /\ Dies /\ UNCHANGED files
    /\ UNCHANGED client

\* The result of this read is not looked at: without a new block the last one
\* is stored once more. What a part of a message leaves in the block is not told
\* apart.
ReadBlock ==
    /\ At("block")
    /\ \/ /\ Received
          /\ server' = IF Head(up) = Bye THEN [Main("close") EXCEPT !.type = ERR]
                       ELSE [Main("write") EXCEPT !.type = OK, !.block = Head(up)]
       \/ /\ Part
          /\ \/ server' = [Main("close") EXCEPT !.type = ERR]
             \/ server' = [Main("write") EXCEPT !.type = OK]
       \/ (EndOfStream \/ Reset) /\ server' = Main(IF server.type = ERR THEN "close" ELSE "write")
    /\ UNCHANGED <<client, backlog, files>>

Stored(f, pos, n, b) ==
    [i \in 1..(IF pos + n > Len(f) THEN pos + n ELSE Len(f)) |->
        IF i \in (pos + 1)..(pos + n) THEN b[i - pos] ELSE f[i]]

\* write() stores what fits, and says so; that is no error to the server.
Fitting ==
    IF server.pos + BLOCKSIZE <= scene.disk THEN BLOCKSIZE ELSE scene.disk - server.pos

WriteBlock ==
    \/ /\ At("write") /\ server.pos < scene.disk
       /\ files' = [files EXCEPT ![server.path] = Stored(@, server.pos, Fitting, server.block)]
       /\ server' = [Main("block") EXCEPT !.pos = @ + Fitting]
       /\ UNCHANGED <<client, backlog, queues>>
    \/ /\ At("write") /\ server.pos >= scene.disk
       /\ Answer(ERR, Main("block"))
       /\ UNCHANGED <<client, files>>

Close ==
    /\ At("close")
    /\ queues' = [queues EXCEPT ![server.conn].closed = TRUE]
    /\ server' = [Main("accept") EXCEPT !.conn = None]
    /\ UNCHANGED <<client, backlog, files>>

Serve ==
    \/ Accept \/ ReadPath \/ Refuse \/ Answers \/ ReadSize \/ ReadBlock \/ WriteBlock \/ Close
-----------------------------------------------------------------------------
(* A client. *)

\* The end of a client with an unread answer resets the connection.
Ends(c, how) ==
    /\ client' = [client EXCEPT ![c].at = how]
    /\ queues' = [queues EXCEPT ![c].rst = @ \/ queues[c].down # <<>>]

\* Nobody listens any more, and connect() fails.
Connect(c) ==
    /\ Client(c, "new")
    /\ IF At("dead")
       THEN client' = [client EXCEPT ![c].at = "failed"] /\ UNCHANGED backlog
       ELSE /\ Len(backlog) < Backlog
            /\ client' = [client EXCEPT ![c].at = "path"]
            /\ backlog' = Append(backlog, c)
    /\ UNCHANGED <<server, queues, files>>

\* write(), as above; SIGPIPE ends the client.
Send(c, v, client1) ==
    \/ queues[c].rst /\ Ends(c, "failed")
    \/ /\ ~queues[c].rst
       /\ queues[c].closed \/ Len(queues[c].up) < Room
       /\ queues' = IF queues[c].closed THEN [queues EXCEPT ![c].rst = TRUE]
                                        ELSE [queues EXCEPT ![c].up = Append(@, v)]
       /\ client' = [client EXCEPT ![c] = client1]

\* The answer to the path and the length; the end of the stream is taken for OK.
Hear(c, from, to) ==
    /\ Client(c, from)
    /\ \/ /\ queues[c].down # <<>> /\ ~queues[c].torn
          /\ client' = [client EXCEPT ![c].at = IF Head(queues[c].down) = OK THEN to ELSE "failed"]
          /\ queues' = [queues EXCEPT ![c].down = Tail(@)]
       \/ /\ queues[c].down # <<>> /\ c \in scene.short
          /\ \E how \in {to, "failed"} : client' = [client EXCEPT ![c].at = how]
          /\ \E left \in Left(queues[c].down, queues[c].torn) :
                queues' = [queues EXCEPT ![c].down = left, ![c].torn = TRUE]
       \/ /\ queues[c].down = <<>> /\ queues[c].closed
          /\ client' = [client EXCEPT ![c].at = IF queues[c].rst THEN "failed" ELSE to]
          /\ UNCHANGED queues

\* The buffer keeps what the last read did not overwrite.
Filled(c) ==
    LET left == Len(scene.content[c]) - client[c].pos IN
    [i \in 1..BLOCKSIZE |-> IF i <= left THEN scene.content[c][client[c].pos + i]
                                         ELSE client[c].buf[i]]

Talk(c) ==
    /\ \/ Client(c, "path") /\ Send(c, scene.path[c], [client[c] EXCEPT !.at = "answer1"])
       \/ Hear(c, "answer1", "size")
       \/ /\ Client(c, "size")
          /\ Send(c, Len(scene.content[c]), [client[c] EXCEPT !.at = "answer2"])
       \/ Hear(c, "answer2", "data")
       \/ /\ Client(c, "data") /\ client[c].pos < Len(scene.content[c])
          /\ Send(c, Filled(c), [client[c] EXCEPT !.pos = @ + BLOCKSIZE, !.buf = Filled(c)])
       \/ /\ Client(c, "data") /\ client[c].pos >= Len(scene.content[c])
          /\ Send(c, Bye, [client[c] EXCEPT !.at = "exit"])
       \/ Client(c, "exit") /\ Ends(c, "success")
    /\ UNCHANGED <<server, backlog, files>>

Kill(c) ==
    /\ c \in scene.mortal /\ ~Client(c, "new") /\ ~Gone(c)
    /\ Ends(c, "failed")
    /\ UNCHANGED <<server, backlog, files>>

Next == /\ Serve \/ \E c \in Clients : Connect(c) \/ Talk(c) \/ Kill(c)
        /\ UNCHANGED scene

Spec == Init /\ [][Next]_vars /\ WF_moving(Serve) /\ \A c \in Clients : WF_moving(Talk(c))
-----------------------------------------------------------------------------
Steps == {"accept", "path", "refuse", "answer1", "size", "refuse2", "answer2", "block", "write",
          "close", "dead"}

TypeOK ==
    /\ server.at \in Steps /\ server.conn \in Clients \cup {None}
    /\ server.path \in Clients \cup {None} /\ server.type \in {OK, ERR}
    /\ \A c \in Clients :
          /\ client[c].at \in Over \cup {"new", "path", "answer1", "size", "answer2", "data",
                                         "exit"}
          /\ Len(queues[c].up) <= Room /\ Len(queues[c].down) <= Room
          /\ files[c] = None \/ files[c] \in Seq(Nat)

\* What is stored for a client that has ended with success, once the server has
\* closed its connection, begins with its file, unless the disk was too small or
\* a read on this connection brought a part of a message (server.c, client.c);
\* what becomes of other connections does not matter. A last block that is not
\* full is followed by the rest of the buffer, as the length is set before the
\* blocks arrive.
Faithful ==
    /\ TypeOK
    /\ \A c \in Clients :
          Client(c, "success") /\ queues[c].closed /\ ~At("dead") /\ ~queues[c].torn =>
          LET f == files[scene.path[c]] IN
          Len(scene.content[c]) + BLOCKSIZE <= scene.disk
             => /\ Len(scene.content[c]) <= Len(f)
                /\ SubSeq(f, 1, Len(scene.content[c])) = scene.content[c]

\* A client that is connected ends, unless one is killed or its file does not
\* fit: then the server stores the last block until the disk is full, or both
\* sleep in write(), the client with its next block and the server with its
\* next complaint. Nothing is said once a read has brought a part of a message:
\* both may wait for what the other one has sent long ago.
Fits == \A c \in Clients : Len(scene.content[c]) + BLOCKSIZE <= scene.disk
Waiting(c) == ~Client(c, "new") /\ scene.mortal = {} /\ Fits
Served(c) == Gone(c) \/ \E d \in Clients : queues[d].torn
Answered == \A c \in Clients : Waiting(c) ~> Served(c)
=============================================================================
