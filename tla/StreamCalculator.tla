---------------------------- MODULE StreamCalculator ----------------------------
(***************************************************************************)
(* templates/socket-stream-listener/server.c, client.c and sockbsp.h: a    *)
(* server takes one order from each connection and answers it. A client    *)
(* connects the same socket again for its second order, which fails        *)
(* (EISCONN), so it has one order; an order is named after its client.     *)
(***************************************************************************)
EXTENDS Naturals, Sequences

CONSTANTS Clients, Scenes, None,
          Backlog,    \* listen(sockfd, 5)
          Lives       \* bound: the starts of the server

\* mortal   the clients that may be killed
\* sigint   the server may get SIGINT
SceneType == [mortal : SUBSET Clients, sigint : BOOLEAN]

VARIABLES server,     \* [at, life, conn, order, path]: path, the socket's file is there
          client,     \* [Clients -> [at, sent, reply, peer, got]]
          backlog,
          scene

moving == <<server, client, backlog>>
vars == <<moving, scene>>

\* sent    the client's order is in the stream
\* peer    the server's end: open, closed, or closed with the order unread
\* order   the variable of main, which keeps its value
Init ==
    /\ scene \in Scenes
    /\ server = [at |-> "down", life |-> 0, conn |-> None, order |-> None, path |-> FALSE]
    /\ client = [c \in Clients |-> [at |-> "ask", sent |-> FALSE, reply |-> None,
                                    peer |-> "none", got |-> None]]
    /\ backlog = <<>>

\* A server that ends without its exit handler is lost. Down: none runs.
At(step) == server.at = step
Down == server.at \in {"down", "lost"}
Main(step) == [server EXCEPT !.at = step]
Client(c, step) == client[c].at = step
Gone(c) == Client(c, "end")
Go(c, from, to) == Client(c, from) /\ client' = [client EXCEPT ![c].at = to]

\* unlink of what an earlier server has left, bind, chmod, listen.
Listen ==
    /\ Down /\ server.life < Lives
    /\ server' = [at |-> "sigaction", life |-> server.life + 1, conn |-> None, order |-> None,
                  path |-> TRUE]
    /\ UNCHANGED <<client, backlog>>

Sigaction == At("sigaction") /\ server' = Main("accept") /\ UNCHANGED <<client, backlog>>

Accept ==
    /\ At("accept") /\ backlog # <<>>
    /\ server' = [Main("read") EXCEPT !.conn = Head(backlog)]
    /\ backlog' = Tail(backlog)
    /\ UNCHANGED client

\* read of the order; at the end of the stream it returns 0 and main goes on
\* with the order of an earlier client.
ReadOrder ==
    LET c == server.conn IN
    /\ At("read") /\ (client[c].sent \/ Gone(c))
    /\ server' = [Main("write") EXCEPT !.order = IF client[c].sent THEN c ELSE @]
    /\ client' = [client EXCEPT ![c].sent = FALSE]
    /\ UNCHANGED backlog

\* The process ends, and with it all its connections: a read of the client then
\* fails if its connection was not accepted or its order not read.
Ends(unlink) ==
    /\ server' = [Main(IF unlink THEN "down" ELSE "lost") EXCEPT !.path = @ /\ ~unlink]
    /\ backlog' = <<>>
    /\ client' = [c \in Clients |->
           IF \E i \in 1..Len(backlog) : backlog[i] = c THEN [client[c] EXCEPT !.peer = "reset"]
           ELSE IF c = server.conn /\ server.at \in {"read", "write", "close"}
           THEN [client[c] EXCEPT !.peer = IF client[c].sent THEN "reset" ELSE "closed"]
           ELSE client[c]]

\* A client that is gone raises SIGPIPE, for which there is no handler.
WriteResult ==
    /\ At("write")
    /\ IF Gone(server.conn) THEN Ends(FALSE)
       ELSE /\ client' = [client EXCEPT ![server.conn].reply = server.order]
            /\ server' = Main("close") /\ UNCHANGED backlog

Close ==
    /\ At("close")
    /\ client' = [client EXCEPT ![server.conn].peer = "closed"]
    /\ server' = [Main("accept") EXCEPT !.conn = None]
    /\ UNCHANGED backlog

\* SIGINT: before sigaction it kills, then it runs exithandler.
Sigint == scene.sigint /\ ~Down /\ Ends(~At("sigaction"))

\* An order, or ende=3. A first connect needs a server that listens, and waits
\* for room in its backlog.
Connect(c) ==
    /\ \/ Go(c, "ask", "end") /\ UNCHANGED backlog
       \/ /\ Client(c, "ask") /\ client[c].peer = "none" /\ ~Down /\ Len(backlog) < Backlog
          /\ client' = [client EXCEPT ![c].at = "write", ![c].peer = "open"]
          /\ backlog' = Append(backlog, c)
    /\ UNCHANGED server

\* write raises SIGPIPE when the server is gone.
WriteOrder(c) ==
    /\ Client(c, "write")
    /\ client' = [client EXCEPT ![c].sent = client[c].peer = "open",
                                ![c].at = IF client[c].peer = "open" THEN "read" ELSE "end"]
    /\ UNCHANGED <<server, backlog>>

\* At the end of the stream read returns 0 and the client prints what its
\* result variable holds, which nobody has set.
ReadResult(c) ==
    /\ Client(c, "read")
    /\ \/ /\ client[c].reply # None \/ client[c].peer = "closed"
          /\ client' = [client EXCEPT ![c].at = "print", ![c].got = client[c].reply]
       \/ /\ client[c].reply = None /\ client[c].peer = "reset"
          /\ client' = [client EXCEPT ![c].at = "end"]
    /\ UNCHANGED <<server, backlog>>

Show(c) == Go(c, "print", "ask") /\ UNCHANGED <<server, backlog>>

Kill(c) ==
    /\ c \in scene.mortal /\ client[c].at \in {"write", "read"} /\ Go(c, client[c].at, "end")
    /\ UNCHANGED <<server, backlog>>

Serve == Sigaction \/ Accept \/ ReadOrder \/ WriteResult \/ Close
Moves(c) == WriteOrder(c) \/ ReadResult(c)

Next == /\ \/ Listen \/ Serve \/ Sigint
           \/ \E c \in Clients : Connect(c) \/ Moves(c) \/ Show(c) \/ Kill(c)
        /\ UNCHANGED scene

\* The server and a connected client get on; nobody has to start or to type.
Spec == Init /\ [][Next]_vars /\ WF_moving(Serve) /\ \A c \in Clients : WF_moving(Moves(c))
-----------------------------------------------------------------------------
TypeOK ==
    /\ scene \in SceneType
    /\ server \in [at : {"down", "lost", "sigaction", "accept", "read", "write", "close"},
                   life : 0..Lives, conn : Clients \cup {None}, order : Clients \cup {None},
                   path : BOOLEAN]
    /\ client \in [Clients -> [at : {"ask", "write", "read", "print", "end"}, sent : BOOLEAN,
                               reply : Clients \cup {None},
                               peer : {"none", "open", "closed", "reset"},
                               got : Clients \cup {None}]]
    /\ backlog \in Seq(Clients) /\ Len(backlog) <= Backlog

\* The order that main keeps from an earlier client is never answered to
\* another one (server.c, loop of main), and what a client prints is the result
\* of its own order, or nothing at all when SIGINT has ended the server.
OwnAnswer ==
    /\ TypeOK
    /\ \A c \in Clients :
          /\ client[c].reply \in {c, None}
          /\ Client(c, "print") => client[c].got = c \/ scene.sigint

\* "bei SIGINT und Serverende wird Socket gelöscht" (server.c): a server that
\* SIGINT ends has removed its socket, at whatever step it was. The file is left
\* only when SIGINT comes before sigaction, or by SIGPIPE, which no handler
\* takes; and that comes only when a client was killed.
Released ==
    /\ At("down") => ~server.path
    /\ At("lost") => scene.mortal # {} \/ scene.sigint

\* When nobody is killed or interrupted, a connected client gets its result.
Waiting(c) == scene.mortal = {} /\ ~scene.sigint /\ client[c].at \in {"write", "read"}
Served(c) == Client(c, "print")
AllServed == \A c \in Clients : Waiting(c) ~> Served(c)
=============================================================================
