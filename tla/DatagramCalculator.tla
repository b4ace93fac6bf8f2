--------------------------- MODULE DatagramCalculator ---------------------------
(***************************************************************************)
(* templates/datagram-exchange/server.c, client.c and socket.h: orders and *)
(* results are datagrams between local sockets with names. The server and  *)
(* the clients remove their names when they exit, and at SIGINT.           *)
(***************************************************************************)
EXTENDS Naturals, Sequences

CONSTANTS Clients, Server, Scenes, None,
          Room,       \* the datagrams a socket holds
          Orders,     \* bound: the orders of a client
          Lives       \* bound: the starts of the server

\* crash    the server may end without its handlers
\* sigint   the programs that may get SIGINT
SceneType == [crash : BOOLEAN, sigint : SUBSET (Clients \cup {Server})]

VARIABLES server,     \* [at, life, job]
          client,     \* [Clients -> [at, no, got]]
          sockets,    \* [orders, results, names], see Init
          scene

moving == <<server, client, sockets>>
vars == <<moving, scene>>

Init ==
    /\ scene \in Scenes
    /\ server = [at |-> "down", life |-> 0, job |-> None]
    /\ client = [c \in Clients |-> [at |-> "new", no |-> 0, got |-> None]]
    /\ sockets = [orders  |-> <<>>,                        \* datagrams in the server's socket
                  results |-> [c \in Clients |-> <<>>],    \* and in those of the clients
                  names   |-> {}]                          \* the names in the file system

\* A program that ends without its exit handler is lost. Down: no server runs.
At(step) == server.at = step
Down == server.at \in {"down", "lost"}
Serving(step) == server' = [server EXCEPT !.at = step]
Client(c, step) == client[c].at = step
Go(c, from, to) == Client(c, from) /\ client' = [client EXCEPT ![c].at = to]

\* Whose socket is open: sendto to another name fails.
Listening == ~Down /\ ~At("unlink")
Open(c) == client[c].at \notin {"new", "unlink", "end", "lost"}

\* socket, unlink of what is left, bind, chmod.
Bind ==
    /\ Down /\ server.life < Lives
    /\ server' = [at |-> "sigaction", life |-> server.life + 1, job |-> None]
    /\ sockets' = [sockets EXCEPT !.names = @ \cup {Server}]
    /\ UNCHANGED client

Sigaction == At("sigaction") /\ Serving("receive") /\ UNCHANGED <<client, sockets>>

Receive ==
    /\ At("receive") /\ sockets.orders # <<>>
    /\ server' = [server EXCEPT !.at = "send", !.job = Head(sockets.orders)]
    /\ sockets' = [sockets EXCEPT !.orders = Tail(@)]
    /\ UNCHANGED client

\* sendto to the sender's address: when it is gone the server exits.
Send ==
    LET c == server.job.client IN
    /\ At("send")
    /\ IF Open(c) THEN /\ Len(sockets.results[c]) < Room /\ Serving("receive")
                       /\ sockets' = [sockets EXCEPT !.results[c] = Append(@, server.job)]
                  ELSE Serving("close") /\ UNCHANGED sockets
    /\ UNCHANGED client

Closed(names) == sockets' = [sockets EXCEPT !.orders = <<>>, !.names = names]

\* exithandler, called by exit(): close, and what is in the socket is lost,
\* then unlink.
Exithandler ==
    /\ \/ At("close") /\ Serving("unlink") /\ Closed(sockets.names)
       \/ At("unlink") /\ Serving("down") /\ Closed(sockets.names \ {Server})
    /\ UNCHANGED client

\* SIGINT: the handler calls exithandler, and the name goes. Before sigaction
\* the server just dies; after close exithandler fails in its first line. That
\* leaves the name, as a crash does.
ServerEnds ==
    /\ ~Down
    /\ \/ /\ Server \in scene.sigint /\ ~At("sigaction") /\ ~At("unlink")
          /\ Serving("down") /\ Closed(sockets.names \ {Server})
       \/ /\ scene.crash \/ (Server \in scene.sigint /\ (At("sigaction") \/ At("unlink")))
          /\ Serving("lost") /\ Closed(sockets.names)
    /\ UNCHANGED client

\* The name of a client has its process id, so that bind succeeds.
ClientBind(c) ==
    /\ Go(c, "new", "sigaction")
    /\ sockets' = [sockets EXCEPT !.names = @ \cup {c}]
    /\ UNCHANGED server

ClientSigaction(c) == Go(c, "sigaction", "ask") /\ UNCHANGED <<server, sockets>>

Order(c) == [client |-> c, no |-> client[c].no]

\* ende=3 leads to exit, as does a server that is not there; sendto sleeps
\* while the server's socket is full.
Ask(c) ==
    /\ \/ Go(c, "ask", "close") /\ UNCHANGED sockets
       \/ /\ Client(c, "ask") /\ client[c].no < Orders
          /\ Listening /\ Len(sockets.orders) < Room
          /\ client' = [client EXCEPT ![c].at = "wait", ![c].no = @ + 1]
          /\ sockets' = [sockets EXCEPT !.orders = Append(@, Order(c)')]
    /\ UNCHANGED server

Wait(c) ==
    /\ Client(c, "wait") /\ sockets.results[c] # <<>>
    /\ client' = [client EXCEPT ![c].at = "print", ![c].got = Head(sockets.results[c])]
    /\ sockets' = [sockets EXCEPT !.results[c] = Tail(@)]
    /\ UNCHANGED server

Show(c) == Go(c, "print", "ask") /\ UNCHANGED <<server, sockets>>

NameGone(c) == sockets' = [sockets EXCEPT !.names = @ \ {c}]

ClientExit(c) ==
    /\ \/ Go(c, "close", "unlink") /\ UNCHANGED sockets
       \/ Go(c, "unlink", "end") /\ NameGone(c)
    /\ UNCHANGED server

\* SIGINT, as for the server.
ClientSigint(c) ==
    /\ c \in scene.sigint
    /\ \/ \E step \in {"sigaction", "unlink"} : Go(c, step, "lost") /\ UNCHANGED sockets
       \/ \E step \in {"ask", "wait", "print", "close"} : Go(c, step, "end") /\ NameGone(c)
    /\ UNCHANGED server

Serve == Sigaction \/ Receive \/ Send \/ Exithandler

Next == /\ \/ Bind \/ Serve \/ ServerEnds
           \/ \E c \in Clients : \/ ClientBind(c) \/ ClientSigaction(c) \/ Ask(c) \/ Wait(c)
                                 \/ Show(c) \/ ClientExit(c) \/ ClientSigint(c)
        /\ UNCHANGED scene

\* The server and a client that waits get on; nobody has to start or to type.
Spec == Init /\ [][Next]_vars /\ WF_moving(Serve) /\ \A c \in Clients : WF_moving(Wait(c))
-----------------------------------------------------------------------------
TypeOK ==
    LET OrderType == [client : Clients, no : 1..Orders] IN
    /\ scene \in SceneType
    /\ server \in [at : {"down", "lost", "sigaction", "receive", "send", "close", "unlink"},
                   life : 0..Lives, job : OrderType \cup {None}]
    /\ client \in [Clients -> [at : {"new", "sigaction", "ask", "wait", "print", "close",
                                     "unlink", "end", "lost"},
                               no : 0..Orders, got : OrderType \cup {None}]]
    /\ sockets.orders \in Seq(OrderType) /\ Len(sockets.orders) <= Room
    /\ \A c \in Clients : sockets.results[c] \in Seq(OrderType)
    /\ sockets.names \subseteq Clients \cup {Server}

\* The result a client prints belongs to the order it has just sent (client.c,
\* loop of main), and no second one is on its way.
OwnAnswer ==
    /\ TypeOK
    /\ \A c \in Clients : /\ Client(c, "print") => client[c].got = Order(c)
                          /\ Len(sockets.results[c]) <= 1

\* "bei SIGINT und Serverende wird Socket gelöscht d.h. auch im Fehlerfall"
\* (server.c), and the same of client.c: who has ended, by itself, by an error or
\* by SIGINT, has removed its name. Only a crash, or a SIGINT before sigaction or
\* in exit() after close, leaves one behind: that program is lost.
Released ==
    /\ \A c \in Clients : /\ Client(c, "end") => c \notin sockets.names
                          /\ Client(c, "lost") => c \in scene.sigint
    /\ At("down") => Server \notin sockets.names
    /\ At("lost") => scene.crash \/ Server \in scene.sigint

\* When nobody is interrupted, a client that waits gets its result: the server
\* meets no client that is gone.
Waiting(c) == scene.sigint = {} /\ ~scene.crash /\ Client(c, "wait")
Served(c) == Client(c, "print")
AllServed == \A c \in Clients : Waiting(c) ~> Served(c)
=============================================================================
