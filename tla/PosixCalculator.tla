---------------------------- MODULE PosixCalculator ----------------------------
(***************************************************************************)
(* templates/message-queue-posix/server.c, client.c and msg.h: a server    *)
(* takes orders from the queue /Order and sends each result to the queue   *)
(* of the client that asked. The server and the clients remove the names   *)
(* of the queues they created when they exit, and at SIGINT.               *)
(***************************************************************************)
EXTENDS Naturals, Sequences

CONSTANTS Clients, Server, Scenes, None,
          MaxOrders, MaxResults,   \* mq_maxmsg of the queues, 8 and 2
          MaxFds,     \* the result queues the server can hold open
          Orders,     \* bound: the orders of a client
          Lives       \* bound: the starts of the server

\* run      the clients that are started
\* crash    the server may end without its handlers
\* sigint   the programs that may get SIGINT
SceneType == [run : SUBSET Clients, crash : BOOLEAN, sigint : SUBSET (Clients \cup {Server})]

VARIABLES server, client,
          queues,      \* [name, orders, results, there], see Init
          scene

moving == <<server, client, queues>>
vars == <<moving, scene>>

\* An order queue is named after the life of the server that created it; a
\* client that has opened it keeps it when its name is removed.
Init ==
    /\ scene \in Scenes
    /\ server = [at |-> "down", life |-> 0, q |-> 0, job |-> None, res |-> None, open |-> 0]
    /\ client = [c \in Clients |-> [at |-> "new", q |-> 0, no |-> 0, got |-> None]]
    /\ queues = [name    |-> 0,                           \* the queue called /Order
                 orders  |-> [l \in 1..Lives |-> <<>>],
                 results |-> [c \in Clients |-> <<>>],
                 there   |-> {}]                          \* the clients with a /Result_ name

\* A program that ends without its exit handler is lost. Down: no server runs.
At(step) == server.at = step
Down == server.at \in {"down", "lost"}
Serving(step) == server' = [server EXCEPT !.at = step]
Client(c, step) == client[c].at = step
Go(c, from, to) == Client(c, from) /\ client' = [client EXCEPT ![c].at = to]

\* mq_open with O_CREAT: what a server that crashed has left is used again.
OpenOrders ==
    /\ Down /\ server.life < Lives
    /\ LET life == server.life + 1
           q == IF queues.name = 0 THEN life ELSE queues.name
       IN /\ server' = [at |-> "sigaction", life |-> life, q |-> q, job |-> None,
                        res |-> None, open |-> 0]
          /\ queues' = [queues EXCEPT !.name = q]
    /\ UNCHANGED client

Sigaction == At("sigaction") /\ Serving("receive") /\ UNCHANGED <<client, queues>>

Receive ==
    /\ At("receive") /\ queues.orders[server.q] # <<>>
    /\ server' = [server EXCEPT !.at = "open", !.job = Head(queues.orders[server.q])]
    /\ queues' = [queues EXCEPT !.orders[server.q] = Tail(@)]
    /\ UNCHANGED client

\* mq_open of the client's queue, once for every order and never closed: the
\* server exits when the client is gone or no descriptor is left.
OpenResult ==
    /\ At("open")
    /\ IF server.job.client \in queues.there /\ server.open < MaxFds
       THEN server' = [server EXCEPT !.at = "send", !.res = server.job.client, !.open = @ + 1]
       ELSE Serving("close")
    /\ UNCHANGED <<client, queues>>

SendResult ==
    /\ At("send") /\ Len(queues.results[server.res]) < MaxResults
    /\ queues' = [queues EXCEPT !.results[server.res] = Append(@, server.job)]
    /\ Serving("receive")
    /\ UNCHANGED client

\* exithandler, called by exit(): mq_close, then mq_unlink.
Exithandler ==
    /\ \/ At("close") /\ Serving("unlink") /\ UNCHANGED queues
       \/ At("unlink") /\ Serving("down") /\ queues' = [queues EXCEPT !.name = 0]
    /\ UNCHANGED client

\* SIGINT: the handler calls exithandler, and the name goes. Before sigaction
\* the server just dies; after mq_close exithandler fails in its first line. That
\* leaves the name, as a crash does.
ServerEnds ==
    /\ ~Down
    /\ \/ /\ Server \in scene.sigint /\ ~At("sigaction") /\ ~At("unlink")
          /\ Serving("down") /\ queues' = [queues EXCEPT !.name = 0]
       \/ /\ scene.crash \/ (Server \in scene.sigint /\ (At("sigaction") \/ At("unlink")))
          /\ Serving("lost") /\ UNCHANGED queues
    /\ UNCHANGED client

ClientOpen(c) ==
    /\ Client(c, "new") /\ c \in scene.run
    /\ client' = [client EXCEPT ![c].at = IF queues.name = 0 THEN "end" ELSE "create",
                                ![c].q = queues.name]
    /\ UNCHANGED <<server, queues>>

ClientCreate(c) ==
    /\ Go(c, "create", "sigaction")
    /\ queues' = [queues EXCEPT !.there = @ \cup {c}]
    /\ UNCHANGED server

ClientSigaction(c) == Go(c, "sigaction", "ask") /\ UNCHANGED <<server, queues>>

Order(c) == [client |-> c, no |-> client[c].no]

\* ende=3 leads to exit; mq_send sleeps while the queue is full, also one
\* that nobody reads any more.
Ask(c) ==
    /\ \/ Go(c, "ask", "close") /\ UNCHANGED queues
       \/ /\ Client(c, "ask") /\ client[c].no < Orders
          /\ Len(queues.orders[client[c].q]) < MaxOrders
          /\ client' = [client EXCEPT ![c].at = "wait", ![c].no = @ + 1]
          /\ queues' = [queues EXCEPT !.orders[client[c].q] = Append(@, Order(c)')]
    /\ UNCHANGED server

Wait(c) ==
    /\ Client(c, "wait") /\ queues.results[c] # <<>>
    /\ client' = [client EXCEPT ![c].at = "show", ![c].got = Head(queues.results[c])]
    /\ queues' = [queues EXCEPT !.results[c] = Tail(@)]
    /\ UNCHANGED server

Show(c) == Go(c, "show", "ask") /\ UNCHANGED <<server, queues>>

\* A slip: exithandler of the client only closes.
ClientExitNoUnlink(c) ==
    /\ Go(c, "close", "unlink") \/ Go(c, "unlink", "end")
    /\ UNCHANGED <<server, queues>>

ClientExit(c) ==
    /\ \/ Go(c, "close", "unlink") /\ UNCHANGED queues
       \/ Go(c, "unlink", "end") /\ queues' = [queues EXCEPT !.there = @ \ {c}]
    /\ UNCHANGED server

\* SIGINT, as for the server.
ClientSigint(c) ==
    /\ c \in scene.sigint
    /\ \/ Go(c, "create", "end") /\ UNCHANGED queues
       \/ \E step \in {"sigaction", "unlink"} : Go(c, step, "lost") /\ UNCHANGED queues
       \/ /\ \E step \in {"ask", "wait", "show", "close"} : Go(c, step, "end")
          /\ queues' = [queues EXCEPT !.there = @ \ {c}]
    /\ UNCHANGED server

Serve == Sigaction \/ Receive \/ OpenResult \/ SendResult \/ Exithandler

Next == /\ \/ OpenOrders \/ Serve \/ ServerEnds
           \/ \E c \in Clients : \/ ClientOpen(c) \/ ClientCreate(c) \/ ClientSigaction(c)
                                 \/ Ask(c) \/ Wait(c) \/ Show(c) \/ ClientExit(c)
                                 \/ ClientSigint(c)
        /\ UNCHANGED scene

\* The server and a client that waits get on; nobody has to start or to type.
Spec == Init /\ [][Next]_vars /\ WF_moving(Serve) /\ \A c \in Clients : WF_moving(Wait(c))
-----------------------------------------------------------------------------
TypeOK ==
    LET OrderType == [client : Clients, no : 1..Orders] IN
    /\ scene \in SceneType
    /\ server \in [at : {"down", "lost", "sigaction", "receive", "open", "send", "close",
                          "unlink"},
                   life : 0..Lives, q : 0..Lives, job : OrderType \cup {None},
                   res : Clients \cup {None}, open : 0..MaxFds]
    /\ client \in [Clients -> [at : {"new", "create", "sigaction", "ask", "wait", "show",
                                     "close", "unlink", "end", "lost"},
                               q : 0..Lives, no : 0..Orders, got : OrderType \cup {None}]]
    /\ queues.name \in 0..Lives /\ queues.there \subseteq Clients
    /\ \A l \in 1..Lives : queues.orders[l] \in Seq(OrderType) /\ Len(queues.orders[l]) <= MaxOrders
    /\ \A c \in Clients : queues.results[c] \in Seq(OrderType) /\ Len(queues.results[c]) <= 1

\* The result a client prints belongs to the order it has just sent (client.c,
\* loop of main), whatever a crashed server has left for the next one.
OwnAnswer == \A c \in Clients : Client(c, "show") => client[c].got = Order(c)

\* "bei SIGINT und Serverende wird Messagequeue gelöscht d.h. auch im
\* Fehlerfall" (server.c), and the same of client.c: who has ended, by itself, by
\* an error or by SIGINT, has removed its name, and a server the one that an
\* earlier server has left. Only a crash, or a SIGINT before sigaction or in
\* exit() after mq_close, leaves a name behind: that program is lost.
Released ==
    /\ TypeOK
    /\ \A c \in Clients : /\ Client(c, "end") => c \notin queues.there
                          /\ Client(c, "lost") => c \in scene.sigint
    /\ At("down") => queues.name = 0
    /\ At("lost") => scene.crash \/ Server \in scene.sigint

\* When nobody is interrupted, a client that waits for a running server gets
\* its result, unless the server has used up its descriptors.
Waiting(c) ==
    /\ scene.sigint = {} /\ ~scene.crash
    /\ Client(c, "wait") /\ client[c].q = server.q /\ server.at \in {"receive", "open", "send"}
Served(c) == Client(c, "show") \/ server.open = MaxFds
AllServed == \A c \in Clients : Waiting(c) ~> Served(c)
=============================================================================
