---------------------------- MODULE SysVCalculator ----------------------------
(***************************************************************************)
(* templates/message-queue-system-v/server.c, client.c and msg.h: orders   *)
(* and results share one queue under one key, orders with the type 1 and   *)
(* results with the process id of the client as their type. SIGINT ends    *)
(* the server, which removes the queue.                                    *)
(***************************************************************************)
EXTENDS Naturals, Sequences, FiniteSets

CONSTANTS Clients, Scenes, None,
          Pid,        \* [Clients -> process ids]: an id is used again
          Cap,        \* the messages the queue holds
          Orders,     \* bound: the orders of a client
          Lives       \* bound: the starts of the server

\* run      the clients that are started
\* mortal   the clients that may be killed
\* crash    the server may end without its handler
\* sigint   the server may get SIGINT
SceneType == [run : SUBSET Clients, mortal : SUBSET Clients, crash : BOOLEAN, sigint : BOOLEAN]

VARIABLES server, client,
          queue,      \* [key, orders, results], see Init
          scene

moving == <<server, client, queue>>
vars == <<moving, scene>>

Pids == {Pid[c] : c \in Clients}

\* The queue is named after the life of the server that created it. msgrcv
\* takes the first message of a type, so each type is a sequence of its own.
NoQueue == [key |-> 0, orders |-> <<>>, results |-> [i \in Pids |-> <<>>]]

Init ==
    /\ scene \in Scenes
    /\ server = [at |-> "down", life |-> 0, job |-> None]
    /\ client = [c \in Clients |-> [at |-> "new", q |-> 0, no |-> 0, got |-> None]]
    /\ queue = NoQueue

At(step) == server.at = step
Serving(step) == server' = [server EXCEPT !.at = step]
Client(c, step) == client[c].at = step
Go(c, from, to) == Client(c, from) /\ client' = [client EXCEPT ![c].at = to]

Results == UNION {{i} \X (1..Len(queue.results[i])) : i \in Pids}
NotFull == Len(queue.orders) + Cardinality(Results) < Cap
There(c) == client[c].q = queue.key
Order(c) == [client |-> c, no |-> client[c].no]

\* sigaction comes first, then msgget with IPC_CREAT.
Start ==
    /\ At("down") /\ server.life < Lives
    /\ server' = [at |-> "msgget", life |-> server.life + 1, job |-> None]
    /\ UNCHANGED <<client, queue>>

ServerMsgget ==
    /\ At("msgget") /\ Serving("receive")
    /\ queue' = IF queue.key = 0 THEN [queue EXCEPT !.key = server.life] ELSE queue
    /\ UNCHANGED client

ServerMsgrcv ==
    /\ At("receive") /\ queue.orders # <<>>
    /\ server' = [server EXCEPT !.at = "send", !.job = Head(queue.orders)]
    /\ queue' = [queue EXCEPT !.orders = Tail(@)]
    /\ UNCHANGED client

\* msgsnd sleeps while the queue is full.
ServerMsgsnd ==
    /\ At("send") /\ NotFull /\ Serving("receive")
    /\ queue' = [queue EXCEPT !.results[Pid[server.job.client]] = Append(@, server.job)]
    /\ UNCHANGED client

\* SIGINT: exithandler removes the queue with all that is in it; before msgget
\* there is none to remove. A crash leaves it.
ServerEnds ==
    /\ ~At("down") /\ Serving("down")
    /\ \/ scene.sigint /\ queue' = (IF At("msgget") THEN queue ELSE NoQueue)
       \/ scene.crash /\ UNCHANGED queue
    /\ UNCHANGED client

ClientMsgget(c) ==
    /\ Client(c, "new") /\ c \in scene.run
    /\ \A d \in Clients : d # c /\ Pid[d] = Pid[c] => client[d].at \in {"new", "end"}
    /\ client' = [client EXCEPT ![c].at = IF queue.key = 0 THEN "end" ELSE "ask",
                                ![c].q = queue.key]
    /\ UNCHANGED <<server, queue>>

\* ende=3 leads to exit; msgsnd sleeps while the queue is full, and when the
\* queue is gone the client says so and waits all the same.
Ask(c) ==
    /\ \/ Go(c, "ask", "end") /\ UNCHANGED queue
       \/ /\ Client(c, "ask") /\ client[c].no < Orders
          /\ client' = [client EXCEPT ![c].at = "wait", ![c].no = @ + 1]
          /\ IF There(c) THEN NotFull /\ queue' = [queue EXCEPT !.orders = Append(@, Order(c)')]
                         ELSE UNCHANGED queue
    /\ UNCHANGED server

\* The first result with the client's process id; EIDRM or EINVAL ends it.
ClientMsgrcv(c) ==
    /\ \/ /\ Client(c, "wait") /\ There(c) /\ queue.results[Pid[c]] # <<>>
          /\ client' = [client EXCEPT ![c].at = "show", ![c].got = Head(queue.results[Pid[c]])]
          /\ queue' = [queue EXCEPT !.results[Pid[c]] = Tail(@)]
       \/ ~There(c) /\ Go(c, "wait", "end") /\ UNCHANGED queue
    /\ UNCHANGED server

Show(c) == Go(c, "show", "ask") /\ UNCHANGED <<server, queue>>

\* Clients have no handler; what they sent stays in the queue.
Kill(c) ==
    /\ c \in scene.mortal /\ client[c].at \notin {"new", "end"} /\ Go(c, client[c].at, "end")
    /\ UNCHANGED <<server, queue>>

Serve == ServerMsgget \/ ServerMsgrcv \/ ServerMsgsnd

Next == /\ \/ Start \/ Serve \/ ServerEnds
           \/ \E c \in Clients : ClientMsgget(c) \/ Ask(c) \/ ClientMsgrcv(c) \/ Show(c) \/ Kill(c)
        /\ UNCHANGED scene

\* The server and a client that waits get on; nobody has to start or to type.
Spec == Init /\ [][Next]_vars /\ WF_moving(Serve)
             /\ \A c \in Clients : WF_moving(ClientMsgrcv(c))
-----------------------------------------------------------------------------
TypeOK ==
    LET OrderType == [client : Clients, no : 1..Orders] IN
    /\ scene \in SceneType
    /\ server \in [at : {"down", "msgget", "receive", "send"}, life : 0..Lives,
                   job : OrderType \cup {None}]
    /\ client \in [Clients -> [at : {"new", "ask", "wait", "show", "end"}, q : 0..Lives,
                               no : 0..Orders, got : OrderType \cup {None}]]
    /\ queue.key \in 0..Lives /\ queue.orders \in Seq(OrderType)
    /\ \A i \in Pids : queue.results[i] \in Seq(OrderType)

\* "Ergebnismessagetyp muss eindeutig sein -> PID" (client.c): the result a
\* client prints belongs to the order it has just sent, across crashes of the
\* server, unless it has the process id of one that was killed: that one's
\* order or result may still be in the queue.
OwnAnswer ==
    /\ TypeOK
    /\ \A c \in Clients : Client(c, "show") =>
          client[c].got = Order(c) \/ \E d \in scene.mortal \ {c} : Pid[d] = Pid[c]

\* A client that waits for a running server gets its result, or learns that
\* the queue is gone, if the queue can hold the orders of all clients: with
\* one client more the server sleeps in msgsnd before a queue full of orders.
Waiting(c) ==
    /\ scene.mortal = {} /\ ~scene.crash /\ Cardinality(scene.run) <= Cap
    /\ Client(c, "wait") /\ ~At("down")
Served(c) == client[c].at \in {"show", "end"}
AllServed == \A c \in Clients : Waiting(c) ~> Served(c)
=============================================================================
