------------------------------- MODULE TcpServer -------------------------------
(***************************************************************************)
(* templates/network-tcp-stream/tcp-server.c and tcp-client.c: a server    *)
(* that forks a child for each of at most MAXCONN clients at a time and    *)
(* refuses the others. main increments numconnections, the handler of      *)
(* SIGCHLD decrements it; an increment loads and stores.                   *)
(***************************************************************************)
EXTENDS Integers, Sequences, FiniteSets

CONSTANTS Clients, Scenes, None,
          MaxConn,    \* MAXCONN
          Backlog     \* listen(s, 5)

\* forkFails  fork() may fail
\* mortal     the clients that may be killed
\* fds        connections the server can hold open
SceneType == [forkFails : BOOLEAN, mortal : SUBSET Clients, fds : Nat]

VARIABLES server,     \* main: see TypeOK
          child,      \* the children, named after their clients
          client,
          backlog,
          scene

moving == <<server, child, client, backlog>>
vars == <<moving, scene>>

At(step) == server.at = step
Main(step) == [server EXCEPT !.at = step]
Client(c, step) == client[c].at = step

Init ==
    /\ scene \in Scenes
    /\ server = [at |-> "down", num |-> 0, reg |-> 0, conn |-> None, open |-> 0,
                 pending |-> FALSE, drift |-> FALSE]
    /\ child = [c \in Clients |-> "none"]
    /\ client = [c \in Clients |-> [at |-> "new", heard |-> None, line |-> None]]
    /\ backlog = <<>>

Listen ==
    /\ At("down")
    /\ server' = Main("accept")
    /\ UNCHANGED <<child, client, backlog>>

\* accept fails when no descriptor is left, and main exits; EINTR repeats it.
Accept ==
    /\ At("accept") /\ backlog # <<>>
    /\ IF server.open = scene.fds
       THEN server' = Main("dead") /\ UNCHANGED backlog
       ELSE /\ server' = [Main("load") EXCEPT !.conn = Head(backlog), !.open = @ + 1]
            /\ backlog' = Tail(backlog)
    /\ UNCHANGED <<child, client>>

\* A slip: a refused connection stays counted.
CountForgetful ==
    /\ \/ At("load") /\ server' = [Main("store") EXCEPT !.reg = server.num]
       \/ At("store") /\ server' = [Main("test") EXCEPT !.num = server.reg + 1]
       \/ At("test") /\ server' = Main(IF server.num > MaxConn THEN "refuse" ELSE "fork")
    /\ UNCHANGED <<child, client, backlog>>

\* numconnections++, the test, and numconnections-- of a refusal.
Count ==
    /\ \/ At("load") /\ server' = [Main("store") EXCEPT !.reg = server.num]
       \/ At("store") /\ server' = [Main("test") EXCEPT !.num = server.reg + 1]
       \/ At("test") /\ server' = Main(IF server.num > MaxConn THEN "load2" ELSE "fork")
       \/ At("load2") /\ server' = [Main("store2") EXCEPT !.reg = server.num]
       \/ At("store2") /\ server' = [Main("refuse") EXCEPT !.num = server.reg - 1]
    /\ UNCHANGED <<child, client, backlog>>

\* Two lines, fclose, and back to accept.
Refuse ==
    /\ At("refuse")
    /\ client' = [client EXCEPT ![server.conn].heard = "refused"]
    /\ server' = [Main("accept") EXCEPT !.open = @ - 1]
    /\ UNCHANGED <<child, backlog>>

\* The parent keeps the connection open. When fork fails it stays counted.
Fork ==
    /\ At("fork")
    /\ \/ child' = [child EXCEPT ![server.conn] = "greet"] /\ server' = Main("accept")
       \/ scene.forkFails /\ UNCHANGED child
          /\ server' = [Main("accept") EXCEPT !.drift = TRUE]
    /\ UNCHANGED <<client, backlog>>

\* handler: one decrement and one wait() per signal. A decrement between load
\* and store of main is lost.
Handler ==
    /\ server.pending /\ ~At("down") /\ ~At("dead")
    /\ server' = [server EXCEPT !.pending = FALSE, !.num = @ - 1,
                                !.drift = @ \/ At("store") \/ At("store2")]
    /\ \E c \in Clients : child[c] = "zombie" /\ child' = [child EXCEPT ![c] = "reaped"]
    /\ UNCHANGED <<client, backlog>>

\* The child greets, answers each line, and exits when its client is gone;
\* SIGCHLD is one signal for any number of children.
Child(c) ==
    /\ \/ /\ child[c] = "greet"
          /\ child' = [child EXCEPT ![c] = "serve"]
          /\ client' = [client EXCEPT ![c].heard = "hello"]
          /\ UNCHANGED server
       \/ /\ child[c] = "serve" /\ client[c].line = "sent"
          /\ client' = [client EXCEPT ![c].line = "echoed"]
          /\ UNCHANGED <<server, child>>
       \/ /\ child[c] = "serve" /\ Client(c, "end")
          /\ child' = [child EXCEPT ![c] = "zombie"]
          /\ server' = [server EXCEPT !.pending = TRUE, !.drift = @ \/ server.pending]
          /\ UNCHANGED client
    /\ UNCHANGED backlog

Children(steps) == {c \in Clients : child[c] \in steps}

\* No child closes the socket main listens on, and connections that nobody
\* accepts wait as long as one of them lives.
Listening == ~At("down") /\ (At("dead") => Children({"greet", "serve"}) # {})

Connect(c) ==
    /\ Client(c, "new")
    /\ IF Listening
       THEN /\ Len(backlog) < Backlog
            /\ client' = [client EXCEPT ![c].at = "hello"]
            /\ backlog' = Append(backlog, c)
       ELSE client' = [client EXCEPT ![c].at = "end"] /\ UNCHANGED backlog
    /\ UNCHANGED <<server, child>>

\* main is dead and the kernel closes a connection that no child serves.
Dropped(c) ==
    /\ At("dead") /\ Client(c, "hello") /\ client[c].heard = None /\ child[c] = "none"
    /\ Listening => \A i \in 1..Len(backlog) : backlog[i] # c
    /\ client' = [client EXCEPT ![c].at = "end"]
    /\ UNCHANGED <<server, child, backlog>>

\* The client reads the two lines, then sends a line and reads it again until
\* ENDE; a refused one leaves.

Talk(c) ==
    /\ \/ /\ Client(c, "hello") /\ client[c].heard # None
          /\ client' = [client EXCEPT ![c].at = IF client[c].heard = "hello" THEN "stdin" ELSE "end"]
       \/ /\ Client(c, "stdin")
          /\ \/ client' = [client EXCEPT ![c].at = "read", ![c].line = "sent"]
             \/ client' = [client EXCEPT ![c].at = "end"]
       \/ /\ Client(c, "read") /\ client[c].line = "echoed"
          /\ client' = [client EXCEPT ![c].at = "stdin", ![c].line = None]
    /\ UNCHANGED <<server, child, backlog>>

Kill(c) ==
    /\ c \in scene.mortal /\ client[c].at \notin {"new", "end"}
    /\ client' = [client EXCEPT ![c].at = "end", ![c].line = None]
    /\ UNCHANGED <<server, child, backlog>>

Serve == Accept \/ Count \/ Refuse \/ Fork \/ Handler

Next == /\ \/ Listen \/ Serve
           \/ \E c \in Clients : Child(c) \/ Connect(c) \/ Dropped(c) \/ Talk(c) \/ Kill(c)
        /\ UNCHANGED scene

Spec == Init /\ [][Next]_vars /\ WF_moving(Serve) /\ \A c \in Clients : WF_moving(Child(c))
-----------------------------------------------------------------------------
TypeOK ==
    /\ scene \in SceneType
    /\ server \in [at : {"down", "accept", "load", "store", "test", "load2", "store2",
                         "refuse", "fork", "dead"},
                   num : Int, reg : Int,
                   conn : Clients \cup {None},   \* the connection at hand
                   open : 0..scene.fds,             \* connections held open
                   pending : BOOLEAN,            \* SIGCHLD
                   drift : BOOLEAN]              \* a decrement was lost
    /\ child \in [Clients -> {"none", "greet", "serve", "zombie", "reaped"}]
    /\ client \in [Clients -> [at : {"new", "hello", "stdin", "read", "end"},
                               heard : {None, "hello", "refused"},
                               line : {None, "sent", "echoed"}]]

\* "The server can handle up to two simultaneous connections" (README.md):
\* never more, whatever happens to the counter.
Live == Children({"greet", "serve"})
AtMostMaxConn == Cardinality(Live) <= MaxConn

\* And the counter is right, so that "any additional connection" only is
\* refused, until children end together, one ends between load and store, or
\* fork fails.
CounterRight ==
    /\ TypeOK /\ AtMostMaxConn
    /\ ~server.drift => server.num = Cardinality(Children({"greet", "serve", "zombie"}))
           + IF server.at \in {"test", "load2", "store2", "fork"} THEN 1 ELSE 0

\* A client that is connected hears something (tcp-server.c, loop of main),
\* as long as fork works and the server has descriptors.
Waiting(c) == Client(c, "hello") /\ ~scene.forkFails
Heard(c) == client[c].heard # None \/ At("dead")
Answered == \A c \in Clients : Waiting(c) ~> Heard(c)
=============================================================================
