------------------------------ MODULE NumberServer ------------------------------
(***************************************************************************)
(* templates/socket-stream-server/iterative-server.c, parallel-server.c    *)
(* and client.c: a server that gives each client a number. The parallel    *)
(* one takes the number and forks a child that writes it. Its handler of   *)
(* SIGCHLD does not put back the errno that its waitpid() overwrites.      *)
(***************************************************************************)
EXTENDS Naturals, Sequences, FiniteSets

CONSTANTS Clients, Scenes, None,
          Backlog     \* listen(mysock, 5)

\* parallel   which of the two servers runs
\* forkFails  fork() may fail
\* mortal     the clients that may be killed
SceneType == [parallel : BOOLEAN, forkFails : BOOLEAN, mortal : SUBSET Clients]

VARIABLES server,     \* [at, number, conn, buf, pending]
          child,      \* [Clients -> [at, buf]], named after their clients
          client,     \* [Clients -> [at, sock, closed, got]]
          backlog,
          scene

moving == <<server, child, client, backlog>>
vars == <<moving, scene>>

Init ==
    /\ scene \in Scenes
    /\ server = [at |-> "down", number |-> 0, conn |-> None, buf |-> None, pending |-> FALSE]
    /\ child = [c \in Clients |-> [at |-> "none", buf |-> None]]
    /\ client = [c \in Clients |-> [at |-> "new", sock |-> None, closed |-> FALSE, got |-> None]]
    /\ backlog = <<>>

At(step) == server.at = step
Main(step) == [server EXCEPT !.at = step]
Gone(c) == client[c].at = "end"

\* Bytes for c; the write of one who has no reader any more raises SIGPIPE.
Write(c, number) == ~Gone(c) /\ client' = [client EXCEPT ![c].sock = number]
Close(c) == client' = [client EXCEPT ![c].closed = TRUE]

\* remove, bind, listen; main steps are named after what comes next: "errno" is
\* the test of a failed accept(), "ECHILD" the same with another value in errno.
Listen == At("down") /\ server' = Main("accept") /\ UNCHANGED <<child, client, backlog>>

Accept ==
    /\ At("accept") /\ backlog # <<>>
    /\ server' = [Main("number") EXCEPT !.conn = Head(backlog)]
    /\ backlog' = Tail(backlog)
    /\ UNCHANGED <<child, client>>

\* A slip: the child counts, in its own memory.
NumberInChild ==
    /\ At("number")
    /\ server' = [Main(IF scene.parallel THEN "fork" ELSE "write") EXCEPT
                    !.buf = server.number, !.number = IF scene.parallel THEN @ ELSE @ + 1]
    /\ UNCHANGED <<child, client, backlog>>

Number ==
    /\ At("number")
    /\ server' = [Main(IF scene.parallel THEN "fork" ELSE "write")
                    EXCEPT !.buf = server.number, !.number = @ + 1]
    /\ UNCHANGED <<child, client, backlog>>

\* The server dies: its sockets are closed.
Dies ==
    /\ server' = Main("dead") /\ backlog' = <<>>
    /\ client' = [c \in Clients |->
                    IF (c = server.conn /\ child[c].at = "none")
                         \/ \E i \in 1..Len(backlog) : backlog[i] = c
                    THEN [client[c] EXCEPT !.closed = TRUE] ELSE client[c]]
    /\ UNCHANGED child

\* The iterative server writes and closes itself.
Reply ==
    \/ /\ At("write") /\ Write(server.conn, server.buf)
       /\ server' = Main("close") /\ UNCHANGED <<child, backlog>>
    \/ At("write") /\ Gone(server.conn) /\ Dies
    \/ /\ At("close") /\ Close(server.conn)
       /\ server' = [Main("accept") EXCEPT !.conn = None] /\ UNCHANGED <<child, backlog>>

\* The parallel one leaves that to a child, and exits when fork fails.
Fork ==
    /\ At("fork")
    /\ \/ /\ child' = [child EXCEPT ![server.conn] = [at |-> "write", buf |-> server.buf]]
          /\ server' = [Main("accept") EXCEPT !.conn = None]
          /\ UNCHANGED <<client, backlog>>
       \/ scene.forkFails /\ Dies

Child(c) ==
    /\ \/ /\ child[c].at = "write" /\ Write(c, child[c].buf)
          /\ child' = [child EXCEPT ![c].at = "close"] /\ UNCHANGED server
       \/ /\ \/ child[c].at = "close"
             \/ child[c].at = "write" /\ Gone(c)
          /\ Close(c)
          /\ child' = [child EXCEPT ![c].at = "zombie"]
          /\ server' = [server EXCEPT !.pending = TRUE]
    /\ UNCHANGED backlog

Zombies == {c \in Clients : child[c].at = "zombie"}
Running == {c \in Clients : child[c].at \in {"write", "close"}}

\* read_chldstate: all children that have ended. The signal may end an accept()
\* with EINTR. When it comes before that is looked at, and there is no child any
\* more, waitpid() has put ECHILD in its place.
ReadChldstate ==
    /\ server.pending /\ ~At("dead")
    /\ \E next \in CASE At("accept") -> {"accept", "errno"}
                     [] At("errno") /\ Running = {} -> {"ECHILD"}
                     [] OTHER -> {server.at} :
          server' = [Main(next) EXCEPT !.pending = FALSE]
    /\ child' = [c \in Clients |-> IF c \in Zombies THEN [child[c] EXCEPT !.at = "reaped"]
                                                     ELSE child[c]]
    /\ UNCHANGED <<client, backlog>>

\* After EINTR accept is begun again, after any other error the server exits.
Again ==
    \/ At("errno") /\ server' = Main("accept") /\ UNCHANGED <<child, client, backlog>>
    \/ At("ECHILD") /\ Dies

\* The client connects, reads once, whatever comes, and prints it.
Connect(c) ==
    /\ client[c].at = "new"
    /\ IF At("down") \/ At("dead")
       THEN client' = [client EXCEPT ![c].at = "end"] /\ UNCHANGED backlog
       ELSE /\ Len(backlog) < Backlog
            /\ client' = [client EXCEPT ![c].at = "read"]
            /\ backlog' = Append(backlog, c)
    /\ UNCHANGED <<server, child>>

Read(c) ==
    /\ client[c].at = "read" /\ (client[c].sock # None \/ client[c].closed)
    /\ client' = [client EXCEPT ![c].at = "end", ![c].got = client[c].sock]
    /\ UNCHANGED <<server, child, backlog>>

Kill(c) ==
    /\ c \in scene.mortal /\ client[c].at = "read"
    /\ client' = [client EXCEPT ![c].at = "end"]
    /\ UNCHANGED <<server, child, backlog>>

Serve == Accept \/ Number \/ Reply \/ Fork \/ ReadChldstate \/ Again

Next == /\ \/ Listen \/ Serve
           \/ \E c \in Clients : Child(c) \/ Connect(c) \/ Read(c) \/ Kill(c)
        /\ UNCHANGED scene

Moves(c) == Child(c) \/ Read(c)
Spec == Init /\ [][Next]_vars /\ WF_moving(Serve) /\ \A c \in Clients : WF_moving(Moves(c))
-----------------------------------------------------------------------------
TypeOK ==
    LET Numbers == 0..Cardinality(Clients) IN
    /\ scene \in SceneType
    /\ server \in [at : {"down", "accept", "number", "write", "close", "fork", "errno", "ECHILD",
                         "dead"},
                   number : Numbers, conn : Clients \cup {None}, buf : Numbers \cup {None},
                   pending : BOOLEAN]
    /\ child \in [Clients -> [at : {"none", "write", "close", "zombie", "reaped"},
                              buf : Numbers \cup {None}]]
    /\ client \in [Clients -> [at : {"new", "read", "end"}, sock : Numbers \cup {None},
                               closed : BOOLEAN, got : Numbers \cup {None}]]

\* "liefert jedem Anfrager genau eine eindeutige Nummer aus" (iterative-server.c,
\* parallel-server.c): no number is printed twice, nor taken for two clients.
Unique ==
    /\ \A c, d \in Clients : c # d /\ client[c].got # None => client[c].got # client[d].got
    /\ \A c, d \in Clients : c # d /\ client[c].sock # None => client[c].sock # child[d].buf

\* No child that has ended is forgotten, however signals run together
\* (parallel-server.c: "Vermeidung von Zombies").
Noticed == Zombies # {} => server.pending \/ At("dead")
NoneForgotten == TypeOK /\ Noticed

\* A client that is connected gets a number, or is killed itself, or the last
\* child ends between accept()'s return and the test of errno and the server takes
\* it for an error; killed clients take the iterative server along, a failing fork
\* the parallel one. Nothing else ends the server: accept() is begun again after
\* each child that interrupts it.
Waiting(c) == client[c].at = "read" /\ ~scene.forkFails /\ (scene.parallel \/ scene.mortal = {})
Overwritten == scene.parallel /\ At("dead")
Served(c) == client[c].got # None \/ (c \in scene.mortal /\ Gone(c)) \/ Overwritten
AllServed == \A c \in Clients : Waiting(c) ~> Served(c)
=============================================================================
