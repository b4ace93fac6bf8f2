---------------------------- MODULE ServiceProofs ----------------------------
(***************************************************************************)
(* Proofs about the programs of Services, which serve clients, for all     *)
(* values of their constants.                                              *)
(***************************************************************************)
EXTENDS Services, FiniteSetTheorems, SequenceTheorems, TLAPS

LEMMA NoneIsNoClient == None \notin Clients /\ None \notin Nat
  BY NoneAssumption

\* A sequence that gets one more.
LEMMA AppendFacts ==
    ASSUME NEW S, NEW s \in Seq(S), NEW o \in S
    PROVE  /\ Append(s, o) \in Seq(S) /\ Len(Append(s, o)) = Len(s) + 1 /\ Len(s) \in Nat
           /\ \A i \in 1..Len(s) : Append(s, o)[i] = s[i]
           /\ Append(s, o)[Len(s) + 1] = o
           /\ \A i \in 1..Len(s) + 1 : i \in 1..Len(s) \/ i = Len(s) + 1
  OBVIOUS

\* A sequence that loses its head.
LEMMA TailFacts ==
    ASSUME NEW S, NEW s \in Seq(S), s # <<>>
    PROVE  /\ s[1] \in S /\ Head(s) = s[1] /\ Tail(s) \in Seq(S) /\ Len(s) \in Nat /\ Len(s) >= 1
           /\ Len(Tail(s)) = Len(s) - 1
           /\ \A i \in 1..Len(Tail(s)) : Tail(s)[i] = s[i + 1] /\ i + 1 \in 1..Len(s) /\ i + 1 # 1
  OBVIOUS

\* The instances count the elements of a set as FiniteSets does.
LEMMA SameCount ==
    \A S : /\ Tcp!Cardinality(S) = Cardinality(S)
           /\ Number!Cardinality(S) = Cardinality(S)
  BY DEF Tcp!Cardinality, Number!Cardinality, Cardinality
-----------------------------------------------------------------------------
(* TcpServer, for any number of clients, any MAXCONN, failing forks and    *)
(* kills: the counter may drift, but only upwards, so that there are never *)
(* more than MAXCONN children.                                             *)

\* A SIGCHLD that has not been delivered stands for one decrement at most.
Owed == IF server.pending THEN 1 ELSE 0

\* What the proof needs to know of types.
TcpServerOK ==
    server \in [at : {"down", "accept", "load", "store", "test", "load2", "store2",
                      "refuse", "fork", "dead"},
                num : Int, reg : Int, conn : Clients \cup {None}, open : Int,
                pending : BOOLEAN, drift : BOOLEAN]
TcpChildOK == child \in [Clients -> {"none", "greet", "serve", "zombie", "reaped"}]
QueueOK == backlog \in Seq(Clients)
           /\ (server.at \in {"load", "store", "test", "fork"} => server.conn \in Clients)

\* Between load and store the register holds what will be the counter. From
\* store on, the client at hand is counted as well.
Covered(n) ==
    LET used == n + Owed IN
    /\ server.at \in {"down", "accept", "load", "refuse", "dead"} => used <= server.num
    /\ server.at = "store" => used <= server.reg
    /\ server.at \in {"test", "load2", "fork"} => used + 1 <= server.num
    /\ server.at = "store2" => used + 1 <= server.reg
    /\ server.at = "fork" => server.num <= MaxConn

TcpInv ==
    /\ TcpServerOK /\ TcpChildOK /\ QueueOK
    /\ Covered(Cardinality(Tcp!Live)) /\ Tcp!AtMostMaxConn

\* The counter is ahead of the children when main and its handler begin.
LEMMA TcpInit ==
    ASSUME IsFiniteSet(Clients), MaxConn \in Nat, Tcp!Init
    PROVE  TcpInv
<1>1. Tcp!Live = {}
  BY DEF Tcp!Init, Tcp!Live, Tcp!Children
<1>2. Cardinality(Tcp!Live) = 0
  BY <1>1, FS_EmptySet
<1>3. TcpServerOK /\ server.at = "down" /\ server.num = 0 /\ ~server.pending
  BY DEF Tcp!Init, TcpServerOK
<1>4. TcpChildOK /\ QueueOK
  BY <1>3 DEF Tcp!Init, TcpChildOK, QueueOK
<1>. QED
  BY <1>2, <1>3, <1>4, SameCount DEF TcpInv, Covered, Owed, Tcp!AtMostMaxConn

\* Children are as many as clients at most, so they can be counted.
LEMMA LiveFinite ==
    ASSUME IsFiniteSet(Clients)
    PROVE  IsFiniteSet(Tcp!Live) /\ Cardinality(Tcp!Live) \in Nat
  BY FS_Subset, FS_CardinalityType DEF Tcp!Live, Tcp!Children

\* Types, one variable at a time.
LEMMA TcpServerStep ==
    ASSUME TcpServerOK, QueueOK, [Tcp!Next]_(Tcp!vars)
    PROVE  TcpServerOK'
<1>. USE DEF TcpServerOK, Tcp!Main, Tcp!At
<1>1. CASE Tcp!Listen
  BY <1>1 DEF Tcp!Listen
<1>2. CASE Tcp!Accept
  <2>1. server.open + 1 \in Int
    OBVIOUS
  <2>2. backlog # <<>> => Head(backlog) \in Clients
    BY DEF QueueOK
  <2>. QED
    BY <1>2, <2>1, <2>2 DEF Tcp!Accept
<1>3. CASE Tcp!Count
  <2>1. server.reg + 1 \in Int /\ server.reg - 1 \in Int
    OBVIOUS
  <2>. QED
    BY <1>3, <2>1 DEF Tcp!Count
<1>4. CASE Tcp!Refuse
  <2>1. server.open - 1 \in Int
    OBVIOUS
  <2>. QED
    BY <1>4, <2>1 DEF Tcp!Refuse
<1>5. CASE Tcp!Fork
  BY <1>5 DEF Tcp!Fork
<1>6. CASE Tcp!Handler
  <2>1. server.num - 1 \in Int
    OBVIOUS
  <2>. QED
    BY <1>6, <2>1 DEF Tcp!Handler
<1>7. ASSUME NEW c \in Clients, Tcp!Child(c) PROVE TcpServerOK'
  BY <1>7 DEF Tcp!Child
<1>8. CASE UNCHANGED server
  BY <1>8
<1>. QED
  BY <1>1, <1>2, <1>3, <1>4, <1>5, <1>6, <1>7, <1>8
     DEF Tcp!Next, Tcp!Serve, Tcp!Connect, Tcp!Dropped, Tcp!Talk, Tcp!Kill, Tcp!vars, Tcp!moving

\* Types of the children.
LEMMA ChildTypeStep ==
    ASSUME TcpChildOK, [Tcp!Next]_(Tcp!vars)
    PROVE  TcpChildOK'
<1>1. CASE Tcp!Fork
  BY <1>1 DEF Tcp!Fork, TcpChildOK
<1>2. CASE Tcp!Handler
  BY <1>2 DEF Tcp!Handler, TcpChildOK
<1>3. ASSUME NEW c \in Clients, Tcp!Child(c) PROVE TcpChildOK'
  BY <1>3 DEF Tcp!Child, TcpChildOK
<1>4. CASE UNCHANGED child
  BY <1>4 DEF TcpChildOK
<1>. QED
  BY <1>1, <1>2, <1>3, <1>4 DEF Tcp!Next, Tcp!Serve, Tcp!Listen, Tcp!Accept, Tcp!Count, Tcp!Refuse, Tcp!Connect, Tcp!Dropped,
     Tcp!Talk, Tcp!Kill, Tcp!vars, Tcp!moving

\* Types of the backlog, and a client at hand between accept and fork.
LEMMA QueueStep ==
    ASSUME TcpServerOK, QueueOK, [Tcp!Next]_(Tcp!vars)
    PROVE  QueueOK'
<1>. USE DEF QueueOK, Tcp!Main, Tcp!At
<1>1. CASE Tcp!Listen
  BY <1>1 DEF Tcp!Listen, TcpServerOK
<1>2. CASE Tcp!Accept
  <2>1. Head(backlog) \in Clients /\ Tail(backlog) \in Seq(Clients)
    BY <1>2 DEF Tcp!Accept
  <2>. QED
    BY <1>2, <2>1 DEF Tcp!Accept, TcpServerOK
<1>3. CASE Tcp!Count
  BY <1>3 DEF Tcp!Count, TcpServerOK
<1>4. CASE Tcp!Refuse
  BY <1>4 DEF Tcp!Refuse, TcpServerOK
<1>5. CASE Tcp!Fork
  BY <1>5 DEF Tcp!Fork, TcpServerOK
<1>6. CASE Tcp!Handler
  BY <1>6 DEF Tcp!Handler, TcpServerOK
<1>7. ASSUME NEW c \in Clients, Tcp!Child(c) PROVE QueueOK'
  BY <1>7 DEF Tcp!Child, TcpServerOK
<1>8. ASSUME NEW c \in Clients, Tcp!Connect(c) PROVE QueueOK'
  <2>1. Append(backlog, c) \in Seq(Clients)
    OBVIOUS
  <2>. QED
    BY <1>8, <2>1 DEF Tcp!Connect
<1>9. CASE UNCHANGED <<server, backlog>>
  BY <1>9
<1>. QED
  BY <1>1, <1>2, <1>3, <1>4, <1>5, <1>6, <1>7, <1>8, <1>9
     DEF Tcp!Next, Tcp!Serve, Tcp!Dropped, Tcp!Talk, Tcp!Kill, Tcp!vars, Tcp!moving
-----------------------------------------------------------------------------
\* fork adds one child at most, for the client at hand.
LEMMA LiveFork ==
    ASSUME IsFiniteSet(Clients), TcpChildOK, Tcp!Fork, server.conn \in Clients
    PROVE  Cardinality(Tcp!Live') <= Cardinality(Tcp!Live) + 1
<1>1. Tcp!Live' = Tcp!Live \/ Tcp!Live' = Tcp!Live \cup {server.conn}
  BY DEF Tcp!Live, Tcp!Children, Tcp!Fork, TcpChildOK
<1>2. Cardinality(Tcp!Live \cup {server.conn}) = Cardinality(Tcp!Live)
        \/ Cardinality(Tcp!Live \cup {server.conn}) = Cardinality(Tcp!Live) + 1
  BY LiveFinite, FS_AddElement
<1>3. CASE Tcp!Live' = Tcp!Live
  BY <1>3, LiveFinite
<1>4. CASE Tcp!Live' = Tcp!Live \cup {server.conn}
  BY <1>2, <1>4, LiveFinite
<1>. QED
  BY <1>1, <1>3, <1>4

\* A child that ends leaves one less; nothing else it does changes the number.
LEMMA LiveChild ==
    ASSUME IsFiniteSet(Clients), TcpChildOK, NEW c \in Clients, Tcp!Child(c)
    PROVE  \/ Tcp!Live' = Tcp!Live /\ UNCHANGED server
           \/ /\ Cardinality(Tcp!Live') = Cardinality(Tcp!Live) - 1
              /\ server' = [server EXCEPT !.pending = TRUE, !.drift = @ \/ server.pending]
<1>1. CASE child[c] = "serve" /\ Tcp!Client(c, "end") /\ child' = [child EXCEPT ![c] = "zombie"]
           /\ server' = [server EXCEPT !.pending = TRUE, !.drift = @ \/ server.pending]
  <2>1. Tcp!Live' = Tcp!Live \ {c} /\ c \in Tcp!Live
    BY <1>1 DEF Tcp!Live, Tcp!Children, TcpChildOK
  <2>. QED
    BY <1>1, <2>1, LiveFinite, FS_RemoveElement
<1>2. CASE (UNCHANGED child \/ (child[c] = "greet" /\ child' = [child EXCEPT ![c] = "serve"]))
           /\ UNCHANGED server
  BY <1>2 DEF Tcp!Live, Tcp!Children, TcpChildOK
<1>. QED
  BY <1>1, <1>2 DEF Tcp!Child

\* The handler collects a child that has ended.
LEMMA LiveHandler ==
    ASSUME TcpChildOK, Tcp!Handler
    PROVE  Tcp!Live' = Tcp!Live
  BY DEF Tcp!Handler, Tcp!Live, Tcp!Children, TcpChildOK

\* Whatever main, its handler and the children do, the counter covers them.
LEMMA CoveredStep ==
    ASSUME IsFiniteSet(Clients), MaxConn \in Nat, TcpInv, [Tcp!Next]_(Tcp!vars)
    PROVE  Covered(Cardinality(Tcp!Live))' /\ Tcp!AtMostMaxConn'
<1>. DEFINE n == Cardinality(Tcp!Live)
<1>. SUFFICES Covered(n)' /\ n' <= MaxConn
  BY SameCount DEF Tcp!AtMostMaxConn
<1>0. n' \in Nat
  <2>1. IsFiniteSet(Tcp!Live')
    BY FS_Subset DEF Tcp!Live, Tcp!Children
  <2>. QED
    BY <2>1, FS_CardinalityType
<1>1. n \in Nat /\ Covered(n) /\ n <= MaxConn /\ TcpServerOK /\ TcpChildOK
  BY LiveFinite, SameCount DEF TcpInv, Tcp!AtMostMaxConn
<1>2. server.num \in Int /\ server.reg \in Int
  BY <1>1 DEF TcpServerOK
<1>3. Tcp!Live' = Tcp!Live => n' = n
  OBVIOUS
<1>. HIDE DEF n
<1>. USE DEF Covered, Owed
<1>4. CASE UNCHANGED <<server, child>>
  <2>1. Tcp!Live' = Tcp!Live
    BY <1>4 DEF Tcp!Live, Tcp!Children
  <2>. QED
    BY <1>0, <1>1, <1>2, <1>3, <1>4, <2>1
<1>5. CASE Tcp!Listen \/ Tcp!Accept \/ Tcp!Refuse
  <2>1. Tcp!Live' = Tcp!Live
    BY <1>5 DEF Tcp!Listen, Tcp!Accept, Tcp!Refuse, Tcp!Live, Tcp!Children
  <2>2. /\ server.at \in {"down", "accept", "refuse"}
        /\ server'.at \in {"accept", "load", "dead"}
        /\ server'.num = server.num /\ server'.pending = server.pending
    BY <1>1, <1>5 DEF Tcp!Listen, Tcp!Accept, Tcp!Refuse, Tcp!Main, Tcp!At, TcpServerOK
  <2>. QED
    BY <1>0, <1>1, <1>2, <1>3, <2>1, <2>2
<1>6. CASE Tcp!Count
  <2>1. Tcp!Live' = Tcp!Live
    BY <1>6 DEF Tcp!Count, Tcp!Live, Tcp!Children
  <2>2. /\ server'.pending = server.pending
        /\ \/ Tcp!At("load") /\ server'.at = "store" /\ server'.reg = server.num
           \/ Tcp!At("store") /\ server'.at = "test" /\ server'.num = server.reg + 1
           \/ /\ Tcp!At("test") /\ server'.num = server.num
              /\ server'.at = IF server.num > MaxConn THEN "load2" ELSE "fork"
           \/ Tcp!At("load2") /\ server'.at = "store2" /\ server'.reg = server.num
           \/ Tcp!At("store2") /\ server'.at = "refuse" /\ server'.num = server.reg - 1
    BY <1>1, <1>6 DEF Tcp!Count, Tcp!Main, Tcp!At, TcpServerOK
  <2>. QED
    BY <1>0, <1>1, <1>2, <1>3, <2>1, <2>2 DEF Tcp!At
<1>7. CASE Tcp!Fork
  <2>1. n' <= n + 1
    BY <1>1, <1>7, LiveFork DEF TcpInv, QueueOK, Tcp!Fork, Tcp!At, n
  <2>2. /\ server.at = "fork" /\ server'.at = "accept"
        /\ server'.num = server.num /\ server'.pending = server.pending
    BY <1>1, <1>7 DEF Tcp!Fork, Tcp!Main, Tcp!At, TcpServerOK
  <2>. QED
    BY <1>0, <1>1, <1>2, <2>1, <2>2
<1>8. CASE Tcp!Handler
  <2>1. Tcp!Live' = Tcp!Live
    BY <1>1, <1>8, LiveHandler
  <2>2. /\ server.pending /\ server'.pending = FALSE
        /\ server'.at = server.at /\ server'.reg = server.reg /\ server'.num = server.num - 1
    BY <1>1, <1>8 DEF Tcp!Handler, TcpServerOK
  <2>. QED
    BY <1>0, <1>1, <1>2, <1>3, <2>1, <2>2
<1>9. ASSUME NEW c \in Clients, Tcp!Child(c) PROVE Covered(n)' /\ n' <= MaxConn
  <2>1. CASE Tcp!Live' = Tcp!Live /\ UNCHANGED server
    BY <1>0, <1>1, <1>2, <1>3, <2>1
  <2>2. CASE /\ n' = n - 1
             /\ server' = [server EXCEPT !.pending = TRUE, !.drift = @ \/ server.pending]
    <3>1. /\ server'.pending = TRUE
          /\ server'.at = server.at /\ server'.reg = server.reg /\ server'.num = server.num
      BY <1>1, <2>2 DEF TcpServerOK
    <3>. QED
      BY <1>0, <1>1, <1>2, <2>2, <3>1
  <2>. QED
    BY <1>1, <1>9, <2>1, <2>2, LiveChild DEF n
<1>. QED
  BY <1>4, <1>5, <1>6, <1>7, <1>8, <1>9
     DEF Tcp!Next, Tcp!Serve, Tcp!Connect, Tcp!Dropped, Tcp!Talk, Tcp!Kill, Tcp!vars, Tcp!moving

\* "The server can handle up to two simultaneous connections" (README.md): no
\* more than MAXCONN children at any time, for any number of clients, whatever
\* decrements are lost.
THEOREM NeverMoreThanMaxConn ==
    ASSUME IsFiniteSet(Clients), MaxConn \in Nat
    PROVE  Tcp!Spec => []Tcp!AtMostMaxConn
<1>1. Tcp!Init => TcpInv
  BY TcpInit
<1>2. TcpInv /\ [Tcp!Next]_(Tcp!vars) => TcpInv'
  BY TcpServerStep, ChildTypeStep, QueueStep, CoveredStep DEF TcpInv
<1>3. TcpInv => Tcp!AtMostMaxConn
  BY DEF TcpInv
<1>. QED
  BY <1>1, <1>2, <1>3, PTL DEF Tcp!Spec
-----------------------------------------------------------------------------
(* The counter is exact until a decrement is lost. *)

Kids == Tcp!Children({"greet", "serve", "zombie"})
Counting == {"test", "load2", "store2", "fork"}
Held == Counting \cup {"load", "store", "refuse"}

TcpClientOK ==
    /\ scene \in Tcp!SceneType
    /\ client \in [Clients -> [at : {"new", "hello", "stdin", "read", "end"},
                               heard : {None, "hello", "refused"},
                               line : {None, "sent", "echoed"}]]
    /\ server.open \in 0..scene.fds
    /\ server.at \in Held => server.open >= 1 /\ server.conn \in Clients

\* A client waits in the backlog once, and has no child before its connection
\* has been accepted.
Fresh ==
    /\ backlog \in Seq(Clients)
    /\ \A i, j \in 1..Len(backlog) : i # j => backlog[i] # backlog[j]
    /\ \A i \in 1..Len(backlog) :
          child[backlog[i]] = "none" /\ client[backlog[i]].at # "new"
    /\ server.at \in {"load", "store", "test", "fork"} =>
          /\ child[server.conn] = "none" /\ client[server.conn].at # "new"
          /\ \A i \in 1..Len(backlog) : backlog[i] # server.conn
    /\ \A c \in Clients : client[c].at = "new" => child[c] = "none"

\* Between load and store the register holds the counter, or a decrement is
\* lost at the store.
Exact(n) ==
    ~server.drift =>
       /\ server.num = n + (IF server.at \in Counting THEN 1 ELSE 0)
       /\ server.at \in {"store", "store2"} => server.reg = server.num

ExactInv == TcpServerOK /\ TcpChildOK /\ TcpClientOK /\ Fresh /\ Exact(Cardinality(Kids))

LEMMA KidsFinite ==
    ASSUME IsFiniteSet(Clients)
    PROVE  IsFiniteSet(Kids) /\ Cardinality(Kids) \in Nat
  BY FS_Subset, FS_CardinalityType DEF Kids, Tcp!Children

LEMMA ExactInit ==
    ASSUME ScenesOf("tcp") \subseteq Tcp!SceneType, Tcp!Init
    PROVE  ExactInv
<1>1. Kids = {}
  BY DEF Tcp!Init, Kids, Tcp!Children
<1>2. Cardinality(Kids) = 0
  BY <1>1, FS_EmptySet
<1>3. TcpServerOK /\ TcpChildOK
  BY DEF Tcp!Init, TcpServerOK, TcpChildOK
<1>4. TcpClientOK
  BY DEF Tcp!Init, TcpClientOK, Tcp!SceneType, Held, Counting
<1>5. Fresh
  BY DEF Tcp!Init, Fresh
<1>6. Exact(0)
  BY DEF Tcp!Init, Exact, Counting
<1>. QED
  BY <1>2, <1>3, <1>4, <1>5, <1>6 DEF ExactInv

\* Types of the clients, and the connections held open.
LEMMA TcpClientStep ==
    ASSUME TcpServerOK, QueueOK, TcpClientOK, [Tcp!Next]_(Tcp!vars)
    PROVE  TcpClientOK'
<1>. USE DEF TcpClientOK, Tcp!Main, Tcp!At, Held, Counting
<1>1. scene' = scene /\ scene.fds \in Nat
  BY DEF Tcp!Next, Tcp!vars, Tcp!SceneType
<1>2. CASE Tcp!Listen
  BY <1>1, <1>2 DEF Tcp!Listen, TcpServerOK
<1>3. CASE Tcp!Accept
  <2>1. CASE server.open = scene.fds
    BY <1>1, <1>3, <2>1 DEF Tcp!Accept, TcpServerOK
  <2>2. CASE server.open # scene.fds
    <3>1. server.open + 1 \in 0..scene.fds /\ server.open + 1 >= 1
      BY <1>1, <2>2
    <3>2. Head(backlog) \in Clients
      BY <1>3 DEF QueueOK, Tcp!Accept
    <3>3. server' = [Tcp!Main("load") EXCEPT !.conn = Head(backlog), !.open = @ + 1]
      BY <1>3, <2>2 DEF Tcp!Accept
    <3>4. server'.open = server.open + 1 /\ server'.conn = Head(backlog) /\ client' = client
      BY <1>3, <3>3 DEF TcpServerOK, Tcp!Accept
    <3>. QED
      BY <1>1, <3>1, <3>2, <3>4
  <2>. QED
    BY <2>1, <2>2
<1>4. CASE Tcp!Count
  BY <1>1, <1>4 DEF Tcp!Count, TcpServerOK
<1>5. CASE Tcp!Refuse
  <2>1. server.open - 1 \in 0..scene.fds
    BY <1>1, <1>5 DEF Tcp!Refuse
  <2>. QED
    BY <1>1, <1>5, <2>1 DEF Tcp!Refuse, TcpServerOK
<1>6. CASE Tcp!Fork
  BY <1>1, <1>6 DEF Tcp!Fork, TcpServerOK
<1>7. CASE Tcp!Handler
  BY <1>1, <1>7 DEF Tcp!Handler, TcpServerOK
<1>8. ASSUME NEW c \in Clients, Tcp!Child(c) \/ Tcp!Connect(c) \/ Tcp!Dropped(c) \/ Tcp!Talk(c) \/ Tcp!Kill(c)
      PROVE  TcpClientOK'
  <2>1. server'.open = server.open /\ server'.at = server.at /\ server'.conn = server.conn
    BY <1>8 DEF Tcp!Child, Tcp!Connect, Tcp!Dropped, Tcp!Talk, Tcp!Kill, TcpServerOK
  <2>2. CASE Tcp!Child(c)
    BY <1>1, <2>1, <2>2 DEF Tcp!Child
  <2>3. CASE Tcp!Connect(c)
    BY <1>1, <2>1, <2>3 DEF Tcp!Connect
  <2>4. CASE Tcp!Dropped(c)
    BY <1>1, <2>1, <2>4 DEF Tcp!Dropped
  <2>5. CASE Tcp!Talk(c)
    BY <1>1, <2>1, <2>5 DEF Tcp!Talk
  <2>6. CASE Tcp!Kill(c)
    BY <1>1, <2>1, <2>6 DEF Tcp!Kill
  <2>. QED
    BY <1>8, <2>2, <2>3, <2>4, <2>5, <2>6
<1>9. CASE UNCHANGED Tcp!vars
  BY <1>9 DEF Tcp!vars, Tcp!moving
<1>. QED
  BY <1>2, <1>3, <1>4, <1>5, <1>6, <1>7, <1>8, <1>9 DEF Tcp!Next, Tcp!Serve

\* A client that goes on is not new, and gets no child by that.
LEMMA FreshClient ==
    ASSUME TcpServerOK, TcpChildOK, TcpClientOK, Fresh, NEW c \in Clients,
           Tcp!Dropped(c) \/ Tcp!Talk(c) \/ Tcp!Kill(c)
    PROVE  Fresh'
<1>1. UNCHANGED <<server, child, backlog>>
  BY DEF Tcp!Dropped, Tcp!Talk, Tcp!Kill
<1>2. \A d \in Clients : client'[d].at = "new" <=> client[d].at = "new"
  <2>1. CASE Tcp!Dropped(c)
    BY <2>1 DEF Tcp!Dropped, Tcp!Client, TcpClientOK
  <2>2. CASE Tcp!Talk(c)
    BY <2>2 DEF Tcp!Talk, Tcp!Client, TcpClientOK
  <2>3. CASE Tcp!Kill(c)
    BY <2>3 DEF Tcp!Kill, Tcp!Client, TcpClientOK
  <2>. QED
    BY <2>1, <2>2, <2>3
<1>3. server.at \in {"load", "store", "test", "fork"} => server.conn \in Clients
  BY DEF TcpClientOK, Held, Counting
<1>4. \A i \in 1..Len(backlog) : backlog[i] \in Clients
  BY DEF Fresh
<1>. QED
  BY <1>1, <1>2, <1>3, <1>4 DEF Fresh

LEMMA FreshConnect ==
    ASSUME TcpServerOK, TcpChildOK, TcpClientOK, Fresh, NEW c \in Clients, Tcp!Connect(c)
    PROVE  Fresh'
<1>1. UNCHANGED <<server, child>> /\ client[c].at = "new" /\ child[c] = "none"
  BY DEF Tcp!Connect, Tcp!Client, Fresh
<1>2. client'[c].at # "new" /\ \A d \in Clients : d # c => client'[d] = client[d]
  BY DEF Tcp!Connect, TcpClientOK
<1>3. server.at \in {"load", "store", "test", "fork"} =>
        server.conn \in Clients /\ server.conn # c
  BY <1>1 DEF TcpClientOK, Held, Counting, Fresh
<1>4. \A i \in 1..Len(backlog) : backlog[i] \in Clients /\ backlog[i] # c
  BY <1>1 DEF Fresh
<1>5. CASE backlog' = backlog
  BY <1>1, <1>2, <1>3, <1>4, <1>5 DEF Fresh
<1>6. CASE backlog' = Append(backlog, c)
  <2>1. /\ backlog' \in Seq(Clients) /\ Len(backlog') = Len(backlog) + 1
        /\ \A i \in 1..Len(backlog) : backlog'[i] = backlog[i]
        /\ backlog'[Len(backlog) + 1] = c
    BY <1>6 DEF Fresh
  <2>2. \A i \in 1..Len(backlog') : i \in 1..Len(backlog) \/ i = Len(backlog) + 1
    BY <2>1 DEF Fresh
  <2>. QED
    BY <1>1, <1>2, <1>3, <1>4, <2>1, <2>2 DEF Fresh
<1>. QED
  BY <1>5, <1>6 DEF Tcp!Connect

LEMMA FreshStep ==
    ASSUME TcpServerOK, TcpChildOK, TcpClientOK, Fresh, [Tcp!Next]_(Tcp!vars)
    PROVE  Fresh'
<1>. USE DEF Tcp!Main, Tcp!At
<1>0. \A i \in 1..Len(backlog) : backlog[i] \in Clients
  BY DEF Fresh
<1>1. CASE Tcp!Listen
  BY <1>1 DEF Tcp!Listen, TcpServerOK, Fresh
<1>2. CASE Tcp!Accept
  <2>1. CASE server' = Tcp!Main("dead") /\ UNCHANGED <<backlog, child, client>>
    BY <2>1 DEF TcpServerOK, Fresh
  <2>2. CASE /\ server' = [Tcp!Main("load") EXCEPT !.conn = Head(backlog), !.open = @ + 1]
             /\ backlog' = Tail(backlog) /\ UNCHANGED <<child, client>>
    <3>1. /\ Len(backlog) \in Nat /\ Len(backlog) >= 1
          /\ Head(backlog) = backlog[1]
          /\ backlog' \in Seq(Clients) /\ Len(backlog') = Len(backlog) - 1
          /\ \A i \in 1..Len(backlog') : backlog'[i] = backlog[i + 1]
      BY <1>2, <2>2 DEF Tcp!Accept, Fresh
    <3>2. \A i \in 1..Len(backlog') : i + 1 \in 1..Len(backlog) /\ i + 1 # 1
      BY <3>1
    <3>3. 1 \in 1..Len(backlog)
      BY <3>1
    <3>4. server'.conn = backlog[1] /\ server'.at = "load"
      BY <2>2, <3>1 DEF TcpServerOK
    <3>5. \A i, j \in 1..Len(backlog') : i # j => backlog'[i] # backlog'[j]
      BY <3>1, <3>2 DEF Fresh
    <3>. QED
      BY <2>2, <3>1, <3>2, <3>3, <3>4, <3>5 DEF Fresh
  <2>. QED
    BY <1>2, <2>1, <2>2 DEF Tcp!Accept
<1>3. CASE Tcp!Count
  <2>1. /\ server'.conn = server.conn /\ UNCHANGED <<child, client, backlog>>
        /\ server'.at \in {"load", "store", "test", "fork"}
              => server.at \in {"load", "store", "test", "fork"}
    BY <1>3 DEF Tcp!Count, TcpServerOK
  <2>. QED
    BY <2>1 DEF Fresh
<1>4. CASE Tcp!Refuse
  <2>1. \A d \in Clients : client'[d].at = client[d].at
    BY <1>4 DEF Tcp!Refuse, TcpClientOK
  <2>. QED
    BY <1>0, <1>4, <2>1 DEF Tcp!Refuse, TcpServerOK, Fresh
<1>5. CASE Tcp!Fork
  <2>1. \A d \in Clients : d # server.conn => child'[d] = child[d]
    BY <1>5 DEF Tcp!Fork, TcpChildOK
  <2>2. server'.at = "accept" /\ UNCHANGED <<client, backlog>> /\ server.at = "fork"
    BY <1>5 DEF Tcp!Fork, TcpServerOK
  <2>3. server.conn \in Clients
    BY <2>2 DEF TcpClientOK, Held, Counting
  <2>. QED
    BY <1>0, <2>1, <2>2, <2>3 DEF Fresh
<1>6. CASE Tcp!Handler
  <2>1. \A d \in Clients : child[d] = "none" => child'[d] = "none"
    BY <1>6 DEF Tcp!Handler, TcpChildOK
  <2>2. /\ server'.at = server.at /\ server'.conn = server.conn
        /\ UNCHANGED <<client, backlog>>
    BY <1>6 DEF Tcp!Handler, TcpServerOK
  <2>3. server.at \in {"load", "store", "test", "fork"} => server.conn \in Clients
    BY DEF TcpClientOK, Held, Counting
  <2>. QED
    BY <1>0, <2>1, <2>2, <2>3 DEF Fresh
<1>7. ASSUME NEW c \in Clients, Tcp!Child(c) PROVE Fresh'
  <2>1. \A d \in Clients : child[d] = "none" => child'[d] = "none"
    BY <1>7 DEF Tcp!Child, TcpChildOK
  <2>2. \A d \in Clients : client'[d].at = client[d].at
    BY <1>7 DEF Tcp!Child, TcpClientOK
  <2>3. server'.at = server.at /\ server'.conn = server.conn /\ UNCHANGED backlog
    BY <1>7 DEF Tcp!Child, TcpServerOK
  <2>4. server.at \in {"load", "store", "test", "fork"} => server.conn \in Clients
    BY DEF TcpClientOK, Held, Counting
  <2>. QED
    BY <1>0, <2>1, <2>2, <2>3, <2>4 DEF Fresh
<1>8. CASE UNCHANGED Tcp!vars
  BY <1>8 DEF Tcp!vars, Tcp!moving, Fresh
<1>. QED
  BY <1>1, <1>2, <1>3, <1>4, <1>5, <1>6, <1>7, <1>8, FreshClient, FreshConnect DEF Tcp!Next, Tcp!Serve

\* One child more with the fork that counts it, one less with the handler that
\* counts it down.
LEMMA ExactStep ==
    ASSUME IsFiniteSet(Clients), ExactInv, [Tcp!Next]_(Tcp!vars)
    PROVE  Exact(Cardinality(Kids))'
<1>. DEFINE n == Cardinality(Kids)
<1>0. n \in Nat /\ IsFiniteSet(Kids) /\ Exact(n) /\ TcpServerOK /\ TcpChildOK
  BY KidsFinite DEF ExactInv
<1>1. server.num \in Int /\ server.reg \in Int /\ server.drift \in BOOLEAN
  BY <1>0 DEF TcpServerOK
<1>2. Kids' = Kids => n' = n
  OBVIOUS
<1>. SUFFICES Exact(n)'
  OBVIOUS
<1>. HIDE DEF n
<1>. USE DEF Exact, Counting
<1>3. CASE UNCHANGED <<server, child>>
  <2>1. Kids' = Kids
    BY <1>3 DEF Kids, Tcp!Children
  <2>. QED
    BY <1>0, <1>2, <1>3, <2>1
<1>4. CASE Tcp!Listen \/ Tcp!Accept \/ Tcp!Refuse
  <2>1. Kids' = Kids
    BY <1>4 DEF Tcp!Listen, Tcp!Accept, Tcp!Refuse, Kids, Tcp!Children
  <2>2. /\ server.at \in {"down", "accept", "refuse"}
        /\ server'.at \in {"accept", "load", "dead"}
        /\ server'.num = server.num /\ server'.drift = server.drift
    BY <1>0, <1>4 DEF Tcp!Listen, Tcp!Accept, Tcp!Refuse, Tcp!Main, Tcp!At, TcpServerOK
  <2>. QED
    BY <1>0, <1>1, <1>2, <2>1, <2>2
<1>5. CASE Tcp!Count
  <2>1. Kids' = Kids
    BY <1>5 DEF Tcp!Count, Kids, Tcp!Children
  <2>2. /\ server'.drift = server.drift
        /\ \/ Tcp!At("load") /\ server'.at = "store" /\ server'.reg = server.num
              /\ server'.num = server.num
           \/ Tcp!At("store") /\ server'.at = "test" /\ server'.num = server.reg + 1
           \/ Tcp!At("test") /\ server'.num = server.num /\ server'.at \in {"load2", "fork"}
           \/ Tcp!At("load2") /\ server'.at = "store2" /\ server'.reg = server.num
              /\ server'.num = server.num
           \/ Tcp!At("store2") /\ server'.at = "refuse" /\ server'.num = server.reg - 1
    BY <1>0, <1>5 DEF Tcp!Count, Tcp!Main, Tcp!At, TcpServerOK
  <2>. QED
    BY <1>0, <1>1, <1>2, <2>1, <2>2 DEF Tcp!At
<1>6. CASE Tcp!Fork
  <2>1. server.at = "fork" /\ server'.at = "accept" /\ server'.num = server.num
    BY <1>0, <1>6 DEF Tcp!Fork, Tcp!Main, Tcp!At, TcpServerOK
  <2>2. server.conn \in Clients /\ child[server.conn] = "none"
    BY <2>1 DEF ExactInv, TcpClientOK, Fresh, Held
  <2>3. CASE child' = [child EXCEPT ![server.conn] = "greet"] /\ server' = Tcp!Main("accept")
    <3>1. Kids' = Kids \cup {server.conn} /\ server.conn \notin Kids
      BY <1>0, <2>2, <2>3 DEF Kids, Tcp!Children, TcpChildOK
    <3>2. n' = n + 1
      BY <1>0, <3>1, FS_AddElement DEF n
    <3>3. server'.drift = server.drift
      BY <1>0, <2>3 DEF Tcp!Main, TcpServerOK
    <3>. QED
      BY <1>0, <1>1, <2>1, <3>2, <3>3
  <2>4. CASE server' = [Tcp!Main("accept") EXCEPT !.drift = TRUE]
    <3>1. server'.drift
      BY <1>0, <2>4 DEF Tcp!Main, TcpServerOK
    <3>. QED
      BY <3>1
  <2>. QED
    BY <1>6, <2>3, <2>4 DEF Tcp!Fork
<1>7. CASE Tcp!Handler
  <2>1. PICK c \in Clients : child[c] = "zombie" /\ child' = [child EXCEPT ![c] = "reaped"]
    BY <1>7 DEF Tcp!Handler
  <2>2. Kids' = Kids \ {c} /\ c \in Kids
    BY <1>0, <2>1 DEF Kids, Tcp!Children, TcpChildOK
  <2>3. n' = n - 1
    BY <1>0, <2>2, FS_RemoveElement DEF n
  <2>4. /\ server'.at = server.at /\ server'.num = server.num - 1
        /\ ~server'.drift => ~server.drift /\ server.at \notin {"store", "store2"}
    BY <1>0, <1>7 DEF Tcp!Handler, TcpServerOK, Tcp!At
  <2>. QED
    BY <1>0, <1>1, <2>3, <2>4
<1>8. ASSUME NEW c \in Clients, Tcp!Child(c) PROVE Exact(n)'
  <2>1. Kids' = Kids
    BY <1>0, <1>8 DEF Tcp!Child, Kids, Tcp!Children, TcpChildOK
  <2>2. /\ server'.at = server.at /\ server'.num = server.num /\ server'.reg = server.reg
        /\ server.drift => server'.drift
    BY <1>0, <1>8 DEF Tcp!Child, TcpServerOK
  <2>. QED
    BY <1>0, <1>1, <1>2, <2>1, <2>2
<1>. QED
  BY <1>3, <1>4, <1>5, <1>6, <1>7, <1>8
     DEF Tcp!Next, Tcp!Serve, Tcp!Connect, Tcp!Dropped, Tcp!Talk, Tcp!Kill, Tcp!vars, Tcp!moving

\* Every step keeps both.
LEMMA TcpStep ==
    ASSUME IsFiniteSet(Clients), MaxConn \in Nat, TcpInv, ExactInv, [Tcp!Next]_(Tcp!vars)
    PROVE  TcpInv' /\ ExactInv'
<1>1. TcpInv'
  BY TcpServerStep, ChildTypeStep, QueueStep, CoveredStep DEF TcpInv
<1>2. TcpClientOK' /\ Fresh'
  BY TcpClientStep, FreshStep DEF TcpInv, ExactInv
<1>3. Exact(Cardinality(Kids))'
  BY ExactStep
<1>. QED
  BY <1>1, <1>2, <1>3 DEF TcpInv, ExactInv

LEMMA TcpRight ==
    ASSUME TcpInv, ExactInv
    PROVE  Tcp!CounterRight
<1>1. Tcp!TypeOK
  BY DEF ExactInv, TcpServerOK, TcpChildOK, TcpClientOK, Tcp!TypeOK
<1>. QED
  BY <1>1, SameCount DEF TcpInv, ExactInv, Exact, Kids, Counting, Tcp!CounterRight

\* The counter is the number of children that are not collected yet, and one
\* more while a client is being admitted, until a decrement is lost or a fork
\* fails (tcp-server.c, main and handler): only then somebody is refused without
\* need.
THEOREM CounterExact == Tcp!Spec => []Tcp!CounterRight
<1>1. Tcp!Init => TcpInv /\ ExactInv
  BY TcpInit, ExactInit, ClientsAssumption, BoundsAssumption, ServicesAssumption
<1>2. TcpInv /\ ExactInv /\ [Tcp!Next]_(Tcp!vars) => TcpInv' /\ ExactInv'
  BY TcpStep, ClientsAssumption, BoundsAssumption
<1>. QED
  BY <1>1, <1>2, TcpRight, PTL DEF Tcp!Spec
-----------------------------------------------------------------------------
(* NumberServer, for any set of clients, both servers, any kills and       *)
(* failing forks: no number is given to two clients.                       *)

\* What the proof needs to know of types, one variable at a time.
NumberOrNone == Nat \cup {None}
NumServerOK ==
    /\ server \in [at : {"down", "accept", "number", "write", "close", "fork", "errno", "ECHILD",
                         "dead"},
                   number : Nat, conn : Clients \cup {None}, buf : NumberOrNone,
                   pending : BOOLEAN]
    /\ backlog \in Seq(Clients)
    /\ server.at \in {"number", "write", "close", "fork"} => server.conn \in Clients
    /\ server.at \in {"write", "fork"} => server.buf \in Nat
NumChildOK ==
    child \in [Clients -> [at : {"none", "write", "close", "zombie", "reaped"},
                           buf : NumberOrNone]]
NumClientOK ==
    client \in [Clients -> [at : {"new", "read", "end"}, sock : NumberOrNone, closed : BOOLEAN,
                            got : NumberOrNone]]

\* n is on its way to c in the server, in c's child or in c's stream, or c has
\* read it.
InServer(c, n) == server.at \in {"write", "fork"} /\ server.conn = c /\ n = server.buf
Has(c, n) ==
    \/ n = client[c].got \/ n = client[c].sock \/ n = child[c].buf
    \/ InServer(c, n)

\* The counter is above all numbers that were given, and no two clients have
\* the same.
NumberInv ==
    /\ NumServerOK /\ NumChildOK /\ NumClientOK
    /\ \A c \in Clients, n \in Nat : Has(c, n) => n < server.number
    /\ \A c, d \in Clients, n \in Nat : Has(c, n) /\ Has(d, n) => c = d

\* At the beginning nobody has a number.
LEMMA NumberInit ==
    ASSUME None \notin Nat, Number!Init
    PROVE  NumberInv
<1>1. NumServerOK /\ server.at = "down"
  BY DEF Number!Init, NumServerOK, NumberOrNone
<1>2. NumChildOK /\ \A c \in Clients : child[c].buf = None
  BY DEF Number!Init, NumChildOK, NumberOrNone
<1>3. NumClientOK /\ \A c \in Clients : client[c].sock = None /\ client[c].got = None
  BY DEF Number!Init, NumClientOK, NumberOrNone
<1>. QED
  BY <1>1, <1>2, <1>3 DEF NumberInv, Has, InServer

-----------------------------------------------------------------------------
(* What a step does to one variable. *)

\* The handler touches nothing of what the server holds.
LEMMA HandlerStep ==
    ASSUME NumServerOK, Number!ReadChldstate
    PROVE  /\ NumServerOK' /\ UNCHANGED backlog
           /\ UNCHANGED <<server.number, server.conn, server.buf>>
           /\ server'.at = server.at \/ server'.at \in {"errno", "ECHILD"}
<1>. DEFINE Nexts == CASE server.at = "accept" -> {"accept", "errno"}
                       [] server.at = "errno" /\ Number!Running = {} -> {"ECHILD"}
                       [] OTHER -> {server.at}
<1>1. \A next \in Nexts : next = server.at \/ next \in {"errno", "ECHILD"}
  OBVIOUS
<1>2. UNCHANGED backlog
      /\ \E next \in Nexts : server' = [[server EXCEPT !.at = next] EXCEPT !.pending = FALSE]
  BY DEF Number!ReadChldstate, Number!Main, Number!At
<1>. HIDE DEF Nexts
<1>3. PICK next \in Nexts : server' = [[server EXCEPT !.at = next] EXCEPT !.pending = FALSE]
  BY <1>2
<1>. QED
  BY <1>1, <1>2, <1>3 DEF NumServerOK

\* Only Number raises the counter, and only it puts a number into the server.
LEMMA NumServerStep ==
    ASSUME NumServerOK, [Number!Next]_(Number!vars)
    PROVE  /\ NumServerOK'
           /\ ~Number!Number => server'.number = server.number
           /\ ~Number!Number => \A c \in Clients, n \in Nat : InServer(c, n)' => InServer(c, n)
<1>. DEFINE Goal == /\ NumServerOK'
                    /\ server'.number = server.number
                    /\ \A c \in Clients, n \in Nat : InServer(c, n)' => InServer(c, n)
<1>. USE DEF NumServerOK, InServer, Number!Main, Number!At
<1>1. CASE Number!Listen
  BY <1>1 DEF Number!Listen
<1>2. CASE Number!Accept
  <2>1. Head(backlog) \in Clients /\ Tail(backlog) \in Seq(Clients)
    BY <1>2 DEF Number!Accept
  <2>. QED
    BY <1>2, <2>1 DEF Number!Accept
<1>3. CASE Number!Number
  <2>1. server.number + 1 \in Nat
    OBVIOUS
  <2>. QED
    BY <1>3, <2>1 DEF Number!Number, NumberOrNone
<1>4. CASE Number!Dies
  <2>1. <<>> \in Seq(Clients)
    OBVIOUS
  <2>. QED
    BY <1>4, <2>1 DEF Number!Dies
<1>5. CASE Number!Reply
  BY <1>4, <1>5 DEF Number!Reply
<1>6. CASE Number!Fork
  BY <1>4, <1>6 DEF Number!Fork
<1>7. CASE Number!ReadChldstate
  BY <1>7, HandlerStep
<1>8. ASSUME NEW c \in Clients, Number!Child(c) PROVE Goal
  BY <1>8 DEF Number!Child
<1>9. ASSUME NEW c \in Clients, Number!Connect(c) \/ Number!Read(c) \/ Number!Kill(c) PROVE Goal
  <2>1. Append(backlog, c) \in Seq(Clients)
    OBVIOUS
  <2>. QED
    BY <1>9, <2>1 DEF Number!Connect, Number!Read, Number!Kill
<1>10. CASE UNCHANGED Number!vars
  BY <1>10 DEF Number!vars, Number!moving
<1>11. CASE Number!Again
  BY <1>4, <1>11 DEF Number!Again
<1>. QED
  BY <1>1, <1>2, <1>3, <1>5, <1>6, <1>7, <1>8, <1>9, <1>10, <1>11 DEF Number!Next, Number!Serve

\* A child's number comes from the server.
LEMMA ChildStep ==
    ASSUME NumServerOK, NumChildOK, [Number!Next]_(Number!vars)
    PROVE  /\ NumChildOK'
           /\ \A c \in Clients, n \in Nat :
                 n = child'[c].buf => n = child[c].buf \/ InServer(c, n)
<1>. DEFINE Goal == /\ NumChildOK'
                    /\ \A c \in Clients, n \in Nat :
                          n = child'[c].buf => n = child[c].buf \/ InServer(c, n)
<1>1. CASE UNCHANGED child
  BY <1>1 DEF NumChildOK
<1>2. CASE Number!Fork
  <2>1. CASE UNCHANGED child
    BY <1>1, <2>1
  <2>2. CASE child' = [child EXCEPT ![server.conn] = [at |-> "write", buf |-> server.buf]]
    <3>1. server.conn \in Clients /\ server.buf \in NumberOrNone
      BY <1>2 DEF Number!Fork, Number!At, NumServerOK
    <3>2. NumChildOK'
      BY <2>2, <3>1 DEF NumChildOK
    <3>3. ASSUME NEW c \in Clients, c # server.conn PROVE child'[c] = child[c]
      BY <2>2, <3>3 DEF NumChildOK
    <3>4. child'[server.conn].buf = server.buf
      BY <2>2, <3>1 DEF NumChildOK
    <3>. QED
      BY <1>2, <3>2, <3>3, <3>4 DEF Number!Fork, Number!At, InServer
  <2>. QED
    BY <1>2, <2>1, <2>2 DEF Number!Fork, Number!Dies
<1>3. CASE Number!ReadChldstate
  BY <1>3 DEF Number!ReadChldstate, NumChildOK
<1>4. ASSUME NEW c \in Clients, Number!Child(c) PROVE Goal
  BY <1>4 DEF Number!Child, NumChildOK
<1>. QED
  BY <1>1, <1>2, <1>3, <1>4
     DEF Number!Next, Number!Serve, Number!Listen, Number!Accept, Number!Number, Number!Reply,
         Number!Dies, Number!Again, Number!Connect, Number!Read, Number!Kill, Number!vars,
         Number!moving

\* A client's number comes from its child, from the iterative server, or it
\* has it already.
LEMMA NumClientStep ==
    ASSUME NumServerOK, NumChildOK, NumClientOK, [Number!Next]_(Number!vars)
    PROVE  /\ NumClientOK'
           /\ \A c \in Clients, n \in Nat :
                 n = client'[c].sock \/ n = client'[c].got => Has(c, n)
<1>. DEFINE Goal == /\ NumClientOK'
                    /\ \A c \in Clients, n \in Nat :
                          n = client'[c].sock \/ n = client'[c].got => Has(c, n)
<1>1. CASE UNCHANGED client
  BY <1>1 DEF NumClientOK, Has
<1>2. ASSUME NEW c \in Clients, NEW n \in NumberOrNone, Number!Write(c, n), \A m \in Nat : m = n => Has(c, m)
      PROVE  Goal
  BY <1>2 DEF Number!Write, NumClientOK, Has
<1>3. ASSUME NEW c \in Clients, Number!Close(c) PROVE Goal
  BY <1>3 DEF Number!Close, NumClientOK, Has
<1>4. CASE Number!Dies
  BY <1>4 DEF Number!Dies, NumClientOK, Has
<1>5. CASE Number!Reply
  <2>1. server.conn \in Clients
    BY <1>5 DEF Number!Reply, Number!At, NumServerOK
  <2>2. CASE Number!At("write") /\ Number!Write(server.conn, server.buf)
    <3>1. server.buf \in NumberOrNone /\ \A m \in Nat : m = server.buf => Has(server.conn, m)
      BY <2>2 DEF NumServerOK, Number!At, Has, InServer
    <3>. QED
      BY <1>2, <2>1, <2>2, <3>1
  <2>. QED
    BY <1>3, <1>4, <1>5, <2>1, <2>2 DEF Number!Reply
<1>6. ASSUME NEW c \in Clients, Number!Child(c) PROVE Goal
  <2>1. child[c].buf \in NumberOrNone /\ \A m \in Nat : m = child[c].buf => Has(c, m)
    BY DEF NumChildOK, Has
  <2>. QED
    BY <1>2, <1>3, <1>6, <2>1 DEF Number!Child
<1>7. ASSUME NEW c \in Clients, Number!Connect(c) PROVE Goal
  BY <1>7 DEF Number!Connect, NumClientOK, Has
<1>8. ASSUME NEW c \in Clients, Number!Read(c) \/ Number!Kill(c) PROVE Goal
  BY <1>8 DEF Number!Read, Number!Kill, NumClientOK, Has
<1>. QED
  BY <1>1, <1>4, <1>5, <1>6, <1>7, <1>8
     DEF Number!Next, Number!Serve, Number!Listen, Number!Accept, Number!Number, Number!Fork,
         Number!ReadChldstate, Number!Again, Number!vars, Number!moving

-----------------------------------------------------------------------------
\* Number gives the client at hand the counter, which it then raises.
LEMMA FreshNumber ==
    ASSUME NumServerOK, Number!Number, NEW c \in Clients, NEW n \in Nat, InServer(c, n)'
    PROVE  c = server.conn /\ n = server.number /\ server'.number = server.number + 1
  BY DEF NumServerOK, InServer, Number!Number, Number!Main, Number!At

\* The counter stays above all numbers, so that the next one is fresh.
LEMMA NumberStep == NumberInv /\ [Number!Next]_(Number!vars) => NumberInv'
<1>. SUFFICES ASSUME NumberInv, [Number!Next]_(Number!vars) PROVE NumberInv'
  OBVIOUS
<1>1. (NumServerOK /\ NumChildOK /\ NumClientOK)'
  BY NumServerStep, ChildStep, NumClientStep DEF NumberInv
<1>2. ASSUME NEW c \in Clients, NEW n \in Nat, Has(c, n)'
      PROVE  Has(c, n) \/ (Number!Number /\ InServer(c, n)')
  BY <1>2, NumServerStep, ChildStep, NumClientStep DEF NumberInv, Has
<1>3. CASE ~Number!Number
  BY <1>1, <1>2, <1>3, NumServerStep DEF NumberInv
<1>4. CASE Number!Number
  <2>1. server.number \in Nat /\ server'.number = server.number + 1
    BY <1>4 DEF NumberInv, NumServerOK, Number!Number, Number!Main
  <2>2. ASSUME NEW c \in Clients, NEW n \in Nat, Has(c, n)'
        PROVE  Has(c, n) \/ (c = server.conn /\ n = server.number)
    BY <1>2, <1>4, <2>2, FreshNumber DEF NumberInv
  <2>. QED
    BY <1>1, <2>1, <2>2 DEF NumberInv
<1>. QED
  BY <1>3, <1>4

\* Numbers that differ in the invariant differ for Unique.
LEMMA NumberRight == NumberInv => Number!Unique
<1>. SUFFICES ASSUME NumberInv, NEW c \in Clients, NEW d \in Clients, c # d
     PROVE  /\ client[c].got # None => client[c].got # client[d].got
            /\ client[c].sock # None => client[c].sock # child[d].buf
  BY DEF Number!Unique
<1>1. client[c].got \in NumberOrNone /\ client[c].sock \in NumberOrNone
  BY DEF NumberInv, NumClientOK
<1>. QED
  BY <1>1 DEF NumberInv, Has, NumberOrNone

\* No number is printed by two clients, nor on its way to one that another one
\* has or will get (iterative-server.c, parallel-server.c: "genau eine eindeutige
\* Nummer").
THEOREM NoNumberTwice ==
    ASSUME None \notin Nat
    PROVE  Number!Spec => []Number!Unique
<1>1. Number!Init => NumberInv
  BY NumberInit
<1>2. NumberInv => Number!Unique
  BY NumberRight
<1>. QED
  BY <1>1, <1>2, NumberStep, PTL DEF Number!Spec

\* A child that ends raises SIGCHLD, and the handler takes all that have ended.
LEMMA NoticedStep ==
    ASSUME NumberInv, Number!Noticed, [Number!Next]_(Number!vars)
    PROVE  Number!Noticed'
<1>. USE DEF NumberInv, NumServerOK, NumChildOK, Number!Noticed, Number!Zombies, Number!At, Number!Main
<1>1. CASE UNCHANGED <<server, child>>
  BY <1>1
<1>2. CASE Number!Listen \/ Number!Accept \/ Number!Number
  BY <1>2 DEF Number!Listen, Number!Accept, Number!Number
<1>3. CASE Number!Reply
  BY <1>3 DEF Number!Reply, Number!Dies
<1>4. CASE Number!Fork
  <2>1. CASE Number!Dies
    BY <2>1 DEF Number!Dies
  <2>2. CASE /\ child' = [child EXCEPT ![server.conn] = [at |-> "write", buf |-> server.buf]]
             /\ server' = [Number!Main("accept") EXCEPT !.conn = None]
    <3>1. server'.pending = server.pending /\ server.at = "fork"
      BY <1>4, <2>2 DEF Number!Fork
    <3>2. Number!Zombies' \subseteq Number!Zombies
      BY <2>2
    <3>. QED
      BY <3>1, <3>2
  <2>. QED
    BY <1>4, <2>1, <2>2 DEF Number!Fork
<1>5. CASE Number!ReadChldstate
  <2>1. Number!Zombies' = {}
    BY <1>5 DEF Number!ReadChldstate
  <2>. QED
    BY <2>1
<1>6. ASSUME NEW c \in Clients, Number!Child(c) PROVE Number!Noticed'
  BY <1>6 DEF Number!Child
<1>7. CASE Number!Again
  BY <1>7 DEF Number!Again, Number!Dies
<1>. QED
  BY <1>1, <1>2, <1>3, <1>4, <1>5, <1>6, <1>7
     DEF Number!Next, Number!Serve, Number!Connect, Number!Read, Number!Kill, Number!vars, Number!moving
-----------------------------------------------------------------------------
(* There are no more numbers than clients that have been accepted.         *)

Queued(c) == \E i \in 1..Len(backlog) : backlog[i] = c
AtHand(c) == server.at = "number" /\ server.conn = c
Past == {c \in Clients : client[c].at # "new" /\ ~Queued(c) /\ ~AtHand(c)}

\* A client waits in one place.
InLine ==
    /\ \A i, j \in 1..Len(backlog) : backlog[i] = backlog[j] => i = j
    /\ \A c \in Clients : Queued(c) => client[c].at # "new" /\ ~AtHand(c)
    /\ \A c \in Clients : AtHand(c) => client[c].at # "new"

Few(past) ==
    /\ server.number <= past
    /\ server.buf # None => server.buf <= server.number

\* A client stays past, and the one that gets a number becomes so.
LEMMA LineStep ==
    ASSUME NumServerOK, NumClientOK, InLine, [Number!Next]_(Number!vars)
    PROVE  /\ InLine' /\ Past \subseteq Past'
           /\ Number!Number => server.conn \in Past' \ Past
<1>. DEFINE Goal == InLine' /\ Past \subseteq Past'
<1>. USE DEF Number!At, Number!Main
<1>0. \A i \in 1..Len(backlog) : backlog[i] \in Clients
  BY DEF NumServerOK
<1>1. ASSUME UNCHANGED backlog, \A c \in Clients : AtHand(c)' => AtHand(c),
             \A c \in Clients : client'[c].at = "new" <=> client[c].at = "new"
      PROVE  Goal
  <2>1. \A c \in Clients : Queued(c)' <=> Queued(c)
    BY <1>1 DEF Queued
  <2>. QED
    BY <1>1, <2>1 DEF InLine, Past
<1>2. ASSUME Number!Listen PROVE Goal
  BY <1>1, <1>2 DEF Number!Listen, NumServerOK, AtHand
<1>3. ASSUME Number!Accept PROVE Goal
  <2>1. /\ server.at = "accept" /\ backlog # <<>> /\ UNCHANGED client
        /\ server'.at = "number" /\ server'.conn = backlog[1]
    BY <1>3 DEF Number!Accept, NumServerOK
  <2>2. /\ Len(backlog') = Len(backlog) - 1 /\ Len(backlog) \in Nat /\ Len(backlog) >= 1
        /\ \A i \in 1..Len(backlog') : i + 1 \in 1..Len(backlog) /\ backlog'[i] = backlog[i + 1]
    BY <1>3, <2>1 DEF Number!Accept, NumServerOK
  <2>3. \A c \in Clients : Queued(c)' => Queued(c)
    BY <2>2 DEF Queued
  <2>4. \A c \in Clients : AtHand(c)' <=> c = backlog[1]
    BY <2>1 DEF AtHand
  <2>5. \A c \in Clients : Queued(c)' => c # backlog[1]
    <3>. SUFFICES ASSUME NEW i \in 1..Len(backlog'), backlog'[i] = backlog[1] PROVE FALSE
      BY DEF Queued
    <3>1. i + 1 \in 1..Len(backlog) /\ 1 \in 1..Len(backlog) /\ backlog[i + 1] = backlog[1] /\ i + 1 # 1
      BY <2>2
    <3>. QED
      BY <3>1 DEF InLine
  <2>6. \A c \in Clients : c = backlog[1] => Queued(c)
    BY <2>2 DEF Queued
  <2>7. \A i, j \in 1..Len(backlog') : backlog'[i] = backlog'[j] => i = j
    <3>. SUFFICES ASSUME NEW i \in 1..Len(backlog'), NEW j \in 1..Len(backlog'),
                         backlog'[i] = backlog'[j]
                  PROVE  i = j
      OBVIOUS
    <3>1. i + 1 \in 1..Len(backlog) /\ j + 1 \in 1..Len(backlog) /\ backlog[i + 1] = backlog[j + 1]
      BY <2>2
    <3>2. i + 1 = j + 1
      BY <3>1 DEF InLine
    <3>. QED
      BY <3>2
  <2>8. ~\E c \in Clients : AtHand(c)
    BY <2>1 DEF AtHand
  <2>9. InLine'
    BY <2>1, <2>3, <2>4, <2>5, <2>6, <2>7 DEF InLine
  <2>10. Past \subseteq Past'
    BY <2>1, <2>3, <2>4, <2>6 DEF Past
  <2>. QED
    BY <2>9, <2>10
<1>4. CASE Number!Number
  <2>1. /\ server.at = "number" /\ server.conn \in Clients /\ UNCHANGED <<client, backlog>>
        /\ server'.at # "number"
    BY <1>4 DEF Number!Number, NumServerOK
  <2>2. \A c \in Clients : ~AtHand(c)' /\ (AtHand(c) <=> c = server.conn) /\ (Queued(c)' <=> Queued(c))
    BY <2>1 DEF AtHand, Queued
  <2>3. Goal
    BY <2>1, <2>2 DEF InLine, Past
  <2>4. server.conn \in Past' \ Past
    BY <2>1, <2>2 DEF InLine, Past
  <2>. QED
    BY <2>3, <2>4
<1>5. ASSUME Number!Dies PROVE Goal
  <2>1. Len(backlog') = 0 /\ server'.at = "dead"
    BY <1>5 DEF Number!Dies, NumServerOK
  <2>2. \A c \in Clients : ~Queued(c)' /\ ~AtHand(c)'
    BY <2>1 DEF Queued, AtHand
  <2>3. \A c \in Clients : client'[c].at = client[c].at
    BY <1>5 DEF Number!Dies, NumClientOK
  <2>. QED
    BY <2>1, <2>2, <2>3 DEF InLine, Past
<1>6. ASSUME NEW c \in Clients, NEW n, Number!Write(c, n) PROVE \A d \in Clients : client'[d].at = client[d].at
  BY <1>6 DEF Number!Write, NumClientOK
<1>7. ASSUME NEW c \in Clients, Number!Close(c) PROVE \A d \in Clients : client'[d].at = client[d].at
  BY <1>7 DEF Number!Close, NumClientOK
<1>8. ASSUME Number!Reply PROVE Goal
  <2>1. server.conn \in Clients
    BY <1>8 DEF Number!Reply, NumServerOK
  <2>2. CASE Number!Dies
    BY <1>5, <2>2
  <2>3. CASE ~Number!Dies
    <3>1. UNCHANGED backlog /\ server'.at # "number"
      BY <1>8, <2>3 DEF Number!Reply, NumServerOK
    <3>2. \A d \in Clients : client'[d].at = client[d].at
      BY <1>6, <1>7, <1>8, <2>1, <2>3 DEF Number!Reply
    <3>. QED
      BY <1>1, <3>1, <3>2 DEF AtHand
  <2>. QED
    BY <2>2, <2>3
<1>9. ASSUME Number!Fork PROVE Goal
  <2>1. CASE Number!Dies
    BY <1>5, <2>1
  <2>2. CASE ~Number!Dies
    <3>1. UNCHANGED <<client, backlog>> /\ server'.at = "accept"
      BY <1>9, <2>2 DEF Number!Fork, NumServerOK
    <3>. QED
      BY <1>1, <3>1 DEF AtHand
  <2>. QED
    BY <2>1, <2>2
<1>10. ASSUME Number!ReadChldstate PROVE Goal
  <2>1. UNCHANGED <<client, backlog>>
    BY <1>10 DEF Number!ReadChldstate
  <2>2. \A c \in Clients : AtHand(c)' => AtHand(c)
    BY <1>10, HandlerStep DEF AtHand
  <2>. QED
    BY <1>1, <2>1, <2>2
<1>11. ASSUME NEW c \in Clients, Number!Child(c) PROVE Goal
  <2>1. UNCHANGED backlog /\ server'.at = server.at /\ server'.conn = server.conn
    BY <1>11 DEF Number!Child, NumServerOK
  <2>2. \A d \in Clients : client'[d].at = client[d].at
    BY <1>6, <1>7, <1>11 DEF Number!Child
  <2>. QED
    BY <1>1, <2>1, <2>2 DEF AtHand
<1>12. ASSUME NEW c \in Clients, Number!Read(c) \/ Number!Kill(c) PROVE Goal
  <2>1. UNCHANGED <<server, backlog>>
    BY <1>12 DEF Number!Read, Number!Kill
  <2>2. \A d \in Clients : client'[d].at = "new" <=> client[d].at = "new"
    BY <1>12 DEF Number!Read, Number!Kill, NumClientOK
  <2>. QED
    BY <1>1, <2>1, <2>2 DEF AtHand
<1>13. ASSUME NEW c \in Clients, Number!Connect(c) PROVE Goal
  <2>1. UNCHANGED server /\ client[c].at = "new"
    BY <1>13 DEF Number!Connect
  <2>2. client'[c].at # "new" /\ \A d \in Clients : d # c => client'[d].at = client[d].at
    BY <1>13 DEF Number!Connect, NumClientOK
  <2>3. \A d \in Clients : AtHand(d)' <=> AtHand(d)
    BY <2>1 DEF AtHand
  <2>4. CASE UNCHANGED backlog
    <3>1. \A d \in Clients : Queued(d)' <=> Queued(d)
      BY <2>4 DEF Queued
    <3>. QED
      BY <2>1, <2>2, <2>3, <2>4, <3>1 DEF InLine, Past
  <2>5. CASE backlog' = Append(backlog, c)
    <3>1. /\ Len(backlog') = Len(backlog) + 1 /\ Len(backlog) \in Nat
          /\ \A i \in 1..Len(backlog) : backlog'[i] = backlog[i]
          /\ backlog'[Len(backlog) + 1] = c
      BY <2>5 DEF NumServerOK
    <3>2. \A i \in 1..Len(backlog') : i \in 1..Len(backlog) \/ i = Len(backlog) + 1
      BY <3>1
    <3>3. \A d \in Clients : d # c => (Queued(d)' => Queued(d))
      BY <3>1, <3>2 DEF Queued
    <3>4. ~Queued(c) /\ ~AtHand(c)
      BY <2>1 DEF InLine
    <3>5. \A i \in 1..Len(backlog) : backlog[i] # c
      BY <3>4 DEF Queued
    <3>6. \A i, j \in 1..Len(backlog') : backlog'[i] = backlog'[j] => i = j
      BY <3>1, <3>2, <3>5 DEF InLine
    <3>. QED
      BY <2>1, <2>2, <2>3, <3>3, <3>4, <3>6 DEF InLine, Past
  <2>. QED
    BY <1>13, <2>4, <2>5 DEF Number!Connect
<1>14. ASSUME UNCHANGED Number!vars PROVE Goal
  BY <1>1, <1>14 DEF Number!vars, Number!moving, AtHand
<1>15. ASSUME Number!Again PROVE Goal
  BY <1>1, <1>5, <1>15 DEF Number!Again, AtHand, NumServerOK
<1>16. ~Number!Number => Goal
  BY <1>2, <1>3, <1>8, <1>9, <1>10, <1>11, <1>12, <1>13, <1>14, <1>15 DEF Number!Next, Number!Serve
<1>. QED
  BY <1>4, <1>16

\* The counter is at most the number of clients that are past.
LEMMA FewStep ==
    ASSUME IsFiniteSet(Clients), NumServerOK, NumClientOK, InLine, Few(Cardinality(Past)),
           [Number!Next]_(Number!vars)
    PROVE  Few(Cardinality(Past))'
<1>1. /\ IsFiniteSet(Past) /\ Cardinality(Past) \in Nat
      /\ IsFiniteSet(Past') /\ Cardinality(Past') \in Nat
  <2>1. Past \subseteq Clients /\ Past' \subseteq Clients
    BY DEF Past
  <2>. QED
    BY <2>1, FS_Subset, FS_CardinalityType
<1>2. Cardinality(Past) <= Cardinality(Past')
  BY <1>1, LineStep, FS_Subset
<1>. HIDE DEF Past
<1>3. CASE Number!Number
  <2>1. server.conn \in Past' \ Past /\ Past \subseteq Past'
    BY <1>3, LineStep
  <2>2. Cardinality(Past \cup {server.conn}) = Cardinality(Past) + 1
    BY <1>1, <2>1, FS_AddElement
  <2>3. Cardinality(Past) + 1 <= Cardinality(Past')
    BY <1>1, <2>1, <2>2, FS_Subset
  <2>4. server'.number = server.number + 1 /\ server'.buf = server.number /\ server.number \in Nat
    BY <1>3 DEF Number!Number, Number!Main, NumServerOK
  <2>. QED
    BY <1>1, <2>3, <2>4 DEF Few
<1>4. CASE ~Number!Number
  <2>1. server'.number = server.number
    BY <1>4, NumServerStep
  <2>2. server'.buf = server.buf
    BY <1>4, HandlerStep
       DEF Number!Next, Number!Serve, Number!Listen, Number!Accept, Number!Reply, Number!Fork,
           Number!Dies, Number!Again, Number!Child, Number!Connect, Number!Read, Number!Kill,
           Number!vars, Number!moving, Number!Main, NumServerOK
  <2>3. server.number \in Nat
    BY DEF NumServerOK
  <2>. QED
    BY <1>1, <1>2, <2>1, <2>2, <2>3 DEF Few
<1>. QED
  BY <1>3, <1>4

CountInv ==
    /\ scene \in Number!SceneType
    /\ NumberInv /\ InLine /\ Few(Cardinality(Past)) /\ Number!Noticed

LEMMA CountInit ==
    ASSUME None \notin Nat, IsFiniteSet(Clients), ScenesOf("number") \subseteq Number!SceneType,
           Number!Init
    PROVE  CountInv
<1>1. server.number = 0 /\ server.buf = None /\ Len(backlog) = 0 /\ server.at = "down"
  BY DEF Number!Init
<1>2. InLine
  BY <1>1 DEF InLine, Queued, AtHand
<1>3. Cardinality(Past) \in Nat
  <2>1. Past \subseteq Clients
    BY DEF Past
  <2>. QED
    BY <2>1, FS_Subset, FS_CardinalityType
<1>4. Few(Cardinality(Past))
  BY <1>1, <1>3 DEF Few
<1>5. Number!Noticed /\ scene \in Number!SceneType
  BY DEF Number!Init, Number!Noticed, Number!Zombies
<1>. QED
  BY <1>2, <1>4, <1>5, NumberInit DEF CountInv

LEMMA CountStep ==
    ASSUME IsFiniteSet(Clients), CountInv, [Number!Next]_(Number!vars)
    PROVE  CountInv'
<1>1. NumberInv' /\ Number!Noticed'
  BY NumberStep, NoticedStep DEF CountInv
<1>2. NumServerOK /\ NumClientOK
  BY DEF CountInv, NumberInv
<1>3. InLine' /\ Few(Cardinality(Past))'
  BY <1>2, LineStep, FewStep DEF CountInv
<1>4. scene' = scene
  BY DEF Number!Next, Number!vars
<1>. QED
  BY <1>1, <1>3, <1>4 DEF CountInv

LEMMA CountRight ==
    ASSUME IsFiniteSet(Clients), CountInv
    PROVE  Number!NoneForgotten
<1>. DEFINE K == Cardinality(Clients)
            Numbers == 0..K
<1>1. server.number \in Nat /\ server.number <= K /\ K \in Nat
  <2>1. Past \subseteq Clients
    BY DEF Past
  <2>2. Cardinality(Past) <= K /\ Cardinality(Past) \in Nat /\ K \in Nat
    BY <2>1, FS_Subset, FS_CardinalityType
  <2>3. server.number \in Nat /\ server.number <= Cardinality(Past)
    BY DEF CountInv, Few, NumberInv, NumServerOK
  <2>. HIDE DEF K
  <2>. QED
    BY <2>2, <2>3
<1>. HIDE DEF K
<1>2. ASSUME NEW n \in Nat, n <= server.number PROVE n \in Numbers
  BY <1>1, <1>2
<1>3. server.number \in Numbers
  BY <1>1
<1>4. server.buf \in Numbers \cup {None}
  <2>1. server.buf = None \/ (server.buf \in Nat /\ server.buf <= server.number)
    BY DEF CountInv, Few, NumberInv, NumServerOK, NumberOrNone
  <2>. QED
    BY <1>2, <2>1
<1>5. ASSUME NEW c \in Clients, NEW n \in NumberOrNone, \A m \in Nat : m = n => Has(c, m)
      PROVE  n \in Numbers \cup {None}
  <2>1. CASE n \in Nat
    <3>1. n < server.number
      BY <1>5, <2>1 DEF CountInv, NumberInv
    <3>. QED
      BY <1>1, <1>2, <2>1, <3>1
  <2>. QED
    BY <2>1 DEF NumberOrNone
<1>. HIDE DEF Numbers
<1>6. \A c \in Clients : /\ child[c].buf \in Numbers \cup {None}
                        /\ client[c].sock \in Numbers \cup {None}
                        /\ client[c].got \in Numbers \cup {None}
  <2>. SUFFICES ASSUME NEW c \in Clients
                PROVE  /\ child[c].buf \in Numbers \cup {None}
                       /\ client[c].sock \in Numbers \cup {None}
                       /\ client[c].got \in Numbers \cup {None}
    OBVIOUS
  <2>1. /\ child[c].buf \in NumberOrNone /\ client[c].sock \in NumberOrNone
        /\ client[c].got \in NumberOrNone
    BY DEF CountInv, NumberInv, NumChildOK, NumClientOK
  <2>2. \A m \in Nat : m \in {child[c].buf, client[c].sock, client[c].got} => Has(c, m)
    BY DEF Has
  <2>. QED
    BY <1>5, <2>1, <2>2
<1>7. server \in [at : {"down", "accept", "number", "write", "close", "fork", "errno", "ECHILD",
                       "dead"},
                 number : Numbers, conn : Clients \cup {None}, buf : Numbers \cup {None},
                 pending : BOOLEAN]
  BY <1>3, <1>4 DEF CountInv, NumberInv, NumServerOK
<1>8. child \in [Clients -> [at : {"none", "write", "close", "zombie", "reaped"},
                            buf : Numbers \cup {None}]]
  BY <1>6 DEF CountInv, NumberInv, NumChildOK
<1>9. client \in [Clients -> [at : {"new", "read", "end"}, sock : Numbers \cup {None},
                             closed : BOOLEAN, got : Numbers \cup {None}]]
  BY <1>6 DEF CountInv, NumberInv, NumClientOK
<1>10. Number!Cardinality(Clients) = K
  BY SameCount DEF K
<1>11. Number!TypeOK
  BY <1>7, <1>8, <1>9, <1>10 DEF Number!TypeOK, CountInv, Numbers
<1>. QED
  BY <1>11 DEF Number!NoneForgotten, CountInv

\* A child that has ended is collected, or a SIGCHLD that will make the handler
\* collect it is pending, however signals run together (parallel-server.c,
\* read_chldstate: a loop of waitpid); and no number is above the count of the
\* clients.
THEOREM NoZombieForgotten == Number!Spec => []Number!NoneForgotten
<1>1. Number!Init => CountInv
  BY CountInit, NoneIsNoClient, ClientsAssumption, ServicesAssumption
<1>2. CountInv /\ [Number!Next]_(Number!vars) => CountInv'
  BY CountStep, ClientsAssumption
<1>3. CountInv => Number!NoneForgotten
  BY CountRight, ClientsAssumption
<1>. QED
  BY <1>1, <1>2, <1>3, PTL DEF Number!Spec
-----------------------------------------------------------------------------
(* StreamCalculator, for any clients and backlog, kills, SIGINT and        *)
(* restarts: who gets an answer, and what becomes of the socket's name.    *)

StreamGiven ==
    /\ None \notin Clients /\ Backlog \in Nat /\ Lives \in Nat
    /\ ScenesOf("stream") \subseteq Stream!SceneType

StreamClient == [at : {"ask", "write", "read", "print", "end"}, sent : BOOLEAN,
                 reply : Clients \cup {None}, peer : {"none", "open", "closed", "reset"},
                 got : Clients \cup {None}]
StreamServer == [at : {"down", "lost", "sigaction", "accept", "read", "write", "close"},
                 life : 0..Lives, conn : Clients \cup {None}, order : Clients \cup {None},
                 path : BOOLEAN]

StreamTyped ==
    /\ scene \in Stream!SceneType
    /\ server \in StreamServer /\ (server.at \in {"read", "write", "close"} => server.conn \in Clients)
    /\ client \in [Clients -> StreamClient]
    /\ backlog \in Seq(Clients) /\ Len(backlog) <= Backlog

\* A connection waits in the backlog, or is served; nobody is there twice.
StreamQueued(c) == \E i \in 1..Len(backlog) : backlog[i] = c
AtServer(c) == server.at \in {"read", "write"} /\ server.conn = c
Unanswered(c) ==
    /\ client[c].peer = "open" /\ client[c].reply = None
    /\ client[c].at \in {"write", "read"} \/ (client[c].at = "end" /\ scene.mortal # {})
StreamLine ==
    /\ \A i, j \in 1..Len(backlog) : backlog[i] = backlog[j] => i = j
    /\ server.at \in {"read", "write", "close"} => ~StreamQueued(server.conn)
    /\ \A c \in Clients : StreamQueued(c) \/ AtServer(c) => Unanswered(c)

\* The order at hand is the client's own, unless that has gone without one.
StreamOrder ==
    /\ server.at = "write" => server.order = server.conn \/ client[server.conn].at = "end"
    /\ server.at = "close" => client[server.conn].reply = server.conn /\ client[server.conn].peer = "open"
StreamOwn(c) ==
    /\ client[c].reply \in {c, None} /\ (client[c].peer = "none" => client[c].reply = None)
    /\ client[c].at = "print" => client[c].got = c \/ scene.sigint
    /\ client[c].peer = "closed" /\ client[c].reply = None => client[c].at = "end" \/ scene.sigint

StreamPath ==
    /\ server.at = "down" => ~server.path
    /\ server.at = "lost" => scene.mortal # {} \/ scene.sigint

StreamInv ==
    /\ StreamTyped /\ StreamLine /\ StreamOrder /\ StreamPath
    /\ \A c \in Clients : StreamOwn(c)

LEMMA StreamInit ==
    ASSUME StreamGiven, Stream!Init
    PROVE  StreamInv
<1>. USE DEF StreamGiven, Stream!Init
<1>1. StreamTyped
  <2>1. <<>> \in Seq(Clients) /\ Len(<<>>) = 0
    OBVIOUS
  <2>. QED
    BY <2>1 DEF StreamTyped, StreamServer, StreamClient
<1>2. StreamLine
  BY DEF StreamLine, StreamQueued, AtServer
<1>. QED
  BY <1>1, <1>2 DEF StreamInv, StreamOrder, StreamOwn, StreamPath

\* A step of the server goes on at a with the connection c and the order o.
ServerAt(a, c, o, p) ==
    server'.at = a /\ server'.conn = c /\ server'.order = o /\ server'.path = p

\* A step changes the record of c only.
ClientAt(c, a, s, r, p, g) ==
    /\ client'[c].at = a /\ client'[c].sent = s /\ client'[c].reply = r
    /\ client'[c].peer = p /\ client'[c].got = g
    /\ \A d \in Clients \ {c} : client'[d] = client[d]

\* main between its calls: nobody else sees it.
LEMMA StreamQuiet ==
    ASSUME StreamGiven, StreamInv, scene' = scene,
           \/ Stream!Listen \/ Stream!Sigaction
    PROVE  StreamInv'
<1>. USE DEF StreamGiven
<1>1. server' \in StreamServer /\ server'.at \in {"sigaction", "accept"}
  <2>1. CASE Stream!Listen
    <3>1. server.life + 1 \in 0..Lives
      BY <2>1 DEF Stream!Listen, StreamInv, StreamTyped, StreamServer
    <3>. QED
      BY <2>1, <3>1 DEF Stream!Listen, StreamServer
  <2>2. CASE Stream!Sigaction
    BY <2>2 DEF Stream!Sigaction, Stream!Main, StreamInv, StreamTyped, StreamServer
  <2>. QED
    BY <2>1, <2>2
<1>2. UNCHANGED <<client, backlog>>
  BY DEF Stream!Listen, Stream!Sigaction
<1>3. StreamTyped' /\ StreamOrder' /\ StreamPath'
  BY <1>1, <1>2 DEF StreamInv, StreamTyped, StreamOrder, StreamPath
<1>4. StreamLine'
  BY <1>1, <1>2 DEF StreamInv, StreamLine, StreamQueued, AtServer, Unanswered
<1>5. \A c \in Clients : StreamOwn(c)'
  BY <1>2 DEF StreamInv, StreamOwn
<1>. QED
  BY <1>3, <1>4, <1>5 DEF StreamInv

LEMMA StreamAccept ==
    ASSUME StreamGiven, StreamInv, scene' = scene, Stream!Accept
    PROVE  StreamInv'
<1>0. backlog \in Seq(Clients) /\ backlog # <<>> /\ Len(backlog) <= Backlog
  BY DEF Stream!Accept, StreamInv, StreamTyped
<1>1. PICK c \in Clients : c = backlog[1] /\ Len(backlog) >= 1 /\ Head(backlog) = c
  BY <1>0
<1>2. ServerAt("read", c, server.order, server.path) /\ server' \in StreamServer
  BY <1>1 DEF Stream!Accept, Stream!Main, StreamInv, StreamTyped, StreamServer, ServerAt
<1>3. /\ backlog' \in Seq(Clients) /\ Len(backlog') = Len(backlog) - 1
      /\ \A i \in 1..Len(backlog') : backlog'[i] = backlog[i + 1]
  BY <1>0 DEF Stream!Accept
<1>4. client' = client
  BY DEF Stream!Accept
<1>5. StreamTyped'
  BY <1>0, <1>1, <1>2, <1>3, <1>4 DEF StreamGiven, StreamInv, StreamTyped, ServerAt
<1>6. \A i, j \in 1..Len(backlog') : backlog'[i] = backlog'[j] => i = j
  BY <1>0, <1>3 DEF StreamInv, StreamLine
<1>7. ~StreamQueued(c)'
  <2>1. \A i \in 1..Len(backlog') : i + 1 \in 1..Len(backlog) /\ 1 \in 1..Len(backlog) /\ i + 1 # 1
    BY <1>0, <1>1, <1>3
  <2>2. \A i \in 1..Len(backlog') : backlog[i + 1] # backlog[1]
    BY <2>1 DEF StreamInv, StreamLine
  <2>. QED
    BY <1>1, <1>3, <2>2 DEF StreamQueued
<1>8. \A d \in Clients : StreamQueued(d)' => StreamQueued(d)
  BY <1>0, <1>3 DEF StreamQueued
<1>9. \A d \in Clients : StreamQueued(d) => Unanswered(d)
  BY DEF StreamInv, StreamLine
<1>10. StreamQueued(c)
  BY <1>0, <1>1 DEF StreamQueued
<1>11. \A d \in Clients : StreamQueued(d)' \/ AtServer(d)' => Unanswered(d)'
  BY <1>1, <1>2, <1>4, <1>8, <1>9, <1>10 DEF AtServer, ServerAt, Unanswered
<1>12. StreamLine'
  BY <1>2, <1>6, <1>7, <1>11 DEF StreamLine, ServerAt, StreamQueued
<1>13. StreamOrder' /\ StreamPath' /\ \A d \in Clients : StreamOwn(d)'
  BY <1>2, <1>4 DEF StreamInv, StreamOrder, StreamPath, StreamOwn, ServerAt
<1>. QED
  BY <1>5, <1>12, <1>13 DEF StreamInv

\* A step of main with the connection c that leaves the backlog alone.
LEMMA StreamMain ==
    ASSUME StreamGiven, StreamInv, scene' = scene, backlog' = backlog, NEW c \in Clients,
           server' \in StreamServer, client' \in [Clients -> StreamClient],
           server.at \in {"read", "write", "close"}, server.conn = c,
           server'.at = "accept" \/ server'.conn = c, server'.at \notin {"down", "lost"},
           client'[c].at = client[c].at, client'[c].got = client[c].got,
           \A d \in Clients \ {c} : client'[d] = client[d],
           StreamOwn(c)', StreamOrder', AtServer(c)' => Unanswered(c)'
    PROVE  StreamInv'
<1>1. StreamTyped'
  BY DEF StreamInv, StreamTyped
<1>2. \A d \in Clients : StreamQueued(d)' <=> StreamQueued(d)
  BY DEF StreamQueued
<1>3. ~StreamQueued(c)
  BY DEF StreamInv, StreamLine
<1>4. \A d \in Clients : StreamQueued(d)' \/ AtServer(d)' => Unanswered(d)'
  BY <1>2, <1>3 DEF StreamInv, StreamLine, AtServer, Unanswered
<1>5. StreamLine'
  BY <1>2, <1>3, <1>4 DEF StreamInv, StreamLine, StreamTyped
<1>6. StreamPath' /\ \A d \in Clients : StreamOwn(d)'
  BY DEF StreamInv, StreamPath, StreamOwn
<1>. QED
  BY <1>1, <1>5, <1>6 DEF StreamInv

LEMMA StreamReadOrder ==
    ASSUME StreamGiven, StreamInv, scene' = scene, Stream!ReadOrder
    PROVE  StreamInv'
<1>1. PICK c \in Clients : c = server.conn
  BY DEF Stream!ReadOrder, Stream!At, StreamInv, StreamTyped
<1>2. /\ server.at = "read" /\ (client[c].sent \/ client[c].at = "end") /\ backlog' = backlog
      /\ server' = [[server EXCEPT !.at = "write"] EXCEPT !.order = IF client[c].sent THEN c ELSE @]
      /\ client' = [client EXCEPT ![c].sent = FALSE]
  BY <1>1 DEF Stream!ReadOrder, Stream!At, Stream!Main, Stream!Gone, Stream!Client
<1>3. server' \in StreamServer /\ server'.at = "write" /\ server'.conn = c
      /\ (client[c].sent => server'.order = c)
  BY <1>1, <1>2 DEF StreamInv, StreamTyped, StreamServer
<1>4. client[c] \in StreamClient /\ client \in [Clients -> StreamClient]
  BY DEF StreamInv, StreamTyped
<1>5. client' \in [Clients -> StreamClient]
      /\ ClientAt(c, client[c].at, FALSE, client[c].reply, client[c].peer, client[c].got)
  BY <1>2, <1>4 DEF StreamClient, ClientAt
<1>6. Unanswered(c) /\ StreamOwn(c)
  BY <1>1, <1>2 DEF StreamInv, StreamLine, AtServer
<1>7. StreamOwn(c)' /\ Unanswered(c)' /\ StreamOrder'
  BY <1>2, <1>3, <1>5, <1>6 DEF StreamOwn, Unanswered, StreamOrder, ClientAt
<1>. QED
  BY <1>1, <1>2, <1>3, <1>5, <1>7, StreamMain DEF ClientAt

LEMMA StreamWriteResult ==
    ASSUME StreamGiven, StreamInv, scene' = scene, Stream!WriteResult, ~Stream!Gone(server.conn)
    PROVE  StreamInv'
<1>1. PICK c \in Clients : c = server.conn
  BY DEF Stream!WriteResult, Stream!At, StreamInv, StreamTyped
<1>2. /\ server.at = "write" /\ client[c].at # "end" /\ backlog' = backlog
      /\ server' = [server EXCEPT !.at = "close"]
      /\ client' = [client EXCEPT ![c].reply = server.order]
  BY <1>1 DEF Stream!WriteResult, Stream!At, Stream!Main, Stream!Gone, Stream!Client
<1>3. server.order = c
  BY <1>1, <1>2 DEF StreamInv, StreamOrder
<1>4. server' \in StreamServer /\ server'.at = "close" /\ server'.conn = c
  BY <1>1, <1>2 DEF StreamInv, StreamTyped, StreamServer
<1>5. client[c] \in StreamClient /\ client \in [Clients -> StreamClient]
  BY DEF StreamInv, StreamTyped
<1>6. client' \in [Clients -> StreamClient]
      /\ ClientAt(c, client[c].at, client[c].sent, c, client[c].peer, client[c].got)
  BY <1>2, <1>3, <1>5 DEF StreamClient, ClientAt
<1>7. Unanswered(c) /\ StreamOwn(c)
  BY <1>1, <1>2 DEF StreamInv, StreamLine, AtServer
<1>8. StreamOwn(c)' /\ StreamOrder' /\ ~AtServer(c)'
  BY <1>4, <1>6, <1>7 DEF StreamGiven, StreamOwn, Unanswered, StreamOrder, ClientAt, AtServer
<1>. QED
  BY <1>1, <1>2, <1>4, <1>6, <1>8, StreamMain DEF ClientAt

LEMMA StreamClose ==
    ASSUME StreamGiven, StreamInv, scene' = scene, Stream!Close
    PROVE  StreamInv'
<1>1. PICK c \in Clients : c = server.conn
  BY DEF Stream!Close, Stream!At, StreamInv, StreamTyped
<1>2. /\ server.at = "close" /\ backlog' = backlog
      /\ server' = [[server EXCEPT !.at = "accept"] EXCEPT !.conn = None]
      /\ client' = [client EXCEPT ![c].peer = "closed"]
  BY <1>1 DEF Stream!Close, Stream!At, Stream!Main
<1>3. server' \in StreamServer /\ server'.at = "accept"
  BY <1>2 DEF StreamInv, StreamTyped, StreamServer
<1>4. client[c] \in StreamClient /\ client \in [Clients -> StreamClient]
  BY DEF StreamInv, StreamTyped
<1>5. client' \in [Clients -> StreamClient]
      /\ ClientAt(c, client[c].at, client[c].sent, client[c].reply, "closed", client[c].got)
  BY <1>2, <1>4 DEF StreamClient, ClientAt
<1>6. client[c].reply = c /\ StreamOwn(c)
  BY <1>1, <1>2 DEF StreamInv, StreamOrder
<1>7. StreamOwn(c)' /\ StreamOrder' /\ ~AtServer(c)'
  BY <1>3, <1>5, <1>6 DEF StreamGiven, StreamOwn, StreamOrder, ClientAt, AtServer
<1>. QED
  BY <1>1, <1>2, <1>3, <1>5, <1>7, StreamMain DEF ClientAt

\* The end of the server: by SIGPIPE of a client that was killed, or by SIGINT.
LEMMA StreamEnds ==
    ASSUME StreamGiven, StreamInv, scene' = scene, NEW unlink \in BOOLEAN, Stream!Ends(unlink),
           \/ scene.sigint
           \/ server.at = "write" /\ client[server.conn].at = "end"
    PROVE  StreamInv'
<1>1. server' = [server EXCEPT !.at = IF unlink THEN "down" ELSE "lost",
                               !.path = server.path /\ ~unlink]
  BY DEF Stream!Ends, Stream!Main, StreamInv, StreamTyped, StreamServer
<1>2. /\ server' \in StreamServer /\ server'.at \in {"down", "lost"}
      /\ server'.at = "down" => ~server'.path
  BY <1>1 DEF StreamInv, StreamTyped, StreamServer
<1>3. backlog' = <<>> /\ backlog' \in Seq(Clients) /\ Len(backlog') = 0
  BY DEF Stream!Ends
<1>4. ASSUME NEW c \in Clients
      PROVE  /\ client'[c] \in StreamClient
             /\ client'[c].at = client[c].at /\ client'[c].reply = client[c].reply
             /\ client'[c].got = client[c].got
             /\ client'[c].peer = "closed" => client[c].peer = "closed" \/ server.conn = c
             /\ client'[c].peer = "none" => client[c].peer = "none"
  BY DEF Stream!Ends, StreamInv, StreamTyped, StreamClient
<1>5. DOMAIN client' = Clients /\ client' = [c \in Clients |-> client'[c]]
  BY DEF Stream!Ends
<1>6. client' \in [Clients -> StreamClient]
  BY <1>4, <1>5
<1>7. StreamTyped' /\ StreamLine' /\ StreamOrder'
  BY <1>2, <1>3, <1>6 DEF StreamGiven, StreamInv, StreamTyped, StreamLine, StreamOrder, StreamQueued, AtServer
<1>8. scene.mortal # {} \/ scene.sigint
  BY DEF StreamInv, StreamLine, StreamTyped, AtServer, Unanswered
<1>9. ASSUME NEW c \in Clients PROVE StreamOwn(c)'
  BY <1>4 DEF StreamInv, StreamOwn
<1>. QED
  BY <1>2, <1>7, <1>8, <1>9 DEF StreamInv, StreamPath

\* A client between its calls: its connection stays what it is.
LEMMA StreamClientMoves ==
    ASSUME StreamGiven, StreamInv, scene' = scene, UNCHANGED <<server, backlog>>,
           NEW c \in Clients, client' \in [Clients -> StreamClient],
           \A d \in Clients \ {c} : client'[d] = client[d],
           client'[c].peer = client[c].peer, client'[c].reply = client[c].reply,
           client[c].at = "end" => client'[c].at = "end",
           Unanswered(c) => Unanswered(c)', StreamOwn(c)'
    PROVE  StreamInv'
<1>1. StreamTyped' /\ StreamPath'
  BY DEF StreamInv, StreamTyped, StreamPath
<1>2. \A d \in Clients : Unanswered(d) => Unanswered(d)'
  BY DEF Unanswered
<1>3. StreamLine'
  BY <1>2 DEF StreamInv, StreamLine, StreamQueued, AtServer
<1>4. StreamOrder'
  BY DEF StreamInv, StreamOrder, StreamTyped
<1>5. \A d \in Clients : StreamOwn(d)'
  BY DEF StreamInv, StreamOwn
<1>. QED
  BY <1>1, <1>3, <1>4, <1>5 DEF StreamInv

LEMMA StreamClientStep ==
    ASSUME StreamGiven, StreamInv, scene' = scene, NEW c \in Clients,
           \/ Stream!WriteOrder(c) \/ Stream!ReadResult(c) \/ Stream!Show(c) \/ Stream!Kill(c)
           \/ Stream!Go(c, "ask", "end") /\ UNCHANGED <<server, backlog>>
    PROVE  StreamInv'
<1>0. client[c] \in StreamClient /\ client \in [Clients -> StreamClient] /\ StreamOwn(c)
  BY DEF StreamInv, StreamTyped
<1>. USE DEF Stream!Go, Stream!Client
<1>1. CASE Stream!WriteOrder(c)
  <2>1. PICK s \in BOOLEAN, a \in {"read", "end"} :
           /\ client' = [client EXCEPT ![c].sent = s, ![c].at = a]
           /\ a = "end" => client[c].peer # "open"
    BY <1>1 DEF Stream!WriteOrder
  <2>2. client' \in [Clients -> StreamClient]
        /\ ClientAt(c, a, s, client[c].reply, client[c].peer, client[c].got)
    BY <1>0, <2>1 DEF StreamClient, ClientAt
  <2>3. client[c].at = "write" /\ UNCHANGED <<server, backlog>>
    BY <1>1 DEF Stream!WriteOrder
  <2>4. Unanswered(c) => Unanswered(c)'
    BY <2>1, <2>2 DEF Unanswered, ClientAt
  <2>5. StreamOwn(c)'
    BY <1>0, <2>1, <2>2, <2>3 DEF StreamOwn, ClientAt
  <2>. QED
    BY <2>2, <2>3, <2>4, <2>5, StreamClientMoves DEF ClientAt
<1>2. CASE Stream!ReadResult(c)
  <2>1. client[c].at = "read" /\ UNCHANGED <<server, backlog>>
    BY <1>2 DEF Stream!ReadResult
  <2>2. CASE /\ client[c].reply # None \/ client[c].peer = "closed"
             /\ client' = [client EXCEPT ![c].at = "print", ![c].got = client[c].reply]
    <3>1. client' \in [Clients -> StreamClient]
          /\ ClientAt(c, "print", client[c].sent, client[c].reply, client[c].peer, client[c].reply)
      BY <1>0, <2>2 DEF StreamClient, ClientAt
    <3>2. ~Unanswered(c) /\ StreamOwn(c)'
      BY <1>0, <2>1, <2>2, <3>1 DEF Unanswered, StreamOwn, ClientAt
    <3>. QED
      BY <2>1, <3>1, <3>2, StreamClientMoves DEF ClientAt
  <2>3. CASE /\ client[c].reply = None /\ client[c].peer = "reset"
             /\ client' = [client EXCEPT ![c].at = "end"]
    <3>1. client' \in [Clients -> StreamClient]
          /\ ClientAt(c, "end", client[c].sent, client[c].reply, client[c].peer, client[c].got)
      BY <1>0, <2>3 DEF StreamClient, ClientAt
    <3>2. ~Unanswered(c) /\ StreamOwn(c)'
      BY <1>0, <2>3, <3>1 DEF Unanswered, StreamOwn, ClientAt
    <3>. QED
      BY <2>1, <3>1, <3>2, StreamClientMoves DEF ClientAt
  <2>. QED
    BY <1>2, <2>2, <2>3 DEF Stream!ReadResult
<1>3. ASSUME NEW a \in {"ask", "end"}, client' = [client EXCEPT ![c].at = a], UNCHANGED <<server, backlog>>,
             \/ a = "ask" /\ client[c].at = "print"
             \/ a = "end" /\ client[c].at = "ask"
             \/ a = "end" /\ scene.mortal # {} /\ client[c].at \in {"write", "read"}
      PROVE  StreamInv'
  <2>1. client' \in [Clients -> StreamClient]
        /\ ClientAt(c, a, client[c].sent, client[c].reply, client[c].peer, client[c].got)
    BY <1>0, <1>3 DEF StreamClient, ClientAt
  <2>2. (Unanswered(c) => Unanswered(c)') /\ StreamOwn(c)'
    BY <1>0, <1>3, <2>1 DEF Unanswered, StreamOwn, ClientAt
  <2>. QED
    BY <1>3, <2>1, <2>2, StreamClientMoves DEF ClientAt
<1>4. CASE Stream!Show(c)
  BY <1>3, <1>4 DEF Stream!Show
<1>5. CASE Stream!Kill(c)
  BY <1>3, <1>5 DEF Stream!Kill
<1>6. CASE Stream!Go(c, "ask", "end") /\ UNCHANGED <<server, backlog>>
  <2>1. client[c].at = "ask" /\ client' = [client EXCEPT ![c].at = "end"] /\ UNCHANGED <<server, backlog>>
    BY <1>6
  <2>. QED
    BY <1>3, <2>1
<1>. QED
  BY <1>1, <1>2, <1>4, <1>5, <1>6

LEMMA StreamConnect ==
    ASSUME StreamGiven, StreamInv, scene' = scene, NEW c \in Clients, server' = server,
           Stream!Client(c, "ask"), client[c].peer = "none", ~Stream!Down, Len(backlog) < Backlog,
           client' = [client EXCEPT ![c].at = "write", ![c].peer = "open"],
           backlog' = Append(backlog, c)
    PROVE  StreamInv'
<1>0. client[c] \in StreamClient /\ client \in [Clients -> StreamClient] /\ StreamOwn(c)
      /\ backlog \in Seq(Clients)
  BY DEF StreamInv, StreamTyped
<1>1. client' \in [Clients -> StreamClient]
      /\ ClientAt(c, "write", client[c].sent, client[c].reply, "open", client[c].got)
  BY <1>0 DEF StreamClient, ClientAt
<1>. DEFINE n == Len(backlog)
<1>2. /\ n \in Nat /\ backlog' \in Seq(Clients) /\ Len(backlog') = n + 1 /\ n + 1 <= Backlog
      /\ \A i \in 1..n : backlog'[i] = backlog[i]
      /\ backlog'[n + 1] = c
  BY <1>0 DEF StreamGiven
<1>3. ~StreamQueued(c) /\ ~AtServer(c) /\ (server.at = "close" => server.conn # c)
  BY <1>0 DEF StreamInv, StreamLine, StreamOrder, Unanswered, AtServer, StreamClient
<1>4. \A d \in Clients : StreamQueued(d)' <=> StreamQueued(d) \/ d = c
  <2>1. \A d \in Clients : StreamQueued(d) => StreamQueued(d)'
    BY <1>2 DEF StreamQueued
  <2>2. StreamQueued(c)'
    BY <1>2 DEF StreamQueued
  <2>3. \A d \in Clients : StreamQueued(d)' => StreamQueued(d) \/ d = c
    BY <1>2 DEF StreamQueued
  <2>. QED
    BY <2>1, <2>2, <2>3
<1>5. StreamTyped'
  BY <1>1, <1>2 DEF StreamInv, StreamTyped
<1>6. \A i, j \in 1..Len(backlog') : backlog'[i] = backlog'[j] => i = j
  <2>1. \A i \in 1..n : backlog[i] # c
    BY <1>3 DEF StreamQueued
  <2>2. \A i, j \in 1..n : backlog[i] = backlog[j] => i = j
    BY DEF StreamInv, StreamLine
  <2>. QED
    BY <1>2, <2>1, <2>2
<1>7. client[c].reply = None
  BY <1>0 DEF StreamOwn
<1>8. Unanswered(c)'
  BY <1>1, <1>7 DEF Unanswered, ClientAt
<1>9. \A d \in Clients \ {c} : Unanswered(d) => Unanswered(d)'
  BY <1>1 DEF Unanswered, ClientAt
<1>10. StreamLine'
  <2>1. server.at \in {"read", "write", "close"} => ~StreamQueued(server.conn)'
    BY <1>3, <1>4 DEF StreamInv, StreamLine, StreamTyped, AtServer
  <2>2. \A d \in Clients : StreamQueued(d)' \/ AtServer(d)' => Unanswered(d)'
    BY <1>4, <1>8, <1>9 DEF StreamInv, StreamLine, AtServer
  <2>. QED
    BY <1>6, <2>1, <2>2 DEF StreamLine
<1>11. StreamOrder'
  BY <1>1, <1>3 DEF StreamInv, StreamOrder, StreamTyped, ClientAt, AtServer
<1>12. \A d \in Clients : StreamOwn(d)'
  BY <1>0, <1>1, <1>7 DEF StreamInv, StreamOwn, ClientAt
<1>. QED
  BY <1>5, <1>10, <1>11, <1>12 DEF StreamInv, StreamPath

LEMMA StreamStep ==
    ASSUME StreamGiven, StreamInv, [Stream!Next]_(Stream!vars)
    PROVE  StreamInv'
<1>1. CASE Stream!Next
  <2>0. scene' = scene
    BY <1>1 DEF Stream!Next
  <2>1. CASE Stream!Listen \/ Stream!Sigaction
    BY <2>0, <2>1, StreamQuiet
  <2>2. CASE Stream!Accept \/ Stream!ReadOrder \/ Stream!Close
    BY <2>0, <2>2, StreamAccept, StreamReadOrder, StreamClose
  <2>3. CASE Stream!WriteResult
    <3>1. CASE Stream!Gone(server.conn)
      <4>1. server.at = "write" /\ client[server.conn].at = "end" /\ Stream!Ends(FALSE)
        BY <2>3, <3>1 DEF Stream!WriteResult, Stream!At, Stream!Gone, Stream!Client
      <4>. QED
        BY <2>0, <4>1, StreamEnds
    <3>2. CASE ~Stream!Gone(server.conn)
      BY <2>0, <2>3, <3>2, StreamWriteResult
    <3>. QED
      BY <3>1, <3>2
  <2>4. CASE Stream!Sigint
    <3>1. PICK u \in BOOLEAN : Stream!Ends(u)
      BY <2>4 DEF Stream!Sigint
    <3>. QED
      BY <2>0, <2>4, <3>1, StreamEnds DEF Stream!Sigint
  <2>5. ASSUME NEW c \in Clients, Stream!Connect(c) PROVE StreamInv'
    <3>1. CASE Stream!Go(c, "ask", "end") /\ UNCHANGED backlog
      BY <2>0, <2>5, <3>1, StreamClientStep DEF Stream!Connect
    <3>2. CASE ~(Stream!Go(c, "ask", "end") /\ UNCHANGED backlog)
      BY <2>0, <2>5, <3>2, StreamConnect DEF Stream!Connect
    <3>. QED
      BY <3>1, <3>2
  <2>6. ASSUME NEW c \in Clients, Stream!Moves(c) \/ Stream!Show(c) \/ Stream!Kill(c) PROVE StreamInv'
    BY <2>0, <2>6, StreamClientStep DEF Stream!Moves
  <2>. QED
    BY <1>1, <2>1, <2>2, <2>3, <2>4, <2>5, <2>6 DEF Stream!Next, Stream!Serve
<1>2. CASE UNCHANGED Stream!vars
  BY <1>2 DEF Stream!vars, Stream!moving, StreamInv, StreamTyped, StreamLine, StreamOrder, StreamOwn,
              StreamPath, StreamQueued, AtServer, Unanswered
<1>. QED
  BY <1>1, <1>2

LEMMA StreamRight ==
    ASSUME StreamGiven, StreamInv
    PROVE  Stream!OwnAnswer /\ Stream!Released
<1>1. Stream!TypeOK
  BY DEF StreamInv, StreamTyped, StreamServer, StreamClient, Stream!TypeOK
<1>. QED
  BY <1>1 DEF StreamInv, StreamOwn, StreamPath, Stream!OwnAnswer, Stream!Released, Stream!At, Stream!Client
-----------------------------------------------------------------------------
(* PosixCalculator, for any clients, orders and limits, crashes, SIGINT    *)
(* and restarts: a client has one order under way at most, so that the     *)
(* answer it takes is its own, and the names go with their programs.       *)

PosixGiven ==
    /\ Orders \in Nat /\ Lives \in Nat /\ MaxFds \in Nat /\ MaxOrders \in Nat
    /\ ScenesOf("posix") \subseteq Posix!SceneType

PosixOrder == [client : Clients, no : 1..Orders]
PosixServer == [at : {"down", "lost", "sigaction", "receive", "open", "send", "close", "unlink"},
                life : 0..Lives, q : 0..Lives, job : PosixOrder \cup {None},
                res : Clients \cup {None}, open : 0..MaxFds]
PosixClient == [at : {"new", "create", "sigaction", "ask", "wait", "show", "close", "unlink", "end", "lost"},
                q : 0..Lives, no : 0..Orders, got : PosixOrder \cup {None}]
PosixQueues == [name : 0..Lives, orders : [1..Lives -> Seq(PosixOrder)],
                results : [Clients -> Seq(PosixOrder)], there : SUBSET Clients]

\* A program that is at work has opened the queue of orders.
PosixServerOK ==
    /\ server \in PosixServer
    /\ server.at \notin {"down", "lost"} => server.q \in 1..Lives
    /\ server.at \in {"open", "send"} => server.job \in PosixOrder
    /\ server.at = "send" => server.res = server.job.client
PosixClientOK ==
    /\ client \in [Clients -> PosixClient]
    /\ \A c \in Clients : client[c].at \notin {"new", "end", "lost"} => client[c].q \in 1..Lives
PosixTyped ==
    /\ scene \in Posix!SceneType
    /\ PosixServerOK /\ PosixClientOK
    /\ queues \in PosixQueues
    /\ \A l \in 1..Lives : Len(queues.orders[l]) <= MaxOrders

\* An order of c is in a queue, or at hand, or its result waits for c: one of
\* these, once, and it is the last one that c has sent.
PosixQueued(l, c) == \E i \in 1..Len(queues.orders[l]) : queues.orders[l][i].client = c
PosixAtHand(c) == server.at \in {"open", "send"} /\ server.job.client = c
PosixAnswered(c) == queues.results[c] # <<>>
PosixOnce(c) ==
    /\ \A l \in 1..Lives : \A i, j \in 1..Len(queues.orders[l]) :
          queues.orders[l][i].client = c /\ queues.orders[l][j].client = c => i = j
    /\ \A l \in 1..Lives : PosixQueued(l, c) => l = client[c].q /\ ~PosixAtHand(c) /\ ~PosixAnswered(c)
    /\ ~(PosixAtHand(c) /\ PosixAnswered(c)) /\ Len(queues.results[c]) <= 1
PosixLast(c) ==
    /\ \A l \in 1..Lives : \A i \in 1..Len(queues.orders[l]) :
          queues.orders[l][i].client = c => queues.orders[l][i].no = client[c].no
    /\ PosixAtHand(c) => server.job.no = client[c].no
    /\ PosixAnswered(c) => queues.results[c][1] = Posix!Order(c)
PosixWaits(c) ==
    /\ (\E l \in 1..Lives : PosixQueued(l, c)) \/ PosixAtHand(c) \/ PosixAnswered(c) => client[c].at \in {"wait", "end"}
    /\ client[c].at = "show" => client[c].got = Posix!Order(c)
PosixFlight(c) == PosixOnce(c) /\ PosixLast(c) /\ PosixWaits(c)

PosixName(c) ==
    /\ client[c].at \in {"new", "create", "end"} => c \notin queues.there
    /\ client[c].at = "lost" => c \in scene.sigint
PosixNames ==
    /\ \A c \in Clients : PosixName(c)
    /\ server.at = "down" => queues.name = 0
    /\ server.at = "lost" => scene.crash \/ Server \in scene.sigint

PosixInv ==
    /\ PosixTyped /\ PosixNames
    /\ \A c \in Clients : PosixFlight(c)

LEMMA PosixInit ==
    ASSUME PosixGiven, Posix!Init
    PROVE  PosixInv
<1>. USE DEF PosixGiven, Posix!Init
<1>0. <<>> \in Seq(PosixOrder) /\ Len(<<>>) = 0
  OBVIOUS
<1>1. PosixServerOK
  BY DEF PosixServerOK, PosixServer
<1>2. PosixClientOK
  BY DEF PosixClientOK, PosixClient
<1>3. queues \in PosixQueues /\ \A l \in 1..Lives : queues.orders[l] = <<>>
  BY <1>0 DEF PosixQueues
<1>4. \A l \in 1..Lives : Len(queues.orders[l]) <= MaxOrders
  BY <1>0, <1>3
<1>5. PosixTyped
  BY <1>1, <1>2, <1>3, <1>4 DEF PosixTyped
<1>6. PosixNames
  BY DEF PosixNames, PosixName
<1>7. ASSUME NEW c \in Clients PROVE PosixFlight(c)
  <2>1. ~PosixAnswered(c) /\ ~PosixAtHand(c) /\ queues.results[c] = <<>> /\ client[c].at = "new"
    BY DEF PosixAnswered, PosixAtHand
  <2>2. \A l \in 1..Lives : ~PosixQueued(l, c) /\ Len(queues.orders[l]) = 0
    BY <1>0, <1>3 DEF PosixQueued
  <2>. QED
    BY <1>0, <2>1, <2>2 DEF PosixFlight, PosixOnce, PosixLast, PosixWaits
<1>. QED
  BY <1>5, <1>6, <1>7 DEF PosixInv

\* Nothing happens to the orders and results of c.
LEMMA PosixFlightStays ==
    ASSUME NEW c \in Clients, PosixFlight(c),
           queues'.orders = queues.orders, queues'.results[c] = queues.results[c],
           PosixAtHand(c)' => PosixAtHand(c) /\ server'.job = server.job,
           client[c].at \in {"wait", "end"} => client'[c].at \in {"wait", "end"},
           client'[c].no = client[c].no, client'[c].q = client[c].q \/ client[c].at = "new",
           client'[c].at = "show" => client[c].at = "show" /\ client'[c].got = client[c].got
    PROVE  PosixFlight(c)'
<1>1. (PosixAnswered(c)' <=> PosixAnswered(c)) /\ Posix!Order(c)' = Posix!Order(c)
  BY DEF PosixAnswered, Posix!Order
<1>2. \A l : PosixQueued(l, c)' <=> PosixQueued(l, c)
  BY DEF PosixQueued
<1>3. PosixOnce(c)'
  BY <1>1, <1>2 DEF PosixFlight, PosixOnce, PosixWaits
<1>4. PosixLast(c)'
  BY <1>1 DEF PosixFlight, PosixLast
<1>5. PosixWaits(c)'
  BY <1>1, <1>2 DEF PosixFlight, PosixWaits
<1>. QED
  BY <1>3, <1>4, <1>5 DEF PosixFlight

\* The server between its calls, and at its end.
LEMMA PosixServerMoves ==
    ASSUME PosixGiven, PosixInv, scene' = scene, client' = client, PosixServerOK',
           NEW n \in 0..Lives, queues' = [queues EXCEPT !.name = n],
           server'.at \in {"open", "send"} => server.at \in {"open", "send"} /\ server'.job = server.job,
           server'.at = "down" => n = 0,
           server'.at = "lost" => scene.crash \/ Server \in scene.sigint
    PROVE  PosixInv'
<1>1. /\ queues' \in PosixQueues /\ queues'.name = n /\ queues'.orders = queues.orders
      /\ queues'.results = queues.results /\ queues'.there = queues.there
  BY DEF PosixInv, PosixTyped, PosixQueues
<1>2. PosixTyped'
  BY <1>1 DEF PosixInv, PosixTyped, PosixClientOK
<1>3. PosixNames'
  BY <1>1 DEF PosixInv, PosixNames, PosixName
<1>4. ASSUME NEW c \in Clients PROVE PosixFlight(c)'
  <2>1. PosixAtHand(c)' => PosixAtHand(c) /\ server'.job = server.job
    BY DEF PosixAtHand
  <2>. QED
    BY <1>1, <2>1, PosixFlightStays DEF PosixInv
<1>. QED
  BY <1>2, <1>3, <1>4 DEF PosixInv

LEMMA PosixServerStep ==
    ASSUME PosixGiven, PosixInv, scene' = scene,
           Posix!OpenOrders \/ Posix!Sigaction \/ Posix!OpenResult \/ Posix!Exithandler \/ Posix!ServerEnds
    PROVE  PosixInv'
<1>0. /\ server \in PosixServer /\ PosixServerOK
      /\ queues \in PosixQueues /\ queues.name \in 0..Lives
  BY DEF PosixInv, PosixTyped, PosixServerOK, PosixQueues
<1>. USE DEF Posix!At, Posix!Serving
<1>1. ASSUME queues' = queues PROVE queues' = [queues EXCEPT !.name = queues.name]
  BY <1>0, <1>1 DEF PosixQueues
<1>2. CASE Posix!OpenOrders
  <2>. DEFINE life == server.life + 1
              q == IF queues.name = 0 THEN life ELSE queues.name
  <2>1. /\ client' = client /\ queues' = [queues EXCEPT !.name = q]
        /\ server' = [at |-> "sigaction", life |-> life, q |-> q, job |-> None, res |-> None, open |-> 0]
        /\ server.life < Lives
    BY <1>2 DEF Posix!OpenOrders
  <2>2. life \in 0..Lives /\ q \in 1..Lives
    BY <1>0, <2>1 DEF PosixServer, PosixGiven
  <2>. HIDE DEF life, q
  <2>3. PosixServerOK' /\ server'.at = "sigaction"
    BY <2>1, <2>2 DEF PosixServerOK, PosixServer, PosixGiven
  <2>4. PICK n \in 0..Lives : n = q
    BY <2>2
  <2>. QED
    BY <2>1, <2>3, <2>4, PosixServerMoves
<1>3. CASE Posix!Sigaction
  <2>1. client' = client /\ queues' = queues /\ server' = [server EXCEPT !.at = "receive"]
        /\ server.at = "sigaction"
    BY <1>3 DEF Posix!Sigaction
  <2>2. PosixServerOK' /\ server'.at = "receive"
    BY <1>0, <2>1 DEF PosixServerOK, PosixServer
  <2>. QED
    BY <1>0, <1>1, <2>1, <2>2, PosixServerMoves
<1>4. CASE Posix!OpenResult
  <2>1. client' = client /\ queues' = queues /\ server.at = "open"
    BY <1>4 DEF Posix!OpenResult
  <2>2. CASE server.job.client \in queues.there /\ server.open < MaxFds
    <3>1. server' = [server EXCEPT !.at = "send", !.res = server.job.client, !.open = server.open + 1]
      BY <1>4, <2>2 DEF Posix!OpenResult
    <3>2. server.open + 1 \in 0..MaxFds /\ server.job \in PosixOrder /\ server.job.client \in Clients
      BY <1>0, <2>1, <2>2 DEF PosixServer, PosixServerOK, PosixOrder, PosixGiven
    <3>3. server' \in PosixServer /\ server'.at = "send" /\ server'.job = server.job
          /\ server'.res = server.job.client /\ server'.q = server.q
      BY <1>0, <3>1, <3>2 DEF PosixServer
    <3>4. PosixServerOK'
      BY <1>0, <2>1, <3>2, <3>3 DEF PosixServerOK
    <3>. QED
      BY <1>0, <1>1, <2>1, <3>3, <3>4, PosixServerMoves
  <2>3. CASE ~(server.job.client \in queues.there /\ server.open < MaxFds)
    <3>1. server' = [server EXCEPT !.at = "close"]
      BY <1>4, <2>3 DEF Posix!OpenResult
    <3>2. PosixServerOK' /\ server'.at = "close"
      BY <1>0, <2>1, <3>1 DEF PosixServerOK, PosixServer
    <3>. QED
      BY <1>0, <1>1, <2>1, <3>2, PosixServerMoves
  <2>. QED
    BY <2>2, <2>3
<1>5. CASE Posix!Exithandler
  <2>1. PICK n \in 0..Lives, a \in {"unlink", "down"} :
           /\ client' = client /\ queues' = [queues EXCEPT !.name = n] /\ server' = [server EXCEPT !.at = a]
           /\ server.at \notin {"down", "lost"} /\ (a = "down" => n = 0)
    <3>1. CASE server.at = "close" /\ server' = [server EXCEPT !.at = "unlink"] /\ queues' = queues
      BY <1>0, <1>1, <1>5, <3>1 DEF Posix!Exithandler
    <3>2. CASE server.at = "unlink" /\ server' = [server EXCEPT !.at = "down"]
               /\ queues' = [queues EXCEPT !.name = 0]
      BY <1>0, <1>5, <3>2 DEF Posix!Exithandler, PosixGiven
    <3>. QED
      BY <1>5, <3>1, <3>2 DEF Posix!Exithandler
  <2>2. PosixServerOK' /\ server'.at = a
    BY <1>0, <2>1 DEF PosixServerOK, PosixServer
  <2>. QED
    BY <2>1, <2>2, PosixServerMoves
<1>6. CASE Posix!ServerEnds
  <2>1. PICK n \in 0..Lives, a \in {"down", "lost"} :
           /\ client' = client /\ queues' = [queues EXCEPT !.name = n] /\ server' = [server EXCEPT !.at = a]
           /\ a = "down" => n = 0
           /\ a = "lost" => scene.crash \/ Server \in scene.sigint
    <3>1. CASE server' = [server EXCEPT !.at = "lost"] /\ queues' = queues
               /\ (scene.crash \/ Server \in scene.sigint)
      BY <1>0, <1>1, <1>6, <3>1 DEF Posix!ServerEnds
    <3>2. CASE server' = [server EXCEPT !.at = "down"] /\ queues' = [queues EXCEPT !.name = 0]
      BY <1>0, <1>6, <3>2 DEF Posix!ServerEnds, PosixGiven
    <3>. QED
      BY <1>6, <3>1, <3>2 DEF Posix!ServerEnds
  <2>2. PosixServerOK' /\ server'.at = a
    BY <1>0, <2>1 DEF PosixServerOK, PosixServer
  <2>. QED
    BY <2>1, <2>2, PosixServerMoves
<1>. QED
  BY <1>2, <1>3, <1>4, <1>5, <1>6

\* A client between its calls: its name may come or go.
LEMMA PosixClientMoves ==
    ASSUME PosixGiven, PosixInv, scene' = scene, server' = server, NEW c \in Clients,
           PosixClientOK', \A d \in Clients \ {c} : client'[d] = client[d],
           client[c].at # "end", client[c].at = "wait" => client'[c].at = "end",
           client'[c].no = client[c].no, client'[c].q = client[c].q \/ client[c].at = "new",
           client'[c].at # "show",
           NEW S \in SUBSET Clients, queues' = [queues EXCEPT !.there = S],
           S \ {c} = queues.there \ {c},
           client'[c].at \in {"new", "create", "end"} => c \notin S,
           client'[c].at = "lost" => c \in scene.sigint
    PROVE  PosixInv'
<1>1. /\ queues' \in PosixQueues /\ queues'.there = S /\ queues'.orders = queues.orders
      /\ queues'.results = queues.results /\ queues'.name = queues.name
  BY DEF PosixInv, PosixTyped, PosixQueues
<1>2. PosixTyped'
  BY <1>1 DEF PosixInv, PosixTyped, PosixServerOK
<1>3. PosixNames'
  <2>1. \A d \in Clients : PosixName(d)'
    BY <1>1 DEF PosixInv, PosixNames, PosixName
  <2>. QED
    BY <1>1, <2>1 DEF PosixInv, PosixNames
<1>4. ASSUME NEW d \in Clients PROVE PosixFlight(d)'
  <2>1. PosixAtHand(d)' => PosixAtHand(d) /\ server'.job = server.job
    BY DEF PosixAtHand
  <2>. QED
    BY <1>1, <2>1, PosixFlightStays DEF PosixInv
<1>. QED
  BY <1>2, <1>3, <1>4 DEF PosixInv

LEMMA PosixClientStep ==
    ASSUME PosixGiven, PosixInv, scene' = scene, NEW c \in Clients,
           \/ Posix!ClientOpen(c) \/ Posix!ClientCreate(c) \/ Posix!ClientSigaction(c)
           \/ Posix!Show(c) \/ Posix!ClientExit(c) \/ Posix!ClientSigint(c)
           \/ Posix!Go(c, "ask", "close") /\ UNCHANGED <<server, queues>>
    PROVE  PosixInv'
<1>0. /\ client \in [Clients -> PosixClient] /\ client[c] \in PosixClient /\ PosixClientOK
      /\ queues \in PosixQueues /\ queues.there \in SUBSET Clients /\ PosixName(c)
      /\ queues = [queues EXCEPT !.there = queues.there]
  BY DEF PosixInv, PosixTyped, PosixClientOK, PosixQueues, PosixNames
<1>. USE DEF Posix!Go, Posix!Client
<1>1. ASSUME NEW a \in {"sigaction", "ask", "close", "unlink", "end", "lost"}, server' = server,
             client' = [client EXCEPT ![c].at = a],
             client[c].at \notin {"new", "end", "lost"}, client[c].at = "wait" => a = "end",
             NEW S \in SUBSET Clients, queues' = [queues EXCEPT !.there = S],
             S \ {c} = queues.there \ {c}, a = "end" => c \notin S, a = "lost" => c \in scene.sigint
      PROVE  PosixInv'
  <2>1. /\ PosixClientOK' /\ client'[c].at = a /\ client'[c].no = client[c].no
        /\ client'[c].q = client[c].q /\ \A d \in Clients \ {c} : client'[d] = client[d]
    BY <1>0, <1>1 DEF PosixClientOK, PosixClient
  <2>2. a \notin {"new", "create", "show"}
    OBVIOUS
  <2>. QED
    BY <1>1, <2>1, <2>2, PosixClientMoves
<1>2. CASE Posix!ClientOpen(c)
  <2>1. PICK a \in {"create", "end"}, n \in 0..Lives :
           /\ client' = [client EXCEPT ![c].at = a, ![c].q = n] /\ (a = "create" => n # 0)
    BY <1>0, <1>2 DEF Posix!ClientOpen, PosixQueues
  <2>2. /\ PosixClientOK' /\ client'[c].at = a /\ client'[c].no = client[c].no
        /\ \A d \in Clients \ {c} : client'[d] = client[d]
    BY <1>0, <2>1 DEF PosixClientOK, PosixClient, PosixGiven
  <2>3. client[c].at = "new" /\ server' = server /\ queues' = queues /\ c \notin queues.there
    BY <1>0, <1>2 DEF Posix!ClientOpen, PosixName
  <2>. QED
    BY <1>0, <2>1, <2>2, <2>3, PosixClientMoves
<1>3. CASE Posix!ClientCreate(c)
  <2>1. queues' = [queues EXCEPT !.there = queues.there \cup {c}]
        /\ queues.there \cup {c} \in SUBSET Clients
    BY <1>0, <1>3 DEF Posix!ClientCreate
  <2>. QED
    BY <1>1, <1>3, <2>1 DEF Posix!ClientCreate
<1>4. CASE Posix!ClientSigaction(c)
  BY <1>0, <1>1, <1>4 DEF Posix!ClientSigaction
<1>5. CASE Posix!Show(c)
  BY <1>0, <1>1, <1>5 DEF Posix!Show
<1>6. CASE Posix!ClientExit(c)
  <2>1. CASE Posix!Go(c, "close", "unlink") /\ UNCHANGED queues
    BY <1>0, <1>1, <1>6, <2>1 DEF Posix!ClientExit
  <2>2. CASE Posix!Go(c, "unlink", "end") /\ queues' = [queues EXCEPT !.there = @ \ {c}]
    <3>1. queues' = [queues EXCEPT !.there = queues.there \ {c}] /\ queues.there \ {c} \in SUBSET Clients
      BY <1>0, <2>2
    <3>2. client[c].at = "unlink" /\ client' = [client EXCEPT ![c].at = "end"] /\ server' = server
      BY <1>6, <2>2 DEF Posix!ClientExit
    <3>3. (queues.there \ {c}) \ {c} = queues.there \ {c} /\ c \notin queues.there \ {c}
      OBVIOUS
    <3>4. PICK S \in SUBSET Clients : S = queues.there \ {c}
      BY <3>1
    <3>. QED
      BY <1>1, <3>1, <3>2, <3>3, <3>4
  <2>. QED
    BY <1>6, <2>1, <2>2 DEF Posix!ClientExit
<1>7. CASE Posix!ClientSigint(c)
  <2>0. c \in scene.sigint /\ server' = server
    BY <1>7 DEF Posix!ClientSigint
  <2>1. CASE Posix!Go(c, "create", "end") /\ UNCHANGED queues
    <3>1. c \notin queues.there
      BY <1>0, <2>1 DEF PosixName
    <3>. QED
      BY <1>0, <1>1, <2>0, <2>1, <3>1
  <2>2. CASE \E step \in {"sigaction", "unlink"} : Posix!Go(c, step, "lost") /\ UNCHANGED queues
    BY <1>0, <1>1, <2>0, <2>2
  <2>3. CASE /\ \E step \in {"ask", "wait", "show", "close"} : Posix!Go(c, step, "end")
             /\ queues' = [queues EXCEPT !.there = @ \ {c}]
    <3>1. PICK S \in SUBSET Clients : S = queues.there \ {c}
      BY <1>0
    <3>2. queues' = [queues EXCEPT !.there = S] /\ S \ {c} = queues.there \ {c} /\ c \notin S
      BY <2>3, <3>1
    <3>. QED
      BY <1>1, <2>0, <2>3, <3>2
  <2>. QED
    BY <1>7, <2>1, <2>2, <2>3 DEF Posix!ClientSigint
<1>8. CASE Posix!Go(c, "ask", "close") /\ UNCHANGED <<server, queues>>
  BY <1>0, <1>1, <1>8
<1>. QED
  BY <1>2, <1>3, <1>4, <1>5, <1>6, <1>7, <1>8

\* mq_send and mq_receive on a queue of orders.
LEMMA PosixOrdersEffect ==
    ASSUME queues \in PosixQueues, NEW q \in 1..Lives, NEW s \in Seq(PosixOrder),
           queues' = [queues EXCEPT !.orders[q] = s]
    PROVE  /\ queues' \in PosixQueues /\ queues'.name = queues.name
           /\ queues'.results = queues.results /\ queues'.there = queues.there
           /\ queues'.orders[q] = s
           /\ \A l \in 1..Lives \ {q} : queues'.orders[l] = queues.orders[l]
<1>1. queues.orders \in [1..Lives -> Seq(PosixOrder)]
  BY DEF PosixQueues
<1>2. queues' = [queues EXCEPT !.orders = [queues.orders EXCEPT ![q] = s]]
  OBVIOUS
<1>3. PICK f \in [1..Lives -> Seq(PosixOrder)] : f = [queues.orders EXCEPT ![q] = s]
  BY <1>1
<1>4. queues' = [queues EXCEPT !.orders = f]
  BY <1>2, <1>3
<1>5. /\ queues' \in PosixQueues /\ queues'.name = queues.name
      /\ queues'.results = queues.results /\ queues'.there = queues.there /\ queues'.orders = f
  BY <1>4 DEF PosixQueues
<1>6. f[q] = s /\ \A l \in 1..Lives \ {q} : f[l] = queues.orders[l]
  BY <1>1, <1>3
<1>. QED
  BY <1>5, <1>6

\* A client sends an order: until then none of its own was under way.
LEMMA PosixAsk ==
    ASSUME PosixGiven, PosixInv, scene' = scene, server' = server, NEW c \in Clients,
           Posix!Client(c, "ask"), client[c].no < Orders,
           Len(queues.orders[client[c].q]) < MaxOrders,
           client' = [client EXCEPT ![c].at = "wait", ![c].no = @ + 1],
           queues' = [queues EXCEPT !.orders[client[c].q] = Append(@, Posix!Order(c)')]
    PROVE  PosixInv'
<1>0. /\ client \in [Clients -> PosixClient] /\ client[c] \in PosixClient /\ client[c].at = "ask"
      /\ client[c].q \in 1..Lives /\ queues \in PosixQueues
      /\ queues.orders[client[c].q] \in Seq(PosixOrder)
  BY DEF PosixInv, PosixTyped, PosixClientOK, PosixQueues, Posix!Client
<1>. DEFINE o == [client |-> c, no |-> client[c].no + 1]
<1>1. client[c].no + 1 \in 1..Orders
  BY <1>0 DEF PosixClient, PosixGiven
<1>2. /\ client'[c].at = "wait" /\ client'[c].no = client[c].no + 1 /\ client'[c].q = client[c].q
      /\ PosixClientOK' /\ \A d \in Clients \ {c} : client'[d] = client[d]
  <2>1. client'[c] = [client[c] EXCEPT !.at = "wait", !.no = client[c].no + 1]
        /\ \A d \in Clients \ {c} : client'[d] = client[d]
    BY <1>0
  <2>2. client'[c] \in PosixClient /\ client'[c].at = "wait" /\ client'[c].no = client[c].no + 1
        /\ client'[c].q = client[c].q
    BY <1>0, <1>1, <2>1 DEF PosixClient
  <2>3. client' \in [Clients -> PosixClient]
    BY <1>0, <2>1, <2>2
  <2>. QED
    BY <1>0, <2>1, <2>2, <2>3 DEF PosixClientOK, PosixInv, PosixTyped
<1>3. Posix!Order(c)' = o /\ o \in PosixOrder
  BY <1>1, <1>2 DEF Posix!Order, PosixOrder
<1>4. PICK q \in 1..Lives : q = client[c].q
  BY <1>0
<1>5. queues' = [queues EXCEPT !.orders[q] = Append(queues.orders[q], o)]
  BY <1>3, <1>4
<1>6. PICK s \in Seq(PosixOrder) : s = queues.orders[q] /\ Len(s) < MaxOrders
  BY <1>0, <1>4
<1>. HIDE DEF o
<1>7. PICK t \in Seq(PosixOrder) : t = Append(s, o)
  BY <1>3, <1>6, AppendFacts
<1>8. /\ Len(t) = Len(s) + 1 /\ Len(s) \in Nat
      /\ \A i \in 1..Len(s) : t[i] = s[i]
      /\ t[Len(s) + 1] = o
      /\ \A i \in 1..Len(t) : i \in 1..Len(s) \/ i = Len(s) + 1
  BY <1>3, <1>7, AppendFacts
<1>17. Len(t) <= MaxOrders
  BY <1>6, <1>8 DEF PosixGiven
<1>18. queues' = [queues EXCEPT !.orders[q] = t]
  BY <1>5, <1>6, <1>7
<1>9. /\ queues' \in PosixQueues /\ queues'.name = queues.name
      /\ queues'.results = queues.results /\ queues'.there = queues.there
      /\ queues'.orders[q] = t
      /\ \A l \in 1..Lives \ {q} : queues'.orders[l] = queues.orders[l]
  BY <1>0, <1>18, PosixOrdersEffect
<1>10. PosixTyped'
  <2>1. \A l \in 1..Lives : Len(queues'.orders[l]) <= MaxOrders
    BY <1>9, <1>17 DEF PosixInv, PosixTyped
  <2>. QED
    BY <1>2, <1>9, <2>1 DEF PosixInv, PosixTyped, PosixServerOK
<1>11. PosixNames'
  BY <1>0, <1>2, <1>9 DEF PosixInv, PosixNames, PosixName
<1>12. ~PosixAtHand(c) /\ ~PosixAnswered(c) /\ queues.results[c] = <<>> /\ \A l \in 1..Lives : ~PosixQueued(l, c)
  BY <1>0 DEF PosixInv, PosixFlight, PosixWaits, PosixAnswered
<1>13. ~PosixAtHand(c)' /\ ~PosixAnswered(c)' /\ Len(queues'.results[c]) = 0
  BY <1>9, <1>12 DEF PosixAtHand, PosixAnswered
<1>14. /\ \A l \in 1..Lives \ {q} : \A i \in 1..Len(queues'.orders[l]) : queues'.orders[l][i].client # c
       /\ \A i \in 1..Len(t) : i = Len(s) + 1 \/ t[i].client # c
       /\ queues'.orders[q] = t
  <2>1. \A i \in 1..Len(s) : s[i].client # c
    BY <1>6, <1>12 DEF PosixQueued
  <2>2. \A l \in 1..Lives \ {q} : \A i \in 1..Len(queues.orders[l]) : queues.orders[l][i].client # c
    BY <1>12 DEF PosixQueued
  <2>3. \A i \in 1..Len(t) : i = Len(s) + 1 \/ t[i].client # c
    BY <1>8, <2>1
  <2>. QED
    BY <1>9, <2>2, <2>3
<1>15. PosixFlight(c)'
  <2>1. PosixOnce(c)'
    <3>1. ASSUME NEW l \in 1..Lives, NEW i \in 1..Len(queues'.orders[l]), NEW j \in 1..Len(queues'.orders[l]),
                 queues'.orders[l][i].client = c, queues'.orders[l][j].client = c
          PROVE  i = j
      <4>1. l = q
        BY <1>14, <3>1
      <4>. QED
        BY <1>14, <3>1, <4>1
    <3>2. \A l \in 1..Lives : PosixQueued(l, c)' => l = q
      BY <1>14 DEF PosixQueued
    <3>3. \A l \in 1..Lives : PosixQueued(l, c)' => l = client'[c].q /\ ~PosixAtHand(c)' /\ ~PosixAnswered(c)'
      BY <1>2, <1>4, <1>13, <3>2
    <3>4. ~(PosixAtHand(c)' /\ PosixAnswered(c)') /\ Len(queues'.results[c]) <= 1
      BY <1>13
    <3>. QED
      BY <3>1, <3>3, <3>4 DEF PosixOnce
  <2>2. PosixLast(c)'
    <3>1. o.no = client'[c].no
      BY <1>2 DEF o
    <3>2. ASSUME NEW l \in 1..Lives, NEW i \in 1..Len(queues'.orders[l]), queues'.orders[l][i].client = c
          PROVE  queues'.orders[l][i].no = client'[c].no
      <4>1. l = q
        BY <1>14, <3>2
      <4>2. i = Len(s) + 1
        BY <1>14, <3>2, <4>1
      <4>. QED
        BY <1>8, <1>14, <3>1, <4>1, <4>2
    <3>. QED
      BY <1>13, <3>2 DEF PosixLast
  <2>3. PosixWaits(c)'
    BY <1>2 DEF PosixWaits
  <2>. QED
    BY <2>1, <2>2, <2>3 DEF PosixFlight
<1>16. ASSUME NEW d \in Clients \ {c} PROVE PosixFlight(d)'
  <2>1. PosixFlight(d) /\ client'[d] = client[d] /\ o.client # d
    BY <1>2 DEF PosixInv, o
  <2>2. \A l \in 1..Lives : \A i \in 1..Len(queues'.orders[l]) :
           queues'.orders[l][i].client = d =>
              i \in 1..Len(queues.orders[l]) /\ queues.orders[l][i] = queues'.orders[l][i]
    <3>1. \A i \in 1..Len(t) : t[i].client = d => i \in 1..Len(s) /\ s[i] = t[i]
      BY <1>8, <2>1
    <3>2. ASSUME NEW l \in 1..Lives, NEW i \in 1..Len(queues'.orders[l]), queues'.orders[l][i].client = d
          PROVE  i \in 1..Len(queues.orders[l]) /\ queues.orders[l][i] = queues'.orders[l][i]
      <4>1. CASE l = q
        BY <1>6, <1>9, <3>1, <3>2, <4>1
      <4>2. CASE l # q
        BY <1>9, <3>2, <4>2
      <4>. QED
        BY <4>1, <4>2
    <3>. QED
      BY <3>2
  <2>3. \A l \in 1..Lives : PosixQueued(l, d)' => PosixQueued(l, d)
    BY <2>2 DEF PosixQueued
  <2>4. (PosixAtHand(d)' <=> PosixAtHand(d)) /\ (PosixAnswered(d)' <=> PosixAnswered(d)) /\ Posix!Order(d)' = Posix!Order(d)
        /\ queues'.results[d] = queues.results[d]
    BY <1>9, <2>1 DEF PosixAtHand, PosixAnswered, Posix!Order
  <2>5. PosixOnce(d)'
    <3>1. ASSUME NEW l \in 1..Lives, NEW i \in 1..Len(queues'.orders[l]), NEW j \in 1..Len(queues'.orders[l]),
                 queues'.orders[l][i].client = d, queues'.orders[l][j].client = d
          PROVE  i = j
      <4>1. /\ i \in 1..Len(queues.orders[l]) /\ queues.orders[l][i].client = d
            /\ j \in 1..Len(queues.orders[l]) /\ queues.orders[l][j].client = d
        BY <2>2, <3>1
      <4>. QED
        BY <2>1, <4>1 DEF PosixFlight, PosixOnce
    <3>2. \A l \in 1..Lives : PosixQueued(l, d)' => l = client'[d].q /\ ~PosixAtHand(d)' /\ ~PosixAnswered(d)'
      BY <2>1, <2>3, <2>4 DEF PosixFlight, PosixOnce
    <3>3. ~(PosixAtHand(d)' /\ PosixAnswered(d)') /\ Len(queues'.results[d]) <= 1
      BY <2>1, <2>4 DEF PosixFlight, PosixOnce
    <3>. QED
      BY <3>1, <3>2, <3>3 DEF PosixOnce
  <2>6. PosixLast(d)'
    <3>1. ASSUME NEW l \in 1..Lives, NEW i \in 1..Len(queues'.orders[l]), queues'.orders[l][i].client = d
          PROVE  queues'.orders[l][i].no = client'[d].no
      <4>1. i \in 1..Len(queues.orders[l]) /\ queues.orders[l][i].client = d
            /\ queues'.orders[l][i].no = queues.orders[l][i].no
        BY <2>2, <3>1
      <4>. QED
        BY <2>1, <4>1 DEF PosixFlight, PosixLast
    <3>2. (PosixAtHand(d)' => server'.job.no = client'[d].no)
          /\ (PosixAnswered(d)' => queues'.results[d][1] = Posix!Order(d)')
      BY <2>1, <2>4 DEF PosixFlight, PosixLast
    <3>. QED
      BY <3>1, <3>2 DEF PosixLast
  <2>7. PosixWaits(d)'
    BY <2>1, <2>3, <2>4 DEF PosixFlight, PosixWaits
  <2>. QED
    BY <2>5, <2>6, <2>7 DEF PosixFlight
<1>. QED
  BY <1>10, <1>11, <1>15, <1>16 DEF PosixInv

LEMMA PosixReceive ==
    ASSUME PosixGiven, PosixInv, scene' = scene, Posix!Receive
    PROVE  PosixInv'
<1>0. /\ server.at = "receive" /\ server \in PosixServer /\ server.q \in 1..Lives /\ client' = client
      /\ queues \in PosixQueues /\ queues.orders[server.q] # <<>>
      /\ queues.orders[server.q] \in Seq(PosixOrder)
  BY DEF Posix!Receive, Posix!At, PosixInv, PosixTyped, PosixServerOK, PosixQueues
<1>1. PICK q \in 1..Lives : q = server.q
  BY <1>0
<1>2. PICK s \in Seq(PosixOrder) : s = queues.orders[q] /\ s # <<>> /\ Len(s) <= MaxOrders
  BY <1>0, <1>1 DEF PosixInv, PosixTyped
<1>3. PICK o \in PosixOrder : o = s[1] /\ Head(s) = o
  BY <1>2
<1>4. /\ Tail(s) \in Seq(PosixOrder) /\ Len(s) \in Nat /\ Len(s) >= 1 /\ Len(Tail(s)) = Len(s) - 1
      /\ \A i \in 1..Len(Tail(s)) : Tail(s)[i] = s[i + 1] /\ i + 1 \in 1..Len(s)
  BY <1>2
<1>5. server' = [server EXCEPT !.at = "open", !.job = o]
      /\ queues' = [queues EXCEPT !.orders[q] = Tail(s)]
  BY <1>1, <1>2, <1>3 DEF Posix!Receive
<1>7. /\ queues' \in PosixQueues /\ queues'.name = queues.name
      /\ queues'.results = queues.results /\ queues'.there = queues.there
      /\ queues'.orders[q] = Tail(s)
      /\ \A l \in 1..Lives \ {q} : queues'.orders[l] = queues.orders[l]
  BY <1>0, <1>4, <1>5, PosixOrdersEffect
<1>8. PosixServerOK' /\ server'.at = "open" /\ server'.job = o
  BY <1>0, <1>5 DEF PosixServerOK, PosixServer
<1>9. PosixTyped'
  <2>1. Len(Tail(s)) <= MaxOrders
    BY <1>2, <1>4 DEF PosixGiven
  <2>2. \A l \in 1..Lives : Len(queues'.orders[l]) <= MaxOrders
    BY <1>7, <2>1 DEF PosixInv, PosixTyped
  <2>. QED
    BY <1>0, <1>7, <1>8, <2>2 DEF PosixInv, PosixTyped, PosixClientOK
<1>10. PosixNames'
  BY <1>0, <1>7, <1>8 DEF PosixInv, PosixNames, PosixName
<1>11. ASSUME NEW d \in Clients PROVE PosixFlight(d)'
  <2>0. PosixFlight(d) /\ ~PosixAtHand(d) /\ client'[d] = client[d]
    BY <1>0 DEF PosixInv, PosixAtHand
  <2>1. (PosixAnswered(d)' <=> PosixAnswered(d)) /\ Posix!Order(d)' = Posix!Order(d)
        /\ queues'.results[d] = queues.results[d] /\ (PosixAtHand(d)' <=> o.client = d)
    BY <1>7, <1>8, <2>0 DEF PosixAtHand, PosixAnswered, Posix!Order
  <2>2. /\ \A l \in 1..Lives \ {q} : queues'.orders[l] = queues.orders[l]
        /\ Len(queues'.orders[q]) = Len(s) - 1
        /\ \A i \in 1..Len(queues'.orders[q]) : queues'.orders[q][i] = s[i + 1] /\ i + 1 \in 1..Len(s)
    BY <1>4, <1>7
  <2>3. ASSUME NEW l \in 1..Lives, PosixQueued(l, d)' PROVE PosixQueued(l, d)
    <3>1. CASE l = q
      BY <1>2, <2>2, <2>3, <3>1 DEF PosixQueued
    <3>2. CASE l # q
      BY <2>2, <2>3, <3>2 DEF PosixQueued
    <3>. QED
      BY <3>1, <3>2
  <2>4. o.client = d => /\ PosixQueued(q, d) /\ o.no = client[d].no /\ ~PosixAnswered(d)
                        /\ \A l \in 1..Lives : ~PosixQueued(l, d)'
    <3>. SUFFICES ASSUME o.client = d
                  PROVE  /\ PosixQueued(q, d) /\ o.no = client[d].no /\ ~PosixAnswered(d)
                         /\ \A l \in 1..Lives : ~PosixQueued(l, d)'
      OBVIOUS
    <3>1. 1 \in 1..Len(s) /\ queues.orders[q][1] = o
      BY <1>2, <1>3, <1>4
    <3>2. PosixQueued(q, d)
      BY <1>2, <3>1 DEF PosixQueued
    <3>3. ~PosixAnswered(d) /\ o.no = client[d].no
      BY <1>2, <2>0, <3>1, <3>2 DEF PosixFlight, PosixOnce, PosixLast
    <3>4. \A l \in 1..Lives \ {q} : ~PosixQueued(l, d)
      BY <2>0, <3>2 DEF PosixFlight, PosixOnce
    <3>5. \A i \in 1..Len(s) : s[i].client = d => i = 1
      BY <1>2, <2>0, <3>1 DEF PosixFlight, PosixOnce
    <3>6. ~PosixQueued(q, d)'
      <4>1. \A i \in 1..Len(queues'.orders[q]) : i + 1 # 1 /\ s[i + 1].client # d
        <5>1. \A i \in 1..Len(queues'.orders[q]) : i + 1 # 1
          OBVIOUS
        <5>. QED
          BY <2>2, <3>5, <5>1
      <4>. QED
        BY <2>2, <4>1 DEF PosixQueued
    <3>7. \A l \in 1..Lives \ {q} : ~PosixQueued(l, d)'
      BY <2>3, <3>4
    <3>. QED
      BY <3>2, <3>3, <3>6, <3>7
  <2>5. PosixOnce(d)'
    <3>1. ASSUME NEW l \in 1..Lives, NEW i \in 1..Len(queues'.orders[l]), NEW j \in 1..Len(queues'.orders[l]),
                 queues'.orders[l][i].client = d, queues'.orders[l][j].client = d
          PROVE  i = j
      <4>1. CASE l = q
        <5>1. s[i + 1].client = d /\ s[j + 1].client = d /\ i + 1 \in 1..Len(s) /\ j + 1 \in 1..Len(s)
          BY <2>2, <3>1, <4>1
        <5>2. i + 1 = j + 1
          BY <1>2, <2>0, <5>1 DEF PosixFlight, PosixOnce
        <5>3. i \in Int /\ j \in Int
          OBVIOUS
        <5>. QED
          BY <5>2, <5>3
      <4>2. CASE l # q
        BY <2>0, <2>2, <3>1, <4>2 DEF PosixFlight, PosixOnce
      <4>. QED
        BY <4>1, <4>2
    <3>2. \A l \in 1..Lives : PosixQueued(l, d)' => l = client'[d].q /\ ~PosixAtHand(d)' /\ ~PosixAnswered(d)'
      BY <2>0, <2>1, <2>3, <2>4 DEF PosixFlight, PosixOnce
    <3>3. ~(PosixAtHand(d)' /\ PosixAnswered(d)') /\ Len(queues'.results[d]) <= 1
      BY <2>0, <2>1, <2>4 DEF PosixFlight, PosixOnce
    <3>. QED
      BY <3>1, <3>2, <3>3 DEF PosixOnce
  <2>6. PosixLast(d)'
    <3>1. ASSUME NEW l \in 1..Lives, NEW i \in 1..Len(queues'.orders[l]), queues'.orders[l][i].client = d
          PROVE  queues'.orders[l][i].no = client'[d].no
      <4>1. CASE l = q
        BY <1>2, <2>0, <2>2, <3>1, <4>1 DEF PosixFlight, PosixLast
      <4>2. CASE l # q
        BY <2>0, <2>2, <3>1, <4>2 DEF PosixFlight, PosixLast
      <4>. QED
        BY <4>1, <4>2
    <3>2. (PosixAtHand(d)' => server'.job.no = client'[d].no)
          /\ (PosixAnswered(d)' => queues'.results[d][1] = Posix!Order(d)')
      BY <1>8, <2>0, <2>1, <2>4 DEF PosixFlight, PosixLast
    <3>. QED
      BY <3>1, <3>2 DEF PosixLast
  <2>7. PosixWaits(d)'
    BY <2>0, <2>1, <2>3, <2>4 DEF PosixFlight, PosixWaits
  <2>. QED
    BY <2>5, <2>6, <2>7 DEF PosixFlight
<1>. QED
  BY <1>9, <1>10, <1>11 DEF PosixInv

\* The server answers the order at hand, and a client takes its answer.
LEMMA PosixResults ==
    ASSUME PosixGiven, PosixInv, scene' = scene, PosixServerOK', PosixClientOK', NEW c \in Clients,
           \A d \in Clients \ {c} : client'[d] = client[d],
           client'[c].no = client[c].no, client'[c].q = client[c].q,
           client'[c].at = client[c].at \/ (client[c].at = "wait" /\ client'[c].at = "show"),
           NEW s \in Seq(PosixOrder), queues' = [queues EXCEPT !.results[c] = s],
           server'.at \in {"down", "lost"} => server'.at = server.at,
           \A d \in Clients \ {c} : ~PosixAtHand(d)' \/ (PosixAtHand(d) /\ server'.job = server.job),
           PosixFlight(c)'
    PROVE  PosixInv'
<1>1. /\ queues' \in PosixQueues /\ queues'.orders = queues.orders /\ queues'.there = queues.there
      /\ queues'.name = queues.name /\ \A d \in Clients \ {c} : queues'.results[d] = queues.results[d]
  BY DEF PosixInv, PosixTyped, PosixQueues
<1>2. PosixTyped'
  BY <1>1 DEF PosixInv, PosixTyped
<1>3. PosixNames'
  <2>1. \A d \in Clients : PosixName(d)'
    BY <1>1 DEF PosixInv, PosixNames, PosixName
  <2>. QED
    BY <1>1, <2>1 DEF PosixInv, PosixNames
<1>4. ASSUME NEW d \in Clients \ {c} PROVE PosixFlight(d)'
  BY <1>1, PosixFlightStays DEF PosixInv
<1>. QED
  BY <1>2, <1>3, <1>4 DEF PosixInv

LEMMA PosixSendResult ==
    ASSUME PosixGiven, PosixInv, scene' = scene, Posix!SendResult
    PROVE  PosixInv'
<1>0. /\ server.at = "send" /\ server.job \in PosixOrder /\ server.res = server.job.client /\ client' = client
      /\ server \in PosixServer /\ server.job.client \in Clients /\ queues \in PosixQueues
      /\ queues' = [queues EXCEPT !.results[server.res] = Append(@, server.job)]
      /\ server' = [server EXCEPT !.at = "receive"]
  BY DEF Posix!SendResult, Posix!At, Posix!Serving, PosixInv, PosixTyped, PosixServerOK, PosixOrder
<1>1. PICK c \in Clients : c = server.job.client
  BY <1>0
<1>2. PICK o \in PosixOrder : o = server.job
  BY <1>0
<1>3. PosixAtHand(c) /\ PosixFlight(c)
  BY <1>0, <1>1 DEF PosixAtHand, PosixInv
<1>4. queues.results[c] = <<>> /\ ~PosixAnswered(c) /\ o = Posix!Order(c) /\ \A l \in 1..Lives : ~PosixQueued(l, c)
  BY <1>1, <1>2, <1>3 DEF PosixFlight, PosixOnce, PosixLast, PosixAnswered, Posix!Order, PosixOrder
<1>5. Append(<<>>, o) \in Seq(PosixOrder) /\ Append(<<>>, o) # <<>> /\ Len(Append(<<>>, o)) = 1
      /\ Append(<<>>, o)[1] = o
  OBVIOUS
<1>6. queues' = [queues EXCEPT !.results[c] = Append(<<>>, o)]
  BY <1>0, <1>1, <1>2, <1>4
<1>7. PosixServerOK' /\ server'.at = "receive"
  BY <1>0 DEF PosixServerOK, PosixServer, PosixInv, PosixTyped
<1>8. queues'.results[c] = Append(<<>>, o) /\ queues'.orders = queues.orders
  BY <1>0, <1>6 DEF PosixQueues
<1>9. PosixFlight(c)'
  <2>1. PosixAnswered(c)' /\ ~PosixAtHand(c)' /\ Posix!Order(c)' = Posix!Order(c)
    BY <1>0, <1>5, <1>7, <1>8 DEF PosixAnswered, PosixAtHand, Posix!Order
  <2>2. \A l \in 1..Lives : ~PosixQueued(l, c)'
    BY <1>4, <1>8 DEF PosixQueued
  <2>3. PosixOnce(c)'
    BY <1>3, <1>5, <1>8, <2>1, <2>2 DEF PosixFlight, PosixOnce
  <2>4. PosixLast(c)'
    BY <1>0, <1>3, <1>4, <1>5, <1>8, <2>1 DEF PosixFlight, PosixLast
  <2>5. PosixWaits(c)'
    BY <1>0, <1>3, <2>1 DEF PosixFlight, PosixWaits
  <2>. QED
    BY <2>3, <2>4, <2>5 DEF PosixFlight
<1>10. PosixClientOK'
  BY <1>0 DEF PosixInv, PosixTyped, PosixClientOK
<1>11. \A d \in Clients \ {c} : PosixAtHand(d)' => PosixAtHand(d) /\ server'.job = server.job
  BY <1>7 DEF PosixAtHand
<1>12. /\ \A d \in Clients \ {c} : client'[d] = client[d]
       /\ client'[c].no = client[c].no /\ client'[c].q = client[c].q /\ client'[c].at = client[c].at
       /\ server'.at \notin {"down", "lost"}
  BY <1>0, <1>7
<1>13. PICK s \in Seq(PosixOrder) : s = Append(<<>>, o)
  BY <1>5
<1>14. /\ queues' = [queues EXCEPT !.results[c] = s]
       /\ \A d \in Clients \ {c} : ~PosixAtHand(d)' \/ (PosixAtHand(d) /\ server'.job = server.job)
  BY <1>6, <1>11, <1>13
<1>15. /\ client'[c].at = client[c].at \/ (client[c].at = "wait" /\ client'[c].at = "show")
       /\ client'[c].no = client[c].no /\ client'[c].q = client[c].q
  BY <1>12
<1>16. server'.at \in {"down", "lost"} => server'.at = server.at
  BY <1>12
<1>17. \A d \in Clients \ {c} : client'[d] = client[d]
  BY <1>12
<1>. QED
  BY <1>7, <1>9, <1>10, <1>14, <1>15, <1>16, <1>17, PosixResults

LEMMA PosixWait ==
    ASSUME PosixGiven, PosixInv, scene' = scene, NEW c \in Clients, Posix!Wait(c)
    PROVE  PosixInv'
<1>0. /\ client[c].at = "wait" /\ queues.results[c] # <<>> /\ server' = server
      /\ client \in [Clients -> PosixClient] /\ client[c] \in PosixClient /\ queues \in PosixQueues
      /\ queues.results[c] \in Seq(PosixOrder) /\ PosixFlight(c)
  BY DEF Posix!Wait, Posix!Client, PosixInv, PosixTyped, PosixClientOK, PosixQueues
<1>1. /\ Head(queues.results[c]) = Posix!Order(c) /\ Tail(queues.results[c]) = <<>>
      /\ Head(queues.results[c]) \in PosixOrder /\ <<>> \in Seq(PosixOrder)
  <2>1. PosixAnswered(c) /\ Len(queues.results[c]) <= 1
    BY <1>0 DEF PosixAnswered, PosixFlight, PosixOnce
  <2>2. queues.results[c][1] = Posix!Order(c)
    BY <1>0, <2>1 DEF PosixFlight, PosixLast
  <2>. QED
    BY <1>0, <2>1, <2>2
<1>2. PICK o \in PosixOrder : o = Posix!Order(c)
  BY <1>1
<1>3. /\ client' = [client EXCEPT ![c].at = "show", ![c].got = o]
      /\ queues' = [queues EXCEPT !.results[c] = <<>>]
  BY <1>1, <1>2 DEF Posix!Wait
<1>4. /\ client'[c].at = "show" /\ client'[c].got = o /\ client'[c].no = client[c].no
      /\ client'[c].q = client[c].q /\ PosixClientOK' /\ \A d \in Clients \ {c} : client'[d] = client[d]
  <2>1. PosixClientOK
    BY DEF PosixInv, PosixTyped
  <2>. QED
    BY <1>0, <1>3, <2>1 DEF PosixClientOK, PosixClient
<1>5. queues'.results[c] = <<>> /\ queues'.orders = queues.orders
  BY <1>0, <1>3 DEF PosixQueues
<1>6. PosixFlight(c)'
  <2>1. ~PosixAnswered(c)' /\ (PosixAtHand(c)' <=> PosixAtHand(c)) /\ PosixAnswered(c) /\ Posix!Order(c)' = Posix!Order(c)
        /\ Len(<<>>) = 0
    BY <1>0, <1>4, <1>5 DEF PosixAnswered, PosixAtHand, Posix!Order
  <2>2. ~PosixAtHand(c) /\ \A l \in 1..Lives : ~PosixQueued(l, c)
    BY <1>0, <2>1 DEF PosixFlight, PosixOnce
  <2>3. \A l \in 1..Lives : ~PosixQueued(l, c)'
    BY <1>5, <2>2 DEF PosixQueued
  <2>4. PosixOnce(c)'
    BY <1>0, <1>5, <2>1, <2>2, <2>3 DEF PosixFlight, PosixOnce
  <2>5. PosixLast(c)'
    BY <1>0, <1>4, <1>5, <2>1, <2>2 DEF PosixFlight, PosixLast
  <2>6. PosixWaits(c)'
    BY <1>2, <1>4, <2>1, <2>2, <2>3 DEF PosixWaits
  <2>. QED
    BY <2>4, <2>5, <2>6 DEF PosixFlight
<1>7. PosixServerOK'
  BY <1>0 DEF PosixInv, PosixTyped, PosixServerOK
<1>. QED
  BY <1>0, <1>1, <1>3, <1>4, <1>6, <1>7, PosixResults DEF PosixAtHand

LEMMA PosixStep ==
    ASSUME PosixGiven, PosixInv, [Posix!Next]_(Posix!vars)
    PROVE  PosixInv'
<1>1. CASE Posix!Next
  <2>0. scene' = scene
    BY <1>1 DEF Posix!Next
  <2>1. CASE Posix!OpenOrders \/ Posix!Sigaction \/ Posix!OpenResult \/ Posix!Exithandler \/ Posix!ServerEnds
    BY <2>0, <2>1, PosixServerStep
  <2>2. CASE Posix!Receive \/ Posix!SendResult
    BY <2>0, <2>2, PosixReceive, PosixSendResult
  <2>3. ASSUME NEW c \in Clients,
               \/ Posix!ClientOpen(c) \/ Posix!ClientCreate(c) \/ Posix!ClientSigaction(c)
               \/ Posix!Show(c) \/ Posix!ClientExit(c) \/ Posix!ClientSigint(c)
        PROVE  PosixInv'
    BY <2>0, <2>3, PosixClientStep
  <2>4. ASSUME NEW c \in Clients, Posix!Ask(c) PROVE PosixInv'
    <3>1. CASE Posix!Go(c, "ask", "close") /\ UNCHANGED queues
      BY <2>0, <2>4, <3>1, PosixClientStep DEF Posix!Ask
    <3>2. CASE ~(Posix!Go(c, "ask", "close") /\ UNCHANGED queues)
      BY <2>0, <2>4, <3>2, PosixAsk DEF Posix!Ask
    <3>. QED
      BY <3>1, <3>2
  <2>5. ASSUME NEW c \in Clients, Posix!Wait(c) PROVE PosixInv'
    BY <2>0, <2>5, PosixWait
  <2>. QED
    BY <1>1, <2>1, <2>2, <2>3, <2>4, <2>5 DEF Posix!Next, Posix!Serve
<1>2. CASE UNCHANGED Posix!vars
  <2>1. UNCHANGED <<server, client, queues, scene>>
    BY <1>2 DEF Posix!vars, Posix!moving
  <2>2. PosixTyped' /\ PosixNames'
    BY <2>1 DEF PosixInv, PosixTyped, PosixServerOK, PosixClientOK, PosixNames, PosixName
  <2>3. \A c \in Clients : PosixFlight(c)'
    BY <2>1, PosixFlightStays DEF PosixInv, PosixAtHand
  <2>. QED
    BY <2>2, <2>3 DEF PosixInv
<1>. QED
  BY <1>1, <1>2

LEMMA PosixRight ==
    ASSUME PosixGiven, PosixInv
    PROVE  Posix!OwnAnswer /\ Posix!Released
<1>1. Posix!TypeOK
  <2>1. scene \in Posix!SceneType /\ server \in PosixServer /\ client \in [Clients -> PosixClient]
        /\ queues.name \in 0..Lives /\ queues.there \subseteq Clients
    BY DEF PosixInv, PosixTyped, PosixServerOK, PosixClientOK, PosixQueues
  <2>2. \A l \in 1..Lives : queues.orders[l] \in Seq(PosixOrder) /\ Len(queues.orders[l]) <= MaxOrders
    BY DEF PosixInv, PosixTyped, PosixQueues
  <2>3. \A c \in Clients : queues.results[c] \in Seq(PosixOrder) /\ Len(queues.results[c]) <= 1
    BY DEF PosixInv, PosixTyped, PosixQueues, PosixFlight, PosixOnce
  <2>. QED
    BY <2>1, <2>2, <2>3 DEF Posix!TypeOK, PosixOrder, PosixServer, PosixClient
<1>2. Posix!OwnAnswer
  BY DEF PosixInv, PosixFlight, PosixWaits, Posix!OwnAnswer, Posix!Client
<1>3. Posix!Released
  BY <1>1 DEF PosixInv, PosixNames, PosixName, Posix!Released, Posix!Client, Posix!At
<1>. QED
  BY <1>2, <1>3
-----------------------------------------------------------------------------
(* DatagramCalculator, for any clients, orders and limits, crashes, SIGINT *)
(* and restarts: again a client has one order under way at most, and a     *)
(* server that ends takes those in its socket with it.                     *)

DgramGiven ==
    /\ Orders \in Nat /\ Lives \in Nat /\ Room \in Nat /\ Server \notin Writers
    /\ ScenesOf("dgram") \subseteq Dgram!SceneType

DgramOrder == [client : Writers, no : 1..Orders]
DgramServer == [at : {"down", "lost", "sigaction", "receive", "send", "close", "unlink"},
                life : 0..Lives, job : DgramOrder \cup {None}]
DgramClient == [at : {"new", "sigaction", "ask", "wait", "print", "close", "unlink", "end", "lost"},
                no : 0..Orders, got : DgramOrder \cup {None}]
DgramSockets == [orders : Seq(DgramOrder), results : [Writers -> Seq(DgramOrder)],
                 names : SUBSET (Writers \cup {Server})]

DgramServerOK == server \in DgramServer /\ (server.at = "send" => server.job \in DgramOrder)
DgramTyped ==
    /\ scene \in Dgram!SceneType
    /\ DgramServerOK
    /\ client \in [Writers -> DgramClient]
    /\ queues \in DgramSockets
    /\ Len(queues.orders) <= Room

\* An order of c is in the server's socket, or at hand, or its result waits.
DgramQueued(c) == \E i \in 1..Len(queues.orders) : queues.orders[i].client = c
DgramAtHand(c) == server.at = "send" /\ server.job.client = c
DgramAnswered(c) == queues.results[c] # <<>>
DgramOnce(c) ==
    /\ \A i, j \in 1..Len(queues.orders) :
          queues.orders[i].client = c /\ queues.orders[j].client = c => i = j
    /\ DgramQueued(c) => ~DgramAtHand(c) /\ ~DgramAnswered(c)
    /\ ~(DgramAtHand(c) /\ DgramAnswered(c)) /\ Len(queues.results[c]) <= 1
DgramLast(c) ==
    /\ \A i \in 1..Len(queues.orders) :
          queues.orders[i].client = c => queues.orders[i].no = client[c].no
    /\ DgramAtHand(c) => server.job.no = client[c].no
    /\ DgramAnswered(c) => queues.results[c][1] = Dgram!Order(c)
DgramWaits(c) ==
    /\ DgramQueued(c) \/ DgramAtHand(c) \/ DgramAnswered(c) => client[c].at \in {"wait", "end"}
    /\ client[c].at = "print" => client[c].got = Dgram!Order(c)
DgramFlight(c) == DgramOnce(c) /\ DgramLast(c) /\ DgramWaits(c)

DgramName(c) ==
    /\ client[c].at \in {"new", "end"} => c \notin queues.names
    /\ client[c].at = "lost" => c \in scene.sigint
DgramNames ==
    /\ \A c \in Writers : DgramName(c)
    /\ server.at = "down" => Server \notin queues.names
    /\ server.at = "lost" => scene.crash \/ Server \in scene.sigint

DgramInv ==
    /\ DgramTyped /\ DgramNames
    /\ \A c \in Writers : DgramFlight(c)

LEMMA DgramInit ==
    ASSUME DgramGiven, Dgram!Init
    PROVE  DgramInv
<1>. USE DEF DgramGiven, Dgram!Init
<1>0. <<>> \in Seq(DgramOrder) /\ Len(<<>>) = 0
  OBVIOUS
<1>1. DgramServerOK
  BY DEF DgramServerOK, DgramServer
<1>2. client \in [Writers -> DgramClient]
  BY DEF DgramClient
<1>3. queues \in DgramSockets /\ queues.orders = <<>>
  BY <1>0 DEF DgramSockets
<1>4. DgramTyped
  BY <1>0, <1>1, <1>2, <1>3 DEF DgramTyped
<1>5. DgramNames
  BY DEF DgramNames, DgramName
<1>6. ASSUME NEW c \in Writers PROVE DgramFlight(c)
  <2>1. ~DgramAnswered(c) /\ ~DgramAtHand(c) /\ queues.results[c] = <<>> /\ client[c].at = "new"
    BY DEF DgramAnswered, DgramAtHand
  <2>2. ~DgramQueued(c) /\ Len(queues.orders) = 0
    BY <1>0, <1>3 DEF DgramQueued
  <2>. QED
    BY <1>0, <2>1, <2>2 DEF DgramFlight, DgramOnce, DgramLast, DgramWaits
<1>. QED
  BY <1>4, <1>5, <1>6 DEF DgramInv

\* Nothing happens to the orders and results of c, or the orders are lost.
LEMMA DgramFlightStays ==
    ASSUME NEW c \in Writers, DgramFlight(c),
           queues'.orders \in {queues.orders, <<>>}, queues'.results[c] = queues.results[c],
           DgramAtHand(c)' => DgramAtHand(c) /\ server'.job = server.job,
           client[c].at \in {"wait", "end"} => client'[c].at \in {"wait", "end"},
           client'[c].no = client[c].no,
           client'[c].at = "print" => client[c].at = "print" /\ client'[c].got = client[c].got
    PROVE  DgramFlight(c)'
<1>1. (DgramAnswered(c)' <=> DgramAnswered(c)) /\ Dgram!Order(c)' = Dgram!Order(c)
  BY DEF DgramAnswered, Dgram!Order
<1>2. /\ DgramQueued(c)' => DgramQueued(c)
      /\ queues'.orders = queues.orders \/ Len(queues'.orders) = 0
  <2>1. CASE queues'.orders = queues.orders
    BY <2>1 DEF DgramQueued
  <2>2. CASE queues'.orders = <<>>
    <3>1. Len(queues'.orders) = 0
      BY <2>2
    <3>. QED
      BY <3>1 DEF DgramQueued
  <2>. QED
    BY <2>1, <2>2
<1>3. DgramOnce(c)'
  <2>1. \A i, j \in 1..Len(queues'.orders) :
           queues'.orders[i].client = c /\ queues'.orders[j].client = c => i = j
    BY <1>2 DEF DgramFlight, DgramOnce
  <2>. QED
    BY <1>1, <1>2, <2>1 DEF DgramFlight, DgramOnce
<1>4. DgramLast(c)'
  <2>1. \A i \in 1..Len(queues'.orders) :
           queues'.orders[i].client = c => queues'.orders[i].no = client'[c].no
    BY <1>2 DEF DgramFlight, DgramLast
  <2>. QED
    BY <1>1, <2>1 DEF DgramFlight, DgramLast
<1>5. DgramWaits(c)'
  BY <1>1, <1>2 DEF DgramFlight, DgramWaits
<1>. QED
  BY <1>3, <1>4, <1>5 DEF DgramFlight

\* The server between its calls, and at its end.
LEMMA DgramServerMoves ==
    ASSUME DgramGiven, DgramInv, scene' = scene, client' = client, DgramServerOK',
           NEW n \in SUBSET (Writers \cup {Server}), NEW s \in Seq(DgramOrder),
           s \in {queues.orders, <<>>},
           queues' = [queues EXCEPT !.orders = s, !.names = n],
           n \ {Server} = queues.names \ {Server},
           server'.at = "send" => server.at = "send" /\ server'.job = server.job,
           server'.at = "down" => Server \notin n,
           server'.at = "lost" => scene.crash \/ Server \in scene.sigint
    PROVE  DgramInv'
<1>1. /\ queues' \in DgramSockets /\ queues'.names = n /\ queues'.orders = s
      /\ queues'.results = queues.results
  BY DEF DgramInv, DgramTyped, DgramSockets
<1>2. Len(s) <= Room
  <2>1. Len(<<>>) = 0 /\ 0 <= Room
    BY DEF DgramGiven
  <2>. QED
    BY <2>1 DEF DgramInv, DgramTyped
<1>3. DgramTyped'
  BY <1>1, <1>2 DEF DgramInv, DgramTyped
<1>4. DgramNames'
  BY <1>1 DEF DgramInv, DgramNames, DgramName, DgramGiven
<1>5. ASSUME NEW c \in Writers PROVE DgramFlight(c)'
  <2>1. DgramAtHand(c)' => DgramAtHand(c) /\ server'.job = server.job
    BY DEF DgramAtHand
  <2>2. queues'.orders \in {queues.orders, <<>>}
    BY <1>1
  <2>. QED
    BY <1>1, <2>1, <2>2, DgramFlightStays DEF DgramInv
<1>. QED
  BY <1>3, <1>4, <1>5 DEF DgramInv

LEMMA DgramServerStep ==
    ASSUME DgramGiven, DgramInv, scene' = scene,
           \/ Dgram!Bind \/ Dgram!Sigaction \/ Dgram!Exithandler \/ Dgram!ServerEnds
           \/ Dgram!At("send") /\ Dgram!Serving("close") /\ UNCHANGED <<client, queues>>
    PROVE  DgramInv'
<1>0. /\ server \in DgramServer /\ DgramServerOK
      /\ queues \in DgramSockets /\ queues.names \in SUBSET (Writers \cup {Server})
      /\ queues.orders \in Seq(DgramOrder) /\ <<>> \in Seq(DgramOrder)
  BY DEF DgramInv, DgramTyped, DgramServerOK, DgramSockets
<1>. USE DEF Dgram!At, Dgram!Serving
<1>1. ASSUME UNCHANGED <<client, queues>>,
             server.at \in {"sigaction", "send"},
             NEW a \in {"receive", "close"}, server' = [server EXCEPT !.at = a]
      PROVE  DgramInv'
  <2>1. queues' = [queues EXCEPT !.orders = queues.orders, !.names = queues.names]
    BY <1>0, <1>1 DEF DgramSockets
  <2>2. DgramServerOK' /\ server'.at = a
    BY <1>0, <1>1 DEF DgramServerOK, DgramServer
  <2>3. PICK n \in SUBSET (Writers \cup {Server}), s \in Seq(DgramOrder) : n = queues.names /\ s = queues.orders
    BY <1>0
  <2>. QED
    BY <1>1, <2>1, <2>2, <2>3, DgramServerMoves
<1>2. CASE Dgram!Bind
  <2>1. /\ client' = client /\ server.life < Lives
        /\ queues' = [queues EXCEPT !.orders = queues.orders, !.names = queues.names \cup {Server}]
        /\ server' = [at |-> "sigaction", life |-> server.life + 1, job |-> None]
    BY <1>0, <1>2 DEF Dgram!Bind, DgramSockets
  <2>2. server.life + 1 \in 0..Lives
    BY <1>0, <2>1 DEF DgramServer, DgramGiven
  <2>3. DgramServerOK' /\ server'.at = "sigaction"
    BY <2>1, <2>2 DEF DgramServerOK, DgramServer
  <2>4. PICK n \in SUBSET (Writers \cup {Server}), s \in Seq(DgramOrder) :
           n = queues.names \cup {Server} /\ s = queues.orders
    BY <1>0
  <2>. QED
    BY <2>1, <2>3, <2>4, DgramServerMoves
<1>3. CASE Dgram!Sigaction
  BY <1>1, <1>3 DEF Dgram!Sigaction
<1>4. CASE Dgram!At("send") /\ Dgram!Serving("close") /\ UNCHANGED <<client, queues>>
  BY <1>1, <1>4
<1>5. ASSUME NEW n \in SUBSET (Writers \cup {Server}), NEW a \in {"unlink", "down", "lost"},
             client' = client, Dgram!Closed(n), server' = [server EXCEPT !.at = a],
             n \ {Server} = queues.names \ {Server},
             a = "down" => Server \notin n, a = "lost" => scene.crash \/ Server \in scene.sigint
      PROVE  DgramInv'
  <2>1. DgramServerOK' /\ server'.at = a
    BY <1>0, <1>5 DEF DgramServerOK, DgramServer
  <2>2. PICK s \in Seq(DgramOrder) : s = <<>>
    BY <1>0
  <2>. QED
    BY <1>5, <2>1, <2>2, DgramServerMoves DEF Dgram!Closed
<1>6. PICK n \in SUBSET (Writers \cup {Server}) : n = queues.names \ {Server}
  BY <1>0
<1>7. n \ {Server} = queues.names \ {Server} /\ Server \notin n
  BY <1>6
<1>8. CASE Dgram!Exithandler
  <2>1. CASE Dgram!Serving("unlink") /\ Dgram!Closed(queues.names)
    BY <1>0, <1>5, <1>8, <2>1 DEF Dgram!Exithandler
  <2>2. CASE Dgram!Serving("down") /\ Dgram!Closed(queues.names \ {Server})
    BY <1>5, <1>6, <1>7, <1>8, <2>2 DEF Dgram!Exithandler
  <2>. QED
    BY <1>8, <2>1, <2>2 DEF Dgram!Exithandler
<1>9. CASE Dgram!ServerEnds
  <2>0. client' = client
    BY <1>9 DEF Dgram!ServerEnds
  <2>1. CASE /\ Dgram!Closed(queues.names) /\ (scene.crash \/ Server \in scene.sigint)
             /\ server' = [server EXCEPT !.at = "lost"]
    BY <1>0, <1>5, <2>0, <2>1
  <2>2. CASE Dgram!Closed(queues.names \ {Server}) /\ server' = [server EXCEPT !.at = "down"]
    BY <1>5, <1>6, <1>7, <2>0, <2>2
  <2>. QED
    BY <1>9, <2>1, <2>2 DEF Dgram!ServerEnds
<1>. QED
  BY <1>2, <1>3, <1>4, <1>8, <1>9

\* A client between its calls: its name may come or go.
LEMMA DgramClientMoves ==
    ASSUME DgramGiven, DgramInv, scene' = scene, server' = server, NEW c \in Writers,
           NEW a \in {"sigaction", "ask", "close", "unlink", "end", "lost"},
           client' = [client EXCEPT ![c].at = a],
           client[c].at \notin {"end", "lost"}, client[c].at = "wait" => a = "end",
           NEW n \in SUBSET (Writers \cup {Server}), queues' = [queues EXCEPT !.names = n],
           n \ {c} = queues.names \ {c}, a = "end" => c \notin n, a = "lost" => c \in scene.sigint
    PROVE  DgramInv'
<1>0. client \in [Writers -> DgramClient] /\ queues \in DgramSockets /\ c # Server
  BY DEF DgramInv, DgramTyped, DgramGiven
<1>1. /\ queues' \in DgramSockets /\ queues'.names = n /\ queues'.orders = queues.orders
      /\ queues'.results = queues.results
  BY <1>0 DEF DgramSockets
<1>2. /\ client' \in [Writers -> DgramClient] /\ client'[c].at = a /\ client'[c].no = client[c].no
      /\ \A d \in Writers \ {c} : client'[d] = client[d]
  BY <1>0 DEF DgramClient
<1>3. DgramTyped'
  BY <1>1, <1>2 DEF DgramInv, DgramTyped, DgramServerOK
<1>4. DgramNames'
  <2>1. a # "new"
    OBVIOUS
  <2>2. DgramName(c)'
    BY <1>1, <1>2, <2>1 DEF DgramName
  <2>3. \A d \in Writers \ {c} : DgramName(d)'
    BY <1>1, <1>2 DEF DgramInv, DgramNames, DgramName
  <2>. QED
    BY <1>0, <1>1, <2>2, <2>3 DEF DgramInv, DgramNames
<1>5. ASSUME NEW d \in Writers PROVE DgramFlight(d)'
  <2>1. DgramAtHand(d)' => DgramAtHand(d) /\ server'.job = server.job
    BY DEF DgramAtHand
  <2>2. /\ client[d].at \in {"wait", "end"} => client'[d].at \in {"wait", "end"}
        /\ client'[d].no = client[d].no
        /\ client'[d].at = "print" => client[d].at = "print" /\ client'[d].got = client[d].got
    BY <1>2
  <2>. QED
    BY <1>1, <2>1, <2>2, DgramFlightStays DEF DgramInv
<1>. QED
  BY <1>3, <1>4, <1>5 DEF DgramInv

LEMMA DgramClientStep ==
    ASSUME DgramGiven, DgramInv, scene' = scene, NEW c \in Writers,
           \/ Dgram!ClientBind(c) \/ Dgram!ClientSigaction(c) \/ Dgram!Show(c)
           \/ Dgram!ClientExit(c) \/ Dgram!ClientSigint(c)
           \/ Dgram!Go(c, "ask", "close") /\ UNCHANGED <<server, queues>>
    PROVE  DgramInv'
<1>0. /\ queues \in DgramSockets /\ queues.names \in SUBSET (Writers \cup {Server})
      /\ queues = [queues EXCEPT !.names = queues.names]
  BY DEF DgramInv, DgramTyped, DgramSockets
<1>. USE DEF Dgram!Go, Dgram!Client
<1>1. ASSUME NEW a \in {"sigaction", "ask", "close", "unlink", "lost"}, UNCHANGED <<server, queues>>,
             client' = [client EXCEPT ![c].at = a], client[c].at \notin {"end", "lost", "wait"},
             a = "lost" => c \in scene.sigint
      PROVE  DgramInv'
  BY <1>0, <1>1, DgramClientMoves
<1>2. PICK n \in SUBSET (Writers \cup {Server}) : n = queues.names \ {c}
  BY <1>0
<1>3. n \ {c} = queues.names \ {c} /\ c \notin n
  BY <1>2
<1>4. ASSUME server' = server, Dgram!NameGone(c), client' = [client EXCEPT ![c].at = "end"],
             client[c].at \notin {"end", "lost"}
      PROVE  DgramInv'
  BY <1>2, <1>3, <1>4, DgramClientMoves DEF Dgram!NameGone
<1>5. CASE Dgram!ClientBind(c)
  <2>1. PICK m \in SUBSET (Writers \cup {Server}) : m = queues.names \cup {c}
    BY <1>0
  <2>2. queues' = [queues EXCEPT !.names = m] /\ m \ {c} = queues.names \ {c}
    BY <1>5, <2>1 DEF Dgram!ClientBind
  <2>. QED
    BY <1>5, <2>2, DgramClientMoves DEF Dgram!ClientBind
<1>6. CASE Dgram!ClientSigaction(c)
  BY <1>1, <1>6 DEF Dgram!ClientSigaction
<1>7. CASE Dgram!Show(c)
  BY <1>1, <1>7 DEF Dgram!Show
<1>8. CASE Dgram!ClientExit(c)
  <2>1. CASE Dgram!Go(c, "close", "unlink") /\ UNCHANGED queues
    BY <1>1, <1>8, <2>1 DEF Dgram!ClientExit
  <2>2. CASE Dgram!Go(c, "unlink", "end") /\ Dgram!NameGone(c)
    BY <1>4, <1>8, <2>2 DEF Dgram!ClientExit
  <2>. QED
    BY <1>8, <2>1, <2>2 DEF Dgram!ClientExit
<1>9. CASE Dgram!ClientSigint(c)
  <2>0. c \in scene.sigint /\ server' = server
    BY <1>9 DEF Dgram!ClientSigint
  <2>1. CASE \E step \in {"sigaction", "unlink"} : Dgram!Go(c, step, "lost") /\ UNCHANGED queues
    BY <1>1, <2>0, <2>1
  <2>2. CASE \E step \in {"ask", "wait", "print", "close"} : Dgram!Go(c, step, "end") /\ Dgram!NameGone(c)
    BY <1>4, <2>0, <2>2
  <2>. QED
    BY <1>9, <2>1, <2>2 DEF Dgram!ClientSigint
<1>10. CASE Dgram!Go(c, "ask", "close") /\ UNCHANGED <<server, queues>>
  BY <1>1, <1>10
<1>. QED
  BY <1>5, <1>6, <1>7, <1>8, <1>9, <1>10

\* A client sends an order: until then none of its own was under way.
LEMMA DgramAsk ==
    ASSUME DgramGiven, DgramInv, scene' = scene, server' = server, NEW c \in Writers,
           Dgram!Client(c, "ask"), client[c].no < Orders, Len(queues.orders) < Room,
           client' = [client EXCEPT ![c].at = "wait", ![c].no = @ + 1],
           queues' = [queues EXCEPT !.orders = Append(@, Dgram!Order(c)')]
    PROVE  DgramInv'
<1>0. /\ client \in [Writers -> DgramClient] /\ client[c] \in DgramClient /\ client[c].at = "ask"
      /\ queues \in DgramSockets /\ queues.orders \in Seq(DgramOrder)
  BY DEF DgramInv, DgramTyped, DgramSockets, Dgram!Client
<1>1. client[c].no + 1 \in 1..Orders
  BY <1>0 DEF DgramClient, DgramGiven
<1>2. /\ client'[c].at = "wait" /\ client'[c].no = client[c].no + 1
      /\ client' \in [Writers -> DgramClient] /\ \A d \in Writers \ {c} : client'[d] = client[d]
  <2>1. client'[c] = [client[c] EXCEPT !.at = "wait", !.no = client[c].no + 1]
        /\ \A d \in Writers \ {c} : client'[d] = client[d]
    BY <1>0
  <2>2. client'[c] \in DgramClient /\ client'[c].at = "wait" /\ client'[c].no = client[c].no + 1
    BY <1>0, <1>1, <2>1 DEF DgramClient
  <2>. QED
    BY <1>0, <2>1, <2>2
<1>3. PICK o \in DgramOrder : o = Dgram!Order(c)' /\ o.client = c /\ o.no = client'[c].no
  BY <1>1, <1>2 DEF Dgram!Order, DgramOrder
<1>4. PICK s \in Seq(DgramOrder) : s = queues.orders /\ Len(s) < Room
  BY <1>0
<1>5. PICK t \in Seq(DgramOrder) : t = Append(s, o)
  BY <1>4, AppendFacts
<1>6. /\ Len(t) = Len(s) + 1 /\ Len(s) \in Nat
      /\ \A i \in 1..Len(s) : t[i] = s[i]
      /\ t[Len(s) + 1] = o
      /\ \A i \in 1..Len(t) : i \in 1..Len(s) \/ i = Len(s) + 1
  BY <1>5, AppendFacts
<1>7. Len(t) <= Room
  BY <1>4, <1>6 DEF DgramGiven
<1>8. queues' = [queues EXCEPT !.orders = t]
  BY <1>3, <1>4, <1>5
<1>9. /\ queues' \in DgramSockets /\ queues'.orders = t
      /\ queues'.results = queues.results /\ queues'.names = queues.names
  BY <1>0, <1>8 DEF DgramSockets
<1>10. DgramTyped'
  BY <1>2, <1>7, <1>9 DEF DgramInv, DgramTyped, DgramServerOK
<1>11. DgramNames'
  BY <1>2, <1>9 DEF DgramInv, DgramNames, DgramName
<1>12. ~DgramAtHand(c) /\ ~DgramAnswered(c) /\ queues.results[c] = <<>> /\ ~DgramQueued(c)
  BY <1>0 DEF DgramInv, DgramFlight, DgramWaits, DgramAnswered
<1>13. ~DgramAtHand(c)' /\ ~DgramAnswered(c)' /\ Len(queues'.results[c]) = 0
  BY <1>9, <1>12 DEF DgramAtHand, DgramAnswered
<1>14. \A i \in 1..Len(t) : i = Len(s) + 1 \/ t[i].client # c
  BY <1>4, <1>6, <1>12 DEF DgramQueued
<1>15. DgramFlight(c)'
  <2>1. DgramOnce(c)'
    <3>1. \A i, j \in 1..Len(queues'.orders) :
             queues'.orders[i].client = c /\ queues'.orders[j].client = c => i = j
      BY <1>9, <1>14
    <3>2. ~(DgramAtHand(c)' /\ DgramAnswered(c)') /\ Len(queues'.results[c]) <= 1
      BY <1>13
    <3>. QED
      BY <1>13, <3>1, <3>2 DEF DgramOnce
  <2>2. DgramLast(c)'
    <3>1. \A i \in 1..Len(queues'.orders) :
             queues'.orders[i].client = c => queues'.orders[i].no = client'[c].no
      BY <1>3, <1>6, <1>9, <1>14
    <3>. QED
      BY <1>13, <3>1 DEF DgramLast
  <2>3. DgramWaits(c)'
    BY <1>2 DEF DgramWaits
  <2>. QED
    BY <2>1, <2>2, <2>3 DEF DgramFlight
<1>16. ASSUME NEW d \in Writers \ {c} PROVE DgramFlight(d)'
  <2>1. DgramFlight(d) /\ client'[d] = client[d] /\ o.client # d
    BY <1>2, <1>3 DEF DgramInv
  <2>2. \A i \in 1..Len(queues'.orders) :
           queues'.orders[i].client = d =>
              i \in 1..Len(queues.orders) /\ queues.orders[i] = queues'.orders[i]
    BY <1>4, <1>6, <1>9, <2>1
  <2>3. DgramQueued(d)' => DgramQueued(d)
    BY <2>2 DEF DgramQueued
  <2>4. /\ DgramAtHand(d)' <=> DgramAtHand(d)
        /\ DgramAnswered(d)' <=> DgramAnswered(d)
        /\ Dgram!Order(d)' = Dgram!Order(d) /\ queues'.results[d] = queues.results[d]
    BY <1>9, <2>1 DEF DgramAtHand, DgramAnswered, Dgram!Order
  <2>5. DgramOnce(d)'
    <3>1. ASSUME NEW i \in 1..Len(queues'.orders), NEW j \in 1..Len(queues'.orders),
                 queues'.orders[i].client = d, queues'.orders[j].client = d
          PROVE  i = j
      <4>1. /\ i \in 1..Len(queues.orders) /\ queues.orders[i].client = d
            /\ j \in 1..Len(queues.orders) /\ queues.orders[j].client = d
        BY <2>2, <3>1
      <4>. QED
        BY <2>1, <4>1 DEF DgramFlight, DgramOnce
    <3>2. /\ DgramQueued(d)' => ~DgramAtHand(d)' /\ ~DgramAnswered(d)'
          /\ ~(DgramAtHand(d)' /\ DgramAnswered(d)') /\ Len(queues'.results[d]) <= 1
      BY <2>1, <2>3, <2>4 DEF DgramFlight, DgramOnce
    <3>. QED
      BY <3>1, <3>2 DEF DgramOnce
  <2>6. DgramLast(d)'
    <3>1. ASSUME NEW i \in 1..Len(queues'.orders), queues'.orders[i].client = d
          PROVE  queues'.orders[i].no = client'[d].no
      <4>1. i \in 1..Len(queues.orders) /\ queues.orders[i].client = d
            /\ queues'.orders[i].no = queues.orders[i].no
        BY <2>2, <3>1
      <4>. QED
        BY <2>1, <4>1 DEF DgramFlight, DgramLast
    <3>2. (DgramAtHand(d)' => server'.job.no = client'[d].no)
          /\ (DgramAnswered(d)' => queues'.results[d][1] = Dgram!Order(d)')
      BY <2>1, <2>4 DEF DgramFlight, DgramLast
    <3>. QED
      BY <3>1, <3>2 DEF DgramLast
  <2>7. DgramWaits(d)'
    BY <2>1, <2>3, <2>4 DEF DgramFlight, DgramWaits
  <2>. QED
    BY <2>5, <2>6, <2>7 DEF DgramFlight
<1>. QED
  BY <1>10, <1>11, <1>15, <1>16 DEF DgramInv

LEMMA DgramReceive ==
    ASSUME DgramGiven, DgramInv, scene' = scene, Dgram!Receive
    PROVE  DgramInv'
<1>0. /\ server.at = "receive" /\ server \in DgramServer /\ client' = client
      /\ queues \in DgramSockets /\ queues.orders # <<>> /\ queues.orders \in Seq(DgramOrder)
  BY DEF Dgram!Receive, Dgram!At, DgramInv, DgramTyped, DgramServerOK, DgramSockets
<1>2. PICK s \in Seq(DgramOrder) : s = queues.orders /\ s # <<>> /\ Len(s) <= Room
  BY <1>0 DEF DgramInv, DgramTyped
<1>3. PICK o \in DgramOrder : o = s[1] /\ Head(s) = o
  BY <1>2, TailFacts
<1>4. /\ Tail(s) \in Seq(DgramOrder) /\ Len(s) \in Nat /\ Len(s) >= 1 /\ Len(Tail(s)) = Len(s) - 1
      /\ \A i \in 1..Len(Tail(s)) : Tail(s)[i] = s[i + 1] /\ i + 1 \in 1..Len(s) /\ i + 1 # 1
  BY <1>2, TailFacts
<1>5. server' = [server EXCEPT !.at = "send", !.job = o]
      /\ queues' = [queues EXCEPT !.orders = Tail(s)]
  BY <1>2, <1>3 DEF Dgram!Receive
<1>7. /\ queues' \in DgramSockets /\ queues'.names = queues.names
      /\ queues'.results = queues.results /\ queues'.orders = Tail(s)
  BY <1>0, <1>4, <1>5 DEF DgramSockets
<1>8. DgramServerOK' /\ server'.at = "send" /\ server'.job = o
  BY <1>0, <1>5 DEF DgramServerOK, DgramServer
<1>9. DgramTyped'
  <2>1. Len(Tail(s)) <= Room
    BY <1>2, <1>4 DEF DgramGiven
  <2>. QED
    BY <1>0, <1>7, <1>8, <2>1 DEF DgramInv, DgramTyped
<1>10. DgramNames'
  BY <1>0, <1>7, <1>8 DEF DgramInv, DgramNames, DgramName
<1>11. ASSUME NEW d \in Writers PROVE DgramFlight(d)'
  <2>0. DgramFlight(d) /\ ~DgramAtHand(d) /\ client'[d] = client[d]
    BY <1>0 DEF DgramInv, DgramAtHand
  <2>1. /\ DgramAnswered(d)' <=> DgramAnswered(d)
        /\ DgramAtHand(d)' <=> o.client = d
        /\ Dgram!Order(d)' = Dgram!Order(d) /\ queues'.results[d] = queues.results[d]
    BY <1>7, <1>8, <2>0 DEF DgramAtHand, DgramAnswered, Dgram!Order
  <2>2. \A i \in 1..Len(queues'.orders) :
           queues'.orders[i] = s[i + 1] /\ i + 1 \in 1..Len(s) /\ i + 1 # 1
    BY <1>4, <1>7
  <2>3. DgramQueued(d)' => DgramQueued(d)
    BY <1>2, <2>2 DEF DgramQueued
  <2>4. o.client = d => DgramQueued(d) /\ o.no = client[d].no /\ ~DgramAnswered(d) /\ ~DgramQueued(d)'
    <3>. SUFFICES ASSUME o.client = d
                  PROVE  DgramQueued(d) /\ o.no = client[d].no /\ ~DgramAnswered(d) /\ ~DgramQueued(d)'
      OBVIOUS
    <3>1. 1 \in 1..Len(s) /\ queues.orders[1] = o
      BY <1>2, <1>3, <1>4
    <3>2. DgramQueued(d)
      BY <1>2, <3>1 DEF DgramQueued
    <3>3. ~DgramAnswered(d) /\ o.no = client[d].no
      BY <1>2, <2>0, <3>1, <3>2 DEF DgramFlight, DgramOnce, DgramLast
    <3>4. \A i \in 1..Len(s) : s[i].client = d => i = 1
      BY <1>2, <2>0, <3>1 DEF DgramFlight, DgramOnce
    <3>5. ~DgramQueued(d)'
      BY <2>2, <3>4 DEF DgramQueued
    <3>. QED
      BY <3>2, <3>3, <3>5
  <2>5. DgramOnce(d)'
    <3>1. ASSUME NEW i \in 1..Len(queues'.orders), NEW j \in 1..Len(queues'.orders),
                 queues'.orders[i].client = d, queues'.orders[j].client = d
          PROVE  i = j
      <4>1. s[i + 1].client = d /\ s[j + 1].client = d /\ i + 1 \in 1..Len(s) /\ j + 1 \in 1..Len(s)
        BY <2>2, <3>1
      <4>2. i + 1 = j + 1
        BY <1>2, <2>0, <4>1 DEF DgramFlight, DgramOnce
      <4>3. i \in Int /\ j \in Int
        OBVIOUS
      <4>. QED
        BY <4>2, <4>3
    <3>2. /\ DgramQueued(d)' => ~DgramAtHand(d)' /\ ~DgramAnswered(d)'
          /\ ~(DgramAtHand(d)' /\ DgramAnswered(d)') /\ Len(queues'.results[d]) <= 1
      BY <2>0, <2>1, <2>3, <2>4 DEF DgramFlight, DgramOnce
    <3>. QED
      BY <3>1, <3>2 DEF DgramOnce
  <2>6. DgramLast(d)'
    <3>1. ASSUME NEW i \in 1..Len(queues'.orders), queues'.orders[i].client = d
          PROVE  queues'.orders[i].no = client'[d].no
      BY <1>2, <2>0, <2>2, <3>1 DEF DgramFlight, DgramLast
    <3>2. (DgramAtHand(d)' => server'.job.no = client'[d].no)
          /\ (DgramAnswered(d)' => queues'.results[d][1] = Dgram!Order(d)')
      BY <1>8, <2>0, <2>1, <2>4 DEF DgramFlight, DgramLast
    <3>. QED
      BY <3>1, <3>2 DEF DgramLast
  <2>7. DgramWaits(d)'
    BY <2>0, <2>1, <2>3, <2>4 DEF DgramFlight, DgramWaits
  <2>. QED
    BY <2>5, <2>6, <2>7 DEF DgramFlight
<1>. QED
  BY <1>9, <1>10, <1>11 DEF DgramInv

\* A result comes or goes, of c alone.
LEMMA DgramResults ==
    ASSUME DgramGiven, DgramInv, scene' = scene, DgramServerOK', client' \in [Writers -> DgramClient],
           NEW c \in Writers, \A d \in Writers \ {c} : client'[d] = client[d],
           client'[c].at = client[c].at \/ (client[c].at = "wait" /\ client'[c].at = "print"),
           NEW s \in Seq(DgramOrder), queues' = [queues EXCEPT !.results[c] = s],
           server'.at \in {"down", "lost"} => server'.at = server.at,
           \A d \in Writers \ {c} : ~DgramAtHand(d)' \/ (DgramAtHand(d) /\ server'.job = server.job),
           DgramFlight(c)'
    PROVE  DgramInv'
<1>1. /\ queues' \in DgramSockets /\ queues'.orders = queues.orders /\ queues'.names = queues.names
      /\ \A d \in Writers \ {c} : queues'.results[d] = queues.results[d]
  BY DEF DgramInv, DgramTyped, DgramSockets
<1>2. DgramTyped'
  BY <1>1 DEF DgramInv, DgramTyped
<1>3. DgramNames'
  <2>1. \A d \in Writers : DgramName(d)'
    BY <1>1 DEF DgramInv, DgramNames, DgramName
  <2>. QED
    BY <1>1, <2>1 DEF DgramInv, DgramNames
<1>4. ASSUME NEW d \in Writers \ {c} PROVE DgramFlight(d)'
  BY <1>1, DgramFlightStays DEF DgramInv
<1>. QED
  BY <1>2, <1>3, <1>4 DEF DgramInv

LEMMA DgramSend ==
    ASSUME DgramGiven, DgramInv, scene' = scene, client' = client, Dgram!At("send"), Dgram!Serving("receive"),
           queues' = [queues EXCEPT !.results[server.job.client] = Append(@, server.job)]
    PROVE  DgramInv'
<1>0. /\ server.at = "send" /\ server.job \in DgramOrder /\ server \in DgramServer
      /\ server.job.client \in Writers /\ queues \in DgramSockets
      /\ server' = [server EXCEPT !.at = "receive"]
  BY DEF Dgram!At, Dgram!Serving, DgramInv, DgramTyped, DgramServerOK, DgramOrder
<1>1. PICK c \in Writers : c = server.job.client
  BY <1>0
<1>2. PICK o \in DgramOrder : o = server.job
  BY <1>0
<1>3. DgramAtHand(c) /\ DgramFlight(c)
  BY <1>0, <1>1 DEF DgramAtHand, DgramInv
<1>4. queues.results[c] = <<>> /\ ~DgramAnswered(c) /\ o = Dgram!Order(c) /\ ~DgramQueued(c)
  BY <1>1, <1>2, <1>3 DEF DgramFlight, DgramOnce, DgramLast, DgramAnswered, Dgram!Order, DgramOrder
<1>5. Append(<<>>, o) \in Seq(DgramOrder) /\ Append(<<>>, o) # <<>> /\ Len(Append(<<>>, o)) = 1
      /\ Append(<<>>, o)[1] = o
  OBVIOUS
<1>6. PICK s \in Seq(DgramOrder) : s = Append(<<>>, o)
  BY <1>5
<1>7. queues' = [queues EXCEPT !.results[c] = s]
  BY <1>1, <1>2, <1>4, <1>6
<1>8. DgramServerOK' /\ server'.at = "receive"
  BY <1>0 DEF DgramServerOK, DgramServer
<1>9. queues'.results[c] = s /\ queues'.orders = queues.orders
  BY <1>0, <1>7 DEF DgramSockets
<1>10. DgramFlight(c)'
  <2>1. DgramAnswered(c)' /\ ~DgramAtHand(c)' /\ Dgram!Order(c)' = Dgram!Order(c)
    BY <1>5, <1>6, <1>8, <1>9 DEF DgramAnswered, DgramAtHand, Dgram!Order
  <2>2. ~DgramQueued(c)'
    BY <1>4, <1>9 DEF DgramQueued
  <2>3. DgramOnce(c)'
    BY <1>3, <1>5, <1>6, <1>9, <2>1, <2>2 DEF DgramFlight, DgramOnce
  <2>4. DgramLast(c)'
    BY <1>3, <1>4, <1>5, <1>6, <1>9, <2>1 DEF DgramFlight, DgramLast
  <2>5. DgramWaits(c)'
    BY <1>3, <2>1 DEF DgramFlight, DgramWaits
  <2>. QED
    BY <2>3, <2>4, <2>5 DEF DgramFlight
<1>11. client' \in [Writers -> DgramClient]
  BY DEF DgramInv, DgramTyped
<1>12. /\ \A d \in Writers \ {c} : ~DgramAtHand(d)' \/ (DgramAtHand(d) /\ server'.job = server.job)
       /\ server'.at \in {"down", "lost"} => server'.at = server.at
  BY <1>8 DEF DgramAtHand
<1>. QED
  BY <1>7, <1>8, <1>10, <1>11, <1>12, DgramResults

LEMMA DgramWait ==
    ASSUME DgramGiven, DgramInv, scene' = scene, NEW c \in Writers, Dgram!Wait(c)
    PROVE  DgramInv'
<1>0. /\ client[c].at = "wait" /\ queues.results[c] # <<>> /\ server' = server
      /\ client \in [Writers -> DgramClient] /\ client[c] \in DgramClient /\ queues \in DgramSockets
      /\ queues.results[c] \in Seq(DgramOrder) /\ DgramFlight(c)
  BY DEF Dgram!Wait, Dgram!Client, DgramInv, DgramTyped, DgramSockets
<1>1. /\ Head(queues.results[c]) = Dgram!Order(c) /\ Tail(queues.results[c]) = <<>>
      /\ Head(queues.results[c]) \in DgramOrder /\ <<>> \in Seq(DgramOrder)
  <2>1. DgramAnswered(c) /\ Len(queues.results[c]) <= 1
    BY <1>0 DEF DgramAnswered, DgramFlight, DgramOnce
  <2>2. queues.results[c][1] = Dgram!Order(c)
    BY <1>0, <2>1 DEF DgramFlight, DgramLast
  <2>. QED
    BY <1>0, <2>1, <2>2
<1>2. PICK o \in DgramOrder : o = Dgram!Order(c)
  BY <1>1
<1>3. /\ client' = [client EXCEPT ![c].at = "print", ![c].got = o]
      /\ queues' = [queues EXCEPT !.results[c] = <<>>]
  BY <1>1, <1>2 DEF Dgram!Wait
<1>4. /\ client'[c].at = "print" /\ client'[c].got = o /\ client'[c].no = client[c].no
      /\ client' \in [Writers -> DgramClient] /\ \A d \in Writers \ {c} : client'[d] = client[d]
  BY <1>0, <1>3 DEF DgramClient
<1>5. queues'.results[c] = <<>> /\ queues'.orders = queues.orders
  BY <1>0, <1>3 DEF DgramSockets
<1>6. DgramFlight(c)'
  <2>1. ~DgramAnswered(c)' /\ (DgramAtHand(c)' <=> DgramAtHand(c)) /\ DgramAnswered(c)
        /\ Dgram!Order(c)' = Dgram!Order(c) /\ Len(<<>>) = 0
    BY <1>0, <1>4, <1>5 DEF DgramAnswered, DgramAtHand, Dgram!Order
  <2>2. ~DgramAtHand(c) /\ ~DgramQueued(c)
    BY <1>0, <2>1 DEF DgramFlight, DgramOnce
  <2>3. ~DgramQueued(c)'
    BY <1>5, <2>2 DEF DgramQueued
  <2>4. DgramOnce(c)'
    BY <1>0, <1>5, <2>1, <2>2, <2>3 DEF DgramFlight, DgramOnce
  <2>5. DgramLast(c)'
    BY <1>0, <1>4, <1>5, <2>1, <2>2 DEF DgramFlight, DgramLast
  <2>6. DgramWaits(c)'
    BY <1>2, <1>4, <2>1, <2>2, <2>3 DEF DgramWaits
  <2>. QED
    BY <2>4, <2>5, <2>6 DEF DgramFlight
<1>7. DgramServerOK'
  BY <1>0 DEF DgramInv, DgramTyped, DgramServerOK
<1>8. \A d \in Writers \ {c} : ~DgramAtHand(d)' \/ (DgramAtHand(d) /\ server'.job = server.job)
  BY <1>0 DEF DgramAtHand
<1>. QED
  BY <1>0, <1>1, <1>3, <1>4, <1>6, <1>7, <1>8, DgramResults

LEMMA DgramStep ==
    ASSUME DgramGiven, DgramInv, [Dgram!Next]_(Dgram!vars)
    PROVE  DgramInv'
<1>1. CASE Dgram!Next
  <2>0. scene' = scene
    BY <1>1 DEF Dgram!Next
  <2>1. CASE Dgram!Bind \/ Dgram!Sigaction \/ Dgram!Exithandler \/ Dgram!ServerEnds
    BY <2>0, <2>1, DgramServerStep
  <2>2. CASE Dgram!Receive
    BY <2>0, <2>2, DgramReceive
  <2>3. CASE Dgram!Send
    <3>1. CASE Dgram!Open(server.job.client)
      BY <2>0, <2>3, <3>1, DgramSend DEF Dgram!Send
    <3>2. CASE ~Dgram!Open(server.job.client)
      BY <2>0, <2>3, <3>2, DgramServerStep DEF Dgram!Send
    <3>. QED
      BY <3>1, <3>2
  <2>4. ASSUME NEW c \in Writers,
               \/ Dgram!ClientBind(c) \/ Dgram!ClientSigaction(c) \/ Dgram!Show(c)
               \/ Dgram!ClientExit(c) \/ Dgram!ClientSigint(c)
        PROVE  DgramInv'
    BY <2>0, <2>4, DgramClientStep
  <2>5. ASSUME NEW c \in Writers, Dgram!Ask(c) PROVE DgramInv'
    <3>1. CASE Dgram!Go(c, "ask", "close") /\ UNCHANGED queues
      BY <2>0, <2>5, <3>1, DgramClientStep DEF Dgram!Ask
    <3>2. CASE ~(Dgram!Go(c, "ask", "close") /\ UNCHANGED queues)
      BY <2>0, <2>5, <3>2, DgramAsk DEF Dgram!Ask
    <3>. QED
      BY <3>1, <3>2
  <2>6. ASSUME NEW c \in Writers, Dgram!Wait(c) PROVE DgramInv'
    BY <2>0, <2>6, DgramWait
  <2>. QED
    BY <1>1, <2>1, <2>2, <2>3, <2>4, <2>5, <2>6 DEF Dgram!Next, Dgram!Serve
<1>2. CASE UNCHANGED Dgram!vars
  <2>1. UNCHANGED <<server, client, queues, scene>>
    BY <1>2 DEF Dgram!vars, Dgram!moving
  <2>2. DgramTyped' /\ DgramNames'
    BY <2>1 DEF DgramInv, DgramTyped, DgramServerOK, DgramNames, DgramName
  <2>3. \A c \in Writers : DgramFlight(c)'
    BY <2>1, DgramFlightStays DEF DgramInv, DgramAtHand
  <2>. QED
    BY <2>2, <2>3 DEF DgramInv
<1>. QED
  BY <1>1, <1>2

LEMMA DgramRight ==
    ASSUME DgramGiven, DgramInv
    PROVE  Dgram!OwnAnswer /\ Dgram!Released
<1>1. Dgram!TypeOK
  <2>1. scene \in Dgram!SceneType /\ server \in DgramServer /\ client \in [Writers -> DgramClient]
        /\ queues.names \subseteq Writers \cup {Server}
        /\ queues.orders \in Seq(DgramOrder) /\ Len(queues.orders) <= Room
    BY DEF DgramInv, DgramTyped, DgramServerOK, DgramSockets
  <2>2. \A c \in Writers : queues.results[c] \in Seq(DgramOrder)
    BY DEF DgramInv, DgramTyped, DgramSockets
  <2>. QED
    BY <2>1, <2>2 DEF Dgram!TypeOK, DgramOrder, DgramServer, DgramClient
<1>2. Dgram!OwnAnswer
  BY <1>1 DEF DgramInv, DgramFlight, DgramOnce, DgramWaits, Dgram!OwnAnswer, Dgram!Client
<1>3. Dgram!Released
  BY DEF DgramInv, DgramNames, DgramName, Dgram!Released, Dgram!Client, Dgram!At
<1>. QED
  BY <1>2, <1>3
-----------------------------------------------------------------------------
(* SysVCalculator, for any clients, process ids, orders and capacity, with *)
(* kills, crashes, SIGINT and restarts. The clients of one process id run  *)
(* one after the other. As long as none of them was killed, each has one   *)
(* order under way at most, and only while it waits: what the next one     *)
(* finds under the id is its own.                                          *)

SysVGiven ==
    /\ Orders \in Nat /\ Lives \in Nat
    /\ ScenesOf("sysv") \subseteq SysV!SceneType

Callers == DOMAIN Pid
SysVOrder == [client : Callers, no : 1..Orders]
SysVServer == [at : {"down", "msgget", "receive", "send"}, life : 0..Lives, job : SysVOrder \cup {None}]
SysVClient == [at : {"new", "ask", "wait", "show", "end"}, q : 0..Lives, no : 0..Orders,
               got : SysVOrder \cup {None}]
SysVQueue == [key : 0..Lives, orders : Seq(SysVOrder), results : [SysV!Pids -> Seq(SysVOrder)]]

SysVServerOK == server \in SysVServer /\ (server.at = "send" => server.job \in SysVOrder)
SysVClientOK ==
    /\ client \in [Callers -> SysVClient]
    /\ \A c \in Callers : client[c].at \notin {"new", "end"} => client[c].q \in 1..Lives
SysVTyped ==
    /\ scene \in SysV!SceneType
    /\ SysVServerOK /\ SysVClientOK
    /\ queues \in SysVQueue
    /\ \A i \in SysV!Pids : \A j \in 1..Len(queues.results[i]) : Pid[queues.results[i][j].client] = i

SysVApart ==
    \A c, d \in Callers : c # d /\ Pid[c] = Pid[d] =>
        client[c].at \in {"new", "end"} \/ client[d].at \in {"new", "end"}

\* A client with this process id may have been killed.
Stained(i) == \E k \in scene.mortal : Pid[k] = i /\ client[k].at = "end"

SysVQueued(c) == \E i \in 1..Len(queues.orders) : queues.orders[i].client = c
SysVAtHand(c) == server.at = "send" /\ server.job.client = c
SysVAnswered(c) == queues.results[Pid[c]] # <<>> /\ queues.results[Pid[c]][1].client = c
SysVPending(c) == SysVQueued(c) \/ SysVAtHand(c) \/ SysVAnswered(c)
SysVOnce(c) ==
    /\ \A i, j \in 1..Len(queues.orders) :
          queues.orders[i].client = c /\ queues.orders[j].client = c => i = j
    /\ SysVQueued(c) => ~SysVAtHand(c) /\ ~SysVAnswered(c)
    /\ ~(SysVAtHand(c) /\ SysVAnswered(c)) /\ Len(queues.results[Pid[c]]) <= 1
SysVLast(c) ==
    /\ \A i \in 1..Len(queues.orders) :
          queues.orders[i].client = c => queues.orders[i].no = client[c].no
    /\ SysVAtHand(c) => server.job.no = client[c].no
    /\ SysVAnswered(c) => queues.results[Pid[c]][1] = SysV!Order(c)
SysVWaits(c) ==
    /\ SysVPending(c) => client[c].at = "wait" /\ SysV!There(c)
    /\ client[c].at = "show" => client[c].got = SysV!Order(c)
SysVFlight(c) == Stained(Pid[c]) \/ (SysVOnce(c) /\ SysVLast(c) /\ SysVWaits(c))

SysVInv ==
    /\ SysVTyped /\ SysVApart
    /\ \A c \in Callers : SysVFlight(c)

LEMMA SysVInit ==
    ASSUME SysVGiven, SysV!Init
    PROVE  SysVInv
<1>. USE DEF SysVGiven, SysV!Init, SysV!NoQueue
<1>0. <<>> \in Seq(SysVOrder) /\ Len(<<>>) = 0
  OBVIOUS
<1>1. SysVServerOK
  BY DEF SysVServerOK, SysVServer
<1>2. SysVClientOK
  <2>1. client = [c \in Callers |-> [at |-> "new", q |-> 0, no |-> 0, got |-> None]]
    BY DEF Callers
  <2>. QED
    BY <2>1 DEF SysVClientOK, SysVClient
<1>3. queues \in SysVQueue /\ queues.orders = <<>> /\ \A i \in SysV!Pids : queues.results[i] = <<>>
  BY <1>0 DEF SysVQueue
<1>4. SysVTyped
  BY <1>0, <1>1, <1>2, <1>3 DEF SysVTyped
<1>5. SysVApart
  BY DEF SysVApart, Callers
<1>6. ASSUME NEW c \in Callers PROVE SysVFlight(c)
  <2>1. Pid[c] \in SysV!Pids
    BY DEF SysV!Pids, Callers
  <2>2. ~SysVAnswered(c) /\ ~SysVAtHand(c) /\ queues.results[Pid[c]] = <<>> /\ client[c].at = "new"
    BY <1>3, <2>1 DEF SysVAnswered, SysVAtHand, Callers
  <2>3. ~SysVQueued(c) /\ Len(queues.orders) = 0
    BY <1>0, <1>3 DEF SysVQueued
  <2>. QED
    BY <1>0, <2>2, <2>3 DEF SysVFlight, SysVOnce, SysVLast, SysVWaits, SysVPending
<1>. QED
  BY <1>4, <1>5, <1>6 DEF SysVInv

\* A killed client stays dead.
LEMMA SysVStains ==
    ASSUME scene' = scene, NEW i, scene \in SysV!SceneType,
           \A k \in Callers : client[k].at = "end" => client'[k].at = "end"
    PROVE  Stained(i) => Stained(i)'
BY DEF Stained, SysV!SceneType, Callers

\* Nothing happens to the orders and results of c, or they are lost.
LEMMA SysVFlightStays ==
    ASSUME NEW c \in Callers, SysVFlight(c), Stained(Pid[c]) => Stained(Pid[c])',
           queues'.orders \in {queues.orders, <<>>},
           queues'.results[Pid[c]] \in {queues.results[Pid[c]], <<>>},
           SysVAtHand(c)' => SysVAtHand(c) /\ server'.job = server.job,
           client'[c].no = client[c].no,
           client[c].at = "wait" /\ SysV!There(c) /\ SysVPending(c)' =>
              Stained(Pid[c])' \/ (client'[c].at = "wait" /\ SysV!There(c)'),
           client'[c].at = "show" => client[c].at = "show" /\ client'[c].got = client[c].got
    PROVE  SysVFlight(c)'
<1>. SUFFICES ASSUME ~Stained(Pid[c]), ~Stained(Pid[c])'
              PROVE  SysVOnce(c)' /\ SysVLast(c)' /\ SysVWaits(c)'
  BY DEF SysVFlight
<1>0. SysVOnce(c) /\ SysVLast(c) /\ SysVWaits(c)
  BY DEF SysVFlight
<1>1. /\ SysV!Order(c)' = SysV!Order(c)
      /\ SysVAnswered(c)' => SysVAnswered(c) /\ queues'.results[Pid[c]] = queues.results[Pid[c]]
  BY DEF SysVAnswered, SysV!Order
<1>2. /\ SysVQueued(c)' => SysVQueued(c)
      /\ queues'.orders = queues.orders \/ Len(queues'.orders) = 0
  <2>1. CASE queues'.orders = queues.orders
    BY <2>1 DEF SysVQueued
  <2>2. CASE queues'.orders = <<>>
    <3>1. Len(queues'.orders) = 0
      BY <2>2
    <3>. QED
      BY <3>1 DEF SysVQueued
  <2>. QED
    BY <2>1, <2>2
<1>3. SysVOnce(c)'
  <2>1. \A i, j \in 1..Len(queues'.orders) :
           queues'.orders[i].client = c /\ queues'.orders[j].client = c => i = j
    BY <1>0, <1>2 DEF SysVOnce
  <2>2. Len(queues'.results[Pid[c]]) <= 1
    <3>1. Len(<<>>) <= 1
      OBVIOUS
    <3>. QED
      BY <1>0, <3>1 DEF SysVOnce
  <2>. QED
    BY <1>0, <1>1, <1>2, <2>1, <2>2 DEF SysVOnce
<1>4. SysVLast(c)'
  <2>1. \A i \in 1..Len(queues'.orders) :
           queues'.orders[i].client = c => queues'.orders[i].no = client'[c].no
    BY <1>0, <1>2 DEF SysVLast
  <2>. QED
    BY <1>0, <1>1, <2>1 DEF SysVLast
<1>5. SysVWaits(c)'
  <2>1. SysVPending(c)' => SysVPending(c)
    BY <1>1, <1>2 DEF SysVPending
  <2>. QED
    BY <1>0, <1>1, <2>1 DEF SysVWaits
<1>. QED
  BY <1>3, <1>4, <1>5

\* Nothing of c is under way.
LEMMA SysVNothing ==
    ASSUME NEW c \in Callers, ~SysVPending(c), Len(queues.results[Pid[c]]) <= 1,
           client[c].at # "show"
    PROVE  SysVFlight(c)
BY DEF SysVPending, SysVQueued, SysVFlight, SysVOnce, SysVLast, SysVWaits

\* The server between its calls, and at its end.
LEMMA SysVServerMoves ==
    ASSUME SysVGiven, SysVInv, scene' = scene, client' = client, SysVServerOK', queues' \in SysVQueue,
           server'.at = "send" => server.at = "send" /\ server'.job = server.job,
           \/ /\ queues'.orders = queues.orders /\ queues'.results = queues.results
              /\ queues'.key = queues.key \/ queues.key = 0
           \/ /\ queues'.orders = <<>> /\ \A i \in SysV!Pids : queues'.results[i] = <<>>
              /\ server'.at = "down"
    PROVE  SysVInv'
<1>0. Len(<<>>) = 0
  OBVIOUS
<1>1. SysVClientOK'
  BY DEF SysVInv, SysVTyped, SysVClientOK
<1>2. SysVTyped'
  <2>1. \A i \in SysV!Pids : \A j \in 1..Len(queues'.results[i]) : Pid[queues'.results[i][j].client] = i
    BY <1>0 DEF SysVInv, SysVTyped
  <2>. QED
    BY <1>1, <2>1 DEF SysVInv, SysVTyped
<1>3. SysVApart'
  BY DEF SysVInv, SysVApart
<1>4. ASSUME NEW c \in Callers PROVE SysVFlight(c)'
  <2>0. Pid[c] \in SysV!Pids /\ SysVFlight(c)
    BY DEF SysV!Pids, Callers, SysVInv
  <2>1. SysVAtHand(c)' => SysVAtHand(c) /\ server'.job = server.job
    BY DEF SysVAtHand
  <2>2. /\ queues'.orders \in {queues.orders, <<>>}
        /\ queues'.results[Pid[c]] \in {queues.results[Pid[c]], <<>>}
    BY <2>0
  <2>3. client[c].at = "wait" /\ SysV!There(c) /\ SysVPending(c)' => SysV!There(c)'
    <3>1. CASE /\ queues'.orders = queues.orders /\ queues'.results = queues.results
               /\ queues'.key = queues.key \/ queues.key = 0
      <4>1. client[c].at = "wait" => client[c].q # 0
        BY DEF SysVInv, SysVTyped, SysVClientOK
      <4>. QED
        BY <3>1, <4>1 DEF SysV!There
    <3>2. CASE /\ queues'.orders = <<>> /\ \A i \in SysV!Pids : queues'.results[i] = <<>>
               /\ server'.at = "down"
      <4>1. ~SysVPending(c)'
        BY <1>0, <2>0, <3>2 DEF SysVPending, SysVQueued, SysVAtHand, SysVAnswered
      <4>. QED
        BY <4>1
    <3>. QED
      BY <3>1, <3>2
  <2>4. Stained(Pid[c]) => Stained(Pid[c])'
    BY DEF Stained
  <2>. QED
    BY <2>0, <2>1, <2>2, <2>3, <2>4, SysVFlightStays
<1>. QED
  BY <1>2, <1>3, <1>4 DEF SysVInv

LEMMA SysVServerStep ==
    ASSUME SysVGiven, SysVInv, scene' = scene,
           SysV!Start \/ SysV!ServerMsgget \/ SysV!ServerEnds
    PROVE  SysVInv'
<1>0. server \in SysVServer /\ SysVServerOK /\ queues \in SysVQueue
  BY DEF SysVInv, SysVTyped, SysVServerOK
<1>. USE DEF SysV!At, SysV!Serving
<1>1. CASE SysV!Start
  <2>1. /\ client' = client /\ queues' = queues /\ server.life < Lives
        /\ server' = [at |-> "msgget", life |-> server.life + 1, job |-> None]
    BY <1>1 DEF SysV!Start
  <2>2. server.life + 1 \in 0..Lives
    BY <1>0, <2>1 DEF SysVServer, SysVGiven
  <2>3. SysVServerOK' /\ server'.at # "send"
    BY <2>1, <2>2 DEF SysVServerOK, SysVServer
  <2>. QED
    BY <1>0, <2>1, <2>3, SysVServerMoves
<1>2. CASE SysV!ServerMsgget
  <2>1. /\ client' = client /\ server' = [server EXCEPT !.at = "receive"]
        /\ queues' = IF queues.key = 0 THEN [queues EXCEPT !.key = server.life] ELSE queues
    BY <1>2 DEF SysV!ServerMsgget
  <2>2. SysVServerOK' /\ server'.at # "send"
    BY <1>0, <2>1 DEF SysVServerOK, SysVServer
  <2>3. /\ queues' \in SysVQueue /\ queues'.orders = queues.orders /\ queues'.results = queues.results
        /\ queues'.key = queues.key \/ queues.key = 0
    <3>1. CASE queues.key = 0
      <4>1. queues' = [queues EXCEPT !.key = server.life] /\ server.life \in 0..Lives
        BY <1>0, <2>1, <3>1 DEF SysVServer
      <4>. QED
        BY <1>0, <3>1, <4>1 DEF SysVQueue
    <3>2. CASE queues.key # 0
      BY <1>0, <2>1, <3>2
    <3>. QED
      BY <3>1, <3>2
  <2>. QED
    BY <2>1, <2>2, <2>3, SysVServerMoves
<1>3. CASE SysV!ServerEnds
  <2>1. client' = client /\ server' = [server EXCEPT !.at = "down"]
        /\ (queues' = queues \/ queues' = SysV!NoQueue)
    BY <1>3 DEF SysV!ServerEnds
  <2>2. SysVServerOK' /\ server'.at = "down"
    BY <1>0, <2>1 DEF SysVServerOK, SysVServer
  <2>3. CASE queues' = queues
    BY <1>0, <2>1, <2>2, <2>3, SysVServerMoves
  <2>4. CASE queues' = SysV!NoQueue
    <3>1. <<>> \in Seq(SysVOrder)
      OBVIOUS
    <3>2. /\ queues' \in SysVQueue /\ queues'.orders = <<>>
          /\ \A i \in SysV!Pids : queues'.results[i] = <<>>
      BY <2>4, <3>1 DEF SysV!NoQueue, SysVQueue, SysVGiven
    <3>. QED
      BY <2>1, <2>2, <3>2, SysVServerMoves
  <2>. QED
    BY <2>1, <2>3, <2>4
<1>. QED
  BY <1>1, <1>2, <1>3

\* A client between its calls. One that ends while its order is under way
\* was killed.
LEMMA SysVClientMoves ==
    ASSUME SysVGiven, SysVInv, scene' = scene, server' = server, queues' = queues, NEW c \in Callers,
           client' \in [Callers -> SysVClient], \A d \in Callers \ {c} : client'[d] = client[d],
           client[c].at # "end", client'[c].at \in {"ask", "end"}, client'[c].no = client[c].no,
           client'[c].at = "ask" => client'[c].q \in 1..Lives,
           client[c].at = "wait" => client'[c].at = "end" /\ (~SysV!There(c) \/ c \in scene.mortal),
           client[c].at = "new" =>
              \A d \in Callers : d # c /\ Pid[d] = Pid[c] => client[d].at \in {"new", "end"}
    PROVE  SysVInv'
<1>1. SysVClientOK'
  BY DEF SysVInv, SysVTyped, SysVClientOK
<1>2. SysVTyped'
  BY <1>1 DEF SysVInv, SysVTyped, SysVServerOK
<1>3. SysVApart'
  <2>1. ASSUME NEW d \in Callers, d # c, Pid[d] = Pid[c]
        PROVE  client'[c].at \in {"new", "end"} \/ client'[d].at \in {"new", "end"}
    BY <2>1 DEF SysVInv, SysVApart
  <2>2. ASSUME NEW d \in Callers \ {c}, NEW e \in Callers \ {c}, d # e, Pid[d] = Pid[e]
        PROVE  client'[d].at \in {"new", "end"} \/ client'[e].at \in {"new", "end"}
    BY <2>2 DEF SysVInv, SysVApart
  <2>. QED
    BY <2>1, <2>2 DEF SysVApart
<1>4. ASSUME NEW d \in Callers PROVE SysVFlight(d)'
  <2>0. Stained(Pid[d]) => Stained(Pid[d])'
    BY SysVStains DEF SysVInv, SysVTyped
  <2>1. SysVAtHand(d)' => SysVAtHand(d) /\ server'.job = server.job
    BY DEF SysVAtHand
  <2>2. client'[d].no = client[d].no
    OBVIOUS
  <2>3. client[d].at = "wait" /\ SysV!There(d) =>
           Stained(Pid[d])' \/ (client'[d].at = "wait" /\ SysV!There(d)')
    <3>1. CASE d # c
      BY <3>1 DEF SysV!There
    <3>2. CASE d = c
      BY <3>2 DEF Stained
    <3>. QED
      BY <3>1, <3>2
  <2>4. client'[d].at = "show" => client[d].at = "show" /\ client'[d].got = client[d].got
    OBVIOUS
  <2>5. SysVFlight(d)
    BY DEF SysVInv
  <2>6. queues'.orders \in {queues.orders, <<>>} /\ queues'.results[Pid[d]] \in {queues.results[Pid[d]], <<>>}
    OBVIOUS
  <2>. QED
    BY <2>0, <2>1, <2>2, <2>3, <2>4, <2>5, <2>6, SysVFlightStays
<1>. QED
  BY <1>2, <1>3, <1>4 DEF SysVInv

LEMMA SysVClientStep ==
    ASSUME SysVGiven, SysVInv, scene' = scene, server' = server, queues' = queues, NEW c \in Callers,
           \/ SysV!ClientMsgget(c) \/ SysV!Show(c) \/ SysV!Kill(c)
           \/ SysV!Go(c, "ask", "end")
           \/ ~SysV!There(c) /\ SysV!Go(c, "wait", "end")
    PROVE  SysVInv'
<1>0. client \in [Callers -> SysVClient] /\ client[c] \in SysVClient /\ queues \in SysVQueue
      /\ (client[c].at \notin {"new", "end"} => client[c].q \in 1..Lives)
  BY DEF SysVInv, SysVTyped, SysVClientOK
<1>1. ASSUME NEW a \in {"ask", "end"}, client' = [client EXCEPT ![c].at = a],
             client[c].at \notin {"new", "end"},
             client[c].at = "wait" => a = "end" /\ (~SysV!There(c) \/ c \in scene.mortal)
      PROVE  SysVInv'
  <2>1. /\ client' \in [Callers -> SysVClient] /\ client'[c].at = a /\ client'[c].no = client[c].no
        /\ client'[c].q = client[c].q /\ \A d \in Callers \ {c} : client'[d] = client[d]
    BY <1>0, <1>1 DEF SysVClient
  <2>. QED
    BY <1>0, <1>1, <2>1, SysVClientMoves
<1>2. CASE SysV!ClientMsgget(c)
  <2>1. PICK a \in {"ask", "end"} : a = IF queues.key = 0 THEN "end" ELSE "ask"
    OBVIOUS
  <2>2. PICK q \in 0..Lives : q = queues.key
    BY <1>0 DEF SysVQueue
  <2>3. client' = [client EXCEPT ![c].at = a, ![c].q = q] /\ client[c].at = "new"
        /\ \A d \in Callers : d # c /\ Pid[d] = Pid[c] => client[d].at \in {"new", "end"}
    BY <1>2, <2>1, <2>2 DEF SysV!ClientMsgget, SysV!Client, Callers
  <2>4. /\ client' \in [Callers -> SysVClient] /\ client'[c].at = a /\ client'[c].no = client[c].no
        /\ client'[c].q = q /\ \A d \in Callers \ {c} : client'[d] = client[d]
    BY <1>0, <2>3 DEF SysVClient
  <2>5. a = "ask" => q \in 1..Lives
    BY <2>1, <2>2 DEF SysVGiven
  <2>. QED
    BY <2>3, <2>4, <2>5, SysVClientMoves
<1>. USE DEF SysV!Go, SysV!Client
<1>3. CASE SysV!Show(c)
  BY <1>1, <1>3 DEF SysV!Show
<1>4. CASE SysV!Kill(c)
  BY <1>1, <1>4 DEF SysV!Kill
<1>5. CASE SysV!Go(c, "ask", "end")
  BY <1>1, <1>5
<1>6. CASE ~SysV!There(c) /\ SysV!Go(c, "wait", "end")
  BY <1>1, <1>6
<1>. QED
  BY <1>2, <1>3, <1>4, <1>5, <1>6

\* A client sends an order: until then none of its own was under way.
LEMMA SysVAsk ==
    ASSUME SysVGiven, SysVInv, scene' = scene, NEW c \in Callers, SysV!Ask(c),
           ~(SysV!Go(c, "ask", "end") /\ UNCHANGED queues)
    PROVE  SysVInv'
<1>0. /\ client \in [Callers -> SysVClient] /\ client[c] \in SysVClient /\ client[c].at = "ask"
      /\ client[c].q \in 1..Lives /\ client[c].no < Orders
      /\ client' = [client EXCEPT ![c].at = "wait", ![c].no = @ + 1] /\ server' = server
      /\ IF SysV!There(c) THEN queues' = [queues EXCEPT !.orders = Append(@, SysV!Order(c)')]
                          ELSE queues' = queues
      /\ queues \in SysVQueue /\ queues.orders \in Seq(SysVOrder) /\ Pid[c] \in SysV!Pids
  BY DEF SysV!Ask, SysV!Client, SysVInv, SysVTyped, SysVClientOK, SysVQueue, SysV!Pids, Callers
<1>1. client[c].no + 1 \in 1..Orders
  BY <1>0 DEF SysVClient, SysVGiven
<1>2. /\ client'[c].at = "wait" /\ client'[c].no = client[c].no + 1 /\ client'[c].q = client[c].q
      /\ client' \in [Callers -> SysVClient] /\ \A d \in Callers \ {c} : client'[d] = client[d]
  <2>1. client'[c] = [client[c] EXCEPT !.at = "wait", !.no = client[c].no + 1]
        /\ \A d \in Callers \ {c} : client'[d] = client[d]
    BY <1>0
  <2>2. /\ client'[c] \in SysVClient /\ client'[c].at = "wait" /\ client'[c].no = client[c].no + 1
        /\ client'[c].q = client[c].q
    BY <1>0, <1>1, <2>1 DEF SysVClient
  <2>. QED
    BY <1>0, <2>1, <2>2
<1>3. SysVApart'
  <2>1. ASSUME NEW d \in Callers, d # c, Pid[d] = Pid[c] PROVE client'[d].at \in {"new", "end"}
    BY <1>0, <1>2, <2>1 DEF SysVInv, SysVApart
  <2>2. ASSUME NEW d \in Callers \ {c}, NEW e \in Callers \ {c}, d # e, Pid[d] = Pid[e]
        PROVE  client'[d].at \in {"new", "end"} \/ client'[e].at \in {"new", "end"}
    BY <1>2, <2>2 DEF SysVInv, SysVApart
  <2>. QED
    BY <2>1, <2>2 DEF SysVApart
<1>4. \A i : Stained(i) => Stained(i)'
  <2>1. \A k \in Callers : client[k].at = "end" => client'[k].at = "end"
    BY <1>0, <1>2
  <2>. QED
    BY <2>1, SysVStains DEF SysVInv, SysVTyped
<1>5. SysVClientOK' /\ SysVServerOK'
  BY <1>0, <1>2 DEF SysVInv, SysVTyped, SysVClientOK, SysVServerOK
<1>6. ASSUME ~Stained(Pid[c])
      PROVE  ~SysVPending(c) /\ queues.results[Pid[c]] = <<>>
  <2>1. SysVOnce(c) /\ ~SysVPending(c)
    BY <1>0, <1>6 DEF SysVInv, SysVFlight, SysVWaits
  <2>2. ASSUME queues.results[Pid[c]] # <<>> PROVE FALSE
    <3>1. queues.results[Pid[c]] \in Seq(SysVOrder)
      BY <1>0 DEF SysVQueue
    <3>2. 1 \in 1..Len(queues.results[Pid[c]]) /\ queues.results[Pid[c]][1] \in SysVOrder
      BY <2>2, <3>1
    <3>3. PICK e \in Callers : e = queues.results[Pid[c]][1].client
      BY <3>2 DEF SysVOrder
    <3>4. Pid[e] = Pid[c] /\ SysVPending(e)
      BY <1>0, <2>2, <3>2, <3>3 DEF SysVInv, SysVTyped, SysVPending, SysVAnswered
    <3>5. client[e].at = "wait"
      BY <1>6, <3>4 DEF SysVInv, SysVFlight, SysVWaits
    <3>. QED
      BY <1>0, <3>4, <3>5 DEF SysVInv, SysVApart
  <2>. QED
    BY <2>1, <2>2
<1>7. CASE ~SysV!There(c)
  <2>1. queues' = queues
    BY <1>0, <1>7
  <2>2. SysVTyped'
    BY <1>5, <2>1 DEF SysVInv, SysVTyped
  <2>3. ASSUME NEW d \in Callers \ {c} PROVE SysVFlight(d)'
    <3>1. SysVAtHand(d)' => SysVAtHand(d) /\ server'.job = server.job
      BY <1>0 DEF SysVAtHand
    <3>2. (SysV!There(d) => SysV!There(d)') /\ client'[d] = client[d]
      BY <1>2, <2>1 DEF SysV!There
    <3>. QED
      BY <1>4, <2>1, <3>1, <3>2, SysVFlightStays DEF SysVInv
  <2>4. SysVFlight(c)'
    <3>1. CASE Stained(Pid[c])
      BY <1>4, <3>1 DEF SysVFlight
    <3>2. CASE ~Stained(Pid[c])
      <4>1. ~SysVPending(c)'
        BY <1>0, <1>6, <2>1, <3>2 DEF SysVPending, SysVQueued, SysVAtHand, SysVAnswered
      <4>2. Len(<<>>) <= 1
        OBVIOUS
      <4>3. Len(queues'.results[Pid[c]]) <= 1
        BY <1>6, <2>1, <3>2, <4>2
      <4>4. ~SysVQueued(c)' /\ ~SysVAtHand(c)' /\ ~SysVAnswered(c)'
        BY <4>1 DEF SysVPending
      <4>5. \A i \in 1..Len(queues'.orders) : queues'.orders[i].client # c
        BY <4>4 DEF SysVQueued
      <4>. QED
        BY <1>2, <4>1, <4>3, <4>4, <4>5 DEF SysVFlight, SysVOnce, SysVLast, SysVWaits
    <3>. QED
      BY <3>1, <3>2
  <2>. QED
    BY <1>3, <2>2, <2>3, <2>4 DEF SysVInv
<1>8. CASE SysV!There(c)
  <2>1. PICK o \in SysVOrder : o = SysV!Order(c)' /\ o.client = c /\ o.no = client'[c].no
    <3>1. SysV!Order(c)' = [client |-> c, no |-> client'[c].no] /\ client'[c].no \in 1..Orders
      BY <1>1, <1>2 DEF SysV!Order
    <3>. QED
      BY <3>1 DEF SysVOrder
  <2>2. PICK s \in Seq(SysVOrder) : s = queues.orders
    BY <1>0
  <2>3. PICK t \in Seq(SysVOrder) : t = Append(s, o)
    BY <2>2, AppendFacts
  <2>4. /\ Len(t) = Len(s) + 1 /\ Len(s) \in Nat
        /\ \A i \in 1..Len(s) : t[i] = s[i]
        /\ t[Len(s) + 1] = o
        /\ \A i \in 1..Len(t) : i \in 1..Len(s) \/ i = Len(s) + 1
    BY <2>3, AppendFacts
  <2>5. queues' = [queues EXCEPT !.orders = t]
    BY <1>0, <1>8, <2>1, <2>2, <2>3
  <2>6. /\ queues' \in SysVQueue /\ queues'.orders = t
        /\ queues'.results = queues.results /\ queues'.key = queues.key
    BY <1>0, <2>5 DEF SysVQueue
  <2>7. SysVTyped'
    BY <1>5, <2>6 DEF SysVInv, SysVTyped
  <2>8. SysVFlight(c)'
    <3>. SUFFICES ASSUME ~Stained(Pid[c])' PROVE SysVOnce(c)' /\ SysVLast(c)' /\ SysVWaits(c)'
      BY DEF SysVFlight
    <3>1. ~SysVPending(c) /\ queues.results[Pid[c]] = <<>>
      BY <1>4, <1>6
    <3>2. ~SysVAtHand(c)' /\ ~SysVAnswered(c)' /\ Len(queues'.results[Pid[c]]) <= 1
      <4>1. Len(<<>>) <= 1
        OBVIOUS
      <4>. QED
        BY <1>0, <2>6, <3>1, <4>1 DEF SysVAtHand, SysVAnswered, SysVPending
    <3>3. \A i \in 1..Len(t) : i = Len(s) + 1 \/ t[i].client # c
      BY <2>2, <2>4, <3>1 DEF SysVQueued, SysVPending
    <3>4. SysVOnce(c)'
      <4>1. \A i, j \in 1..Len(queues'.orders) :
               queues'.orders[i].client = c /\ queues'.orders[j].client = c => i = j
        BY <2>6, <3>3
      <4>. QED
        BY <3>2, <4>1 DEF SysVOnce
    <3>5. SysVLast(c)'
      <4>1. \A i \in 1..Len(queues'.orders) :
               queues'.orders[i].client = c => queues'.orders[i].no = client'[c].no
        BY <2>1, <2>4, <2>6, <3>3
      <4>. QED
        BY <3>2, <4>1 DEF SysVLast
    <3>6. SysVWaits(c)'
      <4>1. SysV!There(c)'
        BY <1>2, <1>8, <2>6 DEF SysV!There
      <4>. QED
        BY <1>2, <4>1 DEF SysVWaits
    <3>. QED
      BY <3>4, <3>5, <3>6
  <2>9. ASSUME NEW d \in Callers \ {c} PROVE SysVFlight(d)'
    <3>. SUFFICES ASSUME ~Stained(Pid[d])' PROVE SysVOnce(d)' /\ SysVLast(d)' /\ SysVWaits(d)'
      BY DEF SysVFlight
    <3>1. SysVOnce(d) /\ SysVLast(d) /\ SysVWaits(d) /\ client'[d] = client[d] /\ o.client # d
      BY <1>2, <1>4, <2>1 DEF SysVInv, SysVFlight
    <3>2. \A i \in 1..Len(queues'.orders) :
             queues'.orders[i].client = d =>
                i \in 1..Len(queues.orders) /\ queues.orders[i] = queues'.orders[i]
      BY <2>2, <2>4, <2>6, <3>1
    <3>3. SysVQueued(d)' => SysVQueued(d)
      BY <3>2 DEF SysVQueued
    <3>4. /\ SysVAtHand(d)' <=> SysVAtHand(d)
          /\ SysVAnswered(d)' <=> SysVAnswered(d)
          /\ SysV!Order(d)' = SysV!Order(d) /\ queues'.results = queues.results
          /\ SysV!There(d)' <=> SysV!There(d)
      BY <1>0, <2>6, <3>1 DEF SysVAtHand, SysVAnswered, SysV!Order, SysV!There
    <3>5. SysVOnce(d)'
      <4>1. ASSUME NEW i \in 1..Len(queues'.orders), NEW j \in 1..Len(queues'.orders),
                   queues'.orders[i].client = d, queues'.orders[j].client = d
            PROVE  i = j
        <5>1. /\ i \in 1..Len(queues.orders) /\ queues.orders[i].client = d
              /\ j \in 1..Len(queues.orders) /\ queues.orders[j].client = d
          BY <3>2, <4>1
        <5>. QED
          BY <3>1, <5>1 DEF SysVOnce
      <4>2. /\ SysVQueued(d)' => ~SysVAtHand(d)' /\ ~SysVAnswered(d)'
            /\ ~(SysVAtHand(d)' /\ SysVAnswered(d)') /\ Len(queues'.results[Pid[d]]) <= 1
        BY <3>1, <3>3, <3>4 DEF SysVOnce
      <4>. QED
        BY <4>1, <4>2 DEF SysVOnce
    <3>6. SysVLast(d)'
      <4>1. ASSUME NEW i \in 1..Len(queues'.orders), queues'.orders[i].client = d
            PROVE  queues'.orders[i].no = client'[d].no
        <5>1. i \in 1..Len(queues.orders) /\ queues.orders[i].client = d
              /\ queues'.orders[i].no = queues.orders[i].no
          BY <3>2, <4>1
        <5>. QED
          BY <3>1, <5>1 DEF SysVLast
      <4>2. (SysVAtHand(d)' => server'.job.no = client'[d].no)
            /\ (SysVAnswered(d)' => queues'.results[Pid[d]][1] = SysV!Order(d)')
        BY <1>0, <3>1, <3>4 DEF SysVLast
      <4>. QED
        BY <4>1, <4>2 DEF SysVLast
    <3>7. SysVWaits(d)'
      BY <3>1, <3>3, <3>4 DEF SysVPending, SysVWaits
    <3>. QED
      BY <3>5, <3>6, <3>7
  <2>. QED
    BY <1>3, <2>7, <2>8, <2>9 DEF SysVInv
<1>. QED
  BY <1>7, <1>8

LEMMA SysVServerMsgrcv ==
    ASSUME SysVGiven, SysVInv, scene' = scene, SysV!ServerMsgrcv
    PROVE  SysVInv'
<1>0. /\ server.at = "receive" /\ server \in SysVServer /\ client' = client
      /\ queues \in SysVQueue /\ queues.orders # <<>> /\ queues.orders \in Seq(SysVOrder)
  BY DEF SysV!ServerMsgrcv, SysV!At, SysVInv, SysVTyped, SysVServerOK, SysVQueue
<1>1. PICK s \in Seq(SysVOrder) : s = queues.orders /\ s # <<>>
  BY <1>0
<1>2. PICK o \in SysVOrder : o = s[1] /\ Head(s) = o
  BY <1>1, TailFacts
<1>3. /\ Tail(s) \in Seq(SysVOrder) /\ Len(s) \in Nat /\ Len(s) >= 1 /\ Len(Tail(s)) = Len(s) - 1
      /\ \A i \in 1..Len(Tail(s)) : Tail(s)[i] = s[i + 1] /\ i + 1 \in 1..Len(s) /\ i + 1 # 1
  BY <1>1, TailFacts
<1>4. server' = [server EXCEPT !.at = "send", !.job = o]
      /\ queues' = [queues EXCEPT !.orders = Tail(s)]
  BY <1>1, <1>2 DEF SysV!ServerMsgrcv
<1>5. /\ queues' \in SysVQueue /\ queues'.key = queues.key
      /\ queues'.results = queues.results /\ queues'.orders = Tail(s)
  BY <1>0, <1>3, <1>4 DEF SysVQueue
<1>6. SysVServerOK' /\ server'.at = "send" /\ server'.job = o
  BY <1>0, <1>4 DEF SysVServerOK, SysVServer
<1>7. SysVTyped' /\ SysVApart'
  BY <1>0, <1>5, <1>6 DEF SysVInv, SysVTyped, SysVApart, SysVClientOK
<1>8. ASSUME NEW d \in Callers PROVE SysVFlight(d)'
  <2>. SUFFICES ASSUME ~Stained(Pid[d])' PROVE SysVOnce(d)' /\ SysVLast(d)' /\ SysVWaits(d)'
    BY DEF SysVFlight
  <2>0. /\ SysVOnce(d) /\ SysVLast(d) /\ SysVWaits(d)
        /\ ~SysVAtHand(d) /\ client'[d] = client[d]
    BY <1>0 DEF SysVInv, SysVFlight, Stained, SysVAtHand
  <2>1. /\ SysVAnswered(d)' <=> SysVAnswered(d)
        /\ SysVAtHand(d)' <=> o.client = d
        /\ SysV!Order(d)' = SysV!Order(d) /\ queues'.results = queues.results
        /\ SysV!There(d)' <=> SysV!There(d)
    BY <1>5, <1>6, <2>0 DEF SysVAtHand, SysVAnswered, SysV!Order, SysV!There
  <2>2. \A i \in 1..Len(queues'.orders) :
           queues'.orders[i] = s[i + 1] /\ i + 1 \in 1..Len(s) /\ i + 1 # 1
    BY <1>3, <1>5
  <2>3. SysVQueued(d)' => SysVQueued(d)
    BY <1>1, <2>2 DEF SysVQueued
  <2>4. o.client = d => SysVQueued(d) /\ o.no = client[d].no /\ ~SysVAnswered(d) /\ ~SysVQueued(d)'
    <3>. SUFFICES ASSUME o.client = d
                  PROVE  SysVQueued(d) /\ o.no = client[d].no /\ ~SysVAnswered(d) /\ ~SysVQueued(d)'
      OBVIOUS
    <3>1. 1 \in 1..Len(s) /\ queues.orders[1] = o
      BY <1>1, <1>2, <1>3
    <3>2. SysVQueued(d)
      BY <1>1, <3>1 DEF SysVQueued
    <3>3. ~SysVAnswered(d) /\ o.no = client[d].no
      BY <1>1, <2>0, <3>1, <3>2 DEF SysVOnce, SysVLast
    <3>4. \A i \in 1..Len(s) : s[i].client = d => i = 1
      BY <1>1, <2>0, <3>1 DEF SysVOnce
    <3>5. ~SysVQueued(d)'
      BY <2>2, <3>4 DEF SysVQueued
    <3>. QED
      BY <3>2, <3>3, <3>5
  <2>5. SysVOnce(d)'
    <3>1. ASSUME NEW i \in 1..Len(queues'.orders), NEW j \in 1..Len(queues'.orders),
                 queues'.orders[i].client = d, queues'.orders[j].client = d
          PROVE  i = j
      <4>1. s[i + 1].client = d /\ s[j + 1].client = d /\ i + 1 \in 1..Len(s) /\ j + 1 \in 1..Len(s)
        BY <2>2, <3>1
      <4>2. i + 1 = j + 1
        BY <1>1, <2>0, <4>1 DEF SysVOnce
      <4>3. i \in Int /\ j \in Int
        OBVIOUS
      <4>. QED
        BY <4>2, <4>3
    <3>2. /\ SysVQueued(d)' => ~SysVAtHand(d)' /\ ~SysVAnswered(d)'
          /\ ~(SysVAtHand(d)' /\ SysVAnswered(d)') /\ Len(queues'.results[Pid[d]]) <= 1
      BY <2>0, <2>1, <2>3, <2>4 DEF SysVOnce
    <3>. QED
      BY <3>1, <3>2 DEF SysVOnce
  <2>6. SysVLast(d)'
    <3>1. ASSUME NEW i \in 1..Len(queues'.orders), queues'.orders[i].client = d
          PROVE  queues'.orders[i].no = client'[d].no
      BY <1>1, <2>0, <2>2, <3>1 DEF SysVLast
    <3>2. (SysVAtHand(d)' => server'.job.no = client'[d].no)
          /\ (SysVAnswered(d)' => queues'.results[Pid[d]][1] = SysV!Order(d)')
      BY <1>6, <2>0, <2>1, <2>4 DEF SysVLast
    <3>. QED
      BY <3>1, <3>2 DEF SysVLast
  <2>7. SysVWaits(d)'
    BY <2>0, <2>1, <2>3, <2>4 DEF SysVPending, SysVWaits
  <2>. QED
    BY <2>5, <2>6, <2>7
<1>. QED
  BY <1>7, <1>8 DEF SysVInv

\* With a result under an id that no killed client had, the client that waits
\* for it is the one its owner asks for, and the only one.
LEMMA SysVHead ==
    ASSUME SysVInv, NEW c \in Callers, ~Stained(Pid[c]), client[c].at = "wait",
           queues.results[Pid[c]] # <<>>
    PROVE  SysVAnswered(c)
<1>1. Pid[c] \in SysV!Pids /\ queues.results[Pid[c]] \in Seq(SysVOrder)
  BY DEF SysV!Pids, Callers, SysVInv, SysVTyped, SysVQueue
<1>2. 1 \in 1..Len(queues.results[Pid[c]]) /\ queues.results[Pid[c]][1] \in SysVOrder
  BY <1>1
<1>3. PICK e \in Callers : e = queues.results[Pid[c]][1].client
  BY <1>2 DEF SysVOrder
<1>4. Pid[e] = Pid[c] /\ SysVAnswered(e)
  BY <1>1, <1>2, <1>3 DEF SysVInv, SysVTyped, SysVAnswered
<1>5. client[e].at = "wait"
  BY <1>4 DEF SysVInv, SysVFlight, SysVWaits, SysVPending
<1>6. e = c
  BY <1>4, <1>5 DEF SysVInv, SysVApart
<1>. QED
  BY <1>4, <1>6

\* A result comes or goes, under one process id.
LEMMA SysVResults ==
    ASSUME SysVGiven, SysVInv, scene' = scene, SysVServerOK', SysVClientOK',
           NEW c \in Callers, \A d \in Callers \ {c} : client'[d] = client[d],
           client[c].at = client'[c].at \/ (client[c].at = "wait" /\ client'[c].at = "show"),
           client'[c].no = client[c].no, client'[c].q = client[c].q,
           NEW s \in Seq(SysVOrder), \A j \in 1..Len(s) : Pid[s[j].client] = Pid[c],
           queues' = [queues EXCEPT !.results[Pid[c]] = s],
           \A d \in Callers \ {c} : SysVAtHand(d)' => SysVAtHand(d) /\ server'.job = server.job,
           ~Stained(Pid[c]) =>
              /\ \A d \in Callers \ {c} : Pid[d] = Pid[c] => client[d].at # "wait"
              /\ Len(s) <= 1
              /\ s # <<>> => s[1].client = c
              /\ SysVOnce(c)' /\ SysVLast(c)' /\ SysVWaits(c)'
    PROVE  SysVInv'
<1>0. Pid[c] \in SysV!Pids /\ queues \in SysVQueue
  BY DEF SysV!Pids, Callers, SysVInv, SysVTyped
<1>1. /\ queues' \in SysVQueue /\ queues'.orders = queues.orders /\ queues'.key = queues.key
      /\ \A i \in SysV!Pids : i # Pid[c] => queues'.results[i] = queues.results[i]
      /\ queues'.results[Pid[c]] = s
  <2>1. queues' = [queues EXCEPT !.results = [queues.results EXCEPT ![Pid[c]] = s]]
    BY <1>0 DEF SysVQueue
  <2>2. /\ [queues.results EXCEPT ![Pid[c]] = s] \in [SysV!Pids -> Seq(SysVOrder)]
        /\ [queues.results EXCEPT ![Pid[c]] = s][Pid[c]] = s
        /\ \A i \in SysV!Pids : i # Pid[c] => [queues.results EXCEPT ![Pid[c]] = s][i] = queues.results[i]
    BY <1>0 DEF SysVQueue
  <2>3. PICK r \in [SysV!Pids -> Seq(SysVOrder)] : r = [queues.results EXCEPT ![Pid[c]] = s]
    BY <2>2
  <2>4. /\ queues' \in SysVQueue /\ queues'.orders = queues.orders /\ queues'.key = queues.key
        /\ queues'.results = r
    BY <1>0, <2>1, <2>3 DEF SysVQueue
  <2>. QED
    BY <2>2, <2>3, <2>4
<1>2. SysVTyped'
  <2>1. ASSUME NEW i \in SysV!Pids, NEW j \in 1..Len(queues'.results[i])
        PROVE  Pid[queues'.results[i][j].client] = i
    BY <1>1, <2>1 DEF SysVInv, SysVTyped
  <2>. QED
    BY <1>1, <2>1 DEF SysVInv, SysVTyped
<1>3. SysVApart'
  <2>1. \A d \in Callers : client'[d].at \in {"new", "end"} <=> client[d].at \in {"new", "end"}
    OBVIOUS
  <2>. QED
    BY <2>1 DEF SysVInv, SysVApart
<1>4. \A i : Stained(i) => Stained(i)'
  <2>1. \A k \in Callers : client[k].at = "end" => client'[k].at = "end"
    OBVIOUS
  <2>. QED
    BY <2>1, SysVStains DEF SysVInv, SysVTyped
<1>5. SysVFlight(c)'
  BY <1>4 DEF SysVFlight
<1>6. ASSUME NEW d \in Callers \ {c} PROVE SysVFlight(d)'
  <2>0. /\ SysVFlight(d) /\ client'[d] = client[d] /\ Pid[d] \in SysV!Pids
        /\ SysV!There(d)' <=> SysV!There(d)
    BY <1>1 DEF SysVInv, SysV!There, SysV!Pids, Callers
  <2>1. CASE Pid[d] # Pid[c]
    BY <1>1, <1>4, <2>0, <2>1, SysVFlightStays
  <2>2. CASE Pid[d] = Pid[c]
    <3>. SUFFICES ASSUME ~Stained(Pid[d])' PROVE SysVFlight(d)'
      BY DEF SysVFlight
    <3>1. ~SysVPending(d) /\ client[d].at # "wait" /\ SysVWaits(d)
      BY <1>4, <2>0, <2>2 DEF SysVFlight, SysVWaits
    <3>2. ~SysVQueued(d)' /\ ~SysVAtHand(d)'
      BY <1>1, <3>1 DEF SysVPending, SysVQueued, SysVAtHand
    <3>3. ~SysVAnswered(d)' /\ Len(queues'.results[Pid[d]]) <= 1
      BY <1>1, <1>4, <2>2 DEF SysVAnswered
    <3>4. SysVWaits(d)'
      BY <2>0, <3>1, <3>2, <3>3 DEF SysVWaits, SysVPending, SysV!Order
    <3>5. \A i \in 1..Len(queues'.orders) : queues'.orders[i].client # d
      BY <3>2 DEF SysVQueued
    <3>6. SysVOnce(d)' /\ SysVLast(d)'
      BY <3>2, <3>3, <3>5 DEF SysVOnce, SysVLast
    <3>. QED
      BY <3>4, <3>6 DEF SysVFlight
  <2>. QED
    BY <2>1, <2>2
<1>. QED
  BY <1>2, <1>3, <1>5, <1>6 DEF SysVInv

LEMMA SysVServerMsgsnd ==
    ASSUME SysVGiven, SysVInv, scene' = scene, SysV!ServerMsgsnd
    PROVE  SysVInv'
<1>0. /\ server.at = "send" /\ server.job \in SysVOrder /\ server \in SysVServer
      /\ server.job.client \in Callers /\ queues \in SysVQueue /\ client' = client
      /\ server' = [server EXCEPT !.at = "receive"]
      /\ queues' = [queues EXCEPT !.results[Pid[server.job.client]] = Append(@, server.job)]
  BY DEF SysV!ServerMsgsnd, SysV!At, SysV!Serving, SysVInv, SysVTyped, SysVServerOK, SysVOrder
<1>1. PICK c \in Callers : c = server.job.client
  BY <1>0
<1>2. PICK o \in SysVOrder : o = server.job /\ o.client = c
  BY <1>0, <1>1
<1>3. SysVAtHand(c) /\ SysVFlight(c) /\ Pid[c] \in SysV!Pids
  BY <1>0, <1>1 DEF SysVAtHand, SysVInv, SysV!Pids, Callers
<1>4. PICK r \in Seq(SysVOrder) : r = queues.results[Pid[c]]
  BY <1>0, <1>3 DEF SysVQueue
<1>5. PICK s \in Seq(SysVOrder) : s = Append(r, o)
  BY <1>4, AppendFacts
<1>6. /\ Len(s) = Len(r) + 1 /\ Len(r) \in Nat
      /\ \A i \in 1..Len(r) : s[i] = r[i]
      /\ s[Len(r) + 1] = o
      /\ \A i \in 1..Len(s) : i \in 1..Len(r) \/ i = Len(r) + 1
  BY <1>5, AppendFacts
<1>7. queues' = [queues EXCEPT !.results[Pid[c]] = s]
  BY <1>0, <1>1, <1>2, <1>4, <1>5
<1>8. \A j \in 1..Len(s) : Pid[s[j].client] = Pid[c]
  BY <1>2, <1>3, <1>4, <1>6 DEF SysVInv, SysVTyped
<1>9. SysVServerOK' /\ server'.at = "receive"
  BY <1>0 DEF SysVServerOK, SysVServer
<1>10. SysVClientOK'
  BY <1>0 DEF SysVInv, SysVTyped, SysVClientOK
<1>11. ASSUME ~Stained(Pid[c])
       PROVE  /\ \A d \in Callers \ {c} : Pid[d] = Pid[c] => client[d].at # "wait"
              /\ Len(s) <= 1 /\ s[1].client = c
              /\ SysVOnce(c)' /\ SysVLast(c)' /\ SysVWaits(c)'
  <2>1. SysVOnce(c) /\ SysVLast(c) /\ SysVWaits(c) /\ client[c].at = "wait" /\ SysV!There(c)
    BY <1>3, <1>11 DEF SysVFlight, SysVWaits, SysVPending
  <2>2. r = <<>>
    BY <1>3, <1>4, <1>11, <2>1, SysVHead DEF SysVOnce
  <2>3. Len(r) = 0 /\ Len(s) = 1 /\ s[1] = o /\ s # <<>>
    BY <1>6, <2>2
  <2>4. queues'.results[Pid[c]] = s /\ queues'.orders = queues.orders /\ queues'.key = queues.key
    <3>1. queues' = [queues EXCEPT !.results = [queues.results EXCEPT ![Pid[c]] = s]]
      BY <1>0, <1>7 DEF SysVQueue
    <3>2. [queues.results EXCEPT ![Pid[c]] = s][Pid[c]] = s
      BY <1>0, <1>3 DEF SysVQueue
    <3>. QED
      BY <1>0, <3>1, <3>2 DEF SysVQueue
  <2>5. ~SysVQueued(c) /\ o = SysV!Order(c)
    <3>1. ~SysVQueued(c) /\ o.no = client[c].no
      BY <1>2, <1>3, <2>1 DEF SysVOnce, SysVLast
    <3>. QED
      BY <1>2, <3>1 DEF SysV!Order, SysVOrder
  <2>6. SysVAnswered(c)' /\ ~SysVAtHand(c)' /\ SysV!Order(c)' = SysV!Order(c) /\ ~SysVQueued(c)'
    <3>1. SysVAnswered(c)'
      BY <1>2, <2>3, <2>4 DEF SysVAnswered
    <3>2. ~SysVAtHand(c)' /\ SysV!Order(c)' = SysV!Order(c) /\ ~SysVQueued(c)'
      BY <1>0, <1>9, <2>4, <2>5 DEF SysVAtHand, SysV!Order, SysVQueued
    <3>. QED
      BY <3>1, <3>2
  <2>7. SysVOnce(c)'
    <3>1. \A i, j \in 1..Len(queues'.orders) :
             queues'.orders[i].client = c /\ queues'.orders[j].client = c => i = j
      BY <2>1, <2>4 DEF SysVOnce
    <3>2. Len(queues'.results[Pid[c]]) <= 1
      <4>1. Len(queues'.results[Pid[c]]) = 1
        BY <2>3, <2>4
      <4>. QED
        BY <4>1
    <3>3. /\ SysVQueued(c)' => ~SysVAtHand(c)' /\ ~SysVAnswered(c)'
          /\ ~(SysVAtHand(c)' /\ SysVAnswered(c)')
      BY <2>6
    <3>. QED
      BY <3>1, <3>2, <3>3 DEF SysVOnce
  <2>8. SysVLast(c)'
    BY <1>0, <2>1, <2>3, <2>4, <2>5, <2>6 DEF SysVLast
  <2>9. SysVWaits(c)'
    <3>1. SysV!There(c)'
      BY <1>0, <2>1, <2>4 DEF SysV!There
    <3>. QED
      BY <1>0, <2>1, <3>1 DEF SysVWaits
  <2>10. \A d \in Callers \ {c} : Pid[d] = Pid[c] => client[d].at # "wait"
    BY <2>1 DEF SysVInv, SysVApart
  <2>. QED
    BY <1>2, <2>3, <2>7, <2>8, <2>9, <2>10
<1>12. \A d \in Callers \ {c} : SysVAtHand(d)' => SysVAtHand(d) /\ server'.job = server.job
  BY <1>9 DEF SysVAtHand
<1>13. /\ client[c].at = client'[c].at /\ client'[c].no = client[c].no /\ client'[c].q = client[c].q
       /\ \A d \in Callers \ {c} : client'[d] = client[d]
  BY <1>0
<1>. QED
  BY <1>7, <1>8, <1>9, <1>10, <1>11, <1>12, <1>13, SysVResults

LEMMA SysVClientMsgrcv ==
    ASSUME SysVGiven, SysVInv, scene' = scene, NEW c \in Callers, server' = server,
           SysV!Client(c, "wait"), SysV!There(c), queues.results[Pid[c]] # <<>>,
           client' = [client EXCEPT ![c].at = "show", ![c].got = Head(queues.results[Pid[c]])],
           queues' = [queues EXCEPT !.results[Pid[c]] = Tail(@)]
    PROVE  SysVInv'
<1>0. /\ client[c].at = "wait" /\ client \in [Callers -> SysVClient] /\ client[c] \in SysVClient
      /\ client[c].q \in 1..Lives /\ Pid[c] \in SysV!Pids
      /\ queues \in SysVQueue /\ queues.results[Pid[c]] \in Seq(SysVOrder) /\ SysVFlight(c)
  BY DEF SysV!Client, SysVInv, SysVTyped, SysVClientOK, SysVQueue, SysV!Pids, Callers
<1>1. PICK r \in Seq(SysVOrder) : r = queues.results[Pid[c]] /\ r # <<>>
  BY <1>0
<1>2. PICK o \in SysVOrder : o = r[1] /\ Head(r) = o
  BY <1>1, TailFacts
<1>3. /\ Tail(r) \in Seq(SysVOrder) /\ Len(r) \in Nat /\ Len(r) >= 1 /\ Len(Tail(r)) = Len(r) - 1
      /\ \A i \in 1..Len(Tail(r)) : Tail(r)[i] = r[i + 1] /\ i + 1 \in 1..Len(r) /\ i + 1 # 1
  BY <1>1, TailFacts
<1>4. PICK s \in Seq(SysVOrder) : s = Tail(r)
  BY <1>3
<1>5. queues' = [queues EXCEPT !.results[Pid[c]] = s]
      /\ client' = [client EXCEPT ![c].at = "show", ![c].got = o]
  BY <1>1, <1>2, <1>4
<1>6. /\ client'[c].at = "show" /\ client'[c].got = o /\ client'[c].no = client[c].no
      /\ client'[c].q = client[c].q
      /\ client' \in [Callers -> SysVClient] /\ \A d \in Callers \ {c} : client'[d] = client[d]
  <2>1. /\ client'[c] = [client[c] EXCEPT !.at = "show", !.got = o]
        /\ \A d \in Callers \ {c} : client'[d] = client[d]
    BY <1>0, <1>5
  <2>2. /\ client'[c] \in SysVClient /\ client'[c].at = "show" /\ client'[c].got = o
        /\ client'[c].no = client[c].no /\ client'[c].q = client[c].q
    BY <1>0, <2>1 DEF SysVClient
  <2>3. client' \in [Callers -> SysVClient]
    BY <1>0, <1>5, <2>2
  <2>. QED
    BY <2>1, <2>2, <2>3
<1>7. SysVClientOK' /\ SysVServerOK'
  BY <1>0, <1>6 DEF SysVInv, SysVTyped, SysVClientOK, SysVServerOK
<1>8. \A j \in 1..Len(s) : Pid[s[j].client] = Pid[c]
  BY <1>0, <1>1, <1>3, <1>4 DEF SysVInv, SysVTyped
<1>9. ASSUME ~Stained(Pid[c])
      PROVE  /\ \A d \in Callers \ {c} : Pid[d] = Pid[c] => client[d].at # "wait"
             /\ Len(s) <= 1 /\ s = <<>>
             /\ SysVOnce(c)' /\ SysVLast(c)' /\ SysVWaits(c)'
  <2>1. SysVOnce(c) /\ SysVLast(c) /\ SysVAnswered(c)
    BY <1>0, <1>9, SysVHead DEF SysVFlight
  <2>2. ~SysVQueued(c) /\ ~SysVAtHand(c) /\ o = SysV!Order(c) /\ Len(r) <= 1
    BY <1>1, <1>2, <2>1 DEF SysVOnce, SysVLast
  <2>3. s = <<>> /\ Len(s) = 0
    BY <1>3, <1>4, <2>2
  <2>4. queues'.results[Pid[c]] = s /\ queues'.orders = queues.orders
    <3>1. queues' = [queues EXCEPT !.results = [queues.results EXCEPT ![Pid[c]] = s]]
      BY <1>0, <1>5 DEF SysVQueue
    <3>2. [queues.results EXCEPT ![Pid[c]] = s][Pid[c]] = s
      BY <1>0 DEF SysVQueue
    <3>. QED
      BY <1>0, <3>1, <3>2 DEF SysVQueue
  <2>5. ~SysVAnswered(c)' /\ ~SysVAtHand(c)' /\ ~SysVQueued(c)'
    BY <2>2, <2>3, <2>4 DEF SysVAnswered, SysVAtHand, SysVQueued
  <2>6. \A i \in 1..Len(queues'.orders) : queues'.orders[i].client # c
    BY <2>5 DEF SysVQueued
  <2>7. SysVOnce(c)' /\ SysVLast(c)'
    <3>1. Len(queues'.results[Pid[c]]) <= 1
      <4>1. queues'.results[Pid[c]] = <<>> /\ Len(<<>>) <= 1
        BY <2>3, <2>4
      <4>. QED
        BY <4>1
    <3>2. SysVOnce(c)'
      BY <2>5, <2>6, <3>1 DEF SysVOnce
    <3>3. SysVLast(c)'
      BY <2>5, <2>6 DEF SysVLast
    <3>. QED
      BY <3>2, <3>3
  <2>8. SysVWaits(c)'
    <3>1. SysV!Order(c)' = SysV!Order(c)
      BY <1>6 DEF SysV!Order
    <3>. QED
      BY <1>6, <2>2, <2>5, <3>1 DEF SysVWaits, SysVPending
  <2>9. \A d \in Callers \ {c} : Pid[d] = Pid[c] => client[d].at # "wait"
    BY <1>0 DEF SysVInv, SysVApart
  <2>. QED
    BY <2>3, <2>7, <2>8, <2>9
<1>10. \A d \in Callers \ {c} : SysVAtHand(d)' => SysVAtHand(d) /\ server'.job = server.job
  BY DEF SysVAtHand
<1>. QED
  BY <1>0, <1>5, <1>6, <1>7, <1>8, <1>9, <1>10, SysVResults

LEMMA SysVStep ==
    ASSUME SysVGiven, SysVInv, [SysV!Next]_(SysV!vars)
    PROVE  SysVInv'
<1>1. CASE SysV!Next
  <2>0. scene' = scene
    BY <1>1 DEF SysV!Next
  <2>1. CASE SysV!Start \/ SysV!ServerMsgget \/ SysV!ServerEnds
    BY <2>0, <2>1, SysVServerStep
  <2>2. CASE SysV!ServerMsgrcv
    BY <2>0, <2>2, SysVServerMsgrcv
  <2>3. CASE SysV!ServerMsgsnd
    BY <2>0, <2>3, SysVServerMsgsnd
  <2>4. ASSUME NEW c \in Callers, SysV!ClientMsgget(c) \/ SysV!Show(c) \/ SysV!Kill(c) PROVE SysVInv'
    <3>1. server' = server /\ queues' = queues
      BY <2>4 DEF SysV!ClientMsgget, SysV!Show, SysV!Kill
    <3>. QED
      BY <2>0, <2>4, <3>1, SysVClientStep
  <2>5. ASSUME NEW c \in Callers, SysV!Ask(c) PROVE SysVInv'
    <3>1. CASE SysV!Go(c, "ask", "end") /\ UNCHANGED queues
      <4>1. server' = server
        BY <2>5 DEF SysV!Ask
      <4>. QED
        BY <2>0, <3>1, <4>1, SysVClientStep
    <3>2. CASE ~(SysV!Go(c, "ask", "end") /\ UNCHANGED queues)
      BY <2>0, <2>5, <3>2, SysVAsk
    <3>. QED
      BY <3>1, <3>2
  <2>6. ASSUME NEW c \in Callers, SysV!ClientMsgrcv(c) PROVE SysVInv'
    <3>1. CASE ~SysV!There(c) /\ SysV!Go(c, "wait", "end") /\ UNCHANGED queues
      BY <2>0, <2>6, <3>1, SysVClientStep DEF SysV!ClientMsgrcv
    <3>2. CASE ~(~SysV!There(c) /\ SysV!Go(c, "wait", "end") /\ UNCHANGED queues)
      BY <2>0, <2>6, <3>2, SysVClientMsgrcv DEF SysV!ClientMsgrcv
    <3>. QED
      BY <3>1, <3>2
  <2>. QED
    BY <1>1, <2>1, <2>2, <2>3, <2>4, <2>5, <2>6 DEF SysV!Next, SysV!Serve, Callers
<1>2. CASE UNCHANGED SysV!vars
  <2>1. UNCHANGED <<server, client, queues, scene>>
    BY <1>2 DEF SysV!vars, SysV!moving
  <2>2. SysVTyped' /\ SysVApart'
    BY <2>1 DEF SysVInv, SysVTyped, SysVServerOK, SysVClientOK, SysVApart
  <2>3. ASSUME NEW c \in Callers PROVE SysVFlight(c)'
    BY <2>1, SysVFlightStays DEF SysVInv, SysVAtHand, SysV!There, Stained
  <2>. QED
    BY <2>2, <2>3 DEF SysVInv
<1>. QED
  BY <1>1, <1>2

LEMMA SysVRight ==
    ASSUME SysVGiven, SysVInv
    PROVE  SysV!OwnAnswer
<1>1. SysV!TypeOK
  <2>1. scene \in SysV!SceneType /\ server \in SysVServer /\ client \in [Callers -> SysVClient]
        /\ queues.key \in 0..Lives /\ queues.orders \in Seq(SysVOrder)
    BY DEF SysVInv, SysVTyped, SysVServerOK, SysVClientOK, SysVQueue
  <2>2. \A i \in SysV!Pids : queues.results[i] \in Seq(SysVOrder)
    BY DEF SysVInv, SysVTyped, SysVQueue
  <2>. QED
    BY <2>1, <2>2 DEF SysV!TypeOK, SysVOrder, SysVServer, SysVClient, Callers
<1>2. ASSUME NEW c \in Callers, client[c].at = "show"
      PROVE  client[c].got = SysV!Order(c) \/ \E d \in scene.mortal \ {c} : Pid[d] = Pid[c]
  <2>1. CASE Stained(Pid[c])
    BY <1>2, <2>1 DEF Stained
  <2>2. CASE ~Stained(Pid[c])
    BY <1>2, <2>2 DEF SysVInv, SysVFlight, SysVWaits
  <2>. QED
    BY <2>1, <2>2
<1>. QED
  BY <1>1, <1>2 DEF SysV!OwnAnswer, SysV!Client, Callers
=============================================================================
