-------------------------- MODULE MessageCopyProofs --------------------------
(***************************************************************************)
(* Proofs about MessageCopy, for any clients, files and scenes: types, the *)
(* place of every block of a lone client, and that with prompt partners    *)
(* nobody hears himself.                                                   *)
(***************************************************************************)
EXTENDS MessageCopy, FiniteSetTheorems, SequenceTheorems, TLAPS

Requests == [type : Commands, from : Clients, n : Nat]
Replies == [type : Answers, from : {Server}, n : {0}]
Messages == Requests \cup Replies
Data == Procs \X Nat
ServerStates == [at : {"off", "rcv", "answer"}, starts : Nat, resp : Answers,
                 fd : Files \cup {"garbage", "bad"}, off : Nat]
ClientStates == [at : {"new", "nam", "namrsp", "len", "lenrsp", "blk", "done", "failed"},
                 q : Nat, sent : Nat]
WaitsForAnswer == {"namrsp", "lenrsp"}

\* The queue and those who wait for it.
Mail ==
    /\ queue \in Seq(Messages) /\ waiting \in Seq(Procs)
    /\ inbox \in [Procs -> Messages \cup {Nothing}]
    /\ Bytes <= Capacity
    /\ waiting # <<>> => queue = <<>>
    /\ IsInjective(waiting)
    /\ \A p \in Procs : Asleep(p) => inbox[p] = Nothing

\* The programs, and who of them may wait or have got a message.
Client(c) ==
    /\ cli[c].sent <= scene.blocks[c] /\ cli[c].q <= srv.starts
    /\ Running(c) => cli[c].q # 0
    /\ Asleep(c) => cli[c].q = qid
    /\ cli[c].at \notin WaitsForAnswer => inbox[c] = Nothing /\ ~Asleep(c)
    /\ cli[c].at \in {"new", "nam", "len"} \cup WaitsForAnswer => cli[c].sent = 0
    /\ cli[c].at # "new" => c \in scene.run
Programs ==
    /\ srv \in ServerStates /\ cli \in [Clients -> ClientStates]
    /\ scene \in Scenes /\ scene \in SceneType
    /\ qid \in 0..srv.starts /\ srv.starts <= scene.starts
    /\ srv.at # "off" => qid # 0
    /\ srv.at # "rcv" => inbox[Server] = Nothing /\ ~Asleep(Server)
    /\ \A c \in Clients : Client(c)

Disks ==
    /\ disk \in [DOMAIN disk -> Seq(Data)]
    /\ scene.existing \subseteq DOMAIN disk /\ DOMAIN disk \subseteq Files

Base == Mail /\ Programs /\ Disks
-----------------------------------------------------------------------------
(* A lone client. *)

Live == srv.at # "off" /\ srv.fd \in Files
NoMail == queue = <<>> /\ inbox[Server] = Nothing /\ srv.at # "answer"

\* Before the blocks one message at most is under way, and NAM is never
\* under way with another one.
OneMessage(c) ==
    /\ cli[c].at \in {"new", "nam", "len"} => NoMail
    /\ cli[c].at \in WaitsForAnswer =>
         /\ inbox[c] # Nothing => NoMail
         /\ Len(queue) <= 1
         /\ queue # <<>> => inbox[Server] = Nothing /\ srv.at # "answer"
         /\ \A i \in DOMAIN queue : queue[i].type # "BLK"
         /\ inbox[Server].type # "BLK"
    /\ cli[c].at \in {"new", "nam", "len"} \cup WaitsForAnswer /\ Live => srv.off = 0
NameFirst(c) ==
    /\ \A i \in DOMAIN queue : queue[i].type = "NAM" =>
         /\ Len(queue) = 1 /\ inbox[Server] = Nothing /\ srv.at # "answer"
         /\ cli[c].at \in {"namrsp", "failed"}
    /\ inbox[Server].type = "NAM" => queue = <<>> /\ cli[c].at \in {"namrsp", "failed"}

\* While the server has the file open, the blocks under way are the next ones.
AtServer == IF inbox[Server].type = "BLK" THEN 1 ELSE 0
NextBlocks(c) ==
    /\ srv.fd = scene.dest[c] /\ srv.fd \in DOMAIN disk
    /\ inbox[Server].type = "BLK" => inbox[Server].n = srv.off + 1
    /\ \A i \in DOMAIN queue : queue[i].type = "BLK" => queue[i].n = srv.off + AtServer + i
    /\ \A i, j \in DOMAIN queue : queue[i].type = "BLK" /\ j < i => queue[j].type = "BLK"
    /\ cli[c].at = "blk" =>
         /\ \A i \in DOMAIN queue : queue[i].type = "BLK"
         /\ inbox[Server].type \in {"BLK", "none"} /\ srv.at = "rcv"
         /\ cli[c].sent = srv.off + AtServer + Len(queue)

Placed(c) ==
    scene.dest[c] \in DOMAIN disk =>
        \A i \in DOMAIN disk[scene.dest[c]] : disk[scene.dest[c]][i] \in {Block(c, i), Zeros}

Ours(c) ==
    /\ \A d \in Clients \ {c} : cli[d].at = "new"
    /\ \A i \in DOMAIN queue : queue[i].type \in Commands => queue[i].from = c
    /\ inbox[Server].type \in Commands => inbox[Server].from = c

LoneInv(c) ==
    /\ Ours(c)
    /\ OneMessage(c) /\ NameFirst(c)
    /\ Live => NextBlocks(c)
    /\ Placed(c)
-----------------------------------------------------------------------------
(* Prompt partners. *)

Tidy == scene.patient /\ scene.prompt /\ scene.faults \subseteq {"sigint"}
Here(c) == Running(c) /\ cli[c].q = qid

\* Where the command of c is, or the answer to it.
Asking(c) ==
    /\ inbox[c] = Nothing /\ srv.at = "rcv"
    /\ inbox[Server].type = IF cli[c].at = "namrsp" THEN "NAM" ELSE "LEN"
    /\ cli[c].at = "lenrsp" => srv.fd \in Files
Answering(c) ==
    /\ inbox[c] = Nothing /\ srv.at = "answer"
    /\ srv.resp = "SUC" => srv.fd \in Files
Answered(c) ==
    /\ inbox[c].type \in Answers /\ inbox[Server] = Nothing /\ srv.at = "rcv"
    /\ inbox[c].type = "SUC" => srv.fd \in Files
Talk(c) ==
    /\ cli[c].at \in WaitsForAnswer => queue = <<>> /\ (Asking(c) \/ Answering(c) \/ Answered(c))
    /\ cli[c].at = "len" => NoMail /\ srv.fd \in Files
    /\ cli[c].at = "blk" =>
         /\ srv.at = "rcv" /\ srv.fd \in Files /\ inbox[Server].type \in {"none", "BLK"}
         /\ \A i \in DOMAIN queue : queue[i].type = "BLK"

OnlyBlocks ==
    /\ \A i \in DOMAIN queue : i < Len(queue) => queue[i].type = "BLK"
    /\ \A i \in DOMAIN queue : queue[i].type \in {"BLK", "BYE"}
    /\ queue # <<>> => srv.at = "rcv" /\ inbox[Server].type \in {"none", "BLK"}
    /\ inbox[Server].type = "BLK" => srv.fd \in Files
    /\ \A i \in DOMAIN queue : queue[i].type = "BLK" => srv.fd \in Files
    /\ inbox[Server].type \in Commands \cup {"none"}
Asked == \E c \in Clients : Here(c) /\ cli[c].at \in WaitsForAnswer /\ inbox[c] = Nothing

OneRuns == \A c, d \in Clients : Running(c) /\ Running(d) => c = d
Talks == \A c \in Clients : Here(c) => Talk(c)
Replied == \A c \in Clients : inbox[c].type \in Answers \cup {"none"}
Expected == srv.at = "answer" \/ inbox[Server].type \in {"NAM", "LEN"} => Asked

TidyInv ==
    /\ srv.at = "off" => qid = 0
    /\ OneRuns /\ Talks
    /\ OnlyBlocks /\ Expected /\ Replied

MessageInv ==
    /\ Base
    /\ \A c \in Clients : Alone(c) /\ ~Fault("disk") => LoneInv(c)
    /\ Tidy => TidyInv
-----------------------------------------------------------------------------
(* The operations of the queue, by whom they wake and what they move. *)

SameSleep(p) == \A q \in Procs \ {p} : Asleep(q)' <=> Asleep(q)
NobodyAsleep == \A q \in Procs : ~Asleep(q) /\ ~Asleep(q)'
Handed(p, m) ==
    /\ Asleep(p) /\ ~Asleep(p)' /\ SameSleep(p)
    /\ queue = <<>> /\ queue' = queue
    /\ inbox[p] = Nothing /\ inbox' = [inbox EXCEPT ![p] = m]
Queued(m) == NobodyAsleep /\ inbox' = inbox /\ queue' = Append(queue, m)
Sends(m) == Queued(m) \/ \E p \in Procs : Handed(p, m)
Taken(p) ==
    /\ NobodyAsleep /\ queue # <<>> /\ queue' = Tail(queue)
    /\ inbox[p] = Nothing /\ inbox' = [inbox EXCEPT ![p] = Head(queue)]
Sleeps(p) ==
    /\ ~Asleep(p) /\ Asleep(p)' /\ SameSleep(p)
    /\ queue = <<>> /\ queue' = queue
    /\ inbox[p] = Nothing /\ inbox' = inbox
Left(p) ==
    /\ ~Asleep(p)' /\ SameSleep(p)
    /\ inbox' = [inbox EXCEPT ![p] = Nothing]

LEMMA Constants ==
    /\ Server \in Procs /\ Server \notin Clients /\ Clients \subseteq Procs
    /\ Procs = Clients \cup {Server}
    /\ Nothing \notin Messages /\ Nothing.type = "none" /\ Capacity \in Nat
    /\ \A m \in Messages : m.type \in Commands \cup Answers
    /\ \A m \in Requests : m.from \in Clients /\ m.type \in Commands
  BY MessageAssumption DEF Procs, Nothing, Messages, Requests, Replies, Commands, Answers, Msg

LEMMA SizeNat == ASSUME NEW m PROVE Size(m) \in Nat
  <1>1. CASE m.type \in Large
    BY <1>1 DEF Size, Large
  <1>2. CASE m.type = "BLK"
    BY <1>2 DEF Size, Large
  <1>3. CASE m.type \notin Large /\ m.type # "BLK"
    BY <1>3 DEF Size
  <1>. QED
    BY <1>1, <1>2, <1>3

LEMMA PlacesFinite ==
    ASSUME NEW S, queue \in Seq(S), NEW kinds
    PROVE  IsFiniteSet(Places(kinds)) /\ Cardinality(Places(kinds)) \in Nat
<1>1. Places(kinds) \subseteq 1..Len(queue) /\ Len(queue) \in Nat
  BY DEF Places
<1>2. IsFiniteSet(1..Len(queue))
  BY <1>1, FS_Interval
<1>. QED
  BY <1>1, <1>2, FS_Subset, FS_CardinalityType

LEMMA PlacesAppended ==
    ASSUME queue \in Seq(Messages), NEW m \in Messages, queue' = Append(queue, m), NEW kinds
    PROVE  Cardinality(Places(kinds)') =
             Cardinality(Places(kinds)) + (IF m.type \in kinds THEN 1 ELSE 0)
<1>1. CASE m.type \in kinds
  <2>1. Places(kinds)' = Places(kinds) \cup {Len(queue) + 1} /\ Len(queue) + 1 \notin Places(kinds)
    BY <1>1 DEF Places
  <2>. QED
    BY <1>1, <2>1, PlacesFinite, FS_AddElement
<1>2. CASE m.type \notin kinds
  <2>1. Places(kinds)' = Places(kinds)
    BY <1>2 DEF Places
  <2>. QED
    BY <1>2, <2>1, PlacesFinite
<1>. QED
  BY <1>1, <1>2

LEMMA PlacesTail ==
    ASSUME queue \in Seq(Messages), queue # <<>>, queue' = Tail(queue), NEW kinds
    PROVE  Cardinality(Places(kinds)') <= Cardinality(Places(kinds)) /\ Cardinality(Places(kinds)') \in Nat
<1>. DEFINE later == [i \in Places(kinds)' |-> i + 1]
<1>1. queue' \in Seq(Messages) /\ \A i \in DOMAIN queue' : i + 1 \in DOMAIN queue /\ queue'[i] = queue[i + 1]
  OBVIOUS
<1>2. later \in [Places(kinds)' -> Places(kinds)]
  BY <1>1 DEF Places
<1>3. \A i, j \in Places(kinds)' : i + 1 = j + 1 => i = j
  BY <1>1 DEF Places
<1>4. later \in Injection(Places(kinds)', Places(kinds))
  BY <1>2, <1>3 DEF Injection, IsInjective
<1>5. IsFiniteSet(Places(kinds))
  BY PlacesFinite
<1>6. Cardinality(Places(kinds)') <= Cardinality(Places(kinds)) /\ IsFiniteSet(Places(kinds)')
  <2>. HIDE DEF later
  <2>. QED
    BY <1>4, <1>5, FS_Injection
<1>. QED
  BY <1>6, FS_CardinalityType

LEMMA BytesStep ==
    ASSUME queue \in Seq(Messages)
    PROVE  /\ Bytes \in Nat
           /\ \A m \in Messages : queue' = Append(queue, m) => Bytes' = Bytes + Size(m)
           /\ queue # <<>> /\ queue' = Tail(queue) => Bytes' <= Bytes
           /\ queue' = <<>> => Bytes' = 0
<1>1. Bytes \in Nat /\ Cardinality(Places(Large)) \in Nat /\ Cardinality(Places({"BLK"})) \in Nat
  BY PlacesFinite DEF Bytes
<1>2. ASSUME NEW m \in Messages, queue' = Append(queue, m)
      PROVE  Bytes' = Bytes + Size(m)
  <2>1. /\ Cardinality(Places(Large)') = Cardinality(Places(Large)) + (IF m.type \in Large THEN 1 ELSE 0)
        /\ Cardinality(Places({"BLK"})')
             = Cardinality(Places({"BLK"})) + (IF m.type \in {"BLK"} THEN 1 ELSE 0)
    BY <1>2, PlacesAppended
  <2>2. Bytes' = 4 * Cardinality(Places(Large)') + Cardinality(Places({"BLK"})')
    BY DEF Bytes
  <2>3. CASE m.type \in Large
    BY <1>1, <2>1, <2>2, <2>3 DEF Size, Bytes, Large
  <2>4. CASE m.type = "BLK"
    BY <1>1, <2>1, <2>2, <2>4 DEF Size, Bytes, Large
  <2>5. CASE m.type \notin Large /\ m.type # "BLK"
    BY <1>1, <2>1, <2>2, <2>5 DEF Size, Bytes
  <2>. QED
    BY <2>3, <2>4, <2>5
<1>3. ASSUME queue # <<>>, queue' = Tail(queue)
      PROVE  Bytes' <= Bytes
  <2>1. /\ Cardinality(Places(Large)') <= Cardinality(Places(Large)) /\ Cardinality(Places(Large)') \in Nat
        /\ Cardinality(Places({"BLK"})') <= Cardinality(Places({"BLK"}))
        /\ Cardinality(Places({"BLK"})') \in Nat
    BY <1>3, PlacesTail
  <2>2. Bytes' = 4 * Cardinality(Places(Large)') + Cardinality(Places({"BLK"})')
    BY DEF Bytes
  <2>. QED
    BY <1>1, <2>1, <2>2 DEF Bytes
<1>4. ASSUME queue' = <<>>
      PROVE  Bytes' = 0
  <2>1. Places(Large)' = {} /\ Places({"BLK"})' = {}
    BY <1>4 DEF Places
  <2>2. Bytes' = 4 * Cardinality(Places(Large)') + Cardinality(Places({"BLK"})')
    BY DEF Bytes
  <2>3. Cardinality(Places(Large)') = 0 /\ Cardinality(Places({"BLK"})') = 0
    BY <2>1, FS_EmptySet
  <2>. QED
    BY <2>2, <2>3
<1>. QED
  BY <1>1, <1>2, <1>3, <1>4

LEMMA Removed ==
    ASSUME NEW S, NEW s \in Seq(S), NEW i \in DOMAIN s
    PROVE  /\ RemoveAt(s, i) \in Seq(S) /\ Len(RemoveAt(s, i)) = Len(s) - 1
           /\ \A j \in 1..Len(s) - 1 : RemoveAt(s, i)[j] = IF j < i THEN s[j] ELSE s[j + 1]
<1>1. Len(s) \in Nat /\ i \in 1..Len(s)
  OBVIOUS
<1>. DEFINE n == Len(s)
            front == SubSeq(s, 1, i - 1)
            back == SubSeq(s, i + 1, n)
<1>2. front \in Seq(S) /\ Len(front) = i - 1 /\ \A j \in 1..i - 1 : front[j] = s[j]
  <2>1. \A j \in 1..i - 1 : s[j] \in S
    BY <1>1
  <2>2. i - 1 \in Int /\ 1 \in Int
    BY <1>1
  <2>3. /\ SubSeq(s, 1, i - 1) \in Seq(S)
        /\ Len(SubSeq(s, 1, i - 1)) = IF 1 <= i - 1 THEN i - 1 - 1 + 1 ELSE 0
        /\ \A j \in 1..i - 1 - 1 + 1 : SubSeq(s, 1, i - 1)[j] = s[1 + j - 1]
    BY <2>1, <2>2, SubSeqProperties
  <2>. QED
    BY <1>1, <2>3
<1>3. back \in Seq(S) /\ Len(back) = n - i /\ \A j \in 1..n - i : back[j] = s[i + j]
  <2>1. \A j \in i + 1..n : s[j] \in S
    BY <1>1
  <2>2. i + 1 \in Int /\ n \in Int
    BY <1>1
  <2>3. /\ SubSeq(s, i + 1, n) \in Seq(S)
        /\ Len(SubSeq(s, i + 1, n)) = IF i + 1 <= n THEN n - (i + 1) + 1 ELSE 0
        /\ \A j \in 1..n - (i + 1) + 1 : SubSeq(s, i + 1, n)[j] = s[i + 1 + j - 1]
    BY <2>1, <2>2, SubSeqProperties
  <2>. QED
    BY <1>1, <2>3
<1>4. RemoveAt(s, i) = front \o back
  BY DEF RemoveAt
<1>. HIDE DEF front, back, n
<1>5. /\ front \o back \in Seq(S) /\ Len(front \o back) = Len(front) + Len(back)
      /\ \A j \in 1..Len(front) + Len(back) :
            (front \o back)[j] = IF j <= Len(front) THEN front[j] ELSE back[j - Len(front)]
  BY <1>2, <1>3, ConcatProperties
<1>6. n \in Nat /\ i \in 1..n
  BY <1>1 DEF n
<1>7. Len(front \o back) = n - 1
  BY <1>2, <1>3, <1>5, <1>6
<1>8. ASSUME NEW j \in 1..n - 1 PROVE (front \o back)[j] = IF j < i THEN s[j] ELSE s[j + 1]
  <2>1. j \in Nat /\ j \in 1..Len(front) + Len(back)
    BY <1>2, <1>3, <1>6
  <2>2. CASE j < i
    <3>1. j <= Len(front) /\ j \in 1..i - 1
      BY <1>2, <1>6, <2>1, <2>2
    <3>. QED
      BY <1>2, <1>5, <2>1, <2>2, <3>1
  <2>3. CASE j >= i
    <3>0. i \in Int /\ n \in Int /\ j \in Int /\ j <= n - 1 /\ i >= 1 /\ Len(front) = i - 1
      BY <1>2, <1>6, <2>1
    <3>1. ~(j <= Len(front)) /\ j - (i - 1) \in 1..n - i /\ i + (j - (i - 1)) = j + 1 /\ ~(j < i)
      BY <2>3, <3>0
    <3>2. (front \o back)[j] = back[j - (i - 1)]
      BY <1>2, <1>5, <2>1, <3>1
    <3>3. back[j - (i - 1)] = s[i + (j - (i - 1))]
      BY <1>3, <3>1
    <3>. QED
      BY <3>1, <3>2, <3>3
  <2>. QED
    BY <1>6, <2>1, <2>2, <2>3
<1>. QED
  BY <1>4, <1>5, <1>7, <1>8 DEF n

LEMMA SndKind ==
    ASSUME Mail, NEW m \in Messages, msgsnd(m)
    PROVE  Mail' /\ Sends(m)
<1>1. CASE waiting = <<>>
  <2>1. Bytes + Size(m) <= Capacity /\ queue' = Append(queue, m) /\ UNCHANGED <<waiting, inbox>>
    BY <1>1 DEF msgsnd
  <2>2. Queued(m)
    BY <1>1, <2>1 DEF Queued, NobodyAsleep, Asleep, ToSet
  <2>3. Bytes' = Bytes + Size(m)
    BY <2>1, BytesStep DEF Mail
  <2>4. Mail'
    BY <1>1, <2>1, <2>3 DEF Mail, Asleep
  <2>. QED
    BY <2>2, <2>4 DEF Sends
<1>2. CASE waiting # <<>>
  <2>0. PICK p : p = Head(waiting)
    OBVIOUS
  <2>1. /\ inbox' = [inbox EXCEPT ![p] = m] /\ waiting' = Tail(waiting) /\ queue' = queue
        /\ queue = <<>>
    BY <1>2, <2>0 DEF msgsnd, Mail
  <2>2. waiting \in Seq(Procs) /\ p \in Procs /\ p = waiting[1] /\ 1 \in DOMAIN waiting
    BY <1>2, <2>0 DEF Mail
  <2>3. /\ waiting' \in Seq(Procs)
        /\ \A i \in DOMAIN waiting' : i + 1 \in DOMAIN waiting /\ waiting'[i] = waiting[i + 1]
        /\ \A i \in DOMAIN waiting : i # 1 => i - 1 \in DOMAIN waiting' /\ waiting'[i - 1] = waiting[i]
    BY <1>2, <2>1, <2>2
  <2>4. \A i, j \in DOMAIN waiting : waiting[i] = waiting[j] => i = j
    BY DEF Mail, IsInjective
  <2>5. IsInjective(waiting')
    <3>1. \A i, j \in DOMAIN waiting' : waiting'[i] = waiting'[j] => i + 1 = j + 1
      BY <2>3, <2>4
    <3>2. \A i \in DOMAIN waiting' : i \in Nat
      BY <2>3
    <3>3. \A i, j \in DOMAIN waiting' : waiting'[i] = waiting'[j] => i = j
      BY <3>1, <3>2
    <3>. QED
      BY <3>3 DEF IsInjective
  <2>6. Asleep(p) /\ ~Asleep(p)'
    <3>1. ASSUME NEW i \in DOMAIN waiting', waiting'[i] = p PROVE FALSE
      <4>1. i + 1 = 1 /\ i \in Nat /\ i >= 1
        BY <2>2, <2>3, <2>4, <3>1
      <4>. QED
        BY <4>1
    <3>. QED
      BY <2>2, <3>1 DEF Asleep, ToSet
  <2>7. SameSleep(p)
    <3>1. ASSUME NEW q \in Procs \ {p}, Asleep(q) PROVE Asleep(q)'
      <4>1. PICK i \in DOMAIN waiting : waiting[i] = q
        BY <3>1 DEF Asleep, ToSet
      <4>2. i - 1 \in DOMAIN waiting' /\ waiting'[i - 1] = q
        BY <2>2, <2>3, <4>1
      <4>. QED
        BY <4>2 DEF Asleep, ToSet
    <3>2. ASSUME NEW q \in Procs \ {p}, Asleep(q)' PROVE Asleep(q)
      BY <2>3, <3>2 DEF Asleep, ToSet
    <3>. QED
      BY <3>1, <3>2 DEF SameSleep
  <2>8. Handed(p, m)
    BY <2>1, <2>2, <2>6, <2>7 DEF Handed, Mail
  <2>9. \A q \in Procs : Asleep(q)' => inbox'[q] = Nothing
    <3>1. \A q \in Procs : Asleep(q)' => q # p /\ Asleep(q)
      BY <2>6, <2>7 DEF SameSleep
    <3>. QED
      BY <2>1, <2>2, <3>1 DEF Mail
  <2>10. Bytes' = Bytes
    BY <2>1 DEF Bytes, Places
  <2>11. inbox' \in [Procs -> Messages \cup {Nothing}]
    BY <2>1, <2>2 DEF Mail
  <2>. QED
    BY <2>1, <2>2, <2>3, <2>5, <2>8, <2>9, <2>10, <2>11 DEF Mail, Sends
<1>. QED
  BY <1>1, <1>2

LEMMA RcvKind ==
    ASSUME Mail, NEW p \in Procs, msgrcv(p)
    PROVE  Mail' /\ (Taken(p) \/ Sleeps(p)) /\ AboutToReceive(p)
<1>1. inbox[p] = Nothing /\ ~Asleep(p) /\ AboutToReceive(p)
  BY DEF msgrcv, AboutToReceive
<1>2. CASE queue # <<>>
  <2>1. inbox' = [inbox EXCEPT ![p] = Head(queue)] /\ queue' = Tail(queue) /\ waiting' = waiting
    BY <1>2 DEF msgrcv
  <2>2. waiting = <<>> /\ queue \in Seq(Messages)
    BY <1>2 DEF Mail
  <2>3. NobodyAsleep
    BY <2>1, <2>2 DEF NobodyAsleep, Asleep, ToSet
  <2>4. Bytes' <= Bytes /\ Bytes \in Nat /\ Bytes' \in Nat
    <3>1. queue' \in Seq(Messages)
      BY <1>2, <2>1, <2>2
    <3>2. Bytes' \in Nat
      <4>1. Cardinality(Places(Large)') \in Nat /\ Cardinality(Places({"BLK"})') \in Nat
        BY <1>2, <2>1, <2>2, PlacesTail
      <4>. QED
        BY <4>1 DEF Bytes
    <3>. QED
      BY <1>2, <2>1, <2>2, <3>2, BytesStep
  <2>5. Head(queue) \in Messages /\ queue' \in Seq(Messages)
    BY <1>2, <2>1, <2>2
  <2>6. inbox' \in [Procs -> Messages \cup {Nothing}]
    BY <2>1, <2>5 DEF Mail
  <2>7. Bytes' <= Capacity
    BY <2>4, Constants DEF Mail
  <2>8. Mail'
    BY <2>1, <2>2, <2>3, <2>5, <2>6, <2>7 DEF Mail, NobodyAsleep
  <2>. QED
    BY <1>1, <1>2, <2>1, <2>3, <2>8 DEF Taken
<1>3. CASE queue = <<>>
  <2>1. waiting' = Append(waiting, p) /\ UNCHANGED <<queue, inbox>>
    BY <1>3 DEF msgrcv
  <2>2. /\ waiting \in Seq(Procs) /\ waiting' \in Seq(Procs)
        /\ Len(waiting) + 1 \in DOMAIN waiting' /\ waiting'[Len(waiting) + 1] = p
        /\ \A i \in DOMAIN waiting : i \in DOMAIN waiting' /\ waiting'[i] = waiting[i]
        /\ \A i \in DOMAIN waiting' : i \in DOMAIN waiting \/ i = Len(waiting) + 1
    BY <2>1 DEF Mail
  <2>3. \A i \in DOMAIN waiting : waiting[i] # p
    BY <1>1 DEF Asleep, ToSet
  <2>4. IsInjective(waiting')
    BY <2>2, <2>3 DEF Mail, IsInjective
  <2>5. Asleep(p)' /\ SameSleep(p)
    BY <2>2 DEF Asleep, SameSleep, ToSet
  <2>6. Bytes' = Bytes
    BY <2>1 DEF Bytes, Places
  <2>7. \A q \in Procs : Asleep(q)' => inbox'[q] = Nothing
    BY <1>1, <2>1, <2>5 DEF Mail, SameSleep
  <2>. QED
    BY <1>1, <1>3, <2>1, <2>2, <2>4, <2>5, <2>6, <2>7 DEF Mail, Sleeps
<1>. QED
  BY <1>2, <1>3

LEMMA LeavesKind ==
    ASSUME Mail, NEW p \in Procs, Leaves(p), inbox' = [inbox EXCEPT ![p] = Nothing], queue' = queue
    PROVE  Mail' /\ Left(p)
<1>1. Bytes' = Bytes
  BY DEF Bytes, Places
<1>2. inbox' \in [Procs -> Messages \cup {Nothing}] /\ inbox'[p] = Nothing
      /\ \A q \in Procs \ {p} : inbox'[q] = inbox[q]
  BY DEF Mail
<1>3. CASE ~Asleep(p) /\ UNCHANGED waiting
  <2>1. \A q \in Procs : Asleep(q)' <=> Asleep(q)
    BY <1>3 DEF Asleep
  <2>. QED
    BY <1>1, <1>2, <1>3, <2>1 DEF Mail, Left, SameSleep
<1>4. ASSUME NEW i \in DOMAIN waiting, waiting[i] = p, waiting' = RemoveAt(waiting, i)
      PROVE  Mail' /\ Left(p)
  <2>1. waiting \in Seq(Procs) /\ \A k, l \in DOMAIN waiting : waiting[k] = waiting[l] => k = l
    BY DEF Mail, IsInjective
  <2>2. /\ waiting' \in Seq(Procs) /\ Len(waiting') = Len(waiting) - 1
        /\ \A j \in 1..Len(waiting) - 1 : waiting'[j] = IF j < i THEN waiting[j] ELSE waiting[j + 1]
    BY <1>4, <2>1, Removed
  <2>. DEFINE n == Len(waiting)
              old(j) == IF j < i THEN j ELSE j + 1
  <2>3. n \in Nat /\ i \in 1..n /\ DOMAIN waiting = 1..n /\ DOMAIN waiting' = 1..n - 1
    BY <1>4, <2>1, <2>2
  <2>4. \A j \in 1..n - 1 : old(j) \in 1..n /\ old(j) # i /\ waiting'[j] = waiting[old(j)]
    BY <2>2, <2>3
  <2>5. \A j, k \in 1..n - 1 : old(j) = old(k) => j = k
    BY <2>3
  <2>6. \A k \in 1..n : k # i => \E j \in 1..n - 1 : old(j) = k
    <3>1. ASSUME NEW k \in 1..n, k < i PROVE k \in 1..n - 1 /\ old(k) = k
      BY <2>3, <3>1
    <3>2. ASSUME NEW k \in 1..n, k > i PROVE k - 1 \in 1..n - 1 /\ old(k - 1) = k
      BY <2>3, <3>2
    <3>. QED
      BY <2>3, <3>1, <3>2
  <2>. HIDE DEF old, n
  <2>7. IsInjective(waiting')
    BY <2>1, <2>3, <2>4, <2>5 DEF IsInjective
  <2>8. ~Asleep(p)'
    BY <1>4, <2>1, <2>3, <2>4 DEF Asleep, ToSet
  <2>9. SameSleep(p)
    <3>1. ASSUME NEW q \in Procs \ {p}, Asleep(q) PROVE Asleep(q)'
      <4>1. PICK k \in 1..n : waiting[k] = q
        BY <2>3, <3>1 DEF Asleep, ToSet
      <4>2. PICK j \in 1..n - 1 : old(j) = k
        BY <1>4, <2>6, <4>1
      <4>. QED
        BY <2>3, <2>4, <4>1, <4>2 DEF Asleep, ToSet
    <3>2. ASSUME NEW q \in Procs \ {p}, Asleep(q)' PROVE Asleep(q)
      <4>1. PICK j \in 1..n - 1 : waiting'[j] = q
        BY <2>3, <3>2 DEF Asleep, ToSet
      <4>. QED
        BY <2>3, <2>4, <4>1 DEF Asleep, ToSet
    <3>. QED
      BY <3>1, <3>2 DEF SameSleep
  <2>10. queue = <<>>
    BY <2>1, <2>3 DEF Mail
  <2>11. \A q \in Procs : Asleep(q)' => inbox'[q] = Nothing
    BY <1>2, <2>8, <2>9 DEF Mail, SameSleep
  <2>. QED
    BY <1>1, <1>2, <2>2, <2>7, <2>8, <2>9, <2>10, <2>11 DEF Mail, Left
<1>. QED
  BY <1>3, <1>4 DEF Leaves
-----------------------------------------------------------------------------
(* What the steps of the programs do. *)

CliGoes(c, at, q, sent) ==
    /\ \A d \in Clients \ {c} : cli'[d] = cli[d]
    /\ cli' \in [Clients -> ClientStates]
    /\ cli'[c].at = at /\ cli'[c].q = q /\ cli'[c].sent = sent
SrvGoes(at, starts, resp, fd, off) ==
    /\ srv' \in ServerStates
    /\ srv'.at = at /\ srv'.starts = starts /\ srv'.resp = resp /\ srv'.fd = fd /\ srv'.off = off
mail == <<queue, waiting, inbox>>

Starts(c) ==
    /\ cli[c].at = "new" /\ c \in scene.run /\ (scene.patient => ~ \E d \in Clients : Running(d))
    /\ CliGoes(c, IF qid = 0 THEN "failed" ELSE "nam", qid, cli[c].sent)
    /\ UNCHANGED <<mail, qid, srv, disk>>
Requesting(c, m) ==
    \/ /\ cli[c].at = "nam" /\ m.type = "NAM" /\ CliGoes(c, "namrsp", qid, 0) /\ ServerReady
    \/ /\ cli[c].at = "len" /\ m.type = "LEN" /\ CliGoes(c, "lenrsp", qid, 0) /\ ServerReady
    \/ /\ cli[c].at = "blk" /\ m.type = "BLK" /\ m.n = cli[c].sent + 1 /\ m.n <= scene.blocks[c]
       /\ CliGoes(c, "blk", qid, cli[c].sent + 1)
    \/ /\ cli[c].at = "blk" /\ m.type = "BYE" /\ CliGoes(c, "done", qid, cli[c].sent)
SendsCommand(c) ==
    /\ cli[c].q = qid /\ UNCHANGED <<qid, srv, disk>>
    /\ \E m \in Requests : m.from = c /\ Sends(m) /\ Requesting(c, m)
Listens(c) ==
    /\ cli[c].q = qid /\ cli[c].at \in WaitsForAnswer /\ (Taken(c) \/ Sleeps(c))
    /\ UNCHANGED <<qid, srv, cli, disk>>
Checks(c) ==
    /\ inbox[c] # Nothing /\ inbox' = [inbox EXCEPT ![c] = Nothing]
    /\ CliGoes(c, IF inbox[c].type = "ERR" THEN "failed"
                  ELSE IF cli[c].at = "namrsp" THEN "len" ELSE "blk", cli[c].q, cli[c].sent)
    /\ UNCHANGED <<queue, waiting, qid, srv, disk>>
GivesUp(c) ==
    /\ Running(c) /\ cli[c].q # qid /\ inbox[c] = Nothing
    /\ CliGoes(c, "failed", cli[c].q, cli[c].sent)
    /\ UNCHANGED <<mail, qid, srv, disk>>
Dies(c) ==
    /\ Fault("kill") /\ Running(c) /\ Left(c) /\ CliGoes(c, "failed", cli[c].q, cli[c].sent)
    /\ UNCHANGED <<queue, qid, srv, disk>>
ClientKind(c) ==
    Starts(c) \/ SendsCommand(c) \/ Listens(c) \/ Checks(c) \/ GivesUp(c) \/ Dies(c)

ServerStarts ==
    /\ srv.at = "off" /\ srv.starts < scene.starts
    /\ SrvGoes("rcv", srv.starts + 1, srv.resp, "garbage", 0)
    /\ qid' = IF qid = 0 THEN srv.starts + 1 ELSE qid
    /\ UNCHANGED <<mail, cli, disk>>
ServerStops ==
    /\ srv.at # "off" /\ SrvGoes("off", srv.starts, srv.resp, srv.fd, srv.off)
    /\ UNCHANGED <<cli, disk>>
    /\ \/ /\ Fault("sigint") /\ qid' = 0 /\ queue' = <<>> /\ \A p \in Procs : ~Asleep(p)'
          /\ inbox' = [inbox EXCEPT ![Server] = Nothing]
       \/ Fault("crash") /\ Left(Server) /\ UNCHANGED <<qid, queue>>
ServerListens ==
    /\ srv.at = "rcv" /\ (Taken(Server) \/ Sleeps(Server))
    /\ UNCHANGED <<qid, srv, cli, disk>>
Opens(f) ==
    \/ /\ f \in DOMAIN disk \/ Fault("disk")
       /\ SrvGoes("answer", srv.starts, "ERR", "bad", srv.off) /\ UNCHANGED disk
    \/ /\ f \notin DOMAIN disk /\ f \in Files /\ SrvGoes("answer", srv.starts, "SUC", f, 0)
       /\ disk' = [g \in DOMAIN disk \cup {f} |-> IF g = f THEN <<>> ELSE disk[g]]
Resizes(n) ==
    \/ /\ srv.fd \in Files /\ SrvGoes("answer", srv.starts, "SUC", srv.fd, srv.off)
       /\ disk' = [disk EXCEPT ![srv.fd] = Resized(@, n)]
    \/ /\ n = 0 \/ srv.fd \notin Files \/ Fault("disk")
       /\ SrvGoes("answer", srv.starts, "ERR", srv.fd, srv.off) /\ UNCHANGED disk
    \/ /\ srv.fd = "garbage" /\ SrvGoes("answer", srv.starts, "SUC", srv.fd, srv.off)
       /\ UNCHANGED disk
Stores(b) ==
    \/ /\ srv.fd \in Files /\ SrvGoes("rcv", srv.starts, srv.resp, srv.fd, srv.off + 1)
       /\ disk' = [disk EXCEPT ![srv.fd] = Overwritten(@, srv.off + 1, b)]
    \/ /\ srv.fd \notin Files \/ Fault("disk")
       /\ SrvGoes("answer", srv.starts, "ERR", srv.fd, srv.off) /\ UNCHANGED disk
    \/ srv.fd = "garbage" /\ UNCHANGED <<srv, disk>>
Handles(m) ==
    \/ m.type = "NAM" /\ m \in Requests /\ Opens(scene.dest[m.from])
    \/ m.type = "LEN" /\ m \in Requests /\ Resizes(m.n)
    \/ m.type = "BLK" /\ m \in Requests /\ Stores(Block(m.from, m.n))
    \/ m.type = "BYE" /\ SrvGoes("rcv", srv.starts, srv.resp, "bad", srv.off) /\ UNCHANGED disk
    \/ m.type \in Answers /\ UNCHANGED <<srv, disk>>
ServerHandles ==
    /\ srv.at = "rcv" /\ inbox[Server] # Nothing /\ Handles(inbox[Server])
    /\ inbox' = [inbox EXCEPT ![Server] = Nothing]
    /\ UNCHANGED <<qid, queue, waiting, cli>>
ServerAnswers ==
    /\ srv.at = "answer" /\ (scene.prompt => ~ \E c \in Clients : AboutToReceive(c))
    /\ SrvGoes("rcv", srv.starts, srv.resp, srv.fd, srv.off)
    /\ \E m \in Replies : m.type = srv.resp /\ Sends(m)
    /\ UNCHANGED <<qid, cli, disk>>
ServerKind == ServerStarts \/ ServerStops \/ ServerListens \/ ServerHandles \/ ServerAnswers

LEMMA ReplyType == ASSUME NEW r \in Answers
                   PROVE  Msg(r, Server, 0) \in Replies /\ Msg(r, Server, 0).type = r
  BY DEF Replies, Msg, Answers

LEMMA Requested ==
    ASSUME NEW t \in Commands, NEW c \in Clients, NEW n \in Nat
    PROVE  LET m == Msg(t, c, n) IN m \in Requests /\ m.type = t /\ m.from = c /\ m.n = n
  BY DEF Requests, Msg

LEMMA CliAssigned ==
    ASSUME cli \in [Clients -> ClientStates], NEW c \in Clients,
           NEW at \in {"new", "nam", "namrsp", "len", "lenrsp", "blk", "done", "failed"},
           NEW q \in Nat, NEW sent \in Nat
    PROVE  /\ cli' = [cli EXCEPT ![c].at = at, ![c].q = q] => CliGoes(c, at, q, cli[c].sent)
           /\ cli' = [cli EXCEPT ![c].at = at, ![c].sent = sent] => CliGoes(c, at, cli[c].q, sent)
           /\ cli' = [cli EXCEPT ![c].at = at] => CliGoes(c, at, cli[c].q, cli[c].sent)
  BY DEF CliGoes, ClientStates

LEMMA SameMail == ASSUME Mail, UNCHANGED mail PROVE Mail'
<1>1. queue' = queue /\ waiting' = waiting /\ inbox' = inbox
  BY DEF mail
<1>2. Bytes' = Bytes
  BY <1>1 DEF Bytes, Places
<1>. QED
  BY <1>1, <1>2 DEF Mail, Asleep

LEMMA TakesOut ==
    ASSUME Mail, NEW p \in Procs, inbox' = [inbox EXCEPT ![p] = Nothing], UNCHANGED <<queue, waiting>>
    PROVE  Mail'
<1>1. Bytes' = Bytes
  BY DEF Bytes, Places
<1>2. inbox' \in [Procs -> Messages \cup {Nothing}]
  BY DEF Mail
<1>. QED
  BY <1>1, <1>2 DEF Mail, Asleep

LEMMA SendKind ==
    ASSUME Base, NEW c \in Clients, NEW t \in Commands, NEW n \in Nat, NEW to, NEW sent \in Nat,
           to \in {"namrsp", "lenrsp", "blk", "done"}, Send(c, Msg(t, c, n), to, sent)
    PROVE  /\ Mail' /\ cli[c].q = qid /\ UNCHANGED <<qid, srv, disk>>
           /\ CliGoes(c, to, qid, sent)
           /\ \E m \in Requests : m.from = c /\ m.type = t /\ m.n = n /\ Sends(m)
<1>1. Msg(t, c, n) \in Messages
  BY Requested DEF Messages
<1>2. Mail' /\ Sends(Msg(t, c, n))
  BY <1>1, SndKind DEF Base, Send
<1>3. CliGoes(c, to, cli[c].q, sent)
  BY CliAssigned DEF Base, Programs, Send
<1>. QED
  BY <1>2, <1>3, Requested DEF Send

LEMMA ClientKinds ==
    ASSUME Base, NEW c \in Clients, Start(c) \/ ClientStep(c) \/ Kill(c)
    PROVE  Mail' /\ ClientKind(c)
<1>1. /\ Mail /\ cli \in [Clients -> ClientStates] /\ cli[c] \in ClientStates /\ c \in Procs /\ c # Server
      /\ qid \in Nat /\ scene.blocks[c] \in Nat /\ cli[c].sent \in Nat /\ cli[c].q \in Nat
      /\ cli[c].sent + 1 \in Nat
      /\ (cli[c].at \in {"nam", "len"} => cli[c].sent = 0)
  BY Constants DEF Base, Programs, Client, ClientStates, ServerStates, SceneType
<1>2. CASE Start(c)
  BY <1>1, <1>2, CliAssigned, SameMail DEF Start, ClientKind, Starts, mail
<1>3. CASE SendName(c)
  <2>1. Send(c, Msg("NAM", c, 0), "namrsp", 0) /\ cli[c].at = "nam" /\ ServerReady
    BY <1>3 DEF SendName
  <2>2. /\ Mail' /\ cli[c].q = qid /\ UNCHANGED <<qid, srv, disk>>
        /\ CliGoes(c, "namrsp", qid, 0)
        /\ \E m \in Requests : m.from = c /\ m.type = "NAM" /\ m.n = 0 /\ Sends(m)
    BY <2>1, SendKind DEF Commands
  <2>. QED
    BY <2>1, <2>2 DEF ClientKind, SendsCommand, Requesting
<1>4. CASE SendLength(c)
  <2>1. Send(c, Msg("LEN", c, scene.blocks[c]), "lenrsp", 0) /\ cli[c].at = "len" /\ ServerReady
    BY <1>4 DEF SendLength
  <2>2. /\ Mail' /\ cli[c].q = qid /\ UNCHANGED <<qid, srv, disk>>
        /\ CliGoes(c, "lenrsp", qid, 0)
        /\ \E m \in Requests : m.from = c /\ m.type = "LEN" /\ m.n = scene.blocks[c] /\ Sends(m)
    BY <1>1, <2>1, SendKind DEF Commands
  <2>. QED
    BY <2>1, <2>2 DEF ClientKind, SendsCommand, Requesting
<1>5. CASE SendBlock(c)
  <2>. DEFINE n == cli[c].sent + 1
  <2>1. Send(c, Msg("BLK", c, n), "blk", n) /\ cli[c].at = "blk" /\ n <= scene.blocks[c] /\ n \in Nat
    BY <1>1, <1>5 DEF SendBlock
  <2>. HIDE DEF n
  <2>2. /\ Mail' /\ cli[c].q = qid /\ UNCHANGED <<qid, srv, disk>>
        /\ CliGoes(c, "blk", qid, n)
        /\ \E m \in Requests : m.from = c /\ m.type = "BLK" /\ m.n = n /\ Sends(m)
    BY <2>1, SendKind DEF Commands
  <2>. QED
    BY <2>1, <2>2 DEF ClientKind, SendsCommand, Requesting, n
<1>6. CASE SendBye(c)
  <2>1. Send(c, Msg("BYE", c, 0), "done", cli[c].sent) /\ cli[c].at = "blk"
    BY <1>6 DEF SendBye
  <2>2. /\ Mail' /\ cli[c].q = qid /\ UNCHANGED <<qid, srv, disk>>
        /\ CliGoes(c, "done", qid, cli[c].sent)
        /\ \E m \in Requests : m.from = c /\ m.type = "BYE" /\ m.n = 0 /\ Sends(m)
    BY <1>1, <2>1, SendKind DEF Commands
  <2>. QED
    BY <2>1, <2>2 DEF ClientKind, SendsCommand, Requesting
<1>7. CASE ReceiveResponse(c)
  <2>1. Mail' /\ (Taken(c) \/ Sleeps(c)) /\ AboutToReceive(c)
    BY <1>1, <1>7, RcvKind DEF ReceiveResponse
  <2>. QED
    BY <1>1, <1>7, <2>1 DEF ReceiveResponse, AboutToReceive, ClientKind, Listens, WaitsForAnswer
<1>8. CASE CheckResponse(c)
  <2>. DEFINE to == IF inbox[c].type = "ERR" THEN "failed" ELSE IF cli[c].at = "namrsp" THEN "len" ELSE "blk"
  <2>1. cli' = [cli EXCEPT ![c].at = to]
    BY <1>8 DEF CheckResponse
  <2>2. to \in {"failed", "len", "blk"}
    OBVIOUS
  <2>. HIDE DEF to
  <2>3. CliGoes(c, to, cli[c].q, cli[c].sent)
    BY <1>1, <2>1, <2>2, CliAssigned
  <2>4. Mail'
    BY <1>1, <1>8, TakesOut DEF CheckResponse
  <2>. QED
    BY <1>8, <2>3, <2>4 DEF CheckResponse, ClientKind, Checks, to
<1>9. CASE QueueGone(c)
  BY <1>1, <1>9, CliAssigned, SameMail DEF QueueGone, ClientKind, GivesUp, mail
<1>10. CASE Kill(c)
  <2>1. Mail' /\ Left(c)
    BY <1>1, <1>10, LeavesKind DEF Kill
  <2>. QED
    BY <1>1, <1>10, <2>1, CliAssigned DEF Kill, ClientKind, Dies
<1>. QED
  BY <1>2, <1>3, <1>4, <1>5, <1>6, <1>7, <1>8, <1>9, <1>10 DEF ClientStep

LEMMA HandleKind ==
    ASSUME Base, Handle
    PROVE  ServerHandles
<1>1. /\ srv \in ServerStates /\ Server \in Procs /\ Mail
      /\ inbox[Server] # Nothing /\ inbox[Server] \in Messages /\ srv.at = "rcv"
      /\ inbox' = [inbox EXCEPT ![Server] = Nothing] /\ UNCHANGED <<qid, queue, waiting, cli>>
      /\ scene.dest \in [Clients -> Files]
  BY Constants DEF Base, Programs, Mail, Handle, SceneType
<1>2. PICK m \in Messages : m = inbox[Server]
  BY <1>1
<1>3. m.type \in Commands => m \in Requests /\ m.from \in Clients /\ scene.dest[m.from] \in Files
  BY <1>1, <1>2 DEF Messages, Requests, Replies, Commands, Answers
<1>4. CASE m.type = "NAM" /\ HandleName(scene.dest[m.from])
  <2>1. PICK f \in Files : f = scene.dest[m.from]
    BY <1>3, <1>4 DEF Commands
  <2>2. Opens(f)
    <3>1. CASE /\ f \in DOMAIN disk \/ Fault("disk")
               /\ ThenAnswer("ERR", [srv EXCEPT !.fd = "bad"]) /\ UNCHANGED disk
      <4>1. srv' = [[srv EXCEPT !.fd = "bad"] EXCEPT !.at = "answer", !.resp = "ERR"] /\ UNCHANGED disk
        BY <3>1 DEF ThenAnswer
      <4>2. SrvGoes("answer", srv.starts, "ERR", "bad", srv.off)
        BY <1>1, <4>1 DEF SrvGoes, ServerStates, Answers
      <4>. QED
        BY <3>1, <4>1, <4>2 DEF Opens
    <3>2. CASE /\ f \notin DOMAIN disk /\ ThenAnswer("SUC", [srv EXCEPT !.fd = f, !.off = 0])
               /\ disk' = [g \in DOMAIN disk \cup {f} |-> IF g = f THEN <<>> ELSE disk[g]]
      <4>1. /\ srv' = [[srv EXCEPT !.fd = f, !.off = 0] EXCEPT !.at = "answer", !.resp = "SUC"]
            /\ disk' = [g \in DOMAIN disk \cup {f} |-> IF g = f THEN <<>> ELSE disk[g]]
        BY <3>2 DEF ThenAnswer
      <4>2. SrvGoes("answer", srv.starts, "SUC", f, 0)
        BY <1>1, <4>1 DEF SrvGoes, ServerStates, Answers
      <4>. QED
        BY <2>1, <3>2, <4>1, <4>2 DEF Opens
    <3>. QED
      BY <1>4, <2>1, <3>1, <3>2 DEF HandleName
  <2>. QED
    BY <1>1, <1>2, <1>3, <1>4, <2>1, <2>2 DEF ServerHandles, Handles, Commands
<1>5. CASE m.type = "LEN" /\ HandleLength(m.n)
  <2>1. Resizes(m.n)
    BY <1>1, <1>5 DEF HandleLength, ThenAnswer, Resizes, SrvGoes, ServerStates, Answers
  <2>. QED
    BY <1>1, <1>2, <1>3, <1>5, <2>1 DEF ServerHandles, Handles, Commands
<1>6. CASE m.type = "BLK" /\ HandleBlock(Block(m.from, m.n))
  <2>1. PICK b : b = Block(m.from, m.n)
    OBVIOUS
  <2>2. HandleBlock(b)
    BY <1>6, <2>1
  <2>3. srv.off + 1 \in Nat
    BY <1>1 DEF ServerStates
  <2>4. ASSUME srv' = [srv EXCEPT !.off = @ + 1] PROVE SrvGoes("rcv", srv.starts, srv.resp, srv.fd, srv.off + 1)
    BY <1>1, <2>3, <2>4 DEF SrvGoes, ServerStates
  <2>5. ASSUME ThenAnswer("ERR", srv) PROVE SrvGoes("answer", srv.starts, "ERR", srv.fd, srv.off)
    BY <1>1, <2>5 DEF ThenAnswer, SrvGoes, ServerStates, Answers
  <2>6. Stores(b)
    BY <2>2, <2>4, <2>5 DEF HandleBlock, Stores
  <2>. QED
    BY <1>1, <1>2, <1>3, <1>6, <2>1, <2>6 DEF ServerHandles, Handles, Commands
<1>7. CASE m.type = "BYE" /\ srv' = [srv EXCEPT !.fd = "bad"] /\ UNCHANGED disk
  <2>1. SrvGoes("rcv", srv.starts, srv.resp, "bad", srv.off)
    BY <1>1, <1>7 DEF SrvGoes, ServerStates
  <2>. QED
    BY <1>1, <1>2, <1>7, <2>1 DEF ServerHandles, Handles
<1>8. CASE m.type \in Answers /\ UNCHANGED <<srv, disk>>
  BY <1>1, <1>2, <1>8 DEF ServerHandles, Handles
<1>. QED
  BY <1>2, <1>4, <1>5, <1>6, <1>7, <1>8 DEF Handle

LEMMA ServerKinds ==
    ASSUME Base, StartServer \/ Sigint \/ Crash \/ ServerStep
    PROVE  Mail' /\ ServerKind
<1>1. srv \in ServerStates /\ Server \in Procs /\ Mail /\ srv.starts + 1 \in Nat
  BY Constants DEF Base, Programs, ServerStates
<1>2. CASE StartServer
  <2>1. SrvGoes("rcv", srv.starts + 1, srv.resp, "garbage", 0)
    BY <1>1, <1>2 DEF StartServer, SrvGoes, ServerStates
  <2>2. UNCHANGED mail
    BY <1>2 DEF StartServer, mail
  <2>. QED
    BY <1>1, <1>2, <2>1, <2>2, SameMail DEF StartServer, ServerKind, ServerStarts
<1>3. CASE Sigint
  <2>1. SrvGoes("off", srv.starts, srv.resp, srv.fd, srv.off)
    BY <1>1, <1>3 DEF Sigint, SrvGoes, ServerStates
  <2>2. queue' = <<>> /\ waiting' = <<>> /\ inbox' = [inbox EXCEPT ![Server] = Nothing]
    BY <1>3 DEF Sigint
  <2>3. \A p \in Procs : ~Asleep(p)'
    BY <2>2 DEF Asleep, ToSet
  <2>4. inbox' \in [Procs -> Messages \cup {Nothing}]
    BY <1>1, <2>2 DEF Mail
  <2>5. Bytes' = 0
    BY <1>1, <2>2, BytesStep DEF Mail
  <2>6. Mail'
    <3>1. IsInjective(waiting')
      BY <2>2 DEF IsInjective
    <3>2. Bytes' <= Capacity
      BY <2>5, Constants
    <3>3. queue' \in Seq(Messages) /\ waiting' \in Seq(Procs)
      BY <2>2
    <3>. QED
      BY <2>2, <2>3, <2>4, <3>1, <3>2, <3>3 DEF Mail
  <2>. QED
    BY <1>3, <2>1, <2>2, <2>3, <2>6 DEF Sigint, ServerKind, ServerStops
<1>4. CASE Crash
  <2>1. SrvGoes("off", srv.starts, srv.resp, srv.fd, srv.off)
    BY <1>1, <1>4 DEF Crash, SrvGoes, ServerStates
  <2>2. Mail' /\ Left(Server)
    BY <1>1, <1>4, LeavesKind DEF Crash
  <2>. QED
    BY <1>4, <2>1, <2>2 DEF Crash, ServerKind, ServerStops
<1>5. CASE Receive
  <2>1. Mail' /\ (Taken(Server) \/ Sleeps(Server)) /\ AboutToReceive(Server)
    BY <1>1, <1>5, RcvKind DEF Receive
  <2>. QED
    BY <1>5, <2>1 DEF Receive, AboutToReceive, ServerKind, ServerListens
<1>6. CASE Handle
  <2>1. Mail'
    BY <1>1, <1>6, TakesOut DEF Handle
  <2>. QED
    BY <1>6, <2>1, HandleKind DEF ServerKind
<1>7. CASE Answer
  <2>1. SrvGoes("rcv", srv.starts, srv.resp, srv.fd, srv.off)
    BY <1>1, <1>7 DEF Answer, SrvGoes, ServerStates
  <2>2. Msg(srv.resp, Server, 0) \in Replies /\ Msg(srv.resp, Server, 0).type = srv.resp
    BY <1>1, ReplyType DEF ServerStates
  <2>3. Mail' /\ Sends(Msg(srv.resp, Server, 0))
    BY <1>1, <1>7, <2>2, SndKind DEF Answer, Messages
  <2>. QED
    BY <1>7, <2>1, <2>2, <2>3 DEF Answer, ServerKind, ServerAnswers
<1>. QED
  BY <1>2, <1>3, <1>4, <1>5, <1>6, <1>7 DEF ServerStep

LEMMA Kinds ==
    ASSUME Base, Next
    PROVE  scene' = scene /\ Mail' /\ (ServerKind \/ \E c \in Clients : ClientKind(c))
  BY ClientKinds, ServerKinds DEF Next, Step
-----------------------------------------------------------------------------
(* Types, and who may wait. *)

\* Nobody in S goes to sleep, and who was not asleep gets no message.
Undisturbed(S) ==
    \A p \in S : /\ Asleep(p)' => Asleep(p)
                 /\ Asleep(p) \/ inbox'[p] = inbox[p] \/ inbox'[p] = Nothing

LEMMA Undisturbing ==
    ASSUME Mail
    PROVE  /\ UNCHANGED mail => Undisturbed(Procs)
           /\ \A m \in Messages : Sends(m) => Undisturbed(Procs)
           /\ \A p \in Procs : Taken(p) \/ Sleeps(p) => Undisturbed(Procs \ {p})
           /\ \A p \in Procs : Left(p) => Undisturbed(Procs)
           /\ \A p \in Procs : inbox' = [inbox EXCEPT ![p] = Nothing] /\ waiting' = waiting
                                 => Undisturbed(Procs)
<1>1. inbox \in [Procs -> Messages \cup {Nothing}]
  BY DEF Mail
<1>2. UNCHANGED mail => Undisturbed(Procs)
  BY DEF Undisturbed, Asleep, mail
<1>3. ASSUME NEW m \in Messages, Sends(m) PROVE Undisturbed(Procs)
  BY <1>1, <1>3 DEF Undisturbed, Sends, Queued, Handed, NobodyAsleep, SameSleep
<1>4. ASSUME NEW p \in Procs, Taken(p) \/ Sleeps(p) PROVE Undisturbed(Procs \ {p})
  BY <1>1, <1>4 DEF Undisturbed, Taken, Sleeps, NobodyAsleep, SameSleep
<1>5. ASSUME NEW p \in Procs, Left(p) PROVE Undisturbed(Procs)
  BY <1>1, <1>5 DEF Undisturbed, Left, SameSleep
<1>6. ASSUME NEW p \in Procs, inbox' = [inbox EXCEPT ![p] = Nothing] /\ waiting' = waiting
      PROVE Undisturbed(Procs)
  BY <1>1, <1>6 DEF Undisturbed, Asleep
<1>. QED
  BY <1>2, <1>3, <1>4, <1>5, <1>6

LEMMA ClientPrograms ==
    ASSUME Base, Mail', NEW c \in Clients, ClientKind(c), scene' = scene
    PROVE  Programs' /\ UNCHANGED <<qid, srv, disk>>
<1>1. /\ Mail /\ cli \in [Clients -> ClientStates] /\ cli[c] \in ClientStates /\ c \in Procs /\ c # Server
      /\ qid \in Nat /\ scene.blocks[c] \in Nat /\ cli[c].sent \in Nat /\ cli[c].q \in Nat
      /\ srv.starts \in Nat /\ qid <= srv.starts /\ Client(c)
      /\ Messages = Requests \cup Replies
  BY Constants DEF Base, Programs, ClientStates, ServerStates, SceneType, Messages
<1>2. UNCHANGED <<qid, srv, disk>>
  BY DEF ClientKind, Starts, SendsCommand, Listens, Checks, GivesUp, Dies
<1>3. Undisturbed(Procs \ {c})
  <2>1. CASE SendsCommand(c)
    <3>1. PICK m \in Messages : Sends(m)
      BY <1>1, <2>1 DEF SendsCommand
    <3>. QED
      BY <1>1, <3>1, Undisturbing DEF Undisturbed
  <2>2. CASE Starts(c) \/ GivesUp(c)
    BY <1>1, <2>2, Undisturbing DEF Starts, GivesUp, Undisturbed
  <2>3. CASE Listens(c)
    BY <1>1, <2>3, Undisturbing DEF Listens
  <2>4. CASE Checks(c)
    BY <1>1, <2>4, Undisturbing DEF Checks, Undisturbed
  <2>5. CASE Dies(c)
    BY <1>1, <2>5, Undisturbing DEF Dies, Undisturbed
  <2>. QED
    BY <2>1, <2>2, <2>3, <2>4, <2>5 DEF ClientKind
<1>4. cli' \in [Clients -> ClientStates] /\ \A d \in Clients \ {c} : cli'[d] = cli[d]
  BY <1>1 DEF ClientKind, Starts, SendsCommand, Requesting, Listens, Checks, GivesUp, Dies, CliGoes
<1>5. \A d \in Clients \ {c} : Client(d)'
  <2>1. ASSUME NEW d \in Clients \ {c} PROVE Client(d)'
    <3>1. Client(d) /\ d \in Procs \ {c} /\ cli'[d] = cli[d]
      BY <1>4, Constants DEF Base, Programs
    <3>. QED
      BY <1>2, <1>3, <3>1 DEF Client, Running, Ended, Undisturbed
  <2>. QED
    BY <2>1
<1>6. srv'.at # "rcv" => inbox'[Server] = Nothing /\ ~Asleep(Server)'
  BY <1>1, <1>2, <1>3, Constants DEF Base, Programs, Undisturbed
<1>7. Client(c)'
  <2>1. CASE Starts(c)
    <3>1. /\ cli'[c].at \in {"failed", "nam"} /\ cli'[c].q = qid /\ cli'[c].sent = cli[c].sent
          /\ (cli'[c].at = "nam" => qid # 0) /\ c \in scene.run /\ cli[c].at = "new"
          /\ inbox' = inbox /\ (Asleep(c)' <=> Asleep(c))
      BY <2>1 DEF Starts, CliGoes, mail, Asleep
    <3>. QED
      BY <1>1, <1>2, <3>1 DEF Client, Running, Ended, WaitsForAnswer
  <2>2. CASE SendsCommand(c)
    <3>1. /\ cli[c].at \in {"nam", "len", "blk"} /\ cli[c].q = qid /\ cli'[c].q = qid
          /\ cli'[c].at \in {"namrsp", "lenrsp", "blk", "done"} /\ cli'[c].sent <= scene.blocks[c]
          /\ (cli'[c].at \in WaitsForAnswer => cli'[c].sent = 0)
      BY <1>1, <2>2 DEF SendsCommand, Requesting, CliGoes, Client, WaitsForAnswer
    <3>2. PICK m \in Messages : Sends(m)
      BY <1>1, <2>2 DEF SendsCommand
    <3>3. inbox[c] = Nothing /\ ~Asleep(c)
      BY <1>1, <3>1 DEF Client, WaitsForAnswer
    <3>4. inbox'[c] = Nothing /\ ~Asleep(c)'
      BY <1>1, <3>2, <3>3, Undisturbing DEF Undisturbed
    <3>. QED
      BY <1>1, <1>2, <3>1, <3>4 DEF Client, Running, Ended, WaitsForAnswer
  <2>3. CASE Listens(c)
    BY <1>1, <1>2, <2>3 DEF Listens, Client, Running, Ended, WaitsForAnswer
  <2>4. CASE Checks(c)
    <3>1. cli[c].at \in WaitsForAnswer /\ ~Asleep(c)
      BY <1>1, <2>4 DEF Checks, Client, Mail
    <3>2. /\ cli'[c].at \in {"failed", "len", "blk"} /\ cli'[c].q = cli[c].q /\ cli'[c].sent = cli[c].sent
          /\ inbox'[c] = Nothing /\ ~Asleep(c)'
      BY <1>1, <2>4, <3>1 DEF Checks, CliGoes, Asleep, Mail
    <3>. QED
      BY <1>1, <1>2, <3>1, <3>2 DEF Client, Running, Ended, WaitsForAnswer
  <2>5. CASE GivesUp(c)
    <3>1. /\ cli'[c].at = "failed" /\ cli'[c].q = cli[c].q /\ cli'[c].sent = cli[c].sent
          /\ inbox'[c] = Nothing /\ (Asleep(c)' <=> Asleep(c)) /\ cli[c].q # qid /\ Running(c)
      BY <1>1, <2>5 DEF GivesUp, CliGoes, Asleep, mail
    <3>. QED
      BY <1>1, <1>2, <3>1 DEF Client, Running, Ended, WaitsForAnswer
  <2>6. CASE Dies(c)
    <3>1. /\ cli'[c].at = "failed" /\ cli'[c].q = cli[c].q /\ cli'[c].sent = cli[c].sent
          /\ inbox'[c] = Nothing /\ ~Asleep(c)' /\ Running(c)
      BY <1>1, <2>6 DEF Dies, Left, CliGoes, Mail
    <3>. QED
      BY <1>1, <1>2, <3>1 DEF Client, Running, Ended, WaitsForAnswer
  <2>. QED
    BY <2>1, <2>2, <2>3, <2>4, <2>5, <2>6 DEF ClientKind
<1>. QED
  BY <1>2, <1>4, <1>5, <1>6, <1>7 DEF Base, Programs

LEMMA ServerPrograms ==
    ASSUME Base, Mail', ServerKind, scene' = scene
    PROVE  Programs' /\ cli' = cli
<1>1. /\ Mail /\ srv \in ServerStates /\ srv.starts \in Nat /\ srv.starts + 1 \in Nat /\ qid \in Nat
      /\ scene.starts \in Nat
      /\ qid <= srv.starts /\ srv.starts <= scene.starts /\ cli \in [Clients -> ClientStates]
      /\ \A c \in Clients : cli[c].q \in Nat /\ Client(c) /\ c \in Procs \ {Server}
      /\ Messages = Requests \cup Replies
  BY Constants DEF Base, Programs, ServerStates, ClientStates, SceneType, Messages
<1>2. cli' = cli
  BY DEF ServerKind, ServerStarts, ServerStops, ServerListens, ServerHandles, ServerAnswers
<1>3. srv' \in ServerStates
  BY <1>1 DEF ServerKind, ServerStarts, ServerStops, ServerListens, ServerHandles, ServerAnswers,
              Handles, Opens, Resizes, Stores, SrvGoes
<1>4. CASE ServerStarts
  <2>1. /\ srv.at = "off" /\ srv.starts < scene.starts /\ srv'.at = "rcv" /\ srv'.starts = srv.starts + 1
        /\ qid' = IF qid = 0 THEN srv.starts + 1 ELSE qid
        /\ inbox' = inbox /\ \A p \in Procs : Asleep(p)' <=> Asleep(p)
    BY <1>4 DEF ServerStarts, SrvGoes, mail, Asleep
  <2>2. qid' \in 0..srv'.starts /\ srv'.starts <= scene.starts /\ qid' # 0
    BY <1>1, <2>1
  <2>3. ASSUME NEW c \in Clients PROVE Client(c)'
    <3>1. Asleep(c) => Running(c)
      BY <1>1 DEF Client, Running, Ended, WaitsForAnswer
    <3>2. Asleep(c) => qid' = qid
      BY <1>1, <2>1, <3>1 DEF Client
    <3>3. cli[c].q <= srv'.starts
      BY <1>1, <2>1 DEF Client
    <3>4. Asleep(c)' <=> Asleep(c)
      BY <1>1, <2>1
    <3>. QED
      BY <1>1, <1>2, <2>1, <3>2, <3>3, <3>4 DEF Client, Running, Ended
  <2>. QED
    BY <1>2, <1>3, <2>1, <2>2, <2>3 DEF Base, Programs
<1>5. CASE ServerStops
  <2>1. /\ srv'.at = "off" /\ srv'.starts = srv.starts /\ qid' \in {0, qid} /\ srv.at # "off"
        /\ inbox' = [inbox EXCEPT ![Server] = Nothing]
        /\ ~Asleep(Server)' /\ \A p \in Procs : Asleep(p)' => Asleep(p) /\ qid' = qid
    BY <1>5, Constants DEF ServerStops, SrvGoes, Left, SameSleep
  <2>2. inbox'[Server] = Nothing /\ \A c \in Clients : inbox'[c] = inbox[c]
    BY <1>1, <2>1, Constants DEF Mail
  <2>3. ASSUME NEW c \in Clients PROVE Client(c)'
    BY <1>1, <1>2, <2>1, <2>2 DEF Client, Running, Ended
  <2>. QED
    BY <1>1, <1>2, <1>3, <2>1, <2>2, <2>3 DEF Base, Programs
<1>6. CASE ServerListens
  <2>1. srv' = srv /\ qid' = qid /\ Undisturbed(Procs \ {Server}) /\ srv.at = "rcv"
    BY <1>1, <1>6, Undisturbing, Constants DEF ServerListens
  <2>2. ASSUME NEW c \in Clients PROVE Client(c)'
    BY <1>1, <1>2, <2>1 DEF Client, Running, Ended, Undisturbed
  <2>. QED
    BY <1>1, <1>2, <1>3, <2>1, <2>2 DEF Base, Programs
<1>7. CASE ServerHandles
  <2>1. /\ srv'.at \in {"rcv", "answer"} /\ srv'.starts = srv.starts /\ qid' = qid /\ srv.at = "rcv"
        /\ inbox' = [inbox EXCEPT ![Server] = Nothing] /\ waiting' = waiting
        /\ inbox[Server] # Nothing
    BY <1>7 DEF ServerHandles, Handles, Opens, Resizes, Stores, SrvGoes
  <2>2. /\ inbox'[Server] = Nothing /\ ~Asleep(Server)' /\ qid # 0
        /\ \A c \in Clients : inbox'[c] = inbox[c] /\ (Asleep(c)' <=> Asleep(c))
    BY <1>1, <2>1, Constants DEF Base, Programs, Mail, Asleep
  <2>3. ASSUME NEW c \in Clients PROVE Client(c)'
    BY <1>1, <1>2, <2>1, <2>2 DEF Client, Running, Ended
  <2>. QED
    BY <1>1, <1>2, <1>3, <2>1, <2>2, <2>3 DEF Base, Programs
<1>8. CASE ServerAnswers
  <2>1. srv'.at = "rcv" /\ srv'.starts = srv.starts /\ qid' = qid /\ srv.at = "answer" /\ qid # 0
    BY <1>8 DEF ServerAnswers, SrvGoes, Base, Programs
  <2>2. PICK m \in Messages : Sends(m)
    BY <1>1, <1>8 DEF ServerAnswers
  <2>3. Undisturbed(Procs)
    BY <1>1, <2>2, Undisturbing
  <2>4. ASSUME NEW c \in Clients PROVE Client(c)'
    BY <1>1, <1>2, <2>1, <2>3 DEF Client, Running, Ended, Undisturbed
  <2>. QED
    BY <1>1, <1>2, <1>3, <2>1, <2>4 DEF Base, Programs
<1>. QED
  BY <1>2, <1>4, <1>5, <1>6, <1>7, <1>8 DEF ServerKind

LEMMA Written ==
    ASSUME NEW blocks \in Seq(Data), NEW n \in Nat, NEW b \in Data
    PROVE  /\ Resized(blocks, n) \in Seq(Data) /\ Len(Resized(blocks, n)) = n
           /\ \A i \in 1..n :
                 \/ Resized(blocks, n)[i] = Zeros
                 \/ i \in DOMAIN blocks /\ Resized(blocks, n)[i] = blocks[i]
           /\ Overwritten(blocks, n + 1, b) \in Seq(Data)
           /\ \A i \in DOMAIN Overwritten(blocks, n + 1, b) :
                 \/ i = n + 1 /\ Overwritten(blocks, n + 1, b)[i] = b
                 \/ Overwritten(blocks, n + 1, b)[i] = Zeros
                 \/ i \in DOMAIN blocks /\ Overwritten(blocks, n + 1, b)[i] = blocks[i]
<1>1. Zeros \in Data /\ Len(blocks) \in Nat /\ \A i \in 1..Len(blocks) : blocks[i] \in Data
  BY Constants DEF Zeros, Data
<1>2. PICK l \in Nat : l = Len(blocks)
  BY <1>1
<1>3. DOMAIN blocks = 1..l
  BY <1>2
<1>4. PICK r : r = Resized(blocks, n)
  OBVIOUS
<1>5. r = [i \in 1..n |-> IF i <= l THEN blocks[i] ELSE Zeros]
  BY <1>2, <1>4 DEF Resized
<1>6. \A i \in 1..n : r[i] \in Data
  BY <1>1, <1>2, <1>5
<1>7. r \in Seq(Data) /\ Len(r) = n
  BY <1>5, <1>6
<1>8. \A i \in 1..n : r[i] = Zeros \/ (i \in DOMAIN blocks /\ r[i] = blocks[i])
  BY <1>2, <1>3, <1>5
<1>9. PICK top \in Nat : top = IF n + 1 > l THEN n + 1 ELSE l
  OBVIOUS
<1>10. PICK o : o = Overwritten(blocks, n + 1, b)
  OBVIOUS
<1>11. o = [i \in 1..top |-> IF i = n + 1 THEN b ELSE IF i <= l THEN blocks[i] ELSE Zeros]
  BY <1>2, <1>9, <1>10 DEF Overwritten
<1>12. \A i \in 1..top : o[i] \in Data
  BY <1>1, <1>2, <1>11
<1>13. o \in Seq(Data) /\ DOMAIN o = 1..top
  BY <1>11, <1>12
<1>14. \A i \in 1..top : \/ i = n + 1 /\ o[i] = b
                         \/ o[i] = Zeros
                         \/ i \in DOMAIN blocks /\ o[i] = blocks[i]
  BY <1>3, <1>11
<1>. QED
  BY <1>4, <1>7, <1>8, <1>10, <1>13, <1>14

LEMMA ServerDisks ==
    ASSUME Base, ServerKind, scene' = scene
    PROVE  Disks'
<1>1. /\ Disks /\ srv \in ServerStates /\ srv.off \in Nat /\ inbox[Server] \in Messages \cup {Nothing}
  BY Constants DEF Base, Programs, Mail, ServerStates
<1>2. CASE UNCHANGED disk
  BY <1>1, <1>2 DEF Disks
<1>3. CASE ServerHandles /\ ~UNCHANGED disk
  <2>1. PICK m \in Messages : m = inbox[Server] /\ Handles(m)
    BY <1>1, <1>3 DEF ServerHandles
  <2>2. ASSUME NEW f \in Files, Opens(f) PROVE Disks'
    <3>1. disk' = [g \in DOMAIN disk \cup {f} |-> IF g = f THEN <<>> ELSE disk[g]]
      BY <1>3, <2>2 DEF Opens
    <3>2. disk' \in [DOMAIN disk \cup {f} -> Seq(Data)] /\ DOMAIN disk' = DOMAIN disk \cup {f}
      BY <1>1, <3>1 DEF Disks
    <3>. QED
      BY <1>1, <2>2, <3>2 DEF Disks
  <2>3. ASSUME NEW n \in Nat, Resizes(n) PROVE Disks'
    <3>1. disk' = [disk EXCEPT ![srv.fd] = Resized(@, n)]
      BY <1>3, <2>3 DEF Resizes
    <3>2. \A f \in DOMAIN disk : disk[f] \in Seq(Data) /\ Resized(disk[f], n) \in Seq(Data)
      <4>1. Zeros \in Data
        BY Constants DEF Zeros, Data
      <4>. QED
        BY <1>1, <4>1, Written DEF Disks
    <3>3. disk' \in [DOMAIN disk -> Seq(Data)] /\ DOMAIN disk' = DOMAIN disk
      BY <1>1, <3>1, <3>2 DEF Disks
    <3>. QED
      BY <1>1, <2>3, <3>3 DEF Disks
  <2>4. ASSUME NEW b \in Data, Stores(b) PROVE Disks'
    <3>1. disk' = [disk EXCEPT ![srv.fd] = Overwritten(@, srv.off + 1, b)]
      BY <1>3, <2>4 DEF Stores
    <3>2. \A f \in DOMAIN disk : disk[f] \in Seq(Data) /\ Overwritten(disk[f], srv.off + 1, b) \in Seq(Data)
      BY <1>1, Written DEF Disks
    <3>3. disk' \in [DOMAIN disk -> Seq(Data)] /\ DOMAIN disk' = DOMAIN disk
      BY <1>1, <3>1, <3>2 DEF Disks
    <3>. QED
      BY <1>1, <2>4, <3>3 DEF Disks
  <2>5. m \in Requests => m.from \in Clients /\ m.n \in Nat /\ scene.dest[m.from] \in Files
    BY DEF Requests, Base, Programs, SceneType
  <2>6. m \in Requests => Block(m.from, m.n) \in Data
    BY <2>5, Constants DEF Block, Data
  <2>. QED
    BY <1>3, <2>1, <2>2, <2>3, <2>4, <2>5, <2>6 DEF Handles
<1>. QED
  BY <1>2, <1>3 DEF ServerKind, ServerStarts, ServerStops, ServerListens, ServerHandles, ServerAnswers

LEMMA BaseStep ==
    ASSUME Base, Next
    PROVE  /\ Base' /\ scene' = scene
           /\ \/ ServerKind /\ cli' = cli
              \/ UNCHANGED <<qid, srv, disk>> /\ \E c \in Clients : ClientKind(c)
<1>1. scene' = scene /\ Mail' /\ (ServerKind \/ \E c \in Clients : ClientKind(c))
  BY Kinds
<1>2. CASE ServerKind
  BY <1>1, <1>2, ServerPrograms, ServerDisks DEF Base
<1>3. ASSUME NEW c \in Clients, ClientKind(c) PROVE Base' /\ UNCHANGED <<qid, srv, disk>>
  <2>1. Programs' /\ UNCHANGED <<qid, srv, disk>>
    BY <1>1, <1>3, ClientPrograms
  <2>2. Disks'
    BY <1>1, <2>1 DEF Base, Disks
  <2>. QED
    BY <1>1, <2>1, <2>2 DEF Base
<1>. QED
  BY <1>1, <1>2, <1>3
-----------------------------------------------------------------------------
(* The blocks of a lone client. *)

LEMMA QueueLonger ==
    ASSUME queue \in Seq(Messages), NEW m \in Messages, queue' = Append(queue, m)
    PROVE  /\ Len(queue) \in Nat /\ Len(queue') = Len(queue) + 1
           /\ DOMAIN queue = 1..Len(queue) /\ DOMAIN queue' = 1..Len(queue) + 1
           /\ queue'[Len(queue) + 1] = m /\ \A i \in DOMAIN queue : queue'[i] = queue[i]
  OBVIOUS

LEMMA QueueShorter ==
    ASSUME queue \in Seq(Messages), queue # <<>>, queue' = Tail(queue)
    PROVE  /\ Len(queue) \in Nat \ {0} /\ Len(queue') = Len(queue) - 1
           /\ DOMAIN queue = 1..Len(queue) /\ DOMAIN queue' = 1..Len(queue) - 1
           /\ 1 \in DOMAIN queue /\ Head(queue) = queue[1] /\ Head(queue) \in Messages
           /\ \A i \in DOMAIN queue' : i \in Nat /\ i + 1 \in DOMAIN queue /\ queue'[i] = queue[i + 1]
           /\ Len(queue) = 1 => queue' = <<>>
  OBVIOUS

LoneStep(c) ==
    /\ Base /\ Base' /\ scene' = scene /\ Alone(c) /\ ~Fault("disk") /\ LoneInv(c)

LEMMA LoneFacts ==
    ASSUME NEW c \in Clients, LoneStep(c)
    PROVE  /\ queue \in Seq(Messages) /\ inbox \in [Procs -> Messages \cup {Nothing}]
           /\ c \in Procs /\ Server \in Procs /\ c # Server /\ Nothing.type = "none"
           /\ srv \in ServerStates /\ cli[c] \in ClientStates /\ Client(c)
           /\ srv.off \in Nat /\ cli[c].sent \in Nat /\ Len(queue) \in Nat
           /\ \A p \in Procs : Asleep(p) => p \in {c, Server} /\ inbox[p] = Nothing
           /\ Asleep(c) => cli[c].at \in WaitsForAnswer
           /\ inbox[c] # Nothing => cli[c].at \in WaitsForAnswer
           /\ cli[c].at \in {"new", "nam", "len"} \cup WaitsForAnswer => cli[c].sent = 0
           /\ srv.at # "rcv" => inbox[Server] = Nothing /\ ~Asleep(Server)
           /\ "bad" \notin Files /\ "garbage" \notin Files
<1>1. /\ queue \in Seq(Messages) /\ inbox \in [Procs -> Messages \cup {Nothing}]
      /\ srv \in ServerStates /\ cli[c] \in ClientStates /\ Client(c) /\ Len(queue) \in Nat
      /\ srv.at # "rcv" => inbox[Server] = Nothing /\ ~Asleep(Server)
  BY DEF LoneStep, Base, Mail, Programs
<1>2. srv.off \in Nat /\ cli[c].sent \in Nat
  BY <1>1 DEF ServerStates, ClientStates
<1>3. ASSUME NEW p \in Procs, Asleep(p) PROVE p \in {c, Server} /\ inbox[p] = Nothing
  <2>1. ASSUME p \in Clients \ {c} PROVE FALSE
    BY <1>3, <2>1 DEF LoneStep, LoneInv, Ours, Base, Programs, Client, WaitsForAnswer
  <2>. QED
    BY <1>3, <2>1, Constants DEF LoneStep, Base, Mail
<1>. QED
  BY <1>1, <1>2, <1>3, Constants, MessageAssumption DEF Client

LEMMA LoneKind ==
    ASSUME NEW c \in Clients, LoneStep(c), NEW d \in Clients, ClientKind(d)
    PROVE  d = c
<1>1. ASSUME d # c PROVE FALSE
  <2>1. cli[d].at = "new" /\ Client(d) /\ d \notin scene.run
    BY <1>1 DEF LoneStep, LoneInv, Ours, Base, Programs, Alone
  <2>. QED
    BY <2>1 DEF ClientKind, Starts, SendsCommand, Requesting, Listens, Checks, GivesUp, Dies,
                Client, Running, WaitsForAnswer
<1>. QED
  BY <1>1

\* The client's steps move its own state and, when it sends, one message.
LEMMA LoneSends ==
    ASSUME NEW c \in Clients, LoneStep(c), NEW m \in Requests, m.from = c, Sends(m), Requesting(c, m),
           cli[c].q = qid, UNCHANGED <<qid, srv, disk>>
    PROVE  LoneInv(c)'
<1>1. /\ queue \in Seq(Messages) /\ inbox \in [Procs -> Messages \cup {Nothing}]
      /\ c \in Procs /\ Server \in Procs /\ c # Server /\ Nothing.type = "none"
      /\ srv.off \in Nat /\ cli[c].sent \in Nat /\ Len(queue) \in Nat
      /\ cli[c].at \in {"nam", "len", "blk"} /\ inbox[c] = Nothing /\ ~Asleep(c)
      /\ Asleep(Server) => srv.at = "rcv" /\ inbox[Server] = Nothing
      /\ m \in Messages /\ m.type \in Commands /\ m.type # "none"
  BY LoneFacts, Constants DEF Requesting, WaitsForAnswer, Messages, Commands
<1>2. /\ OneMessage(c) /\ NameFirst(c) /\ (Live => NextBlocks(c)) /\ Placed(c) /\ Ours(c)
  BY DEF LoneStep, LoneInv
<1>3. \/ Queued(m)
      \/ Handed(Server, m)
  BY <1>1, LoneFacts DEF Sends, Handed
<1>4. inbox'[c] = Nothing
  BY <1>1, <1>3 DEF Queued, Handed
<1>5. /\ \A d \in Clients \ {c} : cli'[d] = cli[d]
      /\ srv' = srv /\ disk' = disk /\ scene' = scene
  BY DEF Requesting, CliGoes, LoneStep
<1>6. Placed(c)'
  BY <1>2, <1>5 DEF Placed
<1>7. CASE Queued(m)
  <2>1. /\ inbox' = inbox /\ Len(queue') = Len(queue) + 1
        /\ DOMAIN queue = 1..Len(queue) /\ DOMAIN queue' = 1..Len(queue) + 1
        /\ queue'[Len(queue) + 1] = m /\ \A i \in DOMAIN queue : queue'[i] = queue[i]
    BY <1>1, <1>7, QueueLonger DEF Queued
  <2>2. PICK k \in Nat : k = Len(queue)
    BY <1>1
  <2>3. /\ DOMAIN queue = 1..k /\ DOMAIN queue' = 1..k + 1 /\ Len(queue') = k + 1
        /\ queue'[k + 1] = m /\ \A i \in 1..k : queue'[i] = queue[i]
        /\ \A i \in 1..k + 1 : i \in 1..k \/ i = k + 1
    BY <2>1, <2>2
  <2>4. Ours(c)'
    BY <1>1, <1>2, <1>5, <2>1, <2>3 DEF Ours
  <2>5. CASE cli[c].at \in {"nam", "len"}
    <3>1. /\ cli'[c].at \in WaitsForAnswer /\ m.type # "BLK" /\ queue = <<>> /\ inbox[Server] = Nothing
          /\ srv.at # "answer" /\ (m.type = "NAM" => cli'[c].at = "namrsp")
          /\ k = 0 /\ (Live => srv.off = 0)
      BY <1>2, <2>2, <2>5 DEF Requesting, CliGoes, WaitsForAnswer, OneMessage, NoMail
    <3>2. \A i \in DOMAIN queue' : i = 1 /\ queue'[i] = m
      BY <2>3, <3>1
    <3>3. OneMessage(c)'
      BY <1>1, <1>4, <1>5, <2>1, <2>3, <3>1, <3>2 DEF OneMessage, NoMail, Live, WaitsForAnswer
    <3>4. NameFirst(c)'
      BY <1>1, <1>5, <2>1, <2>3, <3>1, <3>2 DEF NameFirst
    <3>5. Live' => NextBlocks(c)'
      BY <1>1, <1>2, <1>5, <2>1, <3>1, <3>2 DEF Live, NextBlocks, WaitsForAnswer
    <3>. QED
      BY <1>6, <2>4, <3>3, <3>4, <3>5 DEF LoneInv
  <2>6. CASE cli[c].at = "blk"
    <3>1. /\ cli'[c].at \in {"blk", "done"} /\ m.type # "NAM"
          /\ cli'[c].at = "blk" => m.type = "BLK" /\ m.n = cli[c].sent + 1 /\ cli'[c].sent = cli[c].sent + 1
          /\ m.type = "BLK" => m.n = cli[c].sent + 1
      BY <2>6 DEF Requesting, CliGoes
    <3>2. \A i \in DOMAIN queue : queue[i].type # "NAM"
      BY <1>2, <2>6 DEF NameFirst
    <3>3. OneMessage(c)'
      BY <3>1 DEF OneMessage, WaitsForAnswer
    <3>4. NameFirst(c)'
      BY <1>2, <2>1, <2>3, <2>6, <3>1, <3>2 DEF NameFirst
    <3>5. ASSUME Live' PROVE NextBlocks(c)'
      <4>1. Live /\ NextBlocks(c)
        BY <1>2, <1>5, <3>5 DEF Live
      <4>2. /\ \A i \in 1..k : queue[i].type = "BLK" /\ queue[i].n = srv.off + AtServer + i
            /\ inbox[Server].type \in {"BLK", "none"} /\ srv.at = "rcv"
            /\ cli[c].sent = srv.off + AtServer + k /\ AtServer \in {0, 1} /\ AtServer' = AtServer
        BY <2>1, <2>2, <2>3, <2>6, <4>1 DEF NextBlocks, AtServer
      <4>3. \A i \in 1..k + 1 : queue'[i].type = "BLK" => queue'[i].n = srv.off + AtServer + i
        <5>1. m.type = "BLK" => m.n = srv.off + AtServer + (k + 1)
          BY <1>1, <3>1, <4>2
        <5>. QED
          BY <2>3, <4>2, <5>1
      <4>4. cli'[c].at = "blk" => cli'[c].sent = srv.off + AtServer + (k + 1)
        BY <1>1, <3>1, <4>2
      <4>5. \A i, j \in 1..k + 1 : queue'[i].type = "BLK" /\ j < i => queue'[j].type = "BLK"
        BY <2>3, <4>2
      <4>6. cli'[c].at = "blk" => \A i \in 1..k + 1 : queue'[i].type = "BLK"
        BY <2>3, <3>1, <4>2
      <4>. QED
        BY <1>5, <2>1, <2>3, <4>1, <4>2, <4>3, <4>4, <4>5, <4>6 DEF NextBlocks
    <3>. QED
      BY <1>6, <2>4, <3>3, <3>4, <3>5 DEF LoneInv
  <2>. QED
    BY <1>1, <2>5, <2>6
<1>8. CASE Handed(Server, m)
  <2>1. /\ inbox[Server] = Nothing /\ inbox'[Server] = m /\ queue = <<>> /\ queue' = queue
        /\ srv.at = "rcv" /\ Len(queue) = 0
    BY <1>1, <1>8 DEF Handed
  <2>2. Ours(c)'
    BY <1>1, <1>2, <1>5, <2>1 DEF Ours
  <2>3. CASE cli[c].at \in {"nam", "len"}
    <3>1. /\ cli'[c].at \in WaitsForAnswer /\ m.type # "BLK"
          /\ (m.type = "NAM" => cli'[c].at = "namrsp") /\ (Live => srv.off = 0)
      BY <1>2, <2>3 DEF Requesting, CliGoes, WaitsForAnswer, OneMessage
    <3>2. OneMessage(c)'
      BY <1>1, <1>4, <1>5, <2>1, <3>1 DEF OneMessage, NoMail, Live, WaitsForAnswer
    <3>3. NameFirst(c)'
      BY <2>1, <3>1 DEF NameFirst
    <3>4. Live' => NextBlocks(c)'
      BY <1>1, <1>2, <1>5, <2>1, <3>1 DEF Live, NextBlocks, WaitsForAnswer
    <3>. QED
      BY <1>6, <2>2, <3>2, <3>3, <3>4 DEF LoneInv
  <2>4. CASE cli[c].at = "blk"
    <3>1. /\ cli'[c].at \in {"blk", "done"} /\ m.type # "NAM"
          /\ cli'[c].at = "blk" => m.type = "BLK" /\ m.n = cli[c].sent + 1 /\ cli'[c].sent = cli[c].sent + 1
          /\ m.type = "BLK" => m.n = cli[c].sent + 1
      BY <2>4 DEF Requesting, CliGoes
    <3>2. OneMessage(c)' /\ NameFirst(c)'
      BY <2>1, <3>1 DEF OneMessage, NameFirst, WaitsForAnswer
    <3>3. ASSUME Live' PROVE NextBlocks(c)'
      <4>1. Live /\ NextBlocks(c)
        BY <1>2, <1>5, <3>3 DEF Live
      <4>2. cli[c].sent = srv.off
        BY <1>1, <2>1, <2>4, <4>1 DEF NextBlocks, AtServer
      <4>3. m.type = "BLK" => m.n = srv.off + 1
        BY <3>1, <4>2
      <4>4. cli'[c].at = "blk" => AtServer' = 1 /\ cli'[c].sent = srv.off + 1 + 0
        BY <1>1, <2>1, <3>1, <4>2 DEF AtServer
      <4>. QED
        BY <1>1, <1>5, <2>1, <3>1, <4>1, <4>3, <4>4 DEF NextBlocks
    <3>. QED
      BY <1>6, <2>2, <3>2, <3>3 DEF LoneInv
  <2>. QED
    BY <1>1, <2>3, <2>4
<1>. QED
  BY <1>3, <1>7, <1>8

LEMMA LoneClient ==
    ASSUME NEW c \in Clients, LoneStep(c), ClientKind(c)
    PROVE  LoneInv(c)'
<1>1. /\ queue \in Seq(Messages) /\ inbox \in [Procs -> Messages \cup {Nothing}]
      /\ c \in Procs /\ Server \in Procs /\ c # Server /\ Nothing.type = "none"
      /\ srv.off \in Nat /\ cli[c].sent \in Nat /\ Len(queue) \in Nat /\ scene' = scene
      /\ inbox[c] # Nothing => cli[c].at \in WaitsForAnswer
      /\ cli[c].at \in {"new", "nam", "len"} \cup WaitsForAnswer => cli[c].sent = 0
  BY LoneFacts DEF LoneStep
<1>2. /\ OneMessage(c) /\ NameFirst(c) /\ (Live => NextBlocks(c)) /\ Placed(c) /\ Ours(c)
  BY DEF LoneStep, LoneInv
<1>3. CASE SendsCommand(c)
  BY <1>3, LoneSends DEF SendsCommand
<1>4. CASE Starts(c)
  <2>1. /\ cli[c].at = "new" /\ cli'[c].at \in {"failed", "nam"}
        /\ inbox' = inbox /\ queue' = queue /\ srv' = srv /\ disk' = disk
        /\ \A d \in Clients \ {c} : cli'[d] = cli[d]
    BY <1>4 DEF Starts, CliGoes, mail
  <2>2. Ours(c)' /\ Placed(c)' /\ OneMessage(c)' /\ NameFirst(c)'
    BY <1>1, <1>2, <2>1 DEF Ours, Placed, OneMessage, NameFirst, NoMail, Live, WaitsForAnswer
  <2>3. Live' => NextBlocks(c)'
    BY <1>1, <1>2, <2>1 DEF Live, NextBlocks, AtServer
  <2>. QED
    BY <2>2, <2>3 DEF LoneInv
<1>5. CASE Listens(c)
  <2>1. cli' = cli /\ srv' = srv /\ disk' = disk /\ cli[c].at \in WaitsForAnswer
        /\ inbox'[Server] = inbox[Server]
    BY <1>1, <1>5 DEF Listens, Taken, Sleeps
  <2>2. CASE Taken(c)
    <3>1. queue # <<>> /\ queue' = Tail(queue)
      BY <2>2 DEF Taken
    <3>2. Len(queue) = 1 /\ queue' = <<>> /\ inbox[Server] = Nothing /\ srv.at # "answer"
      BY <1>1, <1>2, <2>1, <3>1, QueueShorter DEF OneMessage
    <3>3. Ours(c)' /\ Placed(c)' /\ OneMessage(c)' /\ NameFirst(c)'
      BY <1>1, <1>2, <2>1, <3>2 DEF Ours, Placed, OneMessage, NameFirst, NoMail, Live, WaitsForAnswer
    <3>4. Live' => NextBlocks(c)'
      BY <1>1, <1>2, <2>1, <3>2 DEF Live, NextBlocks, AtServer, WaitsForAnswer
    <3>. QED
      BY <3>3, <3>4 DEF LoneInv
  <2>3. CASE Sleeps(c)
    <3>1. queue' = queue /\ inbox' = inbox
      BY <2>3 DEF Sleeps
    <3>2. Ours(c)' /\ Placed(c)' /\ OneMessage(c)' /\ NameFirst(c)'
      BY <1>1, <1>2, <2>1, <3>1 DEF Ours, Placed, OneMessage, NameFirst, NoMail, Live
    <3>3. Live' => NextBlocks(c)'
      BY <1>1, <1>2, <2>1, <3>1 DEF Live, NextBlocks, AtServer
    <3>. QED
      BY <3>2, <3>3 DEF LoneInv
  <2>. QED
    BY <1>5, <2>2, <2>3 DEF Listens
<1>6. CASE Checks(c)
  <2>1. /\ cli[c].at \in WaitsForAnswer /\ NoMail /\ cli[c].sent = 0
    BY <1>1, <1>2, <1>6 DEF Checks, OneMessage
  <2>2. /\ cli'[c].at \in {"failed", "len", "blk"} /\ cli'[c].sent = 0
        /\ cli'[c].at = "blk" => cli[c].at = "lenrsp"
        /\ inbox'[Server] = Nothing /\ queue = <<>> /\ queue' = <<>> /\ srv' = srv /\ disk' = disk
        /\ srv.at # "answer" /\ inbox[Server] = Nothing
        /\ \A d \in Clients \ {c} : cli'[d] = cli[d]
    BY <1>1, <1>6, <2>1 DEF Checks, CliGoes, WaitsForAnswer, NoMail
  <2>3. Ours(c)' /\ Placed(c)' /\ NameFirst(c)'
    BY <1>1, <1>2, <2>2 DEF Ours, Placed, NameFirst
  <2>4. OneMessage(c)'
    BY <1>1, <1>2, <2>1, <2>2 DEF OneMessage, NoMail, Live, WaitsForAnswer
  <2>5. ASSUME Live' PROVE NextBlocks(c)'
    <3>1. Live /\ NextBlocks(c) /\ srv.off = 0
      BY <1>2, <2>1, <2>2, <2>5 DEF Live, OneMessage
    <3>2. srv.at = "rcv" /\ Len(queue') = 0 /\ AtServer' = 0
      <4>1. srv.at \in {"off", "rcv", "answer"}
        BY LoneFacts DEF ServerStates
      <4>. QED
        BY <1>1, <2>2, <3>1, <4>1 DEF Live, AtServer
    <3>. QED
      BY <1>1, <2>2, <3>1, <3>2 DEF NextBlocks
  <2>. QED
    BY <2>3, <2>4, <2>5 DEF LoneInv
<1>7. CASE GivesUp(c) \/ Dies(c)
  <2>1. /\ cli'[c].at = "failed" /\ Running(c) /\ inbox'[Server] = inbox[Server] /\ queue' = queue
        /\ srv' = srv /\ disk' = disk /\ \A d \in Clients \ {c} : cli'[d] = cli[d]
    BY <1>1, <1>7 DEF GivesUp, Dies, Left, CliGoes, mail
  <2>2. Ours(c)' /\ Placed(c)' /\ OneMessage(c)' /\ NameFirst(c)'
    BY <1>1, <1>2, <2>1 DEF Ours, Placed, OneMessage, NameFirst, WaitsForAnswer
  <2>3. Live' => NextBlocks(c)'
    BY <1>1, <1>2, <2>1 DEF Live, NextBlocks, AtServer
  <2>. QED
    BY <2>2, <2>3 DEF LoneInv
<1>. QED
  BY <1>3, <1>4, <1>5, <1>6, <1>7 DEF ClientKind

LEMMA LoneStops ==
    ASSUME NEW c \in Clients, LoneStep(c), ServerStarts \/ ServerStops
    PROVE  LoneInv(c)'
<1>1. /\ inbox \in [Procs -> Messages \cup {Nothing}] /\ c \in Procs /\ Server \in Procs /\ c # Server
      /\ Nothing.type = "none" /\ "garbage" \notin Files /\ "none" \notin Commands
      /\ srv.at # "rcv" => inbox[Server] = Nothing
  BY LoneFacts DEF Commands
<1>2. /\ OneMessage(c) /\ NameFirst(c) /\ Placed(c) /\ Ours(c) /\ scene' = scene
  BY DEF LoneStep, LoneInv
<1>3. /\ cli' = cli /\ disk' = disk /\ inbox'[Server] = Nothing /\ inbox'[c] = inbox[c]
      /\ queue' \in {queue, <<>>} /\ srv'.at # "answer" /\ ~Live'
  <2>1. CASE ServerStarts
    BY <1>1, <2>1 DEF ServerStarts, SrvGoes, mail, Live
  <2>2. CASE ServerStops
    BY <1>1, <2>2 DEF ServerStops, SrvGoes, Left, Live
  <2>. QED
    BY <2>1, <2>2
<1>4. Ours(c)' /\ Placed(c)' /\ NameFirst(c)'
  BY <1>1, <1>2, <1>3 DEF Ours, Placed, NameFirst
<1>5. OneMessage(c)'
  <2>1. queue = <<>> => queue' = <<>>
    BY <1>3
  <2>2. cli[c].at \in WaitsForAnswer => Len(queue') <= 1 /\ \A i \in DOMAIN queue' : queue'[i].type # "BLK"
    BY <1>2, <1>3 DEF OneMessage
  <2>. QED
    BY <1>1, <1>2, <1>3, <2>1, <2>2 DEF OneMessage, NoMail
<1>. QED
  BY <1>3, <1>4, <1>5 DEF LoneInv

LEMMA LoneListens ==
    ASSUME NEW c \in Clients, LoneStep(c), ServerListens
    PROVE  LoneInv(c)'
<1>1. /\ queue \in Seq(Messages) /\ inbox \in [Procs -> Messages \cup {Nothing}]
      /\ c \in Procs /\ Server \in Procs /\ c # Server /\ Nothing.type = "none"
      /\ srv.off \in Nat /\ cli[c].sent \in Nat /\ Len(queue) \in Nat
      /\ \A m \in Messages : m.type # "none"
  BY LoneFacts, Constants DEF Commands, Answers
<1>2. /\ OneMessage(c) /\ NameFirst(c) /\ (Live => NextBlocks(c)) /\ Placed(c) /\ Ours(c) /\ scene' = scene
  BY DEF LoneStep, LoneInv
<1>3. cli' = cli /\ disk' = disk /\ srv' = srv /\ srv.at = "rcv" /\ inbox'[c] = inbox[c]
  BY <1>1 DEF ServerListens, Taken, Sleeps
<1>4. Placed(c)'
  BY <1>2, <1>3 DEF Placed
<1>5. CASE Sleeps(Server)
  <2>1. queue' = queue /\ inbox' = inbox
    BY <1>5 DEF Sleeps
  <2>2. Ours(c)' /\ OneMessage(c)' /\ NameFirst(c)'
    BY <1>1, <1>2, <1>3, <2>1 DEF Ours, OneMessage, NameFirst, NoMail, Live
  <2>3. Live' => NextBlocks(c)'
    BY <1>1, <1>2, <1>3, <2>1 DEF Live, NextBlocks, AtServer
  <2>. QED
    BY <1>4, <2>2, <2>3 DEF LoneInv
<1>6. CASE Taken(Server)
  <2>1. PICK k \in Nat \ {0} : k = Len(queue)
    BY <1>1, <1>6, QueueShorter DEF Taken
  <2>2. PICK m \in Messages : m = Head(queue)
    BY <1>1, <1>6, QueueShorter DEF Taken
  <2>3. /\ queue # <<>> /\ inbox[Server] = Nothing /\ inbox'[Server] = m /\ m = queue[1] /\ m.type # "none"
        /\ Len(queue') = k - 1 /\ DOMAIN queue = 1..k /\ DOMAIN queue' = 1..k - 1
        /\ \A i \in 1..k - 1 : i \in Nat /\ i + 1 \in 1..k /\ queue'[i] = queue[i + 1]
        /\ k = 1 => queue' = <<>>
        /\ 1 \in 1..k
    BY <1>1, <1>6, <2>1, <2>2, QueueShorter DEF Taken
  <2>4. Ours(c)'
    <3>1. \A i \in 1..k : queue[i].type \in Commands => queue[i].from = c
      BY <1>2, <2>3 DEF Ours
    <3>2. \A i \in 1..k - 1 : queue'[i].type \in Commands => queue'[i].from = c
      BY <2>3, <3>1
    <3>3. m.type \in Commands => m.from = c
      BY <2>3, <3>1
    <3>. QED
      BY <1>2, <1>3, <2>3, <3>2, <3>3 DEF Ours
  <2>5. cli[c].at \notin {"new", "nam", "len"} /\ (cli[c].at \in WaitsForAnswer => inbox[c] = Nothing)
    BY <1>2, <2>3 DEF OneMessage, NoMail
  <2>6. OneMessage(c)'
    <3>1. cli[c].at \in WaitsForAnswer => k = 1 /\ m.type # "BLK"
      BY <1>2, <2>1, <2>3 DEF OneMessage
    <3>2. k = 1 => DOMAIN queue' = {} /\ Len(queue') = 0
      BY <2>3
    <3>. QED
      BY <1>2, <1>3, <2>3, <2>5, <3>1, <3>2 DEF OneMessage, NoMail, Live
  <2>7. NameFirst(c)'
    <3>1. \A i \in 1..k - 1 : queue[i + 1].type # "NAM"
      <4>1. \A i \in 1..k : queue[i].type = "NAM" => k = 1
        BY <1>2, <2>1, <2>3 DEF NameFirst
      <4>2. \A i \in 1..k - 1 : k # 1 /\ i + 1 \in 1..k
        BY <2>3
      <4>. QED
        BY <4>1, <4>2
    <3>2. m.type = "NAM" => k = 1 /\ cli[c].at \in {"namrsp", "failed"}
      BY <1>2, <2>1, <2>3 DEF NameFirst
    <3>. QED
      BY <1>3, <2>3, <3>1, <3>2 DEF NameFirst
  <2>8. ASSUME Live' PROVE NextBlocks(c)'
    <3>1. Live /\ NextBlocks(c) /\ AtServer = 0
      BY <1>1, <1>2, <1>3, <2>3, <2>8 DEF Live, AtServer
    <3>2. \A i \in 1..k : queue[i].type = "BLK" => queue[i].n = srv.off + 0 + i
      BY <2>3, <3>1 DEF NextBlocks
    <3>3. \A i, j \in 1..k : queue[i].type = "BLK" /\ j < i => queue[j].type = "BLK"
      BY <2>3, <3>1 DEF NextBlocks
    <3>0. srv.off \in Int /\ k \in Int
      BY <1>1, <2>1
    <3>4. PICK a \in {0, 1} : a = AtServer'
      BY DEF AtServer
    <3>5. m.type = "BLK" => m.n = srv.off + 1 /\ a = 1
      BY <1>1, <2>3, <3>2, <3>4 DEF AtServer
    <3>6. \A i \in 1..k - 1 : queue'[i].type = "BLK" => queue'[i].n = srv.off + a + i
      <4>1. ASSUME NEW i \in 1..k - 1, queue'[i].type = "BLK"
            PROVE  queue'[i].n = srv.off + a + i
        <5>1. i + 1 \in 1..k /\ queue'[i] = queue[i + 1] /\ i \in Nat /\ 1 < i + 1
          BY <2>3
        <5>2. m.type = "BLK"
          BY <2>3, <3>3, <4>1, <5>1
        <5>3. queue'[i].n = srv.off + 0 + (i + 1)
          BY <3>2, <4>1, <5>1
        <5>. QED
          BY <3>0, <3>5, <5>1, <5>2, <5>3
      <4>. QED
        BY <4>1
    <3>7. \A i, j \in 1..k - 1 : queue'[i].type = "BLK" /\ j < i => queue'[j].type = "BLK"
      <4>1. ASSUME NEW i \in 1..k - 1, NEW j \in 1..k - 1, queue'[i].type = "BLK", j < i
            PROVE  queue'[j].type = "BLK"
        <5>1. i + 1 \in 1..k /\ j + 1 \in 1..k /\ j + 1 < i + 1
          BY <4>1, <2>3
        <5>. QED
          BY <2>3, <3>3, <4>1, <5>1
      <4>. QED
        BY <4>1
    <3>8. cli[c].at = "blk" => /\ \A i \in 1..k - 1 : queue'[i].type = "BLK"
                               /\ m.type = "BLK" /\ cli[c].sent = srv.off + a + (k - 1)
      <4>1. cli[c].at = "blk" => (\A i \in 1..k : queue[i].type = "BLK") /\ cli[c].sent = srv.off + 0 + k
        BY <2>1, <2>3, <3>1 DEF NextBlocks
      <4>2. cli[c].at = "blk" => m.type = "BLK" /\ a = 1
        BY <2>3, <3>5, <4>1
      <4>3. cli[c].at = "blk" => cli[c].sent = srv.off + a + (k - 1)
        BY <3>0, <4>1, <4>2
      <4>4. cli[c].at = "blk" => \A i \in 1..k - 1 : queue'[i].type = "BLK"
        BY <2>3, <4>1
      <4>. QED
        BY <4>2, <4>3, <4>4
    <3>9. inbox'[Server].type = "BLK" => inbox'[Server].n = srv'.off + 1
      BY <1>3, <2>3, <3>5
    <3>. QED
      BY <1>2, <1>3, <2>3, <3>1, <3>4, <3>6, <3>7, <3>8, <3>9 DEF NextBlocks
  <2>. QED
    BY <1>4, <2>4, <2>6, <2>7, <2>8 DEF LoneInv
<1>. QED
  BY <1>5, <1>6 DEF ServerListens

LEMMA LoneHandles ==
    ASSUME NEW c \in Clients, LoneStep(c), ServerHandles
    PROVE  LoneInv(c)'
<1>1. /\ queue \in Seq(Messages) /\ inbox \in [Procs -> Messages \cup {Nothing}]
      /\ c \in Procs /\ Server \in Procs /\ c # Server /\ Nothing.type = "none"
      /\ srv.off \in Nat /\ cli[c].sent \in Nat /\ Len(queue) \in Nat /\ "bad" \notin Files
      /\ "garbage" \notin Files
      /\ \A m \in Messages : m.type # "none"
  BY LoneFacts, Constants DEF Commands, Answers
<1>2. /\ OneMessage(c) /\ NameFirst(c) /\ (Live => NextBlocks(c)) /\ Placed(c) /\ Ours(c)
      /\ scene' = scene /\ ~Fault("disk") /\ Disks
  BY DEF LoneStep, LoneInv, Base
<1>3. PICK m \in Messages : m = inbox[Server]
  BY <1>1 DEF ServerHandles
<1>4. /\ srv.at = "rcv" /\ Handles(m) /\ inbox'[Server] = Nothing /\ inbox'[c] = inbox[c]
      /\ cli' = cli /\ queue' = queue
  BY <1>1, <1>3 DEF ServerHandles
<1>5. cli[c].at \notin {"new", "nam", "len"}
  BY <1>1, <1>2, <1>3 DEF OneMessage, NoMail
<1>6. cli[c].at \in WaitsForAnswer => inbox[c] = Nothing /\ queue = <<>> /\ m.type # "BLK"
  BY <1>1, <1>2, <1>3 DEF OneMessage, NoMail
<1>7. \A i \in DOMAIN queue : queue[i].type # "NAM"
  BY <1>1, <1>2, <1>3 DEF NameFirst
<1>8. Ours(c)' /\ NameFirst(c)'
  BY <1>1, <1>2, <1>4, <1>7 DEF Ours, NameFirst, Commands
<1>9. /\ m.type # "NAM" => \/ srv'.fd = "bad"
                           \/ srv'.fd = srv.fd /\ (m.type # "BLK" => srv'.off = srv.off)
      /\ m.type = "NAM" => srv'.fd = "bad" \/ srv'.off = 0
  BY <1>4 DEF Handles, Opens, Resizes, Stores, SrvGoes, Answers
<1>10. OneMessage(c)'
  <2>1. cli[c].at \in {"new", "nam", "len"} \cup WaitsForAnswer /\ Live' => srv'.off = 0
    BY <1>1, <1>2, <1>4, <1>5, <1>6, <1>9 DEF OneMessage, Live
  <2>2. cli[c].at \in WaitsForAnswer => Len(queue') <= 1 /\ queue' = <<>> /\ inbox'[c] = Nothing
    BY <1>2, <1>4, <1>6 DEF OneMessage
  <2>3. cli[c].at \in WaitsForAnswer => \A i \in DOMAIN queue' : queue'[i].type # "BLK"
    BY <1>2, <1>4 DEF OneMessage
  <2>. QED
    BY <1>1, <1>4, <1>5, <2>1, <2>2, <2>3 DEF OneMessage
<1>11. m.type \in Commands => m.from = c
  BY <1>2, <1>3 DEF Ours
<1>12. ASSUME Live', m.type # "NAM"
       PROVE  /\ Live /\ NextBlocks(c) /\ srv'.fd = srv.fd /\ DOMAIN disk' = DOMAIN disk
              /\ m.type # "BLK" => srv'.off = srv.off
              /\ m.type = "BLK" => srv'.off = srv.off + 1 /\ srv'.at = "rcv"
              /\ m.type \notin {"BLK", "none"} => cli[c].at # "blk"
  <2>1. Live /\ NextBlocks(c) /\ srv'.fd = srv.fd /\ (m.type # "BLK" => srv'.off = srv.off)
    BY <1>1, <1>2, <1>4, <1>9, <1>12 DEF Live
  <2>2. DOMAIN disk' = DOMAIN disk /\ (m.type = "BLK" => srv'.off = srv.off + 1 /\ srv'.at = "rcv")
    BY <1>1, <1>2, <1>4, <1>12, <2>1 DEF Handles, Opens, Resizes, Stores, SrvGoes, Live, Answers
  <2>3. m.type \notin {"BLK", "none"} => cli[c].at # "blk"
    BY <1>3, <2>1 DEF NextBlocks
  <2>. QED
    BY <2>1, <2>2, <2>3
<1>13. ASSUME Live' PROVE NextBlocks(c)'
  <2>1. CASE m.type = "NAM"
    <3>1. /\ queue = <<>> /\ cli[c].at # "blk" /\ srv'.fd # "bad" /\ Opens(scene.dest[c])
      BY <1>1, <1>2, <1>3, <1>4, <1>11, <1>13, <2>1 DEF NameFirst, Handles, Live, Commands, Answers
    <3>2. srv'.fd = scene.dest[c] /\ scene.dest[c] \in DOMAIN disk'
      BY <3>1 DEF Opens, SrvGoes
    <3>. QED
      BY <1>1, <1>2, <1>4, <3>1, <3>2 DEF NextBlocks
  <2>2. CASE m.type = "BLK"
    <3>1. /\ AtServer = 1 /\ AtServer' = 0 /\ srv'.off = srv.off + 1 /\ srv'.at = "rcv"
      BY <1>1, <1>3, <1>4, <1>12, <1>13, <2>2 DEF AtServer
    <3>2. \A i \in DOMAIN queue : queue[i].type = "BLK" => queue[i].n = srv'.off + 0 + i
      <4>1. \A i \in DOMAIN queue : i \in Nat
        BY <1>1
      <4>. QED
        BY <1>1, <1>12, <1>13, <2>2, <3>1, <4>1 DEF NextBlocks
    <3>3. cli[c].at = "blk" => cli[c].sent = srv'.off + 0 + Len(queue)
      BY <1>1, <1>12, <1>13, <2>2, <3>1 DEF NextBlocks
    <3>. QED
      BY <1>1, <1>2, <1>4, <1>12, <1>13, <2>2, <3>1, <3>2, <3>3 DEF NextBlocks
  <2>3. CASE m.type \notin {"NAM", "BLK"}
    <3>1. AtServer = 0 /\ AtServer' = 0 /\ cli[c].at # "blk"
      BY <1>1, <1>3, <1>4, <1>12, <1>13, <2>3 DEF AtServer
    <3>. QED
      BY <1>1, <1>2, <1>4, <1>12, <1>13, <2>3, <3>1 DEF NextBlocks
  <2>. QED
    BY <2>1, <2>2, <2>3
<1>14. Placed(c)'
  <2>. DEFINE f == scene.dest[c]
  <2>0. f \in Files /\ scene' = scene
    BY <1>2 DEF LoneStep, Base, Programs, SceneType
  <2>. HIDE DEF f
  <2>1. CASE UNCHANGED disk
    BY <1>2, <2>1 DEF Placed
  <2>2. CASE m.type = "NAM" /\ ~UNCHANGED disk
    <3>1. Opens(f)
      BY <1>4, <1>11, <2>2 DEF Handles, Commands, Answers, f
    <3>2. disk'[f] = <<>>
      BY <2>2, <3>1 DEF Opens
    <3>. QED
      BY <2>0, <3>2 DEF Placed, f
  <2>3. CASE m.type \in {"LEN", "BLK"} /\ ~UNCHANGED disk
    <3>1. srv.fd \in Files /\ Live
      BY <1>4, <2>3 DEF Handles, Resizes, Stores, Answers, Live
    <3>2. srv.fd = f /\ f \in DOMAIN disk /\ disk[f] \in Seq(Data)
      BY <1>2, <3>1 DEF NextBlocks, Disks, f
    <3>3. \A i \in DOMAIN disk[f] : disk[f][i] \in {Block(c, i), Zeros}
      BY <1>2, <3>2 DEF Placed, f
    <3>4. m \in Requests /\ m.from = c /\ m.n \in Nat
      BY <1>4, <1>11, <2>3 DEF Handles, Requests, Commands, Answers
    <3>5. CASE m.type = "LEN"
      <4>1. disk' = [disk EXCEPT ![f] = Resized(@, m.n)]
        BY <1>4, <2>3, <3>2, <3>5 DEF Handles, Resizes, Answers
      <4>2. disk'[f] = Resized(disk[f], m.n)
        BY <3>2, <4>1
      <4>3. Zeros \in Data
        BY Constants DEF Zeros, Data
      <4>4. /\ Resized(disk[f], m.n) \in Seq(Data) /\ Len(Resized(disk[f], m.n)) = m.n
            /\ \A i \in 1..m.n : \/ Resized(disk[f], m.n)[i] = Zeros
                                 \/ i \in DOMAIN disk[f] /\ Resized(disk[f], m.n)[i] = disk[f][i]
        BY <3>2, <3>4, <4>3, Written
      <4>5. \A i \in DOMAIN disk'[f] : disk'[f][i] \in {Block(c, i), Zeros}
        BY <3>3, <4>2, <4>4
      <4>. QED
        BY <2>0, <4>5 DEF Placed, f
    <3>6. CASE m.type = "BLK"
      <4>0. PICK b : b = Block(c, m.n)
        OBVIOUS
      <4>1. disk' = [disk EXCEPT ![f] = Overwritten(@, srv.off + 1, b)]
        BY <1>4, <2>3, <3>2, <3>4, <3>6, <4>0 DEF Handles, Stores, Answers
      <4>2. disk'[f] = Overwritten(disk[f], srv.off + 1, b)
        BY <3>2, <4>1
      <4>3. m.n = srv.off + 1
        BY <1>2, <1>3, <3>1, <3>6 DEF NextBlocks
      <4>4. b \in Data
        BY <1>1, <3>4, <4>0 DEF Block, Data
      <4>5. \A i \in DOMAIN Overwritten(disk[f], srv.off + 1, b) :
               \/ i = srv.off + 1 /\ Overwritten(disk[f], srv.off + 1, b)[i] = b
               \/ Overwritten(disk[f], srv.off + 1, b)[i] = Zeros
               \/ i \in DOMAIN disk[f] /\ Overwritten(disk[f], srv.off + 1, b)[i] = disk[f][i]
        BY <1>1, <3>2, <4>4, Written
      <4>6. \A i \in DOMAIN disk'[f] : disk'[f][i] \in {Block(c, i), Zeros}
        BY <3>3, <4>0, <4>2, <4>3, <4>5
      <4>. QED
        BY <2>0, <4>6 DEF Placed, f
    <3>. QED
      BY <2>3, <3>5, <3>6
  <2>. QED
    BY <1>4, <2>1, <2>2, <2>3 DEF Handles
<1>. QED
  BY <1>8, <1>10, <1>13, <1>14 DEF LoneInv

LEMMA LoneAnswers ==
    ASSUME NEW c \in Clients, LoneStep(c), ServerAnswers
    PROVE  LoneInv(c)'
<1>1. /\ queue \in Seq(Messages) /\ inbox \in [Procs -> Messages \cup {Nothing}]
      /\ c \in Procs /\ Server \in Procs /\ c # Server /\ Nothing.type = "none"
      /\ srv.off \in Nat /\ cli[c].sent \in Nat /\ Len(queue) \in Nat
      /\ \A p \in Procs : Asleep(p) => p \in {c, Server} /\ inbox[p] = Nothing
      /\ inbox[c] # Nothing => cli[c].at \in WaitsForAnswer
      /\ srv.at # "rcv" => inbox[Server] = Nothing /\ ~Asleep(Server)
  BY LoneFacts
<1>2. /\ OneMessage(c) /\ NameFirst(c) /\ (Live => NextBlocks(c)) /\ Placed(c) /\ Ours(c) /\ scene' = scene
  BY DEF LoneStep, LoneInv
<1>3. PICK m \in Replies : Sends(m)
  BY DEF ServerAnswers
<1>4. m \in Messages /\ m.type \notin Commands \cup {"none"}
  BY DEF Messages, Replies, Commands, Answers
<1>5. /\ srv.at = "answer" /\ srv'.at = "rcv" /\ srv'.fd = srv.fd /\ srv'.off = srv.off
      /\ cli' = cli /\ disk' = disk
  BY DEF ServerAnswers, SrvGoes
<1>6. /\ inbox[Server] = Nothing /\ cli[c].at \notin {"new", "nam", "len"}
      /\ (cli[c].at \in WaitsForAnswer => inbox[c] = Nothing /\ queue = <<>>)
      /\ (Live => cli[c].at # "blk") /\ \A i \in DOMAIN queue : queue[i].type # "NAM"
  BY <1>1, <1>2, <1>5 DEF OneMessage, NoMail, NameFirst, NextBlocks
<1>7. Placed(c)'
  BY <1>2, <1>5 DEF Placed
<1>8. CASE Queued(m)
  <2>1. PICK k \in Nat : k = Len(queue)
    BY <1>1
  <2>2. /\ inbox' = inbox /\ DOMAIN queue = 1..k /\ DOMAIN queue' = 1..k + 1 /\ Len(queue') = k + 1
        /\ queue'[k + 1] = m /\ \A i \in 1..k : queue'[i] = queue[i]
        /\ \A i \in 1..k + 1 : i \in 1..k \/ i = k + 1
    BY <1>1, <1>4, <1>8, <2>1, QueueLonger DEF Queued
  <2>3. Ours(c)' /\ NameFirst(c)'
    BY <1>1, <1>2, <1>4, <1>5, <1>6, <2>2 DEF Ours, NameFirst, Commands
  <2>4. OneMessage(c)'
    <3>1. cli[c].at \in WaitsForAnswer => k = 0
      BY <1>6, <2>1
    <3>. QED
      BY <1>1, <1>2, <1>4, <1>5, <1>6, <2>2, <3>1 DEF OneMessage, Commands, Live
  <2>5. ASSUME Live' PROVE NextBlocks(c)'
    <3>1. Live /\ NextBlocks(c) /\ AtServer' = AtServer /\ cli[c].at # "blk"
      BY <1>2, <1>5, <1>6, <2>2, <2>5 DEF Live, AtServer
    <3>2. m.type # "BLK"
      BY <1>4 DEF Commands
    <3>3. \A i \in 1..k + 1 : queue'[i].type = "BLK" => i \in 1..k /\ queue'[i] = queue[i]
      BY <2>2, <3>2
    <3>4. \A i, j \in 1..k + 1 : queue'[i].type = "BLK" /\ j < i => queue'[j].type = "BLK"
      <4>1. ASSUME NEW i \in 1..k + 1, NEW j \in 1..k + 1, queue'[i].type = "BLK", j < i
            PROVE  queue'[j].type = "BLK"
        <5>1. i \in 1..k /\ j \in 1..k /\ queue'[j] = queue[j] /\ queue'[i] = queue[i]
          BY <2>2, <3>3, <4>1
        <5>. QED
          BY <2>2, <3>1, <4>1, <5>1 DEF NextBlocks
      <4>. QED
        BY <4>1
    <3>. QED
      BY <1>2, <1>5, <2>2, <3>1, <3>3, <3>4 DEF NextBlocks
  <2>. QED
    BY <1>7, <2>3, <2>4, <2>5 DEF LoneInv
<1>9. CASE Handed(c, m)
  <2>1. /\ inbox'[Server] = Nothing /\ queue = <<>> /\ queue' = queue /\ inbox'[c] = m
    BY <1>1, <1>6, <1>9 DEF Handed
  <2>2. Ours(c)' /\ NameFirst(c)' /\ OneMessage(c)'
    BY <1>1, <1>2, <1>5, <1>6, <2>1 DEF Ours, NameFirst, OneMessage, NoMail, Commands, Live
  <2>3. Live' => NextBlocks(c)'
    BY <1>1, <1>2, <1>5, <1>6, <2>1 DEF Live, NextBlocks, AtServer
  <2>. QED
    BY <1>7, <2>2, <2>3 DEF LoneInv
<1>. QED
  BY <1>1, <1>3, <1>5, <1>8, <1>9 DEF Sends, Handed

LEMMA LonePreserved ==
    ASSUME Base, Next, NEW c \in Clients, Alone(c), ~Fault("disk"), LoneInv(c)
    PROVE  LoneInv(c)'
<1>1. /\ Base' /\ scene' = scene
      /\ ServerKind \/ \E d \in Clients : ClientKind(d)
  BY BaseStep
<1>2. LoneStep(c)
  BY <1>1 DEF LoneStep
<1>. QED
  BY <1>1, <1>2, LoneKind, LoneClient, LoneStops, LoneListens, LoneHandles, LoneAnswers DEF ServerKind
-----------------------------------------------------------------------------
(* Prompt partners hear each other. *)

TidyStep == Base /\ Base' /\ scene' = scene /\ Tidy /\ TidyInv

LEMMA TidyFacts ==
    ASSUME TidyStep
    PROVE  /\ queue \in Seq(Messages) /\ inbox \in [Procs -> Messages \cup {Nothing}]
           /\ Server \in Procs /\ Server \notin Clients /\ Clients \subseteq Procs
           /\ Procs = Clients \cup {Server} /\ Nothing.type = "none"
           /\ srv \in ServerStates /\ cli \in [Clients -> ClientStates] /\ Len(queue) \in Nat
           /\ \A m \in Messages : m.type \in Commands \cup Answers
           /\ scene.prompt /\ scene.patient /\ ~Fault("disk") /\ ~Fault("crash") /\ ~Fault("kill")
           /\ "bad" \notin Files /\ "garbage" \notin Files
           /\ \A c \in Clients : Client(c) /\ (Asleep(c) => Here(c) /\ cli[c].at \in WaitsForAnswer)
           /\ srv.at # "rcv" => inbox[Server] = Nothing /\ ~Asleep(Server)
           /\ \A p \in Procs : Asleep(p) => inbox[p] = Nothing
<1>1. /\ queue \in Seq(Messages) /\ inbox \in [Procs -> Messages \cup {Nothing}]
      /\ srv \in ServerStates /\ cli \in [Clients -> ClientStates] /\ Len(queue) \in Nat
      /\ \A c \in Clients : Client(c)
      /\ srv.at # "rcv" => inbox[Server] = Nothing /\ ~Asleep(Server)
      /\ \A p \in Procs : Asleep(p) => inbox[p] = Nothing
  BY DEF TidyStep, Base, Mail, Programs
<1>2. \A c \in Clients : Asleep(c) => Here(c) /\ cli[c].at \in WaitsForAnswer
  BY <1>1 DEF Client, Here, Running, Ended, WaitsForAnswer
<1>3. scene.prompt /\ scene.patient /\ ~Fault("disk") /\ ~Fault("crash") /\ ~Fault("kill")
  BY DEF TidyStep, Tidy, Fault
<1>. QED
  BY <1>1, <1>2, <1>3, Constants, MessageAssumption

LEMMA TidySends ==
    ASSUME TidyStep, NEW c \in Clients, NEW m \in Requests, Sends(m), Requesting(c, m),
           cli[c].q = qid, UNCHANGED <<qid, srv, disk>>
    PROVE  TidyInv'
<1>1. /\ OneRuns /\ Talks /\ OnlyBlocks /\ Expected /\ Replied /\ (srv.at = "off" => qid = 0)
  BY DEF TidyStep, TidyInv
<1>2. /\ cli[c].at \in {"nam", "len", "blk"} /\ Here(c) /\ Talk(c) /\ inbox[c] = Nothing
      /\ \A d \in Clients \ {c} : ~Running(d) /\ cli'[d] = cli[d]
      /\ m \in Messages /\ m.type \in Commands
  BY <1>1, TidyFacts, Constants
     DEF Requesting, CliGoes, Here, Running, Ended, OneRuns, Talks, Client, WaitsForAnswer, Messages
<1>3. \/ Queued(m) /\ ~Asleep(Server)
      \/ Handed(Server, m) /\ Asleep(Server) /\ srv.at = "rcv"
  <2>1. \A d \in Clients : ~Asleep(d)
    BY <1>2, TidyFacts DEF Here, WaitsForAnswer
  <2>. QED
    BY <2>1, TidyFacts DEF Sends, Queued, Handed, NobodyAsleep
<1>4. OneRuns' /\ (srv'.at = "off" => qid' = 0)
  BY <1>1, <1>2 DEF OneRuns, Running, Ended
<1>5. \A d \in Clients : inbox'[d] = inbox[d]
  BY <1>3, TidyFacts DEF Queued, Handed
<1>6. Replied'
  BY <1>1, <1>5 DEF Replied
<1>7. \A d \in Clients : Here(d)' => d = c
  BY <1>2 DEF Here, Running, Ended
<1>8. CASE cli[c].at \in {"nam", "len"}
  <2>1. /\ queue = <<>> /\ queue' = <<>> /\ inbox'[Server] = m /\ srv'.at = "rcv" /\ srv' = srv
    <3>1. ServerReady /\ scene.prompt
      BY <1>8, TidyFacts DEF Requesting
    <3>. QED
      BY <1>3, <3>1, TidyFacts DEF ServerReady, Handed
  <2>2. /\ cli'[c].at \in WaitsForAnswer /\ cli'[c].q = qid /\ m.type \in {"NAM", "LEN"}
        /\ m.type = IF cli'[c].at = "namrsp" THEN "NAM" ELSE "LEN"
        /\ cli'[c].at = "lenrsp" => srv.fd \in Files
    BY <1>2, <1>8 DEF Requesting, CliGoes, Talk, WaitsForAnswer
  <2>3. Here(c)' /\ inbox'[c] = Nothing
    BY <1>2, <1>5, <2>2 DEF Here, Running, Ended, WaitsForAnswer
  <2>4. Talk(c)'
    <3>1. Asking(c)'
      BY <2>1, <2>2, <2>3 DEF Asking
    <3>. QED
      BY <2>1, <2>2, <3>1 DEF Talk, WaitsForAnswer
  <2>5. Talks'
    BY <1>7, <2>4 DEF Talks
  <2>6. OnlyBlocks'
    BY <2>1, <2>2 DEF OnlyBlocks, Commands
  <2>7. Expected'
    BY <2>2, <2>3 DEF Expected, Asked
  <2>. QED
    BY <1>4, <1>6, <2>5, <2>6, <2>7 DEF TidyInv
<1>9. CASE cli[c].at = "blk"
  <2>1. /\ srv.at = "rcv" /\ srv.fd \in Files /\ inbox[Server].type \in {"none", "BLK"}
        /\ \A i \in DOMAIN queue : queue[i].type = "BLK"
        /\ srv' = srv
        /\ m.type \in {"BLK", "BYE"} /\ (m.type = "BLK" => cli'[c].at = "blk")
        /\ (m.type = "BYE" => cli'[c].at = "done") /\ cli'[c].at \in {"blk", "done"}
    BY <1>2, <1>9 DEF Talk, Requesting, CliGoes
  <2>2. CASE Queued(m)
    <3>1. PICK k \in Nat : k = Len(queue)
      BY TidyFacts
    <3>2. /\ inbox' = inbox /\ DOMAIN queue = 1..k /\ DOMAIN queue' = 1..k + 1 /\ Len(queue') = k + 1
          /\ queue'[k + 1] = m /\ \A i \in 1..k : queue'[i] = queue[i]
      BY <1>2, <2>2, <3>1, QueueLonger, TidyFacts DEF Queued
    <3>3. \A i \in 1..k + 1 : queue'[i].type = "BLK" \/ (i = k + 1 /\ queue'[i] = m)
      <4>1. \A i \in 1..k + 1 : i \in 1..k \/ i = k + 1
        OBVIOUS
      <4>. QED
        BY <2>1, <3>2, <4>1
    <3>4. Talk(c)' \/ ~Here(c)'
      BY <2>1, <3>2, <3>3 DEF Talk, Here, Running, Ended, WaitsForAnswer
    <3>5. Talks'
      BY <1>7, <3>4 DEF Talks
    <3>6. OnlyBlocks'
      <4>1. \A i \in 1..k + 1 : i < k + 1 => i # k + 1
        OBVIOUS
      <4>. QED
        BY <2>1, <3>2, <3>3, <4>1 DEF OnlyBlocks, Commands
    <3>7. Expected'
      BY <2>1, <3>2 DEF Expected
    <3>. QED
      BY <1>4, <1>6, <3>5, <3>6, <3>7 DEF TidyInv
  <2>3. CASE Handed(Server, m)
    <3>1. queue = <<>> /\ queue' = <<>> /\ inbox'[Server] = m
      BY <2>3, TidyFacts DEF Handed
    <3>2. Talk(c)' \/ ~Here(c)'
      BY <2>1, <3>1 DEF Talk, Here, Running, Ended, WaitsForAnswer
    <3>3. Talks'
      BY <1>7, <3>2 DEF Talks
    <3>4. OnlyBlocks'
      BY <2>1, <3>1 DEF OnlyBlocks, Commands
    <3>5. Expected'
      BY <2>1, <3>1 DEF Expected
    <3>. QED
      BY <1>4, <1>6, <3>3, <3>4, <3>5 DEF TidyInv
  <2>. QED
    BY <1>3, <2>2, <2>3
<1>. QED
  BY <1>2, <1>8, <1>9

LEMMA TidyClient ==
    ASSUME TidyStep, NEW c \in Clients, ClientKind(c)
    PROVE  TidyInv'
<1>1. /\ OneRuns /\ Talks /\ OnlyBlocks /\ Expected /\ Replied /\ (srv.at = "off" => qid = 0)
  BY DEF TidyStep, TidyInv
<1>2. CASE SendsCommand(c)
  BY <1>2, TidySends DEF SendsCommand
<1>3. CASE Starts(c)
  <2>1. /\ \A d \in Clients : ~Running(d)
        /\ cli'[c].at \in {"failed", "nam"} /\ \A d \in Clients \ {c} : cli'[d] = cli[d]
        /\ queue' = queue /\ inbox' = inbox /\ srv' = srv /\ qid' = qid
    BY <1>3, TidyFacts DEF Starts, CliGoes, mail
  <2>2. \A d \in Clients : Running(d)' => d = c /\ cli'[d].at = "nam"
    BY <2>1 DEF Running, Ended
  <2>3. OneRuns' /\ Talks'
    BY <2>2 DEF OneRuns, Talks, Talk, Here, WaitsForAnswer
  <2>4. ~Asked
    BY <2>1 DEF Asked, Here
  <2>5. OnlyBlocks' /\ Expected' /\ Replied'
    BY <1>1, <2>1, <2>4 DEF OnlyBlocks, Expected, Replied
  <2>. QED
    BY <1>1, <2>1, <2>3, <2>5 DEF TidyInv
<1>4. CASE Listens(c)
  <2>1. Here(c) /\ cli[c].at \in WaitsForAnswer
    BY <1>4 DEF Listens, Here, Running, Ended, WaitsForAnswer
  <2>2. queue = <<>> /\ Sleeps(c)
    BY <1>1, <1>4, <2>1 DEF Talks, Talk, Listens, Taken
  <2>3. queue' = queue /\ inbox' = inbox /\ srv' = srv /\ qid' = qid /\ cli' = cli
    BY <1>4, <2>2 DEF Listens, Sleeps
  <2>4. OneRuns' /\ Replied' /\ OnlyBlocks'
    BY <1>1, <2>3 DEF OneRuns, Running, Ended, Replied, OnlyBlocks
  <2>5. Talks'
    BY <1>1, <2>3 DEF Talks, Talk, Here, Running, Ended, Asking, Answering, Answered, NoMail
  <2>6. Expected'
    BY <1>1, <2>3 DEF Expected, Asked, Here, Running, Ended
  <2>. QED
    BY <1>1, <2>3, <2>4, <2>5, <2>6 DEF TidyInv
<1>5. CASE Checks(c)
  <2>1. /\ inbox[c] # Nothing /\ inbox'[c] = Nothing /\ \A p \in Procs \ {c} : inbox'[p] = inbox[p]
        /\ queue' = queue /\ srv' = srv /\ qid' = qid /\ cli'[c].q = cli[c].q
        /\ \A d \in Clients \ {c} : cli'[d] = cli[d]
        /\ cli[c].at \in WaitsForAnswer /\ c # Server
        /\ cli'[c].at \in {"failed", "len", "blk"}
        /\ inbox[c].type = "ERR" => cli'[c].at = "failed"
    BY <1>5, TidyFacts DEF Checks, CliGoes, Client
  <2>2. inbox'[Server] = inbox[Server]
    BY <2>1, TidyFacts
  <2>3. Running(c) /\ \A d \in Clients : Running(d)' => Running(d) /\ d = c
    BY <1>1, <2>1 DEF Running, Ended, WaitsForAnswer, OneRuns
  <2>4. OneRuns' /\ Replied' /\ OnlyBlocks'
    BY <1>1, <2>1, <2>2, <2>3, TidyFacts DEF OneRuns, Replied, OnlyBlocks
  <2>5. Here(c) => Answered(c) /\ queue = <<>>
    BY <1>1, <2>1 DEF Talks, Talk, Asking, Answering
  <2>6. Talks'
    <3>1. ASSUME Here(c)' PROVE Talk(c)'
      <4>1. Here(c) /\ cli'[c].at # "failed"
        BY <2>1, <2>3, <3>1 DEF Here, Running, Ended
      <4>2. inbox[c].type = "SUC"
        BY <2>1, <2>5, <4>1 DEF Answered, Answers
      <4>3. srv.fd \in Files /\ inbox[Server] = Nothing /\ srv.at = "rcv" /\ queue = <<>>
        BY <2>5, <4>1, <4>2 DEF Answered
      <4>. QED
        BY <2>1, <2>2, <4>1, <4>3, TidyFacts DEF Talk, NoMail, WaitsForAnswer
    <3>. QED
      BY <2>3, <3>1 DEF Talks, Here
  <2>7. Expected'
    <3>1. ~Asked
      BY <1>1, <2>1, <2>3 DEF Asked, Here, OneRuns
    <3>. QED
      BY <1>1, <2>1, <2>2, <3>1 DEF Expected
  <2>. QED
    BY <1>1, <2>1, <2>4, <2>6, <2>7 DEF TidyInv
<1>6. CASE GivesUp(c)
  <2>1. /\ ~Here(c) /\ cli'[c].at = "failed" /\ queue' = queue /\ inbox' = inbox /\ srv' = srv /\ qid' = qid
        /\ \A d \in Clients \ {c} : cli'[d] = cli[d]
    BY <1>6 DEF GivesUp, Here, CliGoes, mail
  <2>2. \A d \in Clients : Running(d)' => Running(d) /\ d # c
    BY <2>1 DEF Running, Ended
  <2>3. OneRuns' /\ Replied' /\ OnlyBlocks'
    BY <1>1, <2>1, <2>2 DEF OneRuns, Replied, OnlyBlocks
  <2>4. \A d \in Clients : Here(d)' => Here(d) /\ d # c
    BY <2>1, <2>2 DEF Here
  <2>5. Talks'
    BY <1>1, <2>1, <2>4 DEF Talks, Talk, Asking, Answering, Answered, NoMail
  <2>6. Expected'
    BY <1>1, <2>1 DEF Expected, Asked, Here, Running, Ended
  <2>. QED
    BY <1>1, <2>1, <2>3, <2>5, <2>6 DEF TidyInv
<1>7. CASE Dies(c)
  BY <1>7, TidyFacts DEF Dies
<1>. QED
  BY <1>2, <1>3, <1>4, <1>5, <1>6, <1>7 DEF ClientKind

LEMMA TidyStops ==
    ASSUME TidyStep, ServerStarts \/ ServerStops
    PROVE  TidyInv'
<1>1. /\ OneRuns /\ Talks /\ OnlyBlocks /\ Expected /\ Replied /\ (srv.at = "off" => qid = 0)
  BY DEF TidyStep, TidyInv
<1>2. /\ cli' = cli /\ queue' = <<>> /\ inbox'[Server] = Nothing /\ srv'.at # "answer"
      /\ (srv'.at = "off" => qid' = 0) /\ \A c \in Clients : inbox'[c] = inbox[c]
  <2>1. CASE ServerStarts
    <3>1. queue = <<>> /\ inbox[Server] = Nothing
      BY <1>1, <2>1, TidyFacts DEF ServerStarts, OnlyBlocks
    <3>. QED
      BY <2>1, <3>1, TidyFacts DEF ServerStarts, SrvGoes, mail
  <2>2. CASE ServerStops
    <3>1. srv'.at = "off" /\ qid' = 0 /\ queue' = <<>> /\ inbox' = [inbox EXCEPT ![Server] = Nothing]
      BY <2>2, TidyFacts DEF ServerStops, SrvGoes
    <3>. QED
      BY <2>2, <3>1, TidyFacts DEF ServerStops
  <2>. QED
    BY <2>1, <2>2
<1>3. ASSUME NEW c \in Clients PROVE ~Here(c)'
  <2>1. Client(c) /\ cli[c].q \in Nat
    BY TidyFacts DEF ClientStates
  <2>2. CASE ServerStarts
    <3>1. qid' = srv.starts + 1 /\ srv.starts \in Nat
      BY <1>1, <2>2, TidyFacts DEF ServerStarts, ServerStates
    <3>. QED
      BY <1>2, <2>1, <3>1 DEF Client, Here
  <2>3. CASE ServerStops
    <3>1. qid' = 0
      BY <2>3, TidyFacts DEF ServerStops
    <3>. QED
      BY <1>2, <2>1, <3>1 DEF Client, Here, Running, Ended
  <2>. QED
    BY <2>2, <2>3
<1>4. OneRuns' /\ Replied' /\ Talks'
  BY <1>1, <1>2, <1>3 DEF OneRuns, Running, Ended, Replied, Talks
<1>5. OnlyBlocks' /\ Expected'
  BY <1>2, TidyFacts DEF OnlyBlocks, Expected
<1>. QED
  BY <1>2, <1>4, <1>5 DEF TidyInv

LEMMA TidyListens ==
    ASSUME TidyStep, ServerListens
    PROVE  TidyInv'
<1>1. /\ OneRuns /\ Talks /\ OnlyBlocks /\ Expected /\ Replied /\ (srv.at = "off" => qid = 0)
  BY DEF TidyStep, TidyInv
<1>2. srv' = srv /\ cli' = cli /\ qid' = qid /\ srv.at = "rcv"
  BY DEF ServerListens
<1>3. OneRuns' /\ \A c \in Clients : Here(c)' => Here(c)
  BY <1>1, <1>2 DEF OneRuns, Here, Running, Ended
<1>4. CASE Sleeps(Server)
  <2>1. queue' = queue /\ inbox' = inbox
    BY <1>4 DEF Sleeps
  <2>2. Replied' /\ OnlyBlocks'
    BY <1>1, <1>2, <2>1 DEF Replied, OnlyBlocks
  <2>3. Talks'
    BY <1>1, <1>2, <1>3, <2>1 DEF Talks, Talk, Asking, Answering, Answered, NoMail
  <2>4. Expected'
    BY <1>1, <1>2, <2>1 DEF Expected, Asked, Here, Running, Ended
  <2>. QED
    BY <1>1, <1>2, <1>3, <2>2, <2>3, <2>4 DEF TidyInv
<1>5. CASE Taken(Server)
  <2>1. PICK k \in Nat \ {0} : k = Len(queue)
    BY <1>5, TidyFacts, QueueShorter DEF Taken
  <2>2. PICK m \in Messages : m = Head(queue)
    BY <1>5, TidyFacts, QueueShorter DEF Taken
  <2>3. /\ queue # <<>> /\ inbox'[Server] = m /\ m = queue[1] /\ 1 \in 1..k
        /\ Len(queue') = k - 1 /\ DOMAIN queue = 1..k /\ DOMAIN queue' = 1..k - 1
        /\ \A i \in 1..k - 1 : i \in Nat /\ i + 1 \in 1..k /\ queue'[i] = queue[i + 1]
        /\ k = 1 => queue' = <<>>
        /\ \A c \in Clients : inbox'[c] = inbox[c]
    BY <1>5, <2>1, <2>2, QueueShorter, TidyFacts DEF Taken
  <2>4. /\ \A i \in 1..k : i < k => queue[i].type = "BLK"
        /\ \A i \in 1..k : queue[i].type \in {"BLK", "BYE"}
        /\ \A i \in 1..k : queue[i].type = "BLK" => srv.fd \in Files
    BY <1>1, <2>1, <2>3 DEF OnlyBlocks
  <2>5. Replied'
    BY <1>1, <2>3 DEF Replied
  <2>6. OnlyBlocks'
    <3>1. \A i \in 1..k - 1 : i < k - 1 => i + 1 < k /\ i + 1 \in 1..k
      BY <2>1, <2>3
    <3>2. queue' # <<>> => 1 < k
      BY <2>1, <2>3
    <3>3. queue' # <<>> => m.type = "BLK"
      BY <2>3, <2>4, <3>2
    <3>. QED
      BY <1>2, <2>3, <2>4, <3>1, <3>3 DEF OnlyBlocks, Commands
  <2>7. ASSUME NEW c \in Clients, Here(c)' PROVE Talk(c)'
    <3>1. Talk(c) /\ cli[c].at \notin WaitsForAnswer \cup {"len"}
      BY <1>1, <1>3, <2>3, <2>7 DEF Talks, Talk, NoMail
    <3>2. cli[c].at = "blk" => srv.fd \in Files /\ \A i \in 1..k : queue[i].type = "BLK"
      BY <2>3, <3>1 DEF Talk
    <3>3. cli[c].at = "blk" => m.type = "BLK" /\ \A i \in 1..k - 1 : queue'[i].type = "BLK"
      BY <2>3, <3>2
    <3>. QED
      BY <1>2, <2>3, <3>1, <3>2, <3>3 DEF Talk, WaitsForAnswer
  <2>8. Talks'
    BY <2>7 DEF Talks
  <2>9. Expected'
    BY <1>2, <2>3, <2>4 DEF Expected
  <2>. QED
    BY <1>1, <1>2, <1>3, <2>5, <2>6, <2>8, <2>9 DEF TidyInv
<1>. QED
  BY <1>4, <1>5 DEF ServerListens

LEMMA TidyHandles ==
    ASSUME TidyStep, ServerHandles
    PROVE  TidyInv'
<1>1. /\ OneRuns /\ Talks /\ OnlyBlocks /\ Expected /\ Replied /\ (srv.at = "off" => qid = 0)
  BY DEF TidyStep, TidyInv
<1>2. PICK m \in Messages : m = inbox[Server]
  BY TidyFacts DEF ServerHandles
<1>3. /\ srv.at = "rcv" /\ Handles(m) /\ inbox'[Server] = Nothing /\ inbox[Server] # Nothing
      /\ cli' = cli /\ queue' = queue /\ qid' = qid /\ \A c \in Clients : inbox'[c] = inbox[c]
  BY <1>2, TidyFacts DEF ServerHandles
<1>4. m.type \in Commands
  BY <1>1, <1>2, TidyFacts DEF OnlyBlocks, Answers
<1>5. OneRuns' /\ Replied' /\ \A c \in Clients : Here(c)' <=> Here(c)
  BY <1>1, <1>3 DEF OneRuns, Here, Running, Ended, Replied
<1>6. srv'.at # "off"
  BY <1>3 DEF Handles, Opens, Resizes, Stores, SrvGoes
<1>7. CASE m.type \in {"NAM", "LEN"}
  <2>1. PICK c \in Clients : Here(c) /\ cli[c].at \in WaitsForAnswer /\ inbox[c] = Nothing
    BY <1>1, <1>2, <1>7 DEF Expected, Asked
  <2>2. queue = <<>> /\ Asking(c)
    BY <1>1, <1>3, <2>1, TidyFacts DEF Talks, Talk, Answering, Answered, Answers
  <2>3. m.type = "LEN" => srv.fd \in Files
    BY <1>2, <2>1, <2>2 DEF Asking, WaitsForAnswer
  <2>4. srv'.at = "answer" /\ (srv'.resp = "SUC" => srv'.fd \in Files)
    BY <1>3, <1>7, <2>3, TidyFacts DEF Handles, Opens, Resizes, SrvGoes, Answers
  <2>5. Talk(c)'
    <3>1. Answering(c)'
      BY <1>3, <2>1, <2>4 DEF Answering
    <3>. QED
      BY <1>3, <2>1, <2>2, <3>1 DEF Talk, WaitsForAnswer
  <2>6. Talks'
    <3>1. \A d \in Clients : Here(d) => d = c
      BY <1>1, <2>1 DEF OneRuns, Here
    <3>. QED
      BY <1>5, <2>5, <3>1 DEF Talks
  <2>7. OnlyBlocks' /\ Expected'
    BY <1>3, <1>5, <2>1, <2>2, TidyFacts DEF OnlyBlocks, Expected, Asked
  <2>. QED
    BY <1>5, <1>6, <2>6, <2>7 DEF TidyInv
<1>8. CASE m.type \in {"BLK", "BYE"}
  <2>1. /\ srv'.at = "rcv"
        /\ m.type = "BLK" => srv'.fd = srv.fd /\ srv.fd \in Files
        /\ m.type = "BYE" => queue = <<>>
    BY <1>1, <1>2, <1>3, <1>8, TidyFacts DEF OnlyBlocks, Handles, Stores, SrvGoes, Answers
  <2>2. ASSUME NEW c \in Clients, Here(c)' PROVE Talk(c)'
    <3>1. Talk(c)
      BY <1>1, <1>5, <2>2 DEF Talks
    <3>2. cli[c].at \notin WaitsForAnswer \cup {"len"}
      BY <1>2, <1>3, <1>8, <3>1 DEF Talk, Asking, Answering, Answered, NoMail
    <3>3. cli[c].at = "blk" => m.type = "BLK" /\ \A i \in DOMAIN queue : queue[i].type = "BLK"
      BY <1>2, <1>3, <1>8, <3>1 DEF Talk
    <3>. QED
      BY <1>3, <2>1, <3>2, <3>3, TidyFacts DEF Talk, WaitsForAnswer
  <2>3. Talks'
    BY <2>2 DEF Talks
  <2>4. OnlyBlocks'
    BY <1>1, <1>3, <1>8, <2>1, TidyFacts DEF OnlyBlocks
  <2>5. Expected'
    BY <1>3, <2>1, TidyFacts DEF Expected
  <2>. QED
    BY <1>5, <1>6, <2>3, <2>4, <2>5 DEF TidyInv
<1>. QED
  BY <1>4, <1>7, <1>8 DEF Commands

LEMMA TidyAnswers ==
    ASSUME TidyStep, ServerAnswers
    PROVE  TidyInv'
<1>1. /\ OneRuns /\ Talks /\ OnlyBlocks /\ Expected /\ Replied /\ (srv.at = "off" => qid = 0)
  BY DEF TidyStep, TidyInv
<1>2. PICK m \in Replies : m.type = srv.resp /\ Sends(m)
  BY DEF ServerAnswers
<1>3. /\ srv.at = "answer" /\ srv'.at = "rcv" /\ srv'.fd = srv.fd /\ cli' = cli /\ qid' = qid
      /\ ~ \E c \in Clients : AboutToReceive(c)
      /\ m.type \in Answers
  BY <1>2, TidyFacts DEF ServerAnswers, SrvGoes, Replies
<1>4. PICK c \in Clients : Here(c) /\ cli[c].at \in WaitsForAnswer /\ inbox[c] = Nothing
  BY <1>1, <1>3 DEF Expected, Asked
<1>5. queue = <<>> /\ Answering(c) /\ inbox[Server] = Nothing
  BY <1>1, <1>3, <1>4, TidyFacts DEF Talks, Talk, Asking, Answered
<1>6. Asleep(c)
  BY <1>3, <1>4, TidyFacts DEF AboutToReceive, WaitsForAnswer
<1>7. \A d \in Clients : Here(d) => d = c
  BY <1>1, <1>4 DEF OneRuns, Here
<1>8. Handed(c, m)
  BY <1>2, <1>3, <1>6, <1>7, TidyFacts DEF Sends, Queued, NobodyAsleep, Handed
<1>9. /\ queue' = <<>> /\ inbox'[c] = m /\ inbox'[Server] = Nothing
      /\ \A d \in Clients \ {c} : inbox'[d] = inbox[d]
  BY <1>5, <1>8, TidyFacts DEF Handed
<1>10. OneRuns' /\ Replied' /\ \A d \in Clients : Here(d)' <=> Here(d)
  BY <1>1, <1>3, <1>9 DEF OneRuns, Here, Running, Ended, Replied
<1>11. Talk(c)'
  <2>1. Answered(c)'
    BY <1>2, <1>3, <1>5, <1>9 DEF Answered, Answering
  <2>. QED
    BY <1>3, <1>4, <1>9, <2>1 DEF Talk, WaitsForAnswer
<1>12. Talks'
  BY <1>7, <1>10, <1>11 DEF Talks
<1>13. OnlyBlocks' /\ Expected'
  BY <1>3, <1>9, TidyFacts DEF OnlyBlocks, Expected
<1>. QED
  BY <1>3, <1>10, <1>12, <1>13 DEF TidyInv

LEMMA TidyPreserved ==
    ASSUME Base, Next, Tidy, TidyInv
    PROVE  TidyInv'
<1>1. /\ Base' /\ scene' = scene
      /\ ServerKind \/ \E c \in Clients : ClientKind(c)
  BY BaseStep
<1>2. TidyStep
  BY <1>1 DEF TidyStep
<1>. QED
  BY <1>1, <1>2, TidyClient, TidyStops, TidyListens, TidyHandles, TidyAnswers DEF ServerKind
-----------------------------------------------------------------------------
(* The results. *)

LEMMA MessageInit == Init => MessageInv
<1>. SUFFICES ASSUME Init PROVE MessageInv
  OBVIOUS
<1>1. /\ scene \in Scenes /\ scene \in SceneType /\ qid = 0 /\ queue = <<>> /\ waiting = <<>>
      /\ \A p \in Procs : inbox[p] = Nothing
      /\ srv.at = "off" /\ srv.starts = 0 /\ srv.fd = "garbage" /\ srv.off = 0
      /\ cli \in [Clients -> ClientStates]
      /\ \A c \in Clients : cli[c].at = "new" /\ cli[c].q = 0 /\ cli[c].sent = 0
      /\ srv \in ServerStates
  BY MessageAssumption DEF Init, ServerStates, ClientStates, Answers
<1>2. scene.starts \in Nat /\ scene.existing \subseteq Files /\ scene.blocks \in [Clients -> Nat]
  BY <1>1 DEF SceneType
<1>3. \A p \in Procs : ~Asleep(p)
  BY <1>1 DEF Asleep, ToSet
<1>4. Mail
  <2>1. inbox \in [Procs -> Messages \cup {Nothing}]
    BY DEF Init
  <2>2. Bytes <= Capacity
    <3>1. Places(Large) = {} /\ Places({"BLK"}) = {}
      BY <1>1 DEF Places
    <3>2. Cardinality(Places(Large)) = 0 /\ Cardinality(Places({"BLK"})) = 0
      BY <3>1, FS_EmptySet
    <3>. QED
      BY <3>2, Constants DEF Bytes
  <2>3. IsInjective(waiting)
    BY <1>1 DEF IsInjective
  <2>4. queue \in Seq(Messages) /\ waiting \in Seq(Procs)
    BY <1>1
  <2>. QED
    BY <1>1, <1>3, <2>1, <2>2, <2>3, <2>4 DEF Mail
<1>5. Programs
  <2>1. \A c \in Clients : Client(c)
    BY <1>1, <1>2, <1>3, Constants DEF Client, Running, Ended
  <2>2. Server \in Procs
    BY Constants
  <2>. QED
    BY <1>1, <1>2, <1>3, <2>1, <2>2 DEF Programs
<1>6. Disks
  <2>1. disk = [f \in scene.existing |-> <<>>]
    BY DEF Init
  <2>2. disk \in [scene.existing -> Seq(Data)] /\ DOMAIN disk = scene.existing
    BY <2>1
  <2>. QED
    BY <1>2, <2>2 DEF Disks
<1>7. NoMail /\ ~Live /\ inbox[Server] = Nothing
  BY <1>1, Constants DEF NoMail, Live
<1>8. ASSUME NEW c \in Clients PROVE LoneInv(c)
  <2>1. Ours(c) /\ OneMessage(c) /\ NameFirst(c)
    BY <1>1, <1>7, Constants DEF Ours, OneMessage, NameFirst, WaitsForAnswer, Commands
  <2>2. Placed(c)
    BY DEF Init, Placed
  <2>. QED
    BY <1>7, <2>1, <2>2 DEF LoneInv
<1>9. TidyInv
  <2>1. OneRuns /\ Talks /\ Replied
    BY <1>1, Constants DEF OneRuns, Talks, Replied, Here, Running
  <2>2. OnlyBlocks /\ Expected
    BY <1>1, <1>7, Constants DEF OnlyBlocks, Expected
  <2>. QED
    BY <1>1, <2>1, <2>2 DEF TidyInv
<1>. QED
  BY <1>4, <1>5, <1>6, <1>8, <1>9 DEF MessageInv, Base

LEMMA SameState == MessageInv /\ UNCHANGED vars => MessageInv'
<1>. SUFFICES ASSUME MessageInv, UNCHANGED vars PROVE MessageInv'
  OBVIOUS
<1>1. /\ qid' = qid /\ queue' = queue /\ waiting' = waiting /\ inbox' = inbox /\ srv' = srv
      /\ cli' = cli /\ disk' = disk /\ scene' = scene
  BY DEF vars, moving
<1>2. Mail'
  BY <1>1, SameMail DEF MessageInv, Base, mail
<1>3. Programs' /\ Disks'
  BY <1>1 DEF MessageInv, Base, Programs, Disks, Client, Asleep, Running, Ended
<1>4. \A c \in Clients : Alone(c)' /\ ~Fault("disk")' => LoneInv(c)'
  <2>1. ASSUME NEW c \in Clients, Alone(c)', ~Fault("disk")' PROVE LoneInv(c)'
    <3>1. LoneInv(c)
      BY <1>1, <2>1 DEF MessageInv, Alone, Fault
    <3>. QED
      BY <1>1, <3>1 DEF LoneInv, Ours, OneMessage, NameFirst, NextBlocks, AtServer, Placed, Live, NoMail
  <2>. QED
    BY <2>1
<1>5. Tidy' => TidyInv'
  <2>1. Tidy' => TidyInv
    BY <1>1 DEF MessageInv, Tidy
  <2>. QED
    BY <1>1, <2>1 DEF TidyInv, OneRuns, Talks, Talk, Here, Running, Ended, Asking, Answering,
                      Answered, NoMail, OnlyBlocks, Expected, Asked, Replied
<1>. QED
  BY <1>2, <1>3, <1>4, <1>5 DEF MessageInv, Base

LEMMA MessageStep == MessageInv /\ [Next]_vars => MessageInv'
<1>1. ASSUME MessageInv, Next PROVE MessageInv'
  <2>1. Base /\ Base' /\ scene' = scene
    BY <1>1, BaseStep DEF MessageInv
  <2>2. ASSUME NEW c \in Clients, Alone(c)', ~Fault("disk")' PROVE LoneInv(c)'
    <3>1. Alone(c) /\ ~Fault("disk") /\ LoneInv(c)
      BY <1>1, <2>1, <2>2 DEF MessageInv, Alone, Fault
    <3>. QED
      BY <1>1, <2>1, <3>1, LonePreserved
  <2>3. Tidy' => TidyInv'
    BY <1>1, <2>1, TidyPreserved DEF MessageInv, Tidy
  <2>. QED
    BY <2>1, <2>2, <2>3 DEF MessageInv
<1>. QED
  BY <1>1, SameState

\* The invariant, for any clients, files, capacity and scenes: what the server
\* and the clients may find in the queue and in their messages at each place of
\* their programs.
THEOREM InvAlways == Spec => []MessageInv
  BY MessageInit, MessageStep, PTL DEF Spec

\* The queue never holds more than fits into it, who sleeps in msgrcv has got
\* nothing and is not listed twice, and nobody sleeps while there is a message
\* (msgsnd and msgrcv of both programs, Leaves, the handler of server.c).
THEOREM TypeCorrect == Spec => []TypeOK
<1>1. MessageInv => TypeOK
  <2>. SUFFICES ASSUME MessageInv PROVE TypeOK
    OBVIOUS
  <2>1. /\ scene \in Scenes /\ scene \in SceneType /\ srv \in ServerStates /\ cli \in [Clients -> ClientStates]
        /\ qid \in 0..srv.starts /\ srv.starts <= scene.starts
        /\ \A c \in Clients : Client(c)
    BY DEF MessageInv, Base, Programs
  <2>2. srv.starts \in Nat /\ scene.starts \in Nat /\ scene.blocks \in [Clients -> Nat]
    BY <2>1 DEF ServerStates, SceneType
  <2>3. \A c \in Clients : cli[c] \in ClientStates /\ cli[c].q \in Nat /\ cli[c].sent \in Nat
    BY <2>1 DEF ClientStates
  <2>4. qid \in 0..scene.starts /\ srv.starts \in 0..scene.starts
    BY <2>1, <2>2
  <2>5. ASSUME NEW c \in Clients
        PROVE  cli[c].q \in 0..scene.starts /\ cli[c].sent \in 0..scene.blocks[c]
    <3>1. cli[c].q <= srv.starts /\ cli[c].sent <= scene.blocks[c] /\ scene.blocks[c] \in Nat
      BY <2>1, <2>2 DEF Client
    <3>. QED
      BY <2>1, <2>2, <2>3, <3>1
  <2>6. \A p \in ToSet(waiting) : inbox[p] = Nothing
    <3>1. \A p \in ToSet(waiting) : p \in Procs /\ Asleep(p)
      BY DEF MessageInv, Base, Mail, ToSet, Asleep
    <3>. QED
      BY <3>1 DEF MessageInv, Base, Mail
  <2>7. \A c \in Clients :
           cli[c].at \in {"new", "nam", "namrsp", "len", "lenrsp", "blk", "done", "failed"}
    BY <2>3 DEF ClientStates
  <2>8. /\ srv.at \in {"off", "rcv", "answer"} /\ srv.resp \in Answers
        /\ srv.fd \in Files \cup {"garbage", "bad"} /\ srv.off \in Nat
    BY <2>1 DEF ServerStates
  <2>. QED
    BY <2>1, <2>4, <2>5, <2>6, <2>7, <2>8 DEF TypeOK, MessageInv, Base, Mail, Disks
<1>. QED
  BY <1>1, InvAlways, PTL

\* A lone client's blocks are where they belong, whatever the timing, and whoever
\* is killed or started again (the loop of client.c, MSGT_BLK of server.c).
THEOREM BlocksInPlace == Spec => []InPlace
<1>1. MessageInv => InPlace
  BY DEF MessageInv, LoneInv, Placed, InPlace
<1>. QED
  BY <1>1, InvAlways, PTL

\* With prompt partners and clients that are run one after the other, no command
\* comes back to a client and no answer to the server (msgrcv with type 0 in
\* checkServerResponse and in the loop of server.c).
THEOREM EachHearsTheOther == Spec => []HeardByTheOther
<1>1. MessageInv => HeardByTheOther
  BY DEF MessageInv, Tidy, TidyInv, OnlyBlocks, Replied, HeardByTheOther
<1>. QED
  BY <1>1, InvAlways, PTL
==============================================================================
