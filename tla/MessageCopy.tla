----------------------------- MODULE MessageCopy -----------------------------
(***************************************************************************)
(* 10-message-copy: clients send files through a System V message queue.   *)
(* One queue carries the commands to the server and its answers to the     *)
(* clients, and everybody calls msgrcv with type 0, which takes the first  *)
(* message whoever it is meant for.                                        *)
(*                                                                         *)
(* The kernel hands a message directly to the process that has waited in   *)
(* msgrcv the longest; only when nobody waits does it stay in the queue,   *)
(* and msgsnd sleeps while it does not fit. Block n of a file is one       *)
(* message; sizes count blocks.                                            *)
(***************************************************************************)
EXTENDS Naturals, FiniteSets, Sequences, SequencesExt

CONSTANTS Clients,    \* the client programs, each run once
          Files,      \* the file names at the server
          Capacity,   \* what fits into the queue (16 blocks by default)
          Scenes

\* run, patient   the clients that are run, and whether each is started when the
\*                ones before have ended
\* dest, blocks   where to each client copies, and how much
\* existing       the files that exist beforehand
\* prompt         who waits for a message calls msgrcv before it is sent (a
\*                matter of timing; no code waits for it)
\* starts         how often the server is started
\* faults         a client is killed, the server gets SIGINT or crashes, the
\*                disk fails
SceneType == [run : SUBSET Clients, patient : BOOLEAN, dest : [Clients -> Files],
              blocks : [Clients -> Nat], existing : SUBSET Files,
              prompt : BOOLEAN, starts : Nat,
              faults : SUBSET {"kill", "sigint", "crash", "disk"}]

Server == "server"

ASSUME MessageAssumption ==
    /\ IsFiniteSet(Clients) /\ Server \notin Clients
    /\ Capacity \in Nat
    /\ {"garbage", "bad"} \cap Files = {}      \* marks, see fd
    /\ Scenes \subseteq SceneType

VARIABLES qid,       \* the queue under the key (counted), or 0
          queue,     \* its messages
          waiting,   \* the processes asleep in msgrcv, in the order they came
          inbox,     \* what msgrcv has returned to each process
          srv,       \* the server
          cli,       \* the clients
          disk,      \* the files that exist, each a sequence of blocks
          scene      \* chosen once

moving == <<qid, queue, waiting, inbox, srv, cli, disk>>
vars == <<moving, scene>>

Procs == Clients \cup {Server}
Commands == {"NAM", "LEN", "BLK", "BYE"}
Answers == {"SUC", "ERR"}
Msg(type, from, n) == [type |-> type, from |-> from, n |-> n]
Nothing == Msg("none", Server, 0)

Zeros == <<Server, 0>>          \* a block nobody has written yet
Block(c, n) == <<c, n>>
Whole(c) == [n \in 1..scene.blocks[c] |-> Block(c, n)]
Fault(kind) == kind \in scene.faults

\* NAM, LEN and ERR are sent with the full 4096 bytes.
Large == {"NAM", "LEN", "ERR"}
Size(m) == CASE m.type \in Large -> 4 [] m.type = "BLK" -> 1 [] OTHER -> 0
Places(kinds) == {i \in DOMAIN queue : queue[i].type \in kinds}
Bytes == 4 * Cardinality(Places(Large)) + Cardinality(Places({"BLK"}))

\* fd: a file; -1 ("bad"), a closed descriptor as well; or, before the first
\* NAM, whatever the uninitialised variable holds ("garbage").
TypeOK ==
    /\ scene \in Scenes
    /\ qid \in 0..scene.starts
    /\ Bytes <= Capacity
    /\ waiting # <<>> => queue = <<>>
    /\ IsInjective(waiting) /\ \A p \in ToSet(waiting) : inbox[p] = Nothing
    /\ srv.at \in {"off", "rcv", "answer"} /\ srv.starts \in 0..scene.starts
    /\ srv.resp \in Answers /\ srv.fd \in Files \cup {"garbage", "bad"}
    /\ srv.off \in Nat
    /\ \A c \in Clients :
         /\ cli[c].at \in {"new", "nam", "namrsp", "len", "lenrsp", "blk", "done", "failed"}
         /\ cli[c].q \in 0..scene.starts /\ cli[c].sent \in 0..scene.blocks[c]
    /\ scene.existing \subseteq DOMAIN disk /\ DOMAIN disk \subseteq Files

Init ==
    /\ scene \in Scenes
    /\ qid = 0 /\ queue = <<>> /\ waiting = <<>>
    /\ inbox = [p \in Procs |-> Nothing]
    /\ srv = [at |-> "off", starts |-> 0, resp |-> "SUC", fd |-> "garbage", off |-> 0]
    /\ cli = [c \in Clients |-> [at |-> "new", q |-> 0, sent |-> 0]]
    /\ disk = [f \in scene.existing |-> <<>>]
-----------------------------------------------------------------------------
(* The queue. *)

msgsnd(m) ==
    \/ /\ waiting # <<>>
       /\ inbox' = [inbox EXCEPT ![Head(waiting)] = m]
       /\ waiting' = Tail(waiting)
       /\ UNCHANGED queue
    \/ /\ waiting = <<>> /\ Bytes + Size(m) <= Capacity
       /\ queue' = Append(queue, m)
       /\ UNCHANGED <<waiting, inbox>>

Asleep(p) == p \in ToSet(waiting)

\* p is about to call msgrcv.
AboutToReceive(p) ==
    /\ inbox[p] = Nothing /\ ~Asleep(p)
    /\ IF p = Server THEN srv.at = "rcv" ELSE cli[p].at \in {"namrsp", "lenrsp"}

msgrcv(p) ==
    /\ AboutToReceive(p)
    /\ \/ /\ queue # <<>>
          /\ inbox' = [inbox EXCEPT ![p] = Head(queue)]
          /\ queue' = Tail(queue)
          /\ UNCHANGED waiting
       \/ /\ queue = <<>>
          /\ waiting' = Append(waiting, p)
          /\ UNCHANGED <<queue, inbox>>

\* The end of p takes it out of the queue's waiting list.
Leaves(p) ==
    \/ ~Asleep(p) /\ UNCHANGED waiting
    \/ \E i \in DOMAIN waiting : waiting[i] = p /\ waiting' = RemoveAt(waiting, i)
-----------------------------------------------------------------------------
(* The server. *)

\* msgget(IPC_CREAT): the queue of a crashed server is used again, with what is
\* in it.
StartServer ==
    /\ srv.at = "off" /\ srv.starts < scene.starts
    /\ srv' = [srv EXCEPT !.at = "rcv", !.starts = @ + 1, !.fd = "garbage", !.off = 0]
    /\ qid' = IF qid = 0 THEN srv.starts + 1 ELSE qid
    /\ UNCHANGED <<queue, waiting, inbox, cli, disk>>

\* exithandler: the queue is removed, and whoever sleeps in it wakes up.
Sigint ==
    /\ Fault("sigint") /\ srv.at # "off"
    /\ srv' = [srv EXCEPT !.at = "off"]
    /\ qid' = 0 /\ queue' = <<>> /\ waiting' = <<>>
    /\ inbox' = [inbox EXCEPT ![Server] = Nothing]
    /\ UNCHANGED <<cli, disk>>

\* Any other signal: no handler runs, and the queue stays.
Crash ==
    /\ Fault("crash") /\ srv.at # "off"
    /\ srv' = [srv EXCEPT !.at = "off"]
    /\ Leaves(Server)
    /\ inbox' = [inbox EXCEPT ![Server] = Nothing]
    /\ UNCHANGED <<qid, queue, cli, disk>>

Receive == msgrcv(Server) /\ UNCHANGED <<qid, srv, cli, disk>>

\* The answer is the server's next step; without one it is back at msgrcv.
ThenAnswer(r, new) == srv' = [new EXCEPT !.at = "answer", !.resp = r]

\* open(O_CREAT | O_EXCL): fd is -1 when the file exists, or cannot be created.
HandleName(f) ==
    \/ /\ f \in DOMAIN disk \/ Fault("disk")
       /\ ThenAnswer("ERR", [srv EXCEPT !.fd = "bad"]) /\ UNCHANGED disk
    \/ /\ f \notin DOMAIN disk
       /\ ThenAnswer("SUC", [srv EXCEPT !.fd = f, !.off = 0])
       /\ disk' = [g \in DOMAIN disk \cup {f} |-> IF g = f THEN <<>> ELSE disk[g]]

Resized(blocks, n) == [i \in 1..n |-> IF i <= Len(blocks) THEN blocks[i] ELSE Zeros]

\* Length 0 is an error. ftruncate of a garbage descriptor may do anything but
\* reach one of these files.
HandleLength(n) ==
    \/ /\ n > 0 /\ srv.fd \in Files
       /\ ThenAnswer("SUC", srv)
       /\ disk' = [disk EXCEPT ![srv.fd] = Resized(@, n)]
    \/ /\ n = 0 \/ srv.fd \notin Files \/ Fault("disk")
       /\ ThenAnswer("ERR", srv) /\ UNCHANGED disk
    \/ /\ n > 0 /\ srv.fd = "garbage"
       /\ ThenAnswer("SUC", srv) /\ UNCHANGED disk

Overwritten(blocks, at, b) ==
    [i \in 1..(IF at > Len(blocks) THEN at ELSE Len(blocks)) |->
        IF i = at THEN b ELSE IF i <= Len(blocks) THEN blocks[i] ELSE Zeros]

\* Slips: every block is answered (the code has it in a comment); every block is
\* written to the beginning.
HandleBlockAnswered(b) ==
    /\ ThenAnswer("SUC", [srv EXCEPT !.off = @ + 1])
    /\ disk' = IF srv.fd \in Files
               THEN [disk EXCEPT ![srv.fd] = Overwritten(@, srv.off + 1, b)] ELSE disk
HandleBlockRewinds(b) ==
    /\ srv' = [srv EXCEPT !.at = "rcv"]
    /\ disk' = IF srv.fd \in Files
               THEN [disk EXCEPT ![srv.fd] = Overwritten(@, 1, b)] ELSE disk

\* A block that is written is not answered, one that fails is.
HandleBlock(b) ==
    \/ /\ srv.fd \in Files
       /\ disk' = [disk EXCEPT ![srv.fd] = Overwritten(@, srv.off + 1, b)]
       /\ srv' = [srv EXCEPT !.off = @ + 1]
    \/ /\ srv.fd \notin Files \/ Fault("disk")
       /\ ThenAnswer("ERR", srv) /\ UNCHANGED disk
    \/ srv.fd = "garbage" /\ UNCHANGED <<srv, disk>>

\* The switch. An answer the server has received itself is dropped.
Handle ==
    LET m == inbox[Server] IN
    /\ srv.at = "rcv" /\ m # Nothing
    /\ inbox' = [inbox EXCEPT ![Server] = Nothing]
    /\ \/ m.type = "NAM" /\ HandleName(scene.dest[m.from])
       \/ m.type = "LEN" /\ HandleLength(m.n)
       \/ m.type = "BLK" /\ HandleBlock(Block(m.from, m.n))
       \/ m.type = "BYE" /\ srv' = [srv EXCEPT !.fd = "bad"] /\ UNCHANGED disk
       \/ m.type \in Answers /\ UNCHANGED <<srv, disk>>
    /\ UNCHANGED <<qid, queue, waiting, cli>>

\* sendErrorToClient, sendSuccessToClient.
Answer ==
    /\ srv.at = "answer"
    /\ scene.prompt => ~ \E c \in Clients : AboutToReceive(c)
    /\ msgsnd(Msg(srv.resp, Server, 0))
    /\ srv' = [srv EXCEPT !.at = "rcv"]
    /\ UNCHANGED <<qid, cli, disk>>
-----------------------------------------------------------------------------
(* A client. *)

Ended(c) == cli[c].at \in {"done", "failed"}
Running(c) == cli[c].at # "new" /\ ~Ended(c)

\* msgget without IPC_CREAT.
Start(c) ==
    /\ c \in scene.run /\ cli[c].at = "new"
    /\ scene.patient => ~ \E d \in Clients : Running(d)
    /\ cli' = [cli EXCEPT ![c].at = IF qid = 0 THEN "failed" ELSE "nam", ![c].q = qid]
    /\ UNCHANGED <<qid, queue, waiting, inbox, srv, disk>>

Send(c, m, to, n) ==
    /\ cli[c].q = qid
    /\ msgsnd(m)
    /\ cli' = [cli EXCEPT ![c].at = to, ![c].sent = n]
    /\ UNCHANGED <<qid, srv, disk>>

ServerReady == scene.prompt => Asleep(Server)

SendName(c) == cli[c].at = "nam" /\ ServerReady /\ Send(c, Msg("NAM", c, 0), "namrsp", 0)
SendLength(c) ==
    /\ cli[c].at = "len" /\ ServerReady
    /\ Send(c, Msg("LEN", c, scene.blocks[c]), "lenrsp", 0)
\* Slips: one block too many, or too few.
SendBlockPastEnd(c) ==
    LET n == cli[c].sent + 1 IN
    cli[c].at = "blk" /\ n <= scene.blocks[c] + 1 /\ Send(c, Msg("BLK", c, n), "blk", n)
SendByeEarly(c) ==
    /\ cli[c].at = "blk" /\ cli[c].sent + 1 >= scene.blocks[c]
    /\ Send(c, Msg("BYE", c, 0), "done", cli[c].sent)

SendBlock(c) ==
    LET n == cli[c].sent + 1 IN
    cli[c].at = "blk" /\ n <= scene.blocks[c] /\ Send(c, Msg("BLK", c, n), "blk", n)
SendBye(c) ==
    /\ cli[c].at = "blk" /\ (cli[c].sent = scene.blocks[c] \/ Fault("disk"))
    /\ Send(c, Msg("BYE", c, 0), "done", cli[c].sent)

\* checkServerResponse: whatever is no ERR will do.
ReceiveResponse(c) == cli[c].q = qid /\ msgrcv(c) /\ UNCHANGED <<qid, srv, cli, disk>>
CheckResponse(c) ==
    /\ inbox[c] # Nothing
    /\ inbox' = [inbox EXCEPT ![c] = Nothing]
    /\ cli' = [cli EXCEPT ![c].at = IF inbox[c].type = "ERR" THEN "failed"
                                    ELSE IF @ = "namrsp" THEN "len" ELSE "blk"]
    /\ UNCHANGED <<qid, queue, waiting, srv, disk>>

\* A slip: a failed call is repeated.
QueueGoneRetried(c) == Running(c) /\ cli[c].q # qid /\ inbox[c] = Nothing /\ UNCHANGED moving

\* The queue is gone (EIDRM, EINVAL).
QueueGone(c) ==
    /\ Running(c) /\ cli[c].q # qid /\ inbox[c] = Nothing
    /\ cli' = [cli EXCEPT ![c].at = "failed"]
    /\ UNCHANGED <<qid, queue, waiting, inbox, srv, disk>>

Kill(c) ==
    /\ Fault("kill") /\ Running(c)
    /\ cli' = [cli EXCEPT ![c].at = "failed"]
    /\ inbox' = [inbox EXCEPT ![c] = Nothing]
    /\ Leaves(c)
    /\ UNCHANGED <<qid, queue, srv, disk>>

ServerStep == Receive \/ Handle \/ Answer
ClientStep(c) ==
    \/ SendName(c) \/ SendLength(c) \/ SendBlock(c) \/ SendBye(c)
    \/ ReceiveResponse(c) \/ CheckResponse(c) \/ QueueGone(c)

Step ==
    \/ StartServer \/ Sigint \/ Crash \/ ServerStep
    \/ \E c \in Clients : Start(c) \/ ClientStep(c) \/ Kill(c)

Next == Step /\ UNCHANGED scene

Spec == Init /\ [][Next]_vars

\* Programs that run take their next step. Nobody has to start one.
Fairness ==
    WF_moving(ServerStep) /\ \A c \in Clients : WF_moving(ClientStep(c))

FairSpec == Spec /\ Fairness
-----------------------------------------------------------------------------
Alone(c) == scene.run = {c}

\* Whatever the timing, and whoever is killed or restarted, a lone client's
\* blocks are in their places in its file, and nothing else is (the loop of
\* client.c, MSGT_BLK of server.c), as long as the disk does not fail: after a
\* failed write the server goes on with the next block in its place.
InPlace ==
    \A c \in Clients : Alone(c) /\ ~Fault("disk") /\ scene.dest[c] \in DOMAIN disk =>
        \A i \in DOMAIN disk[scene.dest[c]] : disk[scene.dest[c]][i] \in {Block(c, i), Zeros}

\* With prompt partners, which nothing but SIGINT disturbs, and clients that are
\* run one after the other, nobody takes a message from the queue that it has
\* sent itself, or that is meant for the other side (msgrcv with type 0 in
\* checkServerResponse and in the server's loop). A client that starts while
\* another one sends its blocks may get a block in the place of its answer.
HeardByTheOther ==
    scene.patient /\ scene.prompt /\ scene.faults \subseteq {"sigint"} =>
        /\ inbox[Server].type \in Commands \cup {"none"}
        /\ \A c \in Clients : inbox[c].type \in Answers \cup {"none"}

\* ... and the clients' files are copied, one after the other, if nothing else
\* goes wrong.
Copied ==
    \A c \in Clients :
        (scene.patient /\ scene.prompt /\ scene.faults = {} /\ cli[c].at = "nam")
            ~> scene.dest[c] \in DOMAIN disk /\ disk[scene.dest[c]] = Whole(c)

\* Without that, a message may be eaten by its sender: then both sleep in msgrcv
\* for ever. Nothing else keeps a lone client from ending, the removal of the
\* queue included.
Eaten == Asleep(Server) /\ \E c \in scene.run : Asleep(c)
EndsUnlessEaten ==
    \A c \in Clients : Alone(c) /\ ~Fault("disk") /\ ~Fault("crash")
                          /\ cli[c].at = "nam" ~> Ended(c) \/ Eaten
==============================================================================
