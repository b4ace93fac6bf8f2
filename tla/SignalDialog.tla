---------------------------- MODULE SignalDialog ----------------------------
(***************************************************************************)
(* 09-signal-sync/dialog.c: a parent and its child print their process ids *)
(* in turns, each waking the other with SIGUSR1 and waiting in pause().    *)
(*                                                                         *)
(* A signal is a flag of its receiver (pending), never a count. Delivering *)
(* it runs the empty handler; only a process that is inside pause() then   *)
(* goes on. A process about to call pause() that takes the signal one      *)
(* instruction earlier sleeps afterwards as if it had never come.          *)
(***************************************************************************)
EXTENDS Integers

CONSTANT Rounds            \* how often each process prints (20 in the code)

ASSUME RoundsAssumption == Rounds \in Nat \ {0}

VARIABLES pc,         \* where each process is
          printed,    \* how many lines each process has printed
          pending,    \* SIGUSR1 is pending for the process
          handler     \* the process has the handler for SIGUSR1

dialog == <<pc, printed, pending, handler>>

Parties == {"parent", "child"}
Peer(p) == IF p = "parent" THEN "child" ELSE "parent"

PcStates == {"sigaction", "fork", "unborn", "sleep", "print", "kill", "pause",
             "paused", "waitpid", "exited", "killed"}

TypeOK ==
    /\ pc \in [Parties -> PcStates]
    /\ printed \in [Parties -> 0..Rounds]
    /\ pending \in [Parties -> BOOLEAN]
    /\ handler \in [Parties -> BOOLEAN]

DialogInit ==
    /\ pc = [p \in Parties |-> IF p = "parent" THEN "sigaction" ELSE "unborn"]
    /\ printed = [p \in Parties |-> 0]
    /\ pending = [p \in Parties |-> FALSE]
    /\ handler = [p \in Parties |-> FALSE]

Go(p, from, to) == pc[p] = from /\ pc' = [pc EXCEPT ![p] = to]

Sigaction ==
    /\ Go("parent", "sigaction", "fork")
    /\ handler' = [handler EXCEPT !["parent"] = TRUE]
    /\ UNCHANGED <<printed, pending>>

\* A slip: the child starts with printf, and waits afterwards.
ForkChildFirst ==
    /\ pc["parent"] = "fork"
    /\ pc' = [pc EXCEPT !["parent"] = "sleep", !["child"] = "print"]
    /\ handler' = [handler EXCEPT !["child"] = handler["parent"]]
    /\ UNCHANGED <<printed, pending>>

\* The child inherits the handler and starts with its first pause(); a fork
\* that fails ends the program.
Fork ==
    /\ pc["parent"] = "fork"
    /\ \/ /\ pc' = [pc EXCEPT !["parent"] = "sleep", !["child"] = "pause"]
          /\ handler' = [handler EXCEPT !["child"] = handler["parent"]]
       \/ /\ pc' = [pc EXCEPT !["parent"] = "exited"]
          /\ UNCHANGED handler
    /\ UNCHANGED <<printed, pending>>

\* sleep(1): a delay, after which nothing is known about the child.
WakeUp == Go("parent", "sleep", "print") /\ UNCHANGED <<printed, pending, handler>>

PrintPid(p) ==
    /\ Go(p, "print", "kill")
    /\ printed' = [printed EXCEPT ![p] = @ + 1]
    /\ UNCHANGED <<pending, handler>>

\* Slips of the end of the loops: the pause() after kill() is missing; the
\* child waits after its last line as well.
KillUnpaused(p) ==
    /\ Go(p, "kill", IF printed[p] = Rounds THEN "exited" ELSE "print")
    /\ pending' = [pending EXCEPT ![Peer(p)] = TRUE]
    /\ UNCHANGED <<printed, handler>>
KillOncePaused(p) ==
    /\ Go(p, "kill", "pause")
    /\ pending' = [pending EXCEPT ![Peer(p)] = TRUE]
    /\ UNCHANGED <<printed, handler>>

\* The body of the child's loop ends with kill(), the parent's goes on with
\* pause().
Kill(p) ==
    /\ Go(p, "kill", IF p = "child" /\ printed[p] = Rounds THEN "exited" ELSE "pause")
    /\ pending' = [pending EXCEPT ![Peer(p)] = pc[Peer(p)] \notin {"exited", "killed"}]
    /\ UNCHANGED <<printed, handler>>

EnterPause(p) == Go(p, "pause", "paused") /\ UNCHANGED <<printed, pending, handler>>

\* A slip: one round too many.
AfterPauseOnceMore(p) == "print"

\* Where a process goes on when pause() has returned.
AfterPause(p) == IF p = "parent" /\ printed[p] = Rounds THEN "waitpid" ELSE "print"

\* Delivery of SIGUSR1, at any moment of a running or pausing process.
Deliver(p) ==
    /\ pending[p]
    /\ pending' = [pending EXCEPT ![p] = FALSE]
    /\ pc' = [pc EXCEPT ![p] = IF ~handler[p] THEN "killed"
                               ELSE IF pc[p] = "paused" THEN AfterPause(p)
                               ELSE pc[p]]
    /\ UNCHANGED <<printed, handler>>

Waitpid ==
    /\ pc["child"] \in {"exited", "killed"}
    /\ Go("parent", "waitpid", "exited")
    /\ UNCHANGED <<printed, pending, handler>>

DialogNext ==
    \/ Sigaction \/ Fork \/ WakeUp \/ Waitpid
    \/ \E p \in Parties : PrintPid(p) \/ Kill(p) \/ EnterPause(p) \/ Deliver(p)

DialogSpec == DialogInit /\ [][DialogNext]_dialog

\* The kernel lets every process run and delivers every signal.
DialogFairness ==
    /\ WF_dialog(Sigaction) /\ WF_dialog(Fork) /\ WF_dialog(WakeUp) /\ WF_dialog(Waitpid)
    /\ \A p \in Parties : /\ WF_dialog(PrintPid(p)) /\ WF_dialog(Kill(p))
                        /\ WF_dialog(EnterPause(p)) /\ WF_dialog(Deliver(p))

FairDialog == DialogSpec /\ DialogFairness
-----------------------------------------------------------------------------
\* The lines alternate and the parent begins: the parent is one line ahead or
\* level, never behind, whatever signals are lost (README of 09-signal-sync:
\* "the PIDs are printed in alternating order").
Alternation == printed["parent"] - printed["child"] \in {0, 1}

\* It is somebody's turn, or a signal that makes it so is under way.
Turn(p) == pc[p] \in {"print", "kill"} \/ pending[p]
Started == pc["parent"] \in {"sigaction", "fork", "sleep"}

\* At most one process is to move: the turn is never duplicated, neither by a
\* handler run twice nor by a signal left over from an earlier round.
OneTurn == ~(Turn("parent") /\ Turn("child"))

\* The parent sleeps in pause(), the child does too or has ended, and nobody
\* will wake them: a signal came between a kill() and the pause() after it.
Lost == /\ pc["parent"] = "paused" /\ pc["child"] \in {"paused", "exited"}
        /\ ~Turn("parent") /\ ~Turn("child")

\* The handler is installed before fork(), so SIGUSR1 ends neither process.
NobodyKilled == \A p \in Parties : pc[p] # "killed"

\* Losing a signal is the only way not to finish: either both processes end
\* up in pause() for ever, or the parent reaps its child and exits.
EndsUnlessLost == <>(Lost \/ pc["parent"] = "exited")

\* What the README promises: 20 lines each, then the parent waits for the
\* child's end. A lost signal breaks it.
Terminates == <>(pc["parent"] = "exited")

\* Both have printed equally often: the parent is to print, or the child has
\* printed and the parent is to be woken.
Level == \/ Started \/ pc["parent"] = "print"
         \/ pc["child"] = "kill" \/ pending["parent"]

\* The parent is a line ahead: it has printed and the child is to follow.
Ahead == pc["parent"] = "kill" \/ pending["child"] \/ pc["child"] = "print"

\* The inductive invariant behind Alternation: whose turn it is tells who is
\* ahead.
TurnInv ==
    /\ TypeOK
    /\ Alternation
    /\ OneTurn
    /\ \A p \in Parties : pc[p] \in {"print", "kill"} => ~pending[p]
    /\ Level => printed["parent"] = printed["child"]
    /\ Ahead => printed["parent"] = printed["child"] + 1
    /\ pc["parent"] = "print" => printed["parent"] < Rounds
    /\ pc["child"] = "unborn" => ~pending["child"]
    /\ Started => Level /\ pc["child"] \in {"unborn", "pause", "paused"}
    /\ Started => ~pending["child"] /\ ~pending["parent"] /\ printed["parent"] = 0
    /\ pc["parent"] \in {"sigaction", "fork"} => pc["child"] = "unborn"
    /\ pc["parent"] \in {"sleep", "print", "kill", "pause", "paused", "waitpid"}
          => pc["child"] # "unborn"
    /\ pc["child"] \notin {"sigaction", "fork", "sleep", "waitpid"}
    /\ pc["parent"] # "unborn"
    /\ pc["parent"] = "sigaction" \/ handler["parent"]
    /\ pc["child"] = "unborn" \/ handler["child"]
    /\ NobodyKilled
=============================================================================
