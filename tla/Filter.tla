--------------------------------- MODULE Filter ---------------------------------
(***************************************************************************)
(* templates/socketpair-chat/socketpair-chat.c: the parent sends all its   *)
(* input through a socket pair to a filter program, shuts its direction    *)
(* down, and only then reads what the filter has written. The filter is    *)
(* any program; four kinds of it are told apart. What it answers is a      *)
(* stream without lines: its unit is half a line, line k being the units   *)
(* 2k - 1 and 2k, all of the same length. The input ends with a newline.   *)
(***************************************************************************)
EXTENDS Integers, Sequences

CONSTANTS Scenes,
          Room,       \* the lines a direction of the socket pair holds
          LINELEN     \* the half lines that fit into the buffer

\* lines   the number of lines on stdin
\* kind    "each": the filter answers each line at once, as sed does; "all":
\*         when its input has ended, as sort does; "first": it ends after one
\*         line, as head -1 does; "none": execvp fails
SceneType == [lines : Nat, kind : {"each", "all", "first", "none"}]

\* Of the parent, [at, sent, got, text, shown, exact]: got is what its read()
\* took, text the string in its buffer, up to the zero byte, shown what puts()
\* has written, and exact says that each read() was as long as that string.
VARIABLES proc,      \* the parent
          child,     \* [at, read, wrote]
          queues,    \* the socket pair: [down, back, shut], down to the filter
          scene

moving == <<proc, child, queues>>
vars == <<moving, scene>>

Init ==
    /\ scene \in Scenes
    /\ proc = [at |-> "fork", sent |-> 0, got |-> <<>>, text |-> <<>>, shown |-> <<>>,
               exact |-> TRUE]
    /\ child = [at |-> "none", read |-> 0, wrote |-> 0]
    /\ queues = [down |-> <<>>, back |-> <<>>, shut |-> FALSE]

At(step) == proc.at = step
Child(step) == child.at = step
Line(k) == <<2 * k - 1, 2 * k>>
Garbage == 0

Fork ==
    /\ At("fork")
    /\ \/ /\ proc' = [proc EXCEPT !.at = "send"]
          /\ child' = [child EXCEPT !.at = "exec"]
       \/ proc' = [proc EXCEPT !.at = "failed"] /\ UNCHANGED child
    /\ UNCHANGED queues

\* fgets and write. Without a filter at the other end write() raises SIGPIPE.
Send ==
    /\ At("send") /\ proc.sent < scene.lines
    /\ IF Child("end")
       THEN proc' = [proc EXCEPT !.at = "killed"] /\ UNCHANGED queues
       ELSE /\ Len(queues.down) < Room
            /\ queues' = [queues EXCEPT !.down = Append(@, proc.sent + 1)]
            /\ proc' = [proc EXCEPT !.sent = @ + 1, !.text = Line(proc.sent + 1)]
    /\ UNCHANGED child

\* shutdown(SHUT_WR) at the end of stdin.
Shutdown ==
    /\ At("send") /\ proc.sent = scene.lines
    /\ proc' = [proc EXCEPT !.at = "read"]
    /\ queues' = [queues EXCEPT !.shut = TRUE]
    /\ UNCHANGED child

\* read() takes all that is there and fits into the buffer. It writes no zero
\* byte: the rest of a longer string stays behind it, and after a shorter one
\* comes what was in the memory, up to some zero byte.
Taken == IF Len(queues.back) <= LINELEN THEN Len(queues.back) ELSE LINELEN

Behind(n) ==
    IF n <= Len(proc.text) THEN {SubSeq(proc.text, n + 1, Len(proc.text))}
                           ELSE {<<>>, <<Garbage>>}

\* read() and puts() until the end of the stream, or an error: when the filter
\* has ended with unread input.
Read ==
    /\ At("read")
    /\ \/ /\ queues.back # <<>>
          /\ \E rest \in Behind(Taken) :
               LET new == SubSeq(queues.back, 1, Taken) IN
               proc' = [proc EXCEPT !.got = @ \o new, !.text = new \o rest,
                                    !.shown = @ \o new \o rest,
                                    !.exact = @ /\ Taken = Len(proc.text)]
          /\ queues' = [queues EXCEPT !.back = SubSeq(@, Taken + 1, Len(@))]
       \/ /\ queues.back = <<>> /\ Child("end")
          /\ proc' = [proc EXCEPT !.at = "done"]
          /\ UNCHANGED queues
    /\ UNCHANGED child

Parent == Fork \/ Send \/ Shutdown \/ Read

\* The child closes the parent's end, puts the other one in the place of
\* stdin and stdout, and starts the filter. When that fails it goes on into the
\* parent's branch, where close() fails, and ends.
Exec ==
    /\ Child("exec")
    /\ child' = [child EXCEPT !.at = IF scene.kind = "none" THEN "end" ELSE "filter"]
    /\ UNCHANGED <<proc, queues>>

FilterReads ==
    /\ Child("filter")
    /\ child.read = child.wrote \/ scene.kind = "all"
    /\ \/ /\ queues.down # <<>> /\ ~(scene.kind = "first" /\ child.read = 1)
          /\ child' = [child EXCEPT !.read = @ + 1]
          /\ queues' = [queues EXCEPT !.down = Tail(@)]
       \/ /\ \/ scene.kind = "first" /\ child.read = 1
             \/ queues.down = <<>> /\ queues.shut /\ child.read = child.wrote
          /\ child' = [child EXCEPT !.at = "end"]
          /\ UNCHANGED queues
    /\ UNCHANGED proc

FilterWrites ==
    /\ Child("filter") /\ child.wrote < child.read
    /\ scene.kind = "all" => queues.down = <<>> /\ queues.shut
    /\ Len(queues.back) <= 2 * (Room - 1)
    /\ child' = [child EXCEPT !.wrote = @ + 1]
    /\ queues' = [queues EXCEPT !.back = @ \o Line(child.wrote + 1)]
    /\ UNCHANGED proc

FilterSteps == Exec \/ FilterReads \/ FilterWrites

Next == /\ Parent \/ FilterSteps
        /\ UNCHANGED scene

Spec == Init /\ [][Next]_vars
        /\ WF_moving(Parent) /\ WF_moving(FilterSteps)
-----------------------------------------------------------------------------
Upto(n) == [i \in 1..n |-> i]

TypeOK ==
    /\ scene \in Scenes /\ scene \in SceneType
    /\ proc.at \in {"fork", "send", "read", "done", "failed", "killed"}
    /\ proc.sent \in 0..scene.lines
    /\ child.at \in {"none", "exec", "filter", "end"}
    /\ Len(queues.down) <= Room /\ Len(queues.back) <= 2 * Room
    /\ proc.text \in Seq(Nat) /\ proc.shown \in Seq(Nat) /\ proc.exact \in BOOLEAN

\* The parent takes the answer in order (socketpair-chat.c, loop at the end), and
\* all of it when the filter reads its input to the end. What it prints is the
\* answer only as long as each read() brings as much as the string that it
\* replaces has: otherwise old bytes, or any bytes, follow on the new ones.
Faithful ==
    /\ TypeOK
    /\ proc.got = Upto(Len(proc.got))
    /\ At("done") /\ scene.kind \in {"each", "all"} => proc.got = Upto(2 * scene.lines)
    /\ proc.exact => proc.shown = proc.got

\* Nobody reads the answers before all lines are sent. When lines and answers do
\* not fit into the socket, with one line in the filter's hands, both programs
\* sleep in write() for ever; otherwise both end.
Fits == scene.kind = "each" => scene.lines <= 2 * Room + 1
Sending == At("send") /\ Fits
Ended == proc.at \in {"done", "failed", "killed"} /\ child.at \in {"none", "end"}
Ends == Sending ~> Ended
=============================================================================
