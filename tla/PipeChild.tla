-------------------------------- MODULE PipeChild --------------------------------
(***************************************************************************)
(* templates/pipe-handling/pipe-fork.c, pipe-execute.c and                 *)
(* pipe-duplicate.c with the programs they execute: the parent writes one  *)
(* text into a pipe, its child, or the program the child becomes, reads    *)
(* it. Each side has to close the end of the pipe it does not use.         *)
(***************************************************************************)
EXTENDS Naturals

CONSTANTS Scenes

\* exec      the child executes another program
\* missing   ... which is not there
\* mortal    the parent may be killed
SceneType == [exec : BOOLEAN, missing : BOOLEAN, mortal : BOOLEAN]

VARIABLES proc,      \* the parent: where it is
          child,     \* [at, got]
          queues,    \* the pipe: [text, reads, writes], who holds which end open
          scene

moving == <<proc, child, queues>>
vars == <<moving, scene>>

Init ==
    /\ scene \in Scenes
    /\ proc = "pipe"
    /\ child = [at |-> "none", got |-> "nothing"]
    /\ queues = [text |-> FALSE, reads |-> {}, writes |-> {}]

Child(step) == child.at = step
Close(who, end) == queues' = [queues EXCEPT ![end] = @ \ {who}]
Exits(who) == queues' = [queues EXCEPT !.reads = @ \ {who}, !.writes = @ \ {who}]

\* pipe() and fork(): both have both ends. Without a child the parent ends.
Fork ==
    /\ proc = "pipe"
    /\ \/ /\ proc' = "close"
          /\ child' = [child EXCEPT !.at = "close"]
          /\ queues' = [queues EXCEPT !.reads = {"parent", "child"}, !.writes = {"parent", "child"}]
       \/ proc' = "end" /\ UNCHANGED <<child, queues>>

ParentCloses ==
    /\ proc = "close" /\ proc' = "write"
    /\ Close("parent", "reads")
    /\ UNCHANGED child

\* write() raises SIGPIPE when nobody can read any more.
Write ==
    /\ proc = "write"
    /\ IF queues.reads = {}
       THEN proc' = "end" /\ Exits("parent")
       ELSE proc' = "wait" /\ queues' = [queues EXCEPT !.text = TRUE]
    /\ UNCHANGED child

\* wait(NULL), with the end to write to still open.
Wait ==
    /\ proc = "wait" /\ Child("end")
    /\ proc' = "end" /\ Exits("parent")
    /\ UNCHANGED child

\* A slip: the child keeps the end it does not need.
ChildKeeps ==
    /\ Child("close")
    /\ child' = [child EXCEPT !.at = IF scene.exec THEN "exec" ELSE "read"]
    /\ UNCHANGED <<proc, queues>>

ChildCloses ==
    /\ Child("close")
    /\ child' = [child EXCEPT !.at = IF scene.exec THEN "exec" ELSE "read"]
    /\ Close("child", "writes")
    /\ UNCHANGED proc

\* dup() and close() leave one descriptor for the end to read from; it is open
\* in the new program, or gone with the child when there is none.
Exec ==
    /\ Child("exec")
    /\ IF scene.missing
       THEN child' = [child EXCEPT !.at = "end"] /\ Exits("child")
       ELSE child' = [child EXCEPT !.at = "read"] /\ UNCHANGED queues
    /\ UNCHANGED proc

\* read(): the text, or the end of the pipe when nobody can write any more.
Read ==
    /\ Child("read")
    /\ queues.text \/ queues.writes = {}
    /\ child' = [at |-> "end", got |-> IF queues.text THEN "hello" ELSE "EOF"]
    /\ Exits("child")
    /\ UNCHANGED proc

\* A signal for the parent.
Kill ==
    /\ scene.mortal /\ proc \notin {"pipe", "end"}
    /\ proc' = "end" /\ Exits("parent")
    /\ UNCHANGED child

Parent == Fork \/ ParentCloses \/ Write \/ Wait
ChildStep == ChildCloses \/ Exec \/ Read

Next == (Parent \/ ChildStep \/ Kill) /\ UNCHANGED scene

Spec == Init /\ [][Next]_vars /\ WF_moving(Parent) /\ WF_moving(ChildStep)
-----------------------------------------------------------------------------
TypeOK ==
    /\ scene \in Scenes /\ scene \in SceneType
    /\ proc \in {"pipe", "close", "write", "wait", "end"}
    /\ child \in [at : {"none", "close", "exec", "read", "end"},
                  got : {"nothing", "hello", "EOF"}]
    /\ queues \in [text : BOOLEAN, reads : SUBSET {"parent", "child"},
                   writes : SUBSET {"parent", "child"}]

\* A child that reads has the text, unless its parent was killed before it
\* wrote; a parent that has waited for such a child has not waited in vain.
Faithful ==
    /\ TypeOK
    /\ Child("end") /\ ~scene.missing /\ ~scene.mortal => child.got = "hello"
    /\ queues.text /\ Child("end") => child.got = "hello" \/ scene.missing

\* Both processes end, whether the text is read or not and whoever ends first
\* (pipe-fork.c, pipe-execute.c, pipe-duplicate.c).
Begun == proc \notin {"pipe", "end"}
Ended == proc = "end" /\ child.at \in {"none", "end"}
Ends == Begun ~> Ended
=============================================================================
