------------------------------ MODULE MCTemplates ------------------------------
(* Model values and scenes of Templates for TLC. *)
EXTENDS Templates

CONSTANTS f1, f2, c1, c2, c3

MCServers == {f1, f2}
MCClients == {c1, c2, c3}
MCOthers == {c3}
MCWriters == {c1, c2}
MCProcs == {f1, f2, c1, c2, c3}
MCStoppers == {c2}

\* the first writer says something, the others stop the readers
MCMesg == [c \in MCClients |-> IF c = c1 THEN "message" ELSE "0"]

\* c2 gets the process id of c1
MCPid == [c \in MCClients |-> IF c = c2 THEN c1 ELSE c]

\* a buffer and a half
MCSource == <<1, 2, 3>>
MCOld == <<9>>

Scene(run, patient, mortal) == [run |-> run, patient |-> patient, mortal |-> mortal]
AllFaults == {"open", "chmod", "read", "write", "map", "short"}

\* the files that are sent, under three names or under one
Contents(first, last) == [c \in MCClients |->
    CASE c = c1 -> first
      [] c = c2 -> <<4>>
      [] c = c3 -> last]
NetScene(content, path, mortal, disk, fds, short) ==
    [content |-> content, path |-> path, mortal |-> mortal, disk |-> disk, fds |-> fds,
     short |-> short]
Three == Contents(<<1, 2, 3>>, <<5, 6>>)
Long == Contents(<<1, 2, 3, 4, 5, 6, 7>>, <<5, 6>>)
Tiny == Contents(<<>>, <<5>>)
Own == [c \in MCClients |-> c]
One == [c \in MCClients |-> c1]

MCScenesOf(prog) ==
    \* readers and writers one after the other, killed and not; everybody at any
    \* moment; one reader with writers that only stop it
    CASE prog = "simple" ->
          { Scene({f1, c3, c1, c2}, TRUE, {c3}), Scene({f1, f2, c1}, TRUE, {f1}),
            Scene({f1, c3, c2}, FALSE, {f1, c2}), Scene({f1, c2}, TRUE, {}) }
    \* two clients and their server; a client or the server killed; a server
    \* started on what another one left
      [] prog = "single" ->
          { Scene({f1, c1, c2}, FALSE, {f1, c1}), Scene({f1, f2, c1, c2}, TRUE, {f1}),
            Scene({f1, c2}, TRUE, {}) }
      [] prog = "multiple" ->
          { Scene({f1, c3, c1, c2}, FALSE, {}), Scene({f1, c3, c1, c2}, FALSE, {f1, c3, c2}),
            Scene({f1, f2, c1, c2}, TRUE, {f1, c1}) }
    \* a server killed, or two; a client that comes too early; only the stop message
      [] prog = "text" ->
          { Scene({f1, c1, c2}, FALSE, {f1, c1}), Scene({f1, f2, c1, c2}, FALSE, {}),
            Scene({f1, f2, c1, c2}, TRUE, {f1}), Scene({f1, c2}, TRUE, {}) }
    \* fork that fails; clients that are refused, one of them killed; one
    \* descriptor too few
      [] prog = "tcp" ->
          { [forkFails |-> TRUE, mortal |-> {}, fds |-> 3],
            [forkFails |-> FALSE, mortal |-> {c1}, fds |-> 3],
            [forkFails |-> FALSE, mortal |-> {}, fds |-> 2] }
      [] prog = "number" ->
          [parallel : BOOLEAN, forkFails : {FALSE}, mortal : {{}, {c1}}]
              \cup [parallel : {TRUE}, forkFails : {TRUE}, mortal : {{}}]
      [] prog = "stream" ->
          { [mortal |-> {}, sigint |-> FALSE], [mortal |-> {c1}, sigint |-> FALSE],
            [mortal |-> {}, sigint |-> TRUE] }
      [] prog = "posix" ->
          { [run |-> {c1, c2, c3}, crash |-> FALSE, sigint |-> {}],
            [run |-> {c1, c2}, crash |-> TRUE, sigint |-> {c1}],
            [run |-> {c1, c2}, crash |-> FALSE, sigint |-> {Server}] }
      [] prog = "sysv" ->
          { [run |-> {c1, c3}, mortal |-> {}, crash |-> FALSE, sigint |-> TRUE],
            [run |-> {c1, c3}, mortal |-> {}, crash |-> TRUE, sigint |-> FALSE],
            [run |-> {c1, c2}, mortal |-> {c1}, crash |-> FALSE, sigint |-> TRUE] }
      [] prog = "dgram" ->
          { [crash |-> FALSE, sigint |-> {}], [crash |-> TRUE, sigint |-> {}],
            [crash |-> FALSE, sigint |-> {c1, Server}] }
    \* calls that fail, or all that succeed
      [] prog = "file" ->
          [clone : BOOLEAN, same : BOOLEAN, there : SUBSET {"src", "dest"},
           faults : {{}, AllFaults, AllFaults \ {"short"}}]
    \* three files under three names; under one name with a descriptor too few;
    \* two clients killed; a file too long for the disk; messages in parts
      [] prog = "net" ->
          { NetScene(Three, Own, {}, 6, 9, {}), NetScene(Three, One, {}, 6, 2, {}),
            NetScene(Three, Own, {c1, c2}, 6, 9, {}), NetScene(Long, Own, {}, 3, 9, {}),
            NetScene(Tiny, One, {}, 3, 9, {c2}) }
    \* one line more than the socket and the filter can hold, where nobody waits
      [] prog = "filter" ->
          [lines : {5}, kind : {"each", "all", "first", "none"}]
              \cup [lines : {6}, kind : {"each", "all", "first"}]
      [] prog = "pipe" -> [exec : BOOLEAN, missing : BOOLEAN, mortal : BOOLEAN]
      [] prog = "children" -> [prompt : BOOLEAN]
=============================================================================
