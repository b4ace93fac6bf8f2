------------------------------- MODULE Templates -------------------------------
(***************************************************************************)
(* All the small programs side by side: those around semaphores, the       *)
(* servers with their clients, and the programs that move bytes between    *)
(* files, processes and a shared memory object. They have nothing to do    *)
(* with each other: program, chosen once, says which of them runs, and     *)
(* they use the variables in turn.                                         *)
(***************************************************************************)
EXTENDS Transfers, Services

CONSTANTS Servers,            \* first readers, and servers of semaphores and memory
          Others,             \* readers that leave the set alone
          Procs,              \* runs of programs: all of them, and the clients
          Stoppers, Mesg,     \* who stops a server, and what a writer writes
          Value, Blank

ASSUME ProgramsAssumption ==
    /\ IsFiniteSet(Procs) /\ Procs = Servers \cup Clients /\ Servers \cap Clients = {}
    /\ None \notin Procs /\ Value \in Nat \ {0} /\ Writers \subseteq Clients

VARIABLES program, shmKey, semKey, mem, sem

ipc == <<shmKey, semKey, mem, sem>>
net == <<server, client, backlog>>
vars == <<program, scene, ipc, proc, net, child, queues, files>>

Simple == INSTANCE SimpleLock WITH Sems <- {0}, First <- Servers, Scenes <- ScenesOf("simple")
Single == INSTANCE ShmServer WITH Sems <- {0}, Scenes <- ScenesOf("single")
Multiple == INSTANCE ShmRequest WITH Sems <- {0, 1, 2}, Scenes <- ScenesOf("multiple")
Text == INSTANCE SharedText WITH Sems <- {}, Scenes <- ScenesOf("text")
Mutex == INSTANCE CancelMutex WITH
    t1 <- 1, t2 <- 2, none <- None, at <- proc, mutex <- sem, flags <- mem
Named == INSTANCE Connect WITH
    Runs <- Clients, Mortal <- Others, none <- None, at <- proc, sema <- sem

\* What a scene says fits the program.
ASSUME ScenesAssumption ==
    /\ ScenesOf("simple") \subseteq Simple!SceneType
    /\ ScenesOf("single") \subseteq Single!SceneType
    /\ ScenesOf("multiple") \subseteq Multiple!SceneType
    /\ ScenesOf("text") \subseteq Text!SceneType

NoIpc == shmKey = None /\ semKey = None /\ mem = None /\ sem = None
NoNet == server = None /\ client = None /\ backlog = None

Init ==
    \/ /\ \/ program = "simple" /\ Simple!Init
          \/ program = "single" /\ Single!Init
          \/ program = "multiple" /\ Multiple!Init
          \/ program = "text" /\ Text!Init
          \/ program = "mutex" /\ Mutex!Init /\ shmKey = None /\ semKey = None /\ scene = None
          \/ /\ program = "connect" /\ Named!Init
             /\ shmKey = None /\ semKey = None /\ scene = None /\ mem = None
       /\ NoNet /\ child = None /\ queues = None /\ files = None
    \/ /\ \/ program = "tcp" /\ Tcp!Init /\ queues = None
          \/ program = "number" /\ Number!Init /\ queues = None
          \/ program = "stream" /\ Stream!Init /\ child = None /\ queues = None
          \/ program = "posix" /\ Posix!Init /\ child = None /\ backlog = None
          \/ program = "sysv" /\ SysV!Init /\ child = None /\ backlog = None
          \/ program = "dgram" /\ Dgram!Init /\ child = None /\ backlog = None
       /\ NoIpc /\ proc = None /\ files = None
    \/ /\ program = "file" /\ File!Init
       /\ NoIpc /\ NoNet /\ child = None /\ queues = None
    \/ program = "net" /\ Net!Init /\ NoIpc /\ proc = None /\ child = None
    \/ /\ (program = "filter" /\ Chat!Init) \/ (program = "pipe" /\ Pipe!Init)
       /\ NoIpc /\ NoNet /\ files = None
    \/ /\ program = "children" /\ Ten!Init
       /\ NoIpc /\ NoNet /\ queues = None /\ files = None

\* Each program leaves the variables of the others alone.
Next ==
    /\ \/ /\ \/ program = "simple" /\ Simple!Next
             \/ program = "single" /\ Single!Next
             \/ program = "multiple" /\ Multiple!Next
             \/ program = "text" /\ Text!Next
             \/ program = "mutex" /\ Mutex!Next /\ UNCHANGED <<shmKey, semKey, scene>>
             \/ program = "connect" /\ Named!Next /\ UNCHANGED <<shmKey, semKey, mem, scene>>
          /\ UNCHANGED <<net, child, queues, files>>
       \/ /\ \/ program = "tcp" /\ Tcp!Next /\ UNCHANGED queues
             \/ program = "number" /\ Number!Next /\ UNCHANGED queues
             \/ program = "stream" /\ Stream!Next /\ UNCHANGED <<child, queues>>
             \/ program = "posix" /\ Posix!Next /\ UNCHANGED <<child, backlog>>
             \/ program = "sysv" /\ SysV!Next /\ UNCHANGED <<child, backlog>>
             \/ program = "dgram" /\ Dgram!Next /\ UNCHANGED <<child, backlog>>
          /\ UNCHANGED <<ipc, proc, files>>
       \/ program = "file" /\ File!Next /\ UNCHANGED <<ipc, net, child, queues>>
       \/ program = "net" /\ Net!Next /\ UNCHANGED <<ipc, proc, child>>
       \/ /\ (program = "filter" /\ Chat!Next) \/ (program = "pipe" /\ Pipe!Next)
          /\ UNCHANGED <<ipc, net, files>>
       \/ program = "children" /\ Ten!Next /\ UNCHANGED <<ipc, net, queues, files>>
    /\ UNCHANGED program

\* The steps of a server or a parent, of a child, and of one of many programs:
\* each of them goes on while it can. The two threads and their main are fair
\* together.
Main ==
    /\ \/ /\ \/ program = "tcp" /\ Tcp!Serve /\ UNCHANGED queues
             \/ program = "number" /\ Number!Serve /\ UNCHANGED queues
             \/ program = "stream" /\ Stream!Serve /\ UNCHANGED <<child, queues>>
             \/ program = "posix" /\ Posix!Serve /\ UNCHANGED <<child, backlog>>
             \/ program = "sysv" /\ SysV!Serve /\ UNCHANGED <<child, backlog>>
             \/ program = "dgram" /\ Dgram!Serve /\ UNCHANGED <<child, backlog>>
          /\ UNCHANGED <<ipc, proc, files>>
       \/ /\ program = "mutex" /\ Mutex!Next
          /\ UNCHANGED <<shmKey, semKey, net, child, queues, files>>
       \/ program = "file" /\ File!Next /\ UNCHANGED <<ipc, net, child, queues>>
       \/ program = "net" /\ Net!Serve /\ UNCHANGED <<ipc, proc, child>>
       \/ /\ (program = "filter" /\ Chat!Parent) \/ (program = "pipe" /\ Pipe!Parent)
          /\ UNCHANGED <<ipc, net, files>>
       \/ program = "children" /\ Ten!Parent /\ UNCHANGED <<ipc, net, queues, files>>
    /\ UNCHANGED <<scene, program>>

Child ==
    /\ \/ program = "filter" /\ Chat!FilterSteps /\ UNCHANGED <<ipc, net, files>>
       \/ program = "pipe" /\ Pipe!ChildStep /\ UNCHANGED <<ipc, net, files>>
       \/ program = "children" /\ Ten!ChildExits /\ UNCHANGED <<ipc, net, queues, files>>
    /\ UNCHANGED <<scene, program>>

Process(p) ==
    /\ \/ /\ p \in Procs
          /\ \/ program = "simple" /\ Simple!Moves(p)
             \/ program = "single" /\ Single!Moves(p)
             \/ program = "multiple" /\ Multiple!Moves(p)
             \/ program = "text" /\ Text!Moves(p)
             \/ /\ program = "connect" /\ p \in Clients /\ Named!Moves(p)
                /\ UNCHANGED <<shmKey, semKey, mem>>
          /\ UNCHANGED <<net, child, queues, files>>
       \/ /\ p \in Clients
          /\ \/ program = "tcp" /\ Tcp!Child(p) /\ UNCHANGED queues
             \/ program = "number" /\ Number!Moves(p) /\ UNCHANGED queues
             \/ program = "stream" /\ Stream!Moves(p) /\ UNCHANGED <<child, queues>>
             \/ program = "posix" /\ Posix!Wait(p) /\ UNCHANGED <<child, backlog>>
             \/ /\ program = "dgram" /\ p \in Writers /\ Dgram!Wait(p)
                /\ UNCHANGED <<child, backlog>>
          /\ UNCHANGED <<ipc, proc, files>>
       \/ /\ program = "sysv" /\ p \in DOMAIN Pid /\ SysV!ClientMsgrcv(p)
          /\ UNCHANGED <<child, backlog, ipc, proc, files>>
       \/ /\ program = "net" /\ p \in Clients /\ Net!Talk(p) /\ UNCHANGED <<ipc, proc, child>>
    /\ UNCHANGED <<scene, program>>

\* A writer, and a client, that waits for a semaphore gets it some time.
Lock(w) ==
    /\ (program = "simple" /\ Simple!P(w)) \/ (program = "single" /\ Single!Lock(w))
    /\ UNCHANGED <<net, child, queues, files, scene, program>>

Fairness ==
    /\ WF_vars(Main) /\ WF_vars(Child)
    /\ \A p \in Procs \cup DOMAIN Pid : WF_vars(Process(p))
    /\ \A w \in Writers : SF_vars(Lock(w))

Spec == Init /\ [][Next]_vars /\ Fairness
-----------------------------------------------------------------------------
\* Each semaphore keeps the units it was created with: they are in the set or
\* with programs, alive or killed.
UnitsKept ==
    /\ program = "simple" => Simple!TenUnits
    /\ program = "single" => Single!OneUnit
    /\ program = "multiple" => Multiple!OneToken
    /\ program = "connect" => Named!OneUnit

\* What a program protects is used by one at a time, or by readers only.
Exclusion ==
    /\ program = "simple" => Simple!Exclusion
    /\ program = "single" => Single!Exclusion
    /\ program = "multiple" => Multiple!Exclusion
    /\ program = "mutex" => Mutex!Exclusion
    /\ program = "connect" => Named!Exclusion

\* What a client is told is meant for it and for nobody else.
OwnAnswer ==
    /\ program = "multiple" => Multiple!OwnAnswer
    /\ program = "number" => Number!Unique
    /\ program = "posix" => Posix!OwnAnswer
    /\ program = "sysv" => SysV!OwnAnswer
    /\ program = "stream" => Stream!OwnAnswer
    /\ program = "dgram" => Dgram!OwnAnswer

\* A server counts the clients it serves, and a parent collects every child.
Counted ==
    /\ program = "tcp" => Tcp!CounterRight
    /\ program = "number" => Number!NoneForgotten
    /\ program = "children" => Ten!Counted

\* The names of queues, sockets and objects go with the programs that made them,
\* at SIGINT too; only a lost one leaves its name.
Released ==
    /\ program = "posix" => Posix!Released
    /\ program = "stream" => Stream!Released
    /\ program = "dgram" => Dgram!Released
    /\ program = "text" => Text!Released

\* What arrives, in a file or at a process, is what was sent.
Faithful ==
    /\ program = "file" => File!Faithful
    /\ program = "net" => Net!Faithful
    /\ program = "filter" => Chat!Faithful
    /\ program = "pipe" => Pipe!Faithful

\* "Programm zum kopieren von Datei <param1> nach <param2> mit identischem
\* Inhalt", says clone.c: what it has copied is equal to the source.
SameContent == program = "file" => File!SameContent

\* What is waited for, and when it is over.
Waits(c) ==
    CASE program = "simple"   -> Simple!Stopping(c)
      [] program = "single"   -> Single!Stopping(c)
      [] program = "multiple" -> Multiple!Asking(c)
      [] program = "text"     -> Text!Stopping(c)
      [] program = "mutex"    -> Mutex!Busy
      [] program = "connect"  -> Named!Waiting(c)
      [] program = "tcp"      -> Tcp!Waiting(c)
      [] program = "number"   -> Number!Waiting(c)
      [] program = "stream"   -> Stream!Waiting(c)
      [] program = "posix"    -> Posix!Waiting(c)
      [] program = "sysv"     -> SysV!Waiting(c)
      [] program = "dgram"    -> Dgram!Waiting(c)
      [] program = "file"     -> ~File!Ended
      [] program = "net"      -> Net!Waiting(c)
      [] program = "filter"   -> Chat!Sending
      [] program = "pipe"     -> Pipe!Begun
      [] program = "children" -> Ten!Begun

Over(c) ==
    CASE program = "simple"   -> Simple!Freed
      [] program = "single"   -> Single!Freed
      [] program = "multiple" -> Multiple!At(c, "end")
      [] program = "text"     -> Text!Freed
      [] program = "mutex"    -> Mutex!Joined
      [] program = "connect"  -> Named!In(c)
      [] program = "tcp"      -> Tcp!Heard(c)
      [] program = "number"   -> Number!Served(c)
      [] program = "stream"   -> Stream!Served(c)
      [] program = "posix"    -> Posix!Served(c)
      [] program = "sysv"     -> SysV!Served(c)
      [] program = "dgram"    -> Dgram!Served(c)
      [] program = "file"     -> File!Ended
      [] program = "net"      -> Net!Served(c)
      [] program = "filter"   -> Chat!Ended
      [] program = "pipe"     -> Pipe!Ended
      [] program = "children" -> Ten!Ended

\* Nobody waits for ever (the conditions are those of the modules): who asks
\* gets an answer, what was begun is ended. The writers stand for the others,
\* which are like one of them in every program.
Ends == \A c \in Writers : Waits(c) ~> Over(c)
=============================================================================
