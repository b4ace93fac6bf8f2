# Verification of ba-embedded-systems

TLA+ models of the programs in this repository, the TLC configurations that
check them on small instances, and theorems about them that TLAPS has proved
for every instance. The repository is a collection of small C programs about
processes, threads, signals, semaphores, shared memory, message queues and
sockets. Each directory is a program, or a client and a server, of its own; what
they have in common is the kernel. The correctness of nearly all of them lies in
how a few processes interleave, end, and look at the same kernel object.

Paths below are relative to `src/`.

* [The system](#the-system)
* [The modules](#the-modules)
* [The runs](#the-runs)
* [Fairness](#fairness)
* [What is proved](#what-is-proved)
* [Weaknesses of the code](#weaknesses-of-the-code-the-models-show)
* [What is left out](#what-is-left-out)
* [Plan](#plan)

## The system

### Modelled

| Part | State | Operations | What is hard about it | What makes it correct |
|---|---|---|---|---|
| `templates/semaphore-read-write`, advanced lock | a set of two semaphores: readers inside, a writer present | set and release, for readers and writers; a writer's set is two `semop` calls | the gap between the two calls; no `SEM_UNDO`, so what a killed program added stays; `SEMVMX` | a writer is alone; a waiting writer shuts the door; nobody starves |
| `templates/semaphore-read-write`, advanced programs | segment and semaphore set under a key, each process's identifiers | creation, attaching, greeting, read loop, write, removal in an exit handler that `SIGINT` runs as well | creation is `semget` and then `SETALL`; removal is `shmctl` and then `semctl`; tests without the lock | exclusion in every set; whole lines; everything is freed; the stop message stops |
| `09-signal-sync` | pending signals of parent and child | `kill`, `pause`, the empty handler | a signal between `kill` and `pause` is lost | lines alternate; one process has the turn; the program ends |
| `templates/file-thread-copy` | one buffer, one flag, mutex and condition variable | producer reads, consumer writes | one condition variable for both directions, `signal` after `unlock`, spurious wakeups, failing reads and writes | a block-wise copy in order, nothing lost, nobody asleep for ever |
| `10-message-copy` | one System V queue for both directions | NAM, LEN, BLK, BYE and their answers | `msgrcv` with type 0 takes any message; descriptor of an earlier client; queue left over from a crash | blocks in their places; each side hears the other |
| `11-unix-socket-copy` | streams, the server's last message | INFO, DATA, BYE and their answers | end of stream is not noticed and old values are used again; `SIGPIPE`; `ECONNRESET`; a short write passes for a success | one client per file; success means copied; the next client is served |
| `13-network-copy` | TCP streams, the server's last message and file | path, length, blocks, BYE and their answers | no result of a read is looked at, and a read may bring part of a message; refused clients' connections stay open; disk and descriptors run out; both may write | what is stored begins with the client's file; a client ends |
| `12-multi-thread-copy` | threads, shared `accept_socket`, static response, descriptors, streams | accept, one thread per client, the protocol of 11 | threads share variables and the process; short reads; `SIGPIPE`; descriptors | files are faithful; success means copied; no leaks; socket file follows the server |
| `templates/semaphore-read-write`, simple lock | one semaphore of value 10, a segment | a reader takes 1, a writer 10; creation in any program, removal by the first reader | creation is `semget` and then `SETVAL`; no `SEM_UNDO`; a writer needs all units at once | ten units, in the set or with programs; a writer is alone |
| `templates/semaphore-single` | segment, one semaphore | server polls, clients write | a client between `SETVAL` and the greeting; a second server sets the semaphore anew | one unit; exclusive access; the stop message stops |
| `templates/semaphore-multiple` | segment, three semaphores | request, answer, removal by a server that was told to stop | one token goes through three semaphores; clients sleep in a set that is removed | the answer is the client's own; everybody ends |
| `templates/semaphore-sync` | a named semaphore | create or open, wait, post | a killed holder | one run at a time |
| `templates/memory-shared` | a POSIX object without any lock | server prints, clients write | the creation in steps; a second server removes the name of the first | the name is freed; the stop message stops |
| `templates/thread-sync-mutex` | mutex, cancellation, cleanup handlers | trylock, lock, cancel, unlock in a handler | cancellation at any cancellation point | never both inside; a cancelled holder releases |
| `templates/network-tcp-stream` | a counter, children, the backlog | accept, fork, refuse; `SIGCHLD` handler | counter changed by `main` and by the handler; one signal for two children | the counter is right; never more than MAXCONN; who connects hears something |
| `templates/socket-stream-server` | a number, children, the backlog | iterative and parallel server | number before `fork`; signals that run together; a handler that does not save `errno`; `SIGPIPE` | no number twice; no zombie forgotten; everybody gets one |
| `templates/message-queue-posix`, `message-queue-system-v` | queues, their names, the server's job | order, result, removal in an exit handler that `SIGINT` runs as well | queues fill; a client or server is gone; what a crash left is found again; a pid is used again | the result is that of the client's order; names go; a waiting client gets its result |
| `templates/socket-stream-listener`, `datagram-exchange` | local sockets with names, the server's order | the same over streams and datagrams | old orders at the end of a stream; a client that is gone; names left behind | the same |
| `05-file-copy`, `07.1-file-cloning` | two files, position, buffer | open, truncate, copy, in steps that may fail | short writes, failing reads, both paths lead to one file | success means equal contents; the source is left alone |
| `templates/socketpair-chat` | a socket pair, a filter | send all, shut down, read all | nobody reads while lines are sent; reads know nothing of lines, and the buffer is printed without an end | what is read is the answer, in order; both end |
| `templates/pipe-handling`, with a child | a pipe and who holds its ends | fork, close, write, read, exec | an end left open keeps a reader asleep | the child has the text; both end |
| `templates/singnal-handling/signal-termination.c` | children, a pending `SIGCLD` | fork, pause, the handler | `SIGCLD` before `pause` | every child is collected; the parent ends |

Programs of different directories do not talk to each other. Within a directory
they interact through the kernel object named above (there are no callbacks
apart from signal, exit and cleanup handlers).

### Not modelled yet

| Part | What it is | Why not |
|---|---|---|
| `04-bubble-sort`, `07.2-file-locator` | pure algorithms: a sort, the walk up to the root | planned as functions against reference definitions |
| `08.1` - `08.3` | `fork`, `exec`, `wait` without shared objects | planned; `signal-termination.c` and the pipes are the interesting cases of the same calls |
| `templates/pipe-reader-timeout`, `pipe-simple`, `pipe-open-close` | a reader with a timeout; one process that talks to itself | the first is planned; in the others nothing can interleave |
| the other programs of `templates/singnal-handling` | one process that loops and prints while signals arrive | what a signal does is one assignment there; planned together |
| `templates/thread-simple`, `thread-parallel`, `thread-data-keys` | threads without shared state | no state that two of them see |
| `templates/network-udp-datagram`, `network-echo`, `network-capture`, `datagram-simple` | loops of one receive and one print | I/O only |
| `templates/memory-mapping` | writer and reader of a mapped file, run one after the other | I/O only |
| `01` - `03.2`, `06.*`, `templates/terminal-non-block-input`, `templates/file-create-write-read` | no state that lasts | I/O and floating point only |

## The modules

| Module | Models | Uses |
|---|---|---|
| `AdvancedLock` | `advanced-lock.c`, one operator per `semop` | |
| `ReadersWriters` | abstract: what a readers/writers lock promises | |
| `AdvancedLockUsers` | any number of readers and writers around the lock, killed anywhere | `AdvancedLock`, refines `ReadersWriters` |
| `AdvancedShm`, `AdvancedShmProofs` | `advanced-reader.c`, `advanced-writer.c` and the kernel objects they share | `AdvancedLock` |
| `SignalDialog` | `dialog.c` | |
| `Copy` | abstract: a copy in order | |
| `FileThreadCopy` | `thread_copy.c` | refines `Copy` |
| `LockProofs` | theorems about the lock and the copy by two threads | `AdvancedLockUsers`, `FileThreadCopy` |
| `MessageCopy`, `MessageCopyProofs` | `10-message-copy` | |
| `UnixSocketCopy`, `UnixSocketCopyProofs` | `11-unix-socket-copy` | |
| `ThreadCopy`, `ThreadCopyProofs` | `12-multi-thread-copy` | |
| `NetworkCopy` | `13-network-copy` | |
| `Ipc` | one segment and one semaphore set of the kernel, the life of a program that uses them | |
| `SimpleLock`, `ShmServer`, `ShmRequest`, `SharedText` | `simple-*.c`, `semaphore-single`, `semaphore-multiple`, `memory-shared` | `Ipc` |
| `CancelMutex` | both programs of `thread-sync-mutex` | |
| `Connect` | `semaphore-sync/connect.c` | |
| `TcpServer` | `network-tcp-stream` | |
| `NumberServer` | both servers of `socket-stream-server` | |
| `PosixCalculator`, `SysVCalculator`, `StreamCalculator`, `DatagramCalculator` | the four calculators | |
| `FileCopy` | `copy.c` and `clone.c` | |
| `Filter` | `socketpair-chat.c` | |
| `PipeChild` | `pipe-fork.c`, `pipe-execute.c`, `pipe-duplicate.c` and what they execute | |
| `Children` | `signal-termination.c` | |
| `Common`, `Services`, `Transfers` | what the small programs share: the constants and variables of those that serve clients and of those that move bytes, an instance of each | servers, calculators; copies, pipes, children |
| `Templates` | one specification that runs one of the seventeen small programs | `Services`, `Transfers`, the programs around `Ipc`, `CancelMutex`, `Connect` |
| `ServiceProofs` | theorems about the servers and the calculators | `Services` |
| `TransferProofs` | theorems about the dialog, the copies, the pipes and the children | `Transfers`, `SignalDialog` |
| `TemplateProofs` | theorems about semaphores, shared memory and the mutex, and about `Templates` as a whole | `Templates`, `ServiceProofs`, `TransferProofs` |
| `MCTemplates` | values and scenes of `Templates` | `Templates` |

`MC...` modules hold model values and scenes for TLC and nothing else. The
seventeen small programs are checked by one run: `Templates` has a variable
`program` that `Init` chooses and no step changes, each program takes the
variables it needs and leaves the others `None`, and a property says for each
program what it means there. They do not interact; what they share is the
question.

### Conventions

*One system call, one step.* Between two system calls of a process anything may
happen, so each call that others can observe is an action, together with what
the code does with its result. Calls nobody else observes (the `open`,
`ftruncate` of the only process that uses the files) are taken together.

*Scenes.* Several properties depend on what people do with the programs (are
they started one by one, may they be killed) and on timing that no code
enforces. These modules have a variable `scene`, chosen by `Init` and never
changed, with the clients that run, file sizes, existing files, and the faults
that may happen; a property that needs a condition names it as a condition on
`scene`. One run checks all scenes of a module, and every condition is met by
some scene and not met by another.

*Data.* A block of a file is a number with its client; sizes and offsets count
blocks. A read from a local stream takes one unit another program wrote, apart from
`ThreadCopy`, where two threads may read from one stream and units can be torn. Where
the code meets parts of messages (TCP in `NetworkCopy`, a socket pair in `Filter`), a
read may bring a part. A write to a full disk may be short in every module that
writes files; what the properties say of the file then is part of them.

*Undefined behaviour.* A variable that is read before it is set (`conversation`
in `11-unix-socket-copy/server.c:55`, `fd` in `10-message-copy/server.c:118`,
`msgt` in `12-multi-thread-copy/server.c`) may hold any value the code tells
apart.

*Slips.* Some definitions have a neighbour with a longer name and a comment that
begins with "A slip" (`releaseWriteLockForgotten`, `OpenFileShared`). They are
not part of any specification. Each is a plausible mistake in the code, and with
it in the place of the definition it stands beside, a property fails; that is
how we know what each property notices.

*Types.* In the modules of `Templates` the type invariant is the first
conjunct of one of the module's safety properties (`TenUnits`, `CounterRight`,
`Faithful`, ...), so that the run checks it.

### AdvancedLock, AdvancedLockUsers

`sem` is the semaphore set. A `semop` with two operations is one atomic step. A
process that sleeps in it is a process whose step is not enabled.
`setWriteLock` is two steps (`setWriteLock1`, `setWriteLock2`), because it is two
`semop` calls. `setReadLock` fails with `ERANGE` at `SEMVMX`
(`setReadLockRange`). `dead` are the programs killed while they held something:
their units stay.

### AdvancedShm

`semKey` and `shmKey` are what the key leads to; a set and a segment are named
after the process that created them, so that a process with the identifiers of
an old one is told apart from one of the present. `mem` is the text in the
segments, in two halves, because neither `strncpy` nor `printf` is atomic.
`Armed` says that `atexit` and `sigaction` have been called; from then on
`SIGINT` runs `exithandler` (`Interrupt`), before it kills. `Released` needs one first
reader (`OneFirst`): a second one that finds the segment of the first, and loses it
before it maps it, leaves its set behind.

### SignalDialog

`pending[p]` is a flag, as signals do not count. `EnterPause` and `Deliver` are
separate: a signal delivered before the process is inside `pause` is lost. `Rounds` is
how often each process prints.

### FileThreadCopy

Each thread is inside or outside the mutex or asleep at the condition variable;
`SpuriousWakeup` is allowed by POSIX. `Fill` and `Drain` are what the
threads do under the mutex. A short `write` drops the rest of the buffer
(`shortWrites`).

### MessageCopy

`msgsnd` hands a message to the process that has slept longest in `msgrcv`
(`waiting`, `inbox`), or puts it into `queue` when it fits. The queue is removed by
`SIGINT` and survives a crash; `qid` counts its incarnations, and a client with
an old one fails. What the queue holds is counted by kinds of messages (`Bytes`), so
that no recursion over it is needed. `HeardByTheOther` and `Copied` are about clients
that are run one after the other (`patient`): one that starts while another sends
blocks may find a block where it expects its answer. On a failing disk `open` may fail as
well as `ftruncate` and `write`, each with an ERROR as its answer; a write that is short is
answered so, too, and the bytes it has stored are left out, as no property is about files
on such a disk.

### UnixSocketCopy

A connection has two streams and two ends. `ServerReads` is a `read()` of the
server with its three outcomes: data, end of stream (the variable keeps its
value: `srv.conv`, `srv.name`), failure. `Dies` closes all connections, by
`exit()` with the socket file removed, by `SIGPIPE` without. `Store` is the `write()` of a
block, which the server compares with 0 only: `StoreInPlace` where the offset is where the
block belongs, `StoreBehind` once a short write has left it behind, so that every later
block lies before its place and may cover the border of two. `Torn(c)` stands for bytes
of client `c` that are not the block of that place. `OneClientPerFile` and `DoneMeansCopied`
name these bytes: on a disk that may be full they are all that can be wrong.

### ThreadCopy

`srv.accept_socket` is the variable of `main` whose address each thread gets;
`response` is the static variable of `send_response`, set in one step
(`SetResponse`) and sent in another (`WriteResponse`). `open` are the
descriptors in use. `Store` has three outcomes: the whole block, a part of it (`Torn`) that is
answered SUCCESS and followed by the next block, an ERROR. `FilesFaithful` says where the
parts may be; `CopiedUnlessRefused` is about disks that do not fail (`NoErrors`).

### Ipc and its modules

`shmKey`, `semKey` are what the keys lead to, `mem` the text of each segment, `sem`
the values of the set under the key. A `semop` on a removed set fails, also for
those who sleep in it. `proc[p].sem` says which set a process has. `UnitsKept`
counts units one by one: `InSet`, what is in the semaphores, and `Taken`, what programs
have taken and not given back, killed ones included. It says that there are none
before the first `SETVAL` or `SETALL`, and the whole number ever after.
`SimpleLock` adds a removal by the first reader and a creation by whoever finds
nothing; `ShmServer` and `ShmRequest` a server that sets semaphores which are
there already; `SharedText` has no semaphore at all, and its creation takes three
steps (`shm_open`, `ftruncate`, `mmap`): a client that touches the object before
`ftruncate` dies of `SIGBUS`. Programs that detach the segment before they end
(`simple-reader.c`, `shmserver.c`) do so in a step of their own (`Shmdt`): afterwards their
segment goes with the removal, and an exit handler that `SIGINT` runs a second time finds
nothing to remove, so the set stays.

`SIGINT` may come at every step of every program that can be named in the scene. In
`SharedText` and the calculators it runs the exit handler, and the program is at `end` (a
server at `down`) with its name removed; it is `lost` when the signal comes before `sigaction`,
or again in the handler, or when it crashes. `Released` says that whoever is at `end` or `down`
has no name, and what it takes to be lost.

### CancelMutex, Connect

A cancelled thread goes on to its next cancellation point; the handlers it
pushed run there. `mutex` is the thread that locked last. In `Connect` a run is
killed at any step, and the semaphore keeps its value.

### TcpServer, NumberServer

An increment is two steps (`load`, `store`) and the handler runs between any two
steps of `main`; `pending` is a flag. `drift` says that a decrement was lost.
Children are named after their clients. `NumberServer` has both servers
(`scene.parallel`); the number leaves the server in `write`, and a connection whose
client was killed raises `SIGPIPE`. An `accept` that a `SIGCHLD` interrupts is one step, the look at `errno`
another (`Again`): when the last child ends in between, the `waitpid` of the handler has left
`ECHILD` there, and the server exits.

### The calculators

An order is its client and its number; the result is the order itself, as the
arithmetic does not matter to who gets it. `life` counts the starts of the server
after crashes; a POSIX queue, a System V queue or a socket that was left is
found by the next one. In `SysVCalculator` the queue is one (`Cap`), results are
selected by process id (`Pid`), and two clients may have the same. In
`StreamCalculator` the server keeps its `order` when `read` returns 0.
`DatagramCalculator` has `names`, the sockets in the file system, apart from
their contents.

### FileCopy, NetworkCopy

A file is a sequence of bytes or `None`; `same` says that both paths lead to one
file. `copy.c` may end with success after a read failed or a write was short;
`clone.c` writes into a private mapping. `NetworkCopy` keeps the server's variables
from client to client as `main` does: `path`, `size`, `type`, `block`. `Answer` and
`Send` are `write()` with its four outcomes: sent, asleep, the cause of a reset,
`SIGPIPE`. A `read()` takes a whole message (`Received`), or a part of one (`Part`) on the
connections the scene names (`short`): the variable that is read then holds any value, and the
connection is marked `torn`, as each later read there may begin anywhere. A write to a disk that is
nearly full stores what fits (`Fitting`).

### Filter, PipeChild, Children

The filter is any program, of four kinds: it answers each line, or all at the
end, or reads only the first one, or cannot be executed. A line is two halves, and a read of the
parent takes all that is there and fits, half lines included (`Taken`). The buffer it prints
keeps what stood behind the new bytes (`Behind`): the rest of a longer string, or after a shorter
one whatever is in memory up to a zero byte. So the module has two texts: `got`, what was read,
which is the answer in order, and `shown`, what was printed, which is the same as long as each read
brings as much as the string it replaces has (`exact`). The input ends with a newline: `feof` makes
the parent drop a last line without one. In `PipeChild` the pipe
has the sets of those that hold its ends (`reads`, `writes`); a read returns "end"
only when nobody holds the writing end. `Children` has a child's life: alive,
zombie, reaped.

## The runs

All runs use model values; symmetry is not used, as the clients of a scene differ.

| Run | Instance | States | What it shows |
|---|---|---|---|
| `lock` | 3 readers, 2 writers, all mortal, `SEMVMX` = 2 | 736 | `SemsExact`: the semaphores are exact, whoever was killed. `NoBarging`: a writer shuts the door. `Abstract`: four `semop`s implement `ReadersWriters`. `AllServed`: without dead holders nobody starves |
| `shm` | 5 scenes of 2 or 3 programs | 35 k | `Exclusion` in every set under the key, `WholeLine`, `Released`, `Stops` |
| `shm_leak` | 1 scene | (violation) | `ReleasedInAnyCase` fails: `SIGINT` during the exit handler |
| `dialog` | `Rounds` = 20, the number in the code | 483 | `Alternation`, `OneTurn`; `EndsUnlessLost`: only a lost signal stops it |
| `dialog_lost` | the same | (violation) | `Terminates` fails: a signal can be lost |
| `copy` | five bytes through a buffer of two (3 blocks), failing reads, failing and short writes, spurious wakeups | 971 | `NothingLost`, `NotBothAsleep`, `CopiesInOrder` (refinement of `Copy`), `Finishes` |
| `message` | 8 scenes of 1 or 2 clients, capacity 6 | 68 k | `InPlace`, `HeardByTheOther`, `Copied`, `EndsUnlessEaten` |
| `socket` | 5 scenes of 2 or 3 clients | 206 k | `OneClientPerFile`, `DoneMeansCopied`, `Served` |
| `thread` | 5 scenes of 2 clients | 179 k | `FilesFaithful`, `NoMixing`, `CopiedUnlessRefused`, `NothingLeaks`, `PathFollowsServer`, `Served` |
| `thread_response` | 1 scene | (violation) | `SuccessMeansCopied` fails: two threads share the response |
| `templates` | 17 programs, 1 to 48 scenes each | 303 k | `UnitsKept`: no unit of a semaphore is lost or made. `Exclusion`. `OwnAnswer`: a client gets what is meant for it. `Counted`: counters and collected children. `Released`: names of queues, sockets, objects go with their programs, by `SIGINT` at any step too. `Faithful`: what arrives is what was sent. `Ends`: who waits is served, what was begun ends |
| `clone` | the same | (violation) | `SameContent` fails: a private mapping does not reach the file |

`lock` also checks `UsersTypeOK`, and `dialog`, `copy` and `message` check `TypeOK`; in the
other passing runs the types are a part of a property named above (`Released` in `shm`,
`NothingLeaks` in `thread`).

**Why the bounds are enough.**

* `lock`: three readers against `SEMVMX` = 2 is one too many, so `ERANGE` happens;
  two writers compete between their two `semop` calls while readers are inside.
  Everything beyond that is proved.
* `shm`: two first readers are enough to have an old and a new set at one time, a
  writer and a further reader to hold identifiers of the old one. Two writers
  compete. SIGINT is tried at every step of every kind of program.
* `dialog`: 20 is the number in the code.
* `copy`: with three blocks the buffer is filled, drained and filled again, and
  the last block is shorter than the buffer.
* `message`: two clients are enough for one to take the answer of another; a file
  of three blocks with a queue of 6 fills the queue; two starts show the new
  server the old queue.
* `socket`: the server handles one client at a time, so two clients in sequence
  are enough for old values to be used again, and a third for the backlog to
  fill and for a server to meet the effects of two killed clients.
* `thread`: two threads are enough to share `accept_socket` and `response`; `maxFd`
  is chosen so that the limit is reached in one scene and not in another.
* `templates`: `SimpleLock` has two first readers one after the other, one that is
  killed, a further reader and two writers; `ShmServer` and `ShmRequest` two servers
  and two or three clients, with and without kills. `TcpServer` has MAXCONN = 2 and
  three clients, one too many, and a scene with one descriptor too few; three
  clients make two children that end together while a third is accepted.
  `NumberServer`: three clients, a backlog of 2. The calculators: a client more than
  the queue or the socket holds, two orders a client (one where a second cannot be
  sent), a crash and a second start, `SIGINT` for a client or for the server, at every step and
  in the exit handler as well;
  `SysVCalculator` has a client with the process id of a killed one. `FileCopy`: a
  buffer and a half, each combination of existing files, failures on and off;
  the sizes are arbitrary in the proof. `NetworkCopy`: three clients, a file of one
  and a half blocks, one of half a block and one of a whole one, one file too long
  for the disk, two clients with one path, two killed, and one whose reads bring parts of
  messages while the others' do not. `Filter`: exactly what two
  directions and a filter hold, and one line more; a buffer shorter than two lines, so that a read
  ends within one. `Children`: ten, as in the code.

## Fairness

A process or thread that can take its next step takes it (weak fairness): the
kernel schedules everybody. One condition is attached per process, so no
process is assumed to choose a particular branch. Nobody has to start a program,
press Control-C, be killed, or have a failing disk; these actions are never fair.

In `AdvancedLockUsers` and `AdvancedShm` the two operations that compete for `sem[1]` have
strong fairness: the kernel keeps pending `semop` calls in a list and completes
those a change enables in the order of their arrival, so one that is enabled
again and again is performed. The second `semop` of a writer
needs weak fairness only, because the door is shut.

`Templates` states fairness once for all programs: one weak condition for `main`
of a server or a single program, one for a child, one per client (or thread, or
run), and a strong one for the `semop` with which a writer of `SimpleLock` and a
client of `ShmServer` wait, for the reason above. `Ends` is checked for two of the
clients: in every program the others are like one of them. The two threads of
`CancelMutex` and `main` are fair together, which is weaker than what the kernel
does.

In `MessageCopy` the same order is part of the model (`waiting`), so weak fairness
is enough.

## What is proved

TLAPS checks all proofs from `Init` and `Next`, for arbitrary constants that
satisfy the named assumptions. Every safety invariant that a passing run checks is
stated by a theorem, and so are the action property `NoBarging` and both
refinements.

| Theorem | Says | Assumptions |
|---|---|---|
| `LockProofs!Exclusion` | a writer inside is alone, dead programs included | `UsersAssumption`: finitely many readers, readers are not writers; `SemvmxAssumption`: SEMVMX > 0 |
| `LockProofs!Counting`, `UsersTypeCorrect` | `SemsExact`, `UsersTypeOK` | the same |
| `LockProofs!DoorShut` | `NoBarging` | the same |
| `LockProofs!Implements` | `AdvancedLockUsers` implements `ReadersWriters` | the same |
| `LockProofs!BufferExclusive` | the buffer is used under the mutex | `CopyAssumption`: the source is a finite sequence, the buffer holds at least one byte |
| `LockProofs!NoByteLost` | destination and buffer are what has been read | the same |
| `LockProofs!ImplementsCopy` | `FileThreadCopy` implements `Copy` | the same |
| `LockProofs!OneAwake`, `TypeCorrect` | `NotBothAsleep`: one condition variable is enough; `TypeOK` | the same |
| `TransferProofs!LinesAlternate` | `Alternation` | `RoundsAssumption`: at least one round |
| `TransferProofs!OneTurnOnly`, `TypeCorrect` | `OneTurn`, and no process dies of the signal; `TypeOK` | the same |
| `TransferProofs!NoneLeft` | `Counted` of `Children`, for any number of children | `SizesAssumption`: numbers of lines and children are natural, a buffer or a block holds one byte at least, the one of `socketpair-chat` two; `TransfersAssumption`: scenes are scenes |
| `TransferProofs!CopyFaithful` | `Faithful` of `FileCopy`, for every source and buffer size | the same; `FilesAssumption`: files are finite sequences; `NoneAssumption`: `None` is no client, number or file |
| `ServiceProofs!NoNumberTwice` | `Unique`: no number for two clients, for both servers | `None` is no number |
| `ServiceProofs!NoZombieForgotten` | `NoneForgotten`: types, the count, and a zombie means a pending `SIGCHLD` or a dead server | `NoneAssumption`; `ClientsAssumption`: finitely many clients; `ServicesAssumption`: scenes are scenes |
| `ServiceProofs!NeverMoreThanMaxConn` | `AtMostMaxConn` | finitely many clients, MAXCONN is a natural number |
| `ServiceProofs!CounterExact` | `CounterRight`: the counter is exact until a decrement is lost or a fork fails | `ClientsAssumption`, `BoundsAssumption`: the bounds are natural numbers; `ServicesAssumption` |
| `TemplateProofs!OneInside` | `Exclusion` and `OneUnit` of `Connect` | `None` is neither 0 nor 1 |
| `TemplateProofs!AllUnitsKept` | `UnitsKept`: `SimpleLock`, `ShmServer`, `ShmRequest`, `Connect` | `ProgramsAssumption`: finitely many processes, each a server or a client, writers are clients, `None` is no process, the first value of the semaphore is positive; `ScenesAssumption`: scenes are scenes; `NoneAssumption` |
| `TemplateProofs!AllExclusion` | `Exclusion`: the same and `CancelMutex` | the same |
| `TemplateProofs!AllOwnAnswer` | `OwnAnswer`: `ShmRequest`, `NumberServer` and the four calculators | the same, `BoundsAssumption`, `RoomAssumption`: what sockets hold is a natural number; `ServerAssumption`: the server is no client; `ServicesAssumption` |
| `TemplateProofs!AllReleased` | `Released`: who has ended, by `SIGINT` as well, has removed the name of its queue, socket or object; who was lost had a crash, a killed client or a `SIGINT` in its scene | the same |
| `TemplateProofs!AllCounted` | `Counted`: `TcpServer`, `NumberServer`, `Children` | those of the three |
| `TemplateProofs!AllFaithful` | `Faithful`: `FileCopy`, `NetworkCopy`, `Filter`, `PipeChild` | those of `CopyFaithful`, `RoomAssumption` |
| `AdvancedShmProofs!LockExcludes` | `Exclusion` in every set under the key, while programs are started one by one | `ShmAssumption`: first readers, readers and writers are different programs, the readers finitely many, a message is a string, `None` is no program, scenes are scenes; `SemvmxAssumption` |
| `AdvancedShmProofs!LinesWhole` | `WholeLine` | the same |
| `AdvancedShmProofs!FirstReleases` | `Released`, with the types | the same |
| `UnixSocketCopyProofs!FilesNotMixed` | `OneClientPerFile`, short writes included | `SocketAssumption`: `None` is no client and, like `"other"`, no file; the backlog is a natural number; scenes are scenes |
| `UnixSocketCopyProofs!CopiedWhenDone` | `DoneMeansCopied`: the whole file, or the gap of a short write | the same |
| `MessageCopyProofs!TypeCorrect` | `TypeOK`: the queue, its capacity and its sleepers | `MessageAssumption`: finitely many clients, the capacity is a natural number, the marks of `fd` are no files, scenes are scenes |
| `MessageCopyProofs!BlocksInPlace` | `InPlace`: the blocks of a lone client | the same |
| `MessageCopyProofs!EachHearsTheOther` | `HeardByTheOther` | the same |
| `ThreadCopyProofs!FilesUnmixed` | `NoMixing`, in every scene | `ThreadCopyAssumption`: finitely many clients, clients and files are different, `Nobody` is no client, the empty name is neither, scenes are scenes |
| `ThreadCopyProofs!FilesInOrder` | `FilesFaithful`, short writes included | the same |
| `ThreadCopyProofs!DoneIsCopied` | `CopiedUnlessRefused` | the same |
| `ThreadCopyProofs!DescriptorsClosed` | `NothingLeaks`, with the types | the same |
| `ThreadCopyProofs!PathIsServers` | `PathFollowsServer` | the same |

The `All...` theorems are about `Spec` of `Templates`, the specification the run `templates`
checks. For each of them one invariant says of every program what holds while that one
runs; a step of the whole is a step of the program that runs (`OneProgram`), so each
program brings an invariant and its proof with it, and nothing else is needed.

**The lock.** `MutualExclusion` is not inductive: whether `releaseReadLock` may
be followed by a writer depends on `sem[0]` being the *number* of readers
inside, and on `sem[1]` belonging to exactly one writer. `LockInv` adds
`SemsExact` and `UsersTypeOK`. The counting rests on two lemmas about the
cardinality of `Reading` with one reader more or less. `DoorShut` and
`Implements` use `LockInv` in the state before the step: a reader that enters
found `sem[1]` = 0, so nobody is announced and nobody is writing; a writer that
enters found `sem[0]` = 0, so `Reading` is empty.

**The dialog.** `TurnInv` says which pairs of places the two processes can be in,
with the lines printed and the signals pending: a signal is pending only for
the process whose turn it is, and the other one waits or is about to.

**The copy.** `CopyInv` relates the places of the threads, the owner of the mutex,
the flag and the buffer to the two files: the buffer is the last part of what
was read and not yet of what was written. `Places` (who holds the mutex where)
is inductive by itself and is proved first; each of `Fill` and `Drain` has a
lemma of its own, and the other steps leave the data alone (`DataUntouched`).

`OneAwake` needs `SleepInv`: the consumer sleeps only while the buffer is empty, the
producer only while it is full or the consumer is about to signal.

**The numbers.** `Unique` is about what clients have. `NumberInv` follows a number
from the server's variable over its child and the socket to the client (`Has`): of
two clients at most one has any given number, at any of these places, and the
server's next number is greater than all of them (`FreshNumber`). `CountInv` adds that a
client is in the backlog once and that the next number is at most the count of the
clients that are past it (`Few`), so that `number` stays in its type.

**The counter.** The counter of `TcpServer` drifts, but only upwards. `Covered` says,
for each step of `main`, that the live children, with one more for a `SIGCHLD` not
yet delivered, are at most the counter, or what the register will make of it; as a
fork needs the counter to be at most MAXCONN, the number of live children is
bounded. `CounterExact` is about the other direction. It needs `Fresh`: a client is
in the backlog once and has no child before its turn, so that each fork adds one
to the children counted; and `Exact`, where the register and the counter agree
until `drift` says otherwise.

**The semaphore of `connect.c`.** `ConnectInv`: its value and the runs inside are one
together, killed ones included.

**The children.** `ChildrenInv` says for each step of the parent which child there
can be: earlier ones are reaped, later ones do not exist (`Others`), and the
present one goes with the pending signal (`Present`).

**The file copy.** `CopyInv` says what the buffer is while it is written: the piece
of the source that follows what the destination holds; `Piece` (two adjacent
pieces are one piece) turns that into the next beginning. `TwoFiles` keeps track of
the truncation, which empties the source as well when it is the destination; then
nothing is read, and the statement holds for the empty file.

**The network copy.** `NetInv` has, for each connection, the conversation (`Talks`: what
is in its two streams at each pair of places, with the backlog it waits in or the
server that serves it) and the data (`Copies`: the blocks in the stream are the bytes that
follow the server's position, and what is stored up to that position is the
client's). The length of a file is set before its blocks arrive and a last block is
written as a whole, so what is stored begins with the client's file and may go on
after it. The statement is about files that fit on the disk (`Small`) and a server that
runs (`Dead`). A connection on which a read has brought part of a message (`torn`) is given
up from then on: whatever path, length or blocks the server takes from it, the files of the
others are out of its reach, because of `O_EXCL` and since there is one connection at a time
(`OwnFile`). `InFile` and `Alone` are two small facts about the server's position and
its backlog.

**Filters and pipes.** `ChatInv`: what the parent has got and the lines on their way back
are the halves of the lines from 1 on (`InOrder`), wherever reads cut them, and each direction
holds what was put in less what was taken out (`Passed`). `Shown` is about the buffer: as long as
each read replaced the whole string, what was printed is what was read. `PipeInv`: a child that reads finds the text there, or a
parent that went without writing it, because who is to write or to read still holds its end.

**The calculators.** Their invariants share one idea: a client has one order under way,
and it is in one place (`Posix...`, `Dgram...`, `SysVFlight`). It is in a queue, or the server
has it at hand, or its result waits; it is the last one the client has sent; and the
client waits for it or is gone. An order outlives a crash of the server in a queue
that was left, which is why the place is not determined by where the server is. In
`SysVCalculator` results are addressed by process ids, which are used again; the
statement is given up for an id that a killed client had (`Stained`) and kept for
all others, and `SysVApart` says that two live clients never share one. In
`StreamCalculator` the server remembers an order for a client that has gone
(`StreamOrder`): who is still there has sent its own. `Released` comes from the same
invariants, which follow each name (`PosixNames`, `DgramNames`, `StreamPath`) through every
way to end: a program is at `end` or `down` only without a name, also after `SIGINT`, and who
is `lost` had a crash, a killed client or a `SIGINT` in its scene. `TextInv` does the same for
the object of `SharedText`: while it has a name, some server is at work that will remove it, or
was lost.

**The request.** `MultInv` follows the one token of `ShmRequest`: it is in one of the three
semaphores or with one process (`MultToken`); who has it is inside alone, and at most
one client has asked and not yet been answered (`MultEngaged`, `MultAlone`). Then the
segment belongs to that client: it holds its request until the server has taken it,
and its answer afterwards (`MultData`). None of this holds before the server has set the
semaphores, nor when it sets them a second time; `MultStart` says what the condition
`Proper` gives: while a server has `SETALL` before it, nobody is past creation.

**The ten units.** `SimpleInv` counts the units of `SimpleLock` as tokens: `InSet` has as
many as the semaphore's value, `Taken` those of each process, and their sum is `Value`
once `SETVAL` has been called, for every amount a process takes (`UnitsOf` and
`UnitsAdd` are the lemmas on cardinality, `SimpleTaken` applies them). A set between
`semget` and `SETVAL` holds nothing, and nobody has taken from it, since nobody gets more
than the semaphore holds. A writer that has all ten units is alone in its set
(`SimpleAlone`), and until a first reader ends there is one set only (`SimpleOneSet`).

**The one unit.** `SingleInv` is the same for a semaphore of value 1: who has the unit is
inside, alone, and the semaphore is 0 meanwhile (`SingleToken`). As for the
request, `SingleStart` says that a server that sets the semaphore finds nobody inside.

**The mutex.** A thread inside owns the mutex, unless thread 1, cancelled, has unlocked it
behind the back of thread 2 (`MutexInv`); a cancelled thread is no longer inside.

**The programs around the lock.** `LockInv` counts exactly; here that is too much to
ask, because a killed program leaves its units in a set and the next programs use it
again. `ShmInv` asks for a bound from one side: in the set under the key, nobody who
is inside has been forgotten (`sem[0]` is at least the number of readers inside, and
`sem[1]` is not 0 while a writer is). That is inductive only while every set is
initialised by its creator before anybody else uses it, which is what programs that
are started one by one give (`Patient`), so the invariant also says who owns each
set and that a process with an old identifier is not counted in the new one.
`LinesWhole` adds `OneText`: the two halves of the text agree, or a writer is at
work, or one was killed at work. `FirstReleases` adds `ShmLeft`, where the segment and
the set can be at each step of the only first reader.

**The socket.** `OneClientPerFile` says nothing about the streams, but what is stored
came through them. `SocketInv` describes, for the client the server talks to, the
whole conversation: which messages are in the two streams at each pair of places of
client and server, that the `n`th block follows `n - 1` stored ones, and that what
the server remembers from an earlier client (`srv.conv`, `srv.name`, `srv.n`) is used
again only after the end of a stream, when the file is closed. `Opened` says what is in the
file: the first blocks, as long as the offset is where the next one belongs; afterwards bytes of
this client only, one gap among them (`Broken`), which no later block can close, as the offset
stays behind. All other connections
hold only what a client writes before it is accepted. `CopiedWhenDone` reads off the
same invariant that a client that ends without an ERROR has been answered block by
block, so that its file is whole or has such a gap.

**The message queue.** `Base` has the types and who may wait: an answer or a sleeper
is found only at the places of the programs that call `msgrcv`, and nobody sleeps in a
queue with messages. The proof reduces each step to what it does to the mail
(`Handed`, `Queued`, `Taken`, `Sleeps`, `Left`) and reasons about these five. For a lone
client, `LoneInv` says that NAM is never under way with anything else, and that
while the server has the file open the blocks in the queue are the next ones, in
order: block `n` is at place `n - off`, less one for a block the server has received.
This holds although the client may eat its own command, and after any crash, because
a server that is started again has no file until the next NAM. For prompt partners,
`TidyInv` follows the one command under way: it is with the server, or being
answered, or with the client (`Asking`, `Answering`, `Answered`), and the queue is
empty meanwhile; it holds blocks and BYE only, of a client that expects no answer.

**The threads.** `MixInv` holds in every scene and needs nothing about streams: of the
threads that have opened their file no two have the same one (`OneWriter`, because
of `O_EXCL` and because files are never removed), and what such a thread's file holds
came from its socket (`Owns`). The other properties are about scenes where a thread has
read its argument before `main` accepts again, and rest on `PromptParts`. `Wiring`: a
connection is waiting, or has one thread, or is just being handed to one, or was left
without a thread by `pthread_create`. `Talking`: for each thread, where its client is
and what is in the two streams (`Talk`), as in `SocketInv`, but once for each pair, so
that a step is checked for its own pair and leaves the others alone (`TalkStays`).
What a file holds is `PartOf` a client's file: its first blocks in order, some of them parts;
`Stored` adds that there are no parts without a failing disk.
`Follows` puts a step of a client in one formula: wherever the thread was,
the pair is in step afterwards. `Good` says that without errors the file of a client
does not exist before its thread creates it, so the thread is not refused; that a
descriptor is left for it is a count over the files of the other clients
(`EnoughFds`). No step but a killed client's makes a thread write to a client that has
gone, so the server ends through its handlers (`DiesKeeps`).

**Only model-checked.** Liveness of every module (`AllServed`, `Stops`, `EndsUnlessLost`,
`Finishes`, `Copied`, `EndsUnlessEaten`, `Served`, `Ends`): temporal reasoning under fairness is
beyond the prover. The four runs that end in a violation have no proof, as what they
show is a behaviour.

## Weaknesses of the code the models show

Shown by a run that ends in a violation:

* `advanced-reader.c:36`: `SIGINT` during the exit handler of a normal end
  leaves the semaphore set behind, and no first reader can start again.
* `09-signal-sync/dialog.c:57`: a signal that arrives before `pause` is lost, and
  both processes sleep for ever.
* `12-multi-thread-copy/server.c:33`: the response is shared by all threads; an ERROR
  can reach its client as SUCCESS.
* `07.1-file-cloning/clone.c:142`: the destination is mapped `MAP_PRIVATE`; what
  `memcpy` writes never reaches the file, which stays full of zeros.

Named by the condition of a property that holds:

* `advanced-lock.c:75`: `SETALL` after `semget` wipes out a lock taken in between
  (`Exclusion` needs programs that are started one by one).
* `advanced-reader.c:103`: every reader writes its greeting without the lock
  (`WholeLine` needs `GreetingsOver`).
* `advanced-reader.c:19`: when `shmctl` fails, the exit handler calls `_exit` before the
  `semctl` that removes the set. That happens to a first reader that found the segment of
  another one, which then removed it (`Released` needs `OneFirst`).
* `thread_copy.c:79`: after a short write the rest of the block is lost
  (`NothingLost`, `CopiesInOrder`); after a failed write `main` waits for ever (`Finishes`).
* `10-message-copy/client.c:24`, `server.c:124`: type 0 receives one's own message. A client that
  asks for its answer before the server has taken the command gets its own command
  back, and then both sleep for ever (`EndsUnlessEaten`, `HeardByTheOther`). One that
  starts while another client's blocks are in the queue may take a block for its
  answer, and the block is lost (`HeardByTheOther` and `Copied` need `patient`).
  With a failing disk the server also sends into the queue its client fills.
* `11-unix-socket-copy/server.c:233`: a client killed after INFO makes the server spin, one
  killed after DATA makes it die of `SIGPIPE`, with the socket file left
  behind (`Served` needs that nobody is killed). One killed with an answer
  unread makes it exit. Line 272: a short write is answered SUCCESS and moves all later
  blocks to the wrong place; the client ends with success (`OneClientPerFile`,
  `DoneMeansCopied`).
* `12-multi-thread-copy/server.c:186`: a new thread may find the next client's connection in
  `accept_socket` (`prompt`); `server.c:37`: `SIGPIPE` ends the server for
  all (`PathFollowsServer`). Line 110: a short write is answered SUCCESS, and the next block
  follows right after the part that was stored (`FilesFaithful`; `CopiedUnlessRefused` is about
  disks that do not fail).
* `simple-reader.c:25`: a writer that starts while the first reader removes segment
  and set makes a new set for the old segment (`Exclusion` up to `Removal`).
* `shmserver.c:116`: the greeting of the server overwrites a stop message
  (`Stopping` needs a patient scene). A second server of `semaphore-single` or
  `semaphore-multiple` sets semaphores that are in use (`Proper`).
* `shm-server.c:19`: every server removes the name, also when it leads to the object
  of another one; a client between `shm_open` and `ftruncate` dies of `SIGBUS`.
  `SIGINT` while the handler runs leaves the name.
* `thread-mutex-cleanup.c:44`: after a successful `trylock` the second thread locks
  again and sleeps for ever (`Busy`).
* `connect.c`: a run killed inside leaves a semaphore of 0, and nobody removes it.
* `tcp-server.c:25`: decrements are lost, the counter drifts and in the end everybody
  is refused (`drift`); line 137: descriptors of the parent are never closed; a
  failing `fork` counts as a child.
* `iterative-server.c:66`: a killed client takes the server along (`SIGPIPE`); in the
  parallel server a failing `fork` ends it (`Waiting`).
* `parallel-server.c:29`: the handler does not save `errno`. When the last child ends after
  `accept` was interrupted and before line 80, `ECHILD` is found there and the server exits
  with clients in its backlog (`Overwritten`).
* `message-queue-posix/server.c:106`: the server exits when a client is gone; its
  queues are never closed, and it exits when no descriptor is left. `SIGINT` before
  `sigaction` or in the exit handler leaves a name (`lost` in `Released`; the same holds for
  `datagram-exchange` and `shm-server.c`; in `socket-stream-listener` before `sigaction` only,
  and by `SIGPIPE` after a killed client).
* `message-queue-system-v/server.c:109`: with a client more than the queue holds
  messages, server and clients sleep in `msgsnd` for ever; `client.c:62`: a result for
  a killed client reaches the next one with its process id.
* `socket-stream-listener/client.c`: the second `connect` of a client fails; after a
  `SIGINT` of the server it prints a result it never received. At the end of a stream
  the server keeps the order of an earlier client.
* `datagram-exchange/server.c:143`: the server exits when a client is gone, and the
  orders in its socket are lost.
* `05-file-copy/copy.c:103`: a read that fails and a short write end with success;
  a file copied to itself is empty afterwards. For an empty file the count that is
  printed was never set.
* `13-network-copy/server.c:82`: after the end of a stream the last block is stored
  again until the disk is full; with a full disk server and client can both sleep in
  `write` (`Fits`). Connections of refused clients are not closed. A read that brings part of a
  message leaves server and client out of step for good (`torn`): the server may then store
  blocks in the wrong place, or both wait for each other.
* `socketpair-chat.c:110`: when lines and answers do not fit into the socket pair,
  both processes sleep in `write` (`Fits`). Line 122: reads know nothing of lines, and `puts` prints
  a buffer that nobody terminates; after a short answer old bytes are printed once more (`exact`).
* `signal-termination.c:40`: a `SIGCLD` before `pause` leaves the parent asleep
  (`prompt`).

## What is left out

* Contents of messages, names and files beyond identity and order; formatted
  output; the arithmetic of the calculators; the rights of copied files.
* Failures of calls that only exhausted memory or a wrong argument can cause
  (`ftok`, `sigaction`, `shmat` for want of memory, pthread functions).
* Descriptor numbers that are given out again after another thread closed them
  (`ThreadCopy`); exit handlers are one step in `ThreadCopy`, `MessageCopy` and `UnixSocketCopy`.
* Files the server of `10-message-copy` leaves open when a client is gone without BYE:
  descriptors are not counted there.
* What `13-network-copy/server.c` and `client.c` leave as an exercise (the socket set-up) is
  taken as done. What an `int` or a block holds after a read of a part is any value the code tells
  apart; nothing is said of files and clients of such a connection, nor of the bytes.
* Short reads of the lines of `network-tcp-stream`, and of the local streams of `11`,
  `socket-stream-listener` and `socket-stream-server`, whose messages are so small that a local
  socket hands each over as one piece. In `socketpair-chat` two halves of a line stand for its bytes.
* The bytes a short write has stored in `10-message-copy`, where it is answered ERROR.
* A second server of `socket-stream-listener` or `datagram-exchange` that removes the
  socket of a running one.
* Timing. Where a property needs it, a field of the scene (`patient`, `prompt`) says so.

## Plan

Built: the readers/writers locks with their programs, the programs around
semaphores, shared memory and mutexes, the signal programs, the servers and
calculators, and all file copies. Next:

1. `BubbleSort` and the locator as functions against reference definitions; the
   `08` programs and `pipe-reader-timeout` (a timeout against a late line) next to
   `PipeChild`; the remaining signal programs.
2. A common abstract specification of the four calculators (ask, answer, print),
   which each of them implements while nobody crashes. Their proofs already share its
   idea: one order of a client under way, in one place.
