--------------------------- MODULE TemplateProofs ----------------------------
(***************************************************************************)
(* Proofs about Templates, for all values of the constants: first about    *)
(* the programs around semaphores and shared memory, then that the         *)
(* specification that runs one of all programs keeps their invariants.     *)
(***************************************************************************)
EXTENDS Templates, TransferProofs, ServiceProofs, FiniteSetTheorems, SequenceTheorems, TLAPS
-----------------------------------------------------------------------------
(* Connect, for any number of runs, whichever are killed: the one unit is  *)
(* neither doubled nor lost, and one run is inside at most.                *)

\* The runs that hold the unit, or took it with them.
Holders == {r \in Clients : proc[r] \in {"inside", "killed"}}

ConnectInv ==
    /\ proc \in [Clients -> {"new", "wait", "inside", "killed", "done"}]
    /\ sem \in {None, 0, 1}
    /\ \A r \in Clients : sem = None => proc[r] = "new"
    /\ \A r, q \in Holders : r = q
    /\ sem = 1 <=> sem # None /\ Holders = {}

\* The first run creates the semaphore, with its unit.
LEMMA ConnectInit ==
    ASSUME None \notin {0, 1}, Named!Init
    PROVE  ConnectInv
  BY DEF Named!Init, ConnectInv, Holders

\* sem_wait takes the unit when nobody has it, sem_post puts it back.
LEMMA ConnectStep ==
    ASSUME None \notin {0, 1}, ConnectInv, [Named!Next]_(Named!moving)
    PROVE  ConnectInv'
<1>. USE DEF ConnectInv, Holders, Named!Go
<1>1. ASSUME NEW r \in Clients, Named!SemInit(r) PROVE ConnectInv'
  BY <1>1 DEF Named!SemInit
<1>2. ASSUME NEW r \in Clients, Named!SemWait(r) PROVE ConnectInv'
  <2>1. sem = 1 /\ sem' = 0
    BY <1>2 DEF Named!SemWait
  <2>. QED
    BY <1>2, <2>1 DEF Named!SemWait
<1>3. ASSUME NEW r \in Clients, Named!SemPost(r) PROVE ConnectInv'
  <2>1. sem = 0 /\ sem' = 1
    BY <1>3 DEF Named!SemPost
  <2>. QED
    BY <1>3, <2>1 DEF Named!SemPost
<1>4. ASSUME NEW r \in Clients, Named!Killed(r) PROVE ConnectInv'
  BY <1>4 DEF Named!Killed
<1>5. CASE UNCHANGED Named!moving
  BY <1>5 DEF Named!moving
<1>. QED
  BY <1>1, <1>2, <1>3, <1>4, <1>5 DEF Named!Next

\* One run at most is between sem_wait and sem_post, and the unit is in the
\* semaphore, with that run, or gone with one that was killed (connect.c).
THEOREM OneInside ==
    ASSUME None \notin {0, 1}
    PROVE  Named!Spec => [](Named!Exclusion /\ Named!OneUnit)
<1>1. Named!Init => ConnectInv
  BY ConnectInit
<1>2. ConnectInv /\ [Named!Next]_(Named!moving) => ConnectInv'
  BY ConnectStep
<1>3. ConnectInv => Named!Exclusion /\ Named!OneUnit
  BY DEF ConnectInv, Holders, Named!Exclusion, Named!OneUnit, Named!Inside
<1>. QED
  BY <1>1, <1>2, <1>3, PTL DEF Named!Spec
-----------------------------------------------------------------------------
(* The programs of Ipc: what a system call does to the record of the       *)
(* process that makes it.                                                  *)

IpcProc(steps, units) == [at : steps, shm : Procs \cup {None}, sem : Procs \cup {None},
                          mapped : BOOLEAN, held : 0..units]

Becomes(p, a, s, t, m, h) ==
    /\ proc'[p] = [at |-> a, shm |-> s, sem |-> t, mapped |-> m, held |-> h]
    /\ \A q \in Procs \ {p} : proc'[q] = proc[q]

\* The end of a process detaches its segment.
LEMMA GoEffect ==
    ASSUME NEW steps, NEW units, proc \in [Procs -> IpcProc(steps, units)],
           NEW p \in Procs, NEW a \in steps,
           proc' = [proc EXCEPT ![p].at = a, ![p].mapped = @ /\ a # "end"]
    PROVE  /\ proc' \in [Procs -> IpcProc(steps, units)]
           /\ Becomes(p, a, proc[p].shm, proc[p].sem, proc[p].mapped /\ a # "end", proc[p].held)
<1>1. proc[p] \in IpcProc(steps, units)
  OBVIOUS
<1>2. proc'[p] = [proc[p] EXCEPT !.at = a, !.mapped = @ /\ a # "end"]
  OBVIOUS
<1>3. proc'[p] = [at |-> a, shm |-> proc[p].shm, sem |-> proc[p].sem,
                  mapped |-> proc[p].mapped /\ a # "end", held |-> proc[p].held]
  BY <1>1, <1>2 DEF IpcProc
<1>4. proc'[p] \in IpcProc(steps, units)
  BY <1>1, <1>3 DEF IpcProc
<1>. QED
  BY <1>3, <1>4 DEF Becomes

\* shmat.
LEMMA MapEffect ==
    ASSUME NEW steps, NEW units, proc \in [Procs -> IpcProc(steps, units)],
           NEW p \in Procs, NEW a \in steps,
           proc' = [proc EXCEPT ![p].at = a, ![p].mapped = TRUE]
    PROVE  /\ proc' \in [Procs -> IpcProc(steps, units)]
           /\ Becomes(p, a, proc[p].shm, proc[p].sem, TRUE, proc[p].held)
<1>1. proc[p] \in IpcProc(steps, units)
  OBVIOUS
<1>2. proc'[p] = [proc[p] EXCEPT !.at = a, !.mapped = TRUE]
  OBVIOUS
<1>3. proc'[p] = [at |-> a, shm |-> proc[p].shm, sem |-> proc[p].sem, mapped |-> TRUE,
                  held |-> proc[p].held]
  BY <1>1, <1>2 DEF IpcProc
<1>4. proc'[p] \in IpcProc(steps, units)
  BY <1>1, <1>3 DEF IpcProc
<1>. QED
  BY <1>3, <1>4 DEF Becomes

\* shmdt.
LEMMA DetachEffect ==
    ASSUME NEW steps, NEW units, proc \in [Procs -> IpcProc(steps, units)],
           NEW p \in Procs, NEW a \in steps,
           proc' = [proc EXCEPT ![p].at = a, ![p].mapped = FALSE]
    PROVE  /\ proc' \in [Procs -> IpcProc(steps, units)]
           /\ Becomes(p, a, proc[p].shm, proc[p].sem, FALSE, proc[p].held)
<1>1. proc[p] \in IpcProc(steps, units)
  OBVIOUS
<1>2. proc'[p] = [proc[p] EXCEPT !.at = a, !.mapped = FALSE]
  OBVIOUS
<1>3. proc'[p] = [at |-> a, shm |-> proc[p].shm, sem |-> proc[p].sem, mapped |-> FALSE,
                  held |-> proc[p].held]
  BY <1>1, <1>2 DEF IpcProc
<1>4. proc'[p] \in IpcProc(steps, units)
  BY <1>1, <1>3 DEF IpcProc
<1>. QED
  BY <1>3, <1>4 DEF Becomes

\* shmget.
LEMMA ShmEffect ==
    ASSUME NEW steps, NEW units, proc \in [Procs -> IpcProc(steps, units)],
           NEW p \in Procs, NEW a \in steps, NEW s, s \in Procs,
           proc' = [proc EXCEPT ![p].at = a, ![p].shm = s]
    PROVE  /\ proc' \in [Procs -> IpcProc(steps, units)]
           /\ Becomes(p, a, s, proc[p].sem, proc[p].mapped, proc[p].held)
<1>1. proc[p] \in IpcProc(steps, units)
  OBVIOUS
<1>2. proc'[p] = [proc[p] EXCEPT !.at = a, !.shm = s]
  OBVIOUS
<1>3. proc'[p] = [at |-> a, shm |-> s, sem |-> proc[p].sem, mapped |-> proc[p].mapped,
                  held |-> proc[p].held]
  BY <1>1, <1>2 DEF IpcProc
<1>4. proc'[p] \in IpcProc(steps, units)
  BY <1>1, <1>3 DEF IpcProc
<1>. QED
  BY <1>3, <1>4 DEF Becomes

\* semget.
LEMMA SemEffect ==
    ASSUME NEW steps, NEW units, proc \in [Procs -> IpcProc(steps, units)],
           NEW p \in Procs, NEW a \in steps, NEW t, t \in Procs,
           proc' = [proc EXCEPT ![p].at = a, ![p].sem = t]
    PROVE  /\ proc' \in [Procs -> IpcProc(steps, units)]
           /\ Becomes(p, a, proc[p].shm, t, proc[p].mapped, proc[p].held)
<1>1. proc[p] \in IpcProc(steps, units)
  OBVIOUS
<1>2. proc'[p] = [proc[p] EXCEPT !.at = a, !.sem = t]
  OBVIOUS
<1>3. proc'[p] = [at |-> a, shm |-> proc[p].shm, sem |-> t, mapped |-> proc[p].mapped,
                  held |-> proc[p].held]
  BY <1>1, <1>2 DEF IpcProc
<1>4. proc'[p] \in IpcProc(steps, units)
  BY <1>1, <1>3 DEF IpcProc
<1>. QED
  BY <1>3, <1>4 DEF Becomes

\* semop.
LEMMA SemopEffect ==
    ASSUME NEW steps, NEW units, proc \in [Procs -> IpcProc(steps, units)],
           NEW p \in Procs, NEW a \in steps, NEW n, proc[p].held - n \in 0..units,
           proc' = [proc EXCEPT ![p].at = a, ![p].held = @ - n, ![p].mapped = @ /\ a # "end"]
    PROVE  /\ proc' \in [Procs -> IpcProc(steps, units)]
           /\ Becomes(p, a, proc[p].shm, proc[p].sem, proc[p].mapped /\ a # "end", proc[p].held - n)
<1>1. proc[p] \in IpcProc(steps, units)
  OBVIOUS
<1>2. proc'[p] = [proc[p] EXCEPT !.at = a, !.held = proc[p].held - n, !.mapped = @ /\ a # "end"]
  OBVIOUS
<1>3. proc'[p] = [at |-> a, shm |-> proc[p].shm, sem |-> proc[p].sem,
                  mapped |-> proc[p].mapped /\ a # "end", held |-> proc[p].held - n]
  BY <1>1, <1>2 DEF IpcProc
<1>4. proc'[p] \in IpcProc(steps, units)
  BY <1>1, <1>3 DEF IpcProc
<1>. QED
  BY <1>3, <1>4 DEF Becomes
-----------------------------------------------------------------------------
(* SharedText, for any servers, clients and messages: each server that     *)
(* ends with its handler, after SIGINT as well, removes the name.          *)

TextGiven ==
    /\ None \notin Procs /\ Procs = Servers \cup Clients /\ Servers \cap Clients = {}
    /\ ScenesOf("text") \subseteq Text!SceneType

Texts == {Blank, Text!Zeroed, Text!Hello} \cup {Mesg[c] : c \in Clients}
TextSteps == {"new", "shmopen", "sigaction", "ftruncate", "mmap", "hello", "write", "loop",
              "unlink", "lost", "end"}

\* Servers and clients keep to their own steps, and have an object from shm_open on.
TextKernelOK == /\ scene \in ScenesOf("text") /\ shmKey \in Procs \cup {None} /\ semKey = None
                /\ mem \in [Procs -> Texts] /\ sem = Text!Zeroes
TextAtWork(s) == s \in Servers /\ proc[s].at \notin {"new", "shmopen", "end"}
TextProcOK(p) ==
    /\ proc[p].at \notin {"new", "shmopen", "end"} => proc[p].shm \in Procs
    /\ proc[p].at = "write" => p \in Clients
    /\ proc[p].at \in {"sigaction", "ftruncate", "hello", "loop", "unlink", "lost"} => p \in Servers

\* Who has created the object, or uses it as a server, has not ended yet, or
\* was lost.
TextInv ==
    /\ TextKernelOK
    /\ proc \in [Procs -> IpcProc(TextSteps, 0)]
    /\ \A p \in Procs : TextProcOK(p)
    /\ shmKey # None => \E s \in Procs : TextAtWork(s)

LEMMA TextInit ==
    ASSUME TextGiven, Text!Init
    PROVE  TextInv
<1>. USE DEF TextGiven, Text!Init, Text!IpcInit
<1>1. TextKernelOK
  BY DEF TextKernelOK, Texts
<1>2. proc \in [Procs -> IpcProc(TextSteps, 0)]
  BY DEF IpcProc, TextSteps
<1>. QED
  BY <1>1, <1>2 DEF TextInv, TextProcOK

\* A step of p, which goes on at a with the object s.
LEMMA TextMoves ==
    ASSUME TextGiven, TextInv, NEW p \in Procs, NEW a, NEW s, NEW t, NEW m, NEW h,
           proc' \in [Procs -> IpcProc(TextSteps, 0)], Becomes(p, a, s, t, m, h),
           TextKernelOK', scene' = scene,
           a \notin {"new", "shmopen", "end"} => s \in Procs,
           a = "write" => p \in Clients,
           a \in {"sigaction", "ftruncate", "hello", "loop", "unlink", "lost"} => p \in Servers,
           \/ shmKey' = None
           \/ shmKey' = shmKey /\ (TextAtWork(p) => a \notin {"new", "shmopen", "end"})
           \/ p \in Servers /\ a \notin {"new", "shmopen", "end"}
    PROVE  TextInv'
<1>1. proc'[p].at = a /\ proc'[p].shm = s /\ \A q \in Procs \ {p} : proc'[q] = proc[q]
  BY DEF Becomes
<1>2. \A q \in Procs : TextProcOK(q)'
  BY <1>1 DEF TextInv, TextProcOK
<1>3. shmKey' # None => \E q \in Procs : TextAtWork(q)'
  <2>1. CASE p \in Servers /\ a \notin {"new", "shmopen", "end"}
    BY <1>1, <2>1 DEF TextAtWork
  <2>2. CASE shmKey' = shmKey /\ (TextAtWork(p) => a \notin {"new", "shmopen", "end"})
    BY <1>1, <2>2 DEF TextAtWork, TextInv
  <2>. QED
    BY <2>1, <2>2
<1>. QED
  BY <1>2, <1>3 DEF TextInv

LEMMA TextStep ==
    ASSUME TextGiven, TextInv, [Text!Next]_(Text!vars)
    PROVE  TextInv'
<1>0. proc \in [Procs -> IpcProc(TextSteps, 0)] /\ \A p \in Procs : TextProcOK(p)
  BY DEF TextInv
<1>1. ASSUME NEW p \in Procs, NEW a \in TextSteps, Text!Go(p, a), TextKernelOK', scene' = scene,
             a \notin {"new", "shmopen", "end"} => proc[p].shm \in Procs,
             a = "write" => p \in Clients,
             a \in {"sigaction", "ftruncate", "hello", "loop", "unlink", "lost"} => p \in Servers,
             \/ shmKey' = None
             \/ shmKey' = shmKey /\ (TextAtWork(p) => a \notin {"new", "shmopen", "end"})
      PROVE  TextInv'
  <2>1. /\ proc' \in [Procs -> IpcProc(TextSteps, 0)]
        /\ Becomes(p, a, proc[p].shm, proc[p].sem, proc[p].mapped /\ a # "end", proc[p].held)
    BY <1>0, <1>1, GoEffect DEF Text!Go
  <2>. QED
    BY <1>1, <2>1, TextMoves
<1>2. ASSUME NEW p \in Procs, scene' = scene, Text!Step(p) \/ Text!Sighandler(p) PROVE TextInv'
  <2>. USE DEF Text!At, TextSteps
  <2>0. TextProcOK(p) /\ TextKernelOK
    BY <1>0 DEF TextInv
  <2>1. CASE Text!Begin(p)
    <3>1. Text!Go(p, "shmopen") /\ UNCHANGED Text!kernel /\ ~TextAtWork(p)
      BY <2>1 DEF Text!Begin, Text!Start, TextAtWork
    <3>2. TextKernelOK' /\ shmKey' = shmKey
      BY <1>2, <2>0, <3>1 DEF TextKernelOK, Text!kernel
    <3>. QED
      BY <1>1, <1>2, <3>1, <3>2
  <2>2. CASE Text!ShmOpen(p)
    <3>1. CASE Text!ShmgetOld(p, IF p \in Servers THEN "sigaction" ELSE "mmap")
      <4>1. shmKey \in Procs /\ UNCHANGED Text!kernel
        BY <2>0, <3>1 DEF TextKernelOK, Text!ShmgetOld
      <4>2. TextKernelOK' /\ shmKey' = shmKey
        BY <1>2, <2>0, <4>1 DEF TextKernelOK, Text!kernel
      <4>3. PICK a \in TextSteps : a = IF p \in Servers THEN "sigaction" ELSE "mmap"
        OBVIOUS
      <4>4. PICK s \in Procs : s = shmKey
        BY <4>1
      <4>5. proc' = [proc EXCEPT ![p].at = a, ![p].shm = s]
        BY <3>1, <4>3, <4>4 DEF Text!ShmgetOld
      <4>. HIDE DEF TextSteps
      <4>6. proc' \in [Procs -> IpcProc(TextSteps, 0)]
            /\ Becomes(p, a, s, proc[p].sem, proc[p].mapped, proc[p].held)
        BY <1>0, <4>5, ShmEffect
      <4>7. a \in {"sigaction", "mmap"} /\ (a = "sigaction" => p \in Servers)
        BY <4>3
      <4>. QED
        BY <1>2, <4>2, <4>6, <4>7, TextMoves
    <3>2. CASE p \in Servers /\ Text!ShmgetNew(p, "sigaction")
      <4>1. proc' \in [Procs -> IpcProc(TextSteps, 0)]
            /\ Becomes(p, "sigaction", p, proc[p].sem, proc[p].mapped, proc[p].held)
        BY <1>0, <3>2, ShmEffect DEF Text!ShmgetNew, Becomes
      <4>2. TextKernelOK'
        BY <1>2, <2>0, <3>2 DEF TextKernelOK, Text!ShmgetNew
      <4>. QED
        BY <1>2, <3>2, <4>1, <4>2, TextMoves
    <3>3. CASE p \in Clients /\ Text!ShmgetFails(p)
      <4>1. Text!Go(p, "end") /\ UNCHANGED Text!kernel /\ ~TextAtWork(p)
        BY <3>3 DEF Text!ShmgetFails, TextGiven, TextAtWork
      <4>2. TextKernelOK' /\ shmKey' = shmKey
        BY <1>2, <2>0, <4>1 DEF TextKernelOK, Text!kernel
      <4>. QED
        BY <1>1, <1>2, <4>1, <4>2
    <3>. QED
      BY <2>2, <3>1, <3>2, <3>3 DEF Text!ShmOpen
  <2>3. CASE Text!Sigaction(p)
    <3>1. Text!Go(p, "ftruncate") /\ UNCHANGED Text!kernel /\ p \in Servers /\ proc[p].shm \in Procs
      BY <2>0, <2>3 DEF Text!Sigaction, TextProcOK
    <3>2. TextKernelOK' /\ shmKey' = shmKey
      BY <1>2, <2>0, <3>1 DEF TextKernelOK, Text!kernel
    <3>. QED
      BY <1>1, <1>2, <3>1, <3>2
  <2>4. CASE Text!Ftruncate(p)
    <3>1. Text!Go(p, "mmap") /\ UNCHANGED <<shmKey, semKey, sem>> /\ proc[p].shm \in Procs
      BY <2>0, <2>4 DEF Text!Ftruncate, Text!Put, TextProcOK
    <3>2. mem' \in [Procs -> Texts]
      BY <2>0, <2>4, <3>1 DEF Text!Ftruncate, Text!Put, Texts, TextKernelOK
    <3>3. TextKernelOK'
      BY <1>2, <2>0, <3>1, <3>2 DEF TextKernelOK
    <3>. QED
      BY <1>1, <1>2, <3>1, <3>3
  <2>5. CASE Text!Mmap(p)
    <3>1. PICK a \in TextSteps : a = IF p \in Servers THEN "hello" ELSE "write"
      OBVIOUS
    <3>2. Text!Go(p, a) /\ UNCHANGED Text!kernel /\ proc[p].shm \in Procs
      BY <2>0, <2>5, <3>1 DEF Text!Mmap, TextProcOK
    <3>3. TextKernelOK' /\ shmKey' = shmKey
      BY <1>2, <2>0, <3>2 DEF TextKernelOK, Text!kernel
    <3>4. a \in {"hello", "write"} /\ (a = "hello" => p \in Servers) /\ (a = "write" => p \in Clients)
      BY <3>1 DEF TextGiven
    <3>. HIDE DEF TextSteps
    <3>. QED
      BY <1>1, <1>2, <3>2, <3>3, <3>4
  <2>6. CASE Text!Write(p)
    <3>1. CASE proc[p].at = "hello" /\ Text!Put(p, Text!Hello, "loop")
      <4>1. Text!Go(p, "loop") /\ UNCHANGED <<shmKey, semKey, sem>> /\ p \in Servers /\ proc[p].shm \in Procs
        BY <2>0, <3>1 DEF Text!Put, TextProcOK
      <4>2. mem' \in [Procs -> Texts]
        BY <2>0, <3>1, <4>1 DEF Text!Put, Texts, TextKernelOK
      <4>3. TextKernelOK'
        BY <1>2, <2>0, <4>1, <4>2 DEF TextKernelOK
      <4>. QED
        BY <1>1, <1>2, <4>1, <4>3
    <3>2. CASE proc[p].at = "write" /\ Text!Go(p, "end") /\ UNCHANGED Text!kernel
      <4>1. TextKernelOK' /\ shmKey' = shmKey /\ ~TextAtWork(p)
        BY <1>2, <2>0, <3>2 DEF TextKernelOK, Text!kernel, TextProcOK, TextGiven, TextAtWork
      <4>. QED
        BY <1>1, <1>2, <3>2, <4>1
    <3>3. CASE proc[p].at = "write" /\ Text!Put(p, Mesg[p], "end")
      <4>1. Text!Go(p, "end") /\ UNCHANGED <<shmKey, semKey, sem>> /\ p \in Clients /\ proc[p].shm \in Procs
        BY <2>0, <3>3 DEF Text!Put, TextProcOK
      <4>2. mem' \in [Procs -> Texts]
        BY <2>0, <3>3, <4>1 DEF Text!Put, Texts, TextKernelOK
      <4>3. TextKernelOK' /\ ~TextAtWork(p)
        BY <1>2, <2>0, <4>1, <4>2 DEF TextKernelOK, TextAtWork, TextGiven
      <4>. QED
        BY <1>1, <1>2, <4>1, <4>3
    <3>. QED
      BY <2>6, <3>1, <3>2, <3>3 DEF Text!Write
  <2>7. CASE Text!Loop(p)
    <3>1. Text!Go(p, "unlink") /\ UNCHANGED Text!kernel /\ p \in Servers /\ proc[p].shm \in Procs
      BY <2>0, <2>7 DEF Text!Loop, TextProcOK
    <3>2. TextKernelOK' /\ shmKey' = shmKey
      BY <1>2, <2>0, <3>1 DEF TextKernelOK, Text!kernel
    <3>. QED
      BY <1>1, <1>2, <3>1, <3>2
  <2>8. CASE Text!Exithandler(p)
    <3>1. Text!Go(p, "end") /\ shmKey' = None /\ UNCHANGED <<semKey, mem, sem>>
      BY <2>8 DEF Text!Exithandler, Text!Unlink
    <3>2. TextKernelOK'
      BY <1>2, <2>0, <3>1 DEF TextKernelOK
    <3>. QED
      BY <1>1, <1>2, <3>1, <3>2
  <2>9. CASE Text!Sighandler(p)
    <3>1. CASE Text!Unlink(p)
      <4>1. Text!Go(p, "end") /\ shmKey' = None /\ UNCHANGED <<semKey, mem, sem>>
        BY <3>1 DEF Text!Unlink
      <4>2. TextKernelOK'
        BY <1>2, <2>0, <4>1 DEF TextKernelOK
      <4>. QED
        BY <1>1, <1>2, <4>1, <4>2
    <3>2. CASE /\ p \in Servers /\ proc[p].at \in {"sigaction", "unlink"}
               /\ Text!Go(p, "lost") /\ UNCHANGED Text!kernel
      <4>1. TextKernelOK' /\ shmKey' = shmKey /\ proc[p].shm \in Procs
        BY <1>2, <2>0, <3>2 DEF TextKernelOK, Text!kernel, TextProcOK
      <4>. QED
        BY <1>1, <1>2, <3>2, <4>1
    <3>3. CASE (p \in Clients \/ proc[p].at = "shmopen") /\ Text!Killed(p)
      <4>1. Text!Go(p, "end") /\ UNCHANGED Text!kernel /\ ~TextAtWork(p)
        BY <3>3 DEF Text!Killed, TextAtWork, TextGiven
      <4>2. TextKernelOK' /\ shmKey' = shmKey
        BY <1>2, <2>0, <4>1 DEF TextKernelOK, Text!kernel
      <4>. QED
        BY <1>1, <1>2, <4>1, <4>2
    <3>. QED
      BY <2>9, <3>1, <3>2, <3>3 DEF Text!Sighandler
  <2>. QED
    BY <1>2, <2>1, <2>2, <2>3, <2>4, <2>5, <2>6, <2>7, <2>8, <2>9 DEF Text!Step
<1>3. CASE UNCHANGED Text!vars
  <2>1. TextKernelOK' /\ proc' = proc /\ scene' = scene /\ shmKey' = shmKey
    BY <1>3 DEF Text!vars, Text!moving, Text!kernel, TextInv, TextKernelOK
  <2>. QED
    BY <2>1 DEF TextInv, TextAtWork, TextProcOK
<1>. QED
  BY <1>2, <1>3 DEF Text!Next

\* The object is gone when all servers have ended, by themselves or by SIGINT,
\* and none was lost (shm-server.c).
LEMMA TextReleased ==
    ASSUME TextGiven, TextInv
    PROVE  Text!Released
<1>1. Text!TypeOK
  BY DEF TextInv, TextKernelOK, TextGiven, IpcProc, TextSteps, Texts, Text!TypeOK, Text!IpcTypeOK, Text!Zeroes
<1>. QED
  BY <1>1 DEF TextInv, TextAtWork, Text!Released
\* One thing at most in two sets.
LEMMA OneAtMost ==
    ASSUME NEW S, NEW T, NEW x, NEW y, S \subseteq {x}, T \subseteq {y}, S = {} \/ T = {}
    PROVE  /\ Cardinality(S) + Cardinality(T) \in {0, 1}
           /\ Cardinality(S) + Cardinality(T) = 0 => S = {}
<1>1. /\ IsFiniteSet({x}) /\ Cardinality({x}) = 1 /\ IsFiniteSet({y}) /\ Cardinality({y}) = 1
      /\ Cardinality({}) = 0
  BY FS_Singleton, FS_EmptySet
<1>2. CASE S = {}
  <2>1. Cardinality(S) = 0 /\ Cardinality(T) \in {0, 1}
    <3>1. T = {} \/ T = {y}
      OBVIOUS
    <3>. QED
      BY <1>1, <1>2, <3>1
  <2>. QED
    BY <1>2, <2>1
<1>3. CASE S # {}
  <2>1. Cardinality(S) = 1 /\ Cardinality(T) = 0
    <3>1. S = {x} /\ T = {}
      BY <1>3
    <3>. QED
      BY <1>1, <3>1
  <2>. QED
    BY <2>1
<1>. QED
  BY <1>2, <1>3

-----------------------------------------------------------------------------
(* ShmRequest, for any servers, clients and stop messages: one token goes  *)
(* round, and the segment belongs to who has it.                           *)

MultGiven ==
    /\ None \notin Procs /\ Procs = Servers \cup Clients /\ Servers \cap Clients = {}
    /\ ScenesOf("multiple") \subseteq Multiple!SceneType

MultSteps == {"new", "semget", "setall", "shmat", "P0", "write", "V1", "P1", "P2", "take", "answer",
              "V2", "print", "V0", "lastV2", "rmshm", "rmsem", "end"}
MultTexts == Clients \cup {Multiple!Answer(c) : c \in Clients} \cup {Blank}
MultProc == IpcProc(MultSteps, 1)

MultActive(p) == proc[p].at \notin {"new", "end"}
MultPast(p) == proc[p].at \notin {"new", "semget", "end"}
MultInside(p) == proc[p].at \in {"write", "V1", "take", "V2", "lastV2", "print", "V0"}
MultEngaged(p) == proc[p].at \in {"write", "V1", "P2", "print", "V0"}
MultHolder(p) == proc[p].sem = semKey /\ proc[p].held = 1

MultKernelOK ==
    /\ scene \in ScenesOf("multiple")
    /\ shmKey \in Procs \cup {None} /\ semKey \in Procs \cup {None}
    /\ mem \in [Procs -> MultTexts] /\ sem \in [{0, 1, 2} -> {0, 1}]

MultProcOK(p) ==
    /\ proc[p] \in MultProc
    /\ MultEngaged(p) \/ proc[p].at = "P0" => p \in Clients
    /\ proc[p].at \in {"setall", "P1", "take", "V2", "lastV2", "rmshm", "rmsem"} => p \in Servers
    /\ proc[p].at # "new" => p \in scene.run
    /\ MultActive(p) => proc[p].shm \in Procs
    /\ MultPast(p) => proc[p].sem \in Procs
    /\ MultInside(p) => proc[p].held = 1
    /\ ~MultInside(p) /\ proc[p].at # "end" => proc[p].held = 0
    /\ proc[p].at \in {"new", "semget"} => proc[p].sem = None

\* All that run use one segment and one set, those under the keys.
MultOneSegment ==
    /\ \A p, q \in Procs : MultActive(p) /\ MultActive(q) => proc[p].shm = proc[q].shm
    /\ \A p \in Procs : MultActive(p) /\ shmKey # None => proc[p].shm = shmKey
MultOneSet ==
    /\ \A p, q \in Procs : MultPast(p) /\ MultPast(q) => proc[p].sem = proc[q].sem
    /\ \A p \in Procs : MultPast(p) /\ semKey # None => proc[p].sem = semKey
MultNamed(p) == proc[p].at \in {"new", "semget"} => semKey # p /\ \A q \in Procs : proc[q].sem # p

\* A server sets the semaphores when nobody else uses them.
MultStart(s) ==
    /\ ~scene.patient /\ s \in scene.run =>
          /\ proc[s].at = "new" => shmKey = None /\ \A q \in Procs : ~MultActive(q)
          /\ proc[s].at \in {"new", "semget"} => semKey = None /\ \A q \in Procs : ~MultPast(q)
          /\ proc[s].at = "setall" => sem = Multiple!Zeroes
    /\ scene.patient /\ proc[s].at \in {"semget", "setall", "shmat"} =>
          \A q \in Procs \ {s} : ~MultActive(q)
    /\ proc[s].at = "setall" => \A q \in Procs : ~MultInside(q) /\ ~MultEngaged(q)

\* One token; who has it is alone, and one client at most has asked.
MultToken ==
    semKey # None =>
    /\ \A i, j \in {0, 1, 2} : sem[i] = 1 /\ sem[j] = 1 => i = j
    /\ \A p \in Procs : MultHolder(p) => \A i \in {0, 1, 2} : sem[i] = 0
    /\ \A p, q \in Procs : MultHolder(p) /\ MultHolder(q) => p = q
    /\ \A p \in Procs : MultEngaged(p) => sem[0] = 0
MultAlone ==
    \A p, q \in Procs : \/ p = q
                        \/ /\ ~(MultInside(p) /\ MultInside(q))
                           /\ ~(MultEngaged(p) /\ MultEngaged(q))

\* The segment holds the request of the client that has asked, then its answer.
MultRequest(p) ==
    \/ proc[p].at = "take"
    \/ proc[p].at \in {"shmat", "P1"} /\ p \in Servers /\ semKey # None /\ sem[1] = 1
MultAsked == \/ \E s \in Procs : proc[s].at = "take"
             \/ semKey # None /\ sem[1] = 1
MultReplied == \/ \E s \in Procs : proc[s].at \in {"V2", "lastV2"}
               \/ semKey # None /\ sem[2] = 1
MultData(p) ==
    /\ proc[p].at = "V1" => mem[proc[p].shm] = p
    /\ MultRequest(p) => mem[proc[p].shm] \in Clients
    /\ proc[p].at = "P2" =>
          /\ MultAsked => mem[proc[p].shm] = p
          /\ MultReplied => mem[proc[p].shm] = Multiple!Answer(p)
    /\ proc[p].at = "print" => mem[proc[p].shm] = Multiple!Answer(p)

MultInv ==
    /\ MultKernelOK /\ proc \in [Procs -> MultProc] /\ \A p \in Procs : MultProcOK(p)
    /\ MultOneSegment /\ MultOneSet /\ \A p \in Procs : MultNamed(p)
    /\ \A s \in Servers : MultStart(s)
    /\ MultToken /\ MultAlone
    /\ \A p \in Procs : MultData(p)

LEMMA MultInit ==
    ASSUME MultGiven, Multiple!Init
    PROVE  MultInv
<1>. USE DEF MultGiven, Multiple!Init, Multiple!IpcInit, Multiple!Zeroes
<1>1. MultKernelOK
  BY DEF MultKernelOK, MultTexts
<1>2. proc \in [Procs -> MultProc]
  BY DEF MultProc, IpcProc, MultSteps
<1>3. \A p \in Procs : proc[p].at = "new" /\ proc[p].sem = None /\ proc[p].held = 0
  OBVIOUS
<1>4. \A p \in Procs : ~MultActive(p) /\ ~MultPast(p) /\ ~MultInside(p) /\ ~MultEngaged(p)
  BY <1>3 DEF MultActive, MultPast, MultInside, MultEngaged
<1>5. \A p \in Procs : MultProcOK(p)
  BY <1>2, <1>3, <1>4 DEF MultProcOK
<1>6. MultOneSegment /\ MultOneSet /\ MultAlone /\ MultToken
  BY <1>4 DEF MultOneSegment, MultOneSet, MultAlone, MultToken
<1>7. \A p \in Procs : MultNamed(p) /\ MultData(p)
  BY <1>3 DEF MultNamed, MultData, MultRequest
<1>8. \A s \in Servers : MultStart(s)
  BY <1>3, <1>4 DEF MultStart
<1>. QED
  BY <1>1, <1>2, <1>5, <1>6, <1>7, <1>8 DEF MultInv

\* A step that takes and gives no unit and changes no text; a key may go.
LEMMA MultQuiet ==
    ASSUME MultGiven, MultInv, scene' = scene, mem' = mem, sem' = sem,
           shmKey' \in {shmKey, None}, semKey' \in {semKey, None},
           NEW p \in Procs, NEW a, NEW m, proc' \in [Procs -> MultProc],
           Becomes(p, a, proc[p].shm, proc[p].sem, m, proc[p].held), p \in scene.run,
           \/ a = "end"
           \/ proc[p].at = "print" /\ a = "V0"
           \/ proc[p].at = "shmat" /\ a = "P0" /\ p \in Clients
           \/ proc[p].at = "shmat" /\ a = "P1" /\ p \in Servers
           \/ proc[p].at = "rmshm" /\ a = "rmsem"
    PROVE  MultInv'
<1>0. /\ proc'[p].at = a /\ proc'[p].shm = proc[p].shm /\ proc'[p].sem = proc[p].sem
      /\ proc'[p].held = proc[p].held /\ \A q \in Procs \ {p} : proc'[q] = proc[q]
      /\ None \notin Procs
  BY DEF Becomes, MultGiven
<1>1. MultKernelOK'
  BY DEF MultInv, MultKernelOK
<1>2. \A q \in Procs : MultProcOK(q)'
  <2>1. MultProcOK(p)'
    <3>1. MultProcOK(p) /\ proc'[p] \in MultProc
      BY DEF MultInv
    <3>. QED
      BY <1>0, <3>1 DEF MultProcOK, MultInside, MultEngaged, MultActive, MultPast
  <2>2. ASSUME NEW q \in Procs \ {p} PROVE MultProcOK(q)'
    BY <1>0 DEF MultInv, MultProcOK, MultInside, MultEngaged, MultActive, MultPast
  <2>. QED
    BY <2>1, <2>2
<1>3. /\ \A q \in Procs : MultActive(q)' => MultActive(q) /\ proc'[q].shm = proc[q].shm
      /\ \A q \in Procs : MultPast(q)' => MultPast(q) /\ proc'[q].sem = proc[q].sem
      /\ \A q \in Procs : MultInside(q)' => MultInside(q)
      /\ \A q \in Procs : MultEngaged(q)' => MultEngaged(q)
      /\ \A q \in Procs : proc'[q].sem = proc[q].sem /\ proc'[q].held = proc[q].held
      /\ \A q \in Procs : proc'[q].at # proc[q].at => proc'[q].at \in {"V0", "P0", "P1", "rmsem", "end"}
  BY <1>0 DEF MultActive, MultPast, MultInside, MultEngaged
<1>4. MultOneSegment'
  BY <1>3 DEF MultInv, MultOneSegment
<1>5. MultOneSet'
  BY <1>3 DEF MultInv, MultOneSet
<1>6. \A q \in Procs : MultNamed(q)'
  BY <1>0, <1>3 DEF MultInv, MultNamed
<1>7. ASSUME NEW s \in Servers PROVE MultStart(s)'
  <2>1. MultStart(s) /\ s \in Procs
    BY DEF MultInv, MultGiven
  <2>2. proc'[s].at \in {"new", "semget", "setall", "shmat"} => proc[s].at = proc'[s].at
    BY <1>3, <2>1
  <2>3. \A q \in Procs : /\ ~MultActive(q) => ~MultActive(q)'
                         /\ ~MultPast(q) => ~MultPast(q)'
                         /\ ~MultInside(q) => ~MultInside(q)'
                         /\ ~MultEngaged(q) => ~MultEngaged(q)'
    BY <1>3
  <2>4. ~scene.patient /\ s \in scene.run =>
           /\ proc'[s].at = "new" => shmKey' = None /\ \A q \in Procs : ~MultActive(q)'
           /\ proc'[s].at \in {"new", "semget"} => semKey' = None /\ \A q \in Procs : ~MultPast(q)'
           /\ proc'[s].at = "setall" => sem' = Multiple!Zeroes
    BY <2>1, <2>2, <2>3 DEF MultStart
  <2>5. scene.patient /\ proc'[s].at \in {"semget", "setall", "shmat"} =>
           \A q \in Procs \ {s} : ~MultActive(q)'
    BY <2>1, <2>2, <2>3 DEF MultStart
  <2>6. proc'[s].at = "setall" => \A q \in Procs : ~MultInside(q)' /\ ~MultEngaged(q)'
    BY <2>1, <2>2, <2>3 DEF MultStart
  <2>. QED
    BY <2>4, <2>5, <2>6 DEF MultStart, Multiple!Zeroes
<1>8. MultToken'
  BY <1>3 DEF MultInv, MultToken, MultHolder
<1>9. MultAlone'
  BY <1>3 DEF MultInv, MultAlone
<1>10. ASSUME NEW q \in Procs PROVE MultData(q)'
  <2>1. MultData(q)
    BY DEF MultInv
  <2>2. /\ MultAsked' => MultAsked
        /\ MultReplied' => MultReplied
    BY <1>3 DEF MultAsked, MultReplied
  <2>3. /\ MultRequest(q)' => MultRequest(q)
        /\ proc'[q].at \in {"V1", "P2", "print"} => proc[q].at = proc'[q].at
        /\ proc'[q].at # "end" => proc'[q].shm = proc[q].shm
    BY <1>0 DEF MultRequest
  <2>. QED
    BY <2>1, <2>2, <2>3, <1>0 DEF MultData, MultRequest
<1>. QED
  BY <1>1, <1>2, <1>4, <1>5, <1>6, <1>7, <1>8, <1>9, <1>10 DEF MultInv

\* What a server that runs or starts knows of the others.
LEMMA MultServers ==
    ASSUME MultGiven, MultInv, Multiple!Proper, NEW p \in Servers, p \in scene.run, ~scene.patient
    PROVE  \A s \in Servers : s \in scene.run => s = p
BY DEF Multiple!Proper

LEMMA MultShmget ==
    ASSUME MultGiven, MultInv, Multiple!Proper, scene' = scene, UNCHANGED <<semKey, mem, sem>>,
           NEW p \in Procs, NEW s \in Procs, NEW m, proc' \in [Procs -> MultProc],
           Becomes(p, "semget", s, proc[p].sem, m, proc[p].held),
           proc[p].at = "new", p \in scene.run, shmKey' = s,
           s = shmKey \/ (shmKey = None /\ p \in Servers),
           scene.patient => \A q \in Procs : /\ proc[q].at \notin {"semget", "setall", "shmat"}
                                             /\ p \in Servers => ~MultActive(q)
    PROVE  MultInv'
<1>0. /\ proc'[p].at = "semget" /\ proc'[p].shm = s /\ proc'[p].sem = proc[p].sem
      /\ proc'[p].held = proc[p].held /\ \A q \in Procs \ {p} : proc'[q] = proc[q]
      /\ None \notin Procs
  BY DEF Becomes, MultGiven
<1>1. MultKernelOK'
  BY DEF MultInv, MultKernelOK
<1>2. \A q \in Procs : MultProcOK(q)'
  <2>1. MultProcOK(p)'
    <3>1. MultProcOK(p) /\ proc'[p] \in MultProc
      BY DEF MultInv
    <3>. QED
      BY <1>0, <3>1 DEF MultProcOK, MultInside, MultEngaged, MultActive, MultPast
  <2>2. ASSUME NEW q \in Procs \ {p} PROVE MultProcOK(q)'
    BY <1>0 DEF MultInv, MultProcOK, MultInside, MultEngaged, MultActive, MultPast
  <2>. QED
    BY <2>1, <2>2
<1>3. /\ \A q \in Procs : MultActive(q)' => q = p \/ MultActive(q)
      /\ \A q \in Procs : MultPast(q)' <=> MultPast(q)
      /\ \A q \in Procs : MultInside(q)' <=> MultInside(q)
      /\ \A q \in Procs : MultEngaged(q)' <=> MultEngaged(q)
      /\ \A q \in Procs : proc'[q].sem = proc[q].sem /\ proc'[q].held = proc[q].held
      /\ \A q \in Procs \ {p} : proc'[q].shm = proc[q].shm /\ proc'[q].at = proc[q].at
  BY <1>0 DEF MultActive, MultPast, MultInside, MultEngaged
<1>4. p \in Servers /\ ~scene.patient =>
         /\ semKey = None /\ \A q \in Procs : ~MultActive(q) /\ ~MultPast(q)
  BY DEF MultInv, MultStart
<1>5. \A q \in Procs \ {p} : MultActive(q) => proc[q].shm = s
  BY <1>0, <1>4 DEF MultInv, MultOneSegment
<1>6. MultOneSegment'
  BY <1>0, <1>3, <1>5 DEF MultOneSegment
<1>7. MultOneSet'
  BY <1>3 DEF MultInv, MultOneSet
<1>8. \A q \in Procs : MultNamed(q)'
  <2>1. MultNamed(p)'
    BY <1>0, <1>3 DEF MultInv, MultNamed
  <2>2. \A q \in Procs \ {p} : MultNamed(q)'
    BY <1>3 DEF MultInv, MultNamed
  <2>. QED
    BY <2>1, <2>2
<1>9. ASSUME NEW t \in Servers PROVE MultStart(t)'
  <2>1. MultStart(t) /\ t \in Procs
    BY DEF MultInv, MultGiven
  <2>2. CASE t = p
    <3>1. /\ ~scene.patient => semKey = None /\ \A q \in Procs : ~MultPast(q)
          /\ scene.patient => \A q \in Procs : ~MultActive(q)
      BY <1>4, <2>2
    <3>. QED
      BY <1>0, <1>3, <2>2, <3>1 DEF MultStart
  <2>3. CASE t # p
    <3>1. /\ scene.patient => proc[t].at \notin {"semget", "setall", "shmat"}
          /\ ~scene.patient /\ t \in scene.run => p \notin Servers
          /\ proc'[t] = proc[t]
      BY <1>0, <2>1, <2>3 DEF Multiple!Proper
    <3>2. ~scene.patient /\ t \in scene.run => proc[t].at # "new"
      BY <1>0, <2>1, <3>1 DEF MultStart
    <3>. QED
      BY <1>3, <2>1, <3>1, <3>2 DEF MultStart, Multiple!Zeroes
  <2>. QED
    BY <2>2, <2>3
<1>10. MultToken'
  BY <1>3 DEF MultInv, MultToken, MultHolder
<1>11. MultAlone'
  BY <1>3 DEF MultInv, MultAlone
<1>12. ASSUME NEW q \in Procs PROVE MultData(q)'
  <2>1. MultData(q)
    BY DEF MultInv
  <2>2. (MultAsked' <=> MultAsked) /\ (MultReplied' <=> MultReplied)
    BY <1>0 DEF MultAsked, MultReplied
  <2>. QED
    BY <1>0, <2>1, <2>2 DEF MultData, MultRequest
<1>. QED
  BY <1>1, <1>2, <1>6, <1>7, <1>8, <1>9, <1>10, <1>11, <1>12 DEF MultInv

LEMMA MultSemget ==
    ASSUME MultGiven, MultInv, Multiple!Proper, scene' = scene, UNCHANGED <<shmKey, mem>>,
           NEW p \in Procs, NEW t \in Procs, NEW a, NEW m, proc' \in [Procs -> MultProc],
           Becomes(p, a, proc[p].shm, t, m, proc[p].held),
           proc[p].at = "semget", semKey' = t,
           \/ t = semKey /\ sem' = sem
           \/ semKey = None /\ t = p /\ p \in Servers /\ sem' = Multiple!Zeroes,
           \/ p \in Servers /\ a = "setall"
           \/ p \notin Servers /\ a = "shmat"
    PROVE  MultInv'
<1>0. /\ proc'[p].at = a /\ proc'[p].shm = proc[p].shm /\ proc'[p].sem = t
      /\ proc'[p].held = proc[p].held /\ \A q \in Procs \ {p} : proc'[q] = proc[q]
      /\ None \notin Procs
  BY DEF Becomes, MultGiven
<1>1. MultKernelOK'
  BY DEF MultInv, MultKernelOK, Multiple!Zeroes
<1>2. p \in scene.run /\ proc[p].held = 0
  BY DEF MultInv, MultProcOK, MultInside
<1>3. \A q \in Procs : MultProcOK(q)'
  <2>1. MultProcOK(p)'
    <3>1. MultProcOK(p) /\ proc'[p] \in MultProc
      BY DEF MultInv
    <3>. QED
      BY <1>0, <1>2, <3>1 DEF MultProcOK, MultInside, MultEngaged, MultActive, MultPast
  <2>2. ASSUME NEW q \in Procs \ {p} PROVE MultProcOK(q)'
    BY <1>0 DEF MultInv, MultProcOK, MultInside, MultEngaged, MultActive, MultPast
  <2>. QED
    BY <2>1, <2>2
<1>4. /\ \A q \in Procs : MultActive(q)' <=> MultActive(q)
      /\ \A q \in Procs : MultPast(q)' => q = p \/ MultPast(q)
      /\ \A q \in Procs : MultInside(q)' <=> MultInside(q)
      /\ \A q \in Procs : MultEngaged(q)' <=> MultEngaged(q)
      /\ \A q \in Procs : proc'[q].shm = proc[q].shm /\ proc'[q].held = proc[q].held
      /\ \A q \in Procs \ {p} : proc'[q].sem = proc[q].sem /\ proc'[q].at = proc[q].at
  BY <1>0 DEF MultActive, MultPast, MultInside, MultEngaged
<1>5. p \in Servers =>
         /\ ~scene.patient => semKey = None /\ \A q \in Procs : ~MultPast(q)
         /\ scene.patient => \A q \in Procs \ {p} : ~MultActive(q)
  BY <1>2 DEF MultInv, MultStart
<1>6. p \in Servers => \A q \in Procs \ {p} : ~MultPast(q)
  BY <1>5 DEF MultActive, MultPast
<1>7. MultOneSegment'
  BY <1>4 DEF MultInv, MultOneSegment
<1>8. MultOneSet'
  <2>1. \A q \in Procs : MultPast(q)' => proc'[q].sem = t
    BY <1>0, <1>4, <1>6 DEF MultInv, MultOneSet
  <2>. QED
    BY <2>1 DEF MultOneSet
<1>9. ASSUME NEW q \in Procs PROVE MultNamed(q)'
  <2>1. MultNamed(q)
    BY DEF MultInv
  <2>2. CASE q = p
    BY <1>0, <2>2 DEF MultNamed
  <2>3. CASE q # p
    BY <1>0, <1>4, <2>1, <2>3 DEF MultNamed
  <2>. QED
    BY <2>2, <2>3
<1>10. ASSUME NEW s \in Servers PROVE MultStart(s)'
  <2>1. MultStart(s) /\ s \in Procs /\ (proc[s].at # "new" => s \in scene.run)
    BY DEF MultInv, MultGiven, MultProcOK
  <2>2. CASE s = p
    <3>1. ~scene.patient => semKey = None /\ \A q \in Procs : ~MultPast(q)
      BY <1>5, <2>2
    <3>2. scene.patient => \A q \in Procs \ {s} : ~MultActive(q)
      BY <1>5, <2>2
    <3>3. \A q \in Procs : ~MultInside(q) /\ ~MultEngaged(q)
      BY <1>6, <2>2 DEF MultInside, MultEngaged, MultPast
    <3>4. ~scene.patient => sem' = Multiple!Zeroes
      BY <1>0, <3>1
    <3>. QED
      BY <1>0, <1>4, <2>2, <3>2, <3>3, <3>4 DEF MultStart, Multiple!Zeroes
  <2>3. CASE s # p
    <3>1. /\ ~scene.patient /\ s \in scene.run => p \notin Servers /\ proc[s].at \notin {"new", "semget"}
          /\ proc'[s] = proc[s]
      BY <1>0, <1>2, <2>1, <2>3 DEF Multiple!Proper, MultStart
    <3>. QED
      BY <1>4, <2>1, <3>1 DEF MultStart, Multiple!Zeroes
  <2>. QED
    BY <2>2, <2>3
<1>11. MultToken'
  <2>1. CASE t = semKey /\ sem' = sem
    <3>1. \A q \in Procs : MultHolder(q)' => MultHolder(q)
      BY <1>0, <1>2, <1>4, <2>1 DEF MultHolder
    <3>. QED
      BY <1>4, <2>1, <3>1 DEF MultInv, MultToken
  <2>2. CASE t = p /\ sem' = Multiple!Zeroes
    <3>1. \A q \in Procs : ~MultHolder(q)'
      BY <1>0, <1>2, <1>4, <2>2 DEF MultHolder, MultInv, MultNamed
    <3>. QED
      BY <2>2, <3>1 DEF MultToken, Multiple!Zeroes
  <2>. QED
    BY <2>1, <2>2
<1>12. MultAlone'
  BY <1>4 DEF MultInv, MultAlone
<1>13. ASSUME NEW q \in Procs PROVE MultData(q)'
  <2>1. MultData(q)
    BY DEF MultInv
  <2>2. \A i \in {0, 1, 2} : sem'[i] = 1 => semKey # None /\ sem[i] = 1
    BY <1>0 DEF Multiple!Zeroes
  <2>3. (MultAsked' => MultAsked) /\ (MultReplied' => MultReplied)
    BY <1>0, <2>2 DEF MultAsked, MultReplied
  <2>. QED
    BY <1>0, <2>1, <2>2, <2>3 DEF MultData, MultRequest
<1>. QED
  BY <1>1, <1>3, <1>7, <1>8, <1>9, <1>10, <1>11, <1>12, <1>13 DEF MultInv

\* semctl(SETALL): nobody who is alive has a unit, and nobody has asked.
LEMMA MultSetAll ==
    ASSUME MultGiven, MultInv, Multiple!Proper, scene' = scene, UNCHANGED <<shmKey, semKey, mem>>,
           NEW p \in Procs, proc[p].at = "setall", sem' = Multiple!InitSems,
           proc' \in [Procs -> MultProc],
           \A q \in Procs :
              /\ proc'[q].at = (IF q = p THEN "shmat" ELSE proc[q].at)
              /\ proc'[q].shm = proc[q].shm /\ proc'[q].sem = proc[q].sem
              /\ proc'[q].held = (IF proc[q].at = "end" THEN 0 ELSE proc[q].held)
    PROVE  MultInv'
<1>0. /\ p \in Servers /\ MultStart(p) /\ p \in scene.run /\ None \notin Procs
      /\ \A q \in Procs : ~MultInside(q) /\ ~MultEngaged(q) /\ MultProcOK(q)
  BY DEF MultInv, MultProcOK, MultStart, MultGiven
<1>1. MultKernelOK'
  BY DEF MultInv, MultKernelOK, Multiple!InitSems
<1>2. /\ \A q \in Procs : MultActive(q)' <=> MultActive(q)
      /\ \A q \in Procs : MultPast(q)' <=> MultPast(q)
      /\ \A q \in Procs : ~MultInside(q)' /\ ~MultEngaged(q)'
      /\ \A q \in Procs : proc'[q].shm = proc[q].shm /\ proc'[q].sem = proc[q].sem
      /\ \A q \in Procs : proc'[q].held = 0
  <2>1. /\ \A q \in Procs : MultActive(q)' <=> MultActive(q)
        /\ \A q \in Procs : MultPast(q)' <=> MultPast(q)
        /\ \A q \in Procs : ~MultInside(q)' /\ ~MultEngaged(q)'
    BY <1>0 DEF MultActive, MultPast, MultInside, MultEngaged
  <2>2. \A q \in Procs : proc'[q].held = 0
    BY <1>0 DEF MultProcOK
  <2>. QED
    BY <2>1, <2>2
<1>3. ASSUME NEW q \in Procs PROVE MultProcOK(q)'
  BY <1>0, <1>2 DEF MultProcOK, MultActive, MultPast, MultEngaged, MultInside
<1>4. MultOneSegment' /\ MultOneSet'
  BY <1>2 DEF MultInv, MultOneSegment, MultOneSet
<1>5. ASSUME NEW q \in Procs PROVE MultNamed(q)'
  BY <1>2 DEF MultInv, MultNamed
<1>6. ASSUME NEW s \in Servers PROVE MultStart(s)'
  <2>1. MultStart(s) /\ s \in Procs
    BY DEF MultInv, MultGiven
  <2>2. ~scene.patient /\ s \in scene.run => s = p
    BY <1>0, MultServers
  <2>. QED
    BY <1>0, <1>2, <2>1, <2>2 DEF MultStart
<1>7. MultToken' /\ MultAlone'
  BY <1>2 DEF MultToken, MultHolder, MultAlone, Multiple!InitSems
<1>8. ASSUME NEW q \in Procs PROVE MultData(q)'
  <2>1. proc'[q].at \notin {"V1", "take", "print", "P2"} /\ sem'[1] = 0
    BY <1>2 DEF MultInside, MultEngaged, Multiple!InitSems
  <2>. QED
    BY <2>1 DEF MultData, MultRequest
<1>. QED
  BY <1>1, <1>3, <1>4, <1>5, <1>6, <1>7, <1>8 DEF MultInv

\* A P: the unit goes from the set to p.
LEMMA MultTakes ==
    ASSUME MultGiven, MultInv, Multiple!Proper, scene' = scene, UNCHANGED <<shmKey, semKey, mem>>,
           NEW p \in Procs, NEW a, NEW i \in {0, 1, 2}, NEW m, proc' \in [Procs -> MultProc],
           proc[p].sem = semKey, sem[i] = 1, sem' = [sem EXCEPT ![i] = 0],
           Becomes(p, a, proc[p].shm, proc[p].sem, m, 1),
           \/ proc[p].at = "P0" /\ i = 0 /\ a = "write"
           \/ proc[p].at = "P1" /\ i = 1 /\ a = "take"
           \/ proc[p].at = "P2" /\ i = 2 /\ a = "print"
    PROVE  MultInv'
<1>0. /\ proc'[p].at = a /\ proc'[p].shm = proc[p].shm /\ proc'[p].sem = semKey
      /\ proc'[p].held = 1 /\ \A q \in Procs \ {p} : proc'[q] = proc[q]
      /\ None \notin Procs /\ MultProcOK(p) /\ semKey # None
      /\ proc'[p].at \in {"write", "take", "print"} /\ proc[p].at \in {"P0", "P1", "P2"}
  BY DEF Becomes, MultGiven, MultInv, MultProcOK, MultPast
<1>1. MultKernelOK' /\ sem'[i] = 0 /\ \A j \in {0, 1, 2} : j # i => sem'[j] = sem[j]
  BY DEF MultInv, MultKernelOK
<1>2. \A q \in Procs : MultProcOK(q)'
  <2>1. MultProcOK(p)'
    BY <1>0 DEF MultProcOK, MultInside, MultEngaged, MultActive, MultPast
  <2>2. ASSUME NEW q \in Procs \ {p} PROVE MultProcOK(q)'
    BY <1>0 DEF MultInv, MultProcOK, MultInside, MultEngaged, MultActive, MultPast
  <2>. QED
    BY <2>1, <2>2
<1>3. /\ \A q \in Procs : MultActive(q)' <=> MultActive(q)
      /\ \A q \in Procs : MultPast(q)' <=> MultPast(q)
      /\ \A q \in Procs \ {p} : MultInside(q)' <=> MultInside(q)
      /\ \A q \in Procs \ {p} : MultEngaged(q)' <=> MultEngaged(q)
      /\ \A q \in Procs : proc'[q].shm = proc[q].shm /\ proc'[q].sem = proc[q].sem
      /\ \A q \in Procs \ {p} : proc'[q].held = proc[q].held /\ proc'[q].at = proc[q].at
  BY <1>0 DEF MultActive, MultPast, MultInside, MultEngaged
\* Nobody else has the token.
<1>4. \A q \in Procs : ~MultHolder(q) /\ ~MultInside(q)
  <2>1. \A q \in Procs : ~MultHolder(q)
    BY <1>0 DEF MultInv, MultToken
  <2>2. \A q \in Procs : MultInside(q) => proc[q].held = 1 /\ MultPast(q)
    BY DEF MultInv, MultProcOK, MultInside, MultPast
  <2>3. \A q \in Procs : MultPast(q) => proc[q].sem = semKey
    BY <1>0 DEF MultInv, MultOneSet
  <2>. QED
    BY <2>1, <2>2, <2>3 DEF MultHolder
<1>5. MultEngaged(p)' => proc[p].at \in {"P0", "P2"} /\ \A q \in Procs \ {p} : ~MultEngaged(q)
  <2>1. MultEngaged(p)' => proc[p].at \in {"P0", "P2"}
    BY <1>0 DEF MultEngaged
  <2>2. ASSUME proc[p].at = "P0", NEW q \in Procs \ {p} PROVE ~MultEngaged(q)
    BY <1>0, <2>2 DEF MultInv, MultToken
  <2>3. ASSUME proc[p].at = "P2", NEW q \in Procs \ {p} PROVE ~MultEngaged(q)
    BY <2>3 DEF MultInv, MultAlone, MultEngaged
  <2>. QED
    BY <2>1, <2>2, <2>3
<1>6. MultOneSegment' /\ MultOneSet'
  BY <1>3 DEF MultInv, MultOneSegment, MultOneSet
<1>7. ASSUME NEW q \in Procs PROVE MultNamed(q)'
  BY <1>0, <1>3 DEF MultInv, MultNamed
<1>8. ASSUME NEW s \in Servers PROVE MultStart(s)'
  <2>1. MultStart(s) /\ s \in Procs /\ (proc[s].at # "new" => s \in scene.run) /\ MultActive(p)
    BY <1>0 DEF MultInv, MultGiven, MultProcOK, MultActive
  <2>2. proc[s].at # "setall"
    <3>1. s # p /\ MultActive(p) => (scene.patient => proc[s].at # "setall")
      BY <2>1 DEF MultStart
    <3>2. ~scene.patient /\ s \in scene.run /\ proc[s].at = "setall" => sem = Multiple!Zeroes
      BY <2>1 DEF MultStart
    <3>3. sem # Multiple!Zeroes
      BY DEF Multiple!Zeroes
    <3>. QED
      BY <1>0, <2>1, <3>1, <3>2, <3>3
  <2>3. proc'[s].at \in {"new", "semget", "setall", "shmat"} => proc'[s].at = proc[s].at
    BY <1>0, <2>1
  <2>. QED
    BY <1>3, <2>1, <2>2, <2>3 DEF MultStart
<1>9. MultToken'
  <2>1. \A j \in {0, 1, 2} : sem'[j] = 0
    BY <1>0, <1>1 DEF MultInv, MultToken, MultKernelOK
  <2>2. \A q \in Procs : MultHolder(q)' => q = p
    BY <1>3, <1>4 DEF MultHolder
  <2>. QED
    BY <2>1, <2>2 DEF MultToken
<1>10. MultAlone'
  <2>1. ASSUME NEW q \in Procs \ {p}
        PROVE  ~MultInside(q)' /\ ~(MultEngaged(p)' /\ MultEngaged(q)')
    BY <1>3, <1>4, <1>5
  <2>2. ASSUME NEW q \in Procs \ {p}, NEW r \in Procs \ {p}, q # r
        PROVE  ~(MultEngaged(q)' /\ MultEngaged(r)')
    BY <1>3, <2>2 DEF MultInv, MultAlone
  <2>. QED
    BY <2>1, <2>2 DEF MultAlone
<1>11. (MultAsked' => MultAsked) /\ (MultReplied' => MultReplied)
  BY <1>0, <1>1 DEF MultAsked, MultReplied
<1>12. ASSUME NEW q \in Procs PROVE MultData(q)'
  <2>1. MultData(q)
    BY DEF MultInv
  <2>2. CASE q # p
    <3>1. MultRequest(q)' => MultRequest(q)
      BY <1>1, <1>3, <2>2 DEF MultRequest
    <3>. QED
      BY <1>3, <1>11, <2>1, <2>2, <3>1 DEF MultData
  <2>3. CASE q = p
    <3>1. CASE a = "write"
      BY <1>0, <2>3, <3>1 DEF MultData, MultRequest
    <3>2. CASE a = "take"
      <4>1. MultRequest(p)
        BY <1>0, <3>2 DEF MultRequest, MultProcOK
      <4>. QED
        BY <1>0, <2>1, <2>3, <3>2, <4>1 DEF MultData
    <3>3. CASE a = "print"
      <4>1. MultReplied /\ proc[p].at = "P2"
        BY <1>0, <3>3 DEF MultReplied
      <4>. QED
        BY <1>0, <2>1, <2>3, <3>3, <4>1 DEF MultData, MultRequest
    <3>. QED
      BY <3>1, <3>2, <3>3
  <2>. QED
    BY <2>2, <2>3
<1>. QED
  BY <1>1, <1>2, <1>6, <1>7, <1>8, <1>9, <1>10, <1>12 DEF MultInv

\* A V: the unit goes from p to the set.
LEMMA MultGives ==
    ASSUME MultGiven, MultInv, Multiple!Proper, scene' = scene, UNCHANGED <<shmKey, semKey, mem>>,
           NEW p \in Procs, NEW a, NEW i \in {0, 1, 2}, NEW m, proc' \in [Procs -> MultProc],
           proc[p].sem = semKey, sem' = [sem EXCEPT ![i] = @ + 1],
           Becomes(p, a, proc[p].shm, proc[p].sem, m, 0),
           \/ proc[p].at = "V1" /\ i = 1 /\ a \in {"P2", "end"}
           \/ proc[p].at = "V0" /\ i = 0 /\ a = "end"
           \/ proc[p].at = "V2" /\ i = 2 /\ a = "P1"
           \/ proc[p].at = "lastV2" /\ i = 2 /\ a = "rmshm"
    PROVE  MultInv'
<1>0. /\ proc'[p].at = a /\ proc'[p].shm = proc[p].shm /\ proc'[p].sem = semKey
      /\ proc'[p].held = 0 /\ \A q \in Procs \ {p} : proc'[q] = proc[q]
      /\ None \notin Procs /\ MultProcOK(p) /\ semKey # None /\ MultInside(p)
      /\ proc'[p].at \in {"P2", "P1", "rmshm", "end"} /\ proc[p].at \in {"V1", "V0", "V2", "lastV2"}
  BY DEF Becomes, MultGiven, MultInv, MultProcOK, MultPast, MultInside
<1>1. MultHolder(p)
  BY <1>0 DEF MultHolder, MultProcOK
<1>2. \A j \in {0, 1, 2} : sem[j] = 0
  BY <1>0, <1>1 DEF MultInv, MultToken
<1>3. sem'[i] = 1 /\ MultKernelOK' /\ \A j \in {0, 1, 2} : j # i => sem'[j] = 0
  <2>1. sem' = [sem EXCEPT ![i] = 1]
    <3>1. sem[i] + 1 = 1
      BY <1>2
    <3>. QED
      BY <3>1
  <2>. QED
    BY <1>2, <2>1 DEF MultInv, MultKernelOK
<1>4. \A q \in Procs : MultProcOK(q)'
  <2>1. MultProcOK(p)'
    BY <1>0 DEF MultProcOK, MultInside, MultEngaged, MultActive, MultPast
  <2>2. ASSUME NEW q \in Procs \ {p} PROVE MultProcOK(q)'
    BY <1>0 DEF MultInv, MultProcOK, MultInside, MultEngaged, MultActive, MultPast
  <2>. QED
    BY <2>1, <2>2
<1>5. /\ \A q \in Procs : MultActive(q)' => MultActive(q)
      /\ \A q \in Procs : MultPast(q)' => MultPast(q)
      /\ \A q \in Procs : MultInside(q)' => MultInside(q)
      /\ \A q \in Procs : MultEngaged(q)' => MultEngaged(q)
      /\ \A q \in Procs : proc'[q].shm = proc[q].shm /\ proc'[q].sem = proc[q].sem
      /\ \A q \in Procs \ {p} : proc'[q].held = proc[q].held /\ proc'[q].at = proc[q].at
  BY <1>0 DEF MultActive, MultPast, MultInside, MultEngaged
<1>6. \A q \in Procs \ {p} : ~MultInside(q)
  BY <1>0 DEF MultInv, MultAlone
<1>7. MultOneSegment' /\ MultOneSet'
  BY <1>5 DEF MultInv, MultOneSegment, MultOneSet
<1>8. ASSUME NEW q \in Procs PROVE MultNamed(q)'
  BY <1>0, <1>5 DEF MultInv, MultNamed
<1>9. ASSUME NEW s \in Servers PROVE MultStart(s)'
  <2>1. MultStart(s) /\ s \in Procs
    BY DEF MultInv, MultGiven
  <2>2. proc[s].at # "setall" \/ s = p
    BY <1>0, <2>1 DEF MultStart
  <2>3. proc'[s].at \in {"new", "semget", "shmat"} => proc'[s].at = proc[s].at
    BY <1>0, <2>1
  <2>4. proc'[s].at # "setall"
    BY <1>0, <2>1, <2>2
  <2>. QED
    BY <1>5, <2>1, <2>3, <2>4 DEF MultStart
<1>10. MultToken'
  <2>1. \A q \in Procs : ~MultHolder(q)'
    BY <1>0, <1>1, <1>5 DEF MultInv, MultToken, MultHolder
  <2>2. \A q \in Procs : MultEngaged(q)' => i # 0
    <3>1. i = 0 => MultEngaged(p) /\ ~MultEngaged(p)'
      BY <1>0 DEF MultEngaged
    <3>2. \A q \in Procs \ {p} : MultEngaged(p) => ~MultEngaged(q)
      BY DEF MultInv, MultAlone
    <3>. QED
      BY <1>5, <3>1, <3>2
  <2>. QED
    BY <1>3, <2>1, <2>2 DEF MultToken
<1>11. MultAlone'
  BY <1>5 DEF MultInv, MultAlone
<1>12. ASSUME NEW q \in Procs PROVE MultData(q)'
  <2>1. MultData(q)
    BY DEF MultInv
  <2>2. MultAsked' => i = 1
    <3>1. \A s \in Procs : proc'[s].at # "take"
      BY <1>0, <1>5, <1>6 DEF MultInside
    <3>. QED
      BY <1>3, <3>1 DEF MultAsked
  <2>3. MultReplied' => i = 2
    <3>1. \A s \in Procs : proc'[s].at \notin {"V2", "lastV2"}
      BY <1>0, <1>5, <1>6 DEF MultInside
    <3>. QED
      BY <1>3, <3>1 DEF MultReplied
  <2>4. i = 1 => proc[p].at = "V1" /\ mem[proc[p].shm] = p /\ p \in Clients /\ MultEngaged(p)
    <3>1. MultData(p)
      BY DEF MultInv
    <3>. QED
      BY <1>0, <3>1 DEF MultData, MultProcOK, MultEngaged
  <2>5. i = 2 => MultReplied
    BY <1>0 DEF MultReplied
  <2>6. proc'[q].at \notin {"V1", "take", "print"}
    BY <1>0, <1>5, <1>6 DEF MultInside
  <2>7. MultRequest(q)' => mem'[proc'[q].shm] \in Clients
    <3>. SUFFICES ASSUME MultRequest(q)' PROVE mem'[proc'[q].shm] \in Clients
      OBVIOUS
    <3>1. i = 1 /\ MultActive(q)' /\ q # p
      BY <1>0, <1>3, <2>6 DEF MultRequest, MultActive, MultGiven, MultProcOK, MultEngaged
    <3>2. proc[q].shm = proc[p].shm
      BY <1>0, <1>5, <3>1 DEF MultInv, MultOneSegment, MultActive
    <3>. QED
      BY <1>5, <2>4, <3>1, <3>2
  <2>8. ASSUME proc'[q].at = "P2"
        PROVE  /\ MultAsked' => mem'[proc'[q].shm] = q
               /\ MultReplied' => mem'[proc'[q].shm] = Multiple!Answer(q)
    <3>1. CASE q = p
      BY <1>0, <2>2, <2>3, <2>4, <2>8, <3>1
    <3>2. CASE q # p
      <4>1. proc[q].at = "P2" /\ MultEngaged(q)
        BY <1>5, <2>8, <3>2 DEF MultEngaged
      <4>2. ~MultEngaged(p)
        BY <3>2, <4>1 DEF MultInv, MultAlone
      <4>. QED
        BY <1>5, <2>1, <2>2, <2>3, <2>4, <2>5, <4>1, <4>2 DEF MultData
    <3>. QED
      BY <3>1, <3>2
  <2>. QED
    BY <2>6, <2>7, <2>8 DEF MultData
<1>. QED
  BY <1>3, <1>4, <1>7, <1>8, <1>9, <1>10, <1>11, <1>12 DEF MultInv

\* A store to the segment by the one who has the token.
LEMMA MultPut ==
    ASSUME MultGiven, MultInv, Multiple!Proper, scene' = scene, UNCHANGED <<shmKey, semKey, sem>>,
           NEW p \in Procs, NEW a, NEW x \in MultTexts, NEW m, proc' \in [Procs -> MultProc],
           mem' = [mem EXCEPT ![proc[p].shm] = x],
           Becomes(p, a, proc[p].shm, proc[p].sem, m, proc[p].held),
           \/ proc[p].at = "write" /\ a = "V1" /\ x = p
           \/ /\ proc[p].at = "take" /\ a \in {"V2", "lastV2"}
              /\ x = Multiple!Answer(mem[proc[p].shm])
    PROVE  MultInv'
<1>0. /\ proc'[p].at = a /\ proc'[p].shm = proc[p].shm /\ proc'[p].sem = proc[p].sem
      /\ proc'[p].held = proc[p].held /\ \A q \in Procs \ {p} : proc'[q] = proc[q]
      /\ None \notin Procs /\ MultProcOK(p) /\ MultInside(p) /\ MultActive(p) /\ MultPast(p)
      /\ proc'[p].at \in {"V1", "V2", "lastV2"} /\ proc[p].at \in {"write", "take"}
  BY DEF Becomes, MultGiven, MultInv, MultInside, MultActive, MultPast
<1>1. MultKernelOK' /\ proc[p].shm \in Procs /\ mem'[proc[p].shm] = x
  <2>1. proc[p].shm \in Procs
    BY <1>0 DEF MultProcOK
  <2>. QED
    BY <2>1 DEF MultInv, MultKernelOK
<1>2. \A q \in Procs : MultProcOK(q)'
  <2>1. MultProcOK(p)'
    BY <1>0 DEF MultProcOK, MultInside, MultEngaged, MultActive, MultPast
  <2>2. ASSUME NEW q \in Procs \ {p} PROVE MultProcOK(q)'
    BY <1>0 DEF MultInv, MultProcOK, MultInside, MultEngaged, MultActive, MultPast
  <2>. QED
    BY <2>1, <2>2
<1>3. /\ \A q \in Procs : MultActive(q)' <=> MultActive(q)
      /\ \A q \in Procs : MultPast(q)' <=> MultPast(q)
      /\ \A q \in Procs : MultInside(q)' <=> MultInside(q)
      /\ \A q \in Procs : MultEngaged(q)' <=> MultEngaged(q)
      /\ \A q \in Procs : /\ proc'[q].shm = proc[q].shm /\ proc'[q].sem = proc[q].sem
                          /\ proc'[q].held = proc[q].held
      /\ \A q \in Procs \ {p} : proc'[q].at = proc[q].at
  BY <1>0 DEF MultActive, MultPast, MultInside, MultEngaged
<1>4. \A q \in Procs \ {p} : ~MultInside(q)
  BY <1>0 DEF MultInv, MultAlone
<1>5. semKey # None => \A j \in {0, 1, 2} : sem[j] = 0
  <2>1. semKey # None => MultHolder(p)
    BY <1>0 DEF MultInv, MultHolder, MultProcOK, MultOneSet
  <2>. QED
    BY <2>1 DEF MultInv, MultToken
<1>6. MultOneSegment' /\ MultOneSet'
  BY <1>3 DEF MultInv, MultOneSegment, MultOneSet
<1>7. ASSUME NEW q \in Procs PROVE MultNamed(q)'
  BY <1>0, <1>3 DEF MultInv, MultNamed
<1>8. ASSUME NEW s \in Servers PROVE MultStart(s)'
  <2>1. MultStart(s) /\ s \in Procs
    BY DEF MultInv, MultGiven
  <2>2. proc'[s].at \in {"new", "semget", "setall", "shmat"} => proc'[s].at = proc[s].at
    BY <1>0, <2>1
  <2>. QED
    BY <1>3, <2>1, <2>2 DEF MultStart, Multiple!Zeroes
<1>9. MultToken'
  BY <1>3 DEF MultInv, MultToken, MultHolder
<1>10. MultAlone'
  BY <1>3 DEF MultInv, MultAlone
<1>11. ASSUME NEW q \in Procs PROVE MultData(q)'
  <2>1. MultData(q) /\ MultData(p)
    BY DEF MultInv
  <2>2. ~MultAsked'
    <3>1. \A s \in Procs : proc'[s].at # "take"
      BY <1>0, <1>3, <1>4 DEF MultInside
    <3>. QED
      BY <1>5, <3>1 DEF MultAsked
  <2>3. ~MultRequest(q)'
    <3>1. proc'[q].at # "take"
      BY <1>0, <1>3, <1>4 DEF MultInside
    <3>. QED
      BY <1>5, <3>1 DEF MultRequest
  <2>4. CASE q = p
    BY <1>0, <1>1, <2>2, <2>3, <2>4 DEF MultData
  <2>5. CASE q # p
    <3>1. proc'[q].at \notin {"V1", "take", "print"}
      BY <1>3, <1>4, <2>5 DEF MultInside
    <3>2. ASSUME proc'[q].at = "P2", MultReplied' PROVE mem'[proc'[q].shm] = Multiple!Answer(q)
      <4>1. proc[q].at = "P2" /\ MultEngaged(q) /\ MultActive(q)
        BY <1>3, <2>5, <3>2 DEF MultEngaged, MultActive
      <4>2. proc[p].at = "take"
        <5>1. ~MultEngaged(p)
          BY <2>5, <4>1 DEF MultInv, MultAlone
        <5>. QED
          BY <1>0, <5>1 DEF MultEngaged
      <4>3. mem[proc[q].shm] = q
        <5>1. MultAsked
          BY <4>2 DEF MultAsked
        <5>. QED
          BY <2>1, <4>1, <5>1 DEF MultData
      <4>4. proc[q].shm = proc[p].shm
        BY <1>0, <4>1 DEF MultInv, MultOneSegment
      <4>. QED
        BY <1>1, <1>3, <4>2, <4>3, <4>4
    <3>. QED
      BY <2>2, <2>3, <3>1, <3>2 DEF MultData
  <2>. QED
    BY <2>4, <2>5
<1>. QED
  BY <1>1, <1>2, <1>6, <1>7, <1>8, <1>9, <1>10, <1>11 DEF MultInv

\* One operation on a semaphore.
LEMMA MultOp ==
    ASSUME MultGiven, MultInv, Multiple!Proper, scene' = scene, NEW p \in Procs,
           NEW step, NEW i \in {0, 1, 2}, NEW n, NEW a \in MultSteps,
           Multiple!Op(p, step, i, n, a),
           \/ step = "P0" /\ i = 0 /\ n = -1 /\ a = "write"
           \/ step = "P1" /\ i = 1 /\ n = -1 /\ a = "take"
           \/ step = "P2" /\ i = 2 /\ n = -1 /\ a = "print"
           \/ step = "V1" /\ i = 1 /\ n = 1 /\ a \in {"P2", "end"}
           \/ step = "V0" /\ i = 0 /\ n = 1 /\ a = "end"
           \/ step = "V2" /\ i = 2 /\ n = 1 /\ a = "P1"
           \/ step = "lastV2" /\ i = 2 /\ n = 1 /\ a = "rmshm"
    PROVE  MultInv'
<1>0. /\ proc[p].at = step /\ UNCHANGED <<shmKey, semKey, mem>>
      /\ proc \in [Procs -> MultProc] /\ MultProcOK(p) /\ p \in scene.run
      /\ sem \in [{0, 1, 2} -> {0, 1}]
  BY DEF Multiple!Op, Multiple!At, Multiple!Semop, MultInv, MultProcOK, MultKernelOK
<1>1. CASE proc[p].sem # semKey
  <2>1. Multiple!Go(p, "end") /\ UNCHANGED sem /\ "end" \in MultSteps
    BY <1>1 DEF Multiple!Op, Multiple!Semop, Multiple!SetThere, MultSteps
  <2>2. /\ proc' \in [Procs -> MultProc]
        /\ Becomes(p, "end", proc[p].shm, proc[p].sem, proc[p].mapped /\ "end" # "end", proc[p].held)
    BY <1>0, <2>1, GoEffect DEF MultProc, Multiple!Go
  <2>. QED
    BY <1>0, <2>1, <2>2, MultQuiet
<1>2. CASE proc[p].sem = semKey
  <2>1. /\ sem[i] + n >= 0 /\ sem' = [sem EXCEPT ![i] = @ + n]
        /\ proc' = [proc EXCEPT ![p].at = a, ![p].held = @ - n, ![p].mapped = @ /\ a # "end"]
    BY <1>2 DEF Multiple!Op, Multiple!Semop, Multiple!SetThere
  <2>2. CASE n = -1
    <3>1. proc[p].held = 0 /\ proc[p].held - n = 1
      BY <1>0, <2>2 DEF MultProcOK, MultInside
    <3>2. /\ proc' \in [Procs -> MultProc]
          /\ Becomes(p, a, proc[p].shm, proc[p].sem, proc[p].mapped /\ a # "end", 1)
      <4>1. proc[p].held - n \in 0..1
        BY <3>1
      <4>2. /\ proc' \in [Procs -> MultProc]
            /\ Becomes(p, a, proc[p].shm, proc[p].sem, proc[p].mapped /\ a # "end", proc[p].held - n)
        BY <1>0, <2>1, <4>1, SemopEffect DEF MultProc
      <4>. QED
        BY <3>1, <4>2
    <3>3. sem[i] = 1 /\ sem[i] + n = 0
      BY <1>0, <2>1, <2>2
    <3>4. sem' = [sem EXCEPT ![i] = 0]
      BY <2>1, <3>3
    <3>5. \/ proc[p].at = "P0" /\ i = 0 /\ a = "write"
          \/ proc[p].at = "P1" /\ i = 1 /\ a = "take"
          \/ proc[p].at = "P2" /\ i = 2 /\ a = "print"
      BY <1>0, <2>2
    <3>. QED
      BY <1>0, <1>2, <3>2, <3>3, <3>4, <3>5, MultTakes
  <2>3. CASE n = 1
    <3>1. proc[p].held = 1 /\ proc[p].held - n = 0
      BY <1>0, <2>3 DEF MultProcOK, MultInside
    <3>2. /\ proc' \in [Procs -> MultProc]
          /\ Becomes(p, a, proc[p].shm, proc[p].sem, proc[p].mapped /\ a # "end", 0)
      <4>1. proc[p].held - n \in 0..1
        BY <3>1
      <4>2. /\ proc' \in [Procs -> MultProc]
            /\ Becomes(p, a, proc[p].shm, proc[p].sem, proc[p].mapped /\ a # "end", proc[p].held - n)
        BY <1>0, <2>1, <4>1, SemopEffect DEF MultProc
      <4>. QED
        BY <3>1, <4>2
    <3>3. sem' = [sem EXCEPT ![i] = @ + 1]
      BY <2>1, <2>3
    <3>4. \/ proc[p].at = "V1" /\ i = 1 /\ a \in {"P2", "end"}
          \/ proc[p].at = "V0" /\ i = 0 /\ a = "end"
          \/ proc[p].at = "V2" /\ i = 2 /\ a = "P1"
          \/ proc[p].at = "lastV2" /\ i = 2 /\ a = "rmshm"
      BY <1>0, <2>3
    <3>. QED
      BY <1>0, <1>2, <3>2, <3>3, <3>4, MultGives
  <2>. QED
    BY <2>2, <2>3
<1>. QED
  BY <1>1, <1>2

LEMMA MultStepOf ==
    ASSUME MultGiven, MultInv, Multiple!Proper, scene' = scene, NEW p \in Procs,
           Multiple!Step(p) \/ Multiple!Killed(p)
    PROVE  MultInv'
<1>0. /\ proc \in [Procs -> MultProc] /\ MultProcOK(p) /\ MultKernelOK /\ None \notin Procs
      /\ p \in Servers \/ p \in Clients
  BY DEF MultInv, MultGiven
<1>. USE DEF Multiple!At
<1>1. ASSUME NEW a \in MultSteps, Multiple!Go(p, a), mem' = mem, sem' = sem,
             shmKey' \in {shmKey, None}, semKey' \in {semKey, None}, p \in scene.run,
             \/ a = "end"
             \/ proc[p].at = "print" /\ a = "V0"
             \/ proc[p].at = "rmshm" /\ a = "rmsem"
      PROVE  MultInv'
  <2>1. /\ proc' \in [Procs -> MultProc]
        /\ Becomes(p, a, proc[p].shm, proc[p].sem, proc[p].mapped /\ a # "end", proc[p].held)
    BY <1>0, <1>1, GoEffect DEF MultProc, Multiple!Go
  <2>. QED
    BY <1>1, <2>1, MultQuiet
<1>2. "end" \in MultSteps /\ "V0" \in MultSteps /\ "rmsem" \in MultSteps /\ "semget" \in MultSteps
      /\ "V1" \in MultSteps /\ "P0" \in MultSteps /\ "P1" \in MultSteps /\ "shmat" \in MultSteps
      /\ "setall" \in MultSteps /\ "V2" \in MultSteps /\ "lastV2" \in MultSteps
      /\ "write" \in MultSteps /\ "P2" \in MultSteps /\ "print" \in MultSteps
      /\ "take" \in MultSteps /\ "rmshm" \in MultSteps
  BY DEF MultSteps
<1>3. CASE Multiple!Killed(p)
  <2>1. p \in scene.run
    BY <1>0, <1>3 DEF Multiple!Killed, MultProcOK
  <2>. QED
    BY <1>1, <1>2, <1>3, <2>1 DEF Multiple!Killed, Multiple!kernel
<1>4. CASE Multiple!Shmget(p)
  <2>1. /\ proc[p].at = "new" /\ p \in scene.run
        /\ scene.patient => \A q \in Procs : /\ proc[q].at \notin {"semget", "setall", "shmat"}
                                             /\ p \in Servers => ~MultActive(q)
    <3>1. /\ proc[p].at = "new" /\ p \in scene.run
          /\ scene.patient => \A q \in Procs :
                proc[q].at \in (IF p \in Servers THEN {} ELSE Multiple!Settled) \cup {"new", "end"}
      BY <1>4 DEF Multiple!Shmget, Multiple!Start
    <3>. QED
      BY <3>1 DEF Multiple!Settled, MultActive
  <2>2. ASSUME NEW s \in Procs, proc' = [proc EXCEPT ![p].at = "semget", ![p].shm = s], shmKey' = s,
               UNCHANGED <<semKey, mem, sem>>, s = shmKey \/ (shmKey = None /\ p \in Servers)
        PROVE  MultInv'
    <3>1. /\ proc' \in [Procs -> MultProc]
          /\ Becomes(p, "semget", s, proc[p].sem, proc[p].mapped, proc[p].held)
      BY <1>0, <1>2, <2>2, ShmEffect DEF MultProc
    <3>. QED
      BY <2>1, <2>2, <3>1, MultShmget
  <2>3. CASE Multiple!ShmgetOld(p, "semget")
    <3>1. PICK s \in Procs : s = shmKey
      BY <1>0, <2>3 DEF Multiple!ShmgetOld, MultKernelOK
    <3>. QED
      BY <2>2, <2>3, <3>1 DEF Multiple!ShmgetOld, Multiple!kernel
  <2>4. CASE p \in Servers /\ Multiple!ShmgetNew(p, "semget")
    BY <2>2, <2>4 DEF Multiple!ShmgetNew
  <2>5. CASE Multiple!ShmgetFails(p)
    BY <1>1, <1>2, <2>1, <2>5 DEF Multiple!ShmgetFails, Multiple!kernel
  <2>. QED
    BY <1>4, <2>3, <2>4, <2>5 DEF Multiple!Shmget
<1>5. CASE Multiple!Semget(p)
  <2>1. proc[p].at = "semget" /\ p \in scene.run
    BY <1>0, <1>5 DEF Multiple!Semget, MultProcOK
  <2>2. ASSUME NEW t \in Procs, NEW a \in MultSteps,
               proc' = [proc EXCEPT ![p].at = a, ![p].sem = t], semKey' = t, UNCHANGED <<shmKey, mem>>,
               \/ t = semKey /\ sem' = sem
               \/ semKey = None /\ t = p /\ p \in Servers /\ sem' = Multiple!Zeroes,
               \/ p \in Servers /\ a = "setall"
               \/ p \notin Servers /\ a = "shmat"
        PROVE  MultInv'
    <3>1. /\ proc' \in [Procs -> MultProc]
          /\ Becomes(p, a, proc[p].shm, t, proc[p].mapped, proc[p].held)
      BY <1>0, <2>2, SemEffect DEF MultProc
    <3>. QED
      BY <2>1, <2>2, <3>1, MultSemget
  <2>3. CASE Multiple!SemgetOld(p, IF p \in Servers THEN "setall" ELSE "shmat")
    <3>1. PICK t \in Procs : t = semKey
      BY <1>0, <2>3 DEF Multiple!SemgetOld, MultKernelOK
    <3>2. PICK a \in MultSteps : a = IF p \in Servers THEN "setall" ELSE "shmat"
      BY <1>2
    <3>3. proc' = [proc EXCEPT ![p].at = a, ![p].sem = t] /\ UNCHANGED <<shmKey, mem, semKey, sem>>
      BY <2>3, <3>1, <3>2 DEF Multiple!SemgetOld, Multiple!kernel
    <3>4. (p \in Servers /\ a = "setall") \/ (p \notin Servers /\ a = "shmat")
      BY <3>2
    <3>. QED
      BY <2>2, <3>1, <3>3, <3>4
  <2>4. CASE p \in Servers /\ Multiple!SemgetNew(p, "setall")
    BY <1>2, <2>2, <2>4 DEF Multiple!SemgetNew
  <2>5. CASE Multiple!SemgetFails(p)
    BY <1>1, <1>2, <2>1, <2>5 DEF Multiple!SemgetFails, Multiple!kernel
  <2>. QED
    BY <1>5, <2>3, <2>4, <2>5 DEF Multiple!Semget
<1>6. CASE Multiple!SetAllSems(p)
  <2>1. proc[p].at = "setall" /\ UNCHANGED <<shmKey, semKey, mem>> /\ p \in scene.run
    BY <1>0, <1>6 DEF Multiple!SetAllSems, Multiple!SetAll, MultProcOK
  <2>2. CASE proc[p].sem = semKey
    <3>1. /\ sem' = Multiple!InitSems
          /\ proc' = [q \in Procs |-> IF q = p THEN [proc[p] EXCEPT !.at = "shmat"]
                                     ELSE IF proc[q].at = "end" THEN [proc[q] EXCEPT !.held = 0]
                                     ELSE proc[q]]
      BY <1>6, <2>2 DEF Multiple!SetAllSems, Multiple!SetAll, Multiple!SetThere
    <3>2. ASSUME NEW q \in Procs
          PROVE  /\ proc'[q] \in MultProc
                 /\ proc'[q].at = (IF q = p THEN "shmat" ELSE proc[q].at)
                 /\ proc'[q].shm = proc[q].shm /\ proc'[q].sem = proc[q].sem
                 /\ proc'[q].held = (IF proc[q].at = "end" THEN 0 ELSE proc[q].held)
      <4>0. proc[q] \in MultProc
        BY <1>0
      <4>1. CASE q = p
        <5>1. proc'[q] = [proc[p] EXCEPT !.at = "shmat"]
          BY <3>1, <4>1
        <5>. QED
          BY <1>2, <2>1, <4>0, <4>1, <5>1 DEF MultProc, IpcProc
      <4>2. CASE q # p /\ proc[q].at = "end"
        <5>1. proc'[q] = [proc[q] EXCEPT !.held = 0]
          BY <3>1, <4>2
        <5>. QED
          BY <4>0, <4>2, <5>1 DEF MultProc, IpcProc
      <4>3. CASE q # p /\ proc[q].at # "end"
        BY <3>1, <4>0, <4>3
      <4>. QED
        BY <4>1, <4>2, <4>3
    <3>3. proc' \in [Procs -> MultProc]
      BY <3>1, <3>2
    <3>. QED
      BY <2>1, <3>1, <3>2, <3>3, MultSetAll
  <2>3. CASE proc[p].sem # semKey
    BY <1>1, <1>2, <1>6, <2>1, <2>3 DEF Multiple!SetAllSems, Multiple!SetAll, Multiple!SetThere
  <2>. QED
    BY <2>2, <2>3
<1>7. CASE Multiple!Attach(p)
  <2>1. proc[p].at = "shmat" /\ UNCHANGED <<shmKey, semKey, mem, sem>> /\ p \in scene.run
    BY <1>0, <1>7 DEF Multiple!Attach, Multiple!Shmat, Multiple!kernel, MultProcOK
  <2>2. PICK a \in MultSteps : a = IF p \in Servers THEN "P1" ELSE "P0"
    BY <1>2
  <2>3. CASE proc' = [proc EXCEPT ![p].at = a, ![p].mapped = TRUE]
    <3>1. /\ proc' \in [Procs -> MultProc]
          /\ Becomes(p, a, proc[p].shm, proc[p].sem, TRUE, proc[p].held)
      BY <1>0, <2>3, MapEffect DEF MultProc
    <3>2. \/ proc[p].at = "shmat" /\ a = "P0" /\ p \in Clients
          \/ proc[p].at = "shmat" /\ a = "P1" /\ p \in Servers
      BY <1>0, <2>1, <2>2
    <3>. QED
      BY <2>1, <3>1, <3>2, MultQuiet
  <2>4. CASE Multiple!Go(p, "end")
    BY <1>1, <1>2, <2>1, <2>4
  <2>. QED
    BY <1>7, <2>2, <2>3, <2>4 DEF Multiple!Attach, Multiple!Shmat
<1>8. CASE Multiple!ClientSemop(p) \/ Multiple!ServerSemop(p)
  <2>1. PICK a \in MultSteps : a = IF p \in Stoppers THEN "end" ELSE "P2"
    BY <1>2
  <2>2. \/ Multiple!Op(p, "P0", 0, -1, "write")
        \/ Multiple!Op(p, "V1", 1, 1, a)
        \/ Multiple!Op(p, "P2", 2, -1, "print")
        \/ Multiple!Op(p, "V0", 0, 1, "end")
        \/ Multiple!Op(p, "P1", 1, -1, "take")
        \/ Multiple!Op(p, "V2", 2, 1, "P1")
        \/ Multiple!Op(p, "lastV2", 2, 1, "rmshm")
    BY <1>8, <2>1 DEF Multiple!ClientSemop, Multiple!ServerSemop
  <2>3. CASE Multiple!Op(p, "V1", 1, 1, a)
    BY <2>1, <2>3, MultOp
  <2>4. CASE Multiple!Op(p, "P0", 0, -1, "write")
    BY <1>2, <2>4, MultOp
  <2>5. CASE Multiple!Op(p, "P2", 2, -1, "print")
    BY <1>2, <2>5, MultOp
  <2>6. CASE Multiple!Op(p, "V0", 0, 1, "end")
    BY <1>2, <2>6, MultOp
  <2>7. CASE Multiple!Op(p, "P1", 1, -1, "take")
    BY <1>2, <2>7, MultOp
  <2>8. CASE Multiple!Op(p, "V2", 2, 1, "P1")
    BY <1>2, <2>8, MultOp
  <2>9. CASE Multiple!Op(p, "lastV2", 2, 1, "rmshm")
    BY <1>2, <2>9, MultOp
  <2>. QED
    BY <2>2, <2>3, <2>4, <2>5, <2>6, <2>7, <2>8, <2>9
<1>9. ASSUME NEW x \in MultTexts, NEW a \in MultSteps, Multiple!Put(p, x, a),
             \/ proc[p].at = "write" /\ a = "V1" /\ x = p
             \/ /\ proc[p].at = "take" /\ a \in {"V2", "lastV2"}
                /\ x = Multiple!Answer(mem[proc[p].shm])
      PROVE  MultInv'
  <2>1. /\ proc' \in [Procs -> MultProc] /\ UNCHANGED <<shmKey, semKey, sem>>
        /\ Becomes(p, a, proc[p].shm, proc[p].sem, proc[p].mapped /\ a # "end", proc[p].held)
        /\ mem' = [mem EXCEPT ![proc[p].shm] = x]
    BY <1>0, <1>9, GoEffect DEF MultProc, Multiple!Go, Multiple!Put
  <2>. QED
    BY <1>9, <2>1, MultPut
<1>10. CASE Multiple!Write(p)
  <2>1. p \in MultTexts /\ proc[p].at = "write" /\ Multiple!Put(p, p, "V1")
    BY <1>0, <1>10 DEF Multiple!Write, MultProcOK, MultEngaged, MultTexts
  <2>. QED
    BY <1>2, <1>9, <2>1
<1>11. CASE Multiple!Show(p)
  <2>1. p \in scene.run /\ proc[p].at = "print" /\ Multiple!Go(p, "V0") /\ UNCHANGED <<shmKey, semKey, mem, sem>>
    BY <1>0, <1>11 DEF MultProcOK, Multiple!Show, Multiple!kernel
  <2>. QED
    BY <1>1, <1>2, <2>1
<1>12. CASE Multiple!Take(p)
  <2>1. mem[proc[p].shm] \in Clients /\ proc[p].at = "take"
    BY <1>12 DEF Multiple!Take, MultInv, MultData, MultRequest
  <2>2. PICK x \in MultTexts : x = Multiple!Answer(mem[proc[p].shm])
    BY <2>1 DEF MultTexts
  <2>3. PICK a \in MultSteps : a = IF mem[proc[p].shm] \in Stoppers THEN "lastV2" ELSE "V2"
    BY <1>2
  <2>4. Multiple!Put(p, x, a) /\ a \in {"V2", "lastV2"}
    BY <1>12, <2>2, <2>3 DEF Multiple!Take
  <2>. QED
    BY <1>9, <2>1, <2>2, <2>4
<1>13. CASE Multiple!Remove(p)
  <2>1. p \in scene.run
    BY <1>0, <1>13 DEF Multiple!Remove, MultProcOK
  <2>2. CASE proc[p].at = "rmshm" /\ Multiple!RemoveShm(p, "rmsem")
    <3>1. /\ UNCHANGED <<semKey, mem, sem>> /\ shmKey' \in {shmKey, None}
          /\ Multiple!Go(p, "rmsem") \/ Multiple!Go(p, "end")
      BY <2>2 DEF Multiple!RemoveShm
    <3>. QED
      BY <1>1, <1>2, <2>1, <2>2, <3>1
  <2>3. CASE proc[p].at = "rmsem" /\ Multiple!RemoveSem(p)
    <3>1. /\ UNCHANGED <<shmKey, mem, sem>> /\ semKey' \in {semKey, None}
          /\ Multiple!Go(p, "end")
      BY <2>3 DEF Multiple!RemoveSem
    <3>. QED
      BY <1>1, <1>2, <2>1, <3>1
  <2>. QED
    BY <1>13, <2>2, <2>3 DEF Multiple!Remove
<1>. QED
  BY <1>3, <1>4, <1>5, <1>6, <1>7, <1>8, <1>10, <1>11, <1>12, <1>13 DEF Multiple!Step

LEMMA MultStep ==
    ASSUME MultGiven, Multiple!Proper => MultInv, [Multiple!Next]_(Multiple!vars)
    PROVE  Multiple!Proper' => MultInv'
<1>1. scene' = scene
  BY DEF Multiple!Next, Multiple!vars
<1>2. Multiple!Proper' <=> Multiple!Proper
  BY <1>1 DEF Multiple!Proper
<1>. SUFFICES ASSUME Multiple!Proper PROVE MultInv'
  BY <1>2
<1>3. CASE Multiple!Next
  BY <1>1, <1>3, MultStepOf DEF Multiple!Next
<1>4. CASE UNCHANGED Multiple!vars
  <2>1. UNCHANGED <<scene, shmKey, semKey, mem, sem, proc>>
    BY <1>4 DEF Multiple!vars, Multiple!moving, Multiple!kernel
  <2>. QED
    BY <2>1 DEF MultInv, MultKernelOK, MultProcOK, MultInside, MultEngaged, MultActive, MultPast,
                MultOneSegment, MultOneSet, MultNamed, MultStart, MultToken, MultHolder, MultAlone,
                MultData, MultRequest, MultAsked, MultReplied, Multiple!Zeroes
<1>. QED
  BY <1>3, <1>4

LEMMA MultUnits ==
    ASSUME MultGiven, MultInv, semKey # None
    PROVE  Multiple!UnitsKept(1)
<1>1. \A i \in {0, 1, 2} : sem[i] \in {0, 1} /\ (sem[i] = 1 => 1..sem[i] = {1}) /\ (sem[i] = 0 => 1..sem[i] = {})
  BY DEF MultInv, MultKernelOK
<1>2. \A p \in Procs : /\ proc[p].held \in {0, 1} /\ (proc[p].held = 1 => 1..proc[p].held = {1})
                       /\ (proc[p].held = 0 => 1..proc[p].held = {})
  BY DEF MultInv, MultProc, IpcProc
<1>3. ASSUME NEW u \in Multiple!InSet PROVE \E i \in {0, 1, 2} : sem[i] = 1 /\ u = <<i, 1>>
  <2>1. PICK i \in {0, 1, 2} : u \in {i} \X (1..sem[i])
    BY <1>3 DEF Multiple!InSet
  <2>2. sem[i] = 1
    BY <1>1, <2>1
  <2>3. u \in {i} \X {1}
    BY <1>1, <2>1, <2>2
  <2>. QED
    BY <2>2, <2>3
<1>4. ASSUME NEW u \in Multiple!Taken PROVE \E p \in Procs : MultHolder(p) /\ u = <<p, 1>>
  <2>1. PICK p \in Procs : proc[p].sem = semKey /\ u \in {p} \X (1..proc[p].held)
    BY <1>4 DEF Multiple!Taken, Multiple!SetThere
  <2>2. proc[p].held = 1
    BY <1>2, <2>1
  <2>3. u \in {p} \X {1}
    BY <1>2, <2>1, <2>2
  <2>. QED
    BY <2>1, <2>2, <2>3 DEF MultHolder
<1>5. PICK x : Multiple!InSet \subseteq {x}
  <2>1. CASE \E i \in {0, 1, 2} : sem[i] = 1
    BY <1>3, <2>1 DEF MultInv, MultToken
  <2>2. CASE ~\E i \in {0, 1, 2} : sem[i] = 1
    BY <1>3, <2>2
  <2>. QED
    BY <2>1, <2>2
<1>6. PICK y : Multiple!Taken \subseteq {y}
  <2>1. CASE \E p \in Procs : MultHolder(p)
    BY <1>4, <2>1 DEF MultInv, MultToken
  <2>2. CASE ~\E p \in Procs : MultHolder(p)
    BY <1>4, <2>2
  <2>. QED
    BY <2>1, <2>2
<1>7. Multiple!InSet = {} \/ Multiple!Taken = {}
  BY <1>3, <1>4 DEF MultInv, MultToken
<1>8. Multiple!InSet = {} => sem = Multiple!Zeroes
  <2>. SUFFICES ASSUME Multiple!InSet = {} PROVE sem = Multiple!Zeroes
    OBVIOUS
  <2>1. ASSUME NEW i \in {0, 1, 2}, sem[i] = 1 PROVE FALSE
    <3>1. <<i, 1>> \in {i} \X (1..sem[i])
      BY <1>1, <2>1
    <3>2. <<i, 1>> \in Multiple!InSet
      BY <3>1 DEF Multiple!InSet
    <3>. QED
      BY <3>2
  <2>2. \A i \in {0, 1, 2} : sem[i] = 0
    BY <1>1, <2>1
  <2>. QED
    BY <2>2 DEF MultInv, MultKernelOK, Multiple!Zeroes
<1>9. PICK a, b : a = Cardinality(Multiple!InSet) /\ b = Cardinality(Multiple!Taken)
  OBVIOUS
<1>10. Multiple!Units = a + b
  <2>1. /\ Multiple!Cardinality(Multiple!InSet) = Cardinality(Multiple!InSet)
        /\ Multiple!Cardinality(Multiple!Taken) = Cardinality(Multiple!Taken)
    BY DEF Multiple!Cardinality, Cardinality
  <2>. QED
    BY <1>9, <2>1 DEF Multiple!Units
<1>11. a + b \in {0, 1} /\ (a + b = 0 => Multiple!InSet = {})
  BY <1>5, <1>6, <1>7, <1>9, OneAtMost
<1>. QED
  BY <1>8, <1>10, <1>11 DEF Multiple!UnitsKept

LEMMA MultRight ==
    ASSUME MultGiven, Multiple!Proper => MultInv
    PROVE  Multiple!OneToken /\ Multiple!Exclusion /\ Multiple!OwnAnswer
<1>1. ASSUME Multiple!Proper, MultInv PROVE Multiple!TypeOK
  <2>1. scene \in ScenesOf("multiple") /\ scene \in Multiple!SceneType
    BY <1>1 DEF MultInv, MultKernelOK, MultGiven
  <2>2. mem \in [Procs -> Multiple!Requests] /\ sem \in [{0, 1, 2} -> 0..2]
    BY <1>1 DEF MultInv, MultKernelOK, Multiple!Requests, MultTexts
  <2>3. shmKey \in Procs \cup {None} /\ semKey \in Procs \cup {None}
    BY <1>1 DEF MultInv, MultKernelOK
  <2>4. proc \in [Procs -> [at : ({"semget", "setall", "shmat"} \cup Multiple!Settled
                                     \cup {"lastV2", "rmshm", "rmsem"}) \cup {"new", "end"},
                            shm : Procs \cup {None}, sem : Procs \cup {None},
                            mapped : BOOLEAN, held : 0..2]]
    BY <1>1 DEF MultInv, MultProc, IpcProc, MultSteps, Multiple!Settled
  <2>. QED
    BY <2>1, <2>2, <2>3, <2>4 DEF Multiple!TypeOK, Multiple!IpcTypeOK
<1>2. ASSUME Multiple!Proper, MultInv PROVE Multiple!UnitsKept(1)
  <2>1. CASE semKey = None
    BY <2>1 DEF Multiple!UnitsKept
  <2>. QED
    BY <1>2, <2>1, MultUnits
<1>3. Multiple!OneToken
  BY <1>1, <1>2 DEF Multiple!OneToken
<1>4. Multiple!Exclusion
  BY DEF MultInv, MultAlone, MultInside, Multiple!Exclusion, Multiple!Inside
<1>5. Multiple!OwnAnswer
  BY DEF MultInv, MultData, MultGiven, Multiple!OwnAnswer, Multiple!At
<1>. QED
  BY <1>3, <1>4, <1>5
-----------------------------------------------------------------------------
(* CancelMutex: two threads and a cleanup handler that unlocks a mutex     *)
(* that it may not own.                                                    *)

\* The thread that is inside owns the mutex, but a cancelled thread 1 may have
\* unlocked it behind the back of thread 2.
MutexInv ==
    /\ Mutex!TypeOK
    /\ proc[1] = "inside" => sem = 1
    /\ proc[2] = "inside" => sem = 2 \/ proc[1] = "cancelled"

LEMMA MutexInit ==
    ASSUME Mutex!Init
    PROVE  MutexInv
  BY DEF Mutex!Init, MutexInv, Mutex!TypeOK, Mutex!Threads

LEMMA MutexStep ==
    ASSUME None \notin Nat, MutexInv, [Mutex!Next]_(Mutex!moving)
    PROVE  MutexInv'
<1>. USE DEF MutexInv, Mutex!TypeOK, Mutex!Threads, Mutex!Go
<1>0. None # 1 /\ None # 2
  OBVIOUS
<1>1. ASSUME NEW t \in {1, 2}, Mutex!Create(t) PROVE MutexInv'
  BY <1>1 DEF Mutex!Create
<1>2. ASSUME NEW t \in {1, 2}, Mutex!Lock(t) PROVE MutexInv'
  BY <1>0, <1>2 DEF Mutex!Lock
<1>3. ASSUME NEW t \in {1, 2}, Mutex!Show(t) PROVE MutexInv'
  BY <1>3 DEF Mutex!Show
<1>4. ASSUME NEW t \in {1, 2}, Mutex!Unlock(t) PROVE MutexInv'
  BY <1>4 DEF Mutex!Unlock
<1>5. CASE Mutex!Trylock
  BY <1>0, <1>5 DEF Mutex!Trylock
<1>6. CASE Mutex!Cancel
  BY <1>6 DEF Mutex!Cancel
<1>7. CASE Mutex!Cancelled
  BY <1>7 DEF Mutex!Cancelled
<1>8. CASE UNCHANGED Mutex!moving
  BY <1>8 DEF Mutex!moving
<1>. QED
  BY <1>1, <1>2, <1>3, <1>4, <1>5, <1>6, <1>7, <1>8 DEF Mutex!Next

LEMMA MutexRight == MutexInv => Mutex!Exclusion
  BY DEF MutexInv, Mutex!Exclusion
-----------------------------------------------------------------------------
(* SimpleLock, for any programs, values and scenes: the units of a set are *)
(* in it or with programs, and a writer inside has all of them.            *)

SimpleGiven ==
    /\ None \notin Procs /\ IsFiniteSet(Procs) /\ Servers \cup Writers \subseteq Procs /\ Value \in Nat \ {0}
    /\ ScenesOf("simple") \subseteq Simple!SceneType

SimpleSteps == {"new", "semget", "setval", "sigaction", "shmat", "hello", "loop", "P", "write", "V",
                "shmdt", "rmshm", "rmsem", "sigsem", "end"}
SimpleTexts == {Blank, Simple!Hello} \cup {Mesg[w] : w \in Writers}
SimpleProc == IpcProc(SimpleSteps, Value)

SimpleKernelOK ==
    /\ scene \in ScenesOf("simple")
    /\ shmKey \in Procs \cup {None} /\ semKey \in Procs \cup {None}
    /\ mem \in [Procs -> SimpleTexts] /\ sem \in [{0} -> 0..Value]

\* A program has units between P and V, and at exit when its V failed or a
\* signal came; a set has the name of the program that created it.
SimpleProcOK(p) ==
    /\ proc[p].at \in {"write", "V"} => proc[p].held = Simple!Amount(p)
    /\ proc[p].at \notin {"write", "V", "rmshm", "rmsem", "sigsem", "end"} => proc[p].held = 0
    /\ proc[p].at \in {"sigaction", "hello", "loop", "P", "write", "V"} => proc[p].sem \in Procs
    /\ proc[p].at = "shmat" /\ p \in Simple!Readers => proc[p].sem \in Procs
    /\ proc[p].at = "write" => p \in Writers
    /\ proc[p].at = "setval" => proc[p].sem = p
    /\ proc[p].at \in {"new", "semget"} => semKey # p /\ \A q \in Procs : proc[q].sem # p
    /\ proc[p].at \in {"sigaction", "rmshm", "rmsem", "sigsem"} => p \in Servers
    /\ proc[p].at = "shmat" /\ p \notin Simple!Readers => \A q \in Procs : semKey # p /\ proc[q].sem # p

\* No unit before SETVAL, all of them after it.
SimpleTokens(p) == {p} \X (1..proc[p].held)
SimpleUnits ==
    semKey # None =>
    /\ \/ sem[0] = 0 /\ Simple!Taken = {}
       \/ sem[0] + Cardinality(Simple!Taken) = Value
    /\ \A p \in Procs : proc[p].at = "setval" /\ proc[p].sem = semKey
                           => sem[0] = 0 /\ Simple!Taken = {}

SimpleAlone ==
    \A w \in Writers \cap Procs, p \in Procs :
       Simple!Inside(w) /\ Simple!Inside(p) /\ p # w => proc[w].sem # proc[p].sem
SimpleOneSet == Simple!Removal \/ \A p \in Procs : proc[p].sem \in {None, semKey}

SimpleInv ==
    /\ SimpleKernelOK /\ proc \in [Procs -> SimpleProc] /\ \A p \in Procs : SimpleProcOK(p)
    /\ SimpleUnits /\ SimpleAlone /\ SimpleOneSet

\* n units of one process.
LEMMA UnitsOf ==
    ASSUME NEW p, NEW n \in Nat
    PROVE  IsFiniteSet({p} \X (1..n)) /\ Cardinality({p} \X (1..n)) = n
<1>1. IsFiniteSet({p}) /\ Cardinality({p}) = 1
  BY FS_Singleton
<1>2. IsFiniteSet(1..n) /\ Cardinality(1..n) = n
  BY FS_Interval
<1>3. /\ IsFiniteSet({p} \X (1..n))
      /\ Cardinality({p} \X (1..n)) = Cardinality({p}) * Cardinality(1..n)
  BY <1>1, <1>2, FS_Product
<1>4. Cardinality({p}) * Cardinality(1..n) = 1 * n
  BY <1>1, <1>2
<1>. QED
  BY <1>3, <1>4

\* Units that come to others add to them.
LEMMA UnitsAdd ==
    ASSUME NEW S, IsFiniteSet(S), NEW p, NEW n \in Nat, S \cap ({p} \X (1..n)) = {}
    PROVE  Cardinality(S \cup ({p} \X (1..n))) = Cardinality(S) + n
<1>1. PICK N : N = {p} \X (1..n)
  OBVIOUS
<1>2. IsFiniteSet(N) /\ Cardinality(N) = n
  BY <1>1, UnitsOf
<1>3. Cardinality(S \cup N) = Cardinality(S) + Cardinality(N) - Cardinality(S \cap N)
  BY <1>2, FS_Union
<1>4. S \cap N = {} /\ Cardinality({}) = 0 /\ Cardinality(S) \in Nat
  BY <1>1, FS_EmptySet, FS_CardinalityType
<1>5. Cardinality(S \cap N) = 0
  BY <1>4
<1>6. Cardinality(S \cup N) = Cardinality(S) + n
  BY <1>2, <1>3, <1>4, <1>5
<1>. QED
  BY <1>1, <1>6

\* What is taken, unit by unit.
LEMMA SimpleTaken ==
    ASSUME SimpleGiven, proc \in [Procs -> SimpleProc]
    PROVE  /\ IsFiniteSet(Simple!Taken) /\ Cardinality(Simple!Taken) \in Nat
           /\ \A u : u \in Simple!Taken <=> \E q \in Procs : proc[q].sem = semKey /\ u \in SimpleTokens(q)
           /\ \A q \in Procs : proc[q].sem = semKey => proc[q].held <= Cardinality(Simple!Taken)
<1>1. \A u : u \in Simple!Taken <=> \E q \in Procs : proc[q].sem = semKey /\ u \in SimpleTokens(q)
  BY DEF Simple!Taken, Simple!SetThere, SimpleTokens
<1>2. \A q \in Procs : proc[q].held \in 0..Value
  BY DEF SimpleProc, IpcProc
<1>3. IsFiniteSet(Procs \X (1..Value))
  <2>1. Value \in Int /\ 1 \in Int /\ IsFiniteSet(Procs)
    BY DEF SimpleGiven
  <2>2. IsFiniteSet(1..Value)
    BY <2>1, FS_Interval
  <2>. QED
    BY <2>1, <2>2, FS_Product
<1>4. Simple!Taken \subseteq Procs \X (1..Value)
  <2>. SUFFICES ASSUME NEW u \in Simple!Taken PROVE u \in Procs \X (1..Value)
    OBVIOUS
  <2>1. PICK q \in Procs : u \in SimpleTokens(q)
    BY <1>1
  <2>. QED
    BY <1>2, <2>1 DEF SimpleTokens, SimpleGiven
<1>5. IsFiniteSet(Simple!Taken) /\ Cardinality(Simple!Taken) \in Nat
  BY <1>3, <1>4, FS_Subset, FS_CardinalityType
<1>6. ASSUME NEW q \in Procs, proc[q].sem = semKey PROVE proc[q].held <= Cardinality(Simple!Taken)
  <2>1. SimpleTokens(q) \subseteq Simple!Taken
    BY <1>1, <1>6
  <2>2. Cardinality(SimpleTokens(q)) <= Cardinality(Simple!Taken)
    BY <1>5, <2>1, FS_Subset
  <2>3. Cardinality(SimpleTokens(q)) = proc[q].held
    <3>1. PICK n \in Nat : n = proc[q].held
      BY <1>2 DEF SimpleGiven
    <3>. QED
      BY <3>1, UnitsOf DEF SimpleTokens
  <2>. QED
    BY <2>2, <2>3
<1>. QED
  BY <1>1, <1>5, <1>6

LEMMA SimpleInit ==
    ASSUME SimpleGiven, Simple!Init
    PROVE  SimpleInv
<1>. USE DEF SimpleGiven, Simple!Init, Simple!IpcInit, Simple!Zeroes
<1>1. SimpleKernelOK
  BY DEF SimpleKernelOK, SimpleTexts
<1>2. proc \in [Procs -> SimpleProc]
  BY DEF SimpleProc, IpcProc, SimpleSteps
<1>3. \A p \in Procs : proc[p].at = "new" /\ proc[p].sem = None /\ proc[p].held = 0
  OBVIOUS
<1>4. \A p \in Procs : SimpleProcOK(p)
  BY <1>3 DEF SimpleProcOK
<1>5. SimpleUnits /\ SimpleAlone /\ SimpleOneSet
  BY <1>3 DEF SimpleUnits, SimpleAlone, SimpleOneSet, Simple!Inside
<1>. QED
  BY <1>1, <1>2, <1>4, <1>5 DEF SimpleInv

\* A first reader that has begun to remove goes on with it.
LEMMA SimpleGone ==
    ASSUME SimpleGiven, NEW p \in Procs, \A q \in Procs \ {p} : proc'[q] = proc[q], Simple!Removal,
           proc[p].at \in {"rmshm", "rmsem", "sigsem", "end"}
              => proc'[p].at \in {"rmshm", "rmsem", "sigsem", "end"}
    PROVE  Simple!Removal'
  BY DEF Simple!Removal, SimpleGiven

\* A step that takes and gives no unit; a key may go.
LEMMA SimpleQuiet ==
    ASSUME SimpleGiven, SimpleInv, scene' = scene, sem' = sem, mem' \in [Procs -> SimpleTexts],
           shmKey' \in Procs \cup {None}, semKey' = semKey \/ (semKey' = None /\ Simple!Removal),
           NEW p \in Procs, NEW a, NEW s, NEW m, proc' \in [Procs -> SimpleProc],
           Becomes(p, a, s, proc[p].sem, m, proc[p].held), SimpleProcOK(p)',
           a # "setval", a \in {"write", "V"} => proc[p].at \in {"write", "V"},
           proc[p].at \in {"rmshm", "rmsem", "sigsem", "end"}
              => a \in {"rmshm", "rmsem", "sigsem", "end"}
    PROVE  SimpleInv'
<1>0. /\ proc'[p].at = a /\ proc'[p].sem = proc[p].sem
      /\ proc'[p].held = proc[p].held /\ \A q \in Procs \ {p} : proc'[q] = proc[q]
      /\ None \notin Procs
  BY DEF Becomes, SimpleGiven
<1>1. SimpleKernelOK'
  BY DEF SimpleInv, SimpleKernelOK
<1>2. \A q \in Procs : proc'[q].sem = proc[q].sem /\ proc'[q].held = proc[q].held
  BY <1>0
<1>3. ASSUME NEW q \in Procs \ {p} PROVE SimpleProcOK(q)'
  <2>1. SimpleProcOK(q) /\ proc'[q] = proc[q]
    BY <1>0 DEF SimpleInv
  <2>2. semKey # q => semKey' # q
    BY <1>0
  <2>. QED
    BY <1>2, <2>1, <2>2 DEF SimpleProcOK, Simple!Amount
<1>4. SimpleUnits'
  <2>. SUFFICES ASSUME semKey' = semKey, semKey # None PROVE SimpleUnits'
    BY DEF SimpleUnits
  <2>1. Simple!Taken' = Simple!Taken
    <3>1. \A u : u \in Simple!Taken' <=> u \in Simple!Taken
      BY <1>2, SimpleTaken DEF SimpleInv, Simple!Taken, Simple!SetThere
    <3>. QED
      BY <3>1
  <2>2. \A q \in Procs : proc'[q].at = "setval" => proc[q].at = "setval"
    BY <1>0
  <2>. QED
    BY <1>2, <2>1, <2>2 DEF SimpleInv, SimpleUnits
<1>5. SimpleAlone'
  <2>1. \A q \in Procs : Simple!Inside(q)' => Simple!Inside(q)
    BY <1>0 DEF Simple!Inside
  <2>. QED
    BY <1>2, <2>1 DEF SimpleInv, SimpleAlone
<1>6. SimpleOneSet'
  <2>1. Simple!Removal => Simple!Removal'
    BY <1>0, SimpleGone
  <2>. QED
    BY <1>2, <2>1 DEF SimpleInv, SimpleOneSet
<1>. QED
  BY <1>1, <1>3, <1>4, <1>5, <1>6 DEF SimpleInv

\* initSema: who creates the set gives it its name, and SETVAL is still to come.
LEMMA SimpleSemget ==
    ASSUME SimpleGiven, SimpleInv, scene' = scene, UNCHANGED <<shmKey, mem>>,
           NEW p \in Procs, NEW t \in Procs, NEW a, NEW m, proc' \in [Procs -> SimpleProc],
           Becomes(p, a, proc[p].shm, t, m, proc[p].held),
           proc[p].at = "semget", semKey' = t,
           \/ t = semKey /\ sem' = sem /\ a \in {"sigaction", "shmat", "P"}
           \/ semKey = None /\ t = p /\ sem' = Simple!Zeroes /\ a = "setval",
           a = "sigaction" => p \in Servers, a = "shmat" => p \in Simple!Readers
    PROVE  SimpleInv'
<1>0. /\ proc'[p].at = a /\ proc'[p].sem = t /\ proc'[p].held = 0 /\ proc[p].held = 0
      /\ \A q \in Procs \ {p} : proc'[q] = proc[q]
      /\ None \notin Procs /\ a \in {"sigaction", "shmat", "P", "setval"}
      /\ semKey # p /\ \A q \in Procs : proc[q].sem # p
      /\ \A q \in Procs : proc'[q].held = proc[q].held
  BY DEF Becomes, SimpleGiven, SimpleInv, SimpleProcOK
<1>1. SimpleKernelOK'
  BY DEF SimpleInv, SimpleKernelOK, Simple!Zeroes, SimpleGiven
<1>2. \A q \in Procs : SimpleProcOK(q)'
  <2>1. SimpleProcOK(p)'
    BY <1>0 DEF SimpleProcOK
  <2>2. ASSUME NEW q \in Procs \ {p} PROVE SimpleProcOK(q)'
    <3>1. SimpleProcOK(q) /\ proc'[q] = proc[q]
      BY <1>0 DEF SimpleInv
    <3>2. \/ proc[q].at \notin {"new", "semget"} /\ ~(proc[q].at = "shmat" /\ q \notin Simple!Readers)
          \/ /\ semKey # q /\ t # q
             /\ \A r \in Procs : proc'[r].sem # q
      BY <1>0, <3>1 DEF SimpleProcOK
    <3>. QED
      BY <3>1, <3>2 DEF SimpleProcOK, Simple!Amount
  <2>. QED
    BY <2>1, <2>2
<1>3. SimpleUnits'
  <2>1. CASE t = semKey /\ sem' = sem /\ a \in {"sigaction", "shmat", "P"}
    <3>1. Simple!Taken' = Simple!Taken
      <4>1. \A q \in Procs \ {p} : (proc'[q].sem = semKey') <=> (proc[q].sem = semKey)
        BY <1>0, <2>1
      <4>2. \A u : u \notin SimpleTokens(p) /\ u \notin SimpleTokens(p)'
        BY <1>0 DEF SimpleTokens
      <4>3. \A q \in Procs : SimpleTokens(q)' = SimpleTokens(q)
        BY <1>0 DEF SimpleTokens
      <4>4. \A u : u \in Simple!Taken' <=> \E q \in Procs : proc'[q].sem = semKey' /\ u \in SimpleTokens(q)'
        BY DEF Simple!Taken, Simple!SetThere, SimpleTokens
      <4>5. \A u : u \in Simple!Taken <=> \E q \in Procs : proc[q].sem = semKey /\ u \in SimpleTokens(q)
        BY SimpleTaken DEF SimpleInv
      <4>6. \A u : u \in Simple!Taken' <=> u \in Simple!Taken
        BY <4>1, <4>2, <4>3, <4>4, <4>5
      <4>. QED
        BY <4>6
    <3>2. \A q \in Procs : proc'[q].at = "setval" => proc[q].at = "setval" /\ proc'[q].sem = proc[q].sem
      BY <1>0, <2>1
    <3>. QED
      BY <1>0, <2>1, <3>1, <3>2 DEF SimpleInv, SimpleUnits
  <2>2. CASE t = p /\ sem' = Simple!Zeroes /\ a = "setval"
    <3>1. Simple!Taken' = {}
      <4>1. \A u : u \in Simple!Taken' => \E q \in Procs : proc'[q].sem = p /\ u \in SimpleTokens(q)'
        BY <2>2 DEF Simple!Taken, Simple!SetThere, SimpleTokens
      <4>2. \A q \in Procs : proc'[q].sem = p => q = p
        BY <1>0
      <4>3. \A u : u \notin SimpleTokens(p)'
        BY <1>0 DEF SimpleTokens
      <4>4. \A u : u \notin Simple!Taken'
        BY <4>1, <4>2, <4>3
      <4>. QED
        BY <4>4
    <3>2. sem'[0] = 0
      BY <2>2 DEF Simple!Zeroes
    <3>. QED
      BY <3>1, <3>2 DEF SimpleUnits
  <2>. QED
    BY <2>1, <2>2
<1>4. SimpleAlone'
  <2>1. \A q \in Procs : Simple!Inside(q)' => Simple!Inside(q) /\ q # p
    BY <1>0 DEF Simple!Inside
  <2>2. \A q \in Procs : q # p => proc'[q].sem = proc[q].sem
    BY <1>0
  <2>. QED
    BY <2>1, <2>2 DEF SimpleInv, SimpleAlone
<1>5. SimpleOneSet'
  <2>1. Simple!Removal => Simple!Removal'
    BY <1>0, SimpleGone
  <2>2. ~Simple!Removal => \A q \in Procs : proc'[q].sem \in {None, t}
    BY <1>0 DEF SimpleInv, SimpleOneSet
  <2>. QED
    BY <2>1, <2>2 DEF SimpleOneSet
<1>. QED
  BY <1>1, <1>2, <1>3, <1>4, <1>5 DEF SimpleInv

\* semctl(SETVAL) by the creator: nobody has taken anything yet.
LEMMA SimpleSetVal ==
    ASSUME SimpleGiven, SimpleInv, scene' = scene, UNCHANGED <<shmKey, semKey, mem>>,
           NEW p \in Procs, proc[p].at = "setval", proc[p].sem = semKey,
           sem' = [i \in {0} |-> Value], NEW a, a \in {"sigaction", "shmat", "P"},
           a = "sigaction" => p \in Servers, a = "shmat" => p \in Simple!Readers,
           proc' \in [Procs -> SimpleProc],
           \A q \in Procs :
              /\ proc'[q].at = (IF q = p THEN a ELSE proc[q].at)
              /\ proc'[q].shm = proc[q].shm /\ proc'[q].sem = proc[q].sem
              /\ proc'[q].held = (IF proc[q].at = "end" THEN 0 ELSE proc[q].held)
    PROVE  SimpleInv'
<1>0. /\ semKey = p /\ semKey # None /\ sem[0] = 0 /\ Simple!Taken = {} /\ SimpleProcOK(p)
  BY DEF SimpleInv, SimpleUnits, SimpleProcOK, SimpleGiven
<1>1. SimpleKernelOK' /\ sem'[0] = Value
  BY DEF SimpleInv, SimpleKernelOK, SimpleGiven
<1>2. ASSUME NEW q \in Procs PROVE SimpleProcOK(q)'
  <2>1. SimpleProcOK(q)
    BY DEF SimpleInv
  <2>2. CASE q = p
    BY <1>0, <2>1, <2>2 DEF SimpleProcOK, SimpleGiven
  <2>3. CASE q # p
    <3>1. proc'[q].at = proc[q].at /\ proc'[q].sem = proc[q].sem
          /\ \A r \in Procs : proc'[r].sem = proc[r].sem
      BY <2>3
    <3>2. proc[q].at # "end" => proc'[q].held = proc[q].held
      OBVIOUS
    <3>. QED
      BY <2>1, <3>1, <3>2 DEF SimpleProcOK, Simple!Amount
  <2>. QED
    BY <2>2, <2>3
<1>3. Simple!Taken' = {}
  <2>1. \A u : u \notin Simple!Taken
    BY <1>0
  <2>2. \A q \in Procs : proc[q].sem = semKey => \A u : u \notin SimpleTokens(q)
    BY <2>1, SimpleTaken DEF SimpleInv
  <2>3. ASSUME NEW q \in Procs, proc[q].sem = semKey PROVE \A u : u \notin SimpleTokens(q)'
    <3>1. CASE proc[q].at = "end"
      <4>1. proc'[q].held = 0
        BY <3>1
      <4>. QED
        BY <4>1 DEF SimpleTokens
    <3>2. CASE proc[q].at # "end"
      <4>1. proc'[q].held = proc[q].held
        BY <3>2
      <4>. QED
        BY <2>2, <2>3, <4>1 DEF SimpleTokens
    <3>. QED
      BY <3>1, <3>2
  <2>4. \A u : u \in Simple!Taken' => \E q \in Procs : proc[q].sem = semKey /\ u \in SimpleTokens(q)'
    BY DEF Simple!Taken, Simple!SetThere, SimpleTokens
  <2>5. \A u : u \notin Simple!Taken'
    BY <2>3, <2>4
  <2>. QED
    BY <2>5
<1>4. SimpleUnits'
  <2>1. sem'[0] + Cardinality(Simple!Taken') = Value
    <3>1. Cardinality(Simple!Taken') = 0
      BY <1>3, FS_EmptySet
    <3>. QED
      BY <1>1, <3>1 DEF SimpleGiven
  <2>2. \A q \in Procs : ~(proc'[q].at = "setval" /\ proc'[q].sem = semKey')
    <3>1. \A q \in Procs : proc[q].at = "setval" => proc[q].sem = q
      BY DEF SimpleInv, SimpleProcOK
    <3>. QED
      BY <1>0, <3>1
  <2>. QED
    BY <2>1, <2>2 DEF SimpleUnits
<1>5. SimpleAlone'
  <2>1. \A q \in Procs : Simple!Inside(q)' => Simple!Inside(q)
    BY DEF Simple!Inside
  <2>2. \A q \in Procs : proc'[q].sem = proc[q].sem
    OBVIOUS
  <2>. QED
    BY <2>1, <2>2 DEF SimpleInv, SimpleAlone
<1>6. SimpleOneSet'
  <2>1. Simple!Removal => Simple!Removal'
    BY DEF Simple!Removal, SimpleGiven
  <2>2. \A q \in Procs : proc'[q].sem = proc[q].sem
    OBVIOUS
  <2>. QED
    BY <2>1, <2>2 DEF SimpleInv, SimpleOneSet
<1>. QED
  BY <1>1, <1>2, <1>4, <1>5, <1>6 DEF SimpleInv

\* P: a reader takes one unit, a writer all of them.
LEMMA SimpleTakes ==
    ASSUME SimpleGiven, SimpleInv, scene' = scene, UNCHANGED <<shmKey, semKey, mem>>,
           NEW p \in Procs, NEW a, NEW m, NEW n, NEW v, proc' \in [Procs -> SimpleProc],
           proc[p].at = "P", proc[p].sem = semKey, n = Simple!Amount(p), v = sem[0] - n, v >= 0,
           sem' = [sem EXCEPT ![0] = v],
           Becomes(p, a, proc[p].shm, proc[p].sem, m, n),
           a = (IF p \in Writers THEN "write" ELSE "V")
    PROVE  SimpleInv'
<1>0. /\ proc'[p].at = a /\ proc'[p].sem = proc[p].sem /\ proc'[p].held = n /\ proc[p].held = 0
      /\ \A q \in Procs \ {p} : proc'[q] = proc[q]
      /\ None \notin Procs /\ a \in {"write", "V"} /\ semKey # None /\ proc[p].sem \in Procs
      /\ \A q \in Procs : proc'[q].sem = proc[q].sem
      /\ n \in Nat \ {0} /\ (p \in Writers => n = Value) /\ (p \notin Writers => n = 1)
      /\ sem \in [{0} -> 0..Value] /\ Value \in Nat \ {0}
  BY DEF Becomes, SimpleGiven, SimpleInv, SimpleProcOK, Simple!Amount, SimpleKernelOK
<1>1. PICK b \in 0..Value : b = sem[0]
  BY <1>0
<1>2. v \in 0..Value /\ v + n = b /\ b > 0
  BY <1>0, <1>1
<1>3. SimpleKernelOK' /\ sem'[0] = v
  BY <1>0, <1>2 DEF SimpleInv, SimpleKernelOK
<1>4. ASSUME NEW q \in Procs PROVE SimpleProcOK(q)'
  <2>1. CASE q = p
    <3>1. SimpleProcOK(p)
      BY DEF SimpleInv
    <3>. QED
      BY <1>0, <2>1, <3>1 DEF SimpleProcOK, Simple!Amount
  <2>2. CASE q # p
    <3>1. SimpleProcOK(q) /\ proc'[q] = proc[q]
      BY <1>0, <2>2 DEF SimpleInv
    <3>. QED
      BY <1>0, <3>1 DEF SimpleProcOK, Simple!Amount
  <2>. QED
    BY <2>1, <2>2
\* What is taken now.
<1>5. /\ IsFiniteSet(Simple!Taken) /\ Cardinality(Simple!Taken) \in Nat
      /\ \A u : u \in Simple!Taken <=> \E q \in Procs : proc[q].sem = semKey /\ u \in SimpleTokens(q)
      /\ \A q \in Procs : proc[q].sem = semKey => proc[q].held <= Cardinality(Simple!Taken)
  BY SimpleTaken DEF SimpleInv
<1>6. /\ Simple!Taken \cap ({p} \X (1..n)) = {}
      /\ Simple!Taken' = Simple!Taken \cup ({p} \X (1..n))
  <2>1. SimpleTokens(p) = {} /\ SimpleTokens(p)' = {p} \X (1..n)
    BY <1>0 DEF SimpleTokens
  <2>2. \A q \in Procs \ {p} : SimpleTokens(q)' = SimpleTokens(q) /\ SimpleTokens(q) \cap ({p} \X (1..n)) = {}
    BY <1>0 DEF SimpleTokens
  <2>3. \A u : u \in Simple!Taken' <=> \E q \in Procs : proc[q].sem = semKey /\ u \in SimpleTokens(q)'
    BY <1>0 DEF Simple!Taken, Simple!SetThere, SimpleTokens
  <2>4. \A u : u \in Simple!Taken' <=> u \in Simple!Taken \/ u \in {p} \X (1..n)
    BY <1>5, <2>1, <2>2, <2>3
  <2>5. \A u : ~(u \in Simple!Taken /\ u \in {p} \X (1..n))
    BY <1>5, <2>1, <2>2
  <2>. QED
    BY <2>4, <2>5
<1>7. PICK k \in Nat : k = Cardinality(Simple!Taken)
  BY <1>5
<1>8. b + k = Value /\ \A q \in Procs : proc[q].at = "setval" => proc[q].sem # semKey
  <2>1. sem[0] # 0
    BY <1>1, <1>2
  <2>. QED
    BY <1>0, <1>1, <1>7, <2>1 DEF SimpleInv, SimpleUnits
<1>9. Cardinality(Simple!Taken') = k + n
  <2>1. PICK S : S = Simple!Taken
    OBVIOUS
  <2>2. IsFiniteSet(S) /\ S \cap ({p} \X (1..n)) = {} /\ n \in Nat
    BY <1>0, <1>5, <1>6, <2>1
  <2>3. Cardinality(S \cup ({p} \X (1..n))) = Cardinality(S) + n
    BY <2>2, UnitsAdd
  <2>. QED
    BY <1>6, <1>7, <2>1, <2>3
<1>10. SimpleUnits'
  <2>1. v + (k + n) = Value
    BY <1>0, <1>1, <1>2, <1>8
  <2>2. sem'[0] + Cardinality(Simple!Taken') = Value
    BY <1>3, <1>9, <2>1
  <2>3. \A q \in Procs : proc'[q].at = "setval" => proc'[q].sem # semKey'
    BY <1>0, <1>8
  <2>. QED
    BY <2>2, <2>3 DEF SimpleUnits
\* Nobody is in this set when a writer comes, and no writer when a reader comes.
<1>11. ASSUME NEW q \in Procs, q # p, Simple!Inside(q), p \in Writers \/ q \in Writers
       PROVE  proc[q].sem # proc[p].sem
  <2>. SUFFICES ASSUME proc[q].sem = semKey PROVE FALSE
    OBVIOUS
  <2>1. PICK h \in 0..Value : h = proc[q].held
    BY DEF SimpleInv, SimpleProc, IpcProc
  <2>2. h > 0 /\ (q \in Writers => h = Value)
    BY <1>0, <1>11, <2>1 DEF SimpleInv, SimpleProcOK, Simple!Inside, Simple!Amount
  <2>3. h <= k
    BY <1>5, <1>7, <2>1
  <2>4. h + n > Value
    BY <1>0, <1>11, <2>2
  <2>. QED
    BY <1>0, <1>1, <1>2, <1>8, <2>3, <2>4
<1>12. SimpleAlone'
  <2>1. \A q \in Procs \ {p} : Simple!Inside(q)' <=> Simple!Inside(q)
    BY <1>0 DEF Simple!Inside
  <2>2. ASSUME NEW w \in Writers \cap Procs, NEW q \in Procs, Simple!Inside(w)', Simple!Inside(q)', q # w
        PROVE  proc'[w].sem # proc'[q].sem
    <3>1. CASE w = p
      BY <1>0, <1>11, <2>1, <2>2, <3>1
    <3>2. CASE q = p
      BY <1>0, <1>11, <2>1, <2>2, <3>2
    <3>3. CASE w # p /\ q # p
      BY <1>0, <2>1, <2>2, <3>3 DEF SimpleInv, SimpleAlone
    <3>. QED
      BY <3>1, <3>2, <3>3
  <2>. QED
    BY <2>2 DEF SimpleAlone
<1>13. SimpleOneSet'
  <2>1. Simple!Removal => Simple!Removal'
    BY <1>0, SimpleGone
  <2>. QED
    BY <1>0, <2>1 DEF SimpleInv, SimpleOneSet
<1>. QED
  BY <1>3, <1>4, <1>10, <1>12, <1>13 DEF SimpleInv

\* V gives back what P took.
LEMMA SimpleGives ==
    ASSUME SimpleGiven, SimpleInv, scene' = scene, UNCHANGED <<shmKey, semKey, mem>>,
           NEW p \in Procs, NEW a, NEW m, NEW n, NEW v, proc' \in [Procs -> SimpleProc],
           proc[p].at = "V", proc[p].sem = semKey, n = Simple!Amount(p), v = sem[0] + n,
           sem' = [sem EXCEPT ![0] = v],
           Becomes(p, a, proc[p].shm, proc[p].sem, m, 0), a \in {"loop", "end"}
    PROVE  SimpleInv'
<1>0. /\ proc'[p].at = a /\ proc'[p].sem = proc[p].sem /\ proc'[p].held = 0 /\ proc[p].held = n
      /\ \A q \in Procs \ {p} : proc'[q] = proc[q]
      /\ None \notin Procs /\ semKey # None /\ proc[p].sem \in Procs
      /\ \A q \in Procs : proc'[q].sem = proc[q].sem
      /\ n \in Nat \ {0} /\ n <= Value
      /\ sem \in [{0} -> 0..Value] /\ Value \in Nat \ {0}
  BY DEF Becomes, SimpleGiven, SimpleInv, SimpleProcOK, Simple!Amount, SimpleKernelOK
<1>1. PICK b \in 0..Value : b = sem[0]
  BY <1>0
\* What is taken now.
<1>2. /\ IsFiniteSet(Simple!Taken)
      /\ \A u : u \in Simple!Taken <=> \E q \in Procs : proc[q].sem = semKey /\ u \in SimpleTokens(q)
      /\ \A q \in Procs : proc[q].sem = semKey => proc[q].held <= Cardinality(Simple!Taken)
  BY SimpleTaken DEF SimpleInv
<1>3. Simple!Taken = Simple!Taken' \cup ({p} \X (1..n)) /\ Simple!Taken' \cap ({p} \X (1..n)) = {}
  <2>1. SimpleTokens(p) = {p} \X (1..n) /\ SimpleTokens(p)' = {}
    BY <1>0 DEF SimpleTokens
  <2>2. \A q \in Procs \ {p} : SimpleTokens(q)' = SimpleTokens(q) /\ SimpleTokens(q) \cap ({p} \X (1..n)) = {}
    BY <1>0 DEF SimpleTokens
  <2>3. \A u : u \in Simple!Taken' <=> \E q \in Procs : proc[q].sem = semKey /\ u \in SimpleTokens(q)'
    BY <1>0 DEF Simple!Taken, Simple!SetThere, SimpleTokens
  <2>4. \A u : u \in Simple!Taken <=> u \in Simple!Taken' \/ u \in {p} \X (1..n)
    BY <1>2, <2>1, <2>2, <2>3
  <2>5. \A u : ~(u \in Simple!Taken' /\ u \in {p} \X (1..n))
    BY <2>1, <2>2, <2>3
  <2>. QED
    BY <2>4, <2>5
<1>4. IsFiniteSet(Simple!Taken')
  BY <1>2, <1>3, FS_Subset
<1>5. PICK k \in Nat : k = Cardinality(Simple!Taken')
  BY <1>4, FS_CardinalityType
<1>6. Cardinality(Simple!Taken) = k + n
  <2>1. PICK S : S = Simple!Taken'
    OBVIOUS
  <2>2. IsFiniteSet(S) /\ S \cap ({p} \X (1..n)) = {} /\ n \in Nat
    BY <1>0, <1>3, <1>4, <2>1
  <2>3. Cardinality(S \cup ({p} \X (1..n))) = Cardinality(S) + n
    BY <2>2, UnitsAdd
  <2>. QED
    BY <1>3, <1>5, <2>1, <2>3
<1>7. b + (k + n) = Value /\ \A q \in Procs : proc[q].at = "setval" => proc[q].sem # semKey
  <2>1. Simple!Taken # {}
    <3>1. Cardinality(Simple!Taken) # 0
      BY <1>0, <1>5, <1>6
    <3>. QED
      BY <3>1, FS_EmptySet
  <2>. QED
    BY <1>0, <1>1, <1>6, <2>1 DEF SimpleInv, SimpleUnits
<1>8. v \in 0..Value /\ v + k = Value
  BY <1>0, <1>1, <1>5, <1>7
<1>9. SimpleKernelOK' /\ sem'[0] = v
  BY <1>0, <1>8 DEF SimpleInv, SimpleKernelOK
<1>10. ASSUME NEW q \in Procs PROVE SimpleProcOK(q)'
  <2>1. CASE q = p
    BY <1>0, <2>1 DEF SimpleProcOK
  <2>2. CASE q # p
    <3>1. SimpleProcOK(q) /\ proc'[q] = proc[q]
      BY <1>0, <2>2 DEF SimpleInv
    <3>. QED
      BY <1>0, <3>1 DEF SimpleProcOK, Simple!Amount
  <2>. QED
    BY <2>1, <2>2
<1>11. SimpleUnits'
  <2>1. sem'[0] + Cardinality(Simple!Taken') = Value
    BY <1>5, <1>8, <1>9
  <2>2. \A q \in Procs : proc'[q].at = "setval" => proc'[q].sem # semKey'
    BY <1>0, <1>7
  <2>. QED
    BY <2>1, <2>2 DEF SimpleUnits
<1>12. SimpleAlone'
  <2>1. \A q \in Procs : Simple!Inside(q)' => Simple!Inside(q)
    BY <1>0 DEF Simple!Inside
  <2>. QED
    BY <1>0, <2>1 DEF SimpleInv, SimpleAlone
<1>13. SimpleOneSet'
  <2>1. Simple!Removal => Simple!Removal'
    BY <1>0, SimpleGone
  <2>. QED
    BY <1>0, <2>1 DEF SimpleInv, SimpleOneSet
<1>. QED
  BY <1>9, <1>10, <1>11, <1>12, <1>13 DEF SimpleInv

LEMMA SimpleStepOf ==
    ASSUME SimpleGiven, SimpleInv, scene' = scene, NEW p \in Procs,
           Simple!Step(p) \/ Simple!Sighandler(p)
    PROVE  SimpleInv'
<1>0. /\ proc \in [Procs -> SimpleProc] /\ SimpleProcOK(p) /\ SimpleKernelOK /\ None \notin Procs
      /\ proc[p] \in SimpleProc /\ Value \in Nat \ {0}
  BY DEF SimpleInv, SimpleGiven
<1>. USE DEF Simple!At
<1>1. ASSUME NEW a, NEW s, NEW m, Becomes(p, a, s, proc[p].sem, m, proc[p].held),
             proc' \in [Procs -> SimpleProc], mem' \in [Procs -> SimpleTexts], sem' = sem,
             shmKey' \in Procs \cup {None}, semKey' \in {semKey, None},
             semKey' # semKey => proc[p].at \in {"rmsem", "sigsem"},
             \/ proc[p].at = "new" /\ a = "semget"
             \/ proc[p].at = "new" /\ a = "shmat" /\ p \notin Simple!Readers
             \/ proc[p].at = "sigaction" /\ a = "shmat"
             \/ proc[p].at = "shmat" /\ a \in {"hello", "loop"} /\ p \in Simple!Readers
             \/ proc[p].at = "shmat" /\ a = "semget" /\ p \notin Simple!Readers
             \/ proc[p].at = "hello" /\ a = "loop"
             \/ proc[p].at = "loop" /\ a \in {"P", "shmdt"}
             \/ proc[p].at = "write" /\ a = "V"
             \/ proc[p].at \notin {"sigsem", "end"} /\ a \in {"rmshm", "rmsem", "sigsem"} /\ p \in Servers
             \/ a = "end"
      PROVE  SimpleInv'
  <2>1. /\ proc'[p].at = a /\ proc'[p].sem = proc[p].sem /\ proc'[p].held = proc[p].held
        /\ \A q \in Procs : proc'[q].sem = proc[q].sem
    BY <1>1 DEF Becomes
  <2>2. SimpleProcOK(p)'
    BY <1>0, <1>1, <2>1 DEF SimpleProcOK, Simple!Amount, Simple!Readers
  <2>3. semKey' = semKey \/ (semKey' = None /\ Simple!Removal)
    BY <1>0, <1>1 DEF SimpleProcOK, Simple!Removal
  <2>4. /\ a # "setval" /\ (a \in {"write", "V"} => proc[p].at \in {"write", "V"})
        /\ proc[p].at \in {"rmshm", "rmsem", "sigsem", "end"}
              => a \in {"rmshm", "rmsem", "sigsem", "end"}
    BY <1>1
  <2>. QED
    BY <1>1, <2>2, <2>3, <2>4, SimpleQuiet
<1>2. ASSUME NEW a \in SimpleSteps, Simple!Go(p, a)
      PROVE  /\ proc' \in [Procs -> SimpleProc]
             /\ Becomes(p, a, proc[p].shm, proc[p].sem, proc[p].mapped /\ a # "end", proc[p].held)
  BY <1>0, <1>2, GoEffect DEF SimpleProc, Simple!Go
<1>3. \A a \in {"new", "semget", "setval", "sigaction", "shmat", "hello", "loop", "P", "write", "V",
                "shmdt", "rmshm", "rmsem", "sigsem", "end"} : a \in SimpleSteps
  BY DEF SimpleSteps
\* Leaving, by return, exit or a failure.
<1>4. PICK e \in SimpleSteps : e = Simple!ExitStep(p)
  BY <1>3 DEF Simple!ExitStep
<1>5. /\ e \in {"rmshm", "end"}
      /\ e = "rmshm" => p \in Servers /\ proc[p].at \notin {"sigsem", "end"}
  BY <1>4 DEF Simple!ExitStep, Simple!Armed, Simple!Unarmed
<1>6. ASSUME NEW a, a \in {"end", e}, Simple!Go(p, a), UNCHANGED <<shmKey, semKey, mem, sem>>
      PROVE  SimpleInv'
  <2>1. /\ proc' \in [Procs -> SimpleProc]
        /\ Becomes(p, a, proc[p].shm, proc[p].sem, proc[p].mapped /\ a # "end", proc[p].held)
    BY <1>2, <1>3, <1>4, <1>6
  <2>2. mem' \in [Procs -> SimpleTexts] /\ shmKey' \in Procs \cup {None}
    BY <1>0, <1>6 DEF SimpleKernelOK
  <2>3. \/ proc[p].at \notin {"sigsem", "end"} /\ a \in {"rmshm", "rmsem", "sigsem"} /\ p \in Servers
        \/ a = "end"
    BY <1>5, <1>6
  <2>. QED
    BY <1>1, <1>6, <2>1, <2>2, <2>3
<1>7. CASE Simple!Shmget(p)
  <2>1. proc[p].at = "new"
    BY <1>7 DEF Simple!Shmget, Simple!Start
  <2>2. PICK a \in SimpleSteps : a = (IF p \in Simple!Readers THEN "semget" ELSE "shmat")
    BY <1>3
  <2>3. ASSUME NEW s \in Procs, proc' = [proc EXCEPT ![p].at = a, ![p].shm = s], shmKey' = s,
               UNCHANGED <<semKey, mem, sem>>
        PROVE  SimpleInv'
    <3>1. /\ proc' \in [Procs -> SimpleProc]
          /\ Becomes(p, a, s, proc[p].sem, proc[p].mapped, proc[p].held)
      BY <1>0, <2>3, ShmEffect DEF SimpleProc
    <3>2. \/ proc[p].at = "new" /\ a = "semget"
          \/ proc[p].at = "new" /\ a = "shmat" /\ p \notin Simple!Readers
      BY <2>1, <2>2
    <3>3. mem' \in [Procs -> SimpleTexts] /\ shmKey' \in Procs \cup {None}
      BY <1>0, <2>3 DEF SimpleKernelOK
    <3>. QED
      BY <1>1, <2>3, <3>1, <3>2, <3>3
  <2>4. CASE Simple!ShmgetOld(p, a)
    <3>1. PICK s \in Procs : s = shmKey
      BY <1>0, <2>4 DEF Simple!ShmgetOld, SimpleKernelOK
    <3>. QED
      BY <2>3, <2>4, <3>1 DEF Simple!ShmgetOld, Simple!kernel
  <2>5. CASE Simple!ShmgetNew(p, a)
    BY <2>3, <2>5 DEF Simple!ShmgetNew
  <2>6. CASE Simple!ShmgetFails(p)
    BY <1>6, <2>6 DEF Simple!ShmgetFails, Simple!kernel
  <2>. QED
    BY <1>7, <2>2, <2>4, <2>5, <2>6 DEF Simple!Shmget
\* Where initSema goes on.
<1>8. PICK b \in SimpleSteps : b = Simple!AfterInitSema(p)
  BY <1>3 DEF Simple!AfterInitSema
<1>9. /\ b \in {"sigaction", "shmat", "P"}
      /\ b = "sigaction" => p \in Servers
      /\ b = "shmat" => p \in Simple!Readers
  BY <1>8 DEF Simple!AfterInitSema, Simple!Readers
<1>10. CASE Simple!InitSema(p)
  <2>1. proc[p].at = "semget"
    BY <1>10 DEF Simple!InitSema
  <2>2. ASSUME NEW t \in Procs, NEW a \in SimpleSteps,
               proc' = [proc EXCEPT ![p].at = a, ![p].sem = t], semKey' = t, UNCHANGED <<shmKey, mem>>,
               \/ t = semKey /\ sem' = sem /\ a = b
               \/ semKey = None /\ t = p /\ sem' = Simple!Zeroes /\ a = "setval"
        PROVE  SimpleInv'
    <3>1. /\ proc' \in [Procs -> SimpleProc]
          /\ Becomes(p, a, proc[p].shm, t, proc[p].mapped, proc[p].held)
      BY <1>0, <2>2, SemEffect DEF SimpleProc
    <3>2. \/ t = semKey /\ sem' = sem /\ a \in {"sigaction", "shmat", "P"}
          \/ semKey = None /\ t = p /\ sem' = Simple!Zeroes /\ a = "setval"
      BY <1>9, <2>2
    <3>3. (a = "sigaction" => p \in Servers) /\ (a = "shmat" => p \in Simple!Readers)
      BY <1>9, <2>2
    <3>. QED
      BY <2>1, <2>2, <3>1, <3>2, <3>3, SimpleSemget
  <2>3. CASE Simple!SemgetNew(p, "setval")
    BY <1>3, <2>2, <2>3 DEF Simple!SemgetNew
  <2>4. CASE Simple!SemgetOld(p, b)
    <3>1. PICK t \in Procs : t = semKey
      BY <1>0, <2>4 DEF Simple!SemgetOld, SimpleKernelOK
    <3>2. proc' = [proc EXCEPT ![p].at = b, ![p].sem = t] /\ UNCHANGED <<shmKey, mem, semKey, sem>>
      BY <2>4, <3>1 DEF Simple!SemgetOld, Simple!kernel
    <3>. QED
      BY <2>2, <3>1, <3>2
  <2>. QED
    BY <1>8, <1>10, <2>3, <2>4 DEF Simple!InitSema
<1>11. CASE Simple!SetVal(p)
  <2>1. proc[p].at = "setval" /\ UNCHANGED <<shmKey, semKey, mem>>
    BY <1>11 DEF Simple!SetVal, Simple!SetAll
  <2>2. CASE proc[p].sem = semKey
    <3>1. /\ sem' = [i \in {0} |-> Value]
          /\ proc' = [q \in Procs |-> IF q = p THEN [proc[p] EXCEPT !.at = b]
                                     ELSE IF proc[q].at = "end" THEN [proc[q] EXCEPT !.held = 0]
                                     ELSE proc[q]]
      BY <1>8, <1>11, <2>2 DEF Simple!SetVal, Simple!SetAll, Simple!SetThere
    <3>2. ASSUME NEW q \in Procs
          PROVE  /\ proc'[q] \in SimpleProc
                 /\ proc'[q].at = (IF q = p THEN b ELSE proc[q].at)
                 /\ proc'[q].shm = proc[q].shm /\ proc'[q].sem = proc[q].sem
                 /\ proc'[q].held = (IF proc[q].at = "end" THEN 0 ELSE proc[q].held)
      <4>0. proc[q] \in SimpleProc
        BY <1>0
      <4>1. CASE q = p
        <5>1. proc'[q] = [proc[p] EXCEPT !.at = b]
          BY <3>1, <4>1
        <5>. QED
          BY <2>1, <4>0, <4>1, <5>1 DEF SimpleProc, IpcProc
      <4>2. CASE q # p /\ proc[q].at = "end"
        <5>1. proc'[q] = [proc[q] EXCEPT !.held = 0]
          BY <3>1, <4>2
        <5>. QED
          BY <1>0, <4>0, <4>2, <5>1 DEF SimpleProc, IpcProc
      <4>3. CASE q # p /\ proc[q].at # "end"
        BY <3>1, <4>0, <4>3
      <4>. QED
        BY <4>1, <4>2, <4>3
    <3>3. proc' \in [Procs -> SimpleProc]
      BY <3>1, <3>2
    <3>. QED
      BY <1>9, <2>1, <2>2, <3>1, <3>2, <3>3, SimpleSetVal
  <2>3. CASE proc[p].sem # semKey
    BY <1>6, <1>11, <2>1, <2>3 DEF Simple!SetVal, Simple!SetAll, Simple!SetThere
  <2>. QED
    BY <2>2, <2>3
<1>12. CASE Simple!Sigaction(p)
  <2>1. proc[p].at = "sigaction" /\ Simple!Go(p, "shmat") /\ UNCHANGED <<shmKey, semKey, mem, sem>>
    BY <1>12 DEF Simple!Sigaction, Simple!kernel
  <2>2. mem' \in [Procs -> SimpleTexts] /\ shmKey' \in Procs \cup {None}
    BY <1>0, <2>1 DEF SimpleKernelOK
  <2>. QED
    BY <1>1, <1>2, <1>3, <2>1, <2>2
<1>13. CASE Simple!Attach(p)
  <2>1. proc[p].at = "shmat" /\ UNCHANGED <<shmKey, semKey, mem, sem>>
    BY <1>13 DEF Simple!Attach, Simple!Shmat, Simple!kernel
  <2>2. PICK a \in SimpleSteps :
           a = (IF p \in Servers THEN "hello" ELSE IF p \in Others THEN "loop" ELSE "semget")
    BY <1>3
  <2>3. CASE proc' = [proc EXCEPT ![p].at = a, ![p].mapped = TRUE]
    <3>1. /\ proc' \in [Procs -> SimpleProc]
          /\ Becomes(p, a, proc[p].shm, proc[p].sem, TRUE, proc[p].held)
      BY <1>0, <2>3, MapEffect DEF SimpleProc
    <3>2. \/ proc[p].at = "shmat" /\ a \in {"hello", "loop"} /\ p \in Simple!Readers
          \/ proc[p].at = "shmat" /\ a = "semget" /\ p \notin Simple!Readers
      BY <2>1, <2>2 DEF Simple!Readers
    <3>3. mem' \in [Procs -> SimpleTexts] /\ shmKey' \in Procs \cup {None}
      BY <1>0, <2>1 DEF SimpleKernelOK
    <3>. QED
      BY <1>1, <2>1, <3>1, <3>2, <3>3
  <2>4. CASE Simple!Go(p, e)
    BY <1>6, <2>1, <2>4
  <2>. QED
    BY <1>4, <1>13, <2>2, <2>3, <2>4 DEF Simple!Attach, Simple!Shmat
\* A text comes to the segment.
<1>14. ASSUME NEW x \in SimpleTexts, NEW a \in SimpleSteps, Simple!Put(p, x, a),
              \/ proc[p].at = "hello" /\ a = "loop"
              \/ proc[p].at = "write" /\ a = "V"
       PROVE  SimpleInv'
  <2>1. /\ proc' \in [Procs -> SimpleProc] /\ UNCHANGED <<shmKey, semKey, sem>>
        /\ Becomes(p, a, proc[p].shm, proc[p].sem, proc[p].mapped /\ a # "end", proc[p].held)
        /\ mem' = [mem EXCEPT ![proc[p].shm] = x]
    BY <1>2, <1>14 DEF Simple!Put
  <2>2. mem' \in [Procs -> SimpleTexts] /\ shmKey' \in Procs \cup {None}
    BY <1>0, <2>1 DEF SimpleKernelOK
  <2>. QED
    BY <1>1, <1>14, <2>1, <2>2
<1>15. CASE Simple!SayHello(p)
  BY <1>3, <1>14, <1>15 DEF Simple!SayHello, SimpleTexts
<1>16. CASE Simple!Loop(p)
  <2>1. proc[p].at = "loop" /\ UNCHANGED <<shmKey, semKey, mem, sem>>
    BY <1>16 DEF Simple!Loop, Simple!kernel
  <2>2. mem' \in [Procs -> SimpleTexts] /\ shmKey' \in Procs \cup {None}
    BY <1>0, <2>1 DEF SimpleKernelOK
  <2>3. ASSUME NEW a \in {"P", "shmdt"}, Simple!Go(p, a) PROVE SimpleInv'
    <3>1. /\ proc' \in [Procs -> SimpleProc]
          /\ Becomes(p, a, proc[p].shm, proc[p].sem, proc[p].mapped /\ a # "end", proc[p].held)
      BY <1>2, <1>3, <2>3
    <3>. QED
      BY <1>1, <2>1, <2>2, <3>1
  <2>. QED
    BY <1>16, <2>3 DEF Simple!Loop
<1>25. CASE Simple!Detach(p)
  <2>1. /\ proc[p].at = "shmdt" /\ UNCHANGED <<shmKey, semKey, mem, sem>>
        /\ proc' = [proc EXCEPT ![p].at = e, ![p].mapped = FALSE]
    BY <1>4, <1>25 DEF Simple!Detach, Simple!Shmdt, Simple!kernel
  <2>2. /\ proc' \in [Procs -> SimpleProc]
        /\ Becomes(p, e, proc[p].shm, proc[p].sem, FALSE, proc[p].held)
    BY <1>0, <2>1, DetachEffect DEF SimpleProc
  <2>3. mem' \in [Procs -> SimpleTexts] /\ shmKey' \in Procs \cup {None}
    BY <1>0, <2>1 DEF SimpleKernelOK
  <2>4. \/ proc[p].at \notin {"sigsem", "end"} /\ e \in {"rmshm", "rmsem", "sigsem"} /\ p \in Servers
        \/ e = "end"
    BY <1>5, <2>1
  <2>. QED
    BY <1>1, <2>1, <2>2, <2>3, <2>4
<1>17. PICK n \in Nat \ {0} : n = Simple!Amount(p)
  BY <1>0 DEF Simple!Amount
<1>18. PICK z \in 0..Value : z = sem[0]
  BY <1>0 DEF SimpleKernelOK
<1>19. CASE Simple!P(p)
  <2>1. PICK a \in SimpleSteps : a = (IF p \in Writers THEN "write" ELSE "V")
    BY <1>3
  <2>2. proc[p].at = "P" /\ UNCHANGED <<shmKey, semKey, mem>> /\ Simple!Semop(p, 0, -n, a, e)
    BY <1>4, <1>17, <1>19, <2>1 DEF Simple!P, Simple!Semop
  <2>3. CASE proc[p].sem = semKey /\ sem[0] + -n >= 0 /\ sem' = [sem EXCEPT ![0] = @ + -n]
             /\ proc' = [proc EXCEPT ![p].at = a, ![p].held = @ - -n, ![p].mapped = @ /\ a # "end"]
    <3>1. sem[0] + -n = z - n /\ z - n >= 0
      BY <1>18, <2>3
    <3>2. PICK v : v = sem[0] - n
      OBVIOUS
    <3>3. v >= 0 /\ sem' = [sem EXCEPT ![0] = v]
      <4>1. sem[0] + -n = v
        BY <1>18, <3>1, <3>2
      <4>2. v >= 0
        BY <1>18, <3>1, <3>2
      <4>3. sem' = [sem EXCEPT ![0] = sem[0] + -n]
        BY <2>3
      <4>. QED
        BY <4>1, <4>2, <4>3
    <3>4. proc[p].held = 0 /\ 0 - -n = n /\ n \in 0..Value
      BY <1>0, <1>17, <2>2 DEF SimpleProcOK, Simple!Amount
    <3>5. proc[p].held - -n \in 0..Value
      BY <3>4
    <3>6. /\ proc' \in [Procs -> SimpleProc]
          /\ Becomes(p, a, proc[p].shm, proc[p].sem, proc[p].mapped /\ a # "end", proc[p].held - -n)
      BY <1>0, <2>3, <3>5, SemopEffect DEF SimpleProc
    <3>7. Becomes(p, a, proc[p].shm, proc[p].sem, proc[p].mapped /\ a # "end", n)
      BY <3>4, <3>6
    <3>. QED
      BY <1>17, <2>1, <2>2, <2>3, <3>2, <3>3, <3>6, <3>7, SimpleTakes
  <2>4. CASE Simple!Go(p, e) /\ sem' = sem
    BY <1>6, <2>2, <2>4
  <2>. QED
    BY <2>2, <2>3, <2>4 DEF Simple!Semop, Simple!SetThere
<1>20. CASE Simple!Write(p)
  <2>1. Mesg[p] \in SimpleTexts /\ proc[p].at = "write"
    BY <1>0, <1>20 DEF Simple!Write, SimpleProcOK, SimpleTexts
  <2>. QED
    BY <1>3, <1>14, <1>20, <2>1 DEF Simple!Write
<1>21. CASE Simple!V(p)
  <2>1. PICK a \in SimpleSteps : a = (IF p \in Simple!Readers THEN "loop" ELSE "end")
    BY <1>3
  <2>2. proc[p].at = "V" /\ UNCHANGED <<shmKey, semKey, mem>> /\ Simple!Semop(p, 0, n, a, e)
    BY <1>4, <1>17, <1>21, <2>1 DEF Simple!V, Simple!Semop
  <2>3. CASE proc[p].sem = semKey /\ sem' = [sem EXCEPT ![0] = @ + n]
             /\ proc' = [proc EXCEPT ![p].at = a, ![p].held = @ - n, ![p].mapped = @ /\ a # "end"]
    <3>1. PICK v : v = sem[0] + n
      OBVIOUS
    <3>2. sem' = [sem EXCEPT ![0] = v]
      BY <2>3, <3>1
    <3>3. proc[p].held = n /\ n - n = 0 /\ 0 \in 0..Value
      BY <1>0, <1>17, <2>2 DEF SimpleProcOK
    <3>4. proc[p].held - n \in 0..Value
      BY <3>3
    <3>5. /\ proc' \in [Procs -> SimpleProc]
          /\ Becomes(p, a, proc[p].shm, proc[p].sem, proc[p].mapped /\ a # "end", proc[p].held - n)
      BY <1>0, <2>3, <3>4, SemopEffect DEF SimpleProc
    <3>6. Becomes(p, a, proc[p].shm, proc[p].sem, proc[p].mapped /\ a # "end", 0)
      BY <3>3, <3>5
    <3>7. a \in {"loop", "end"}
      BY <2>1
    <3>. QED
      BY <1>17, <2>2, <2>3, <3>1, <3>2, <3>5, <3>6, <3>7, SimpleGives
  <2>4. CASE Simple!Go(p, e) /\ sem' = sem
    BY <1>6, <2>2, <2>4
  <2>. QED
    BY <2>2, <2>3, <2>4 DEF Simple!Semop, Simple!SetThere
\* IPC_RMID, at exit and at SIGINT.
<1>22. ASSUME NEW a \in SimpleSteps, Simple!RemoveShm(p, a), a \in {"rmsem", "sigsem"}, p \in Servers,
              proc[p].at \notin {"sigsem", "end"}
       PROVE  SimpleInv'
  <2>1. /\ UNCHANGED <<semKey, mem, sem>> /\ shmKey' \in {shmKey, None}
        /\ Simple!Go(p, a) \/ Simple!Go(p, "end")
    BY <1>22 DEF Simple!RemoveShm
  <2>2. mem' \in [Procs -> SimpleTexts] /\ shmKey' \in Procs \cup {None}
    BY <1>0, <2>1 DEF SimpleKernelOK
  <2>. QED
    BY <1>1, <1>2, <1>3, <1>22, <2>1, <2>2
<1>23. CASE Simple!Exithandler(p)
  <2>1. CASE proc[p].at = "rmshm" /\ Simple!RemoveShm(p, "rmsem")
    BY <1>0, <1>3, <1>22, <2>1 DEF SimpleProcOK
  <2>2. CASE proc[p].at \in {"rmsem", "sigsem"} /\ Simple!RemoveSem(p)
    <3>1. UNCHANGED <<shmKey, mem, sem>> /\ semKey' \in {semKey, None} /\ Simple!Go(p, "end")
      BY <2>2 DEF Simple!RemoveSem
    <3>2. mem' \in [Procs -> SimpleTexts] /\ shmKey' \in Procs \cup {None}
      BY <1>0, <3>1 DEF SimpleKernelOK
    <3>. QED
      BY <1>1, <1>2, <1>3, <2>2, <3>1, <3>2
  <2>. QED
    BY <1>23, <2>1, <2>2 DEF Simple!Exithandler
<1>24. CASE Simple!Sighandler(p)
  <2>1. CASE Simple!Armed(p)
    BY <1>3, <1>22, <1>24, <2>1 DEF Simple!Sighandler, Simple!Armed, Simple!Unarmed
  <2>2. CASE ~Simple!Armed(p)
    BY <1>6, <1>24, <2>2 DEF Simple!Sighandler, Simple!Killed, Simple!kernel
  <2>. QED
    BY <2>1, <2>2
<1>. QED
  BY <1>7, <1>10, <1>11, <1>12, <1>13, <1>15, <1>16, <1>19, <1>20, <1>21, <1>23, <1>24,
     <1>25 DEF Simple!Step

LEMMA SimpleStep ==
    ASSUME SimpleGiven, SimpleInv, [Simple!Next]_(Simple!vars)
    PROVE  SimpleInv'
<1>1. CASE Simple!Next
  BY <1>1, SimpleStepOf DEF Simple!Next
<1>2. CASE UNCHANGED Simple!vars
  <2>1. UNCHANGED <<scene, shmKey, semKey, mem, sem, proc>>
    BY <1>2 DEF Simple!vars, Simple!moving, Simple!kernel
  <2>2. Simple!Taken' = Simple!Taken
    BY <2>1 DEF Simple!Taken, Simple!SetThere
  <2>. QED
    BY <2>1, <2>2 DEF SimpleInv, SimpleKernelOK, SimpleProcOK, SimpleUnits, SimpleAlone, SimpleOneSet,
                      Simple!Amount, Simple!Inside, Simple!Removal
<1>. QED
  BY <1>1, <1>2

LEMMA SimpleRight ==
    ASSUME SimpleGiven, SimpleInv
    PROVE  Simple!TenUnits /\ Simple!Exclusion
<1>0. /\ SimpleKernelOK /\ proc \in [Procs -> SimpleProc] /\ None \notin Procs
      /\ Value \in Nat \ {0}
  BY DEF SimpleInv, SimpleGiven
<1>1. Simple!TypeOK
  <2>1. scene \in ScenesOf("simple") /\ scene \in Simple!SceneType
    BY <1>0 DEF SimpleKernelOK, SimpleGiven
  <2>2. mem \in [Procs -> SimpleTexts] /\ sem \in [{0} -> 0..Value]
    BY <1>0 DEF SimpleKernelOK
  <2>3. shmKey \in Procs \cup {None} /\ semKey \in Procs \cup {None}
    BY <1>0 DEF SimpleKernelOK
  <2>4. proc \in [Procs -> [at : {"semget", "setval", "sigaction", "shmat", "hello", "loop", "P",
                                  "write", "V", "shmdt", "rmshm", "rmsem", "sigsem"} \cup {"new", "end"},
                            shm : Procs \cup {None}, sem : Procs \cup {None},
                            mapped : BOOLEAN, held : 0..Value]]
    BY <1>0 DEF SimpleProc, IpcProc, SimpleSteps
  <2>. QED
    BY <2>1, <2>2, <2>3, <2>4 DEF Simple!TypeOK, Simple!IpcTypeOK, SimpleTexts
\* The cardinality of what is in the set is the value of its semaphore.
<1>2. PICK z \in 0..Value : z = sem[0]
  BY <1>0 DEF SimpleKernelOK
<1>3. /\ Cardinality(Simple!InSet) = z
      /\ Simple!Cardinality(Simple!InSet) = Cardinality(Simple!InSet)
      /\ Simple!Cardinality(Simple!Taken) = Cardinality(Simple!Taken)
  <2>1. Simple!InSet = {0} \X (1..z)
    <3>1. \A u : u \in Simple!InSet <=> u \in {0} \X (1..z)
      BY <1>2 DEF Simple!InSet
    <3>. QED
      BY <3>1
  <2>2. Cardinality({0} \X (1..z)) = z
    <3>1. z \in Nat
      BY <1>0
    <3>. QED
      BY <3>1, UnitsOf
  <2>3. /\ Simple!Cardinality(Simple!InSet) = Cardinality(Simple!InSet)
        /\ Simple!Cardinality(Simple!Taken) = Cardinality(Simple!Taken)
    BY DEF Simple!Cardinality, Cardinality
  <2>. QED
    BY <2>1, <2>2, <2>3
<1>4. PICK k \in Nat : k = Cardinality(Simple!Taken)
  BY SimpleTaken DEF SimpleInv
<1>5. Simple!Units = z + k
  BY <1>3, <1>4 DEF Simple!Units
<1>6. Simple!UnitsKept(Value)
  <2>. SUFFICES ASSUME semKey # None
       PROVE  Simple!Units \in {0, Value} /\ (Simple!Units = 0 => sem = Simple!Zeroes)
    BY DEF Simple!UnitsKept
  <2>1. z + k \in {0, Value}
    <3>1. Simple!Taken = {} => k = 0
      BY <1>4, FS_EmptySet
    <3>2. (z = 0 /\ Simple!Taken = {}) \/ z + k = Value
      BY <1>2, <1>4 DEF SimpleInv, SimpleUnits
    <3>. QED
      BY <3>1, <3>2
  <2>2. z + k = 0 => z = 0
    BY <1>0
  <2>3. z = 0 => sem = Simple!Zeroes
    BY <1>0, <1>2 DEF SimpleKernelOK, Simple!Zeroes
  <2>. QED
    BY <1>5, <2>1, <2>2, <2>3
<1>7. Simple!TenUnits
  BY <1>1, <1>6 DEF Simple!TenUnits
\* As long as no first reader has removed anything there is one set.
<1>8. Simple!Exclusion
  <2>. SUFFICES ASSUME NEW w \in Writers, NEW p \in Procs, Simple!Inside(w), Simple!Inside(p), p # w
       PROVE  proc[w].sem # proc[p].sem /\ (proc[w].shm # proc[p].shm \/ Simple!Removal)
    BY DEF Simple!Exclusion
  <2>1. w \in Procs
    BY DEF SimpleGiven
  <2>2. proc[w].sem # proc[p].sem
    BY <2>1 DEF SimpleInv, SimpleAlone
  <2>3. Simple!Removal
    <3>1. proc[w].sem \in Procs /\ proc[p].sem \in Procs
      BY <2>1 DEF SimpleInv, SimpleProcOK, Simple!Inside
    <3>. QED
      BY <1>0, <2>1, <2>2, <3>1 DEF SimpleInv, SimpleOneSet
  <2>. QED
    BY <2>2, <2>3
<1>. QED
  BY <1>7, <1>8
-----------------------------------------------------------------------------
(* ShmServer, for any servers, clients and messages: who has the one unit  *)
(* is alone at the segment.                                                *)

SingleGiven ==
    /\ None \notin Procs /\ Procs = Servers \cup Clients /\ Servers \cap Clients = {}
    /\ ScenesOf("single") \subseteq Single!SceneType

SingleSteps == {"new", "sigaction", "shmget", "semget", "setval", "shmat", "P", "hello", "write", "loop",
                "V", "sleep", "last", "shmdt", "rmshm", "rmsem", "sigsem", "end"}
SingleTexts == {Blank, Single!Hello} \cup {Mesg[c] : c \in Clients}
SingleProc == IpcProc(SingleSteps, 1)

SingleBefore(p) == proc[p].at \in {"new", "sigaction", "shmget", "semget"}
SinglePast(p) == ~SingleBefore(p) /\ proc[p].at \notin {"sigsem", "end"}
SingleLeaving(p) == proc[p].at \in {"rmshm", "rmsem", "sigsem", "end"}

SingleKernelOK ==
    /\ scene \in ScenesOf("single")
    /\ shmKey \in Procs \cup {None} /\ semKey \in Procs \cup {None}
    /\ mem \in [Procs -> SingleTexts] /\ sem \in [{0} -> {0, 1}]

SingleProcOK(p) ==
    /\ proc[p].at \in {"sigaction", "setval", "hello", "loop", "sleep", "last", "shmdt", "rmshm", "rmsem",
                      "sigsem"}
          => p \in Servers
    /\ proc[p].at = "write" => p \in Clients
    /\ proc[p].at # "new" => p \in scene.run
    /\ SinglePast(p) => proc[p].sem \in Procs
    /\ Single!Inside(p) => proc[p].held = 1
    /\ ~Single!Inside(p) /\ ~SingleLeaving(p) => proc[p].held = 0
    /\ SingleBefore(p) => proc[p].sem = None /\ semKey # p /\ \A q \in Procs : proc[q].sem # p

\* All that run use one set, that under the key.
SingleOneSet ==
    /\ \A p, q \in Procs : SinglePast(p) /\ SinglePast(q) => proc[p].sem = proc[q].sem
    /\ \A p \in Procs : SinglePast(p) /\ semKey # None => proc[p].sem = semKey

\* A server sets the semaphore when nobody else uses it.
SingleStart(s) ==
    /\ ~scene.patient /\ s \in scene.run =>
          /\ SingleBefore(s) => semKey = None /\ \A q \in Procs : ~SinglePast(q)
          /\ proc[s].at = "setval" => sem[0] = 0
    /\ scene.patient /\ proc[s].at \in {"sigaction", "shmget", "semget", "setval"} =>
          \A q \in Procs \ {s} : proc[q].at \in {"new", "end"}
    /\ proc[s].at = "setval" => \A q \in Procs : ~Single!Inside(q)

SingleHolder(p) == proc[p].sem = semKey /\ proc[p].held = 1
SingleToken ==
    semKey # None =>
    /\ sem[0] = 1 => \A p \in Procs : ~SingleHolder(p)
    /\ \A p, q \in Procs : SingleHolder(p) /\ SingleHolder(q) => p = q
SingleAlone == \A p, q \in Procs : Single!Inside(p) /\ Single!Inside(q) => p = q
SingleRuns(p) == proc[p].at \notin {"new", "end"}
SingleServer == \A s, t \in Servers : SingleRuns(s) /\ SingleRuns(t) => s = t

SingleInv ==
    /\ SingleKernelOK /\ proc \in [Procs -> SingleProc] /\ \A p \in Procs : SingleProcOK(p)
    /\ SingleOneSet /\ \A s \in Servers : SingleStart(s)
    /\ SingleToken /\ SingleAlone /\ SingleServer

LEMMA SingleInit ==
    ASSUME SingleGiven, Single!Init
    PROVE  SingleInv
<1>. USE DEF SingleGiven, Single!Init, Single!IpcInit, Single!Zeroes
<1>1. SingleKernelOK
  BY DEF SingleKernelOK, SingleTexts
<1>2. proc \in [Procs -> SingleProc]
  BY DEF SingleProc, IpcProc, SingleSteps
<1>3. \A p \in Procs : proc[p].at = "new" /\ proc[p].sem = None /\ proc[p].held = 0
  OBVIOUS
<1>4. \A p \in Procs : SingleBefore(p) /\ ~SinglePast(p) /\ ~Single!Inside(p) /\ ~SingleRuns(p)
  BY <1>3 DEF SingleBefore, SinglePast, Single!Inside, SingleRuns
<1>5. \A p \in Procs : SingleProcOK(p)
  BY <1>3, <1>4 DEF SingleProcOK
<1>6. SingleOneSet /\ SingleToken /\ SingleAlone /\ SingleServer
  BY <1>4 DEF SingleOneSet, SingleToken, SingleAlone, SingleServer
<1>7. \A s \in Servers : SingleStart(s)
  BY <1>3, <1>4 DEF SingleStart
<1>. QED
  BY <1>1, <1>2, <1>5, <1>6, <1>7 DEF SingleInv

\* What others that stand still know.
LEMMA SingleOthers ==
    ASSUME SingleInv, scene' = scene, NEW p \in Procs, \A q \in Procs \ {p} : proc'[q] = proc[q],
           proc'[p].sem = proc[p].sem, semKey' \in {semKey, None}, None \notin Procs
    PROVE  /\ \A q \in Procs : proc'[q].sem = proc[q].sem
           /\ \A q \in Procs \ {p} : /\ SingleProcOK(q)'
                                     /\ SingleBefore(q)' <=> SingleBefore(q)
                                     /\ SinglePast(q)' <=> SinglePast(q)
                                     /\ Single!Inside(q)' <=> Single!Inside(q)
                                     /\ SingleRuns(q)' <=> SingleRuns(q)
<1>1. \A q \in Procs : proc'[q].sem = proc[q].sem
  OBVIOUS
<1>2. ASSUME NEW q \in Procs \ {p}
      PROVE  /\ SingleBefore(q)' <=> SingleBefore(q)
             /\ SinglePast(q)' <=> SinglePast(q)
             /\ Single!Inside(q)' <=> Single!Inside(q)
             /\ SingleRuns(q)' <=> SingleRuns(q)
             /\ SingleLeaving(q)' <=> SingleLeaving(q)
  BY DEF SingleBefore, SinglePast, Single!Inside, SingleRuns, SingleLeaving
<1>3. ASSUME NEW q \in Procs \ {p} PROVE SingleProcOK(q)'
  <2>1. SingleProcOK(q) /\ proc'[q] = proc[q]
    BY DEF SingleInv
  <2>2. semKey # q => semKey' # q
    OBVIOUS
  <2>. QED
    BY <1>1, <1>2, <2>1, <2>2 DEF SingleProcOK
<1>. QED
  BY <1>1, <1>2, <1>3

\* A step that takes and gives no unit; a key may go.
LEMMA SingleQuiet ==
    ASSUME SingleGiven, SingleInv, scene' = scene, sem' = sem, mem' \in [Procs -> SingleTexts],
           shmKey' \in Procs \cup {None}, semKey' \in {semKey, None},
           NEW p \in Procs, NEW a, NEW s, NEW m, proc' \in [Procs -> SingleProc],
           Becomes(p, a, s, proc[p].sem, m, proc[p].held), SingleProcOK(p)',
           SingleRuns(p), a # "setval",
           SingleBefore(p)' => SingleBefore(p), SinglePast(p)' => SinglePast(p),
           Single!Inside(p)' => Single!Inside(p)
    PROVE  SingleInv'
<1>0. /\ proc'[p].at = a /\ proc'[p].sem = proc[p].sem
      /\ proc'[p].held = proc[p].held /\ \A q \in Procs \ {p} : proc'[q] = proc[q]
      /\ None \notin Procs
  BY DEF Becomes, SingleGiven
<1>1. SingleKernelOK'
  BY DEF SingleInv, SingleKernelOK
<1>2. /\ \A q \in Procs : proc'[q].sem = proc[q].sem
      /\ \A q \in Procs \ {p} : /\ SingleProcOK(q)'
                                /\ SingleBefore(q)' <=> SingleBefore(q)
                                /\ SinglePast(q)' <=> SinglePast(q)
                                /\ Single!Inside(q)' <=> Single!Inside(q)
                                /\ SingleRuns(q)' <=> SingleRuns(q)
  BY <1>0, SingleOthers
<1>3. \A q \in Procs : SingleProcOK(q)'
  BY <1>2
<1>4. /\ \A q \in Procs : SingleBefore(q)' => SingleBefore(q)
      /\ \A q \in Procs : SinglePast(q)' => SinglePast(q)
      /\ \A q \in Procs : Single!Inside(q)' => Single!Inside(q)
      /\ \A q \in Procs : SingleRuns(q)' => SingleRuns(q)
      /\ \A q \in Procs : proc'[q].held = proc[q].held
  BY <1>0, <1>2
<1>5. SingleOneSet'
  BY <1>2, <1>4 DEF SingleInv, SingleOneSet
<1>6. ASSUME NEW t \in Servers PROVE SingleStart(t)'
  <2>1. SingleStart(t) /\ t \in Procs
    BY DEF SingleInv, SingleGiven
  <2>2. CASE t = p
    <3>1. /\ proc'[t].at \in {"sigaction", "shmget", "semget"}
                => proc[t].at \in {"sigaction", "shmget", "semget"}
          /\ proc'[t].at # "setval"
      BY <1>0, <2>2 DEF SingleBefore, SingleRuns
    <3>2. scene.patient /\ proc'[t].at \in {"sigaction", "shmget", "semget", "setval"} =>
             \A q \in Procs \ {t} : proc'[q].at \in {"new", "end"}
      BY <1>0, <2>1, <2>2, <3>1 DEF SingleStart
    <3>. QED
      BY <1>4, <2>1, <3>1, <3>2 DEF SingleStart
  <2>3. CASE t # p
    <3>1. proc'[t] = proc[t] /\ (scene.patient => proc[t].at \notin {"sigaction", "shmget", "semget", "setval"})
      BY <1>0, <2>1, <2>3 DEF SingleStart, SingleRuns
    <3>. QED
      BY <1>4, <2>1, <3>1 DEF SingleStart
  <2>. QED
    BY <2>2, <2>3
<1>7. SingleToken'
  BY <1>2, <1>4 DEF SingleInv, SingleToken, SingleHolder
<1>8. SingleAlone' /\ SingleServer'
  <2>1. SingleAlone'
    BY <1>4 DEF SingleInv, SingleAlone
  <2>2. \A t \in Servers : t \in Procs
    BY DEF SingleGiven
  <2>3. SingleServer'
    BY <1>4, <2>2 DEF SingleInv, SingleServer
  <2>. QED
    BY <2>1, <2>3
<1>. QED
  BY <1>1, <1>3, <1>5, <1>6, <1>7, <1>8 DEF SingleInv

\* A program is started: a server only when no other one runs.
LEMMA SingleBegin ==
    ASSUME SingleGiven, SingleInv, Single!Proper, scene' = scene, UNCHANGED <<shmKey, semKey, mem, sem>>,
           NEW p \in Procs, NEW a, NEW s, NEW m, proc' \in [Procs -> SingleProc],
           Becomes(p, a, s, proc[p].sem, m, proc[p].held),
           proc[p].at = "new", p \in scene.run,
           (p \in Servers /\ a = "sigaction") \/ (p \in Clients /\ a = "shmget"),
           scene.patient => \A q \in Procs : /\ proc[q].at \notin {"sigaction", "shmget", "semget", "setval"}
                                             /\ p \in Servers => proc[q].at \in {"new", "end"}
    PROVE  SingleInv'
<1>0. /\ proc'[p].at = a /\ proc'[p].sem = proc[p].sem
      /\ proc'[p].held = proc[p].held /\ \A q \in Procs \ {p} : proc'[q] = proc[q]
      /\ None \notin Procs /\ a \in {"sigaction", "shmget"}
  BY DEF Becomes, SingleGiven
<1>1. SingleKernelOK'
  BY DEF SingleInv, SingleKernelOK
<1>2. /\ \A q \in Procs : proc'[q].sem = proc[q].sem
      /\ \A q \in Procs \ {p} : /\ SingleProcOK(q)'
                                /\ SingleBefore(q)' <=> SingleBefore(q)
                                /\ SinglePast(q)' <=> SinglePast(q)
                                /\ Single!Inside(q)' <=> Single!Inside(q)
                                /\ SingleRuns(q)' <=> SingleRuns(q)
  BY <1>0, SingleOthers
<1>3. SingleBefore(p) /\ SingleBefore(p)' /\ ~SinglePast(p)' /\ ~Single!Inside(p)' /\ ~SingleLeaving(p)'
      /\ ~Single!Inside(p) /\ ~SingleLeaving(p)
  BY <1>0 DEF SingleBefore, SinglePast, Single!Inside, SingleLeaving
<1>4. \A q \in Procs : SingleProcOK(q)'
  <2>1. SingleProcOK(p)'
    <3>1. SingleProcOK(p)
      BY DEF SingleInv
    <3>. QED
      BY <1>0, <1>2, <1>3, <3>1 DEF SingleProcOK
  <2>. QED
    BY <1>2, <2>1
<1>5. /\ \A q \in Procs : SingleBefore(q)' <=> SingleBefore(q)
      /\ \A q \in Procs : SinglePast(q)' => SinglePast(q)
      /\ \A q \in Procs : Single!Inside(q)' => Single!Inside(q)
      /\ \A q \in Procs : proc'[q].held = proc[q].held
  BY <1>0, <1>2, <1>3
<1>6. SingleOneSet'
  BY <1>2, <1>5 DEF SingleInv, SingleOneSet
<1>7. ASSUME NEW t \in Servers PROVE SingleStart(t)'
  <2>1. SingleStart(t) /\ t \in Procs
    BY DEF SingleInv, SingleGiven
  <2>2. CASE t = p
    <3>1. scene.patient => \A q \in Procs \ {t} : proc'[q].at \in {"new", "end"}
      BY <1>0, <2>2
    <3>. QED
      BY <1>0, <1>5, <2>1, <2>2, <3>1 DEF SingleStart
  <2>3. CASE t # p
    <3>1. proc'[t] = proc[t] /\ (scene.patient => proc[t].at \notin {"sigaction", "shmget", "semget", "setval"})
      BY <1>0, <2>1, <2>3
    <3>. QED
      BY <1>5, <2>1, <3>1 DEF SingleStart
  <2>. QED
    BY <2>2, <2>3
<1>8. SingleToken'
  BY <1>2, <1>5 DEF SingleInv, SingleToken, SingleHolder
<1>9. SingleAlone'
  BY <1>5 DEF SingleInv, SingleAlone
<1>10. SingleServer'
  <2>1. \A t \in Servers : t \in Procs /\ (SingleRuns(t) => t \in scene.run)
    BY DEF SingleInv, SingleGiven, SingleProcOK, SingleRuns
  <2>2. CASE p \in Servers
    <3>1. \A t \in Servers : t # p => ~SingleRuns(t)
      BY <2>1, <2>2 DEF SingleRuns, Single!Proper
    <3>2. \A t \in Servers : SingleRuns(t)' => t = p
      BY <1>2, <2>1, <3>1
    <3>. QED
      BY <3>2 DEF SingleServer
  <2>3. CASE p \notin Servers
    <3>1. \A t \in Servers : SingleRuns(t)' => SingleRuns(t)
      BY <1>2, <2>1, <2>3
    <3>. QED
      BY <3>1 DEF SingleInv, SingleServer
  <2>. QED
    BY <2>2, <2>3
<1>. QED
  BY <1>1, <1>4, <1>6, <1>7, <1>8, <1>9, <1>10 DEF SingleInv

\* semget: a server finds or creates the set while nobody uses it.
LEMMA SingleSemget ==
    ASSUME SingleGiven, SingleInv, Single!Proper, scene' = scene, UNCHANGED <<shmKey, mem>>,
           NEW p \in Procs, NEW t \in Procs, NEW a, NEW m, proc' \in [Procs -> SingleProc],
           Becomes(p, a, proc[p].shm, t, m, proc[p].held),
           proc[p].at = "semget", semKey' = t,
           \/ t = semKey /\ sem' = sem
           \/ semKey = None /\ t = p /\ p \in Servers /\ sem' = Single!Zeroes,
           \/ p \in Servers /\ a = "setval"
           \/ p \notin Servers /\ a = "shmat"
    PROVE  SingleInv'
<1>0. /\ proc'[p].at = a /\ proc'[p].sem = t
      /\ proc'[p].held = proc[p].held /\ \A q \in Procs \ {p} : proc'[q] = proc[q]
      /\ None \notin Procs /\ SingleBefore(p) /\ SingleRuns(p) /\ a \in {"setval", "shmat"}
  BY DEF Becomes, SingleGiven, SingleBefore, SingleRuns
<1>1. SingleKernelOK'
  BY DEF SingleInv, SingleKernelOK, Single!Zeroes
<1>2. /\ p \in scene.run /\ proc[p].held = 0 /\ proc[p].sem = None /\ semKey # p
      /\ \A q \in Procs : proc[q].sem # p
  BY <1>0 DEF SingleInv, SingleProcOK, Single!Inside, SingleLeaving
<1>3. ~SingleBefore(p)' /\ ~Single!Inside(p)' /\ ~SingleLeaving(p)' /\ SingleRuns(p)'
  BY <1>0 DEF SingleBefore, Single!Inside, SingleLeaving, SingleRuns
<1>4. ASSUME NEW q \in Procs \ {p}
      PROVE  /\ SingleBefore(q)' <=> SingleBefore(q)
             /\ SinglePast(q)' <=> SinglePast(q)
             /\ Single!Inside(q)' <=> Single!Inside(q)
             /\ SingleRuns(q)' <=> SingleRuns(q)
             /\ SingleLeaving(q)' <=> SingleLeaving(q)
             /\ proc'[q].sem = proc[q].sem
  BY <1>0 DEF SingleBefore, SinglePast, Single!Inside, SingleRuns, SingleLeaving
<1>5. ASSUME NEW q \in Procs PROVE SingleProcOK(q)'
  <2>1. CASE q = p
    BY <1>0, <1>2, <1>3, <2>1 DEF SingleProcOK
  <2>2. CASE q # p
    <3>1. SingleProcOK(q) /\ proc'[q] = proc[q]
      BY <1>0, <2>2 DEF SingleInv
    <3>2. SingleBefore(q) => t # q /\ \A r \in Procs : proc'[r].sem # q
      BY <1>0, <2>2, <3>1 DEF SingleProcOK
    <3>. QED
      BY <1>4, <2>2, <3>1, <3>2 DEF SingleProcOK
  <2>. QED
    BY <2>1, <2>2
<1>6. p \in Servers => /\ ~scene.patient => semKey = None /\ \A q \in Procs : ~SinglePast(q)
                       /\ scene.patient => \A q \in Procs \ {p} : proc[q].at \in {"new", "end"}
  BY <1>0, <1>2 DEF SingleInv, SingleStart
<1>7. p \in Servers => \A q \in Procs \ {p} : ~SinglePast(q)
  BY <1>6 DEF SinglePast, SingleBefore
<1>8. SingleOneSet'
  <2>1. \A q \in Procs \ {p} : SinglePast(q) => proc[q].sem = t
    BY <1>0, <1>7 DEF SingleInv, SingleOneSet
  <2>2. \A q \in Procs : SinglePast(q)' => proc'[q].sem = t
    BY <1>0, <1>4, <2>1
  <2>. QED
    BY <2>2 DEF SingleOneSet
<1>9. ASSUME NEW s \in Servers PROVE SingleStart(s)'
  <2>1. SingleStart(s) /\ s \in Procs /\ (~SingleBefore(s) => s \in scene.run)
    BY DEF SingleInv, SingleGiven, SingleProcOK, SingleBefore
  <2>2. CASE s = p
    <3>1. \A q \in Procs : ~Single!Inside(q)'
      BY <1>3, <1>4, <1>7, <2>2 DEF Single!Inside, SinglePast, SingleBefore
    <3>2. ~scene.patient => sem'[0] = 0
      BY <1>0, <1>6, <2>2 DEF Single!Zeroes
    <3>3. scene.patient => \A q \in Procs \ {s} : proc'[q].at \in {"new", "end"}
      BY <1>0, <1>6, <2>2
    <3>. QED
      BY <1>3, <2>2, <3>1, <3>2, <3>3 DEF SingleStart
  <2>3. CASE s # p
    <3>1. proc'[s] = proc[s] /\ (scene.patient => proc[s].at \notin {"sigaction", "shmget", "semget", "setval"})
      BY <1>0, <2>1, <2>3 DEF SingleStart, SingleRuns
    <3>2. ~scene.patient /\ s \in scene.run => p \notin Servers
      BY <1>2, <2>3 DEF Single!Proper
    <3>3. ~scene.patient /\ s \in scene.run => ~SingleBefore(s) /\ (proc[s].at = "setval" => sem'[0] = 0)
      <4>1. p \notin Servers => semKey # None /\ sem' = sem
        BY <1>0
      <4>. QED
        BY <2>1, <3>2, <4>1 DEF SingleStart
    <3>4. proc[s].at = "setval" => \A q \in Procs : ~Single!Inside(q)'
      BY <1>3, <1>4, <2>1 DEF SingleStart
    <3>. QED
      BY <1>4, <2>1, <2>3, <3>1, <3>3, <3>4 DEF SingleStart
  <2>. QED
    BY <2>2, <2>3
<1>10. SingleToken'
  <2>1. \A q \in Procs : SingleHolder(q)' => q # p /\ proc[q].sem = t /\ proc[q].held = 1
    BY <1>0, <1>2 DEF SingleHolder
  <2>2. CASE t = semKey /\ sem' = sem
    BY <1>0, <2>1, <2>2 DEF SingleInv, SingleToken, SingleHolder
  <2>3. CASE t = p
    BY <1>2, <2>1, <2>3 DEF SingleToken
  <2>. QED
    BY <2>2, <2>3
<1>11. SingleAlone' /\ SingleServer'
  <2>1. \A q \in Procs : /\ Single!Inside(q)' => Single!Inside(q)
                         /\ SingleRuns(q)' => SingleRuns(q)
    BY <1>0, <1>3, <1>4
  <2>2. \A s \in Servers : s \in Procs
    BY DEF SingleGiven
  <2>3. SingleAlone'
    BY <2>1 DEF SingleInv, SingleAlone
  <2>4. SingleServer'
    BY <2>1, <2>2 DEF SingleInv, SingleServer
  <2>. QED
    BY <2>3, <2>4
<1>. QED
  BY <1>1, <1>5, <1>8, <1>9, <1>10, <1>11 DEF SingleInv

\* semctl(SETVAL): nobody who is alive has the unit.
LEMMA SingleSetVal ==
    ASSUME SingleGiven, SingleInv, Single!Proper, scene' = scene, UNCHANGED <<shmKey, semKey, mem>>,
           NEW p \in Procs, proc[p].at = "setval", sem' = [i \in {0} |-> 1],
           proc' \in [Procs -> SingleProc],
           \A q \in Procs :
              /\ proc'[q].at = (IF q = p THEN "shmat" ELSE proc[q].at)
              /\ proc'[q].shm = proc[q].shm /\ proc'[q].sem = proc[q].sem
              /\ proc'[q].held = (IF proc[q].at = "end" THEN 0 ELSE proc[q].held)
    PROVE  SingleInv'
<1>0. /\ p \in Servers /\ SingleStart(p) /\ p \in scene.run /\ None \notin Procs /\ SingleRuns(p)
      /\ \A q \in Procs : ~Single!Inside(q) /\ SingleProcOK(q)
  BY DEF SingleInv, SingleProcOK, SingleStart, SingleGiven, SingleRuns
<1>1. SingleKernelOK'
  BY DEF SingleInv, SingleKernelOK
<1>2. ASSUME NEW q \in Procs
      PROVE  /\ SingleBefore(q)' <=> SingleBefore(q)
             /\ SinglePast(q)' <=> SinglePast(q)
             /\ ~Single!Inside(q)'
             /\ SingleRuns(q)' <=> SingleRuns(q)
             /\ SingleLeaving(q)' <=> SingleLeaving(q)
             /\ proc'[q].sem = proc[q].sem
             /\ proc'[q].held = 0
  <2>1. proc[q].at # "end" => proc[q].held = 0
    <3>1. SingleLeaving(q) /\ proc[q].at # "end" => q \in Servers /\ SingleRuns(q) /\ q # p
      BY <1>0 DEF SingleLeaving, SingleProcOK, SingleRuns
    <3>2. ~(SingleLeaving(q) /\ proc[q].at # "end")
      BY <1>0, <3>1 DEF SingleInv, SingleServer
    <3>. QED
      BY <1>0, <3>2 DEF SingleProcOK, SingleLeaving
  <2>2. proc'[q].held = 0
    BY <2>1
  <2>3. CASE q = p
    BY <2>2, <2>3 DEF SingleBefore, SinglePast, Single!Inside, SingleRuns, SingleLeaving
  <2>4. CASE q # p
    <3>1. proc'[q].at = proc[q].at /\ ~Single!Inside(q)
      BY <1>0, <2>4
    <3>. QED
      BY <2>2, <3>1 DEF SingleBefore, SinglePast, Single!Inside, SingleRuns, SingleLeaving
  <2>. QED
    BY <2>3, <2>4
<1>3. ASSUME NEW q \in Procs PROVE SingleProcOK(q)'
  <2>1. SingleProcOK(q) /\ ~Single!Inside(q)'
    BY <1>0, <1>2
  <2>2. CASE q = p
    BY <1>0, <1>2, <2>1, <2>2 DEF SingleProcOK
  <2>3. CASE q # p
    <3>1. proc'[q].at = proc[q].at
      BY <2>3
    <3>. QED
      BY <1>2, <2>1, <3>1 DEF SingleProcOK
  <2>. QED
    BY <2>2, <2>3
<1>4. SingleOneSet'
  BY <1>2 DEF SingleInv, SingleOneSet
<1>5. ASSUME NEW s \in Servers PROVE SingleStart(s)'
  <2>1. SingleStart(s) /\ s \in Procs /\ (s # p => ~SingleRuns(s))
    BY <1>0 DEF SingleInv, SingleGiven, SingleServer
  <2>2. proc'[s].at \notin {"sigaction", "shmget", "semget", "setval"}
    BY <1>2, <2>1 DEF SingleRuns
  <2>3. ~scene.patient /\ s \in scene.run => ~SingleBefore(s)
    BY <1>0 DEF Single!Proper, SingleBefore
  <2>. QED
    BY <1>2, <2>1, <2>2, <2>3 DEF SingleStart
<1>6. SingleToken' /\ SingleAlone'
  BY <1>2 DEF SingleToken, SingleHolder, SingleAlone
<1>7. SingleServer'
  <2>1. \A s \in Servers : s \in Procs
    BY DEF SingleGiven
  <2>. QED
    BY <1>2, <2>1 DEF SingleInv, SingleServer
<1>. QED
  BY <1>1, <1>3, <1>4, <1>5, <1>6, <1>7 DEF SingleInv

\* semop takes the unit, or gives it back.
LEMMA SingleSemop ==
    ASSUME SingleGiven, SingleInv, scene' = scene, UNCHANGED <<shmKey, semKey, mem>>,
           NEW p \in Procs, NEW a, NEW m, NEW n, proc' \in [Procs -> SingleProc],
           proc[p].sem = semKey, n \in {0, 1}, sem' = [sem EXCEPT ![0] = 1 - n],
           Becomes(p, a, proc[p].shm, proc[p].sem, m, n),
           \/ /\ n = 1 /\ sem[0] = 1
              /\ \/ proc[p].at = "P" /\ a = "hello" /\ p \in Servers
                 \/ proc[p].at = "P" /\ a = "write" /\ p \in Clients
                 \/ proc[p].at = "sleep" /\ a = "loop"
           \/ /\ n = 0
              /\ \/ proc[p].at = "V" /\ a = "sleep" /\ p \in Servers
                 \/ proc[p].at = "V" /\ a = "end"
                 \/ proc[p].at = "last" /\ a = "shmdt"
    PROVE  SingleInv'
<1>0. /\ proc'[p].at = a /\ proc'[p].sem = proc[p].sem /\ proc'[p].held = n
      /\ \A q \in Procs \ {p} : proc'[q] = proc[q]
      /\ None \notin Procs /\ SinglePast(p) /\ SingleRuns(p) /\ SingleProcOK(p)
      /\ a \in {"hello", "write", "loop", "sleep", "end", "shmdt"}
  BY DEF Becomes, SingleGiven, SinglePast, SingleBefore, SingleRuns, SingleInv
<1>1. semKey # None /\ sem \in [{0} -> {0, 1}] /\ n \in {0, 1} /\ sem'[0] = 1 - n
  BY <1>0 DEF SingleProcOK, SingleInv, SingleKernelOK
<1>2. SingleKernelOK'
  BY <1>1 DEF SingleInv, SingleKernelOK
<1>3. /\ \A q \in Procs : proc'[q].sem = proc[q].sem
      /\ \A q \in Procs \ {p} : /\ SingleProcOK(q)'
                                /\ SingleBefore(q)' <=> SingleBefore(q)
                                /\ SinglePast(q)' <=> SinglePast(q)
                                /\ Single!Inside(q)' <=> Single!Inside(q)
                                /\ SingleRuns(q)' <=> SingleRuns(q)
  BY <1>0, SingleOthers
<1>4. /\ ~SingleBefore(p) /\ ~SingleBefore(p)'
      /\ Single!Inside(p)' <=> n = 1
      /\ Single!Inside(p) <=> n = 0
  BY <1>0 DEF SingleBefore, Single!Inside
<1>5. SingleProcOK(p)'
  BY <1>0, <1>4 DEF SingleProcOK, SinglePast
<1>6. SingleOneSet'
  <2>1. \A q \in Procs : SinglePast(q)' => SinglePast(q)
    BY <1>0, <1>3
  <2>. QED
    BY <1>3, <2>1 DEF SingleInv, SingleOneSet
\* Who is inside holds the unit.
<1>7. \A q \in Procs : Single!Inside(q) => SingleHolder(q)
  <2>1. \A q \in Procs : Single!Inside(q) => SinglePast(q) /\ proc[q].held = 1
    BY DEF SingleInv, SingleProcOK, Single!Inside, SinglePast, SingleBefore
  <2>. QED
    BY <1>1, <2>1 DEF SingleInv, SingleOneSet, SingleHolder
<1>8. \A q \in Procs \ {p} : ~SingleHolder(q)
  <2>1. CASE n = 1
    BY <1>1, <2>1 DEF SingleInv, SingleToken
  <2>2. CASE n = 0
    BY <1>1, <1>4, <1>7, <2>2 DEF SingleInv, SingleToken
  <2>. QED
    BY <1>1, <2>1, <2>2
<1>9. SingleToken'
  <2>1. \A q \in Procs : SingleHolder(q)' => q = p /\ n = 1
    BY <1>0, <1>8 DEF SingleHolder
  <2>2. sem'[0] = 1 => n = 0
    BY <1>1
  <2>. QED
    BY <2>1, <2>2 DEF SingleToken
<1>10. SingleAlone'
  <2>1. \A q \in Procs : Single!Inside(q)' => q = p
    BY <1>3, <1>7, <1>8
  <2>. QED
    BY <2>1 DEF SingleAlone
<1>11. SingleServer'
  <2>1. \A s \in Servers : s \in Procs
    BY DEF SingleGiven
  <2>2. \A q \in Procs : SingleRuns(q)' => SingleRuns(q)
    BY <1>0, <1>3
  <2>. QED
    BY <2>1, <2>2 DEF SingleInv, SingleServer
<1>12. ASSUME NEW s \in Servers PROVE SingleStart(s)'
  <2>1. SingleStart(s) /\ s \in Procs /\ (proc[s].at = "setval" => s \in scene.run)
    BY DEF SingleInv, SingleGiven, SingleProcOK
  <2>2. CASE s = p
    <3>1. proc'[s].at \notin {"sigaction", "shmget", "semget", "setval"}
      BY <1>0, <2>2
    <3>. QED
      BY <1>4, <2>2, <3>1 DEF SingleStart
  <2>3. CASE s # p
    <3>1. proc'[s] = proc[s] /\ (scene.patient => proc[s].at \notin {"sigaction", "shmget", "semget", "setval"})
      BY <1>0, <2>1, <2>3 DEF SingleStart, SingleRuns
    <3>2. ~(~scene.patient /\ s \in scene.run /\ proc[s].at = "setval")
      <4>. SUFFICES ASSUME ~scene.patient, s \in scene.run, proc[s].at = "setval" PROVE FALSE
        OBVIOUS
      <4>1. sem[0] = 0 /\ ~Single!Inside(p)
        BY <2>1 DEF SingleStart
      <4>2. n = 0
        BY <4>1
      <4>. QED
        BY <1>4, <4>1, <4>2
    <3>3. ~scene.patient /\ s \in scene.run => ~SingleBefore(s)
      BY <1>1, <2>1 DEF SingleStart
    <3>4. proc[s].at # "setval"
      BY <2>1, <3>1, <3>2
    <3>. QED
      BY <1>3, <2>1, <2>3, <3>1, <3>3, <3>4 DEF SingleStart
  <2>. QED
    BY <2>2, <2>3
<1>. QED
  BY <1>2, <1>3, <1>5, <1>6, <1>9, <1>10, <1>11, <1>12 DEF SingleInv

LEMMA SingleStepOf ==
    ASSUME SingleGiven, SingleInv, Single!Proper, scene' = scene, NEW p \in Procs,
           Single!Step(p) \/ Single!Sighandler(p)
    PROVE  SingleInv'
<1>0. /\ proc \in [Procs -> SingleProc] /\ SingleProcOK(p) /\ SingleKernelOK /\ None \notin Procs
      /\ p \in Servers \/ p \in Clients
      /\ p \in Servers => p \notin Clients
  BY DEF SingleInv, SingleGiven
<1>. USE DEF Single!At
<1>1. ASSUME NEW a, NEW s, NEW m, Becomes(p, a, s, proc[p].sem, m, proc[p].held),
             proc' \in [Procs -> SingleProc], mem' \in [Procs -> SingleTexts], sem' = sem,
             shmKey' \in Procs \cup {None}, semKey' \in {semKey, None},
             proc[p].at \notin {"new", "end"},
             \/ proc[p].at = "sigaction" /\ a = "shmget"
             \/ proc[p].at = "shmget" /\ a = "semget"
             \/ proc[p].at = "shmat" /\ a = "P"
             \/ proc[p].at = "hello" /\ a = "loop"
             \/ proc[p].at = "write" /\ a = "V"
             \/ proc[p].at = "loop" /\ a \in {"V", "last"}
             \/ ~SingleBefore(p) /\ proc[p].at # "sigsem" /\ a \in {"rmshm", "rmsem"} /\ p \in Servers
             \/ a = "sigsem" /\ p \in Servers
             \/ a = "end"
      PROVE  SingleInv'
  <2>1. /\ proc'[p].at = a /\ proc'[p].sem = proc[p].sem /\ proc'[p].held = proc[p].held
        /\ \A q \in Procs : proc'[q].sem = proc[q].sem
    BY <1>1 DEF Becomes
  <2>2. /\ SingleBefore(p)' => SingleBefore(p)
        /\ SinglePast(p)' => SinglePast(p)
        /\ Single!Inside(p)' <=> Single!Inside(p) /\ ~SingleLeaving(p)'
        /\ a # "setval" /\ SingleRuns(p)
    BY <1>1, <2>1 DEF SingleBefore, SinglePast, Single!Inside, SingleRuns, SingleLeaving
  <2>3. /\ ~Single!Inside(p)' /\ ~SingleLeaving(p)' => ~Single!Inside(p) /\ ~SingleLeaving(p)
        /\ a \in {"sigaction", "setval", "hello", "loop", "sleep", "last", "shmdt", "rmshm", "rmsem",
                  "sigsem"}
              => p \in Servers
        /\ a \notin {"write", "new"}
    BY <1>0, <1>1, <2>1, <2>2 DEF SingleLeaving, SingleProcOK
  <2>4. SingleProcOK(p)'
    BY <1>0, <1>1, <2>1, <2>2, <2>3 DEF SingleProcOK
  <2>. QED
    BY <1>1, <2>2, <2>4, SingleQuiet
<1>2. ASSUME NEW a \in SingleSteps, Single!Go(p, a)
      PROVE  /\ proc' \in [Procs -> SingleProc]
             /\ Becomes(p, a, proc[p].shm, proc[p].sem, proc[p].mapped /\ a # "end", proc[p].held)
  BY <1>0, <1>2, GoEffect DEF SingleProc, Single!Go
<1>3. \A a \in {"new", "sigaction", "shmget", "semget", "setval", "shmat", "P", "hello", "write", "loop",
                "V", "sleep", "last", "shmdt", "rmshm", "rmsem", "sigsem", "end"} : a \in SingleSteps
  BY DEF SingleSteps
<1>4. mem \in [Procs -> SingleTexts] /\ shmKey \in Procs \cup {None}
  BY <1>0 DEF SingleKernelOK
\* Leaving, by return, exit or a failure.
<1>5. PICK e \in SingleSteps : e = Single!ExitStep(p)
  BY <1>3 DEF Single!ExitStep
<1>6. /\ e \in {"rmshm", "end"}
      /\ e = "rmshm" => p \in Servers
  BY <1>5 DEF Single!ExitStep, Single!Caught
<1>7. ASSUME NEW a, a \in {"end", e}, Single!Go(p, a), UNCHANGED <<shmKey, semKey, mem, sem>>,
             proc[p].at \notin {"new", "end"},
             a = e => ~SingleBefore(p) /\ proc[p].at # "sigsem"
      PROVE  SingleInv'
  <2>1. /\ proc' \in [Procs -> SingleProc]
        /\ Becomes(p, a, proc[p].shm, proc[p].sem, proc[p].mapped /\ a # "end", proc[p].held)
    BY <1>2, <1>3, <1>5, <1>7
  <2>2. \/ ~SingleBefore(p) /\ proc[p].at # "sigsem" /\ a \in {"rmshm", "rmsem"} /\ p \in Servers
        \/ a = "end"
    BY <1>6, <1>7
  <2>3. /\ mem' \in [Procs -> SingleTexts] /\ shmKey' \in Procs \cup {None}
        /\ semKey' \in {semKey, None} /\ sem' = sem
    BY <1>4, <1>7
  <2>. QED
    BY <1>1, <1>7, <2>1, <2>2, <2>3
<1>8. CASE Single!Begin(p)
  <2>1. /\ proc[p].at = "new" /\ p \in scene.run /\ UNCHANGED <<shmKey, semKey, mem, sem>>
        /\ scene.patient => \A q \in Procs : /\ proc[q].at \notin {"sigaction", "shmget", "semget", "setval"}
                                             /\ p \in Servers => proc[q].at \in {"new", "end"}
    <3>1. /\ proc[p].at = "new" /\ p \in scene.run /\ UNCHANGED <<shmKey, semKey, mem, sem>>
          /\ scene.patient => \A q \in Procs :
                proc[q].at \in (IF p \in Servers THEN {} ELSE Single!Settled) \cup {"new", "end"}
      BY <1>8 DEF Single!Begin, Single!Start, Single!kernel
    <3>. QED
      BY <3>1 DEF Single!Settled
  <2>2. PICK a \in SingleSteps : a = (IF p \in Servers THEN "sigaction" ELSE "shmget")
    BY <1>3
  <2>3. Single!Go(p, a) /\ ((p \in Servers /\ a = "sigaction") \/ (p \in Clients /\ a = "shmget"))
    BY <1>0, <1>8, <2>2 DEF Single!Begin
  <2>. QED
    BY <1>2, <2>1, <2>3, SingleBegin
<1>9. CASE Single!Sigaction(p)
  <2>1. proc[p].at = "sigaction" /\ Single!Go(p, "shmget") /\ UNCHANGED <<shmKey, semKey, mem, sem>>
    BY <1>9 DEF Single!Sigaction, Single!kernel
  <2>. QED
    BY <1>1, <1>2, <1>3, <1>4, <2>1
<1>10. CASE Single!Shmget(p)
  <2>1. proc[p].at = "shmget"
    BY <1>10 DEF Single!Shmget
  <2>2. ASSUME NEW s \in Procs, proc' = [proc EXCEPT ![p].at = "semget", ![p].shm = s], shmKey' = s,
               UNCHANGED <<semKey, mem, sem>>
        PROVE  SingleInv'
    <3>1. /\ proc' \in [Procs -> SingleProc]
          /\ Becomes(p, "semget", s, proc[p].sem, proc[p].mapped, proc[p].held)
      BY <1>0, <1>3, <2>2, ShmEffect DEF SingleProc
    <3>. QED
      BY <1>1, <1>4, <2>1, <2>2, <3>1
  <2>3. CASE Single!ShmgetOld(p, "semget")
    <3>1. PICK s \in Procs : s = shmKey
      BY <1>4, <2>3 DEF Single!ShmgetOld
    <3>. QED
      BY <2>2, <2>3, <3>1 DEF Single!ShmgetOld, Single!kernel
  <2>4. CASE Single!ShmgetNew(p, "semget")
    BY <2>2, <2>4 DEF Single!ShmgetNew
  <2>5. CASE Single!ShmgetFails(p)
    <3>1. Single!Go(p, "end") /\ UNCHANGED <<shmKey, semKey, mem, sem>>
      BY <2>5 DEF Single!ShmgetFails, Single!kernel
    <3>. QED
      BY <1>1, <1>2, <1>3, <1>4, <2>1, <3>1
  <2>. QED
    BY <1>10, <2>3, <2>4, <2>5 DEF Single!Shmget
<1>11. CASE Single!Semget(p)
  <2>1. proc[p].at = "semget"
    BY <1>11 DEF Single!Semget
  <2>2. ASSUME NEW t \in Procs, NEW a \in SingleSteps,
               proc' = [proc EXCEPT ![p].at = a, ![p].sem = t], semKey' = t, UNCHANGED <<shmKey, mem>>,
               \/ t = semKey /\ sem' = sem
               \/ semKey = None /\ t = p /\ p \in Servers /\ sem' = Single!Zeroes,
               \/ p \in Servers /\ a = "setval"
               \/ p \notin Servers /\ a = "shmat"
        PROVE  SingleInv'
    <3>1. /\ proc' \in [Procs -> SingleProc]
          /\ Becomes(p, a, proc[p].shm, t, proc[p].mapped, proc[p].held)
      BY <1>0, <2>2, SemEffect DEF SingleProc
    <3>. QED
      BY <2>1, <2>2, <3>1, SingleSemget
  <2>3. CASE Single!SemgetOld(p, IF p \in Servers THEN "setval" ELSE "shmat")
    <3>1. PICK t \in Procs : t = semKey
      BY <1>0, <2>3 DEF Single!SemgetOld, SingleKernelOK
    <3>2. PICK a \in SingleSteps : a = IF p \in Servers THEN "setval" ELSE "shmat"
      BY <1>3
    <3>3. proc' = [proc EXCEPT ![p].at = a, ![p].sem = t] /\ UNCHANGED <<shmKey, mem, semKey, sem>>
      BY <2>3, <3>1, <3>2 DEF Single!SemgetOld, Single!kernel
    <3>4. (p \in Servers /\ a = "setval") \/ (p \notin Servers /\ a = "shmat")
      BY <3>2
    <3>. QED
      BY <2>2, <3>1, <3>3, <3>4
  <2>4. CASE p \in Servers /\ Single!SemgetNew(p, "setval")
    BY <1>3, <2>2, <2>4 DEF Single!SemgetNew
  <2>5. CASE Single!SemgetFails(p)
    <3>1. Single!Go(p, "end") /\ UNCHANGED <<shmKey, semKey, mem, sem>>
      BY <2>5 DEF Single!SemgetFails, Single!kernel
    <3>. QED
      BY <1>1, <1>2, <1>3, <1>4, <2>1, <3>1
  <2>. QED
    BY <1>11, <2>3, <2>4, <2>5 DEF Single!Semget
<1>12. CASE Single!SetVal(p)
  <2>1. proc[p].at = "setval" /\ UNCHANGED <<shmKey, semKey, mem>>
    BY <1>12 DEF Single!SetVal, Single!SetAll
  <2>2. CASE proc[p].sem = semKey
    <3>1. /\ sem' = [i \in {0} |-> 1]
          /\ proc' = [q \in Procs |-> IF q = p THEN [proc[p] EXCEPT !.at = "shmat"]
                                     ELSE IF proc[q].at = "end" THEN [proc[q] EXCEPT !.held = 0]
                                     ELSE proc[q]]
      BY <1>12, <2>2 DEF Single!SetVal, Single!SetAll, Single!SetThere
    <3>2. ASSUME NEW q \in Procs
          PROVE  /\ proc'[q] \in SingleProc
                 /\ proc'[q].at = (IF q = p THEN "shmat" ELSE proc[q].at)
                 /\ proc'[q].shm = proc[q].shm /\ proc'[q].sem = proc[q].sem
                 /\ proc'[q].held = (IF proc[q].at = "end" THEN 0 ELSE proc[q].held)
      <4>0. proc[q] \in SingleProc
        BY <1>0
      <4>1. CASE q = p
        <5>1. proc'[q] = [proc[p] EXCEPT !.at = "shmat"]
          BY <3>1, <4>1
        <5>. QED
          BY <1>3, <2>1, <4>0, <4>1, <5>1 DEF SingleProc, IpcProc
      <4>2. CASE q # p /\ proc[q].at = "end"
        <5>1. proc'[q] = [proc[q] EXCEPT !.held = 0]
          BY <3>1, <4>2
        <5>. QED
          BY <4>0, <4>2, <5>1 DEF SingleProc, IpcProc
      <4>3. CASE q # p /\ proc[q].at # "end"
        BY <3>1, <4>0, <4>3
      <4>. QED
        BY <4>1, <4>2, <4>3
    <3>3. proc' \in [Procs -> SingleProc]
      BY <3>1, <3>2
    <3>. QED
      BY <2>1, <3>1, <3>2, <3>3, SingleSetVal
  <2>3. CASE proc[p].sem # semKey
    <3>1. Single!Go(p, e) /\ UNCHANGED <<shmKey, semKey, mem, sem>> /\ ~SingleBefore(p)
      BY <1>5, <1>12, <2>1, <2>3 DEF Single!SetVal, Single!SetAll, Single!SetThere, SingleBefore
    <3>. QED
      BY <1>7, <2>1, <3>1
  <2>. QED
    BY <2>2, <2>3
<1>13. CASE Single!Attach(p)
  <2>1. proc[p].at = "shmat" /\ UNCHANGED <<shmKey, semKey, mem, sem>> /\ ~SingleBefore(p)
    BY <1>13 DEF Single!Attach, Single!Shmat, Single!kernel, SingleBefore
  <2>2. CASE proc' = [proc EXCEPT ![p].at = "P", ![p].mapped = TRUE]
    <3>1. /\ proc' \in [Procs -> SingleProc]
          /\ Becomes(p, "P", proc[p].shm, proc[p].sem, TRUE, proc[p].held)
      BY <1>0, <1>3, <2>2, MapEffect DEF SingleProc
    <3>. QED
      BY <1>1, <1>4, <2>1, <3>1
  <2>3. CASE Single!Go(p, e)
    BY <1>7, <2>1, <2>3
  <2>. QED
    BY <1>5, <1>13, <2>2, <2>3 DEF Single!Attach, Single!Shmat
<1>14. PICK z \in {0, 1} : z = sem[0]
  BY <1>0 DEF SingleKernelOK
\* One P and one V.
<1>15. ASSUME NEW a \in SingleSteps, Single!Semop(p, 0, -1, a, e),
              \/ proc[p].at = "P" /\ a = "hello" /\ p \in Servers
              \/ proc[p].at = "P" /\ a = "write" /\ p \in Clients
              \/ proc[p].at = "sleep" /\ a = "loop"
       PROVE  SingleInv'
  <2>0. UNCHANGED <<shmKey, semKey, mem>> /\ ~SingleBefore(p) /\ proc[p].at \in {"P", "sleep"}
    BY <1>15 DEF Single!Semop, SingleBefore
  <2>1. CASE proc[p].sem = semKey /\ sem[0] + -1 >= 0 /\ sem' = [sem EXCEPT ![0] = @ + -1]
             /\ proc' = [proc EXCEPT ![p].at = a, ![p].held = @ - -1, ![p].mapped = @ /\ a # "end"]
    <3>1. z = 1 /\ sem[0] = 1 /\ 1 + -1 = 0 /\ 1 - 1 = 0
      BY <1>14, <2>1
    <3>2. sem' = [sem EXCEPT ![0] = sem[0] + -1]
      BY <2>1
    <3>3. sem[0] + -1 = 0
      BY <3>1
    <3>4. sem' = [sem EXCEPT ![0] = 1 - 1]
      BY <3>1, <3>2, <3>3
    <3>5. proc[p].held = 0 /\ 0 - -1 = 1
      BY <1>0, <2>0 DEF SingleProcOK, Single!Inside, SingleLeaving
    <3>6. proc[p].held - -1 \in 0..1
      BY <3>5
    <3>7. /\ proc' \in [Procs -> SingleProc]
          /\ Becomes(p, a, proc[p].shm, proc[p].sem, proc[p].mapped /\ a # "end", proc[p].held - -1)
      BY <1>0, <2>1, <3>6, SemopEffect DEF SingleProc
    <3>8. Becomes(p, a, proc[p].shm, proc[p].sem, proc[p].mapped /\ a # "end", 1)
      BY <3>5, <3>7
    <3>. QED
      BY <1>15, <2>0, <2>1, <3>1, <3>4, <3>7, <3>8, SingleSemop
  <2>2. CASE Single!Go(p, e) /\ sem' = sem
    BY <1>7, <2>0, <2>2
  <2>. QED
    BY <1>15, <2>1, <2>2 DEF Single!Semop, Single!SetThere
<1>16. ASSUME NEW a \in SingleSteps, Single!Semop(p, 0, 1, a, e),
              \/ proc[p].at = "V" /\ a = "sleep" /\ p \in Servers
              \/ proc[p].at = "V" /\ a = "end"
              \/ proc[p].at = "last" /\ a = "shmdt"
       PROVE  SingleInv'
  <2>0. UNCHANGED <<shmKey, semKey, mem>> /\ ~SingleBefore(p) /\ proc[p].at \in {"V", "last"}
    BY <1>16 DEF Single!Semop, SingleBefore
  <2>1. CASE proc[p].sem = semKey /\ sem' = [sem EXCEPT ![0] = @ + 1]
             /\ proc' = [proc EXCEPT ![p].at = a, ![p].held = @ - 1, ![p].mapped = @ /\ a # "end"]
    <3>1. proc[p].held = 1 /\ 1 - 1 = 0 /\ Single!Inside(p)
      BY <1>0, <2>0 DEF SingleProcOK, Single!Inside
    <3>2. sem[0] = 0
      <4>1. semKey # None /\ SingleHolder(p)
        BY <1>0, <2>0, <2>1, <3>1 DEF SingleProcOK, SinglePast, SingleHolder
      <4>2. sem[0] # 1
        BY <4>1 DEF SingleInv, SingleToken
      <4>. QED
        BY <1>14, <4>2
    <3>3. sem' = [sem EXCEPT ![0] = sem[0] + 1]
      BY <2>1
    <3>4. sem[0] + 1 = 1 - 0
      BY <3>2
    <3>5. sem' = [sem EXCEPT ![0] = 1 - 0]
      BY <3>3, <3>4
    <3>6. proc[p].held - 1 \in 0..1
      BY <3>1
    <3>7. /\ proc' \in [Procs -> SingleProc]
          /\ Becomes(p, a, proc[p].shm, proc[p].sem, proc[p].mapped /\ a # "end", proc[p].held - 1)
      <4>1. PICK n : n = 1
        OBVIOUS
      <4>2. proc' = [proc EXCEPT ![p].at = a, ![p].held = @ - n, ![p].mapped = @ /\ a # "end"]
        BY <2>1, <4>1
      <4>3. proc[p].held - n \in 0..1
        BY <3>6, <4>1
      <4>4. proc \in [Procs -> IpcProc(SingleSteps, 1)]
        BY <1>0 DEF SingleProc
      <4>5. /\ proc' \in [Procs -> IpcProc(SingleSteps, 1)]
            /\ Becomes(p, a, proc[p].shm, proc[p].sem, proc[p].mapped /\ a # "end", proc[p].held - n)
        BY <4>2, <4>3, <4>4, SemopEffect
      <4>. QED
        BY <4>1, <4>5 DEF SingleProc
    <3>8. Becomes(p, a, proc[p].shm, proc[p].sem, proc[p].mapped /\ a # "end", 0)
      <4>1. proc[p].held - 1 = 0
        BY <3>1
      <4>. QED
        BY <3>7, <4>1
    <3>. QED
      BY <1>16, <2>0, <2>1, <3>5, <3>7, <3>8, SingleSemop
  <2>2. CASE Single!Go(p, e) /\ sem' = sem
    BY <1>7, <2>0, <2>2
  <2>. QED
    BY <1>16, <2>1, <2>2 DEF Single!Semop, Single!SetThere
<1>17. CASE Single!Lock(p)
  <2>1. PICK a \in SingleSteps : a = (IF p \in Servers THEN "hello" ELSE "write")
    BY <1>3
  <2>2. CASE proc[p].at = "P" /\ Single!Semop(p, 0, -1, a, e)
    BY <1>0, <1>15, <2>1, <2>2
  <2>3. CASE proc[p].at = "sleep" /\ Single!Semop(p, 0, -1, "loop", e)
    BY <1>3, <1>15, <2>3
  <2>. QED
    BY <1>5, <1>17, <2>1, <2>2, <2>3 DEF Single!Lock
<1>18. CASE Single!Unlock(p)
  <2>1. PICK a \in SingleSteps : a = (IF p \in Servers THEN "sleep" ELSE "end")
    BY <1>3
  <2>2. CASE proc[p].at = "V" /\ Single!Semop(p, 0, 1, a, e)
    BY <1>0, <1>16, <2>1, <2>2
  <2>3. CASE proc[p].at = "last" /\ Single!Semop(p, 0, 1, "shmdt", e)
    BY <1>3, <1>16, <2>3
  <2>. QED
    BY <1>5, <1>18, <2>1, <2>2, <2>3 DEF Single!Unlock
\* A text comes to the segment.
<1>19. ASSUME NEW x \in SingleTexts, NEW a \in SingleSteps, Single!Put(p, x, a),
              \/ proc[p].at = "hello" /\ a = "loop"
              \/ proc[p].at = "write" /\ a = "V"
       PROVE  SingleInv'
  <2>1. /\ proc' \in [Procs -> SingleProc] /\ UNCHANGED <<shmKey, semKey, sem>>
        /\ Becomes(p, a, proc[p].shm, proc[p].sem, proc[p].mapped /\ a # "end", proc[p].held)
        /\ mem' = [mem EXCEPT ![proc[p].shm] = x]
    BY <1>2, <1>19 DEF Single!Put
  <2>2. mem' \in [Procs -> SingleTexts] /\ shmKey' \in Procs \cup {None}
    BY <1>4, <2>1
  <2>. QED
    BY <1>1, <1>19, <2>1, <2>2
<1>20. CASE Single!Write(p)
  <2>1. Single!Hello \in SingleTexts /\ (p \in Clients => Mesg[p] \in SingleTexts)
    BY DEF SingleTexts
  <2>2. proc[p].at = "write" => p \in Clients
    BY <1>0 DEF SingleProcOK
  <2>. QED
    BY <1>3, <1>19, <1>20, <2>1, <2>2 DEF Single!Write
<1>21. CASE Single!Loop(p)
  <2>1. proc[p].at = "loop" /\ UNCHANGED <<shmKey, semKey, mem, sem>>
    BY <1>21 DEF Single!Loop, Single!kernel
  <2>2. ASSUME NEW a \in {"V", "last"}, Single!Go(p, a) PROVE SingleInv'
    <3>1. /\ proc' \in [Procs -> SingleProc]
          /\ Becomes(p, a, proc[p].shm, proc[p].sem, proc[p].mapped /\ a # "end", proc[p].held)
      BY <1>2, <1>3, <2>2
    <3>. QED
      BY <1>1, <1>4, <2>1, <3>1
  <2>. QED
    BY <1>21, <2>2 DEF Single!Loop
<1>25. CASE Single!Detach(p)
  <2>1. /\ proc[p].at = "shmdt" /\ UNCHANGED <<shmKey, semKey, mem, sem>> /\ ~SingleBefore(p)
        /\ p \in Servers /\ proc' = [proc EXCEPT ![p].at = "rmshm", ![p].mapped = FALSE]
    BY <1>0, <1>25 DEF Single!Detach, Single!Shmdt, Single!kernel, SingleProcOK, SingleBefore
  <2>2. /\ proc' \in [Procs -> SingleProc]
        /\ Becomes(p, "rmshm", proc[p].shm, proc[p].sem, FALSE, proc[p].held)
    BY <1>0, <1>3, <2>1, DetachEffect DEF SingleProc
  <2>. QED
    BY <1>1, <1>4, <2>1, <2>2
\* IPC_RMID, at exit and at SIGINT.
<1>22. ASSUME NEW a \in {"rmsem", "sigsem"}, Single!RemoveShm(p, a), p \in Servers,
              proc[p].at \notin {"new", "sigsem", "end"},
              a = "rmsem" => ~SingleBefore(p)
       PROVE  SingleInv'
  <2>1. /\ UNCHANGED <<semKey, mem, sem>> /\ shmKey' \in {shmKey, None}
        /\ Single!Go(p, a) \/ Single!Go(p, "end")
    BY <1>22 DEF Single!RemoveShm
  <2>2. mem' \in [Procs -> SingleTexts] /\ shmKey' \in Procs \cup {None}
    BY <1>4, <2>1
  <2>3. CASE Single!Go(p, a)
    <3>1. /\ proc' \in [Procs -> SingleProc]
          /\ Becomes(p, a, proc[p].shm, proc[p].sem, proc[p].mapped /\ a # "end", proc[p].held)
      BY <1>2, <1>3, <2>3
    <3>. QED
      BY <1>1, <1>22, <2>1, <2>2, <3>1
  <2>4. CASE Single!Go(p, "end")
    BY <1>1, <1>2, <1>3, <1>22, <2>1, <2>2, <2>4
  <2>. QED
    BY <2>1, <2>3, <2>4
<1>23. CASE Single!Exithandler(p)
  <2>1. CASE proc[p].at = "rmshm" /\ Single!RemoveShm(p, "rmsem")
    BY <1>0, <1>22, <2>1 DEF SingleProcOK, SingleBefore
  <2>2. CASE proc[p].at \in {"rmsem", "sigsem"} /\ Single!RemoveSem(p)
    <3>1. UNCHANGED <<shmKey, mem, sem>> /\ semKey' \in {semKey, None} /\ Single!Go(p, "end")
      BY <2>2 DEF Single!RemoveSem
    <3>. QED
      BY <1>1, <1>2, <1>3, <1>4, <2>2, <3>1
  <2>. QED
    BY <1>23, <2>1, <2>2 DEF Single!Exithandler
<1>24. CASE Single!Sighandler(p)
  <2>1. CASE Single!Caught(p)
    BY <1>22, <1>24, <2>1 DEF Single!Sighandler, Single!Caught
  <2>2. CASE ~Single!Caught(p)
    <3>1. proc[p].at \notin {"new", "end"} /\ Single!Go(p, "end") /\ UNCHANGED <<shmKey, semKey, mem, sem>>
      BY <1>24, <2>2 DEF Single!Sighandler, Single!Killed, Single!kernel
    <3>. QED
      BY <1>1, <1>2, <1>3, <1>4, <3>1
  <2>. QED
    BY <2>1, <2>2
<1>. QED
  BY <1>8, <1>9, <1>10, <1>11, <1>12, <1>13, <1>17, <1>18, <1>20, <1>21, <1>23, <1>24,
     <1>25 DEF Single!Step

LEMMA SingleStep ==
    ASSUME SingleGiven, Single!Proper => SingleInv, [Single!Next]_(Single!vars)
    PROVE  Single!Proper' => SingleInv'
<1>1. scene' = scene
  BY DEF Single!Next, Single!vars
<1>2. Single!Proper' <=> Single!Proper
  BY <1>1 DEF Single!Proper
<1>. SUFFICES ASSUME Single!Proper PROVE SingleInv'
  BY <1>2
<1>3. CASE Single!Next
  BY <1>1, <1>3, SingleStepOf DEF Single!Next
<1>4. CASE UNCHANGED Single!vars
  <2>1. UNCHANGED <<scene, shmKey, semKey, mem, sem, proc>>
    BY <1>4 DEF Single!vars, Single!moving, Single!kernel
  <2>. QED
    BY <2>1 DEF SingleInv, SingleKernelOK, SingleProcOK, SingleBefore, SinglePast, SingleLeaving,
                SingleOneSet, SingleStart, SingleToken, SingleHolder, SingleAlone, SingleServer,
                SingleRuns, Single!Inside
<1>. QED
  BY <1>3, <1>4

LEMMA SingleUnits ==
    ASSUME SingleGiven, SingleInv, semKey # None
    PROVE  Single!UnitsKept(1)
<1>1. \A i \in {0} : sem[i] \in {0, 1} /\ (sem[i] = 1 => 1..sem[i] = {1}) /\ (sem[i] = 0 => 1..sem[i] = {})
  BY DEF SingleInv, SingleKernelOK
<1>2. \A p \in Procs : /\ proc[p].held \in {0, 1} /\ (proc[p].held = 1 => 1..proc[p].held = {1})
                       /\ (proc[p].held = 0 => 1..proc[p].held = {})
  BY DEF SingleInv, SingleProc, IpcProc
<1>3. ASSUME NEW u \in Single!InSet PROVE \E i \in {0} : sem[i] = 1 /\ u = <<i, 1>>
  <2>1. PICK i \in {0} : u \in {i} \X (1..sem[i])
    BY <1>3 DEF Single!InSet
  <2>2. sem[i] = 1
    BY <1>1, <2>1
  <2>3. u \in {i} \X {1}
    BY <1>1, <2>1, <2>2
  <2>. QED
    BY <2>2, <2>3
<1>4. ASSUME NEW u \in Single!Taken PROVE \E p \in Procs : SingleHolder(p) /\ u = <<p, 1>>
  <2>1. PICK p \in Procs : proc[p].sem = semKey /\ u \in {p} \X (1..proc[p].held)
    BY <1>4 DEF Single!Taken, Single!SetThere
  <2>2. proc[p].held = 1
    BY <1>2, <2>1
  <2>3. u \in {p} \X {1}
    BY <1>2, <2>1, <2>2
  <2>. QED
    BY <2>1, <2>2, <2>3 DEF SingleHolder
<1>5. PICK x : Single!InSet \subseteq {x}
  <2>1. \A u \in Single!InSet : u = <<0, 1>>
    BY <1>3
  <2>. QED
    BY <2>1
<1>6. PICK y : Single!Taken \subseteq {y}
  <2>1. CASE \E p \in Procs : SingleHolder(p)
    BY <1>4, <2>1 DEF SingleInv, SingleToken
  <2>2. CASE ~\E p \in Procs : SingleHolder(p)
    BY <1>4, <2>2
  <2>. QED
    BY <2>1, <2>2
<1>7. Single!InSet = {} \/ Single!Taken = {}
  BY <1>3, <1>4 DEF SingleInv, SingleToken
<1>8. Single!InSet = {} => sem = Single!Zeroes
  <2>. SUFFICES ASSUME Single!InSet = {} PROVE sem = Single!Zeroes
    OBVIOUS
  <2>1. ASSUME NEW i \in {0}, sem[i] = 1 PROVE FALSE
    <3>1. <<i, 1>> \in {i} \X (1..sem[i])
      BY <1>1, <2>1
    <3>2. <<i, 1>> \in Single!InSet
      BY <3>1 DEF Single!InSet
    <3>. QED
      BY <3>2
  <2>2. \A i \in {0} : sem[i] = 0
    BY <1>1, <2>1
  <2>. QED
    BY <2>2 DEF SingleInv, SingleKernelOK, Single!Zeroes
<1>9. PICK a, b : a = Cardinality(Single!InSet) /\ b = Cardinality(Single!Taken)
  OBVIOUS
<1>10. Single!Units = a + b
  <2>1. /\ Single!Cardinality(Single!InSet) = Cardinality(Single!InSet)
        /\ Single!Cardinality(Single!Taken) = Cardinality(Single!Taken)
    BY DEF Single!Cardinality, Cardinality
  <2>. QED
    BY <1>9, <2>1 DEF Single!Units
<1>11. a + b \in {0, 1} /\ (a + b = 0 => Single!InSet = {})
  BY <1>5, <1>6, <1>7, <1>9, OneAtMost
<1>. QED
  BY <1>8, <1>10, <1>11 DEF Single!UnitsKept


LEMMA SingleRight ==
    ASSUME SingleGiven, Single!Proper => SingleInv
    PROVE  Single!OneUnit /\ Single!Exclusion
<1>1. ASSUME Single!Proper, SingleInv PROVE Single!TypeOK
  <2>1. scene \in ScenesOf("single") /\ scene \in Single!SceneType
    BY <1>1 DEF SingleInv, SingleKernelOK, SingleGiven
  <2>2. /\ mem \in [Procs -> {Blank, Single!Hello} \cup {Mesg[c] : c \in Clients}]
        /\ sem \in [{0} -> 0..2]
    BY <1>1 DEF SingleInv, SingleKernelOK, SingleTexts
  <2>3. shmKey \in Procs \cup {None} /\ semKey \in Procs \cup {None}
    BY <1>1 DEF SingleInv, SingleKernelOK
  <2>4. proc \in [Procs -> [at : {"sigaction", "shmget", "semget", "setval", "shmat", "P", "hello",
                                  "write", "loop", "V", "sleep", "last", "shmdt", "rmshm", "rmsem",
                                  "sigsem"}
                                 \cup {"new", "end"},
                            shm : Procs \cup {None}, sem : Procs \cup {None},
                            mapped : BOOLEAN, held : 0..2]]
    BY <1>1 DEF SingleInv, SingleProc, IpcProc, SingleSteps
  <2>. QED
    BY <2>1, <2>2, <2>3, <2>4 DEF Single!TypeOK, Single!IpcTypeOK
<1>2. ASSUME Single!Proper, SingleInv PROVE Single!UnitsKept(1)
  <2>1. CASE semKey = None
    BY <2>1 DEF Single!UnitsKept
  <2>. QED
    BY <1>2, <2>1, SingleUnits
<1>3. Single!OneUnit
  BY <1>1, <1>2 DEF Single!OneUnit
<1>4. Single!Exclusion
  BY DEF SingleInv, SingleAlone, Single!Exclusion
<1>. QED
  BY <1>3, <1>4
-----------------------------------------------------------------------------
(* Templates: the invariants of all programs, for one of which runs.       *)

\* A step of the whole is one of the program that runs.
LEMMA OneProgram ==
    ASSUME [Next]_vars
    PROVE  /\ UNCHANGED program
           /\ program = "simple" => [Simple!Next]_(Simple!vars)
           /\ program = "single" => [Single!Next]_(Single!vars)
           /\ program = "multiple" => [Multiple!Next]_(Multiple!vars)
           /\ program = "text" => [Text!Next]_(Text!vars)
           /\ program = "mutex" => [Mutex!Next]_(Mutex!moving)
           /\ program = "connect" => [Named!Next]_(Named!moving)
           /\ program = "tcp" => [Tcp!Next]_(Tcp!vars)
           /\ program = "number" => [Number!Next]_(Number!vars)
           /\ program = "stream" => [Stream!Next]_(Stream!vars)
           /\ program = "posix" => [Posix!Next]_(Posix!vars)
           /\ program = "sysv" => [SysV!Next]_(SysV!vars)
           /\ program = "dgram" => [Dgram!Next]_(Dgram!vars)
           /\ program = "file" => [File!Next]_(File!vars)
           /\ program = "net" => [Net!Next]_(Net!vars)
           /\ program = "filter" => [Chat!Next]_(Chat!vars)
           /\ program = "pipe" => [Pipe!Next]_(Pipe!vars)
           /\ program = "children" => [Ten!Next]_(Ten!vars)
<1>1. UNCHANGED program
  BY DEF Next, vars
<1>2. ASSUME program = "simple" PROVE [Simple!Next]_(Simple!vars)
  BY <1>2 DEF Next, vars, net, ipc, Simple!vars, Simple!moving, Simple!kernel
<1>3. ASSUME program = "single" PROVE [Single!Next]_(Single!vars)
  BY <1>3 DEF Next, vars, net, ipc, Single!vars, Single!moving, Single!kernel
<1>4. ASSUME program = "multiple" PROVE [Multiple!Next]_(Multiple!vars)
  BY <1>4 DEF Next, vars, net, ipc, Multiple!vars, Multiple!moving, Multiple!kernel
<1>5. ASSUME program = "text" PROVE [Text!Next]_(Text!vars)
  BY <1>5 DEF Next, vars, net, ipc, Text!vars, Text!moving, Text!kernel
<1>6. ASSUME program = "mutex" PROVE [Mutex!Next]_(Mutex!moving)
  BY <1>6 DEF Next, vars, net, ipc, Mutex!moving
<1>7. ASSUME program = "connect" PROVE [Named!Next]_(Named!moving)
  BY <1>7 DEF Next, vars, net, ipc, Named!moving
<1>8. ASSUME program = "tcp" PROVE [Tcp!Next]_(Tcp!vars)
  BY <1>8 DEF Next, vars, net, ipc, Tcp!vars, Tcp!moving
<1>9. ASSUME program = "number" PROVE [Number!Next]_(Number!vars)
  BY <1>9 DEF Next, vars, net, ipc, Number!vars, Number!moving
<1>10. ASSUME program = "stream" PROVE [Stream!Next]_(Stream!vars)
  BY <1>10 DEF Next, vars, net, ipc, Stream!vars, Stream!moving
<1>11. ASSUME program = "posix" PROVE [Posix!Next]_(Posix!vars)
  BY <1>11 DEF Next, vars, net, ipc, Posix!vars, Posix!moving
<1>12. ASSUME program = "sysv" PROVE [SysV!Next]_(SysV!vars)
  BY <1>12 DEF Next, vars, net, ipc, SysV!vars, SysV!moving
<1>13. ASSUME program = "dgram" PROVE [Dgram!Next]_(Dgram!vars)
  BY <1>13 DEF Next, vars, net, ipc, Dgram!vars, Dgram!moving
<1>14. ASSUME program = "file" PROVE [File!Next]_(File!vars)
  BY <1>14 DEF Next, vars, net, ipc, File!vars, File!moving
<1>15. ASSUME program = "net" PROVE [Net!Next]_(Net!vars)
  BY <1>15 DEF Next, vars, net, ipc, Net!vars, Net!moving
<1>16. ASSUME program = "filter" PROVE [Chat!Next]_(Chat!vars)
  BY <1>16 DEF Next, vars, net, ipc, Chat!vars, Chat!moving
<1>17. ASSUME program = "pipe" PROVE [Pipe!Next]_(Pipe!vars)
  BY <1>17 DEF Next, vars, net, ipc, Pipe!vars, Pipe!moving
<1>18. ASSUME program = "children" PROVE [Ten!Next]_(Ten!vars)
  BY <1>18 DEF Next, vars, net, ipc, Ten!vars, Ten!moving
<1>. QED
  BY <1>1, <1>2, <1>3, <1>4, <1>5, <1>6, <1>7, <1>8, <1>9, <1>10, <1>11, <1>12, <1>13, <1>14, <1>15, <1>16, <1>17, <1>18

LEMMA OneInit ==
    ASSUME Init
    PROVE  /\ program = "simple" => Simple!Init
           /\ program = "single" => Single!Init
           /\ program = "multiple" => Multiple!Init
           /\ program = "text" => Text!Init
           /\ program = "mutex" => Mutex!Init
           /\ program = "connect" => Named!Init
           /\ program = "tcp" => Tcp!Init
           /\ program = "number" => Number!Init
           /\ program = "stream" => Stream!Init
           /\ program = "posix" => Posix!Init
           /\ program = "sysv" => SysV!Init
           /\ program = "dgram" => Dgram!Init
           /\ program = "file" => File!Init
           /\ program = "net" => Net!Init
           /\ program = "filter" => Chat!Init
           /\ program = "pipe" => Pipe!Init
           /\ program = "children" => Ten!Init
  BY DEF Init

CountedInv ==
    /\ program = "tcp" => TcpInv /\ ExactInv
    /\ program = "number" => CountInv
    /\ program = "children" => ChildrenInv

\* A server counts the clients it serves (tcp-server.c), none of its children
\* stays a zombie (parallel-server.c), and a parent collects every one it has
\* begun (signal-termination.c).
THEOREM AllCounted == Spec => []Counted
<1>1. Init => CountedInv
  <2>1. Init /\ program = "tcp" => TcpInv /\ ExactInv
    <3>1. MaxConn \in Nat
      BY BoundsAssumption
    <3>2. ScenesOf("tcp") \subseteq Tcp!SceneType
      BY ServicesAssumption
    <3>. QED
      BY <3>1, <3>2, OneInit, TcpInit, ExactInit, ClientsAssumption
  <2>2. Init /\ program = "number" => CountInv
    <3>1. ScenesOf("number") \subseteq Number!SceneType
      BY ServicesAssumption
    <3>. QED
      BY <3>1, OneInit, CountInit, NoneIsNoClient, ClientsAssumption
  <2>3. Init /\ program = "children" => ChildrenInv
    <3>1. ChildCount \in Nat /\ ScenesOf("children") \subseteq Ten!SceneType
      BY SizesAssumption, TransfersAssumption
    <3>. QED
      BY <3>1, OneInit, ChildrenInit
  <2>. QED
    BY <2>1, <2>2, <2>3 DEF CountedInv
<1>2. CountedInv /\ [Next]_vars => CountedInv'
  BY OneProgram, TcpStep, CountStep, ChildrenStep, ClientsAssumption, BoundsAssumption, SizesAssumption DEF CountedInv
<1>3. CountedInv => Counted
  BY TcpRight, CountRight, InvCounts, ClientsAssumption, BoundsAssumption, SizesAssumption DEF CountedInv, Counted
<1>. QED
  BY <1>1, <1>2, <1>3, PTL DEF Spec
-----------------------------------------------------------------------------
FaithfulInv ==
    /\ program = "file" => CopyInv
    /\ program = "net" => NetWhole
    /\ program = "filter" => ChatInv
    /\ program = "pipe" => PipeInv

\* A copy is a beginning of the source and at the end all of it (copy.c), what a
\* server has stored for a client is its file (13-network-copy), and what a
\* filter or a child hands on is what it was given (socketpair-chat.c,
\* pipe-fork.c and its neighbours).
THEOREM AllFaithful == Spec => []Faithful
<1>1. Init => FaithfulInv
  <2>1. Init /\ program = "file" => CopyInv
    BY OneInit, InvInit, FileGiven
  <2>2. Init /\ program = "net" => NetWhole
    BY OneInit, NetInit, NetIsGiven
  <2>3. Init /\ program = "filter" => ChatInv
    <3>1. Lines \in Nat /\ ScenesOf("filter") \subseteq Chat!SceneType
      BY SizesAssumption, TransfersAssumption
    <3>. QED
      BY <3>1, OneInit, ChatInit
  <2>4. Init /\ program = "pipe" => PipeInv
    <3>1. ScenesOf("pipe") \subseteq Pipe!SceneType
      BY TransfersAssumption
    <3>. QED
      BY <3>1, OneInit, PipeInit
  <2>. QED
    BY <2>1, <2>2, <2>3, <2>4 DEF FaithfulInv
<1>2. FaithfulInv /\ [Next]_vars => FaithfulInv'
  <2>. SUFFICES ASSUME FaithfulInv, [Next]_vars PROVE FaithfulInv'
    OBVIOUS
  <2>1. program' = program
    BY OneProgram
  <2>2. program = "file" => CopyInv'
    BY OneProgram, CopyStep, FileGiven DEF FaithfulInv
  <2>3. program = "net" => NetWhole'
    BY OneProgram, NetStep, NetIsGiven DEF FaithfulInv
  <2>4. program = "filter" => ChatInv'
    <3>1. Lines \in Nat /\ LINELEN \in Nat /\ LINELEN > 0
      BY SizesAssumption
    <3>. QED
      BY <3>1, OneProgram, ChatStep DEF FaithfulInv
  <2>5. program = "pipe" => PipeInv'
    BY OneProgram, PipeStep DEF FaithfulInv
  <2>. QED
    BY <2>1, <2>2, <2>3, <2>4, <2>5 DEF FaithfulInv
<1>3. FaithfulInv => Faithful
  <2>1. FaithfulInv /\ program = "file" => File!Faithful
    BY InvFaithful, FileGiven DEF FaithfulInv
  <2>2. FaithfulInv /\ program = "net" => Net!Faithful
    BY NetFaithful, NetIsGiven DEF FaithfulInv, NetWhole
  <2>3. FaithfulInv /\ program = "filter" => Chat!Faithful
    BY ChatFaithful DEF FaithfulInv
  <2>4. FaithfulInv /\ program = "pipe" => Pipe!Faithful
    BY PipeFaithful DEF FaithfulInv
  <2>. QED
    BY <2>1, <2>2, <2>3, <2>4 DEF Faithful
<1>. QED
  BY <1>1, <1>2, <1>3, PTL DEF Spec
-----------------------------------------------------------------------------
ReleasedInv ==
    /\ program = "posix" => PosixInv
    /\ program = "stream" => StreamInv
    /\ program = "dgram" => DgramInv
    /\ program = "text" => TextInv

LEMMA GivenPrograms == TextGiven /\ StreamGiven /\ PosixGiven /\ DgramGiven
  BY ProgramsAssumption, BoundsAssumption, RoomAssumption, ServerAssumption, ScenesAssumption,
     ServicesAssumption, NoneIsNoClient
     DEF TextGiven, StreamGiven, PosixGiven, DgramGiven

\* The names of message queues, of sockets and of shared memory objects are
\* gone when their programs are (exithandler and the ends of main in
\* message-queue-posix, stream-exchange, datagram-exchange and
\* shared-memory-posix), at SIGINT too. Only a program that was lost leaves its
\* name: one that crashed or was killed, one that SIGINT met before sigaction, and
\* one that SIGINT met in exit() after its exithandler had closed.
THEOREM AllReleased == Spec => []Released
<1>1. Init => ReleasedInv
  BY OneInit, GivenPrograms, PosixInit, StreamInit, DgramInit, TextInit DEF ReleasedInv
<1>2. ReleasedInv /\ [Next]_vars => ReleasedInv'
  BY OneProgram, GivenPrograms, PosixStep, StreamStep, DgramStep, TextStep DEF ReleasedInv
<1>3. ReleasedInv => Released
  BY GivenPrograms, PosixRight, StreamRight, DgramRight, TextReleased DEF ReleasedInv, Released
<1>. QED
  BY <1>1, <1>2, <1>3, PTL DEF Spec
-----------------------------------------------------------------------------
AnswerInv ==
    /\ program = "multiple" => (Multiple!Proper => MultInv)
    /\ program = "number" => NumberInv
    /\ program = "posix" => PosixInv
    /\ program = "sysv" => SysVInv
    /\ program = "stream" => StreamInv
    /\ program = "dgram" => DgramInv

LEMMA GivenServices == MultGiven /\ SysVGiven
  BY ProgramsAssumption, BoundsAssumption, ScenesAssumption, ServicesAssumption
     DEF MultGiven, SysVGiven

\* What a client prints answers its own request: through a segment that all
\* share (shm-sem-client.c), a queue under the client's process id
\* (message-queue-system-v), a queue or a socket of its own, and of numbers none
\* is given twice (iterative-server.c, parallel-server.c).
THEOREM AllOwnAnswer == Spec => []OwnAnswer
<1>1. Init => AnswerInv
  BY OneInit, GivenPrograms, GivenServices, NoneIsNoClient,
     MultInit, NumberInit, PosixInit, SysVInit, StreamInit, DgramInit DEF AnswerInv
<1>2. AnswerInv /\ [Next]_vars => AnswerInv'
  <2>. SUFFICES ASSUME AnswerInv, [Next]_vars PROVE AnswerInv'
    OBVIOUS
  <2>1. program' = program
    BY OneProgram
  <2>2. program = "multiple" => (Multiple!Proper' => MultInv')
    BY OneProgram, GivenServices, MultStep DEF AnswerInv
  <2>3. program = "number" => NumberInv'
    BY OneProgram, NumberStep DEF AnswerInv
  <2>4. program = "posix" => PosixInv'
    BY OneProgram, GivenPrograms, PosixStep DEF AnswerInv
  <2>5. program = "sysv" => SysVInv'
    BY OneProgram, GivenServices, SysVStep DEF AnswerInv
  <2>6. program = "stream" => StreamInv'
    BY OneProgram, GivenPrograms, StreamStep DEF AnswerInv
  <2>7. program = "dgram" => DgramInv'
    BY OneProgram, GivenPrograms, DgramStep DEF AnswerInv
  <2>. QED
    BY <2>1, <2>2, <2>3, <2>4, <2>5, <2>6, <2>7 DEF AnswerInv
<1>3. AnswerInv => OwnAnswer
  BY GivenPrograms, GivenServices, MultRight, NumberRight, PosixRight, SysVRight, StreamRight, DgramRight
     DEF AnswerInv, OwnAnswer
<1>. QED
  BY <1>1, <1>2, <1>3, PTL DEF Spec
-----------------------------------------------------------------------------
LockInv ==
    /\ program = "simple" => SimpleInv
    /\ program = "single" => (Single!Proper => SingleInv)
    /\ program = "multiple" => (Multiple!Proper => MultInv)
    /\ program = "mutex" => MutexInv
    /\ program = "connect" => ConnectInv

LEMMA GivenLocks == SimpleGiven /\ SingleGiven /\ MultGiven /\ None \notin Nat
  BY ProgramsAssumption, ScenesAssumption, GivenServices, NoneAssumption DEF SimpleGiven, SingleGiven

LEMMA LockInit == Init => LockInv
<1>1. None \notin {0, 1}
  BY GivenLocks
<1>. QED
  BY <1>1, OneInit, GivenLocks, SimpleInit, SingleInit, MultInit, MutexInit, ConnectInit DEF LockInv

LEMMA LockStep ==
    ASSUME LockInv, [Next]_vars
    PROVE  LockInv'
<1>1. program' = program
  BY OneProgram
<1>2. program = "simple" => SimpleInv'
  BY OneProgram, GivenLocks, SimpleStep DEF LockInv
<1>3. program = "single" => (Single!Proper' => SingleInv')
  BY OneProgram, GivenLocks, SingleStep DEF LockInv
<1>4. program = "multiple" => (Multiple!Proper' => MultInv')
  BY OneProgram, GivenLocks, MultStep DEF LockInv
<1>5. program = "mutex" => MutexInv'
  BY OneProgram, GivenLocks, MutexStep DEF LockInv
<1>6. program = "connect" => ConnectInv'
  <2>1. None \notin {0, 1}
    BY GivenLocks
  <2>. QED
    BY <2>1, OneProgram, ConnectStep DEF LockInv
<1>. QED
  BY <1>1, <1>2, <1>3, <1>4, <1>5, <1>6 DEF LockInv

\* What the set of a program holds and what its processes have taken is together
\* what SETVAL put in, ten units or one (simple-init.c, shmserver.c), one token
\* among the three semaphores of shm-sem-server.c, the one unit of connect.c:
\* no process gives back what it has not taken, none is set to its units twice.
THEOREM AllUnitsKept == Spec => []UnitsKept
<1>1. LockInv => UnitsKept
  <2>1. program = "connect" /\ ConnectInv => Named!OneUnit
    BY DEF ConnectInv, Holders, Named!OneUnit, Named!Inside
  <2>. QED
    BY <2>1, GivenLocks, SimpleRight, SingleRight, MultRight DEF LockInv, UnitsKept
<1>2. LockInv /\ [Next]_vars => LockInv'
  BY LockStep
<1>. QED
  BY <1>1, <1>2, LockInit, PTL DEF Spec

\* A writer is alone at the segment (simple-writer.c), so is who has the one unit
\* (shmserver.c, shmclient.c), the token (shm-sem-server.c) or the semaphore
\* (connect.c), and of two threads one is between lock and unlock, though the
\* first may be cancelled there (thread-mutex-cleanup.c).
THEOREM AllExclusion == Spec => []Exclusion
<1>1. LockInv => Exclusion
  <2>1. program = "connect" /\ ConnectInv => Named!Exclusion
    BY DEF ConnectInv, Holders, Named!Exclusion, Named!Inside
  <2>. QED
    BY <2>1, GivenLocks, SimpleRight, SingleRight, MultRight, MutexRight DEF LockInv, Exclusion
<1>2. LockInv /\ [Next]_vars => LockInv'
  BY LockStep
<1>. QED
  BY <1>1, <1>2, LockInit, PTL DEF Spec
=============================================================================
