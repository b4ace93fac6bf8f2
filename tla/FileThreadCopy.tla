--------------------------- MODULE FileThreadCopy ---------------------------
(***************************************************************************)
(* templates/file-thread-copy/thread_copy.c: a producer thread reads the   *)
(* source file into a buffer, a consumer thread writes the buffer to the   *)
(* destination. One mutex guards the buffer, one condition variable serves *)
(* both directions, and the flag full tells whose turn it is.              *)
(*                                                                         *)
(* What a thread does between two operations on the mutex is one step; the *)
(* consumer's pthread_cond_signal comes after its unlock and is a step of  *)
(* its own. pthread functions do not fail (prerror is left out).           *)
(***************************************************************************)
EXTENDS Integers, Sequences

CONSTANTS Source,      \* the bytes of the source file
          BUF_SIZE,    \* the size of the buffer (1024 in the code)
          Faults       \* "read": reading may fail; "write": writing may fail

ASSUME CopyAssumption ==
    /\ Source \in Seq(Nat)
    /\ BUF_SIZE \in Nat \ {0}
    /\ Faults \subseteq {"read", "write"}

VARIABLES
    main,        \* main: opening the files, joining, the end
    pc,          \* where each thread is
    mutex,       \* who holds buffer_mutex
    asleep,      \* the threads sleeping on buffer_cond
    full,        \* buffer.full
    buf,         \* the valid bytes of the buffer
    nbytes,      \* buffer.nbytes: their number, or -1 after a failed read
    written,     \* the consumer's last result of write()
    pos,         \* the bytes read from the source
    dest,        \* the destination file
    shortWrites  \* chosen once: write() may write less than it was given

moving == <<main, pc, mutex, asleep, full, buf, nbytes, written, pos, dest>>
vars == <<moving, shortWrites>>

erzeuger == "erzeuger"            \* the producer
verbraucher == "verbraucher"      \* the consumer
Threads == {erzeuger, verbraucher}
Nobody == "nobody"

TypeOK ==
    /\ main \in {"open", "ask", "join1", "join2", "success", "refused"}
    /\ pc \in [Threads -> {"new", "lock", "test", "wait", "work", "signal", "end"}]
    /\ mutex \in Threads \cup {Nobody}
    /\ asleep \in SUBSET Threads
    /\ full \in BOOLEAN
    /\ buf \in Seq(Nat)
    /\ nbytes \in -1..BUF_SIZE /\ written \in -1..BUF_SIZE
    /\ pos \in 0..Len(Source)
    /\ dest \in Seq(Nat)
    /\ shortWrites \in BOOLEAN

Init ==
    /\ main = "open"
    /\ pc = [t \in Threads |-> "new"]
    /\ mutex = Nobody /\ asleep = {}
    /\ full = FALSE /\ buf = <<>> /\ nbytes = 0
    /\ written = 0 /\ pos = 0 /\ dest = <<>>
    /\ shortWrites \in BOOLEAN

bufferVars == <<mutex, asleep, full, buf, nbytes>>
fileVars == <<written, pos, dest>>

StartThreads == main' = "join1" /\ pc' = [t \in Threads |-> "lock"]

\* open(..., O_EXCL): an existing destination is overwritten only after a "y".
\* Without a source file, or when opening fails after the "y", main gives up.
OpenFiles ==
    /\ main = "open"
    /\ \/ main' \in {"refused", "ask"} /\ UNCHANGED pc
       \/ StartThreads
    /\ UNCHANGED <<bufferVars, fileVars>>

Answer ==
    /\ main = "ask"
    /\ StartThreads \/ (main' = "refused" /\ UNCHANGED pc)
    /\ UNCHANGED <<bufferVars, fileVars>>

Join ==
    /\ \/ main = "join1" /\ pc[erzeuger] = "end" /\ main' = "join2"
       \/ main = "join2" /\ pc[verbraucher] = "end" /\ main' = "success"
    /\ UNCHANGED <<pc, bufferVars, fileVars>>

Go(t, from, to) == pc[t] = from /\ pc' = [pc EXCEPT ![t] = to]

\* pthread_mutex_lock, at the top of both loops and on the way out of
\* pthread_cond_wait.
Lock(t) ==
    /\ mutex = Nobody
    /\ Go(t, "lock", "test") \/ (t \notin asleep /\ Go(t, "wait", "test"))
    /\ mutex' = t
    /\ UNCHANGED <<main, asleep, full, buf, nbytes, fileVars>>

\* Slips: the producer, or the consumer, does not look at full.
MyTurnProducer(t) == t = erzeuger \/ full
MyTurnConsumer(t) == t = verbraucher \/ ~full

\* The loop around pthread_cond_wait, which unlocks and falls asleep at once.
MyTurn(t) == full = (t = verbraucher)

Test(t) ==
    /\ mutex = t
    /\ \/ /\ MyTurn(t) /\ Go(t, "test", "work")
          /\ UNCHANGED <<mutex, asleep>>
       \/ /\ ~MyTurn(t) /\ Go(t, "test", "wait")
          /\ mutex' = Nobody
          /\ asleep' = asleep \cup {t}
    /\ UNCHANGED <<main, full, buf, nbytes, fileVars>>

\* A thread may return from pthread_cond_wait without any signal.
SpuriousWakeup(t) ==
    /\ t \in asleep
    /\ asleep' = asleep \ {t}
    /\ UNCHANGED <<main, pc, mutex, full, buf, nbytes, fileVars>>

\* The producer: read(fdin), full = 1, signal, unlock; after the end of the
\* file, or an error, the thread ends, and the 0 or -1 is left in the buffer.
AtMost(a, b) == IF a <= b THEN a ELSE b
\* A slip: read() is given more than the buffer holds.
AvailableAll == Len(Source) - pos
Available == AtMost(BUF_SIZE, Len(Source) - pos)

\* A slip: no pthread_cond_signal.
FillSilent ==
    /\ mutex = erzeuger
    /\ nbytes' = Available
    /\ buf' = SubSeq(Source, pos + 1, pos + Available)
    /\ pos' = pos + Available
    /\ Go(erzeuger, "work", IF nbytes' > 0 THEN "lock" ELSE "end")
    /\ full' = TRUE
    /\ mutex' = Nobody
    /\ UNCHANGED <<main, asleep, written, dest>>

Fill ==
    /\ mutex = erzeuger
    /\ \/ /\ nbytes' = Available
          /\ buf' = SubSeq(Source, pos + 1, pos + Available)
          /\ pos' = pos + Available
       \/ /\ "read" \in Faults
          /\ nbytes' = -1 /\ buf' = <<>> /\ UNCHANGED pos
    /\ Go(erzeuger, "work", IF nbytes' > 0 THEN "lock" ELSE "end")
    /\ full' = TRUE
    /\ asleep' = {}
    /\ mutex' = Nobody
    /\ UNCHANGED <<main, written, dest>>

\* The consumer: write(fdout, buf, nbytes), full = 0, unlock. Writing -1 bytes
\* fails, as writing may.
Drain ==
    /\ mutex = verbraucher
    /\ \/ written' = nbytes
       \/ shortWrites /\ written' \in 1..(nbytes - 1)
       \/ "write" \in Faults /\ written' = -1
    /\ dest' = dest \o SubSeq(buf, 1, written')
    /\ Go(verbraucher, "work", "signal")
    /\ full' = FALSE
    /\ mutex' = Nobody
    /\ UNCHANGED <<main, asleep, buf, nbytes, pos>>

\* A slip: no signal.
SignalSilent ==
    /\ Go(verbraucher, "signal", IF written > 0 THEN "lock" ELSE "end")
    /\ UNCHANGED <<main, mutex, asleep, full, buf, nbytes, fileVars>>

\* ... and only now the signal, and the end of the loop.
Signal ==
    /\ Go(verbraucher, "signal", IF written > 0 THEN "lock" ELSE "end")
    /\ asleep' = {}
    /\ UNCHANGED <<main, mutex, full, buf, nbytes, fileVars>>

Step ==
    \/ OpenFiles \/ Answer \/ Join \/ Fill \/ Drain \/ Signal
    \/ \E t \in Threads : Lock(t) \/ Test(t) \/ SpuriousWakeup(t)

Next == Step /\ UNCHANGED shortWrites

Spec == Init /\ [][Next]_vars

\* Every thread runs; a thread that finds the mutex free again and again gets
\* it. The user need not answer, and no thread has to wake without a signal.
Fairness ==
    /\ WF_moving(OpenFiles) /\ WF_moving(Join) /\ WF_moving(Fill) /\ WF_moving(Drain)
    /\ WF_moving(Signal)
    /\ \A t \in Threads : SF_moving(Lock(t)) /\ WF_moving(Test(t))

FairSpec == Spec /\ Fairness
-----------------------------------------------------------------------------
Prefix(n) == SubSeq(Source, 1, n)

\* Whoever looks at the buffer holds the mutex, and nobody else does
\* (thread_copy.c: both loops, and pthread_cond_wait giving it back).
Exclusive == \A t \in Threads : pc[t] \in {"test", "work"} => mutex = t

\* What is in the destination, followed by what is in the buffer, is exactly
\* what has been read: no block is lost, doubled or overtaken, until writing
\* fails. A short write loses the rest of its block: the consumer compares the
\* result of write() with 0 only.
NothingLost ==
    ~shortWrites /\ written >= 0 =>
        dest \o (IF full THEN buf ELSE <<>>) = Prefix(pos)

\* Also when reading or writing fails, the destination is a beginning of the
\* source: the consumer stops at the first error.
DestIsPrefix ==
    ~shortWrites => Len(dest) <= Len(Source) /\ dest = Prefix(Len(dest))

\* The inductive invariant behind them: a thread works only on its turn and
\* under the mutex, and the consumer, which does not run before main has opened
\* the files, stops after a failed write.
CopyInv ==
    /\ TypeOK
    /\ Exclusive
    /\ \A t \in Threads : pc[t] = "work" => MyTurn(t)
    /\ Len(buf) = IF nbytes = -1 THEN 0 ELSE nbytes
    /\ main \in {"open", "ask", "refused"} => pc[verbraucher] = "new"
    /\ written = -1 => pc[verbraucher] \in {"signal", "end"}
    /\ NothingLost
    /\ DestIsPrefix

\* The one condition variable never leaves both threads asleep.
NotBothAsleep == asleep # Threads

\* Without short writes the program copies block by block (with them, nothing
\* is claimed).
CopySpec == INSTANCE Copy WITH Chunk <- BUF_SIZE,
                               copied <- IF shortWrites THEN <<>> ELSE dest
CopiesInOrder == CopySpec!Spec

\* After a failing write the consumer is gone and the producer waits for it:
\* pthread_join hangs.
Stranded == pc[verbraucher] = "end" /\ written = -1 /\ full

\* Nothing else can keep the program from ending, and when nothing failed the
\* whole file has arrived by then.
Finishes ==
    main = "join1" ~>
        \/ Stranded
        \/ /\ main = "success"
           /\ ~shortWrites /\ nbytes # -1 /\ written # -1 => dest = Source
=============================================================================
