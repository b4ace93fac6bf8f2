--------------------------- MODULE ReadersWriters ---------------------------
(***************************************************************************)
(* What a readers/writers lock promises, with no word about semaphores:    *)
(* any number of readers, or one writer and nobody else.                   *)
(* templates/semaphore-read-write/advanced-lock.c is shown to implement    *)
(* this specification (AdvancedLockUsers, theorem Implements).             *)
(***************************************************************************)
CONSTANTS Readers, Writers

VARIABLES reading,  \* the readers inside
          writing   \* the writers inside

rwVars == <<reading, writing>>

Init == reading = {} /\ writing = {}

BeginRead(r) ==
    /\ r \notin reading
    /\ writing = {}
    /\ reading' = reading \cup {r}
    /\ UNCHANGED writing

EndRead(r) ==
    /\ r \in reading
    /\ reading' = reading \ {r}
    /\ UNCHANGED writing

BeginWrite(w) ==
    /\ reading = {} /\ writing = {}
    /\ writing' = {w}
    /\ UNCHANGED reading

EndWrite(w) ==
    /\ w \in writing
    /\ writing' = writing \ {w}
    /\ UNCHANGED reading

Next == \/ \E r \in Readers : BeginRead(r) \/ EndRead(r)
        \/ \E w \in Writers : BeginWrite(w) \/ EndWrite(w)

Spec == Init /\ [][Next]_rwVars
=============================================================================
