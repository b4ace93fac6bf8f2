\* three readers, two writers, any of them may be killed; one reader too many
\* for SEMVMX
SPECIFICATION FairUsers
CONSTANTS
    Readers = {r1, r2, r3}
    Writers = {w1, w2}
    Mortal = {r1, r2, r3, w1, w2}
    SEMVMX = 2
\* a program killed while it holds the lock blocks all the others for ever
CHECK_DEADLOCK FALSE
INVARIANTS UsersTypeOK SemsExact
PROPERTIES NoBarging Abstract AllServed
