SPECIFICATION FairSpec
CONSTANTS
    Source <- FiveBytes
    BUF_SIZE = 2
    Faults <- ReadWrite
\* main returns, or waits in pthread_join for a stranded producer
CHECK_DEADLOCK FALSE
INVARIANTS TypeOK NothingLost NotBothAsleep
PROPERTIES CopiesInOrder Finishes
