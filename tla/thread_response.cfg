SPECIFICATION Spec
CONSTANTS
    c1 = c1
    c2 = c2
    f1 = f1
    f2 = f2
    Clients <- MCClients
    Files <- MCFiles
    Scenes <- MCScenesResponse
\* the server waits for the next client when all have ended
CHECK_DEADLOCK FALSE
INVARIANT SuccessMeansCopied
