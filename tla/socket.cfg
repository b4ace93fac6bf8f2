SPECIFICATION FairSpec
CONSTANTS
    c1 = c1
    c2 = c2
    c3 = c3
    f1 = f1
    f2 = f2
    Clients <- MCClients
    Files <- MCFiles
    Scenes <- MCScenes
    Backlog = 1
\* the server waits for the next client when all have ended
CHECK_DEADLOCK FALSE
INVARIANTS OneClientPerFile DoneMeansCopied
PROPERTIES Served
