SPECIFICATION FairSpec
CONSTANTS
    c1 = c1
    c2 = c2
    f1 = f1
    f2 = f2
    Clients <- MCClients
    Files <- MCFiles
    Scenes <- MCScenes
\* the server waits for the next client when all have ended
CHECK_DEADLOCK FALSE
INVARIANTS FilesFaithful NoMixing CopiedUnlessRefused NothingLeaks PathFollowsServer
PROPERTY Served
