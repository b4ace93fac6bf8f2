SPECIFICATION FairSpec
CONSTANTS
    f1 = f1
    f2 = f2
    o1 = o1
    w1 = w1
    w2 = w2
    First <- MCFirst
    Others <- MCOthers
    Writers <- MCWriters
    Mesg <- MCMesg
    Scenes <- MCScenes
    SEMVMX = 1
\* every program ends some time
CHECK_DEADLOCK FALSE
INVARIANTS Exclusion WholeLine Released
PROPERTY Stops
