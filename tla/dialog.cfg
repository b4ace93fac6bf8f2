\* the 20 rounds of the code
SPECIFICATION FairDialog
CONSTANT Rounds = 20
\* a lost signal leaves both processes in pause()
CHECK_DEADLOCK FALSE
INVARIANTS TypeOK Alternation OneTurn
PROPERTY EndsUnlessLost
