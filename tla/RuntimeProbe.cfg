\* Five requests against a server that writes anything, in any order, ends or
\* stays, and ignores SIGTERM; deadlines of two ticks.
CONSTANTS
    Requests = 5
    Timeout = 2
    Grace = 1
    MaxLines = 1
    Status = {"clean", "dirty"}
SPECIFICATION FairSpec
INVARIANTS
    TypeOK
    FailureIsExplained
    AnswersAreOwn
    PassMeansUnchanged
    HomeOutlivesChild
PROPERTIES
    ChecksAreFinal
    ProbeGoesOn
    EverythingEnds
CHECK_DEADLOCK FALSE
