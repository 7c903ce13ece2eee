\* A run that dies between its commit and its configuration.
SPECIFICATION Spec
CONSTANTS
    Proc = {p1}
    Version = {v1}
    Exclusive = TRUE
    MaxLaunches = 2
    MaxFaults = 1
    MaxMisreads = 0
    MaxExtracts = 0
    MaxCommits = 0
CHECK_DEADLOCK FALSE
INVARIANTS
    RefusalIsTruthful
