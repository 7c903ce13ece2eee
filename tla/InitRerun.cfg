\* One run at a time, interrupted and launched again; one that misreads Git.
SPECIFICATION Spec
CONSTANTS
    Proc = {p1}
    Version = {v1, v2}
    Exclusive = TRUE
    MaxLaunches = 3
    MaxFaults = 2
    MaxMisreads = 1
    MaxExtracts = 1
    MaxCommits = 1
CHECK_DEADLOCK FALSE
SYMMETRY VersionSymmetry
INVARIANTS
    TypeOK
    ReportsAgree
    ReadyIsCommitted
    ModeMatchesHistory
PROPERTIES
    RecordedStays
