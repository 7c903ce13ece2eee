\* Two sessions of one second with the same slug.
SPECIFICATION Spec
CONSTANTS
    case = case
    caseLaw = caseLaw
    Slug = {case}
    Matter = {m1}
    PrefixOf <- MCPrefixOf
    LastSecond = 0
    Day = {1, 2}
    DayOf <- MCDayOf
    Proc = {p1}
    Worktree = {root}
    Root = root
    Mode = "untracked"
    Exclusive = TRUE
    MaxLaunches = 3
    MaxFaults = 0
CHECK_DEADLOCK FALSE
INVARIANTS
    OneNotePerSession
