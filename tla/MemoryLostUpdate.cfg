\* Two sessions started at once in an untracked workspace, whose matter was made
\* before.
SPECIFICATION Spec
CONSTANTS
    case = case
    caseLaw = caseLaw
    Slug = {case, caseLaw}
    Matter = {m1}
    PrefixOf <- MCPrefixOf
    LastSecond = 0
    Day = {1, 2}
    DayOf <- MCDayOf
    Proc = {p1, p2}
    Worktree = {root}
    Root = root
    Mode = "untracked"
    Exclusive = FALSE
    MaxLaunches = 3
    MaxFaults = 0
CHECK_DEADLOCK FALSE
CONSTRAINT
    OnlyStartsOverlap
INVARIANTS
    OpenIsFound
