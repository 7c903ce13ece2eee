\* Scripts run at once, in one worktree or two, memory committed.
SPECIFICATION Spec
CONSTANTS
    case = case
    caseLaw = caseLaw
    Slug = {case}
    Matter = {m1}
    PrefixOf <- MCPrefixOf
    LastSecond = 0
    Day = {1, 2}
    DayOf <- MCDayOf
    Proc = {p1, p2}
    Worktree = {root, side}
    Root = root
    Mode = "local-git"
    Exclusive = FALSE
    MaxLaunches = 3
    MaxFaults = 0
CHECK_DEADLOCK FALSE
SYMMETRY ProcSymmetry
INVARIANTS
    ListedHasNote
    HeadsDiffer
PROPERTIES
    BranchOnlyAdvances
