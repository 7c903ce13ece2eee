\* Two worktrees, one script at a time in each, memory committed.
SPECIFICATION Spec
CONSTANTS
    case = case
    caseLaw = caseLaw
    Slug = {case, caseLaw}
    Matter = {m1}
    PrefixOf <- MCPrefixOf
    LastSecond = 0
    Day = {1, 2}
    DayOf <- MCDayOf
    Proc = {p1, p2}
    Worktree = {root, side}
    Root = root
    Mode = "local-git"
    Exclusive = TRUE
    MaxLaunches = 5
    MaxFaults = 0
CHECK_DEADLOCK FALSE
INVARIANTS
    OpenIsListed
PROPERTIES
    NewWorktreeComplete
    OwnBranchesApart
