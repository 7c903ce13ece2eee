\* One script at a time in the only worktree, memory ignored by Git.
SPECIFICATION Spec
CONSTANTS
    case = case
    caseLaw = caseLaw
    Slug = {case, caseLaw}
    Matter = {m1}
    PrefixOf <- MCPrefixOf
    LastSecond = 2
    Day = {1, 2}
    DayOf <- MCDayOf
    Proc = {p1}
    Worktree = {root}
    Root = root
    Mode = "untracked"
    Exclusive = TRUE
    MaxLaunches = 5
    MaxFaults = 1
CHECK_DEADLOCK FALSE
INVARIANTS
    TypeOK
    OpenIsListed
    ListedIsOpen
    MattersExist
    AckedMatterStays
