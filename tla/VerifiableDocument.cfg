\* Ingests, edits, builds and failures of one document with its sources.
SPECIFICATION Spec
CONSTANTS
    act = act
    old = old
    new = new
    wage = wage
    term = term
    Files = {act}
    Contents = {old, new}
    Text = {wage, term}
    TextOf <- MCTextOf
    ClaimIds = {"C-001"}
    Absent = Absent
    Partial = Partial
    Unread = Unread
    Pdfs = {act}
    Outlines <- MCOutlines
    Formats <- MCFormats
    Schema = FALSE
    MaxSources = 2
    MaxIngests = 1
    MaxEdits = 1
    MaxRuns = 2
    MaxWrites = 3
CHECK_DEADLOCK FALSE
INVARIANTS
    TypeOK
    OutputIsSound
    CitedIsInSource
    PassedIsCurrent
