\* Three failures and two edits of a draft, over any number of runs of the job
\* with two builds that differ in their bytes.
CONSTANTS
    Build = {b1, b2}
    Exclusive = TRUE
    MaxFaults = 3
    MaxEdits = 2
SPECIFICATION FairSpec
INVARIANTS
    TypeOK
    SuccessIsPublic
PROPERTIES
    ImplementsContract
    JobGoesOn
    EventuallyPublic
