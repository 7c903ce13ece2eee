\* Builds in both modes, one after another, with edits and failures.
SPECIFICATION Spec
CONSTANTS
    manifest = manifest
    requirements = requirements
    skills = skills
    Order <- MCOrder
    Requirements = requirements
    Absent = Absent
    Partial = Partial
    MaxLaunches = 3
    MaxEdits = 2
CHECK_DEADLOCK FALSE
INVARIANTS
    TypeOK
    SuccessIsTogether
    VouchedIsVerified
    ReproducibleIsSnapshot
