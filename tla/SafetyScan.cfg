\* One scan of two paths and a remote that change meanwhile.
SPECIFICATION Spec
CONSTANTS
    note = note
    log = log
    lab = lab
    fork = fork
    Path = {note, log}
    Barred = {}
    NotPublic = {log}
    PolicyText = {note}
    Odd = {}
    Ignored = {log}
    Skipped = {log}
    Repo = {lab, fork}
    Own = {lab}
    Named = {lab, fork}
    Origins <- MCOrigins
    Entries <- MCEntries
    Hosts <- MCHosts
    Absent = Absent
    MaxChanges = 2
CHECK_DEADLOCK FALSE
INVARIANTS
    TypeOK
    SafeWasClean
    RemoteWasVerified
