\* One command at a time; the user edits at any moment.
CONSTANTS
    Paths = {1, 2}
    IDEs = {1, 2}
    Commands = {c1}
    Releases = {1, 2}
    Payload <- ChangeAndRemove
    UserContents <- OwnText
    Absent = "none"
    Torn = "torn"
SPECIFICATION Spec
INVARIANTS
    LockOnlyClaimsHeld
    RetryIsClean
PROPERTIES
    UserWorkKept
    LockRecordsInstalled
    KeepsPromise
    UpdateRendersSelection
    SelectionKept
