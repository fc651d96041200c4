\* A skill of two files, one IDE with a native skill folder and one without.
CONSTANTS
    IDEs = {1, 2}
    Natives = {1}
    Files = {1, 2}
    Main = 1
    Versions = {1, 2}
    Tree <- DropFile
    UserContents = {"mine"}
    Absent = "none"
    Torn = "torn"
SPECIFICATION Spec
INVARIANTS
    RetryNotBlocked
PROPERTIES
    ManualEditsKept
    RecordsAccounted
    RemoveLeavesDiverged
    UpdateProjectsSkill
