\* Two upgrades of one destination, two releases, the assets of which may be
\* uploaded twice.
CONSTANTS
    Commands = {c1, c2}
    MaxRelease = 2
    MaxBuild = 2
    Absent = absent
    Torn = torn
SYMMETRY SameCommands
SPECIFICATION Spec
INVARIANTS
    Recoverable
    DestinationSettled
PROPERTIES
    InstalledIsPublished
