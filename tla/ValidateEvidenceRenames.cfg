\* The same instance: staged and committed renames.
CONSTANTS
    a = a
    b = b
    c = c
    x = x
    y = y
    Files = {a, b, c}
    Nested = {c}
    Contents = {x, y}
    Absent = absent
    Origin <- OneFile
    OwnedLists <- OneOrBoth
    AffectedLists = {{a}}
    MaxCommits = 2
    MaxChanges = 4
SPECIFICATION Spec
PROPERTIES
    ChangedFilesStayInside
