\* A file of the task, one that may be created, and one of a nested scope; four
\* steps of the user: enough to change, commit, check and review, and to do one
\* of them out of order.
CONSTANTS
    a = a
    b = b
    c = c
    x = x
    y = y
    Files = {a, b, c}
    Nested = {c}
    Contents = {x, y}
    Absent = absent
    Origin <- OneFile
    OwnedLists <- OneOrBoth
    AffectedLists = {{a}}
    MaxCommits = 2
    MaxChanges = 4
SPECIFICATION Spec
PROPERTIES
    EvidenceIsCurrent
    ChangesAreCovered
