\* Two literals in two files: three results, five bytes of lines of two, and
\* a pipe of one, so that each limit is hit by either literal, and rg can
\* have more to write than the search reads and the pipe holds.
CONSTANTS
    Files = {"f", "g"}
    N = 2
    MaxLines = 2
    HeaderBytes = 1
    LineBytes = 2
    PipeBytes = 1
    MaxResults = 3
    MaxBytes = 5
    Hints = {"file", "folder", "missing", "escaping"}
    Covers <- FileAndFolder
    Missing = {"missing"}
    Escaping = {"escaping"}
    Root = "."
SPECIFICATION FairSpec
INVARIANTS
    WithinBudget
    ResultsAreMatches
    NoFileLostSilently
PROPERTIES
    SearchReturns
