\* Two branches with their specs and one without, one run that is killed or
\* does not learn that its push was accepted, and one run of the maintainer.
CONSTANTS
    Specs = {"s1", "s2"}
    Branches = {"b1", "b2", "b3"}
    SpecOf <- SpecOfFirstTwo
    NoSpec = "none"
    Main = "main"
    Local = "local"
    LocalArgs <- SomeArguments
    MaxKills = 1
    MaxLocalRuns = 1
VIEW UpToNumbers
SPECIFICATION Spec
INVARIANTS
    EntryAndStatusTogether
    RunsKeepToTheirSpec
    SuccessIsPublished
PROPERTIES
    KeepsLifecycle
CHECK_DEADLOCK FALSE
