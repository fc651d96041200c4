\* Three paths of five kinds, two results, four candidates: one more record
\* can match than there are candidates, one more path than results.
CONSTANTS
    P = 3
    Profiles <- SomeProfiles
    Links <- SomeLinks
    Plans <- SomePlans
    Limit = 2
    Candidates = 4
    Hits = 2
    Occurrences = 1
    RankScale = 12
    ScoreDivisor = 10
SPECIFICATION PlanSpec
INVARIANTS
    PlanTypeOK
    BetterComesFirst
    FiltersHold
    CompleteBelowLimits
