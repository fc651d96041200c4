------------------------------ MODULE QueryPlan ------------------------------
(***************************************************************************)
(* A structured query (commands/query.go, repomap/fallback.go,             *)
(* repomap/retrieval.go): the records of the map that the plan allows are  *)
(* ranked by four channels and by the links between files, and fused by    *)
(* reciprocal rank; the lists of the full-text cache are fused, filtered   *)
(* and fused with them; and the hits of the exact search with all that.    *)
(* Every stage cuts what it passes on.                                     *)
(*                                                                         *)
(* What a record says is reduced to its scores for this plan.  Scores are  *)
(* integers: each fusion multiplies the unit of its inputs by Scale, and   *)
(* weights count twentieths.  Lists are put in order by counting what is   *)
(* ahead, since what SortSeq and SelectSeq do cannot be proved of.         *)
(***************************************************************************)
EXTENDS Naturals, Sequences, FiniteSets, FiniteSetsExt

CONSTANTS
    P,            \* the paths are 1..P, in their order
    Profiles,     \* what the map can say of a path: see ProfileAssumption
    Links,        \* records of imports.jsonl and tests.jsonl: see LinkAssumption
    Plans,        \* filters and depths of the plans: see PlanAssumption
    Limit,        \* of the plan
    Candidates,   \* candidateLimitForPlan(Limit)
    Hits,         \* bound on the rows of a full-text query
    Occurrences,  \* bound on the exact matches in a path
    RankScale,    \* a common multiple of all ranks
    ScoreDivisor  \* what a score counts against a rank: 1/1000 in the code

Paths == 1..P

ASSUME LimitAssumption ==
    /\ P \in Nat /\ Limit \in Nat \ {0} /\ Candidates \in Nat /\ Limit <= Candidates
    /\ Hits \in Nat /\ Occurrences \in Nat
    /\ ScoreDivisor \in Nat \ {0} /\ RankScale \in Nat \ {0}
    /\ \A i \in 1..P \union 1..Candidates : RankScale % i = 0

(* The language of a record is "" for a document. *)
ASSUME ProfileAssumption == \A f \in Profiles :
    /\ f.test \in BOOLEAN /\ f.hint \in Nat
    /\ Len(f.records) \in Nat /\ DOMAIN f.records = 1..Len(f.records)
    /\ \A i \in DOMAIN f.records :
         /\ {"shard", "language"} \subseteq DOMAIN f.records[i]
         /\ \A channel \in {"text", "phrase", "symbol"} : f.records[i][channel] \in Nat

(* Pairs of a path and the path it refers to, or tests. *)
ASSUME LinkAssumption == \A l \in Links :
    l.imports \subseteq Paths \X Paths /\ l.tests \subseteq Paths \X Paths

(* No shards, no languages: all of them.  A depth of 0 is normalised to 1. *)
ASSUME PlanAssumption == \A q \in Plans :
    DOMAIN q = {"shards", "languages", "noTests", "depth"} /\ q.depth \in 1..2

VARIABLES
    corpus,    \* the profile of each path: scores of its records for this plan
    links,
    plan,
    stage,     \* "fallback", "cache", "exact", "done" or "failed"
    fallback,  \* fallbackResults
    lists,     \* the rows the full-text cache gave for each query of the plan
    cached,    \* cacheResults, filtered
    exact,     \* the number of exact matches in each path
    answer
planVars == <<corpus, links, plan, stage, fallback, lists, cached, exact, answer>>

-----------------------------------------------------------------------------
(* Ranked lists. *)

Row(p, score) == [path |-> p, score |-> score]
PathsOf(rows) == {rows[i].path : i \in DOMAIN rows}

(* The elements of a set, each after those that are ahead of it. *)
InOrder(S, ahead) ==
    [i \in 1..Cardinality(S) |->
        CHOOSE x \in S : Cardinality({y \in S : <<y, x>> \in ahead}) = i - 1]

Cut(rows, limit) == IF Len(rows) <= limit THEN rows ELSE SubSeq(rows, 1, limit)

(* The rows at these places, in their order. *)
Select(rows, places) ==
    LET order == InOrder(places, {pair \in places \X places : pair[1] < pair[2]})
    IN [k \in 1..Cardinality(places) |-> rows[order[k]]]

(* What a ranking puts in order: a path, or one of its entries. *)
Found(p, place, score) == [path |-> p, place |-> place, score |-> score]

(* The higher score first; among equals the path that comes first. *)
Higher(a, b) ==
    \/ a.score > b.score
    \/ /\ a.score = b.score
       /\ a.path < b.path \/ (a.path = b.path /\ a.place < b.place)

Ranked(found) ==
    LET order == InOrder(found, {pair \in found \X found : Higher(pair[1], pair[2])})
    IN [i \in 1..Cardinality(found) |-> Row(order[i].path, order[i].score)]

(* The paths with a score, each once. *)
Scored(score) == {Found(p, 1, score[p]) : p \in {q \in Paths : score[q] > 0}}
RankedPaths(score) == Ranked(Scored(score))

(* The sum of f[1] to f[n]. *)
Total(n, f) ==
    LET sum[i \in 0..n] == IF i = 0 THEN 0 ELSE sum[i - 1] + f[i]
    IN sum[n]

Scale == RankScale * ScoreDivisor
RowUnit == 20 * Scale         \* of the rows of the fallback and of the cache
MapUnit == RowUnit * Scale    \* of the rows of the two together

(* One over the rank, and a little of the score. *)
Contribution(row, rank, weight, unit) ==
    weight * ((unit * Scale) \div rank + RankScale * row.score)

(* A bug: a path counts as often as it is in the list. *)
GainOfEach(list, p, unit) ==
    Total(Len(list.rows), [i \in DOMAIN list.rows |->
        IF list.rows[i].path = p THEN Contribution(list.rows[i], i, list.weight, unit) ELSE 0])

FirstRank(rows, p) == Min({i \in DOMAIN rows : rows[i].path = p})

(* A path counts once in a list, at its first rank. *)
Gain(list, p, unit) ==
    IF p \notin PathsOf(list.rows) THEN 0
    ELSE LET rank == FirstRank(list.rows, p)
         IN Contribution(list.rows[rank], rank, list.weight, unit)

FusedScore(unit, rankings) == [p \in Paths |->
    Total(Len(rankings), [i \in 1..Len(rankings) |-> Gain(rankings[i], p, unit)])]

(* A bug: all that was fused is passed on. *)
FuseUncut(limit, unit, rankings) == RankedPaths(FusedScore(unit, rankings))

(* fuseRankedLists; fuseCacheFallbackPlanResults with its own weights. *)
Fuse(limit, unit, rankings) == Cut(RankedPaths(FusedScore(unit, rankings)), limit)

-----------------------------------------------------------------------------
(* The JSONL fallback. *)

InPlan(p, r) == plan.shards = {} \/ r.shard \in plan.shards

(* planAllowsEntry and queryPlanAllowsRecord. *)
Allows(p, r) ==
    /\ plan.noTests => ~corpus[p].test
    /\ plan.languages # {} /\ r.language # "" => r.language \in plan.languages

(* The records of a path that the plan looks at, by their places. *)
EntriesOf(p) ==
    {i \in DOMAIN corpus[p].records :
        InPlan(p, corpus[p].records[i]) /\ Allows(p, corpus[p].records[i])}

AllowedPaths == {p \in Paths : EntriesOf(p) # {}}

Score(p, i, channel) == corpus[p].records[i][channel]

Entries(channel) ==
    UNION {{Found(p, i, Score(p, i, channel)) :
              i \in {j \in EntriesOf(p) : Score(p, j, channel) > 0}} : p \in Paths}

(* Text and phrases: a row for every entry that matches. *)
EntryRows(channel) == Cut(Ranked(Entries(channel)), Candidates)

(* Paths and symbols: a row for every path, with its best score. *)
Best(channel) == [p \in Paths |->
    Max({0} \union {Score(p, i, channel) : i \in EntriesOf(p)})]

Hint == [p \in Paths |-> IF p \in AllowedPaths THEN corpus[p].hint ELSE 0]

Weighted(weight, rows) == [weight |-> weight, rows |-> rows]

Channels ==
    <<Weighted(20, EntryRows("text")),
      Weighted(25, EntryRows("phrase")),
      Weighted(35, Cut(RankedPaths(Hint), Candidates)),
      Weighted(40, Cut(RankedPaths(Best("symbol")), Candidates))>>

(* An import leads on to files of the entries only; back to the importing  *)
(* file, and along test links, to any.                                     *)
Neighbours(frontier) ==
    {p \in Paths : \E s \in frontier :
        \/ <<s, p>> \in links.imports /\ p \in AllowedPaths
        \/ <<p, s>> \in links.imports
        \/ <<s, p>> \in links.tests \/ <<p, s>> \in links.tests}

Related(seeds) ==
    LET near == Neighbours(seeds)
        reached == IF plan.depth = 1 THEN near ELSE near \union Neighbours(near)
        found == (reached \intersect AllowedPaths) \ seeds
    IN IF seeds = {} THEN <<>>
       ELSE Cut(RankedPaths([p \in Paths |-> IF p \in found THEN 1 ELSE 0]), Candidates)

FallbackResults ==
    LET seeds == PathsOf(Fuse(Candidates, 1, Channels))
    IN Fuse(Limit, 1, Append(Channels, Weighted(7, Related(seeds))))

-----------------------------------------------------------------------------
(* The cache and the exact search. *)

(* A full-text query gives distinct paths that have a record; its scores   *)
(* are negative, and count for nothing.                                    *)
Recorded == {p \in Paths : Len(corpus[p].records) > 0}
FullTextLists ==
    UNION {{rows \in [1..n -> Recorded] : IsInjective(rows)} :
              n \in {m \in 0..Hits : m <= Cardinality(Recorded)}}
Unscored(list) == [i \in 1..Len(list) |-> Row(list[i], 0)]

(* The cache is asked without the shards of the plan. *)
EngineResults(rankings) ==
    Fuse(Limit, 1, [i \in 1..Len(rankings) |-> Weighted(20, Unscored(rankings[i]))])

(* A bug: documents have no language, so languages need no filter. *)
NeedsShardFilter == plan.shards # {} \/ plan.noTests

CachePlanNeedsRecordFilter == plan.shards # {} \/ plan.languages # {} \/ plan.noTests

Filtered(rows) ==
    IF CachePlanNeedsRecordFilter
    THEN Select(rows, {i \in DOMAIN rows : rows[i].path \in AllowedPaths})
    ELSE rows

Rescaled(rows, factor) == [i \in 1..Len(rows) |-> Row(rows[i].path, rows[i].score * factor)]

(* A bug: the fallback only stands in for a cache without results. *)
CacheElseFallback(rows) == Rescaled(IF rows = <<>> THEN fallback ELSE rows, Scale)

FuseCacheFallback(rows) ==
    IF rows = <<>> THEN Rescaled(fallback, Scale)
    ELSE Fuse(Limit, RowUnit, <<Weighted(1, rows), Weighted(2, fallback)>>)

ExactResults(counts) == Rescaled(RankedPaths(counts), MapUnit)

Augment(counts) ==
    IF ExactResults(counts) = <<>> THEN answer
    ELSE Fuse(Limit, MapUnit, <<Weighted(1, answer), Weighted(2, ExactResults(counts))>>)

-----------------------------------------------------------------------------
(* The query. *)

None == [p \in Paths |-> 0]

PlanInit ==
    /\ corpus \in [Paths -> Profiles]
    /\ links \in Links
    /\ plan \in Plans
    /\ stage = "fallback"
    /\ fallback = <<>> /\ lists = <<>> /\ cached = <<>>
    /\ exact = None
    /\ answer = <<>>

(* A shard cannot be read. *)
FailToRead ==
    /\ stage \in {"fallback", "cache"}
    /\ stage' = "failed"
    /\ UNCHANGED <<corpus, links, plan, fallback, lists, cached, exact, answer>>

QueryFallback ==
    /\ stage = "fallback"
    /\ fallback' = FallbackResults
    /\ stage' = "cache"
    /\ UNCHANGED <<corpus, links, plan, lists, cached, exact, answer>>

(* No cache, or one that fails, is the same as no rows. *)
QueryCache ==
    /\ stage = "cache"
    /\ lists' \in {<<a, b>> : a, b \in FullTextLists}
    /\ cached' = Filtered(EngineResults(lists'))
    /\ answer' = FuseCacheFallback(cached')
    /\ stage' = "exact"
    /\ UNCHANGED <<corpus, links, plan, fallback, exact>>

(* No exact search, or one that fails, is the same as no match.  It knows  *)
(* nothing of the map: it can find matches in files without a record.      *)
SearchExact ==
    /\ stage = "exact"
    /\ exact' \in [Paths -> 0..Occurrences]
    /\ answer' = Augment(exact')
    /\ stage' = "done"
    /\ UNCHANGED <<corpus, links, plan, fallback, lists, cached>>

Stay == stage \in {"done", "failed"} /\ UNCHANGED planVars

PlanNext == FailToRead \/ QueryFallback \/ QueryCache \/ SearchExact \/ Stay

PlanSpec == PlanInit /\ [][PlanNext]_planVars

-----------------------------------------------------------------------------
(* Properties. *)

PlanTypeOK ==
    /\ corpus \in [Paths -> Profiles]
    /\ links \in Links
    /\ plan \in Plans
    /\ stage \in {"fallback", "cache", "exact", "done", "failed"}
    /\ \A rows \in {fallback, cached, answer} :
         /\ Len(rows) <= Limit
         /\ \A i \in DOMAIN rows : rows[i].path \in Paths /\ rows[i].score \in Nat \ {0}
    /\ exact \in [Paths -> 0..Occurrences]

Position(p) == FirstRank(answer, p)

(* p is before q in a list ordered by these scores, or q is not in it. *)
Before(p, q, score) ==
    score[q] = 0 \/ score[p] > score[q] \/ (score[p] = score[q] /\ p < q)

Precedes(list, p, q) ==
    \A j \in DOMAIN list : list[j] = q => \E i \in 1..(j - 1) : list[i] = p

Linked(p) == \E link \in links.imports \union links.tests : p \in {link[1], link[2]}

(* p is the better answer whatever one asks, and links do not help q. *)
Dominates(p, q) ==
    /\ p \in AllowedPaths
    /\ ~Linked(q)
    /\ \A channel \in {"text", "phrase", "symbol"} : Before(p, q, Best(channel))
    /\ Before(p, q, Hint)
    /\ \A i \in DOMAIN lists : Precedes(lists[i], p, q)
    /\ Before(p, q, exact)

(* No stage turns the order around: neither the number of records a path   *)
(* has, nor what is cut off, nor the weights put a path before one that is *)
(* better in every channel (retrieval.go:33-37, 64, 79; query.go:515).     *)
BetterComesFirst ==
    stage = "done" =>
        \A p, q \in Paths :
            p # q /\ Dominates(p, q) /\ q \in PathsOf(answer) =>
                p \in PathsOf(answer) /\ Position(p) < Position(q)

(* What the plan excludes is in no answer of the map, through whichever of *)
(* fallback, links and cache it is found; only the exact search does not   *)
(* look at the plan's filters (query.go:329-335, fallback.go:376).         *)
FiltersHold ==
    \A p \in PathsOf(fallback) \union PathsOf(cached) \union PathsOf(answer) :
        p \in AllowedPaths \/ exact[p] > 0

Direct(p) ==
    Hint[p] > 0 \/ \E channel \in {"text", "phrase", "symbol"} : Best(channel)[p] > 0

(* Where nothing has to be cut, nothing is lost: with no more matching     *)
(* records than candidates, and no more paths than the limit, every path   *)
(* that matches the plan, or exactly, is in the answer, whatever the cache *)
(* says or fails to say (query.go:329-333; retrieval.go:64).               *)
CompleteBelowLimits ==
    /\ stage = "done"
    /\ Cardinality(Entries("text")) <= Candidates
    /\ Cardinality(Entries("phrase")) <= Candidates
    /\ Cardinality({p \in Paths : Direct(p) \/ Linked(p) \/ exact[p] > 0
                                  \/ p \in PathsOf(cached)}) <= Limit
    => {p \in Paths : Direct(p) \/ exact[p] > 0} \subseteq PathsOf(answer)
=============================================================================
