------------------------------- MODULE RepoMap -------------------------------
(***************************************************************************)
(* The repository map: `aidlc map` scans the files under the saved         *)
(* whitelist, rewrites the JSONL shards one after the other and then       *)
(* index.json, and rebuilds the SQLite cache from the shards, a failure of *)
(* which it only reports.  `aidlc map --check` compares index.json with    *)
(* the files.  `aidlc query` reads the cache, the shards or both, while a  *)
(* map may be running.  A map may fail or be killed at any step.           *)
(*                                                                         *)
(* A content hash is the content.  A record is a file with its content.  A *)
(* query is what it matches: the shards' records by any of its words, a    *)
(* part of a word included, the cache's by all of its words, whole; neither*)
(* contains the other.  Ranks, snippets and limits are left out: a result  *)
(* is a set of paths.  One map and one query run at a time; the query      *)
(* changes nothing, so it stands for all.                                  *)
(***************************************************************************)
EXTENDS Naturals

CONSTANTS
    Files,              \* numbers in the order of their paths
    FolderOf, RootDir,  \* the top folder of a file, RootDir for root files
    Contents,
    Includes,           \* the whitelists a user may save: sets of folders
    Shards,             \* numbers in the order WriteShards has them
    Indexed,            \* Indexed[s]: the files with a record in shard s
    Relations,          \* imports.jsonl and tests.jsonl
    Queries,            \* what they match in the shards, and in the cache
    Absent, Torn,       \* no file; a file truncated and not yet written
    MaxEdits, MaxMaps   \* bounds on the edits and the map commands

ASSUME FilesAssumption == Files \subseteq Nat /\ FolderOf \in [Files -> STRING]
ASSUME ShardsAssumption ==      \* files.jsonl has them all
    Shards \subseteq Nat /\ Indexed \in [Shards -> SUBSET Files] /\ \E s \in Shards : Indexed[s] = Files
ASSUME RelationsAssumption == Relations \subseteq Shards
ASSUME QueriesAssumption ==
    Queries \subseteq [any : SUBSET (Shards \X Files \X Contents), all : SUBSET (Shards \X Files \X Contents)]
ASSUME AbsentAssumption == Absent \notin Contents \union Includes /\ Absent # Torn
ASSUME BoundAssumption == MaxEdits \in Nat /\ MaxMaps \in Nat

Scans == [Files -> Contents \union {Absent}]
Records == Files \X Contents
Entries == Shards \X Files \X Contents
ShardFiles == [records : SUBSET Records, cut : BOOLEAN]
Indexes == [include : Includes, files : Scans]

ASSUME ArtifactAssumption ==
    /\ Absent \notin Indexes \union ShardFiles /\ Torn \notin Indexes
    /\ \A table \in SUBSET Entries : table # Absent

MapPhases == {"idle", "scanning", "opening", "writing", "indexing", "truncated",
              "probing", "dropping", "creating", "loading", "inserting"}
QueryPhases == {"primary", "fallback", "related", "channel", "done"}
Modes == {"text", "shard", "plan", "filtered"}

VARIABLES
    tree,       \* the repository's files
    saved,      \* workspace.map.include of the lock
    shard,      \* docs/map/*.jsonl; cut: the last record is incomplete
    index,      \* docs/map/index.json
    db,         \* docs/map/repo-map.sqlite and its table repo_map_fts
    map, query, \* the running commands
    outcome,    \* how far the last map to open a shard came (for properties)
    edits, maps \* how many there were

artifacts == <<shard, index, db>>
bounds == <<edits, maps>>
vars == <<tree, saved, artifacts, map, query, outcome, bounds>>

MapStates ==
    [phase : MapPhases, include : Includes \union {Absent}, scan : Scans,
     at : Shards \union {0}, entries : SUBSET Entries]

(* cached: the query also reads the database; todo: the shards still to    *)
(* read; seen: the files with a record in those it read; calm: no shard    *)
(* has changed since it began; began: the outcome then.                    *)
QueryStates ==
    [phase : QueryPhases, mode : Modes, want : Queries \union {Absent}, cached : BOOLEAN,
     todo : SUBSET Shards, scope : SUBSET Shards, seen : SUBSET Files, found : SUBSET Files,
     failed : BOOLEAN, calm : BOOLEAN, began : {"none", "broken", "uncached", "built"}]

(* Every state is well typed: in particular a shard is only ever absent or *)
(* a set of whole records, with at most one cut short.                     *)
TypeOK ==
    /\ tree \in Scans
    /\ saved \in Includes \union {Absent}
    /\ shard \in [Shards -> ShardFiles \union {Absent}]
    /\ index \in Indexes \union {Absent, Torn}
    /\ db \in [exists : BOOLEAN, fts : {Absent} \union SUBSET Entries]
    /\ map \in MapStates
    /\ query \in QueryStates
    /\ outcome \in {"none", "broken", "uncached", "built"}
    /\ edits \in 0..MaxEdits /\ maps \in 0..MaxMaps

NoFiles == [f \in Files |-> Absent]

IdleMap == [phase |-> "idle", include |-> Absent, scan |-> NoFiles, at |-> 0, entries |-> {}]

NoQuery ==
    [phase |-> "done", mode |-> "text", want |-> Absent, cached |-> FALSE,
     todo |-> {}, scope |-> {}, seen |-> {}, found |-> {}, failed |-> FALSE, calm |-> FALSE,
     began |-> "none"]

Init ==
    /\ tree \in Scans
    /\ saved = Absent
    /\ shard = [s \in Shards |-> Absent]
    /\ index = Absent
    /\ db = [exists |-> FALSE, fts |-> Absent]
    /\ map = IdleMap
    /\ query = NoQuery
    /\ outcome = "none"
    /\ edits = 0 /\ maps = 0

-----------------------------------------------------------------------------
(* Scanning and freshness. *)

(* An empty whitelist filters nothing; root files are always in. *)
InScope(include, f) == include = {} \/ FolderOf[f] = RootDir \/ FolderOf[f] \in include

ScanDirWithOptions(files, include) ==
    [f \in Files |-> IF InScope(include, f) THEN files[f] ELSE Absent]

RecordsOf(scan, s) == {r \in Records : r[1] \in Indexed[s] /\ scan[r[1]] = r[2]}

(* Mutant of CheckStaleness: a file the index does not know is fresh. *)
StalenessIgnoresAdded ==
    LET current == ScanDirWithOptions(tree, saved)
    IN  IF saved = Absent \/ index = Torn THEN "unusable"
        ELSE IF index = Absent THEN "stale"
        ELSE IF \A f \in Files : index.files[f] \in {Absent, current[f]} THEN "fresh" ELSE "stale"

(* The verdict of `aidlc map --check`. *)
CheckStaleness ==
    LET current == ScanDirWithOptions(tree, saved)
        Added   == {f \in Files : current[f] # Absent /\ index.files[f] = Absent}
        Changed == {f \in Files : current[f] # Absent /\ index.files[f] \notin {Absent, current[f]}}
        Missing == {f \in Files : current[f] = Absent /\ index.files[f] # Absent}
    IN  IF saved = Absent THEN "unusable"
        ELSE IF index = Absent THEN "stale"
        ELSE IF index = Torn THEN "unusable"
        ELSE IF index.include = saved /\ Added = {} /\ Changed = {} /\ Missing = {}
             THEN "fresh" ELSE "stale"

-----------------------------------------------------------------------------
(* aidlc map *)

(* The whitelist is given (--include, or confirmed) and saved first, or    *)
(* the saved one is reused.                                                *)
StartMap ==
    /\ map.phase = "idle"
    /\ maps < MaxMaps
    /\ \E include \in Includes :
         /\ saved' = include
         /\ map' = [map EXCEPT !.phase = "scanning", !.include = include]
    /\ maps' = maps + 1
    /\ UNCHANGED <<tree, artifacts, query, outcome, edits>>

Scan ==
    /\ map.phase = "scanning"
    /\ \E first \in Shards :
         /\ \A s \in Shards : first <= s
         /\ map' = [map EXCEPT !.phase = "opening", !.at = first,
                               !.scan = ScanDirWithOptions(tree, map.include)]
    /\ UNCHANGED <<tree, saved, artifacts, query, outcome, bounds>>

(* A shard changes: a running query is no longer calm, and the answer of a *)
(* finished one is of the past.                                            *)
Disturb(q) == IF q.phase = "done" THEN NoQuery ELSE [q EXCEPT !.calm = FALSE]

(* os.Create truncates the shard. *)
CreateShard ==
    /\ map.phase = "opening"
    /\ shard' = [shard EXCEPT ![map.at] = [records |-> {}, cut |-> FALSE]]
    /\ map' = [map EXCEPT !.phase = "writing"]
    /\ outcome' = "broken"
    /\ query' = Disturb(query)
    /\ UNCHANGED <<tree, saved, index, db, bounds>>

Unwritten == RecordsOf(map.scan, map.at) \ shard[map.at].records

WriteRecord ==
    /\ map.phase = "writing"
    /\ \E r \in Unwritten :
         /\ \A other \in Unwritten : r[1] <= other[1]
         /\ shard' = [shard EXCEPT ![map.at].records = @ \union {r}]
    /\ query' = Disturb(query)
    /\ UNCHANGED <<tree, saved, index, db, map, outcome, bounds>>

(* Mutant of CloseShard: a shard that was not fully written ends the loop. *)
CloseAfterFirst ==
    /\ map.phase = "writing"
    /\ map' = [map EXCEPT !.phase = "indexing"]
    /\ UNCHANGED <<tree, saved, artifacts, query, outcome, bounds>>

CloseShard ==
    LET Later == {s \in Shards : s > map.at}
    IN  /\ map.phase = "writing"
        /\ Unwritten = {}
        /\ \/ /\ Later = {}
              /\ map' = [map EXCEPT !.phase = "indexing"]
           \/ \E next \in Later :
                /\ \A s \in Later : next <= s
                /\ map' = [map EXCEPT !.phase = "opening", !.at = next]
        /\ UNCHANGED <<tree, saved, artifacts, query, outcome, bounds>>

(* os.WriteFile truncates index.json in place, then writes it. *)
TruncateIndex ==
    /\ map.phase = "indexing"
    /\ index' = Torn
    /\ map' = [map EXCEPT !.phase = "truncated"]
    /\ UNCHANGED <<tree, saved, shard, db, query, outcome, bounds>>

WriteIndex ==
    /\ map.phase = "truncated"
    /\ index' = [include |-> map.include, files |-> map.scan]
    /\ outcome' = "uncached"
    /\ map' = [map EXCEPT !.phase = "probing"]
    /\ UNCHANGED <<tree, saved, shard, db, query, bounds>>

(* An error of any call before the cache is built, or a kill: the record   *)
(* being written may be cut short.                                         *)
Abort ==
    /\ map.phase \in {"scanning", "opening", "writing", "indexing", "truncated"}
    /\ \/ UNCHANGED <<shard, query>>
       \/ /\ map.phase = "writing" /\ Unwritten # {}
          /\ shard' = [shard EXCEPT ![map.at].cut = TRUE]
          /\ query' = Disturb(query)
    /\ map' = IdleMap
    /\ UNCHANGED <<tree, saved, index, db, outcome, bounds>>

-----------------------------------------------------------------------------
(* Builder.Build: each statement is a transaction of its own, except the   *)
(* probe, which is rolled back, and the inserts, which are one.            *)

ProbeFTS5 ==
    /\ map.phase = "probing"
    /\ db' = [db EXCEPT !.exists = TRUE]
    /\ map' = [map EXCEPT !.phase = "dropping"]
    /\ UNCHANGED <<tree, saved, shard, index, query, outcome, bounds>>

DropTables ==
    /\ map.phase = "dropping"
    /\ db' = [db EXCEPT !.fts = Absent]
    /\ map' = [map EXCEPT !.phase = "creating"]
    /\ UNCHANGED <<tree, saved, shard, index, query, outcome, bounds>>

CreateTables ==
    /\ map.phase = "creating"
    /\ db' = [db EXCEPT !.fts = {}]
    /\ map' = [map EXCEPT !.phase = "loading"]
    /\ UNCHANGED <<tree, saved, shard, index, query, outcome, bounds>>

(* Mutant of LoadEntries: files.jsonl is not loaded. *)
LoadLaterShards ==
    /\ map.phase = "loading"
    /\ map' = [map EXCEPT !.phase = "inserting",
                          !.entries = {e \in Entries : e[1] > 1 /\ shard[e[1]] # Absent
                                                       /\ <<e[2], e[3]>> \in shard[e[1]].records}]
    /\ UNCHANGED <<tree, saved, artifacts, query, outcome, bounds>>

LoadEntries ==
    /\ map.phase = "loading"
    /\ map' = [map EXCEPT !.phase = "inserting",
                          !.entries = {e \in Entries : shard[e[1]] # Absent
                                                       /\ <<e[2], e[3]>> \in shard[e[1]].records}]
    /\ UNCHANGED <<tree, saved, artifacts, query, outcome, bounds>>

(* Mutant of InsertEntries: every insert is a transaction of its own. *)
InsertSome ==
    /\ map.phase = "inserting"
    /\ \E some \in SUBSET map.entries :
         /\ db' = [db EXCEPT !.fts = @ \union some]
         /\ map' = IF some = map.entries THEN IdleMap ELSE map
         /\ outcome' = IF some = map.entries THEN "built" ELSE outcome
    /\ UNCHANGED <<tree, saved, shard, index, query, bounds>>

InsertEntries ==
    /\ map.phase = "inserting"
    /\ db' = [db EXCEPT !.fts = @ \union map.entries]
    /\ outcome' = "built"
    /\ map' = IdleMap
    /\ UNCHANGED <<tree, saved, shard, index, query, bounds>>

(* The build fails, which the map command survives, or the command is      *)
(* killed: what was committed stays.                                       *)
BuildFails ==
    /\ map.phase \in {"probing", "dropping", "creating", "loading", "inserting"}
    /\ map' = IdleMap
    /\ UNCHANGED <<tree, saved, artifacts, query, outcome, bounds>>

-----------------------------------------------------------------------------
(* aidlc query *)

(* FallbackQuerier.matchScore and the other channels: any word is enough.  *)
Hits(s, wanted) == {f \in Files : \E c \in Contents : <<s, f, c>> \in wanted /\ <<f, c>> \in shard[s].records}

Listed(s) == {f \in Files : \E c \in Contents : <<f, c>> \in shard[s].records}

(* What several shards have. *)
HitsOf(scope, wanted) == {f \in Files : \E s \in scope : shard[s] # Absent /\ f \in Hits(s, wanted)}
ListedIn(scope) == {f \in Files : \E s \in scope : shard[s] # Absent /\ f \in Listed(s)}

CacheHits(wanted) ==
    {f \in Files : \E s \in Shards, c \in Contents :
        db.fts # Absent /\ <<s, f, c>> \in wanted /\ <<s, f, c>> \in db.fts}

IsPlan(mode) == mode \in {"plan", "filtered"}

(* queryQuerier: with --shard the JSONL of one shard; otherwise the cache, *)
(* if there is a file, before (text) or beside (plan) the shards.          *)
StartQuery ==
    /\ query.phase = "done"
    /\ \E mode \in Modes, want \in Queries, scope \in {Shards} \union {{s} : s \in Shards} :
         /\ mode = "shard" => scope # Shards
         /\ mode \in {"text", "plan"} => scope = Shards
         /\ query' = [phase  |-> IF mode = "text" /\ db.exists THEN "primary" ELSE "fallback",
                      mode   |-> mode, want |-> want,
                      cached |-> db.exists /\ mode # "shard",
                      todo   |-> scope, scope |-> scope, seen |-> {}, found |-> {},
                      failed |-> FALSE, calm |-> TRUE, began |-> outcome]
    /\ UNCHANGED <<tree, saved, artifacts, map, outcome, bounds>>

(* Mutant of QueryCache: the answer of a usable cache is final, rows or none. *)
QueryCacheOnly ==
    /\ query.phase = "primary"
    /\ \/ /\ db.fts # Absent
          /\ query' = [query EXCEPT !.phase = "done", !.found = CacheHits(query.want.all)]
       \/ query' = [query EXCEPT !.phase = "fallback"]
    /\ UNCHANGED <<tree, saved, artifacts, map, outcome, bounds>>

(* cacheFallbackQuerier.Query: no table, a locked database or no rows send *)
(* the query to the shards.                                                *)
QueryCache ==
    /\ query.phase = "primary"
    /\ \/ /\ CacheHits(query.want.all) # {}
          /\ query' = [query EXCEPT !.phase = "done", !.found = CacheHits(query.want.all)]
       \/ query' = [query EXCEPT !.phase = "fallback"]
    /\ UNCHANGED <<tree, saved, artifacts, map, outcome, bounds>>

(* The least shard still to read: a missing one has no records, a cut one  *)
(* is an error of the query.                                               *)
CanRead(s, phase) ==
    /\ query.phase = phase
    /\ s \in query.todo /\ \A other \in query.todo : s <= other

Readable(s) == shard[s] # Absent => ~shard[s].cut

FailOn(s) ==
    /\ ~Readable(s)
    /\ query' = [query EXCEPT !.phase = "done", !.failed = TRUE]

ReadShard ==
    /\ \E s \in Shards :
         /\ CanRead(s, "fallback")
         /\ \/ FailOn(s)
            \/ /\ shard[s] = Absent
               /\ query' = [query EXCEPT !.todo = @ \ {s}]
            \/ /\ shard[s] # Absent /\ ~shard[s].cut
               /\ query' = [query EXCEPT !.todo = @ \ {s}, !.seen = @ \union Listed(s),
                                         !.found = @ \union Hits(s, query.want.any)]
    /\ UNCHANGED <<tree, saved, artifacts, map, outcome, bounds>>

AfterShards == IF query.cached /\ query.mode # "text" THEN "channel" ELSE "done"

(* A plan that found something goes on to relationshipMatches.             *)
EndFallback ==
    /\ query.phase = "fallback" /\ query.todo = {}
    /\ query' = IF IsPlan(query.mode) /\ query.found # {}
                THEN [query EXCEPT !.phase = "related", !.todo = Relations]
                ELSE [query EXCEPT !.phase = AfterShards]
    /\ UNCHANGED <<tree, saved, artifacts, map, outcome, bounds>>

(* The relationship shards are read again, whatever shards the plan names. *)
ReadRelated ==
    /\ \E s \in Shards :
         /\ CanRead(s, "related")
         /\ \/ FailOn(s)
            \/ /\ Readable(s)
               /\ query' = [query EXCEPT !.todo = @ \ {s}]
    /\ UNCHANGED <<tree, saved, artifacts, map, outcome, bounds>>

(* The links may add any of the files whose records the plan has read.     *)
EndRelated ==
    /\ query.phase = "related" /\ query.todo = {}
    /\ \E related \in SUBSET query.seen :
         query' = [query EXCEPT !.phase = AfterShards, !.found = @ \union related]
    /\ UNCHANGED <<tree, saved, artifacts, map, outcome, bounds>>

(* cacheFallbackQuerier.QueryPlan: what the cache finds is fused with what *)
(* the shards gave; its errors are ignored.  A plan that restricts the     *)
(* records keeps only the cached paths that the shards have now.           *)
QueryTextChannel ==
    LET Cached == CacheHits(query.want.all)
    IN  /\ query.phase = "channel"
        /\ \/ query' = [query EXCEPT !.phase = "done"]
           \/ /\ query.mode = "plan"
              /\ query' = [query EXCEPT !.phase = "done", !.found = @ \union Cached]
           \/ /\ query.mode = "filtered" /\ Cached # {}
              /\ \E s \in query.scope : FailOn(s)
           \/ /\ query.mode = "filtered" /\ Cached # {}
              /\ \A s \in query.scope : Readable(s)
              /\ query' = [query EXCEPT !.phase = "done",
                                        !.found = @ \union (Cached \intersect ListedIn(query.scope))]
        /\ UNCHANGED <<tree, saved, artifacts, map, outcome, bounds>>

-----------------------------------------------------------------------------
Edit ==
    /\ edits < MaxEdits
    /\ edits' = edits + 1
    /\ \E f \in Files, c \in Contents \union {Absent} :
         /\ c # tree[f]
         /\ tree' = [tree EXCEPT ![f] = c]
    /\ UNCHANGED <<saved, artifacts, map, query, outcome, maps>>

Next ==
    \/ StartMap \/ Scan \/ CreateShard \/ WriteRecord \/ CloseShard
    \/ TruncateIndex \/ WriteIndex \/ Abort
    \/ ProbeFTS5 \/ DropTables \/ CreateTables \/ LoadEntries \/ InsertEntries \/ BuildFails
    \/ StartQuery \/ QueryCache \/ ReadShard \/ EndFallback
    \/ ReadRelated \/ EndRelated \/ QueryTextChannel
    \/ Edit

Spec == Init /\ [][Next]_vars

-----------------------------------------------------------------------------
(* Properties. *)

Complete == outcome \in {"uncached", "built"}

(* Once a map has written its index, and until the next opens a shard, the *)
(* shards and the index are of one scan, whatever failed maps left before. *)
MapAgrees ==
    Complete => \A s \in Shards : shard[s] = [records |-> RecordsOf(index.files, s), cut |-> FALSE]

(* Then `map --check` says fresh exactly when a map run now would scan     *)
(* under the recorded whitelist and write what the shards have.            *)
CheckIsRight ==
    Complete =>
        (CheckStaleness = "fresh" <=>
            /\ index.include = saved
            /\ \A s \in Shards :
                 shard[s].records = RecordsOf(ScanDirWithOptions(tree, saved), s))

(* The cache never has a part of a map or a mixture of two: its table is   *)
(* missing, empty, or has the records of one scan in every shard.          *)
CacheWhole ==
    db.fts \in {Absent, {}} \/
        \E scan \in Scans : db.fts = {e \in Entries : <<e[2], e[3]>> \in RecordsOf(scan, e[1])}

(* What a query has to read: a plan that found something also needs the    *)
(* relationship shards.                                                    *)
Needed == query.scope \union
    IF IsPlan(query.mode) /\ HitsOf(query.scope, query.want.any) # {} THEN Relations ELSE {}

(* A query during which no shard changed answers if the shards it needs    *)
(* are whole, whatever state the cache is in and whatever a cache build    *)
(* does to it meanwhile: with --shard exactly what matches in the shard,   *)
(* with a plan at least all that matches, in the files of its shards if it *)
(* names some, and raw text never comes back empty when a shard matches.   *)
QueryComplete ==
    (/\ query.phase = "done" /\ query.calm
     /\ \A s \in Needed : Readable(s))
    =>
    LET there == HitsOf(query.scope, query.want.any)
    IN  /\ ~query.failed
        /\ query.mode = "shard" => query.found = there
        /\ IsPlan(query.mode) => there \subseteq query.found
        /\ query.mode = "filtered" => query.found \subseteq ListedIn(query.scope)
        /\ query.mode = "text" => (there # {} => query.found # {})

(* The records that a map run now would write. *)
Live == {e \in Entries : <<e[2], e[3]>> \in RecordsOf(ScanDirWithOptions(tree, saved), e[1])}

PathsOf(entries) == {f \in Files : \E s \in Shards, c \in Contents : <<s, f, c>> \in entries}

(* After a map that built the cache, and while `map --check` says fresh, a *)
(* query answers from the files as they are: raw text with exactly what    *)
(* the cache or what the shards match in them, a plan with all that the    *)
(* shards match and otherwise only with files that are still there.        *)
QueryCurrent ==
    (/\ query.phase = "done" /\ query.calm /\ query.began = "built"
     /\ CheckStaleness = "fresh")
    =>
    /\ ~query.failed
    /\ query.mode = "text" =>
         query.found \in {PathsOf(Live \intersect query.want.all), PathsOf(Live \intersect query.want.any)}
    /\ query.mode = "plan" =>
         /\ PathsOf(Live \intersect query.want.any) \subseteq query.found
         /\ query.found \subseteq PathsOf(Live)

(* `aidlc map --check` "prints `repo map: fresh` when the map is current". *)
FreshMeansCurrent ==
    (map.phase = "idle" /\ CheckStaleness = "fresh") =>
        \A s \in Shards : shard[s] = [records |-> RecordsOf(ScanDirWithOptions(tree, saved), s),
                                      cut |-> FALSE]
=============================================================================
