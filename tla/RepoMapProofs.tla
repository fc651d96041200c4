---------------------------- MODULE RepoMapProofs ----------------------------
(***************************************************************************)
(* What a complete map promises, for any files, whitelists, shards, edits  *)
(* and number of maps, with failures and kills at any step.                *)
(*                                                                         *)
(* A shard is rewritten long before the index that describes it, so that   *)
(* MapAgrees alone is not inductive: the invariant adds how far the        *)
(* running map has come, and that the cache build starts from shards and   *)
(* index of one scan.                                                      *)
(***************************************************************************)
EXTENDS RepoMap, TLAPS

Whole(scan, s) == [records |-> RecordsOf(scan, s), cut |-> FALSE]

Rewriting == {"writing", "indexing", "truncated"}
Building == {"probing", "dropping", "creating", "loading", "inserting"}

(* What a map has when it writes: types do not show that a shard it writes *)
(* to exists and that the table it fills was created.                      *)
InProgress ==
    /\ map.phase # "idle" => map.include \in Includes
    /\ map.phase \in {"opening", "writing"} => map.at \in Shards
    /\ map.phase = "writing" => shard[map.at] # Absent
    /\ map.phase \in {"loading", "inserting"} => db.fts = {}

TypeInv == TypeOK /\ InProgress

(* The steps of a query that read the shards, and the cache beside them. *)
Reading == ReadShard \/ EndFallback \/ ReadRelated \/ EndRelated \/ QueryTextChannel

(* The running map has written every shard before map.at from its scan,    *)
(* and a part of that one.                                                 *)
ShardsWritten ==
    /\ map.phase \in {"opening", "writing"} =>
          \A s \in Shards : s < map.at => shard[s] = Whole(map.scan, s)
    /\ map.phase = "writing" =>
          /\ shard[map.at].records \subseteq RecordsOf(map.scan, map.at)
          /\ ~shard[map.at].cut
    /\ map.phase \in {"indexing", "truncated"} => \A s \in Shards : shard[s] = Whole(map.scan, s)

(* While a map rewrites, the artifacts are not complete; while it builds   *)
(* the cache, they are, and the cache is only filled when it was emptied.  *)
OutcomeKnown ==
    /\ map.phase \in Rewriting => outcome = "broken"
    /\ map.phase \in Building => outcome = "uncached"
    /\ Complete => index \in Indexes

(* The entries loaded from whole shards of one scan. *)
EntriesOf(scan) == {e \in Entries : <<e[2], e[3]>> \in RecordsOf(scan, e[1])}

CacheLoaded == map.phase = "inserting" => map.entries = EntriesOf(index.files)

MapInv == ShardsWritten /\ OutcomeKnown /\ MapAgrees /\ CacheLoaded /\ CacheWhole

-----------------------------------------------------------------------------
(* Types. *)

LEMMA NoFilesType == NoFiles \in Scans
  BY DEF NoFiles, Scans

LEMMA IdleType == IdleMap \in MapStates
  BY NoFilesType DEF IdleMap, MapStates, MapPhases

LEMMA NoQueryType == NoQuery \in QueryStates
  BY DEF NoQuery, QueryStates, QueryPhases, Modes

LEMMA DisturbType ==
    ASSUME NEW q \in QueryStates
    PROVE  Disturb(q) \in QueryStates
  BY NoQueryType DEF Disturb, QueryStates

LEMMA ScanType ==
    ASSUME NEW files \in Scans, NEW include
    PROVE  ScanDirWithOptions(files, include) \in Scans
  BY DEF ScanDirWithOptions, Scans

LEMMA RecordsType ==
    ASSUME NEW scan, NEW s
    PROVE  RecordsOf(scan, s) \subseteq Records
  BY DEF RecordsOf

LEMMA ReadType ==
    ASSUME query \in QueryStates, NEW s \in Shards,
           NEW listed \in SUBSET Files, NEW found \in SUBSET Files
    PROVE  /\ [query EXCEPT !.todo = @ \ {s}] \in QueryStates
           /\ [query EXCEPT !.todo = @ \ {s}, !.seen = @ \union listed,
                            !.found = @ \union found] \in QueryStates
  BY DEF QueryStates

LEMMA AnswerType ==
    ASSUME query \in QueryStates, NEW found \in SUBSET Files
    PROVE  /\ [query EXCEPT !.phase = "done"] \in QueryStates
           /\ [query EXCEPT !.phase = "fallback"] \in QueryStates
           /\ [query EXCEPT !.phase = "done", !.failed = TRUE] \in QueryStates
           /\ [query EXCEPT !.phase = "done", !.found = found] \in QueryStates
           /\ [query EXCEPT !.phase = "done", !.found = @ \union found] \in QueryStates
  BY DEF QueryStates, QueryPhases

LEMMA TypeStep ==
    ASSUME TypeInv, [Next]_vars
    PROVE  TypeOK'
<1> USE DEF TypeInv
<1>1. CASE StartMap
  <2>1. PICK include \in Includes :
            saved' = include /\ map' = [map EXCEPT !.phase = "scanning", !.include = include]
    BY <1>1 DEF StartMap
  <2>2. map' \in MapStates
    BY <2>1 DEF TypeOK, MapStates, MapPhases
  <2>3. maps' \in 0..MaxMaps
    BY <1>1, BoundAssumption DEF StartMap, TypeOK
  <2>4. QED
    BY <1>1, <2>1, <2>2, <2>3 DEF StartMap, TypeOK, artifacts
<1>2. CASE Scan
  <2>1. PICK first \in Shards :
            map' = [map EXCEPT !.phase = "opening", !.at = first,
                               !.scan = ScanDirWithOptions(tree, map.include)]
    BY <1>2 DEF Scan
  <2>2. map' \in MapStates
    BY <2>1, ScanType DEF TypeOK, MapStates, MapPhases
  <2>3. QED
    BY <1>2, <2>2 DEF Scan, TypeOK, artifacts, bounds
<1>3. CASE CreateShard
  <2>1. shard' \in [Shards -> ShardFiles \union {Absent}]
    BY <1>3 DEF CreateShard, TypeOK, ShardFiles
  <2>2. map' \in MapStates
    BY <1>3 DEF CreateShard, TypeOK, MapStates, MapPhases
  <2>3. QED
    BY <1>3, <2>1, <2>2, DisturbType DEF CreateShard, TypeOK, bounds
<1>4. CASE WriteRecord
  <2>1. PICK r \in Unwritten : shard' = [shard EXCEPT ![map.at].records = @ \union {r}]
    BY <1>4 DEF WriteRecord
  <2>2. r \in Records /\ map.at \in Shards /\ shard[map.at] \in ShardFiles
    BY <1>4, <2>1, RecordsType DEF WriteRecord, Unwritten, InProgress, TypeOK
  <2>3. shard' \in [Shards -> ShardFiles \union {Absent}]
    BY <2>1, <2>2 DEF TypeOK, ShardFiles
  <2>4. QED
    BY <1>4, <2>3, DisturbType DEF WriteRecord, TypeOK, bounds
<1>5. CASE CloseShard
  <2>1. map' \in MapStates
    BY <1>5 DEF CloseShard, TypeOK, MapStates, MapPhases
  <2>2. QED
    BY <1>5, <2>1 DEF CloseShard, TypeOK, artifacts, bounds
<1>6. CASE TruncateIndex
  BY <1>6 DEF TruncateIndex, TypeOK, MapStates, MapPhases, bounds
<1>7. CASE WriteIndex
  <2>1. index' \in Indexes
    BY <1>7 DEF WriteIndex, InProgress, TypeOK, MapStates, Indexes
  <2>2. QED
    BY <1>7, <2>1 DEF WriteIndex, TypeOK, MapStates, MapPhases, bounds
<1>8. CASE Abort
  <2>1. shard' \in [Shards -> ShardFiles \union {Absent}] /\ query' \in QueryStates
    <3>1. CASE UNCHANGED <<shard, query>>
      BY <3>1 DEF TypeOK
    <3>2. CASE /\ map.phase = "writing"
               /\ shard' = [shard EXCEPT ![map.at].cut = TRUE]
               /\ query' = Disturb(query)
      <4>1. map.at \in Shards /\ shard[map.at] \in ShardFiles
        BY <3>2 DEF InProgress, TypeOK
      <4>2. QED
        BY <3>2, <4>1, DisturbType DEF TypeOK, ShardFiles
    <3>3. QED
      BY <1>8, <3>1, <3>2 DEF Abort
  <2>2. QED
    BY <1>8, <2>1, IdleType DEF Abort, TypeOK, bounds
<1>9. CASE ProbeFTS5 \/ DropTables \/ CreateTables
  BY <1>9 DEF ProbeFTS5, DropTables, CreateTables, TypeOK, MapStates, MapPhases, bounds
<1>10. CASE LoadEntries
  BY <1>10 DEF LoadEntries, TypeOK, MapStates, MapPhases, artifacts, bounds
<1>11. CASE InsertEntries
  <2>1. db' \in [exists : BOOLEAN, fts : {Absent} \union SUBSET Entries]
    BY <1>11 DEF InsertEntries, InProgress, TypeOK, MapStates
  <2>2. QED
    BY <1>11, <2>1, IdleType DEF InsertEntries, TypeOK, bounds
<1>12. CASE BuildFails
  BY <1>12, IdleType DEF BuildFails, TypeOK, artifacts, bounds
<1>13. CASE StartQuery
  BY <1>13 DEF StartQuery, TypeOK, QueryStates, QueryPhases, artifacts, bounds
<1>14. CASE QueryCache
  <2>1. query \in QueryStates /\ CacheHits(query.want.all) \in SUBSET Files
    BY DEF TypeOK, CacheHits
  <2>2. query' \in QueryStates
    BY <1>14, <2>1, AnswerType DEF QueryCache
  <2>3. QED
    BY <1>14, <2>2 DEF QueryCache, TypeOK, artifacts, bounds
<1>15. CASE ReadShard \/ ReadRelated
  <2>1. query \in QueryStates
    BY DEF TypeOK
  <2>2. ASSUME NEW s \in Shards
        PROVE  Listed(s) \in SUBSET Files /\ Hits(s, query.want.any) \in SUBSET Files
    BY DEF Listed, Hits
  <2>3. PICK s \in Shards :
           \/ FailOn(s)
           \/ query' = [query EXCEPT !.todo = @ \ {s}]
           \/ query' = [query EXCEPT !.todo = @ \ {s}, !.seen = @ \union Listed(s),
                                     !.found = @ \union Hits(s, query.want.any)]
    BY <1>15 DEF ReadShard, ReadRelated
  <2>4. query' \in QueryStates
    <3>1. CASE FailOn(s)
      BY <2>1, <3>1, AnswerType, {} \in SUBSET Files DEF FailOn
    <3>2. CASE query' = [query EXCEPT !.todo = @ \ {s}]
      BY <2>1, <3>2, ReadType
    <3>3. CASE query' = [query EXCEPT !.todo = @ \ {s}, !.seen = @ \union Listed(s),
                                      !.found = @ \union Hits(s, query.want.any)]
      BY <2>1, <2>2, <3>3, ReadType
    <3>4. QED
      BY <2>3, <3>1, <3>2, <3>3
  <2>5. QED
    BY <1>15, <2>4 DEF ReadShard, ReadRelated, TypeOK, artifacts, bounds
<1>16. CASE EndFallback \/ EndRelated
  <2>1. query \in QueryStates /\ AfterShards \in {"channel", "done"}
    BY DEF TypeOK, AfterShards
  <2>2. query' \in QueryStates
    BY <1>16, <2>1, RelationsAssumption
       DEF EndFallback, EndRelated, QueryStates, QueryPhases
  <2>3. QED
    BY <1>16, <2>2 DEF EndFallback, EndRelated, TypeOK, artifacts, bounds
<1>17. CASE QueryTextChannel
  <2>1. /\ query \in QueryStates
        /\ CacheHits(query.want.all) \in SUBSET Files
        /\ CacheHits(query.want.all) \intersect ListedIn(query.scope) \in SUBSET Files
    BY DEF TypeOK, CacheHits
  <2>2. query' \in QueryStates
    BY <1>17, <2>1, AnswerType DEF QueryTextChannel, FailOn
  <2>3. QED
    BY <1>17, <2>2 DEF QueryTextChannel, TypeOK, artifacts, bounds
<1>18. CASE Edit
  BY <1>18, BoundAssumption DEF Edit, TypeOK, Scans, artifacts
<1>19. CASE UNCHANGED vars
  BY <1>19 DEF TypeOK, vars, artifacts, bounds
<1>20. QED
  BY <1>1, <1>2, <1>3, <1>4, <1>5, <1>6, <1>7, <1>8, <1>9, <1>10, <1>11, <1>12, <1>13,
     <1>14, <1>15, <1>16, <1>17, <1>18, <1>19 DEF Next

LEMMA ProgressStep ==
    ASSUME TypeInv, [Next]_vars
    PROVE  InProgress'
<1> USE DEF TypeInv
<1>1. CASE StartMap \/ Scan
  BY <1>1 DEF StartMap, Scan, InProgress, TypeOK, MapStates, artifacts
<1>2. CASE CreateShard
  <2>1. map.at \in Shards /\ shard'[map.at] \in ShardFiles
    BY <1>2 DEF CreateShard, InProgress, TypeOK, ShardFiles
  <2>2. map' = [map EXCEPT !.phase = "writing"] /\ map \in MapStates
    BY <1>2 DEF CreateShard, TypeOK
  <2>3. QED
    BY <1>2, <2>1, <2>2, ArtifactAssumption DEF CreateShard, InProgress, MapStates
<1>3. CASE WriteRecord
  <2>1. PICK r \in Unwritten : shard' = [shard EXCEPT ![map.at].records = @ \union {r}]
    BY <1>3 DEF WriteRecord
  <2>2. /\ r \in Records
        /\ map.at \in Shards
        /\ shard[map.at] \in ShardFiles
    BY <1>3, <2>1, RecordsType DEF WriteRecord, Unwritten, InProgress, TypeOK
  <2>3. shard'[map.at] \in ShardFiles
    BY <2>1, <2>2 DEF TypeOK, ShardFiles
  <2>4. QED
    BY <1>3, <2>2, <2>3, ArtifactAssumption DEF WriteRecord, InProgress
<1>4. CASE CloseShard \/ TruncateIndex \/ WriteIndex
  BY <1>4 DEF CloseShard, TruncateIndex, WriteIndex, InProgress, TypeOK, MapStates, artifacts
<1>5. CASE Abort \/ InsertEntries \/ BuildFails
  BY <1>5 DEF Abort, InsertEntries, BuildFails, IdleMap, InProgress
<1>6. CASE ProbeFTS5 \/ DropTables \/ CreateTables \/ LoadEntries
  BY <1>6 DEF ProbeFTS5, DropTables, CreateTables, LoadEntries, InProgress, TypeOK, MapStates, artifacts
<1>7. CASE StartQuery \/ QueryCache \/ Reading \/ Edit
  BY <1>7 DEF StartQuery, QueryCache, Reading, ReadShard, EndFallback, ReadRelated, EndRelated,
              QueryTextChannel, Edit,
              InProgress, artifacts
<1>8. CASE UNCHANGED vars
  BY <1>8 DEF InProgress, vars, artifacts
<1>9. QED
  BY <1>1, <1>2, <1>3, <1>4, <1>5, <1>6, <1>7, <1>8 DEF Next, Reading

-----------------------------------------------------------------------------
(* What the running map has written, and what a complete one left. *)

LEMMA WrittenStep ==
    ASSUME TypeInv, ShardsWritten, [Next]_vars
    PROVE  ShardsWritten'
<1> USE DEF TypeInv
<1>1. CASE StartMap \/ Abort \/ InsertEntries \/ BuildFails
  <2>1. map'.phase \in {"idle", "scanning"}
    <3>1. StartMap => map'.phase = "scanning"
      BY DEF StartMap, TypeOK, MapStates
    <3>2. Abort \/ InsertEntries \/ BuildFails => map'.phase = "idle"
      BY DEF Abort, InsertEntries, BuildFails, IdleMap
    <3>3. QED
      BY <1>1, <3>1, <3>2
  <2>2. QED
    BY <2>1 DEF ShardsWritten
<1>2. CASE Scan
  <2>1. PICK first \in Shards :
            /\ \A s \in Shards : first <= s
            /\ map' = [map EXCEPT !.phase = "opening", !.at = first,
                                  !.scan = ScanDirWithOptions(tree, map.include)]
    BY <1>2 DEF Scan
  <2>2. map'.phase = "opening" /\ map'.at = first
    BY <2>1 DEF TypeOK, MapStates
  <2>3. \A s \in Shards : ~(s < first)
    BY <2>1, ShardsAssumption
  <2>4. QED
    BY <2>2, <2>3 DEF ShardsWritten
<1>3. CASE CreateShard
  <2>1. /\ map'.phase = "writing" /\ map'.at = map.at /\ map'.scan = map.scan
        /\ map.at \in Shards
        /\ shard' = [shard EXCEPT ![map.at] = [records |-> {}, cut |-> FALSE]]
    BY <1>3 DEF CreateShard, InProgress, TypeOK, MapStates
  <2>2. \A s \in Shards : s < map.at => shard'[s] = Whole(map.scan, s)
    BY <1>3, <2>1, ShardsAssumption DEF CreateShard, ShardsWritten, TypeOK
  <2>3. shard'[map.at].records = {} /\ shard'[map.at].cut = FALSE
    BY <2>1 DEF TypeOK
  <2>4. QED
    BY <2>1, <2>2, <2>3 DEF ShardsWritten, Whole, RecordsOf
<1>4. CASE WriteRecord
  <2>1. PICK r \in Unwritten : shard' = [shard EXCEPT ![map.at].records = @ \union {r}]
    BY <1>4 DEF WriteRecord
  <2>2. /\ map.phase = "writing" /\ map' = map
        /\ map.at \in Shards /\ shard[map.at] \in ShardFiles
    BY <1>4 DEF WriteRecord, InProgress, TypeOK
  <2>3. \A s \in Shards : s < map.at => shard'[s] = Whole(map.scan, s)
    BY <2>1, <2>2, ShardsAssumption DEF ShardsWritten, TypeOK
  <2>4. /\ shard'[map.at].records = shard[map.at].records \union {r}
        /\ shard'[map.at].cut = shard[map.at].cut
    BY <2>1, <2>2 DEF TypeOK, ShardFiles
  <2>5. QED
    BY <2>2, <2>3, <2>4 DEF ShardsWritten, Unwritten, Whole
<1>5. CASE CloseShard
  <2>1. /\ map.phase = "writing" /\ shard' = shard /\ map'.scan = map.scan
        /\ map.at \in Shards /\ shard[map.at] \in ShardFiles
    BY <1>5 DEF CloseShard, InProgress, TypeOK, MapStates, artifacts
  <2>2. shard[map.at] = Whole(map.scan, map.at)
    BY <1>5, <2>1 DEF CloseShard, Unwritten, ShardsWritten, Whole, ShardFiles
  <2>3. \A s \in Shards : s <= map.at => shard[s] = Whole(map.scan, s)
    <3>1. \A s \in Shards : s <= map.at => s < map.at \/ s = map.at
      <4>1. map.at \in Nat /\ \A s \in Shards : s \in Nat
        BY <2>1, ShardsAssumption
      <4>2. QED
        BY <4>1
    <3>2. \A s \in Shards : s < map.at => shard[s] = Whole(map.scan, s)
      BY <2>1 DEF ShardsWritten
    <3>3. QED
      BY <2>2, <3>1, <3>2
  <2>4. CASE /\ \A s \in Shards : ~(s > map.at)
             /\ map' = [map EXCEPT !.phase = "indexing"]
    <3>1. \A s \in Shards : shard[s] = Whole(map.scan, s)
      BY <2>1, <2>3, <2>4, ShardsAssumption
    <3>2. map'.phase = "indexing"
      BY <2>4 DEF TypeOK, MapStates
    <3>3. QED
      BY <2>1, <3>1, <3>2 DEF ShardsWritten, Whole
  <2>5. CASE \E next \in Shards :
               /\ \A s \in Shards : s > map.at => next <= s
               /\ map' = [map EXCEPT !.phase = "opening", !.at = next]
    <3>1. PICK next \in Shards :
               /\ \A s \in Shards : s > map.at => next <= s
               /\ map' = [map EXCEPT !.phase = "opening", !.at = next]
      BY <2>5
    <3>2. \A s \in Shards : s < next => s <= map.at
      BY <2>1, <3>1, ShardsAssumption
    <3>3. map'.phase = "opening" /\ map'.at = next
      BY <3>1 DEF TypeOK, MapStates
    <3>4. QED
      BY <2>1, <2>3, <3>2, <3>3 DEF ShardsWritten, Whole
  <2>6. QED
    BY <1>5, <2>4, <2>5 DEF CloseShard
<1>6. CASE TruncateIndex \/ WriteIndex \/ ProbeFTS5 \/ DropTables \/ CreateTables \/ LoadEntries
  BY <1>6 DEF TruncateIndex, WriteIndex, ProbeFTS5, DropTables, CreateTables, LoadEntries,
              ShardsWritten, TypeOK, MapStates, artifacts
<1>7. CASE StartQuery \/ QueryCache \/ Reading \/ Edit
  BY <1>7 DEF StartQuery, QueryCache, Reading, ReadShard, EndFallback, ReadRelated, EndRelated,
              QueryTextChannel, Edit,
              ShardsWritten, artifacts
<1>8. CASE UNCHANGED vars
  BY <1>8 DEF ShardsWritten, vars, artifacts
<1>9. QED
  BY <1>1, <1>2, <1>3, <1>4, <1>5, <1>6, <1>7, <1>8 DEF Next, Reading

LEMMA OutcomeStep ==
    ASSUME TypeInv, ShardsWritten, OutcomeKnown, MapAgrees, [Next]_vars
    PROVE  OutcomeKnown' /\ MapAgrees'
<1> USE DEF TypeInv, Rewriting, Building, Complete
<1>1. CASE StartMap \/ Scan \/ TruncateIndex \/ ProbeFTS5 \/ DropTables \/ CreateTables \/ LoadEntries
  BY <1>1 DEF StartMap, Scan, TruncateIndex, ProbeFTS5, DropTables, CreateTables, LoadEntries,
              OutcomeKnown, MapAgrees, TypeOK, MapStates, artifacts
<1>2. CASE CreateShard \/ WriteRecord \/ CloseShard
  BY <1>2 DEF CreateShard, WriteRecord, CloseShard, OutcomeKnown, MapAgrees, TypeOK, MapStates,
              artifacts
<1>3. CASE WriteIndex
  <2>1. /\ map.phase = "truncated" /\ map.include \in Includes /\ map.scan \in Scans
        /\ index' = [include |-> map.include, files |-> map.scan]
        /\ shard' = shard /\ outcome' = "uncached" /\ map'.phase = "probing"
    BY <1>3 DEF WriteIndex, InProgress, TypeOK, MapStates
  <2>2. index' \in Indexes
    BY <2>1 DEF Indexes
  <2>3. index'.files = map.scan
    BY <2>1
  <2>4. \A s \in Shards : shard[s] = Whole(map.scan, s)
    BY <2>1 DEF ShardsWritten
  <2>5. MapAgrees'
    BY <2>1, <2>3, <2>4 DEF MapAgrees, Whole, RecordsOf
  <2>6. QED
    BY <2>1, <2>2, <2>5 DEF OutcomeKnown
<1>4. CASE Abort
  <2>1. map'.phase = "idle" /\ index' = index /\ outcome' = outcome
    BY <1>4 DEF Abort, IdleMap
  <2>2. CASE UNCHANGED shard
    BY <2>1, <2>2 DEF OutcomeKnown, MapAgrees, RecordsOf
  <2>3. CASE map.phase = "writing"
    BY <2>1, <2>3 DEF OutcomeKnown, MapAgrees
  <2>4. QED
    BY <1>4, <2>2, <2>3 DEF Abort
<1>5. CASE InsertEntries \/ BuildFails
  BY <1>5 DEF InsertEntries, BuildFails, IdleMap, OutcomeKnown, MapAgrees, RecordsOf, artifacts
<1>6. CASE StartQuery \/ QueryCache \/ Reading \/ Edit
  <2>1. map' = map /\ index' = index /\ shard' = shard /\ outcome' = outcome
    BY <1>6 DEF StartQuery, QueryCache, Reading, ReadShard, EndFallback, ReadRelated, EndRelated,
              QueryTextChannel, Edit, artifacts
  <2>2. QED
    BY <2>1 DEF OutcomeKnown, MapAgrees, RecordsOf
<1>7. CASE UNCHANGED vars
  BY <1>7 DEF OutcomeKnown, MapAgrees, RecordsOf, vars, artifacts
<1>8. QED
  BY <1>1, <1>2, <1>3, <1>4, <1>5, <1>6, <1>7 DEF Next, Reading

LEMMA AgreeingShards ==
    ASSUME MapAgrees, Complete, NEW s \in Shards
    PROVE  /\ shard[s] # Absent /\ ~shard[s].cut
           /\ shard[s].records = RecordsOf(index.files, s)
<1> DEFINE records == RecordsOf(index.files, s)
<1>1. records \in SUBSET Records
  BY RecordsType
<1>2. shard[s] = [records |-> records, cut |-> FALSE]
  BY DEF MapAgrees
<1> HIDE DEF records
<1>3. shard[s] \in ShardFiles /\ shard[s].records = records /\ ~shard[s].cut
  BY <1>1, <1>2 DEF ShardFiles
<1>4. QED
  BY <1>3, ArtifactAssumption DEF records

LEMMA CacheStep ==
    ASSUME TypeInv, OutcomeKnown, MapAgrees, CacheLoaded, CacheWhole, [Next]_vars
    PROVE  CacheLoaded' /\ CacheWhole'
<1> USE DEF TypeInv
<1>1. CASE StartMap \/ Scan \/ CreateShard \/ WriteRecord \/ CloseShard \/ Abort \/ BuildFails
  <2>1. map'.phase # "inserting" /\ db' = db
    <3>1. Abort \/ BuildFails => map'.phase = "idle" /\ db' = db
      BY DEF Abort, BuildFails, IdleMap, artifacts
    <3>2. StartMap \/ Scan \/ CreateShard => map'.phase # "inserting" /\ db' = db
      BY DEF StartMap, Scan, CreateShard, TypeOK, MapStates, artifacts
    <3>3. WriteRecord \/ CloseShard => map'.phase # "inserting" /\ db' = db
      BY DEF WriteRecord, CloseShard, TypeOK, MapStates, artifacts
    <3>4. QED
      BY <1>1, <3>1, <3>2, <3>3
  <2>2. QED
    BY <2>1 DEF CacheLoaded, CacheWhole
<1>2. CASE TruncateIndex \/ WriteIndex \/ ProbeFTS5 \/ DropTables \/ CreateTables
  <2>1. map'.phase # "inserting" /\ db'.fts \in {db.fts, Absent, {}}
    BY <1>2 DEF TruncateIndex, WriteIndex, ProbeFTS5, DropTables, CreateTables, TypeOK, MapStates
  <2>2. QED
    BY <2>1 DEF CacheLoaded, CacheWhole
<1>3. CASE LoadEntries
  <2> DEFINE Loaded == {e \in Entries : shard[e[1]] # Absent
                                        /\ <<e[2], e[3]>> \in shard[e[1]].records}
  <2>1. /\ map.phase = "loading" /\ index' = index /\ db' = db
        /\ map'.phase = "inserting" /\ map'.entries = Loaded
    BY <1>3 DEF LoadEntries, TypeOK, MapStates, artifacts
  <2>2. \A s \in Shards : shard[s] # Absent /\ shard[s].records = RecordsOf(index.files, s)
    <3>1. Complete
      BY <2>1 DEF OutcomeKnown, Building, Complete
    <3>2. QED
      BY <3>1, AgreeingShards
  <2>3. \A e \in Entries : e[1] \in Shards
    BY DEF Entries
  <2>4. Loaded = EntriesOf(index.files)
    BY <2>2, <2>3 DEF EntriesOf
  <2>5. QED
    BY <2>1, <2>4 DEF CacheLoaded, CacheWhole, EntriesOf
<1>4. CASE InsertEntries
  <2>1. /\ map.phase = "inserting" /\ map'.phase = "idle"
        /\ db'.fts = db.fts \union map.entries
    BY <1>4 DEF InsertEntries, IdleMap, TypeOK
  <2>2. db'.fts = EntriesOf(index.files)
    BY <2>1 DEF InProgress, CacheLoaded
  <2>3. index.files \in Scans
    BY <2>1 DEF OutcomeKnown, Building, Complete, Indexes
  <2>4. QED
    BY <2>1, <2>2, <2>3 DEF CacheLoaded, CacheWhole, EntriesOf
<1>5. CASE StartQuery \/ QueryCache \/ Reading \/ Edit
  BY <1>5 DEF StartQuery, QueryCache, Reading, ReadShard, EndFallback, ReadRelated, EndRelated,
              QueryTextChannel, Edit,
              CacheLoaded, CacheWhole, artifacts
<1>6. CASE UNCHANGED vars
  BY <1>6 DEF CacheLoaded, CacheWhole, vars, artifacts
<1>7. QED
  BY <1>1, <1>2, <1>3, <1>4, <1>5, <1>6 DEF Next, Reading

LEMMA Invariant == Spec => [](TypeInv /\ MapInv)
<1>1. Init => TypeInv /\ MapInv
  <2>1. Init => TypeInv
    BY IdleType, NoQueryType, BoundAssumption DEF Init, IdleMap, TypeInv, TypeOK, InProgress
  <2>2. Init => MapInv
    BY DEF Init, IdleMap, MapInv, ShardsWritten, OutcomeKnown, Rewriting, Building, Complete,
           MapAgrees, CacheLoaded, CacheWhole
  <2>3. QED
    BY <2>1, <2>2
<1>2. (TypeInv /\ MapInv) /\ [Next]_vars => (TypeInv /\ MapInv)'
  BY TypeStep, ProgressStep, WrittenStep, OutcomeStep, CacheStep DEF TypeInv, MapInv
<1>3. QED
  BY <1>1, <1>2, PTL DEF Spec

(* Every state of map, --check and query is well typed: TypeOK. *)
THEOREM TypeCorrect == Spec => []TypeOK
  BY Invariant, PTL DEF TypeInv

(* Once a map has written its index, shards and index are of one scan.     *)
THEOREM MapAgreesAlways == Spec => []MapAgrees
  BY Invariant, PTL DEF MapInv

(* The cache never has a part of a map or a mixture of two.                *)
THEOREM CacheWholeAlways == Spec => []CacheWhole
  BY Invariant, PTL DEF MapInv

-----------------------------------------------------------------------------
(* `map --check`. *)

(* files.jsonl has a record of every file, so that scans with the same     *)
(* records are the same.                                                   *)
LEMMA SameRecords ==
    ASSUME NEW one \in Scans, NEW other \in Scans
    PROVE  (\A s \in Shards : RecordsOf(one, s) = RecordsOf(other, s)) <=> one = other
<1>1. ASSUME \A s \in Shards : RecordsOf(one, s) = RecordsOf(other, s), NEW f \in Files
      PROVE  one[f] = other[f]
  <2>1. PICK s \in Shards : Indexed[s] = Files
    BY ShardsAssumption
  <2>2. \A c \in Contents : one[f] = c <=> other[f] = c
    <3>1. \A c \in Contents : <<f, c>> \in RecordsOf(one, s) <=> one[f] = c
      BY <2>1 DEF RecordsOf, Records
    <3>2. \A c \in Contents : <<f, c>> \in RecordsOf(other, s) <=> other[f] = c
      BY <2>1 DEF RecordsOf, Records
    <3>3. QED
      BY <1>1, <3>1, <3>2
  <2>3. one[f] \in Contents \union {Absent} /\ other[f] \in Contents \union {Absent}
    BY DEF Scans
  <2>4. QED
    BY <2>2, <2>3
<1>2. (\A f \in Files : one[f] = other[f]) => one = other
  BY DEF Scans
<1>3. QED
  BY <1>1, <1>2

LEMMA FreshIsSame ==
    ASSUME TypeOK, index \in Indexes
    PROVE  CheckStaleness = "fresh" <=>
              index.include = saved /\ index.files = ScanDirWithOptions(tree, saved)
<1> DEFINE current == ScanDirWithOptions(tree, saved)
           Added   == {f \in Files : current[f] # Absent /\ index.files[f] = Absent}
           Changed == {f \in Files : current[f] # Absent /\ index.files[f] \notin {Absent, current[f]}}
           Missing == {f \in Files : current[f] = Absent /\ index.files[f] # Absent}
<1>1. current \in Scans /\ index.files \in Scans /\ index.include \in Includes
  BY ScanType DEF TypeOK, Indexes
<1>2. (Added = {} /\ Changed = {} /\ Missing = {}) <=> \A f \in Files : index.files[f] = current[f]
  OBVIOUS
<1>3. (\A f \in Files : index.files[f] = current[f]) <=> index.files = current
  BY <1>1 DEF Scans
<1>4. index # Absent /\ index # Torn
  BY ArtifactAssumption
<1>5. index.include = saved => saved # Absent
  BY <1>1, AbsentAssumption
<1>6. CheckStaleness = "fresh" <=>
        saved # Absent /\ index.include = saved /\ Added = {} /\ Changed = {} /\ Missing = {}
  BY <1>4 DEF CheckStaleness
<1>7. QED
  BY <1>2, <1>3, <1>5, <1>6

(* Once a map has written its index, `map --check` says fresh exactly when *)
(* a map run now would write what the shards have.                         *)
THEOREM CheckIsRightAlways == Spec => []CheckIsRight
<1>1. TypeInv /\ MapInv => CheckIsRight
  <2> SUFFICES ASSUME TypeInv, MapInv, Complete
               PROVE  CheckStaleness = "fresh" <=>
                        /\ index.include = saved
                        /\ \A s \in Shards :
                             shard[s].records = RecordsOf(ScanDirWithOptions(tree, saved), s)
    BY DEF CheckIsRight
  <2>1. TypeOK /\ index \in Indexes
    BY DEF TypeInv, MapInv, OutcomeKnown
  <2>2. index.files \in Scans /\ ScanDirWithOptions(tree, saved) \in Scans
    BY <2>1, ScanType DEF TypeOK, Indexes
  <2>3. \A s \in Shards : shard[s].records = RecordsOf(index.files, s)
    BY AgreeingShards DEF MapInv
  <2>4. QED
    BY <2>1, <2>2, <2>3, FreshIsSame, SameRecords
<1>2. QED
  BY <1>1, Invariant, PTL

-----------------------------------------------------------------------------
(* Queries.  The records a query has read are still those of the shards as *)
(* long as it is calm; a map cannot change what a built cache has without  *)
(* opening a shard first, which ends the calm.                             *)

Answered ==
    /\ query.failed => \E s \in Needed : ~Readable(s)
    /\ ~query.failed =>
         /\ query.mode = "shard" => query.found = HitsOf(query.scope, query.want.any)
         /\ IsPlan(query.mode) => HitsOf(query.scope, query.want.any) \subseteq query.found
         /\ query.mode = "filtered" \/ (query.mode = "plan" /\ query.began = "built") =>
              query.found \subseteq ListedIn(query.scope)
         /\ query.mode = "text" => (HitsOf(query.scope, query.want.any) # {} => query.found # {})
         /\ query.mode = "text" /\ query.began = "built" =>
              query.found \in {HitsOf(query.scope, query.want.all), HitsOf(query.scope, query.want.any)}

QueryKnown ==
    query.calm =>
        /\ query.mode \in {"text", "plan"} => query.scope = Shards
        /\ query.mode = "shard" => ~query.cached
        /\ query.began = "built" => outcome = "built"
        /\ query.phase # "done" => ~query.failed
        /\ query.phase = "primary" =>
             /\ query.mode = "text" /\ query.todo = query.scope
             /\ query.found = {} /\ query.seen = {}
        /\ query.phase = "fallback" =>
             /\ query.todo \subseteq query.scope
             /\ query.found = HitsOf(query.scope \ query.todo, query.want.any)
             /\ query.seen = ListedIn(query.scope \ query.todo)
        /\ query.phase = "related" =>
             /\ IsPlan(query.mode) /\ query.todo \subseteq Relations
             /\ query.found = HitsOf(query.scope, query.want.any) /\ query.found # {}
             /\ query.seen = ListedIn(query.scope)
        /\ query.phase = "channel" =>
             /\ IsPlan(query.mode)
             /\ HitsOf(query.scope, query.want.any) \subseteq query.found
             /\ query.found \subseteq ListedIn(query.scope)
        /\ query.phase = "done" => Answered

BuiltKnown == outcome = "built" => db.fts = EntriesOf(index.files)

LEMMA BuiltStep ==
    ASSUME TypeInv, MapInv, BuiltKnown, [Next]_vars
    PROVE  BuiltKnown'
<1>1. CASE InsertEntries
  <2>1. map.phase = "inserting" /\ index' = index /\ db'.fts = db.fts \union map.entries
    BY <1>1 DEF InsertEntries, TypeInv, TypeOK
  <2>2. db.fts = {} /\ map.entries = EntriesOf(index.files)
    BY <2>1 DEF TypeInv, InProgress, MapInv, CacheLoaded
  <2>3. QED
    BY <2>1, <2>2 DEF BuiltKnown, EntriesOf
<1>2. CASE TruncateIndex \/ WriteIndex \/ CreateShard
  <2>1. outcome' # "built"
    BY <1>2 DEF TruncateIndex, WriteIndex, CreateShard, MapInv, OutcomeKnown, Rewriting
  <2>2. QED
    BY <2>1 DEF BuiltKnown
<1>3. CASE ProbeFTS5 \/ DropTables \/ CreateTables
  <2>1. outcome' # "built"
    BY <1>3 DEF ProbeFTS5, DropTables, CreateTables, MapInv, OutcomeKnown, Building
  <2>2. QED
    BY <2>1 DEF BuiltKnown
<1>4. ASSUME db' = db, index' = index, outcome' = outcome PROVE BuiltKnown'
  BY <1>4 DEF BuiltKnown, EntriesOf
<1>5. QED
  BY <1>1, <1>2, <1>3, <1>4
     DEF Next, StartMap, Scan, WriteRecord, CloseShard, Abort, LoadEntries, BuildFails, StartQuery,
         QueryCache, Reading, ReadShard, EndFallback, ReadRelated, EndRelated,
              QueryTextChannel, Edit, vars, artifacts

(* A built cache has what the shards have. *)
LEMMA CacheIsShards ==
    ASSUME TypeInv, MapInv, BuiltKnown, outcome = "built", NEW wanted
    PROVE  CacheHits(wanted) = HitsOf(Shards, wanted)
<1>1. ASSUME NEW s \in Shards
      PROVE  /\ shard[s] # Absent
             /\ shard[s].records = RecordsOf(index.files, s)
  BY AgreeingShards DEF MapInv, Complete
<1>2. db.fts = EntriesOf(index.files) /\ db.fts # Absent
  <2>1. db.fts = EntriesOf(index.files)
    BY DEF BuiltKnown
  <2>2. EntriesOf(index.files) \in SUBSET Entries
    BY DEF EntriesOf
  <2>3. QED
    BY <2>1, <2>2, ArtifactAssumption
<1>3. ASSUME NEW s \in Shards, NEW f \in Files, NEW c \in Contents
      PROVE  <<s, f, c>> \in EntriesOf(index.files) <=> <<f, c>> \in RecordsOf(index.files, s)
  BY DEF EntriesOf, Entries
<1>4. ASSUME NEW s \in Shards, NEW f \in Files, NEW c \in Contents
      PROVE  <<s, f, c>> \in db.fts <=> <<f, c>> \in shard[s].records
  BY <1>1, <1>2, <1>3
<1>5. CacheHits(wanted) = {f \in Files : \E s \in Shards, c \in Contents :
                              <<s, f, c>> \in wanted /\ <<f, c>> \in shard[s].records}
  BY <1>2, <1>4 DEF CacheHits
<1>6. HitsOf(Shards, wanted) = {f \in Files : \E s \in Shards, c \in Contents :
                                   <<s, f, c>> \in wanted /\ <<f, c>> \in shard[s].records}
  BY <1>1 DEF HitsOf, Hits
<1>7. QED
  BY <1>5, <1>6

LEMMA HitsAreListed ==
    ASSUME NEW scope, NEW wanted
    PROVE  HitsOf(scope, wanted) \subseteq ListedIn(scope)
  BY DEF HitsOf, ListedIn, Hits, Listed

(* What a query keeps to while it reads. *)
Question == <<query.mode, query.want, query.cached, query.scope, query.calm, query.began>>

(* What matches depends on the question and on the shards alone. *)
LEMMA SameThere ==
    ASSUME UNCHANGED <<Question, shard>>
    PROVE  /\ HitsOf(query.scope, query.want.any)' = HitsOf(query.scope, query.want.any)
           /\ HitsOf(query.scope, query.want.all)' = HitsOf(query.scope, query.want.all)
           /\ ListedIn(query.scope)' = ListedIn(query.scope)
           /\ Needed' = Needed
           /\ \A s : Readable(s)' = Readable(s)
  BY DEF Question, HitsOf, ListedIn, Hits, Listed, Needed, Readable, IsPlan

LEMMA StillKnown ==
    ASSUME QueryKnown, query' = query, shard' = shard,
           outcome = "built" => outcome' = "built"
    PROVE  QueryKnown'
<1>1. UNCHANGED <<Question, shard>>
  BY DEF Question
<1>2. /\ HitsOf(query.scope \ query.todo, query.want.any)' = HitsOf(query.scope \ query.todo, query.want.any)
      /\ ListedIn(query.scope \ query.todo)' = ListedIn(query.scope \ query.todo)
  BY DEF HitsOf, Hits, ListedIn, Listed
<1>3. Answered => Answered'
  BY <1>1, SameThere DEF Answered, IsPlan
<1>4. QED
  BY <1>1, <1>2, <1>3, SameThere DEF QueryKnown, IsPlan

LEMMA DisturbedKnown ==
    ASSUME TypeInv, query' = Disturb(query)
    PROVE  QueryKnown'
<1>1. ~query'.calm
  BY DEF Disturb, NoQuery, TypeInv, TypeOK, QueryStates
<1>2. QED
  BY <1>1 DEF QueryKnown

(* A shard that cannot be read ends the query.                             *)
LEMMA FailedKnown ==
    ASSUME TypeInv, QueryKnown, outcome' = outcome, shard' = shard,
           NEW s \in Shards, FailOn(s), query.calm => s \in Needed
    PROVE  QueryKnown'
<1>1. query \in QueryStates /\ query' = [query EXCEPT !.phase = "done", !.failed = TRUE]
  BY DEF TypeInv, TypeOK, FailOn
<1>2. UNCHANGED <<Question, shard>> /\ query'.phase = "done" /\ query'.failed
  BY <1>1 DEF Question, QueryStates
<1>3. ~Readable(s)' /\ Needed' = Needed
  BY <1>2, SameThere DEF FailOn
<1>4. query'.calm => Answered'
  BY <1>2, <1>3 DEF Answered, Question
<1>5. QED
  BY <1>2, <1>4 DEF QueryKnown, Question

(* A query whose shards are read ends with more files than it found.       *)
LEMMA EndedKnown ==
    ASSUME TypeInv, QueryKnown, outcome' = outcome, shard' = shard,
           NEW more \in SUBSET Files,
           query' = [query EXCEPT !.phase = "done", !.found = @ \union more],
           ~IsPlan(query.mode) => more = {},
           query.phase \in {"fallback", "related", "channel"},
           query.calm => /\ HitsOf(query.scope, query.want.any) \subseteq query.found
                         /\ query.found \subseteq ListedIn(query.scope)
                         /\ ~IsPlan(query.mode) => query.found = HitsOf(query.scope, query.want.any)
                         /\ query.mode = "filtered" \/ query.began = "built" =>
                              more \subseteq ListedIn(query.scope)
    PROVE  QueryKnown'
<1>1. /\ UNCHANGED <<Question, shard>> /\ query'.phase = "done"
      /\ query'.found = query.found \union more /\ query'.failed = query.failed
  BY DEF TypeInv, TypeOK, QueryStates, Question
<1>2. query.calm => ~query'.failed
  BY <1>1 DEF QueryKnown
<1>3. query'.calm => Answered'
  <2>1. SUFFICES ASSUME query.calm PROVE Answered'
    BY <1>1 DEF Question
  <2> DEFINE there == HitsOf(query.scope, query.want.any)
             listed == ListedIn(query.scope)
  <2>2. there' = there /\ listed' = listed
    BY <1>1, SameThere
  <2>3. query'.mode = "shard" => query'.found = there
    BY <1>1, <2>1 DEF Question, IsPlan
  <2>4. there \subseteq query'.found
    BY <1>1, <2>1
  <2>5. query'.mode = "filtered" \/ (query'.mode = "plan" /\ query'.began = "built") =>
          query'.found \subseteq listed
    BY <1>1, <2>1 DEF Question
  <2>6. query'.mode = "text" => query'.found = there
    BY <1>1, <2>1 DEF Question, IsPlan
  <2> HIDE DEF there, listed
  <2>7. there = HitsOf(query.scope, query.want.any) /\ listed = ListedIn(query.scope)
    BY DEF there, listed
  <2>8. /\ HitsOf(query.scope, query.want.any)' = there
        /\ ListedIn(query.scope)' = listed
    BY <2>2, <2>7, <1>1, SameThere
  <2>9. QED
    BY <1>2, <2>1, <2>3, <2>4, <2>5, <2>6, <2>8 DEF Answered
<1>4. QED
  BY <1>1, <1>3 DEF QueryKnown, Question

LEMMA StartKnown ==
    ASSUME TypeInv, StartQuery
    PROVE  QueryKnown'
<1>1. PICK mode \in Modes, want \in Queries, scope \in {Shards} \union {{s} : s \in Shards} :
         /\ mode \in {"text", "plan"} => scope = Shards
         /\ query' = [phase  |-> IF mode = "text" /\ db.exists THEN "primary" ELSE "fallback",
                      mode   |-> mode, want |-> want,
                      cached |-> db.exists /\ mode # "shard",
                      todo   |-> scope, scope |-> scope, seen |-> {}, found |-> {},
                      failed |-> FALSE, calm |-> TRUE, began |-> outcome]
  BY DEF StartQuery
<1>2. /\ HitsOf(query.scope \ query.todo, query.want.any)' = {}
      /\ ListedIn(query.scope \ query.todo)' = {}
  BY <1>1 DEF HitsOf, ListedIn
<1>3. outcome' = outcome
  BY DEF StartQuery
<1>4. QED
  BY <1>1, <1>2, <1>3 DEF QueryKnown

LEMMA CacheKnown ==
    ASSUME TypeInv, MapInv, BuiltKnown, QueryKnown, QueryCache
    PROVE  QueryKnown'
<1>0. query \in QueryStates /\ query.phase = "primary" /\ shard' = shard /\ outcome' = outcome
  BY DEF TypeInv, TypeOK, QueryCache, artifacts
<1>1. CASE query' = [query EXCEPT !.phase = "fallback"]
  <2>1. query.calm => /\ HitsOf(query.scope \ query.todo, query.want.any)' = {}
                      /\ ListedIn(query.scope \ query.todo)' = {}
    BY <1>0, <1>1 DEF HitsOf, ListedIn, QueryKnown, QueryStates
  <2>2. QED
    BY <1>0, <1>1, <2>1 DEF QueryKnown, QueryStates
<1>2. CASE /\ CacheHits(query.want.all) # {}
           /\ query' = [query EXCEPT !.phase = "done", !.found = CacheHits(query.want.all)]
  <2>1. query.calm /\ query.began = "built" =>
          CacheHits(query.want.all) = HitsOf(query.scope, query.want.all)
    BY <1>0, CacheIsShards DEF QueryKnown
  <2>2. /\ UNCHANGED <<Question, shard>> /\ query'.phase = "done"
        /\ query'.found = CacheHits(query.want.all) /\ query'.failed = query.failed
    BY <1>0, <1>2 DEF Question, QueryStates
  <2>3. /\ HitsOf(query.scope, query.want.any)' = HitsOf(query.scope, query.want.any)
        /\ HitsOf(query.scope, query.want.all)' = HitsOf(query.scope, query.want.all)
    BY <2>2, SameThere
  <2>4. query'.calm => query'.mode = "text" /\ ~query'.failed
    BY <1>0, <2>2 DEF QueryKnown, Question
  <2>5. query'.calm /\ query'.began = "built" =>
          query'.found = HitsOf(query.scope, query.want.all)'
    BY <2>1, <2>2, <2>3 DEF Question
  <2>6. query'.calm => Answered'
    BY <1>2, <2>2, <2>4, <2>5 DEF Answered, IsPlan
  <2>7. QED
    BY <1>0, <2>2, <2>6 DEF QueryKnown, Question
<1>3. QED
  BY <1>1, <1>2 DEF QueryCache

LEMMA ReadKnown ==
    ASSUME TypeInv, QueryKnown, ReadShard
    PROVE  QueryKnown'
<1>0. query \in QueryStates /\ query.phase = "fallback" /\ shard' = shard /\ outcome' = outcome
  BY DEF TypeInv, TypeOK, ReadShard, CanRead, artifacts
<1>1. PICK s \in Shards :
         /\ s \in query.todo
         /\ \/ FailOn(s)
            \/ /\ shard[s] = Absent
               /\ query' = [query EXCEPT !.todo = @ \ {s}]
            \/ /\ shard[s] # Absent
               /\ query' = [query EXCEPT !.todo = @ \ {s}, !.seen = @ \union Listed(s),
                                         !.found = @ \union Hits(s, query.want.any)]
  BY DEF ReadShard, CanRead
<1>2. query.calm => s \in query.scope
  BY <1>0, <1>1 DEF QueryKnown
<1>3. CASE FailOn(s)
  BY <1>0, <1>2, <1>3, FailedKnown DEF Needed
<1>4. CASE ~FailOn(s)
  <2> DEFINE hits == IF shard[s] = Absent THEN {} ELSE Hits(s, query.want.any)
             listed == IF shard[s] = Absent THEN {} ELSE Listed(s)
  <2>1. /\ UNCHANGED <<Question, shard>> /\ query'.phase = "fallback"
        /\ query'.todo = query.todo \ {s} /\ query'.failed = query.failed
        /\ query'.found = query.found \union hits /\ query'.seen = query.seen \union listed
    BY <1>0, <1>1, <1>4 DEF QueryStates, Question
  <2>2. ASSUME query.calm
        PROVE  /\ HitsOf(query.scope \ query.todo, query.want.any)'
                    = HitsOf(query.scope \ query.todo, query.want.any) \union hits
               /\ ListedIn(query.scope \ query.todo)' = ListedIn(query.scope \ query.todo) \union listed
    <3>1. query'.scope \ query'.todo = (query.scope \ query.todo) \union {s}
      BY <1>2, <2>1, <2>2 DEF Question
    <3>2. QED
      BY <2>1, <3>1 DEF HitsOf, ListedIn, Hits, Listed, Question
  <2> HIDE DEF hits, listed
  <2>3. QED
    BY <1>0, <2>1, <2>2 DEF QueryKnown, Question
<1>5. QED
  BY <1>3, <1>4

LEMMA EndFallbackKnown ==
    ASSUME TypeInv, QueryKnown, EndFallback
    PROVE  QueryKnown'
<1>0. /\ query \in QueryStates /\ query.phase = "fallback" /\ query.todo = {}
      /\ shard' = shard /\ outcome' = outcome
  BY DEF TypeInv, TypeOK, EndFallback, artifacts
<1>1. query.calm => /\ query.found = HitsOf(query.scope, query.want.any)
                    /\ query.seen = ListedIn(query.scope)
                    /\ query.found \subseteq ListedIn(query.scope)
  <2>1. query.scope \ query.todo = query.scope
    BY <1>0
  <2>2. QED
    BY <1>0, <2>1, HitsAreListed DEF QueryKnown
<1>2. CASE query' = [query EXCEPT !.phase = "done"]
  <2>1. query' = [query EXCEPT !.phase = "done", !.found = @ \union {}] /\ {} \in SUBSET Files
    BY <1>0, <1>2 DEF QueryStates
  <2>2. QED
    BY <1>0, <1>1, <2>1, EndedKnown
<1>3. ASSUME UNCHANGED <<Question, shard>>, query'.failed = query.failed,
             query'.found = query.found, query'.seen = query.seen
      PROVE  query'.calm => /\ ~query'.failed
                            /\ query'.found = HitsOf(query.scope, query.want.any)'
                            /\ query'.seen = ListedIn(query.scope)'
                            /\ query'.found \subseteq ListedIn(query.scope)'
  BY <1>0, <1>1, <1>3, SameThere DEF QueryKnown, Question
<1>4. CASE query' = [query EXCEPT !.phase = "channel"] /\ query.cached /\ query.mode # "text"
  <2>1. /\ UNCHANGED <<Question, shard>> /\ query'.phase = "channel" /\ query'.failed = query.failed
        /\ query'.found = query.found /\ query'.seen = query.seen
    BY <1>0, <1>4 DEF Question, QueryStates
  <2>2. query.calm => IsPlan(query.mode)
    BY <1>0, <1>4 DEF QueryKnown, QueryStates, Modes, IsPlan
  <2>3. QED
    BY <1>0, <1>3, <2>1, <2>2 DEF QueryKnown, Question, IsPlan
<1>5. CASE /\ IsPlan(query.mode) /\ query.found # {}
           /\ query' = [query EXCEPT !.phase = "related", !.todo = Relations]
  <2>1. /\ UNCHANGED <<Question, shard>> /\ query'.phase = "related" /\ query'.failed = query.failed
        /\ query'.found = query.found /\ query'.seen = query.seen /\ query'.todo = Relations
    BY <1>0, <1>5 DEF Question, QueryStates
  <2>2. QED
    BY <1>0, <1>3, <1>5, <2>1 DEF QueryKnown, Question, IsPlan
<1>6. QED
  BY <1>2, <1>4, <1>5 DEF EndFallback, AfterShards

LEMMA ReadRelatedKnown ==
    ASSUME TypeInv, QueryKnown, ReadRelated
    PROVE  QueryKnown'
<1>0. query \in QueryStates /\ query.phase = "related" /\ shard' = shard /\ outcome' = outcome
  BY DEF TypeInv, TypeOK, ReadRelated, CanRead, artifacts
<1>1. PICK s \in Shards :
         /\ s \in query.todo
         /\ FailOn(s) \/ query' = [query EXCEPT !.todo = @ \ {s}]
  BY DEF ReadRelated, CanRead
<1>2. query.calm => s \in Needed
  BY <1>0, <1>1 DEF QueryKnown, Needed
<1>3. CASE FailOn(s)
  BY <1>0, <1>2, <1>3, FailedKnown
<1>4. CASE query' = [query EXCEPT !.todo = @ \ {s}]
  <2>1. /\ UNCHANGED <<Question, shard>> /\ query'.phase = "related"
        /\ query'.todo = query.todo \ {s} /\ query'.failed = query.failed
        /\ query'.found = query.found /\ query'.seen = query.seen
    BY <1>0, <1>4 DEF QueryStates, Question
  <2>2. /\ HitsOf(query.scope, query.want.any)' = HitsOf(query.scope, query.want.any)
        /\ ListedIn(query.scope)' = ListedIn(query.scope)
    BY <2>1, SameThere
  <2>3. QED
    BY <1>0, <2>1, <2>2 DEF QueryKnown, Question, IsPlan
<1>5. QED
  BY <1>1, <1>3, <1>4

LEMMA EndRelatedKnown ==
    ASSUME TypeInv, QueryKnown, EndRelated
    PROVE  QueryKnown'
<1>0. query \in QueryStates /\ query.phase = "related" /\ shard' = shard /\ outcome' = outcome
  BY DEF TypeInv, TypeOK, EndRelated, artifacts
<1>1. PICK related \in SUBSET query.seen :
         query' = [query EXCEPT !.phase = AfterShards, !.found = @ \union related]
  BY DEF EndRelated
<1>2. query.calm => /\ IsPlan(query.mode) /\ related \subseteq ListedIn(query.scope)
                    /\ query.found = HitsOf(query.scope, query.want.any)
                    /\ query.found \subseteq ListedIn(query.scope)
  BY <1>0, HitsAreListed DEF QueryKnown
<1>3. CASE AfterShards = "done"
  <2>1. related \in SUBSET Files
    BY <1>0 DEF QueryStates
  <2>2. CASE query.calm
    BY <1>0, <1>1, <1>2, <1>3, <2>1, <2>2, EndedKnown
  <2>3. CASE ~query.calm
    BY <1>0, <1>1, <2>3 DEF QueryKnown, QueryStates
  <2>4. QED
    BY <2>2, <2>3
<1>4. CASE AfterShards = "channel"
  <2>1. /\ UNCHANGED <<Question, shard>> /\ query'.phase = "channel" /\ query'.failed = query.failed
        /\ query'.found = query.found \union related
    BY <1>0, <1>1, <1>4 DEF Question, QueryStates
  <2>2. /\ HitsOf(query.scope, query.want.any)' = HitsOf(query.scope, query.want.any)
        /\ ListedIn(query.scope)' = ListedIn(query.scope)
    BY <2>1, SameThere
  <2>3. QED
    BY <1>0, <1>2, <2>1, <2>2 DEF QueryKnown, Question, IsPlan
<1>5. QED
  BY <1>3, <1>4 DEF AfterShards

LEMMA ChannelKnown ==
    ASSUME TypeInv, MapInv, BuiltKnown, QueryKnown, QueryTextChannel
    PROVE  QueryKnown'
<1>0. query \in QueryStates /\ query.phase = "channel" /\ shard' = shard /\ outcome' = outcome
  BY DEF TypeInv, TypeOK, QueryTextChannel, artifacts
<1>1. query.calm => /\ IsPlan(query.mode)
                    /\ HitsOf(query.scope, query.want.any) \subseteq query.found
                    /\ query.found \subseteq ListedIn(query.scope)
  BY <1>0 DEF QueryKnown
<1>2. ASSUME NEW more \in SUBSET Files,
             query' = [query EXCEPT !.phase = "done", !.found = @ \union more],
             query.calm /\ (query.mode = "filtered" \/ query.began = "built") =>
                more \subseteq ListedIn(query.scope)
      PROVE  QueryKnown'
  <2>1. CASE query.calm
    BY <1>0, <1>1, <1>2, <2>1, EndedKnown
  <2>2. CASE ~query.calm
    BY <1>0, <1>2, <2>2 DEF QueryKnown, QueryStates
  <2>3. QED
    BY <2>1, <2>2
<1>3. CASE query' = [query EXCEPT !.phase = "done"]
  <2>1. query' = [query EXCEPT !.phase = "done", !.found = @ \union {}] /\ {} \in SUBSET Files
    BY <1>0, <1>3 DEF QueryStates
  <2>2. QED
    BY <1>2, <2>1
<1>4. CASE /\ query.mode = "plan"
           /\ query' = [query EXCEPT !.phase = "done", !.found = @ \union CacheHits(query.want.all)]
  <2>1. CacheHits(query.want.all) \in SUBSET Files
    BY DEF CacheHits
  <2>2. query.calm /\ query.began = "built" => CacheHits(query.want.all) \subseteq ListedIn(query.scope)
    BY <1>4, CacheIsShards, HitsAreListed DEF QueryKnown
  <2>3. QED
    BY <1>2, <1>4, <2>1, <2>2
<1>5. ASSUME NEW s \in query.scope, FailOn(s)
      PROVE  QueryKnown'
  BY <1>0, <1>5, FailedKnown DEF Needed, QueryStates
<1>6. CASE query' = [query EXCEPT !.phase = "done",
                        !.found = @ \union (CacheHits(query.want.all) \intersect ListedIn(query.scope))]
  <2>1. CacheHits(query.want.all) \intersect ListedIn(query.scope) \in SUBSET Files
    BY DEF CacheHits
  <2>2. QED
    BY <1>2, <1>6, <2>1
<1>7. QED
  BY <1>3, <1>4, <1>5, <1>6 DEF QueryTextChannel

LEMMA QueryStep ==
    ASSUME TypeInv, MapInv, BuiltKnown, QueryKnown, [Next]_vars
    PROVE  QueryKnown'
<1>1. CASE CreateShard \/ WriteRecord
  BY <1>1, DisturbedKnown DEF CreateShard, WriteRecord
<1>2. CASE Abort
  <2>1. CASE UNCHANGED <<shard, query>>
    BY <1>2, <2>1, StillKnown DEF Abort
  <2>2. QED
    BY <1>2, <2>1, DisturbedKnown DEF Abort
<1>3. CASE \/ StartMap \/ Scan \/ CloseShard \/ TruncateIndex \/ ProbeFTS5 \/ DropTables
           \/ CreateTables \/ LoadEntries \/ InsertEntries \/ BuildFails \/ Edit
  BY <1>3, StillKnown
     DEF StartMap, Scan, CloseShard, TruncateIndex, ProbeFTS5, DropTables, CreateTables,
         LoadEntries, InsertEntries, BuildFails, Edit, artifacts
<1>4. CASE WriteIndex
  <2>1. outcome # "built" /\ query' = query /\ shard' = shard
    BY <1>4 DEF WriteIndex, MapInv, OutcomeKnown, Rewriting
  <2>2. QED
    BY <2>1, StillKnown
<1>5. CASE StartQuery \/ QueryCache
  BY <1>5, StartKnown, CacheKnown
<1>6. CASE ReadShard \/ EndFallback \/ ReadRelated \/ EndRelated \/ QueryTextChannel
  BY <1>6, ReadKnown, EndFallbackKnown, ReadRelatedKnown, EndRelatedKnown, ChannelKnown
<1>7. CASE UNCHANGED vars
  BY <1>7, StillKnown DEF vars, artifacts
<1>8. QED
  BY <1>1, <1>2, <1>3, <1>4, <1>5, <1>6, <1>7 DEF Next

LEMMA QueryInvariant == Spec => [](TypeInv /\ MapInv /\ BuiltKnown /\ QueryKnown)
<1>1. Init => BuiltKnown /\ QueryKnown
  BY DEF Init, NoQuery, BuiltKnown, QueryKnown
<1>2. QED
  BY <1>1, BuiltStep, QueryStep, Invariant, PTL DEF Spec

(* A query during which no shard changed answers if the shards it needs    *)
(* are whole, whatever state the cache is in and whatever a cache build    *)
(* does to it; a plan that names shards stays within them.                 *)
THEOREM QueryCompleteAlways == Spec => []QueryComplete
<1>1. QueryKnown => QueryComplete
  BY DEF QueryKnown, Answered, QueryComplete
<1>2. QED
  BY <1>1, QueryInvariant, PTL

(* After a map that built the cache, and while `map --check` says fresh, a *)
(* query answers from the files as they are.                               *)
THEOREM QueryCurrentAlways == Spec => []QueryCurrent
<1>1. TypeInv /\ MapInv /\ QueryKnown => QueryCurrent
  <2> SUFFICES ASSUME TypeInv, MapInv, QueryKnown,
                      query.phase = "done", query.calm, query.began = "built",
                      CheckStaleness = "fresh"
               PROVE  /\ ~query.failed
                      /\ query.mode = "text" =>
                           query.found \in {PathsOf(Live \intersect query.want.all),
                                            PathsOf(Live \intersect query.want.any)}
                      /\ query.mode = "plan" =>
                           /\ PathsOf(Live \intersect query.want.any) \subseteq query.found
                           /\ query.found \subseteq PathsOf(Live)
    BY DEF QueryCurrent
  <2>1. outcome = "built" /\ Answered /\ (query.mode \in {"text", "plan"} => query.scope = Shards)
    BY DEF QueryKnown
  <2>2. Complete /\ TypeOK /\ index \in Indexes
    BY <2>1 DEF Complete, TypeInv, MapInv, OutcomeKnown
  <2>3. index.files = ScanDirWithOptions(tree, saved)
    BY <2>2, FreshIsSame
  <2>4. ASSUME NEW s \in Shards
        PROVE  /\ shard[s] # Absent /\ Readable(s)
               /\ shard[s].records = RecordsOf(ScanDirWithOptions(tree, saved), s)
    BY <2>2, <2>3, AgreeingShards DEF MapInv, Readable
  <2>5. ASSUME NEW s \in Shards, NEW f \in Files, NEW c \in Contents
        PROVE  <<s, f, c>> \in Live <=> <<f, c>> \in RecordsOf(ScanDirWithOptions(tree, saved), s)
    BY DEF Live, Entries
  <2>6. ASSUME NEW wanted PROVE HitsOf(Shards, wanted) = PathsOf(Live \intersect wanted)
    <3>1. ASSUME NEW f \in Files
          PROVE  f \in HitsOf(Shards, wanted) <=> f \in PathsOf(Live \intersect wanted)
      <4>1. f \in HitsOf(Shards, wanted) <=>
              \E s \in Shards, c \in Contents : <<s, f, c>> \in wanted /\ <<f, c>> \in shard[s].records
        BY <2>4 DEF HitsOf, Hits
      <4>2. QED
        BY <2>4, <2>5, <4>1 DEF PathsOf
    <3>2. HitsOf(Shards, wanted) \subseteq Files /\ PathsOf(Live \intersect wanted) \subseteq Files
      BY DEF HitsOf, PathsOf
    <3>3. QED
      BY <3>1, <3>2
  <2>7. ListedIn(Shards) = PathsOf(Live)
    <3>1. ASSUME NEW f \in Files
          PROVE  f \in ListedIn(Shards) <=> f \in PathsOf(Live)
      <4>1. f \in ListedIn(Shards) <=> \E s \in Shards, c \in Contents : <<f, c>> \in shard[s].records
        BY <2>4 DEF ListedIn, Listed
      <4>2. f \in PathsOf(Live) <=> \E s \in Shards, c \in Contents : <<s, f, c>> \in Live
        BY DEF PathsOf
      <4>3. \A s \in Shards, c \in Contents : <<s, f, c>> \in Live <=> <<f, c>> \in shard[s].records
        BY <2>4, <2>5
      <4>4. QED
        BY <4>1, <4>2, <4>3
    <3>2. ListedIn(Shards) \subseteq Files /\ PathsOf(Live) \subseteq Files
      BY DEF ListedIn, PathsOf
    <3>3. QED
      BY <3>1, <3>2
  <2>8. Needed \subseteq Shards
    BY <2>2, RelationsAssumption DEF Needed, TypeOK, QueryStates, NoQuery
  <2>9. ~query.failed
    BY <2>1, <2>4, <2>8 DEF Answered
  <2>10. QED
    BY <2>1, <2>6, <2>7, <2>9 DEF Answered, IsPlan
<1>2. QED
  BY <1>1, QueryInvariant, PTL
=============================================================================
