# Verification of aidlc

`aidlc` installs a development-lifecycle payload (personas, skills, templates) into a
target repository, keeps it up to date without touching what the user wrote, renders it
for several IDEs, and maintains a map of the repository that agents query. This
directory holds TLA+ models of the parts of it that write shared state, the TLC runs that
check them on small instances, and TLAPS proofs of the most important invariants for
every value of the constants. `PROJECT.json` lists every run, mutant, mapped definition,
hazard, finding and theorem; paths below are relative to `src/aidlc/internal/` unless
they start with `src/`.

## 1. Inventory

| Component | State | Operations | Where it is hard | What makes it correct |
|---|---|---|---|---|
| Template sync (`sync/`, `commands/init.go`, `commands/update.go`) | payload files on disk, tracked checksums in `aidlc.lock.json` | `init`, `update`, both with `--force` and `--dry-run` | plan first, write later, file by file, lock last; no lock file; no undo | user's work is kept, the lock is honest, a failed command can be run again |
| Lock store (`sync/manifest_store.go`) | `aidlc.lock.json`, the legacy `.aidlc/manifest.json` | typed read and write (init, update, `skill remove`), raw edit (`map`) | four writers with different ideas of the content; read-modify-write | nobody loses a field that is not theirs |
| Installed skills (`skills/`, `generator/generator.go`) | `.ai/skills/installed/*`, projections in IDE folders, ownership records in the lock | `skill install`, `skill remove`, the projection part of Generate | source, projections and records change in separate steps | manual edits survive, nothing owned is forgotten, a retry is not blocked |
| Repository map (`repomap/`, `repomap/cache/`, `commands/map.go`) | `docs/map/*.jsonl`, `index.json`, `repo-map.sqlite`, the saved whitelist | `map`, `map --check` | shards are truncated in place one after the other; the cache is rebuilt in autocommitted steps and may fail silently | artifacts of one scan, an honest freshness check |
| Queries (`commands/query.go`, `repomap/fallback.go`, `repomap/cache/query.go`) | none | `query` by text, shard, plan | reads the artifacts while a map rewrites them, some of them twice; cache and shards match by different rules | nothing that whole shards match is lost, answers are of the files as they are |
| Query engine and ranking (`repomap/queryengine.go`, `repomap/retrieval.go`, `repomap/model/`) | none | plan normalisation, fusion, limits | duplicates, ties, candidate limits | fused order, nothing lost below the limit |
| Exact search (`search/exact.go`) | budgets of results, bytes and time | one `rg` per literal | three limits and a deadline across a loop | totals within budget, truncation reported |
| Self-upgrade (`install/upgrade.go`, `install/checksums.go`) | the binary, staged and backup files, the release upstream | `upgrade` | three requests; on Windows two renames | the binary is whole, recoverable, and what was verified |
| Template sources (`source/`, `payload/`) | none | snapshot from disk, archive or GitHub; `ValidateSnapshot` | files are read one by one after the manifest; validation renames in place, twice | exactly the declared payload, each target with its source's bytes |
| Task validation (`commands/validate.go`, `contract/task_record.go`) | none (reads git and the task record) | `validate` | evidence that was true earlier | stale evidence never passes |
| Spec finalisation (`src/.ai/scripts/finalize_spec.sh`) | in-flight tracker, spec status, commits | the script, run by CI and by hand | four steps that can stop between any two; several runs push to one branch; nothing reruns one that failed | tracker and status change together, and stay changed once a run reports success |
| Rendering, project facts, extraction, doctor, benchmark, CLI, installers | files, read or written once | formatting, parsing, I/O | - | - |

Interaction: `init` and `update` take a payload snapshot from a source, plan with the
lock's records, write files, call Generate (which also projects the installed skills) and
replace the lock. `skill install` only writes the source tree; `skill remove` deletes
source and projections and rewrites the lock. `map` saves its whitelist in the same lock,
then writes shards, index and cache, which `query` reads; a structured query ranks what it
read, fuses it with the cache's rows and with the exact search's, and answers. Every command
is a process of its own; all they share is the file system, and no command locks anything.

## 2. Modules

| Module | Models | Status |
|---|---|---|
| `SyncPlan` | the pure part of `sync/`: what BuildPlan decides per path, what is written, what each command records | done |
| `TemplateSync` | init and update as processes over disk, lock and releases | done |
| `TrackedWorkspace` | the abstract promise of TemplateSync: files, claimed contents, risk | done, refined by TemplateSync |
| `MCTemplateSync` | payloads for TLC | done |
| `TemplateSyncProofs` | type correctness, LockOnlyClaimsHeld, UserWorkKept, RetryIsClean, LockRecordsInstalled, UpdateRendersSelection, SelectionKept, and the refinement KeepsPromise | done |
| `ManifestLock` | the content of the lock and its four writers, with the legacy manifest | done |
| `SkillProjections`, `MCSkillProjections` | install, remove, Generate's projections, file by file | done |
| `LockProofs` | of both: type correctness, all properties of `SkillProjections`, and FoldersKept, SelectionCarried, OthersFieldsKept | done |
| `RepoMap`, `MCRepoMap` | map, its artifacts and cache, `--check`, queries | done |
| `RepoMapProofs` | type correctness, MapAgrees, CheckIsRight, CacheWhole, QueryComplete, QueryCurrent | done |
| `Upgrade`, `MCUpgrade` | `upgrade`: plan, skip, download, verify, Unix and Windows replacement, with releases uploaded again | done |
| `UpgradeProofs` | type correctness, InstalledIsPublished, Recoverable, DestinationSettled | done |
| `ValidateEvidence`, `MCValidateEvidence` | `validate`: evidence and changed files against edits, renames and commits | done |
| `ValidateEvidenceProofs` | type correctness, EvidenceIsCurrent, ChangesAreCovered | done |
| `ExactSearch`, `MCExactSearch` | `SearchExact` and its `rg` processes: the budgets, the pipe, the deadline | done |
| `QueryPlan`, `MCQueryPlan` | a structured query: channels, links, fusion, filters, cuts | done |
| `QueryProofs` | of `ExactSearch`: type correctness, WithinBudget, ResultsAreMatches, NoFileLostSilently; of `QueryPlan`: type correctness, BetterComesFirst, FiltersHold, CompleteBelowLimits | done |
| `SourceSnapshot`, `MCSourceSnapshot` | a fetch from manifest to plan: entries, files, both validations | done |
| `SourceSnapshotProofs` | type correctness, PlansDeclaredPayload, BytesComeFromSource, NothingExcludedEnters | done |
| `FinalizeSpec`, `MCFinalizeSpec` | the script's steps, stopped and run again, by CI and by hand | done |
| `SpecLifecycle` | the abstract promise of FinalizeSpec: whole finalisations, nothing undone | done, refined by FinalizeSpec |
| `FinalizeSpecProofs` | type correctness, EntryAndStatusTogether, RunsKeepToTheirSpec, SuccessIsPublished, and the refinement KeepsLifecycle | done |

### TemplateSync

`disk[p]` is the content of payload path `p`; a content stands for its SHA-256 checksum,
so that equal checksums are equal contents. `lock` has the release, the tracked contents
and the selected IDEs. `cmd[c]` is one running command and holds exactly what the Go
function holds in locals: mode and flags, the lock it read, the snapshot, the plan. The
actions follow `RunInit` and `RunUpdate` in order: `ReadManifest`, `Snapshot`, `Plan`,
then per path `BeginWrite`/`FinishWrite` (`os.WriteFile` truncates, then writes),
`BeginGenerate`, one `GenerateIDE` per IDE, `EndGenerate`, `WriteManifest` (atomic: a
temporary file is renamed). `Abort` is any error return or a crash, between any two
steps, with nothing undone. `Edit` is the user, `Publish` the source. Dry runs and
update's stop at a conflict end in `Plan`.

The variables `held`, `excused`, `attempts`, `fresh` and `unseen` only record history for
the properties; no guard reads them. Abstractions: BuildPlan reads all the files in one step;
rendering an IDE is one step that succeeds from any payload (its files are in
SkillProjections as far as they are skill projections).

### ManifestLock

The lock's fields that commands treat differently: the map whitelist (absent and empty
are different in the file and the same in the Go struct), the IDE selection, the install
record, the owned projections, and whether there are unknown fields. `WriteManifest` and
`WriteManifestMapInclude` are the two functions of that name; `ReadManifest` prefers the
root lock to the legacy manifest and normalises. A command reads (`Start`, `StartMap`),
composes its new content from what it read and from what is on disk when it composes
(`Compose...`), and renames. Its definitions have names of their own (`StoreInit`,
`Resting`, `Missing`), so that `LockProofs` can extend it together with
`SkillProjections`.

With two commands at once a field can be lost: an `init` composed before a `map` renames
its whitelist, and renamed after it, puts the earlier whitelist back, as `skill remove`
does with the projections of an `update` that ran between its read and its write. The
module admits any number of commands; nothing in the repository promises
isolation between processes, so the properties are stated for one command at a time;
the hazard at `sync/manifest_store.go:177` says so.

### SkillProjections

One skill, its source tree file by file, its projection for each native IDE, the lock's
ownership records. One skill stands for all: what a command does to one depends on no
other, except that Generate refuses to start when any is broken (`Loadable` of the one).
`Preflight` is everything checked before anything is written; `CheckIDE` is the second
check before each IDE; writes are truncate-then-write. A crash between projection and
lock leaves projections that no record owns: the retry accepts them while the source is
unchanged, and after the source changed they are in the way and no remove deletes them.
A partly copied tree whose SKILL.md was written is projected as if whole.

### RepoMap

A record is a file and its content, a shard the set of records written so far and whether
the last is cut; `index.json` is absent, truncated, or a whitelist and a scan. The cache
is whether there is a database file and what its table has. `map` scans (one step), then
opens, writes and closes shard by shard, rewrites the index in two steps, and builds the
cache statement by statement: each is its own transaction, except the probe, which is
rolled back, and the inserts, which are one. `Abort` is an error before the cache or a
kill, `BuildFails` an error of the build (which `map` only reports) or a kill.

A query is read by read: the cache, then shard by shard, or shards and then the cache as a
second channel of a plan. What it matches is a constant (`Queries`): the shards' records
that have any of its words, as a part of the text (`matchScore`), and the cache's rows that
have all of them, as tokens (`ftsMatchQueryFromTerms`). Neither set is assumed to contain
the other. A plan that found something in its shards (`EndFallback`) reads the relationship
shards again, whatever shards it names (`ReadRelated`), and may add any of the files whose
records it has read (`EndRelated`); a plan that restricts the records keeps only the cached
paths that the shards have when it looks (`QueryTextChannel`). The answer is a set of paths:
what order, links and limits give of one whole map is `QueryPlan`. Any read of the cache may
fail (a locked database, no table). One map and one query run at a time; two concurrent
maps are not modelled.

### Upgrade

A binary is its release and the number of the build, since the release workflow, run
again for a tag, replaces the assets of the release (`gh release upload --clobber`), the
archive and `checksums.txt` one after the other; a checksum is the build it is of.
`cmd[c]` is one `aidlc upgrade` with its locals: selector, `--dry-run`, running version,
resolved release, downloaded checksum, staged file, backup. `PlanUpgrade` is
`planUpgrade` with the dry run's and the skip's early returns, `DownloadChecksums` and
`DownloadArchive` (with the verification) the other two requests, `CreateStaged` and
`WriteStaged` the temporary file, `ReplaceBinary` the rename on Unix, and
`InspectDestination` .. `RemoveBackup` the steps of `replaceBinaryWindows`. `Fail` is an
error return of anything before the last rename, `RollBack` of that rename, `Kill` the end
of the process between any two steps. All upgrades have the same destination and the
same upstream repository; staged files that a kill leaves behind are not kept track of.
`had`, `expected` and `overlapped` record history for the properties.

### ValidateEvidence

The repository is the list of committed trees, the working tree and the renames staged in
the index; the task record on disk has owned files, passed checks and a review. `run` is
one `aidlc validate` with its locals, which reads HEAD (`Start`), spec and record
(`ReadEvidence`), `git diff` (`GitDiff`), `git status` (`GitStatus`), each of the owned files
(`DigestOwnedFile`) and then the revisions of the checks (`ValidateCheckEvidence`) and of the
review (`Pass`) one after the other, while the user takes any steps in between. A digest is the
function it is the SHA-256 of. The model keeps that `git diff --name-only` names a rename
by its new path and `parseGitStatusPaths` by its old one, that a rename is only seen when
contents match, and that the revision of evidence may be the name `HEAD`, which never goes
stale.

Agents are honest: evidence is recorded with the digest of the owned files at that moment.
The base of the task is the first commit. Failed and skipped checks, which validate
ignores, `--changed-file`, and the record's own optional digest, which only adds a
failure, are left out. The spec's file is exempt and may say anything when it is read. The
record's file is ignored by git: one that is tracked would be a changed file, would have
to be among its own owned files, and so would have to contain its own digest. Git works
whenever it is run, except that any command may fail the validation (`NoPass`) and that
without a base a failing `git status` counts as no changes (`NoGitStatus`).
`checked`, `reviewed`, `disturbed` and `during` (what each owned file contained from the
start of the reading until its turn) record history for the properties.

### ExactSearch

`SearchExact` runs one `rg` per literal and shares `max_results`, `max_bytes` and one
deadline among them. The search and the `rg` it started are two processes with a pipe
between them: `Read` takes what is in the pipe up to one byte past what is left,
`StopReading` goes on to `cmd.Wait`, and only when `rg` has ended (`RGEnds`, `Kill`) are
the results taken (`TakeResults`) or the literal given up (`RGFailed`), as it also is when
the pipe cannot be read (`ReadFails`) or when the deadline kills an `rg` that has exited and
was not yet waited for (`Kill`). `StopAtLimit` and
`AllSearched` are the two ends of the loop. A line of output is a file and a line number,
with a header that must be whole to be parsed. Hints that are spelled differently may
overlap, and `rg` then searches a file once for each (`SearchPaths`, `FilesUnder`). `rg` is external: it prints the matching
lines in any order, stops at any time, fails when a hint names nothing, and may hang.
`Normalize` is the assumption on the constants. Errors of resolving the root and a cancelled
caller are left out. `consumed` and `whole` record history.

### QueryPlan

What a record says is reduced to its scores for the plan at hand, so that a corpus is a
profile per path: its records with shard, language and three scores, its hint score,
whether it looks like a test. From there on the model does what the code does:
`planEntries` with `planAllowsEntry`, the four channels with their weights and cuts,
related files along imports and tests to a depth, reciprocal-rank fusion
(`fuseRankedLists`), the cache's lists with their own fusion and then the filter, the
fusion of both (`fuseCacheFallbackPlanResults`), and the exact matches
(`augmentWithExactSearch`). Weights and scores are integers, with a common multiple of the
ranks for the fractions, and each fusion multiplies the unit of its inputs by `Scale`. The
cache may give any list of recorded paths, or none; the exact search any number of matches,
also in files without a record. A bm25 score is negative, and so adds nothing
(`Unscored`).

What the code sorts is put in order by counting what is ahead of an element (`InOrder`),
and sums over lists are a recursive function (`Total`): both can be proved about. An
element of a channel's ranking is a path with the place of its entry and a score (`Found`),
`Higher` is the comparison of both of the code's sorts. The arithmetic is exact, where the
code's is in 64-bit floating point: scores that differ by less than its rounding would be
ordered by path there. The names of the module (`PlanInit`, `PlanNext`, `stage`) let it be
extended together with `ExactSearch`.

### SourceSnapshot

`fetch` is one `init` or `update` up to the plan: the manifest it read (`Start`), the files
read so far, and whether from an archive, which is a copy of the tree, or from a local
directory that its author goes on changing (`EditTree`). `ReadFile` reads the next entry's
source and gives it the target's path; `ReturnSnapshot` and `BuildPlan` both validate, and
validation renames every file whose path is the source of a mapping (`RenameAll`). A
file's content is the path it was read from. Paths are normalised; HTTP, zip files and
the syntax of the manifest are abstracted away, and so are wildcards: an include with one
names no file, and an exclude with one equals no path.

### FinalizeSpec

`origin` is the tree of the default branch (tracker, spec files, implemented specs) with
the number of its commits; a run has its own checkout, commit and base. `Checkout` starts
the workflow's run of a merged branch, or the rerun of one that failed, which somebody may
start and nothing does; a branch may have no spec; `RunLocally` a maintainer's run with
any of a set of arguments; `ResolveSpecPath`, `RemoveFromInFlight`,
`SetSpecStatusImplemented`, `CommitFinalize`, `NoPush`, `Push`, `PushRejected` are the script
in order. `Kill` ends a run anywhere, and `Push` may succeed without the run learning it.
Branches are opened and merged meanwhile, so that a checkout gets behind and its push is
rejected. Dry runs, the formats of tracker and frontmatter, and a local rerun over what a
killed one left in the clone are left out.

## 3. Runs

| Run | Bounds | Distinct states | Shows |
|---|---|---|---|
| `sync_sequential` | 2 paths, 2 IDEs, 2 releases (one file changes, one is dropped), a text of the user's own, saved at any moment | 1.7 M | all seven properties of init and update, with failures anywhere |
| `lock_sequential` | 2 IDEs, 2 folders, 2 install records, 1 skill | 79 K | fields survive any sequence of the four commands |
| `skills` | 2 files, a native and a plain IDE, 2 versions (one drops a file) | 4.1 M | edits survive, records are accounted for, retries, update projects, remove leaves only what diverged |
| `repomap` | 2 files (a folder's and a root file), 2 shards of different files, one of them a relationship shard, 2 queries that match differently in cache and shards, 2 whitelists, 2 maps, 1 edit | 5.5 M (symmetry of contents) | the artifacts agree, the check is right, queries answer what they should |
| `repomap_fresh` | the same without edits | counterexample | finding 1 |
| `query_plan` | 3 paths of 5 kinds, 3 sets of links, 4 plans, limit 2, 4 candidates, cache lists of up to 2 rows, up to 1 exact match per path | 832 K | the order is kept, filters hold, nothing is lost below the limits |
| `exact_search` | 2 literals, 2 files of up to 2 matching lines, 3 results, 5 bytes, a pipe of 1 byte, 4 hints: a file, its folder, nothing, a path outside | 894 K | the limits hold, results match, nothing is lost in silence, the search returns |
| `source_snapshot` | 3 public paths and a private one, every manifest of up to 1 included path, 2 mappings, 1 exclude, and a circle of 3 mappings, 2 edits | 534 K | what is planned is the declared payload, with the sources' bytes |
| `upgrade` | 2 upgrades, 2 releases of at most 2 builds each, Unix and Windows, an empty destination or the first release | 1.2 M (symmetry of upgrades) | the destination is whole, verified and recoverable |
| `validate` | a file of the task, one that may be created, one of a nested scope; 2 contents, 2 commits, 4 steps of the user; 1 or 2 owned files, read one by one, of which the spec allows one or none | 6.4 M | what passes has current evidence and changed only what it may |
| `validate_renames` | the same | counterexample | finding 2 |
| `finalize_spec` | 2 branches with a spec each and one without, 1 kill or lost answer, 1 run of the maintainer with 3 sets of arguments | 1.8 M (up to the numbers of commits) | tracker and status change together and stay so, runs keep to their spec, the default branch sees whole finalisations only |

Why the bounds are enough to be interesting. `Decide` compares three contents of one path:
two releases, an absent file and the user's text give every pattern of equality; an old
release's text is what an earlier command left. Paths only interact through conflicts and the order of writes,
which two paths show. A failure between any two steps of two successive commands needs no
third. `TemplateSync`, `ManifestLock` and `SkillProjections` have no bound on the number
of commands, failures or edits: their state spaces are finite as they are. In `RepoMap`,
`MaxMaps = 2` and `MaxEdits = 1` bound the commands and edits: the second map starts from
any remains of the first, and a third finds what the second could have left; the edit is
placed anywhere, and every initial tree is considered. In `Upgrade`, `MaxRelease` and
`MaxBuild` bound what is published: two builds show an archive and a checksum that do not
belong together, two releases a "latest" that changes under the requests; upgrades,
failures and kills are not bounded.
In `ValidateEvidence`, `MaxChanges = 4` allows a change, a check, a review and one step
more, which may be a commit or an edit at the wrong moment; `MaxCommits = 2` is the base
and one later commit.

In `ExactSearch`, `MaxLines = 2` matching lines of each file per literal are more lines
than there are results (3) and more bytes than may be read (5 bytes, in lines of 2 with a
header of 1), so that each limit can be hit by the first or by the second literal, and
inside a line; a pipe of 1 byte makes `rg` wait for the search. In `QueryPlan` one more
record may match than there are candidates (4) and one more path than the limit (2);
`ScoreDivisor = 10` instead of the code's 1000 keeps the integers inside TLC's and lets
scores weigh more against ranks than they do, and `RankScale = 12` is a common multiple of
the ranks. The proofs hold for any `ScoreDivisor` and any common multiple.

In `SourceSnapshot` three public paths give chains, swaps, shared sources and a circle;
`MaxEdits = 2` removes a file and puts it back. In `RepoMap` a file may have a record in the
files shard and in the second, and a query matches in the cache and in the shards what the
other does not have. In `FinalizeSpec` two branches make a push be rejected, and the third,
without a spec, meets no spec, one or two; `MaxKills = 1` and `MaxLocalRuns = 1` let one run
stop anywhere and one maintainer interfere; reruns are not bounded. The run's `VIEW` leaves
out the numbers of commits and keeps whether a checkout is behind: no step or property asks
for more, and a push only for that.

Deadlock is checked in every run but `finalize_spec`: there the system stops, when every
branch is merged and every run done.

### Properties

* **TemplateSync.** `LockOnlyClaimsHeld`: no lock entry for a content the file never had.
  `RetryIsClean`: after a failure, update finds no conflict in files the user has not
  touched. `UserWorkKept`: without `--force` no text of the user's own is replaced that was
  there when the command planned; a save between the plan and the write is lost, as in the
  code. `LockRecordsInstalled`: a new lock tracks exactly the installed files, but for those
  saved while the command ran. `UpdateRendersSelection`, `SelectionKept`: IDEs are rendered
  from the payload on disk, and stay selected. `KeepsPromise`: refinement of
  `TrackedWorkspace`, where the user puts work at risk with a forced command, or by saving
  while one runs.
* **ManifestLock.** `FoldersKept`, `SelectionCarried`, `OthersFieldsKept`: a whitelist with
  folders, a selection (also of the legacy manifest) and fields that are not the command's
  survive.
* **SkillProjections.** `ManualEditsKept`, `RecordsAccounted`, `RetryNotBlocked`,
  `RemoveLeavesDiverged`, `UpdateProjectsSkill`.
* **RepoMap.** `MapAgrees`: once a map wrote its index, shards and index are of one scan.
  `CheckIsRight`: then `--check` says fresh exactly when a map would write the same.
  `CacheWhole`: the cache's table is missing, empty or of one scan. `QueryComplete`: a
  query that no shard write overlaps answers if the shards it needs are whole - a plan that
  found something also needs the relationship shards - whatever a cache build does
  meanwhile: one shard exactly, a plan at least what its shards match, raw text something
  if they match anything. `QueryCurrent`: after a cached map and while the check says fresh,
  raw text gets exactly what the cache or what the shards match in the files as they are,
  and a plan what the shards match and no file that is gone.
* **Upgrade.** `TypeOK`: the destination has a whole binary or none. `InstalledIsPublished`:
  what is put in place is of the resolved release, with archive and checksum published.
  `Recoverable`: there is always a binary, on Windows perhaps only as a backup.
  `DestinationSettled`: while upgrades run one at a time, that is the last one put in
  place. With two at once on Windows, a failed one may move its older backup back over
  what the other has just installed; nothing in the repository promises otherwise.
* **ValidateEvidence.** `EvidenceIsCurrent`: when a task passes, there was a check and, at
  high risk, a review of one moment, at this commit unless only `HEAD` was recorded, and
  every owned file had its contents of that moment at some time between the start of the
  reading and its own turn. If the user edits none of them meanwhile, they are as they
  were checked; the property says no more, because an edit between two reads can pass.
  `ChangesAreCovered`: a high-risk task left alone while it is validated passes only when
  all it changed since its base is in scope, spec and owned files, or is one end of a
  rename whose other end is.
* **ExactSearch.** `WithinBudget`: all processes together give no more results than
  max_results and are read no more than max_bytes and one byte of. `ResultsAreMatches`:
  every result matches, where the hints ask for it, once for each hint it is under.
  `NoFileLostSilently`: what a literal found in full stays in the answer, and an answer that
  says nothing is missing misses no file. `SearchReturns`: termination, with an `rg` that
  hangs or waits for room in the pipe.
* **QueryPlan.** `BetterComesFirst`: no stage puts a path before one that is better in every
  channel. `FiltersHold`: fallback, links and cache find nothing the plan excludes.
  `CompleteBelowLimits`: where nothing has to be cut, every path that matches is answered.
  `PlanTypeOK`: rows and limits.
* **SourceSnapshot.** `PlansDeclaredPayload`: a plan has a file for every target the manifest
  declares, each once, and no other. `BytesComeFromSource`: with the source's bytes, unless a
  target is another entry's source.
* **FinalizeSpec.** `EntryAndStatusTogether`: on the default branch, a merged spec is in the
  tracker or implemented. `RunsKeepToTheirSpec`: the run of a branch with a spec,
  however often repeated, changes no other spec; one without a spec changes none but the
  only one there is. `KeepsLifecycle`: refinement of `SpecLifecycle`, where a commit on the
  default branch is a branch's, or a finalisation of one spec as a whole that leaves what
  was committed since the checkout. `SuccessIsPublished`: the spec of a branch whose run
  reported success is implemented and out of the tracker on the default branch, and stays
  so. That every merged spec is finalised in the end is not true (below).

Each property of a passing run has a mutant of the code's definition (named "Mutant of
..." or "A bug" beside it) that TLC refutes. Type invariants that are proved are not run, but for
`PlanTypeOK`, which has the limits.

### Fairness

Only `ExactSearch` assumes any: weak fairness of `Search` (the goroutine runs), `Deadline`
(`context.WithTimeout`, line 70) and `Kill` (`exec.CommandContext` kills `rg` when the context
ends). Nothing is assumed of `rg`. `init` and `update` need not return: the GitHub source
uses `http.DefaultClient`, which has no timeout (`source/github.go:32-35`). A merged spec
need not be finalised: the workflow fires only when a pull request is closed, and nothing
runs it again. So no termination is claimed of them.

### Findings

1. `repomap_fresh` (`repomap/scanner.go:64`): a map killed while it rewrites shards leaves
   them truncated under an index that `--check` calls fresh.
2. `validate_renames` (`commands/validate.go:359`): of the two paths `git status -z` prints
   for a staged rename the old one is taken, so that a file may be renamed out of the
   approved spec, or into a nested scope, and the task passes.

Further things the models show, without a run of their own:

* A file the user saves between the plan and the write of a sync is replaced without
  `--force` (`sync/copy.go:37`).
* A first whitelist saved over a legacy manifest creates a root lock without its IDE
  selection, which then takes precedence (`sync/manifest_store.go:137`).
* A whitelist of no folders, which the prompt offers, is dropped by the next init, update
  or `skill remove`: the typed field is `omitempty` (`contract/manifest.go:32`,
  `sync/manifest_store.go:94`).
* After a map whose cache build failed before the old table was dropped, queries answer
  from the old cache (`commands/map.go:175`, `commands/query.go:256`).
* `finalize_spec.sh --spec S` on the default branch sets the status and leaves the tracker
  entry, since the entry to remove is that of the current branch (lines 194-197, 352-354).
* Mappings around a circle of three install bytes at wrong targets; a chain (A to B, B to
  C), or an included X with a mapping of X to Y, is refused as "duplicate source path"
  (`source/source.go:72`). `docs/blueprints/template-payload.md:114-115` says that source
  bytes come from the source path.
* A merged branch without a spec finalises the only spec there is, even when that is of a
  branch that is still open (`finalize_spec.sh:151-161`); its own branch's later run still
  finalises it as a whole.
* A finalisation whose push is rejected is not repeated: the spec stays in flight until
  somebody runs the script, although `docs/spec/README.md:101-102` says "run
  `make finalize-spec` or rely on CI" (`finalize_spec.sh:304`, `finalize-spec.yml`).
* When owned files are edited between two reads of a validation, it can pass although the
  tree was at no moment of the reading as it was checked: what it read is a mixture
  (`commands/validate.go:422`).
* A plan that names shards fails when `imports.jsonl` or `tests.jsonl` is cut, although its
  own shards are whole (`repomap/fallback.go:476-483`).
* Raw text is answered from the cache alone once it has a row, by files that have all words,
  where the shards have more with any of them (`commands/query.go:272-284`).
* A file under two hints is searched, and answered, once for each; only hints of the same
  spelling are dropped (`repomap/model/exact_search.go:101-122`).
* An `rg` that exited just before the deadline, and is killed before it is waited for, loses
  its lines, and the answer is "timed out" (`search/exact.go:156-172`).
* Exact results are not subject to the plan's filters; the cache's rows are cut before the
  filter, so that a filtered plan may get fewer of them than there are.
* Past the byte limit the exact search and an `rg` on a full pipe wait for each other until
  the deadline, and the answer is "timed out" without the lines that were read
  (`search/exact.go:155-156`).

## 4. Proofs

All are checked by TLAPS for any finite or infinite sets of paths, IDEs, commands,
releases, folders, files and shards that satisfy the named assumptions of the modules
(special values are distinct from data, payloads are functions of release and path).

* **TemplateSyncProofs.** `TypeCorrect`. `LockHonest` proves `LockOnlyClaimsHeld` for any
  number of concurrent commands, with edits at any time. It is not inductive: the
  invariant `HeldInv` adds that a running command has written, found in place or still has
  to write each file it accepted, that an update accepted its whole release
  (`CommandHonest`), and that what is on disk was held (`DiskHeld`); `held` only grows,
  which is why other processes cannot break it. `RetryClean` proves `RetryIsClean` from
  `UntouchedKnown`: a file the user has not touched is gone, or as the lock or one of the
  attempted releases has it. Like `LockHonest` it holds for concurrent commands, which no
  run needs to repeat.
* **TemplateSyncProofs, the user's work.** `UserWorkSafe` proves `UserWorkKept`, also for
  any number of commands at once and edits at any time, from `UnforcedWritesSafe`: a file
  that an unforced command still has to write is not user's work, or was saved since the
  plan (the history variable `unseen`, from which a command's pairs go when it writes the
  file or returns). The plan establishes it (`PlanWritesSafe`); no
  command puts user's work on disk (`NoWorkAppears`), and only a save adds to it.
* **TemplateSyncProofs, one command at a time.** Assuming one command at a time, which
  the code does without enforcing it, and edits at any moment, `LockTracksInstalled` and
  `UpdateRenders` prove `LockRecordsInstalled` and `UpdateRendersSelection`. What a
  command plans is true of the files when it plans; `Undisturbed` says what is still true
  of it at each later step: the files planned are as they were, written or in `unseen`, the
  IDEs rendered are those whose snapshot is now on disk, and the lock is the one that was
  read. `SelectionStays` proves `SelectionKept` from `ReadIsCurrent`. `PromiseKept` is the
  refinement: every step of init and update is a step of `TrackedWorkspace` or a stutter,
  one lemma per kind of step - `SavesStep` and `TruncateStep` change a file, `InstallStep`
  claims what a write put there, `RecordStep` replaces the lock - and each needs
  `LoneInv`, the conjunction of all these invariants.
* **LockProofs, projections.** For any files, IDEs, versions and edits, and with commands
  that stop at any step: `TypeCorrect`, `EditsKept`, `RetryNotBlockedAlways`,
  `RecordsAlwaysAccounted`, `RemoveLeavesOnlyDiverged`, `UpdateAlwaysProjects`, which are
  all the properties of `SkillProjections`. What a step deletes or overwrites was checked
  in an earlier phase, so `EditsSafe` says that nothing a command still has to delete or
  write is the user's. The records are composed while files are written and only renamed
  into the lock at the end: `Accounted` says that they are those of the projections as
  they are now, except of the `Pending` ones, where they are still those of the lock or
  none. `Diverged` and `Projected` are what `skill remove` and update add to that.
  `Explained` says of every projection on disk where it came from: from the lock, from a
  tree projected since, or it is excused. The IDEs and files are taken in order by a
  smallest element, which exists because the natural numbers are well-founded
  (`MinIsFirst`).
* **LockProofs, store.** `StoreTypeCorrect`; `FoldersSafe`, `SelectionSafe`, `FieldsSafe` for
  one command at a time. The lock changes at a rename, by content composed earlier:
  `LockInv` says that the manifest read is still current and that the composed content
  agrees with the lock on disk in what is not the command's own.
* **RepoMapProofs.** `TypeCorrect`, `MapAgreesAlways`, `CheckIsRightAlways`,
  `CacheWholeAlways`, with failures and kills at any step. Shards are written long before
  the index that describes them: `MapInv` says how far the running map has come
  (`ShardsWritten`), that a rewriting map has already marked the artifacts incomplete and
  one building the cache has complete ones (`OutcomeKnown`), and that what it loaded is
  of the index's scan (`CacheLoaded`). `CheckIsRight` then needs that files.jsonl has a
  record of every file, so that equal records are equal scans (`SameRecords`).
  `QueryCompleteAlways` and `QueryCurrentAlways` are about a process that reads shard by
  shard, some of them twice, or the cache's table in one step, while a map writes:
  `QueryKnown` says of every phase what a query has found and seen so far relative to the
  shards it still has to read, as long as no shard changed since it began, and that for a
  query begun when the last map had outcome "built" this is still the outcome; `Answered`
  says what a finished one has. `BuiltKnown` says that a map with outcome "built" left a
  table of the records of the index, so that what the cache matches is of live files.
  They hold for any relation between what the cache and what the shards match. The proofs
  needed the assumption that a table is not the sentinel for a missing one, which was added
  to `ArtifactAssumption`.
* **UpgradeProofs.** `TypeCorrect` and `InstalledIsPublishedAlways` need what an upgrade has
  downloaded so far (`Progress`): the assets are only replaced by later builds, so that a
  build it saw stays published. `RecoverableAlways` is not inductive as it stands - a
  backup may be on its way to be removed - and is proved from `HasBinary`, where the
  backup to recover from is one of an upgrade that has still to move its binary in.
  `DestinationSettledAlways` needs that nobody else moved a binary since (`Alone`), so that
  what was moved aside is what was expected (`AsideIsExpected`).
* **ValidateEvidenceProofs.** `TypeCorrect`, and `EvidenceIsCurrentAlways` for any steps of
  the user at any time. A validation compares evidence it read earlier with a HEAD it
  resolved earlier and with the files now: `EvidenceInv` says that every check and review,
  in the record on disk and in the one that was read, was recorded at a step that is
  still in the history (`RecordedIn`), with the digest of the files of that moment, so
  that equal digests are equal owned files (`CurrentWas`). `DigestInv` says of each owned
  file that is read that its content is one it had since the reading began (`during` only
  gains contents, and has the present one of a file that is still to be read), and that the
  checks accepted are of what was read (`OfDigest`). `ChangesAreCoveredAlways` is about a
  validation nobody disturbs: `ChangesInv` says that what it has collected is all that
  `git diff` and `git status` name, step by step, and `NewPathNamed` that the new path of
  every rename is one of those names, so that only the old path of a rename can be left out.
* **QueryProofs, exact search.** `TypeCorrect`, and `WithinBudgetAlways` for any files, literals and
  limits. `Accounts` makes the budget inductive: outside a literal, what all processes were
  read and what is left add up to at most `max_bytes`, unless nothing is left and one byte
  too many was read; inside, the bytes read from this `rg` are still to be paid.
  `ResultsAreMatchesAlways` and `NoFileLostSilentlyAlways` need what the process and the
  search hold between them (`ProcessKnown`: `rg` prints the lines of the literal at work,
  one that has exited has written them all, and a search that only waits has either read
  past its budget or read everything `rg` wrote) and what the answer holds of
  every literal that is done (`AnswerKnown`). The second fails in a model where a line may
  be all header: exactly max_bytes read could then end in a line that is parsed and not
  whole, and the answer would not say "truncated". A line of `rg` ends with a newline, which
  is what `SizeAssumption` now says (`HeaderBytes < LineBytes`).
* **QueryProofs, plans.** `PlanTypeCorrect`, `BetterComesFirstAlways`, `FiltersHoldAlways`,
  `CompleteBelowLimitsAlways` for any map, links, plans, limits and bounds. `BetterComesFirst`
  is about the answer only; what every stage keeps is `Ahead`: wherever a path is in a list,
  the better one is before it. Taking the first rows keeps that (`CutRows`), so does
  removing paths the plan excludes (`SelectRows`, since the better one is allowed), and a
  fusion keeps it of two lists or five (`FuseRows`): in each list the better path has a
  smaller first rank, as `RankScale` is a multiple of every rank that is a strictly greater
  share (`Reciprocal`), and as the lists are sorted no smaller a score, so that its total is
  greater (`TotalMore`). A channel with a row for each entry is ordered because the best
  entry of the better path is ahead of all of the other's (`EntryRowsAre`). The invariant
  `PlanInv` says this of the fallback for paths that lead in the map (`Leads`), and of the
  answer for those that lead in the cache's lists and the matches too (`InLead`), before the
  cache and the exact search have been asked as after. `Origin` says from where the paths of
  each list come; `CompleteBelowLimits` needs it, since no more than the limit go into a
  fusion then and nothing is cut (`NothingCut`, which says of the fallback and the merged
  answer what the property says of the last). That a finite set has as many places as
  elements (`InOrderLists`) is proved by cardinality, and that a sum exists and is monotone by
  induction over the set of numbers for which it is (`Inductive`): a set can be quantified
  over where the library's theorems take a predicate. The proofs needed `RankScale` to be
  positive, which `LimitAssumption` now says.
* **SourceSnapshotProofs.** `TypeCorrect`, `DeclaredPayloadPlanned`, `BytesFromSource`,
  `ExcludedStaysOut` for any manifests. The invariant is the entries read so far
  (`ReadInv`), and what a validated snapshot is (`AcceptedInv`): as long as the entries,
  from their sources, on different declared targets. That the targets are all taken is a
  counting argument: as many different paths of the declared targets as there are targets.
  `ExcludedStaysOut` states `NothingExcludedEnters`, which is proved and not run.
* **FinalizeSpecProofs.** `TypeCorrect`, `TogetherAlways`, `OwnSpecAlways`,
  `SuccessPublishedAlways` for any number of branches, reruns and failures. A run works on a tree that origin may have left behind:
  the invariant says that a run still on top of origin has changed nothing of it but its
  own spec's status and its entry for the branch, and that what it has committed has the
  status (`OnTop`); and that a branch's entry in any tree is of its own spec, which is
  there (`Consistent`). For branches without a spec `OwnSpecAlways` needs `BareInv`, that what
  their runs have chosen is all that was checked out. `SuccessPublishedAlways` needs
  `ProgressInv`: a run that has come to its commit carries the status, has taken the entry
  out, and no accepted push of another brings it back. `LifecycleKept` is the refinement of `SpecLifecycle`, for the
  maintainer's runs with any arguments too: a push that is accepted is on top of origin, and
  so adds exactly its finalisation (`LifecyclePush`); all other steps of a run are stutters.

Only model-checked: liveness. Every invariant and every action property that a run checks is
a theorem, except the two findings'. `SearchReturns` needs
fairness and ENABLED, for which the prover has no rules here. The two findings are
counterexamples; there is nothing to prove.

## 5. Not modelled

Rendering, templates, project facts, and the parsers that extract symbols, imports, docs
and chunks are functions of file contents without state of their own; doctor and binary
discovery only read; the benchmark runs queries and computes ratios in floating point; the
command line dispatches; installers and release scripts are straight-line shell over the
network. Of the query engine, the score of one record against words, the normalisation of
a plan and snippets are functions of strings and are taken as scores and normalised plans.
Two maps at once are not modelled. A skill with two native IDEs and two files has more than
40 million states and is not run; the theorems of LockProofs hold for any number of them.
Formats (YAML, JSON, TOML, checksums' spelling, path normalisation) are abstracted to
values.
