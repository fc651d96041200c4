--------------------------- MODULE SourceSnapshot ---------------------------
(***************************************************************************)
(* How `aidlc init` and `aidlc update` get the payload of a release        *)
(* (internal/source, the start of sync.BuildPlan): a provider reads the    *)
(* template manifest, the files it lists one by one, from a local          *)
(* directory that its author may be changing or from an archive that no    *)
(* longer changes, and validates the snapshot; BuildPlan validates it      *)
(* again.  Validation does not only check: it renames files from the       *)
(* source path of a mapping to its target path, in place, although the     *)
(* providers have already given them their target paths.                   *)
(*                                                                         *)
(* A path is a normalised one, and the content of a file is represented by *)
(* the path it was read from.  A wildcard names no file, and an exclude    *)
(* with one equals no path (excludes are compared, not matched), so        *)
(* neither is a path here.                                                 *)
(***************************************************************************)
EXTENDS Naturals, Sequences

CONSTANTS
    Paths,          \* the paths of the template repository
    Private,        \* those that must never be part of a payload
    Manifests,      \* the manifests the author may write
    MaxEdits        \* bound: files created or deleted by the author

Entry == [source : Paths, target : Paths]

(* What ParseTemplateManifest accepts: included paths, mappings, excluded  *)
(* paths.                                                                  *)
ManifestSet == [include : Seq(Paths), mappings : Seq(Entry), exclude : SUBSET Paths]

ASSUME PrivateAssumption == Private \subseteq Paths
ASSUME ManifestsAssumption == Manifests \subseteq ManifestSet

VARIABLES
    tree,       \* the files of the template repository
    edits,      \* how often the author changed it
    fetch       \* the command: what it read and how far it is

vars == <<tree, edits, fetch>>

File == [path : Paths, from : Paths]

(* "planned" and "refused" are how BuildPlan, or a step before it, ends.   *)
Fetches == [phase : {"idle", "reading", "fetched", "planned", "refused"},
            manifest : Manifests, archive : SUBSET Paths, local : BOOLEAN, files : Seq(File)]

-----------------------------------------------------------------------------
(* Manifest and snapshot. *)

(* Included paths first, each its own target, then the mappings. *)
ManifestIncludeEntries(m) ==
    [i \in 1..Len(m.include) |-> [source |-> m.include[i], target |-> m.include[i]]]
        \o m.mappings

Targets(m) ==
    {ManifestIncludeEntries(m)[i].target : i \in 1..Len(ManifestIncludeEntries(m))}

(* Private sources and targets and repeated targets are refused. *)
EntriesRefused(m) ==
    LET es == ManifestIncludeEntries(m) IN
    \/ \E i \in 1..Len(es) : es[i].source \in Private \/ es[i].target \in Private
    \/ \E i, j \in 1..Len(es) : i # j /\ es[i].target = es[j].target

(* A path that is included, or one end of a mapping, is also excluded. *)
Excludes(m) ==
    \E i \in 1..Len(ManifestIncludeEntries(m)) :
        LET e == ManifestIncludeEntries(m)[i] IN e.source \in m.exclude \/ e.target \in m.exclude

(* The target of a path: that of the last entry with this source. *)
Renamed(m, p) ==
    LET es == ManifestIncludeEntries(m) IN
    IF \E i \in 1..Len(es) : es[i].source = p
    THEN es[CHOOSE i \in 1..Len(es) :
              es[i].source = p /\ \A j \in (i + 1)..Len(es) : es[j].source # p].target
    ELSE p

RenameAll(m, fs) == [i \in 1..Len(fs) |-> [fs[i] EXCEPT !.path = Renamed(m, fs[i].path)]]

(* ValidateSnapshot accepts: nothing is excluded, and the renamed files    *)
(* are targets, each of them once.                                         *)
Valid(m, fs) ==
    LET renamed == RenameAll(m, fs) IN
    /\ ~EntriesRefused(m) /\ ~Excludes(m)
    /\ \A i \in 1..Len(fs) : renamed[i].path \in Targets(m)
    /\ \A i, j \in 1..Len(fs) : i # j => renamed[i].path # renamed[j].path

-----------------------------------------------------------------------------
(* The command. *)

Become(changes) == /\ fetch' = changes
                   /\ UNCHANGED <<tree, edits>>

Refuse == Become([fetch EXCEPT !.phase = "refused", !.files = <<>>])

(* An archive is downloaded whole; a local template is read where it is.   *)
(* Either way the manifest is read before the files it lists.              *)
Start ==
    /\ fetch.phase \in {"idle", "planned", "refused"}
    /\ \E local \in BOOLEAN :
         Become([fetch EXCEPT
             !.phase = IF EntriesRefused(fetch.manifest) THEN "refused" ELSE "reading",
             !.archive = IF local THEN {} ELSE tree,
             !.local = local, !.files = <<>>])

Entries == ManifestIncludeEntries(fetch.manifest)

Readable == IF fetch.local THEN tree ELSE fetch.archive

(* Mutant of FileOf: the content is read from the target path. *)
ReadAtTarget(e) == [path |-> e.target, from |-> e.target]

(* A file is read at its source and has its target path from then on. *)
FileOf(e) == [path |-> e.target, from |-> e.source]

(* Mutant of ReadFile: a missing file is passed over. *)
ReadOrPass ==
    /\ fetch.phase = "reading" /\ Len(fetch.files) < Len(Entries)
    /\ LET e == Entries[Len(fetch.files) + 1] IN
       IF e.source \in Readable
       THEN Become([fetch EXCEPT !.files = Append(@, FileOf(e))])
       ELSE Become([fetch EXCEPT !.phase = "fetched"])

(* A file that is missing ends the command. *)
ReadFile ==
    /\ fetch.phase = "reading" /\ Len(fetch.files) < Len(Entries)
    /\ LET e == Entries[Len(fetch.files) + 1] IN
       IF e.source \in Readable
       THEN Become([fetch EXCEPT !.files = Append(@, FileOf(e))])
       ELSE Refuse

Cancel == fetch.phase = "reading" /\ Refuse

(* The provider validates what it read, and BuildPlan what it is given. *)
Validate(next) ==
    IF Valid(fetch.manifest, fetch.files)
    THEN Become([fetch EXCEPT !.phase = next, !.files = RenameAll(fetch.manifest, @)])
    ELSE Refuse

ReturnSnapshot ==
    /\ fetch.phase = "reading" /\ Len(fetch.files) = Len(Entries)
    /\ Validate("fetched")

BuildPlan == fetch.phase = "fetched" /\ Validate("planned")

(* The author creates or deletes a file. *)
EditTree ==
    /\ edits < MaxEdits
    /\ edits' = edits + 1
    /\ \E p \in Paths : tree' = IF p \in tree THEN tree \ {p} ELSE tree \union {p}
    /\ UNCHANGED fetch

Init ==
    /\ tree = Paths
    /\ edits = 0
    /\ \E m \in Manifests :
         fetch = [phase |-> "idle", manifest |-> m, archive |-> {}, local |-> TRUE,
                  files |-> <<>>]

Next == Start \/ ReadFile \/ Cancel \/ ReturnSnapshot \/ BuildPlan \/ EditTree

Spec == Init /\ [][Next]_vars

-----------------------------------------------------------------------------
(* Properties. *)

TypeOK ==
    /\ tree \subseteq Paths
    /\ edits \in Nat
    /\ fetch \in Fetches

(* What is planned is the payload the manifest declares: a file for every  *)
(* target, no target twice and nothing else, whatever was renamed onto     *)
(* what and whatever the author did to the directory meanwhile.  A file    *)
(* that went missing must end the command: a plan without it would tell    *)
(* update that upstream removed it.                                        *)
PlansDeclaredPayload ==
    fetch.phase = "planned" =>
        /\ {fetch.files[i].path : i \in 1..Len(fetch.files)} = Targets(fetch.manifest)
        /\ \A i, j \in 1..Len(fetch.files) : i # j => fetch.files[i].path # fetch.files[j].path

(* No target is the source of another entry. *)
Unchained(m) ==
    LET es == ManifestIncludeEntries(m) IN
    \A i, j \in 1..Len(es) : es[i].target = es[j].source => i = j

(* "Source bytes and modes come from the source repository path"           *)
(* (docs/blueprints/template-payload.md): the two validations do not move  *)
(* a file away from the target it was read for, unless a target is the     *)
(* source of another entry.                                                *)
BytesComeFromSource ==
    fetch.phase = "planned" /\ Unchained(fetch.manifest) =>
        \A i \in 1..Len(Entries) : \E k \in 1..Len(fetch.files) :
            fetch.files[k] = [path |-> Entries[i].target, from |-> Entries[i].source]

(* What the manifest excludes, or is private, is neither copied nor        *)
(* written, not even under another name.                                   *)
NothingExcludedEnters ==
    fetch.phase = "planned" =>
        \A i \in 1..Len(fetch.files) :
            {fetch.files[i].path, fetch.files[i].from}
                \intersect (Private \union fetch.manifest.exclude) = {}
=============================================================================
