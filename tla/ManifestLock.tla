---------------------------- MODULE ManifestLock ----------------------------
(***************************************************************************)
(* aidlc.lock.json and the four commands that rewrite it (internal/sync,   *)
(* manifest_store.go): init and update replace it with a manifest of their *)
(* own, `skill remove` writes back the manifest it read, `map` edits the   *)
(* whitelist in the raw file.  Each reads the lock, works, composes the    *)
(* new content and renames it into place; only the rename is atomic.       *)
(* Before the first root lock a legacy .aidlc/manifest.json may be there;  *)
(* no command writes it.                                                   *)
(*                                                                         *)
(* Its names are not those of SkillProjections, which models what the lock *)
(* records of skills, so that a module can extend both.                    *)
(***************************************************************************)
CONSTANTS
    Commands,       \* the command processes
    Supported,           \* the supported Supported
    Folders,        \* folders a whitelist may name, already normalised
    Installs,       \* values of the upstream, files and metadata fields together
    Skills,         \* installed skills whose projections the lock may own
    Missing          \* no file; no such field

ASSUME AbsentAssumption ==
    /\ Missing \notin Installs
    /\ \A w \in SUBSET Folders : w # Missing

Whitelists == SUBSET Folders

(* The content of a root lock.  An empty whitelist is not an absent one;   *)
(* unknown: whether there are fields this version does not know.           *)
LockFiles == [include : {Missing} \union Whitelists, ides : SUBSET Supported,
          install : {Missing} \union Installs, owned : SUBSET Skills, unknown : BOOLEAN]

(* What the Go struct TargetManifest holds: no unknown fields, and nil and *)
(* empty whitelists are both normalised to the empty one.                  *)
Manifests == [include : Whitelists, ides : SUBSET Supported,
              install : {Missing} \union Installs, owned : SUBSET Skills]

(* Manifests of older versions: workspace.ides may be missing, generated   *)
(* is the single generated.ide, expanded.                                  *)
LegacyFiles == [ides : SUBSET Supported, generated : {Supported} \union {{i} : i \in Supported},
                install : Installs]

EmptyLock ==
    [include |-> Missing, ides |-> {}, install |-> Missing, owned |-> {}, unknown |-> FALSE]

NoManifest == [include |-> {}, ides |-> {}, install |-> Missing, owned |-> {}]

WriterKinds == {"init", "update", "remove", "map"}

WriterPhases == {"idle", "working", "confirming", "composing", "renaming"}

ASSUME LockAssumption ==
    \A file \in LockFiles \union Manifests \union LegacyFiles : file # Missing

VARIABLES
    root,       \* aidlc.lock.json, or Missing
    legacy,     \* .aidlc/manifest.json, or Missing
    writer,        \* the commands: phase, kind, manifest read, whitelist to save,
                \* content composed
    saved       \* the whitelist the last map command saved (history)

storeVars == <<root, legacy, writer, saved>>

Command(phase, kind, prev, want) ==
    [phase |-> phase, kind |-> kind, prev |-> prev, want |-> want, next |-> EmptyLock]

Resting == Command("idle", "init", Missing, {})

WriterStates == [phase : WriterPhases, kind : WriterKinds, prev : {Missing} \union Manifests,
                  want : Whitelists, next : LockFiles]

StoreTypeOK ==
    /\ root \in {Missing} \union LockFiles
    /\ legacy \in {Missing} \union LegacyFiles
    /\ writer \in [Commands -> WriterStates]
    /\ saved \in {Missing} \union Whitelists

-----------------------------------------------------------------------------
(* The store. *)

LegacyManifest(file) ==
    [include |-> {}, ides |-> IF file.ides # {} THEN file.ides ELSE file.generated,
     install |-> file.install, owned |-> {}]

(* The root lock, the legacy manifest when there is none, or neither. *)
ReadManifest(lock, old) ==
    IF lock # Missing
    THEN [include |-> IF lock.include = Missing THEN {} ELSE lock.include,
          ides |-> lock.ides, install |-> lock.install, owned |-> lock.owned]
    ELSE IF old # Missing THEN LegacyManifest(old)
    ELSE Missing

(* The whitelist as map reads it: only from the root lock, and Missing     *)
(* when the field is not there.                                            *)
ReadManifestMapInclude(lock) == IF lock = Missing THEN Missing ELSE lock.include

(* Mutant of WriteManifest: the whitelist on disk is not looked at. *)
WriteGivenInclude(m, lock) ==
    [include |-> IF m.include = {} THEN Missing ELSE m.include,
     ides |-> m.ides, install |-> m.install, owned |-> m.owned, unknown |-> FALSE]

(* The content WriteManifest renames into place: a manifest without a      *)
(* whitelist takes the one on disk, and `omitempty` drops an empty list.   *)
WriteManifest(m, lock) ==
    LET include == IF m.include = {} THEN ReadManifestMapInclude(lock) ELSE m.include
    IN  [include |-> IF include = {} THEN Missing ELSE include,
         ides |-> m.ides, install |-> m.install, owned |-> m.owned, unknown |-> FALSE]

(* readTargetManifestLock: the raw lock map edits, an empty one when there *)
(* is no root lock.                                                        *)
RawLock(lock) == IF lock = Missing THEN EmptyLock ELSE lock

(* Mutant of WriteManifestMapInclude: the lock goes through the Go struct. *)
WriteIncludeTyped(lock, include) ==
    [RawLock(lock) EXCEPT !.include = include, !.unknown = FALSE]

(* The content WriteManifestMapInclude renames into place: the raw lock    *)
(* with its whitelist replaced.  The legacy manifest is not read.          *)
WriteManifestMapInclude(lock, include) ==
    [RawLock(lock) EXCEPT !.include = include]

-----------------------------------------------------------------------------
(* The commands. *)

(* A repository without a root lock, with or without a legacy manifest, or *)
(* with a root lock somebody added fields to.                              *)
StoreInit ==
    /\ root \in {Missing} \union
               {l \in LockFiles : l.include = Missing /\ l.install # Missing /\ l.owned = {} /\ l.unknown}
    /\ legacy \in {Missing} \union LegacyFiles
    /\ writer = [c \in Commands |-> Resting]
    /\ saved = Missing

Become(c, changes) == writer' = [writer EXCEPT ![c] = changes]

(* init, update and `skill remove` start with ReadManifest. *)
Start(c) ==
    /\ writer[c].phase = "idle"
    /\ \E kind \in WriterKinds \ {"map"} :
         Become(c, Command("working", kind, ReadManifest(root, legacy), {}))
    /\ UNCHANGED <<root, legacy, saved>>

(* `map --include` saves the folders it was given; a bare `map` uses the   *)
(* saved whitelist, and only without one shows the user the folders it     *)
(* found, possibly none.                                                   *)
StartMap(c) ==
    /\ writer[c].phase = "idle"
    /\ \/ \E folders \in Whitelists \ {{}} :
            Become(c, Command("composing", "map", Missing, folders))
       \/ /\ ReadManifestMapInclude(root) = Missing
          /\ \E folders \in Whitelists : Become(c, Command("confirming", "map", Missing, folders))
    /\ UNCHANGED <<root, legacy, saved>>

(* The user answers yes. *)
Confirm(c) ==
    /\ writer[c].phase = "confirming"
    /\ Become(c, [writer[c] EXCEPT !.phase = "composing"])
    /\ UNCHANGED <<root, legacy, saved>>

(* map reads the lock it is going to edit. *)
ComposeMap(c) ==
    /\ writer[c].phase = "composing"
    /\ Become(c, [writer[c] EXCEPT !.phase = "renaming",
                                !.next = WriteManifestMapInclude(root, writer[c].want)])
    /\ UNCHANGED <<root, legacy, saved>>

(* Mutant of PreviousIDEs: update does not look at the manifest it read. *)
PreviousOfInitOnly(c) ==
    IF writer[c].prev = Missing \/ writer[c].kind = "update" THEN {} ELSE writer[c].prev.ides

PreviousIDEs(c) == IF writer[c].prev = Missing THEN {} ELSE writer[c].prev.ides

(* init merges the IDE it was asked for, or all, into the selection, and   *)
(* records its release and the projections Generate reported.              *)
ComposeInit(c) ==
    /\ writer[c].phase = "working" /\ writer[c].kind = "init"
    /\ \E ide \in {Supported} \union {{i} : i \in Supported}, install \in Installs, owned \in SUBSET Skills :
         Become(c, [writer[c] EXCEPT !.phase = "renaming",
                      !.next = WriteManifest([include |-> {}, ides |-> PreviousIDEs(c) \union ide,
                                              install |-> install, owned |-> owned], root)])
    /\ UNCHANGED <<root, legacy, saved>>

(* update keeps the selection, and the projections if it selects no IDE. *)
ComposeUpdate(c) ==
    /\ writer[c].phase = "working" /\ writer[c].kind = "update"
    /\ \E install \in Installs, owned \in SUBSET Skills :
         /\ PreviousIDEs(c) = {} =>
               owned = IF writer[c].prev = Missing THEN {} ELSE writer[c].prev.owned
         /\ Become(c, [writer[c] EXCEPT !.phase = "renaming",
                         !.next = WriteManifest([include |-> {}, ides |-> PreviousIDEs(c),
                                                 install |-> install, owned |-> owned], root)])
    /\ UNCHANGED <<root, legacy, saved>>

(* `skill remove` writes back the manifest it read without the projections *)
(* it deleted (diverged ones stay); with no manifest it writes nothing.    *)
ComposeRemove(c) ==
    /\ writer[c].phase = "working" /\ writer[c].kind = "remove"
    /\ \/ writer[c].prev = Missing /\ Become(c, Resting)
       \/ /\ writer[c].prev # Missing
          /\ \E s \in Skills : \E owned \in {writer[c].prev.owned, writer[c].prev.owned \ {s}} :
               Become(c, [writer[c] EXCEPT !.phase = "renaming",
                            !.next = WriteManifest([writer[c].prev EXCEPT !.owned = owned], root)])
    /\ UNCHANGED <<root, legacy, saved>>

(* os.Rename of the temporary file. *)
Rename(c) ==
    /\ writer[c].phase = "renaming"
    /\ root' = writer[c].next
    /\ saved' = IF writer[c].kind = "map" THEN writer[c].want ELSE saved
    /\ Become(c, Resting)
    /\ UNCHANGED legacy

(* Any step may fail, the user may decline, the process may be killed; a   *)
(* lock that was not renamed was not changed.                              *)
Stop(c) ==
    /\ writer[c].phase # "idle"
    /\ Become(c, Resting)
    /\ UNCHANGED <<root, legacy, saved>>

StoreNext ==
    \E c \in Commands :
        \/ Start(c)
        \/ StartMap(c)
        \/ Confirm(c)
        \/ ComposeMap(c)
        \/ ComposeInit(c)
        \/ ComposeUpdate(c)
        \/ ComposeRemove(c)
        \/ Rename(c)
        \/ Stop(c)

StoreSpec == StoreInit /\ [][StoreNext]_storeVars

-----------------------------------------------------------------------------
(* Properties. *)

(* The IDE selection the next command will work with. *)
Selection(lock, old) ==
    IF ReadManifest(lock, old) = Missing THEN {} ELSE ReadManifest(lock, old).ides

(* A whitelist that names folders stays as map saved it, whatever init,    *)
(* update and `skill remove` write later, with or without failures.        *)
FoldersKept ==
    saved \notin {Missing, {}} => ReadManifestMapInclude(root) = saved

(* A command that does not select IDEs keeps the selection it found, and   *)
(* init only adds to it, also when the selection was in the legacy         *)
(* manifest and moves to the root lock.                                    *)
SelectionCarried ==
    [][\A c \in Commands :
        (writer[c].kind # "map" /\ Rename(c)) =>
            /\ Selection(root, legacy) \subseteq Selection(root', legacy)
            /\ writer[c].kind # "init" => Selection(root', legacy) = Selection(root, legacy)]_storeVars

(* A command changes only the fields it is for: saving a whitelist         *)
(* preserves every other field of a root lock, unknown ones included, and  *)
(* `skill remove` what was installed and selected, and owns no more.       *)
OthersFieldsKept ==
    [][\A c \in Commands :
        (root # Missing /\ Rename(c)) =>
            /\ writer[c].kind = "map" => root' = [root EXCEPT !.include = root'.include]
            /\ writer[c].kind = "remove" =>
                  /\ root'.install = root.install /\ root'.ides = root.ides
                  /\ root'.owned \subseteq root.owned]_storeVars
=============================================================================
