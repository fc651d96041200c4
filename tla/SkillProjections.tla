-------------------------- MODULE SkillProjections --------------------------
(***************************************************************************)
(* An installed skill (internal/skills) and its copies in the folders of   *)
(* the native IDEs (internal/generator): `skill install` copies a tree     *)
(* into .ai/skills/installed, Generate - called by init and update -       *)
(* projects it for every selected IDE, the lock records which projections  *)
(* are AIDLC's and with which content, and `skill remove` deletes the      *)
(* source and the projections that are owned and unmodified.  The user     *)
(* edits both between commands, and any step may be a command's last.      *)
(*                                                                         *)
(* One skill stands for all: what a command does to one depends on no      *)
(* other, except that Generate refuses to start when any of them is        *)
(* broken.  A checksum is the content it is the checksum of.  Files and    *)
(* IDEs are numbers because both are processed in order.                   *)
(***************************************************************************)
EXTENDS Naturals

CONSTANTS
    IDEs, Natives,      \* the supported IDEs; those with a native skill folder
    Files,              \* slash-relative paths in a skill tree
    Main,               \* SKILL.md among them
    Versions, Tree,     \* Tree[v][f]: content of f in version v, or Absent
    UserContents,       \* what the user may write into a projection
    Absent, Torn        \* no file; a file cut short by a failed write

Blobs == {Tree[v][f] : v \in Versions, f \in Files} \ {Absent}
Contents == Blobs \union UserContents \union {Torn}
Spots == Natives \X Files           \* the projected files

ASSUME NumbersAssumption == IDEs \subseteq Nat /\ Natives \subseteq IDEs /\ Files \subseteq Nat
ASSUME TreeAssumption ==
    /\ Tree \in [Versions -> [Files -> Blobs \union {Absent}]]
    /\ Main \in Files /\ \A v \in Versions : Tree[v][Main] # Absent
ASSUME ContentsAssumption ==
    /\ Torn \notin UserContents \union Blobs \union {Absent}
    /\ Absent \notin UserContents
    /\ UserContents \intersect Blobs = {}

NoFiles == [f \in Files |-> Absent]
NoRecords == [s \in Spots |-> Absent]

Records == [Spots -> Blobs \union {Torn, Absent}]
Sources == [exists : BOOLEAN, files : [Files -> Blobs \union {Torn, Absent}]]
Locks == [exists : BOOLEAN, ides : SUBSET IDEs, owned : Records]

Phases == {"idle", "copying", "writing", "emptying", "cleaning",
           "generating", "deleting", "projecting", "checked", "tearing", "locking"}

VARIABLES
    source,     \* .ai/skills/installed/<name>
    proj,       \* proj[<<i, f>>]: the projection of f for IDE i
    lock,       \* workspace.ides and generated.projections
    cmd         \* the running command

(* What the properties compare with; no action reads them. *)
VARIABLES
    excused,    \* the projections a command may report as diverged
    attempts    \* the trees projected since the lock was last replaced

history == <<excused, attempts>>
vars == <<source, proj, lock, cmd, history>>

(* phase; kind; ides: those to render, and select: those the new lock     *)
(* will select; skill: the tree read or being copied; todo: its files      *)
(* still to write; gone: the projections to delete; result: the records    *)
(* for the lock.                                                           *)
Kinds == {"install", "remove", "init", "update"}

Idle == [phase |-> "idle", kind |-> "install", ides |-> {}, select |-> {}, skill |-> NoFiles, todo |-> {},
         gone |-> {}, result |-> NoRecords]

CommandStates ==
    [phase : Phases, kind : Kinds, ides : SUBSET IDEs, select : SUBSET IDEs,
     skill : [Files -> Blobs \union {Torn, Absent}], todo : SUBSET Files,
     gone : SUBSET Spots, result : Records]

TypeOK ==
    /\ source \in Sources
    /\ proj \in [Spots -> Contents \union {Absent}]
    /\ lock \in Locks
    /\ cmd \in CommandStates
    /\ excused \subseteq Spots
    /\ ~source.exists => source.files = NoFiles

Init ==
    /\ source = [exists |-> FALSE, files |-> NoFiles]
    /\ proj \in [Spots -> UserContents \union {Absent}]
    /\ lock = [exists |-> FALSE, ides |-> {}, owned |-> NoRecords]
    /\ cmd = Idle
    /\ excused = {s \in Spots : proj[s] # Absent}
    /\ attempts = {}

Min(S) == CHOOSE x \in S : \A y \in S : x <= y

FilesOf(tree) == {f \in Files : tree[f] # Absent}

-----------------------------------------------------------------------------
(* aidlc skill install. *)

(* A validated tree is copied to a destination that must not exist: first  *)
(* its directories, then its files in order.                               *)
Install ==
    /\ cmd.phase = "idle"
    /\ ~source.exists
    /\ source' = [source EXCEPT !.exists = TRUE]
    /\ \E v \in Versions :
         cmd' = [Idle EXCEPT !.phase = "copying", !.skill = Tree[v], !.todo = FilesOf(Tree[v])]
    /\ UNCHANGED <<proj, lock, history>>

BeginCopy ==
    /\ cmd.phase = "copying" /\ cmd.todo # {}
    /\ source' = [source EXCEPT !.files[Min(cmd.todo)] = Torn]
    /\ cmd' = [cmd EXCEPT !.phase = "writing"]
    /\ UNCHANGED <<proj, lock, history>>

FinishCopy ==
    /\ cmd.phase = "writing"
    /\ LET f == Min(cmd.todo)
       IN  /\ source' = [source EXCEPT !.files[f] = cmd.skill[f]]
           /\ cmd' = IF cmd.todo = {f} THEN Idle
                     ELSE [cmd EXCEPT !.phase = "copying", !.todo = @ \ {f}]
    /\ UNCHANGED <<proj, lock, history>>

-----------------------------------------------------------------------------
(* aidlc skill remove. *)

(* Mutant of Unmodified: a projection that is gone already keeps its record. *)
PresentUnmodified(s) == lock.owned[s] # Absent /\ proj[s] = lock.owned[s]

(* The projection is AIDLC's and as AIDLC wrote it, or already deleted. *)
Unmodified(s) == lock.owned[s] # Absent /\ proj[s] \in {Absent, lock.owned[s]}

(* Mutant of RemainingRecords: the projections that stay are forgotten. *)
NoRemainingRecords(gone) == NoRecords

(* The records of the projections that stay. *)
RemainingRecords(gone) == [s \in Spots |-> IF s \in gone THEN Absent ELSE lock.owned[s]]

(* Every owned projection is checked before anything is deleted. *)
Remove ==
    /\ cmd.phase = "idle"
    /\ LET gone == {s \in Spots : Unmodified(s)}
       IN  cmd' = [Idle EXCEPT !.phase = "emptying", !.kind = "remove",
                               !.select = lock.ides, !.gone = gone, !.result = RemainingRecords(gone)]
    /\ UNCHANGED <<source, proj, lock, history>>

(* os.RemoveAll deletes the tree file by file, in any order, and then the  *)
(* directory.                                                              *)
RemoveSource ==
    /\ cmd.phase = "emptying"
    /\ \/ /\ FilesOf(source.files) # {}
          /\ \E f \in FilesOf(source.files) : source' = [source EXCEPT !.files[f] = Absent]
          /\ UNCHANGED cmd
       \/ /\ FilesOf(source.files) = {}
          /\ source' = [source EXCEPT !.exists = FALSE]
          /\ cmd' = [cmd EXCEPT !.phase = "cleaning"]
    /\ UNCHANGED <<proj, lock, history>>

RemoveProjection ==
    /\ cmd.phase = "cleaning"
    /\ \E s \in cmd.gone :
         /\ proj' = [proj EXCEPT ![s] = Absent]
         /\ cmd' = [cmd EXCEPT !.gone = @ \ {s}]
    /\ UNCHANGED <<source, lock, history>>

(* Without a manifest there is nothing to rewrite. *)
EndRemove ==
    /\ cmd.phase = "cleaning" /\ cmd.gone = {}
    /\ cmd' = IF lock.exists THEN [cmd EXCEPT !.phase = "locking"] ELSE Idle
    /\ UNCHANGED <<source, proj, lock, history>>

-----------------------------------------------------------------------------
(* Generate, as init and update call it. *)

(* init renders the IDE it was asked for, or all; update those the lock    *)
(* selects, and with none it keeps the records without calling Generate.   *)
StartSync ==
    /\ cmd.phase = "idle"
    /\ \/ \E ides \in {{i} : i \in IDEs} \union {IDEs} :
            cmd' = [Idle EXCEPT !.phase = "generating", !.kind = "init", !.ides = ides,
                                !.select = lock.ides \union ides]
       \/ /\ lock.ides # {}
          /\ cmd' = [Idle EXCEPT !.phase = "generating", !.kind = "update",
                                 !.ides = lock.ides, !.select = lock.ides]
       \/ /\ lock.ides = {}
          /\ cmd' = [Idle EXCEPT !.phase = "locking", !.kind = "update", !.result = lock.owned]
    /\ UNCHANGED <<source, proj, lock, history>>

(* An installed tree is read when it has a SKILL.md with its frontmatter;  *)
(* nothing tells whether its other files are all there.                    *)
Loadable == source.exists => source.files[Main] \notin {Absent, Torn}

(* Mutant of DestinationFree: an owned projection is taken for unmodified. *)
DestinationOwned(s, next) == proj[s] \in {Absent, next} \/ lock.owned[s] # Absent

(* Mutant of DestinationFree, too strict: nothing on disk may differ. *)
DestinationSame(s, next) == proj[s] \in {Absent, next}

(* A projection may be written over nothing, over itself, and over what    *)
(* the lock says AIDLC wrote.                                              *)
DestinationFree(s, next) == proj[s] \in {Absent, next, lock.owned[s]}

(* The rendered spots the skill has a file for. *)
Desired(ides, tree) == {s \in Spots : s[1] \in ides /\ tree[s[2]] # Absent}

(* Everything is checked before anything is written: each destination, and *)
(* the owned projections of files the skill no longer has, which go when   *)
(* unmodified and are kept with their record when not.                     *)
Preflight ==
    /\ cmd.phase = "generating"
    /\ Loadable
    /\ \A s \in Desired(cmd.ides, source.files) : DestinationFree(s, source.files[s[2]])
    /\ LET stale == {s \in Spots : s[1] \in cmd.ides /\ lock.owned[s] # Absent}
                      \ Desired(cmd.ides, source.files)
           gone == {s \in stale : Unmodified(s)}
       IN  cmd' = [cmd EXCEPT !.phase = "deleting", !.skill = source.files, !.gone = gone,
                     !.result = [s \in Spots |->
                                    IF s[1] \notin cmd.ides \/ s \in stale \ gone
                                    THEN lock.owned[s] ELSE Absent]]
    /\ UNCHANGED <<source, proj, lock, history>>

(* Generate first deletes what is stale; then it projects, for the IDEs    *)
(* that have a native skill folder.                                        *)
DeleteStale ==
    /\ cmd.phase = "deleting"
    /\ \/ \E s \in cmd.gone :
            /\ proj' = [proj EXCEPT ![s] = Absent]
            /\ cmd' = [cmd EXCEPT !.gone = @ \ {s}]
       \/ /\ cmd.gone = {}
          /\ cmd' = [cmd EXCEPT !.phase = "projecting", !.ides = @ \intersect Natives]
          /\ UNCHANGED proj
    /\ UNCHANGED <<source, lock, history>>

(* Mutant of CheckIDE: only files that are not there are written. *)
CheckForMissing ==
    /\ cmd.phase = "projecting" /\ cmd.ides # {}
    /\ \A s \in Desired({Min(cmd.ides)}, cmd.skill) : DestinationFree(s, cmd.skill[s[2]])
    /\ cmd' = [cmd EXCEPT !.phase = "checked",
                 !.todo = {f \in FilesOf(cmd.skill) : proj[<<Min(cmd.ides), f>>] = Absent},
                 !.result = [s \in Spots |-> IF s[1] = Min(cmd.ides) THEN cmd.skill[s[2]]
                                             ELSE cmd.result[s]]]
    /\ UNCHANGED <<source, proj, lock, history>>

(* IDE by IDE: check its destinations again, then write its files. *)
CheckIDE ==
    /\ cmd.phase = "projecting" /\ cmd.ides # {}
    /\ \A s \in Desired({Min(cmd.ides)}, cmd.skill) : DestinationFree(s, cmd.skill[s[2]])
    /\ cmd' = [cmd EXCEPT !.phase = "checked", !.todo = FilesOf(cmd.skill)]
    /\ UNCHANGED <<source, proj, lock, history>>

BeginProjection ==
    /\ cmd.phase = "checked" /\ cmd.todo # {}
    /\ LET s == <<Min(cmd.ides), Min(cmd.todo)>>
       IN  /\ proj' = [proj EXCEPT ![s] = Torn]
           /\ excused' = excused \union {s}
    /\ attempts' = attempts \union {cmd.skill}
    /\ cmd' = [cmd EXCEPT !.phase = "tearing"]
    /\ UNCHANGED <<source, lock>>

FinishProjection ==
    /\ cmd.phase = "tearing"
    /\ LET f == Min(cmd.todo)
           s == <<Min(cmd.ides), f>>
       IN  /\ proj' = [proj EXCEPT ![s] = cmd.skill[f]]
           /\ excused' = excused \ {s}
           /\ cmd' = [cmd EXCEPT !.phase = "checked", !.todo = @ \ {f},
                                 !.result[s] = cmd.skill[f]]
    /\ UNCHANGED <<source, lock, attempts>>

EndIDE ==
    /\ cmd.phase = "checked" /\ cmd.todo = {}
    /\ cmd' = [cmd EXCEPT !.phase = "projecting", !.ides = @ \ {Min(cmd.ides)}]
    /\ UNCHANGED <<source, proj, lock, history>>

EndGenerate ==
    /\ cmd.phase = "projecting" /\ cmd.ides = {}
    /\ cmd' = [cmd EXCEPT !.phase = "locking"]
    /\ UNCHANGED <<source, proj, lock, history>>

(* init, update and remove end by replacing the lock. *)
ReplaceLock ==
    /\ cmd.phase = "locking"
    /\ lock' = [exists |-> TRUE, ides |-> cmd.select, owned |-> cmd.result]
    /\ cmd' = Idle
    /\ excused' = {s \in Spots : proj[s] \notin {Absent, cmd.result[s]}}
    /\ attempts' = {}
    /\ UNCHANGED <<source, proj>>

(* Any failure, of a check too, and any crash: nothing is undone. *)
Abort ==
    /\ cmd.phase # "idle"
    /\ cmd' = Idle
    /\ UNCHANGED <<source, proj, lock, history>>

-----------------------------------------------------------------------------
(* The user, between commands: edits and deletes projections, and changes  *)
(* the installed tree, which is the user's.                                *)
EditProjection ==
    /\ cmd.phase = "idle"
    /\ \E s \in Spots, new \in UserContents \union {Absent} :
         /\ proj[s] # new
         /\ proj' = [proj EXCEPT ![s] = new]
         /\ excused' = IF new = Absent THEN excused \ {s} ELSE excused \union {s}
    /\ UNCHANGED <<source, lock, cmd, attempts>>

EditSource ==
    /\ cmd.phase = "idle"
    /\ source.exists
    /\ \E v \in Versions, f \in Files : source' = [source EXCEPT !.files[f] = Tree[v][f]]
    /\ UNCHANGED <<proj, lock, cmd, history>>

Next ==
    \/ Install \/ BeginCopy \/ FinishCopy
    \/ Remove \/ RemoveSource \/ RemoveProjection \/ EndRemove
    \/ StartSync \/ Preflight \/ DeleteStale \/ CheckIDE
    \/ BeginProjection \/ FinishProjection \/ EndIDE \/ EndGenerate
    \/ ReplaceLock \/ Abort
    \/ EditProjection \/ EditSource

Spec == Init /\ [][Next]_vars

-----------------------------------------------------------------------------
(* Properties. *)

(* No command changes or deletes a projection the user edited ("Manual     *)
(* edits to native projections are preserved and reported").               *)
ManualEditsKept ==
    [][\A s \in Spots : (cmd' # cmd /\ proj[s] \in UserContents) => proj'[s] = proj[s]]_vars

(* Whoever replaces the lock, a record in it is of what is on disk or the  *)
(* one that was there, and a record is dropped only with its file: what    *)
(* AIDLC owns and the user changed stays owned, to be reported again.      *)
RecordsAccounted ==
    [][ReplaceLock =>
        \A s \in Spots :
            /\ lock'.owned[s] \in {Absent, proj[s], lock.owned[s]}
            /\ lock.owned[s] # Absent /\ lock'.owned[s] = Absent => proj[s] = Absent]_vars

(* After `skill remove` the source is gone with every unmodified           *)
(* projection, and the lock owns only projections that differ from it.     *)
RemoveLeavesDiverged ==
    [][(ReplaceLock /\ cmd.kind = "remove") =>
        /\ ~source.exists
        /\ \A s \in Spots : lock'.owned[s] # Absent => proj[s] \notin {Absent, lock'.owned[s]}]_vars

(* After update every selected native IDE has the skill as it is in the    *)
(* installed tree, and the lock owns it.                                   *)
UpdateProjectsSkill ==
    [][(ReplaceLock /\ cmd.kind = "update") =>
        \A s \in Desired(lock'.ides, source.files) :
            proj[s] = source.files[s[2]] /\ lock'.owned[s] = proj[s]]_vars

(* init and update can be run again after a failure: while the installed   *)
(* tree is the one that was being projected, no projection that the user   *)
(* has not touched, and that was not left torn, is in the way.             *)
RetryNotBlocked ==
    attempts \subseteq {source.files} =>
        \A s \in Desired(Natives, source.files) \ excused : DestinationFree(s, source.files[s[2]])
=============================================================================
