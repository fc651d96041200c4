--------------------------- MODULE ValidateEvidence ---------------------------
(***************************************************************************)
(* `aidlc validate` (internal/commands/validate.go): does the evidence in  *)
(* a spec and a task record hold for the repository as it is?  The command *)
(* reads HEAD, the spec, the task record, `git diff`, `git status` and the *)
(* owned files one after the other, while the user may edit, rename,       *)
(* commit, amend spec and record, run checks and have the task reviewed.   *)
(*                                                                         *)
(* Agents are honest: a check or review is recorded with the digest of the *)
(* owned files at that moment.  A digest is the function from the owned    *)
(* files to their contents that it is the SHA-256 of; a content includes   *)
(* the file's mode.  The record's own file is ignored by git.  The spec's  *)
(* file is exempt from every check: when it is read it may say anything,   *)
(* and so may the record about its risk.                                   *)
(***************************************************************************)
EXTENDS Naturals, Sequences, FiniteSets

CONSTANTS
    Files,          \* the paths of the repository
    Nested,         \* those that a nested AIDLC scope owns
    Contents,       \* what a file may contain
    Absent,         \* no file
    Origin,         \* the tree of the first commit
    OwnedLists,     \* the owned files a record may have, and
    AffectedLists,  \* the affected files a spec may have
    MaxCommits,     \* bound on the commits
    MaxChanges      \* bound on the user's steps

Trees == [Files -> Contents \union {Absent}]

ASSUME FilesAssumption == Nested \subseteq Files /\ Absent \notin Contents /\ Origin \in Trees
ASSUME ListsAssumption == OwnedLists \subseteq SUBSET Files /\ AffectedLists \subseteq SUBSET Files
ASSUME BoundAssumption == MaxCommits \in Nat \ {0} /\ MaxChanges \in Nat

(* A revision in a task record: a commit, or 0 for the name "HEAD". *)
Revisions == 0..MaxCommits
DigestOwnedFiles(tree, owned) == [f \in owned |-> tree[f]]
Digests == UNION {[owned -> Contents \union {Absent}] : owned \in OwnedLists}
Evidence == [rev : Revisions, digest : Digests]

TaskRecords == [owned : SUBSET Files, checks : SUBSET Evidence, review : SUBSET Evidence]

Phases == {"idle", "evidence", "diff", "status", "digest", "review"}

(* head: HEAD as resolved; high: is it a high-risk validation; useSpec,    *)
(* useRecord: are there --spec and --task-record; base: the commit to      *)
(* compare with, or 0; affected: what the spec allows; record as read;     *)
(* changed: the changed files found; digest: the owned files as they were  *)
(* when each was read, unread those still to read.                         *)
NoRecord == [owned |-> {}, checks |-> {}, review |-> {}]
Idle == [phase |-> "idle", head |-> 1, high |-> FALSE, useSpec |-> FALSE, useRecord |-> FALSE,
         base |-> 0, affected |-> {}, record |-> NoRecord, changed |-> {},
         unread |-> {}, digest |-> [f \in Files |-> Absent]]

Validations ==
    [phase : Phases, head : 1..MaxCommits, high : BOOLEAN, useSpec : BOOLEAN, useRecord : BOOLEAN,
     base : Revisions, affected : SUBSET Files, record : TaskRecords, changed : SUBSET Files,
     unread : SUBSET Files, digest : Trees]

VARIABLES
    commits,        \* the trees committed so far, HEAD the last
    work,           \* the working tree
    renamed,        \* the renames staged in the index, as <<from, to>>
    record,         \* the task record on disk
    run             \* the running validation

(* What the properties compare with, and the bound; no action's effect     *)
(* depends on them.                                                        *)
VARIABLES
    checked, reviewed,  \* <<HEAD, tree>> when a check passed, when the task was reviewed
    disturbed,          \* did the user do anything during the running validation
    during,             \* the contents an owned file had until it was read, from the first read on
    changes             \* the user's steps so far

repo == <<commits, work, renamed>>
history == <<checked, reviewed, disturbed, during, changes>>
vars == <<repo, record, run, history>>

HEAD == Len(commits)

TypeOK ==
    /\ commits \in Seq(Trees) /\ HEAD \in 1..MaxCommits
    /\ work \in Trees
    /\ renamed \subseteq Files \X Files
    /\ record \in TaskRecords
    /\ run \in Validations
    /\ checked \subseteq (1..MaxCommits) \X Trees /\ reviewed \subseteq (1..MaxCommits) \X Trees
    /\ during \in [Files -> SUBSET (Contents \union {Absent})]
    /\ disturbed \in BOOLEAN /\ changes \in 0..MaxChanges

NoContents == [f \in Files |-> {}]

(* A task with a record and nothing done yet.  Its base is the first       *)
(* commit.                                                                 *)
Init ==
    /\ commits = <<Origin>> /\ work = Origin /\ renamed = {}
    /\ record \in [owned : OwnedLists, checks : {{}}, review : {{}}]
    /\ run = Idle
    /\ checked = {} /\ reviewed = {} /\ disturbed = FALSE /\ during = NoContents /\ changes = 0

-----------------------------------------------------------------------------
(* git *)

Changed(t, u) == {f \in Files : t[f] # u[f]}
Deleted(t, u) == {f \in Changed(t, u) : u[f] = Absent}
Added(t, u) == {f \in Changed(t, u) : t[f] = Absent}

(* The renames git sees from one tree to another: pairs of a deleted and   *)
(* an added file with the same content, no file in two of them.            *)
RenamePairs(t, u) == {p \in Deleted(t, u) \X Added(t, u) : t[p[1]] = u[p[2]]}

Matching(pairs) == \A p, q \in pairs : p # q => p[1] # q[1] /\ p[2] # q[2]

RenameSets(t, u) ==
    LET all == {m \in SUBSET RenamePairs(t, u) : Matching(m)}
    IN  {m \in all : \A n \in all : ~(m \subseteq n /\ m # n)}

(* `git diff --name-only` names a rename by its new path. *)
DiffNames(t, u, renames) == Changed(t, u) \ {p[1] : p \in renames}

(* What git status has besides the staged renames. *)
Dirty == Changed(commits[HEAD], work) \ {p[2] : p \in renamed}

(* Mutant of ParseGitStatusPaths: untracked files are not looked for. *)
TrackedStatusPaths == {p[1] : p \in renamed} \union (Dirty \ Added(commits[HEAD], work))

(* `git status -z` names a staged rename by its new path and then its old  *)
(* path; the second is taken.                                              *)
ParseGitStatusPaths == {p[1] : p \in renamed} \union Dirty

ResolveGitRevision(rev) == IF rev = 0 THEN HEAD ELSE rev

-----------------------------------------------------------------------------
(* The user. *)

UserStep ==
    /\ changes < MaxChanges
    /\ changes' = changes + 1
    /\ disturbed' = (run.phase # "idle")
    /\ during' = [f \in Files |-> IF f \in run.unread THEN during[f] \union {work'[f]} ELSE during[f]]

Edit ==
    /\ \E f \in Files, c \in Contents \union {Absent} : work' = [work EXCEPT ![f] = c]
    /\ UserStep
    /\ UNCHANGED <<commits, renamed, record, run, checked, reviewed>>

(* git mv *)
StageRename ==
    /\ \E from, to \in Files :
         /\ commits[HEAD][from] # Absent /\ commits[HEAD][to] = Absent
         /\ work[from] = commits[HEAD][from] /\ work[to] = Absent
         /\ work' = [work EXCEPT ![from] = Absent, ![to] = work[from]]
         /\ renamed' = renamed \union {<<from, to>>}
    /\ UserStep
    /\ UNCHANGED <<commits, record, run, checked, reviewed>>

(* Some of the changes are committed, staged renames among them. *)
Commit ==
    /\ HEAD < MaxCommits
    /\ \E files \in SUBSET Files :
         /\ UNION {{p[1], p[2]} : p \in renamed} \subseteq files
         /\ files \intersect Changed(commits[HEAD], work) # {}
         /\ commits' = Append(commits, [f \in Files |->
                           IF f \in files THEN work[f] ELSE commits[HEAD][f]])
    /\ renamed' = {}
    /\ UNCHANGED <<work, record, run, checked, reviewed>>
    /\ UserStep

AmendOwnedFiles ==
    /\ \E owned \in OwnedLists : record' = [record EXCEPT !.owned = owned]
    /\ UNCHANGED <<repo, run, checked, reviewed>>
    /\ UserStep

(* A check passes and is recorded, by the commit or by the name HEAD; it   *)
(* replaces the earlier checks or is added to them.                        *)
RecordCheck ==
    /\ \E rev \in {0, HEAD}, kept \in {{}, record.checks} :
         record' = [record EXCEPT !.checks = kept \union
                       {[rev |-> rev, digest |-> DigestOwnedFiles(work, record.owned)]}]
    /\ checked' = checked \union {<<HEAD, work>>}
    /\ UNCHANGED <<repo, run, reviewed>>
    /\ UserStep

RecordReview ==
    /\ \E rev \in {0, HEAD} :
         record' = [record EXCEPT !.review =
                       {[rev |-> rev, digest |-> DigestOwnedFiles(work, record.owned)]}]
    /\ reviewed' = reviewed \union {<<HEAD, work>>}
    /\ UNCHANGED <<repo, run, checked>>
    /\ UserStep

-----------------------------------------------------------------------------
(* RunValidate *)

(* HEAD is resolved first. *)
Start ==
    /\ run.phase = "idle"
    /\ run' = [Idle EXCEPT !.phase = "evidence", !.head = HEAD]
    /\ UNCHANGED <<repo, record, history>>

(* The spec is approved.  High risk, by flag or by the record, asks for a  *)
(* spec, a record and a base; a record's base is the first commit, which   *)
(* --base must not contradict.                                             *)
ReadEvidence ==
    /\ run.phase = "evidence"
    /\ \E high, useSpec, useRecord \in BOOLEAN, base \in 0..HEAD,
          affected \in AffectedLists \union {{}} :
         /\ high => useSpec /\ useRecord /\ base # 0
         /\ (useRecord /\ base # 0) => base = 1
         /\ ~useSpec => affected = {}
         /\ run' = [run EXCEPT !.phase = "diff", !.high = high, !.useSpec = useSpec,
                        !.useRecord = useRecord, !.base = base, !.affected = affected,
                        !.record = IF useRecord THEN record ELSE NoRecord]
    /\ UNCHANGED <<repo, record, history>>

GitDiff ==
    /\ run.phase = "diff"
    /\ IF run.base = 0 THEN run' = [run EXCEPT !.phase = "status"]
       ELSE \E renames \in RenameSets(commits[run.base], commits[HEAD]) :
              run' = [run EXCEPT !.phase = "status",
                          !.changed = DiffNames(commits[run.base], commits[HEAD], renames)]
    /\ UNCHANGED <<repo, record, history>>

(* Is a file owned by the validated scope, and is it in the spec's list? *)
InOwnedScope(f) == f \notin Nested
SpecAllows(f) == run.useSpec => f \in run.affected

(* What RunValidate asks of every changed file. *)
Allowed(f) == InOwnedScope(f) /\ SpecAllows(f) /\ (run.useRecord => f \in run.record.owned)

StartDigest ==
    /\ during' = [f \in Files |-> IF f \in run'.unread THEN {work[f]} ELSE {}]
    /\ UNCHANGED <<repo, record, checked, reviewed, disturbed, changes>>

GitStatus ==
    /\ run.phase = "status"
    /\ \A f \in run.changed \union ParseGitStatusPaths : Allowed(f)
    /\ run' = [run EXCEPT !.phase = "digest", !.changed = @ \union ParseGitStatusPaths,
                          !.unread = run.record.owned]
    /\ StartDigest

(* Without a base, a git status that fails is taken for one without        *)
(* changes.                                                                *)
NoGitStatus ==
    /\ run.phase = "status" /\ run.base = 0
    /\ run' = [run EXCEPT !.phase = "digest", !.unread = run.record.owned]
    /\ StartDigest

(* The owned files are read one after the other, in the record's order.    *)
DigestOwnedFile ==
    /\ run.phase = "digest"
    /\ \E f \in run.unread :
         run' = [run EXCEPT !.unread = @ \ {f}, !.digest[f] = work[f]]
    /\ UNCHANGED <<repo, record, history>>

(* Mutant of Current: contents are enough, the revision is not looked at. *)
CurrentContents(evidence) == evidence.digest = DigestOwnedFiles(run.digest, run.record.owned)

(* Is a check or a review of this revision, as git resolves it now, and of *)
(* the contents read?                                                      *)
Current(evidence) ==
    /\ ResolveGitRevision(evidence.rev) = run.head
    /\ evidence.digest = DigestOwnedFiles(run.digest, run.record.owned)

(* Nothing but the revisions is read from here on. *)
ValidateCheckEvidence ==
    /\ run.phase = "digest" /\ run.unread = {}
    /\ run.useRecord => run.record.checks # {} /\ \A e \in run.record.checks : Current(e)
    /\ run' = [run EXCEPT !.phase = "review"]
    /\ UNCHANGED <<repo, record, history>>

ValidateReviewEvidence == run.record.review # {} /\ \A e \in run.record.review : Current(e)

(* The validation is over. *)
End ==
    /\ run' = Idle
    /\ disturbed' = FALSE /\ during' = NoContents
    /\ UNCHANGED <<repo, record, checked, reviewed, changes>>

Pass ==
    /\ run.phase = "review"
    /\ run.high => ValidateReviewEvidence
    /\ End

(* A failure was found, git failed or a file could not be read. *)
NoPass == run.phase # "idle" /\ End

Next ==
    \/ Edit \/ StageRename \/ Commit \/ AmendOwnedFiles \/ RecordCheck \/ RecordReview
    \/ Start \/ ReadEvidence \/ GitDiff \/ GitStatus \/ NoGitStatus
    \/ DigestOwnedFile \/ ValidateCheckEvidence \/ Pass \/ NoPass

Spec == Init /\ [][Next]_vars

-----------------------------------------------------------------------------
(* Properties. *)

(* Had each owned file, at some moment until it was read, the contents     *)
(* that it had when one of the past steps was taken, and was HEAD then the      *)
(* commit that was validated, unless all evidence names HEAD?              *)
Was(past, evidence) ==
    \E at \in past :
        /\ \A f \in run.record.owned : at[2][f] \in during[f]
        /\ (\E e \in evidence : e.rev # 0) => at[1] = run.head

(* When a task passes, there was a check and, at high risk, a review of    *)
(* one moment, at this commit unless only the name HEAD was recorded, and  *)
(* every owned file had its contents of that moment at some time between   *)
(* the start of the reading and its own turn - whatever the user does      *)
(* before and meanwhile.  A file that is edited in that time may be read   *)
(* before or after; one that is not is as it was checked.                  *)
EvidenceIsCurrent ==
    [][Pass =>
        /\ run.useRecord => Was(checked, run.record.checks)
        /\ run.high => Was(reviewed, run.record.review)]_vars

(* What differs from the base of the task, and the renames among it. *)
TaskChanges == Changed(commits[1], work)
Renames == renamed \union RenamePairs(commits[1], commits[HEAD])

Covered(f) == f \in (run.affected \intersect run.record.owned) \ Nested

(* A high-risk task that is left alone while it is validated only passes   *)
(* when everything that differs from its base, committed or not, is in the *)
(* scope, the approved spec and the owned files - or is one end of a       *)
(* rename whose other end is.                                              *)
ChangesAreCovered ==
    [][(Pass /\ run.high /\ ~disturbed) =>
        \A f \in TaskChanges :
            Covered(f) \/ \E p \in Renames :
                             f \in {p[1], p[2]} /\ (Covered(p[1]) \/ Covered(p[2]))]_vars

(* "changed files stay inside the selected scope and approved spec"        *)
(* (src/aidlc/README.md:121), the ends of renames as well.                 *)
ChangedFilesStayInside ==
    [][(Pass /\ run.high /\ ~disturbed) => \A f \in TaskChanges : Covered(f)]_vars
=============================================================================
