------------------------ MODULE ValidateEvidenceProofs ------------------------
(***************************************************************************)
(* Proofs about ValidateEvidence, for any files, contents, owned lists and *)
(* numbers of commits and steps of the user.                               *)
(***************************************************************************)
EXTENDS ValidateEvidence, SequenceTheorems, TLAPS

(* Digests are of lists that a record may have. *)
TypeInv == TypeOK /\ record.owned \in OwnedLists

LEMMA DigestType ==
    ASSUME NEW tree \in Trees, NEW owned \in OwnedLists
    PROVE  DigestOwnedFiles(tree, owned) \in Digests
<1>1. owned \subseteq Files
  BY ListsAssumption
<1>2. DigestOwnedFiles(tree, owned) \in [owned -> Contents \union {Absent}]
  BY <1>1 DEF DigestOwnedFiles, Trees
<1> QED
  BY <1>2 DEF Digests

LEMMA IdleType == Idle \in Validations
<1>1. [f \in Files |-> Absent] \in Trees
  BY DEF Trees
<1> QED
  BY <1>1, BoundAssumption DEF Idle, Validations, NoRecord, TaskRecords, Phases, Revisions

LEMMA TypeInit == Init => TypeInv
<1> SUFFICES ASSUME Init PROVE TypeInv
  OBVIOUS
<1>1. commits \in Seq(Trees) /\ HEAD = 1
  BY FilesAssumption DEF Init, HEAD
<1>2. PICK owned \in OwnedLists : record = [owned |-> owned, checks |-> {}, review |-> {}]
  BY DEF Init
<1>3. record \in TaskRecords /\ record.owned \in OwnedLists
  BY <1>2, ListsAssumption DEF TaskRecords
<1>4. HEAD \in 1..MaxCommits /\ 0 \in 0..MaxChanges
  BY <1>1, BoundAssumption
<1>5. work \in Trees /\ renamed = {} /\ run \in Validations
  BY IdleType, FilesAssumption DEF Init
<1>6. /\ checked = {} /\ reviewed = {} /\ disturbed = FALSE /\ changes = 0
      /\ during \in [Files -> SUBSET (Contents \union {Absent})]
  BY DEF Init, NoContents
<1> QED
  BY <1>1, <1>3, <1>4, <1>5, <1>6 DEF TypeInv, TypeOK

(* The commit and the tree of the moment may be recorded. *)
LEMMA NowType ==
    ASSUME TypeInv
    PROVE  <<HEAD, work>> \in (1..MaxCommits) \X Trees
  BY DEF TypeInv, TypeOK

LEMMA EvidenceType ==
    ASSUME TypeInv, NEW rev \in {0, HEAD}
    PROVE  [rev |-> rev, digest |-> DigestOwnedFiles(work, record.owned)] \in Evidence
<1>1. DigestOwnedFiles(work, record.owned) \in Digests
  BY DigestType DEF TypeInv, TypeOK
<1>2. rev \in Revisions
  BY BoundAssumption DEF TypeInv, TypeOK, Revisions
<1> QED
  BY <1>1, <1>2 DEF Evidence

LEMMA TypeNext == TypeInv /\ [Next]_vars => TypeInv'
<1> SUFFICES ASSUME TypeInv, [Next]_vars PROVE TypeInv'
  OBVIOUS
<1>0. /\ commits \in Seq(Trees) /\ HEAD \in 1..MaxCommits
      /\ work \in Trees /\ renamed \subseteq Files \X Files
      /\ record \in TaskRecords /\ record.owned \in OwnedLists
      /\ run \in Validations
      /\ checked \subseteq (1..MaxCommits) \X Trees /\ reviewed \subseteq (1..MaxCommits) \X Trees
      /\ during \in [Files -> SUBSET (Contents \union {Absent})]
      /\ disturbed \in BOOLEAN /\ changes \in 0..MaxChanges
  BY DEF TypeInv, TypeOK
<1>u. ASSUME UserStep, work' \in Trees
      PROVE  /\ changes' \in 0..MaxChanges /\ disturbed' \in BOOLEAN
             /\ during' \in [Files -> SUBSET (Contents \union {Absent})]
  BY <1>0, <1>u, BoundAssumption DEF UserStep, Trees
<1>w. [f \in Files |-> {work[f]}] \in [Files -> SUBSET (Contents \union {Absent})]
  BY <1>0 DEF Trees
<1>1. CASE Edit
  <2>1. work' \in Trees
    BY <1>0, <1>1 DEF Edit, Trees
  <2> QED
    BY <1>0, <1>1, <1>u, <2>1 DEF Edit, TypeInv, TypeOK, HEAD
<1>2. CASE StageRename
  <2>1. PICK from, to \in Files :
           /\ work' = [work EXCEPT ![from] = Absent, ![to] = work[from]]
           /\ renamed' = renamed \union {<<from, to>>}
    BY <1>2 DEF StageRename
  <2>2. work' \in Trees /\ renamed' \subseteq Files \X Files
    BY <1>0, <2>1 DEF Trees
  <2> QED
    BY <1>0, <1>2, <1>u, <2>2 DEF StageRename, TypeInv, TypeOK, HEAD
<1>3. CASE Commit
  <2>1. PICK files \in SUBSET Files :
           commits' = Append(commits, [f \in Files |->
                          IF f \in files THEN work[f] ELSE commits[HEAD][f]])
    BY <1>3 DEF Commit
  <2> DEFINE tree == [f \in Files |-> IF f \in files THEN work[f] ELSE commits[HEAD][f]]
  <2>2. commits[HEAD] \in Trees
    BY <1>0 DEF HEAD
  <2>3. tree \in Trees
    BY <1>0, <2>2 DEF Trees
  <2>4. commits' \in Seq(Trees) /\ Len(commits') = HEAD + 1
    <3> HIDE DEF tree
    <3> QED
      BY <1>0, <2>1, <2>3 DEF HEAD, tree
  <2>5. HEAD' \in 1..MaxCommits
    BY <1>0, <1>3, <2>4, BoundAssumption DEF Commit, HEAD
  <2> QED
    BY <1>0, <1>3, <1>u, <2>4, <2>5 DEF Commit, TypeInv, TypeOK
<1>4. CASE AmendOwnedFiles
  <2>1. PICK owned \in OwnedLists : record' = [record EXCEPT !.owned = owned]
    BY <1>4 DEF AmendOwnedFiles
  <2>2. record' \in TaskRecords /\ record'.owned \in OwnedLists
    BY <1>0, <2>1, ListsAssumption DEF TaskRecords
  <2> QED
    BY <1>0, <1>4, <1>u, <2>2 DEF AmendOwnedFiles, TypeInv, TypeOK, repo, HEAD
<1>5. CASE RecordCheck
  <2>1. PICK rev \in {0, HEAD}, kept \in {{}, record.checks} :
           record' = [record EXCEPT !.checks = kept \union
                         {[rev |-> rev, digest |-> DigestOwnedFiles(work, record.owned)]}]
    BY <1>5 DEF RecordCheck
  <2>2. record' \in TaskRecords /\ record'.owned = record.owned
    BY <1>0, <2>1, EvidenceType DEF TaskRecords
  <2>3. checked' \subseteq (1..MaxCommits) \X Trees
    BY <1>0, <1>5, NowType DEF RecordCheck
  <2> QED
    BY <1>0, <1>5, <1>u, <2>2, <2>3 DEF RecordCheck, TypeInv, TypeOK, repo, HEAD
<1>6. CASE RecordReview
  <2>1. PICK rev \in {0, HEAD} :
           record' = [record EXCEPT !.review =
                         {[rev |-> rev, digest |-> DigestOwnedFiles(work, record.owned)]}]
    BY <1>6 DEF RecordReview
  <2>2. record' \in TaskRecords /\ record'.owned = record.owned
    BY <1>0, <2>1, EvidenceType DEF TaskRecords
  <2>3. reviewed' \subseteq (1..MaxCommits) \X Trees
    BY <1>0, <1>6, NowType DEF RecordReview
  <2> QED
    BY <1>0, <1>6, <1>u, <2>2, <2>3 DEF RecordReview, TypeInv, TypeOK, repo, HEAD
<1>7. CASE Start
  <2>1. run' \in Validations
    BY <1>0, <1>7, IdleType DEF Start, Validations, Phases
  <2> QED
    BY <1>0, <1>7, <2>1 DEF Start, TypeInv, TypeOK, repo, history, HEAD
<1>8. CASE ReadEvidence
  <2>1. PICK high, useSpec, useRecord \in BOOLEAN, base \in 0..HEAD,
             affected \in AffectedLists \union {{}} :
           /\ high => useSpec /\ useRecord /\ base # 0
           /\ (useRecord /\ base # 0) => base = 1
           /\ ~useSpec => affected = {}
           /\ run' = [run EXCEPT !.phase = "diff", !.high = high, !.useSpec = useSpec,
                          !.useRecord = useRecord, !.base = base, !.affected = affected,
                          !.record = IF useRecord THEN record ELSE NoRecord]
    BY <1>8 DEF ReadEvidence
  <2>2. base \in Revisions /\ affected \in SUBSET Files
    BY <1>0, BoundAssumption, ListsAssumption DEF Revisions
  <2>3. NoRecord \in TaskRecords
    BY DEF NoRecord, TaskRecords
  <2>4. run' \in Validations
    BY <1>0, <2>1, <2>2, <2>3 DEF Validations, Phases
  <2> QED
    BY <1>0, <1>8, <2>4 DEF ReadEvidence, TypeInv, TypeOK, repo, history, HEAD
<1>9. CASE GitDiff
  <2>1. \A t, u, renames : DiffNames(t, u, renames) \subseteq Files
    BY DEF DiffNames, Changed
  <2>2. ASSUME run.base = 0 PROVE run' \in Validations
    BY <1>0, <1>9, <2>2 DEF GitDiff, Validations, Phases
  <2>3. ASSUME run.base # 0 PROVE run' \in Validations
    <3>1. PICK renames : run' = [run EXCEPT !.phase = "status",
                             !.changed = DiffNames(commits[run.base], commits[HEAD], renames)]
      BY <1>9, <2>3 DEF GitDiff
    <3> QED
      BY <1>0, <2>1, <3>1 DEF Validations, Phases
  <2>4. run' \in Validations
    BY <2>2, <2>3
  <2> QED
    BY <1>0, <1>9, <2>4 DEF GitDiff, TypeInv, TypeOK, repo, history, HEAD
<1>10. CASE GitStatus
  <2>1. ParseGitStatusPaths \subseteq Files
    BY <1>0 DEF ParseGitStatusPaths, Dirty, Changed
  <2>2. run' \in Validations
    BY <1>0, <1>10, <2>1 DEF GitStatus, Validations, Phases, TaskRecords
  <2> QED
    BY <1>0, <1>w, <1>10, <2>2 DEF GitStatus, StartDigest, TypeInv, TypeOK, repo, HEAD
<1>11. CASE NoGitStatus
  <2>1. run' \in Validations
    BY <1>0, <1>11 DEF NoGitStatus, Validations, Phases, TaskRecords
  <2> QED
    BY <1>0, <1>w, <1>11, <2>1 DEF NoGitStatus, StartDigest, TypeInv, TypeOK, repo, HEAD
<1>12. CASE Pass \/ NoPass
  <2>1. NoContents \in [Files -> SUBSET (Contents \union {Absent})]
    BY DEF NoContents
  <2> QED
    BY <1>0, <1>12, <2>1, IdleType DEF Pass, NoPass, End, TypeInv, TypeOK, repo, HEAD
<1>13. CASE DigestOwnedFile \/ ValidateCheckEvidence
  <2>1. ASSUME NEW f \in run.unread,
               run' = [run EXCEPT !.unread = @ \ {f}, !.digest[f] = work[f]]
        PROVE  run' \in Validations
    <3>1. [run.digest EXCEPT ![f] = work[f]] \in Trees
      BY <1>0 DEF Validations, Trees
    <3> QED
      BY <1>0, <2>1, <3>1 DEF Validations
  <2>2. run' \in Validations
    BY <1>0, <1>13, <2>1 DEF DigestOwnedFile, ValidateCheckEvidence, Validations, Phases
  <2> QED
    BY <1>0, <1>13, <2>2 DEF DigestOwnedFile, ValidateCheckEvidence, TypeInv, TypeOK, repo, history, HEAD
<1>14. CASE UNCHANGED vars
  BY <1>0, <1>14 DEF TypeInv, TypeOK, vars, repo, history, HEAD
<1> QED
  BY <1>1, <1>2, <1>3, <1>4, <1>5, <1>6, <1>7, <1>8, <1>9, <1>10, <1>11, <1>12, <1>13, <1>14 DEF Next

(* Commits, working tree, record and validation are well typed, whatever   *)
(* the user does and whenever validate reads it.                           *)
THEOREM TypeCorrect == Spec => []TypeOK
<1>1. TypeInv => TypeOK
  BY DEF TypeInv
<1> QED
  BY <1>1, TypeInit, TypeNext, PTL DEF Spec

-----------------------------------------------------------------------------
(* Evidence was recorded when the step it is of was taken: on the contents *)
(* it has the digest of and, unless it names HEAD, at its revision.        *)
RecordedIn(past, e) ==
    \E at \in past :
        /\ e.digest = DigestOwnedFiles(at[2], DOMAIN e.digest)
        /\ e.rev # 0 => at[1] = e.rev

Honest(rec) ==
    /\ \A e \in rec.checks : RecordedIn(checked, e)
    /\ \A e \in rec.review : RecordedIn(reviewed, e)

EvidenceInv == Honest(record) /\ Honest(run.record)

LEMMA NothingRecorded ==
    ASSUME NEW rec, rec.checks = {}, rec.review = {}
    PROVE  Honest(rec) /\ Honest(rec)'
  BY DEF Honest

LEMMA EvidenceInit == Init => EvidenceInv
<1> SUFFICES ASSUME Init PROVE EvidenceInv
  OBVIOUS
<1>1. record.checks = {} /\ record.review = {}
  BY DEF Init
<1>2. run.record.checks = {} /\ run.record.review = {}
  BY DEF Init, Idle, NoRecord
<1> QED
  BY <1>1, <1>2 DEF EvidenceInv, Honest

(* What was recorded stays recorded. *)
LEMMA HonestGrows ==
    ASSUME NEW rec, NEW rec2, Honest(rec),
           checked \subseteq checked', reviewed \subseteq reviewed',
           rec2.checks = rec.checks, rec2.review = rec.review
    PROVE  /\ \A e \in rec2.checks : RecordedIn(checked', e)
           /\ \A e \in rec2.review : RecordedIn(reviewed', e)
  BY DEF Honest, RecordedIn

(* A check or a review of now. *)
LEMMA RecordedNow ==
    ASSUME NEW past, NEW rev \in {0, HEAD}, <<HEAD, work>> \in past
    PROVE  RecordedIn(past, [rev |-> rev, digest |-> DigestOwnedFiles(work, record.owned)])
<1> DEFINE e == [rev |-> rev, digest |-> DigestOwnedFiles(work, record.owned)]
           at == <<HEAD, work>>
<1>1. DOMAIN e.digest = record.owned
  BY DEF DigestOwnedFiles
<1>2. e.digest = DigestOwnedFiles(at[2], DOMAIN e.digest) /\ (e.rev # 0 => at[1] = e.rev)
  BY <1>1
<1> QED
  BY <1>2 DEF RecordedIn

LEMMA EvidenceNext == TypeInv /\ EvidenceInv /\ [Next]_vars => EvidenceInv'
<1> SUFFICES ASSUME TypeInv, EvidenceInv, [Next]_vars PROVE EvidenceInv'
  OBVIOUS
<1> DEFINE Kept(rec) == /\ \A e \in rec.checks : RecordedIn(checked', e)
                        /\ \A e \in rec.review : RecordedIn(reviewed', e)
<1>0. record \in TaskRecords /\ run \in Validations
  BY DEF TypeInv, TypeOK
<1>1. SUFFICES Kept(record') /\ Kept(run'.record)
  BY <1>1 DEF EvidenceInv, Honest
<1>2. checked \subseteq checked' /\ reviewed \subseteq reviewed'
  BY DEF Next, vars, history, Edit, StageRename, Commit, AmendOwnedFiles, RecordCheck,
         RecordReview, Start, ReadEvidence, GitDiff, GitStatus, NoGitStatus, StartDigest,
         DigestOwnedFile, ValidateCheckEvidence, Pass, NoPass, End
<1>3. Kept(record) /\ Kept(run.record)
  BY <1>2, HonestGrows DEF EvidenceInv
<1>4. Kept(NoRecord)
  BY DEF NoRecord
<1>5. CASE UNCHANGED <<record, run>>
  BY <1>3, <1>5
<1>6. CASE AmendOwnedFiles
  <2>1. record'.checks = record.checks /\ record'.review = record.review
    BY <1>0, <1>6 DEF AmendOwnedFiles, TaskRecords
  <2> QED
    BY <1>3, <1>6, <2>1 DEF AmendOwnedFiles
<1>7. CASE RecordCheck
  <2>1. PICK rev \in {0, HEAD}, kept \in {{}, record.checks} :
           record' = [record EXCEPT !.checks = kept \union
                         {[rev |-> rev, digest |-> DigestOwnedFiles(work, record.owned)]}]
    BY <1>7 DEF RecordCheck
  <2> DEFINE now == [rev |-> rev, digest |-> DigestOwnedFiles(work, record.owned)]
  <2>2. RecordedIn(checked', now)
    BY <1>7, RecordedNow DEF RecordCheck
  <2>3. record'.checks \subseteq record.checks \union {now} /\ record'.review = record.review
    BY <1>0, <2>1 DEF TaskRecords
  <2> QED
    BY <1>3, <1>7, <2>2, <2>3 DEF RecordCheck
<1>8. CASE RecordReview
  <2>1. PICK rev \in {0, HEAD} :
           record' = [record EXCEPT !.review =
                         {[rev |-> rev, digest |-> DigestOwnedFiles(work, record.owned)]}]
    BY <1>8 DEF RecordReview
  <2> DEFINE now == [rev |-> rev, digest |-> DigestOwnedFiles(work, record.owned)]
  <2>2. RecordedIn(reviewed', now)
    BY <1>8, RecordedNow DEF RecordReview
  <2>3. record'.checks = record.checks /\ record'.review = {now}
    BY <1>0, <2>1 DEF TaskRecords
  <2> QED
    BY <1>3, <1>8, <2>2, <2>3 DEF RecordReview
<1>9. CASE Start \/ Pass \/ NoPass
  <2>1. run' = Idle \/ run' = [Idle EXCEPT !.phase = "evidence", !.head = HEAD]
    BY <1>9 DEF Start, Pass, NoPass, End
  <2>2. Idle.record = NoRecord
    BY DEF Idle
  <2>3. run'.record = NoRecord
    BY <2>1, <2>2, IdleType DEF Validations
  <2> QED
    BY <1>3, <1>4, <1>9, <2>3 DEF Start, Pass, NoPass, End
<1>10. CASE ReadEvidence
  <2>1. run'.record \in {record, NoRecord}
    BY <1>0, <1>10 DEF ReadEvidence, Validations
  <2> QED
    BY <1>3, <1>4, <1>10, <2>1 DEF ReadEvidence
<1>11. CASE GitDiff \/ GitStatus \/ NoGitStatus \/ DigestOwnedFile \/ ValidateCheckEvidence
  <2>1. run'.record = run.record
    BY <1>0, <1>11 DEF GitDiff, GitStatus, NoGitStatus, DigestOwnedFile, ValidateCheckEvidence, Validations
  <2> QED
    BY <1>3, <1>11, <2>1
       DEF GitDiff, GitStatus, NoGitStatus, StartDigest, DigestOwnedFile, ValidateCheckEvidence
<1> QED
  BY <1>5, <1>6, <1>7, <1>8, <1>9, <1>10, <1>11
     DEF Next, vars, Edit, StageRename, Commit

-----------------------------------------------------------------------------
(* What the validation has read of the owned files each had while it read  *)
(* them, and the checks it has accepted are of that and of its commit.     *)
OfDigest(e) ==
    /\ e.digest = DigestOwnedFiles(run.digest, run.record.owned)
    /\ e.rev # 0 => e.rev = run.head

DigestInv ==
    /\ run.phase = "digest" => \A f \in run.unread : work[f] \in during[f]
    /\ run.phase \in {"digest", "review"} =>
         \A f \in run.record.owned \ run.unread : run.digest[f] \in during[f]
    /\ run.phase = "review" => run.unread = {}
    /\ run.phase = "review" /\ run.useRecord =>
         run.record.checks # {} /\ \A e \in run.record.checks : OfDigest(e)

LEMMA DigestInit == Init => DigestInv
  BY DEF Init, Idle, DigestInv

LEMMA UserKeepsDigest ==
    ASSUME TypeInv, DigestInv, UserStep, run' = run, work' \in Trees
    PROVE  DigestInv'
<1>1. \A f \in Files : during'[f] = IF f \in run.unread THEN during[f] \union {work'[f]} ELSE during[f]
  BY DEF UserStep
<1>2. run.record.owned \subseteq Files /\ run.unread \subseteq Files
  BY DEF TypeInv, TypeOK, Validations, TaskRecords
<1>3. \A e : OfDigest(e)' <=> OfDigest(e)
  BY DEF OfDigest, DigestOwnedFiles
<1> QED
  BY <1>1, <1>2, <1>3 DEF DigestInv

LEMMA DigestNext == TypeInv /\ DigestInv /\ [Next]_vars => DigestInv'
<1> SUFFICES ASSUME TypeInv, DigestInv, [Next]_vars PROVE DigestInv'
  OBVIOUS
<1>0. run \in Validations /\ work \in Trees /\ TypeInv'
  BY TypeNext DEF TypeInv, TypeOK
<1>1. CASE Edit \/ StageRename \/ Commit \/ AmendOwnedFiles \/ RecordCheck \/ RecordReview
  <2>1. UserStep /\ run' = run /\ work' \in Trees
    BY <1>0, <1>1 DEF Edit, StageRename, Commit, AmendOwnedFiles, RecordCheck, RecordReview,
                      TypeInv, TypeOK
  <2> QED
    BY <2>1, UserKeepsDigest
<1>2. CASE Start \/ Pass \/ NoPass
  <2>1. run' = Idle \/ run' = [Idle EXCEPT !.phase = "evidence", !.head = HEAD]
    BY <1>2 DEF Start, Pass, NoPass, End
  <2>2. Idle \in Validations /\ Idle.phase = "idle"
    BY IdleType DEF Idle
  <2>3. run'.phase \in {"idle", "evidence"}
    BY <2>1, <2>2 DEF Validations
  <2> QED
    BY <2>3 DEF DigestInv
<1>3. CASE ReadEvidence \/ GitDiff
  <2>1. run'.phase \in {"diff", "status"}
    BY <1>0, <1>3 DEF ReadEvidence, GitDiff, Validations
  <2> QED
    BY <2>1 DEF DigestInv
<1>4. CASE GitStatus \/ NoGitStatus
  <2>1. /\ run'.phase = "digest" /\ run'.unread = run.record.owned /\ run'.record = run.record
        /\ work' = work /\ \A f \in run'.unread : f \in Files => during'[f] = {work[f]}
    BY <1>0, <1>4 DEF GitStatus, NoGitStatus, StartDigest, repo, Validations
  <2>2. run'.unread \subseteq Files
    BY <1>0, <2>1 DEF Validations, TaskRecords
  <2> QED
    BY <2>1, <2>2 DEF DigestInv
<1>5. CASE DigestOwnedFile
  <2>1. PICK f \in run.unread : run' = [run EXCEPT !.unread = @ \ {f}, !.digest[f] = work[f]]
    BY <1>5 DEF DigestOwnedFile
  <2>2. /\ run.phase = "digest" /\ run'.phase = "digest" /\ run'.record = run.record
        /\ run'.unread = run.unread \ {f} /\ run.unread \subseteq Files
        /\ \A g \in Files : run'.digest[g] = IF g = f THEN work[f] ELSE run.digest[g]
        /\ work' = work /\ during' = during
    BY <1>0, <1>5, <2>1 DEF DigestOwnedFile, Validations, Trees, repo, history
  <2>3. run.record.owned \subseteq Files
    BY <1>0 DEF Validations, TaskRecords
  <2> QED
    BY <2>2, <2>3 DEF DigestInv
<1>6. CASE ValidateCheckEvidence
  <2>1. /\ run.phase = "digest" /\ run.unread = {} /\ run'.phase = "review"
        /\ run'.record = run.record /\ run'.unread = run.unread /\ run'.digest = run.digest
        /\ run'.head = run.head /\ run'.useRecord = run.useRecord /\ during' = during
    BY <1>0, <1>6 DEF ValidateCheckEvidence, Validations, history
  <2>2. run.useRecord => run.record.checks # {} /\ \A e \in run.record.checks : OfDigest(e)
    BY <1>6 DEF ValidateCheckEvidence, Current, OfDigest, ResolveGitRevision
  <2>3. \A e : OfDigest(e)' <=> OfDigest(e)
    BY <2>1 DEF OfDigest, DigestOwnedFiles
  <2> QED
    BY <2>1, <2>2, <2>3 DEF DigestInv
<1>7. CASE UNCHANGED vars
  <2>1. UNCHANGED <<run, work, during>>
    BY <1>7 DEF vars, repo, history
  <2>2. \A e : OfDigest(e)' <=> OfDigest(e)
    BY <2>1 DEF OfDigest, DigestOwnedFiles
  <2> QED
    BY <2>1, <2>2 DEF DigestInv
<1> QED
  BY <1>1, <1>2, <1>3, <1>4, <1>5, <1>6, <1>7 DEF Next

(* Evidence of what was read was recorded on contents that the owned files *)
(* had meanwhile, some of it at HEAD unless all of it names HEAD.          *)
LEMMA CurrentWas ==
    ASSUME DigestInv, run.phase = "review", NEW past, NEW evidence, evidence # {},
           \A e \in evidence : OfDigest(e) /\ RecordedIn(past, e)
    PROVE  Was(past, evidence)
<1>1. PICK e \in evidence : (\E d \in evidence : d.rev # 0) => e.rev # 0
  OBVIOUS
<1>2. PICK at \in past :
         /\ e.digest = DigestOwnedFiles(at[2], DOMAIN e.digest)
         /\ e.rev # 0 => at[1] = e.rev
  BY DEF RecordedIn
<1>3. e.digest = DigestOwnedFiles(run.digest, run.record.owned)
  BY DEF OfDigest
<1>4. DOMAIN e.digest = run.record.owned
  BY <1>3 DEF DigestOwnedFiles
<1>5. \A f \in run.record.owned : at[2][f] = run.digest[f]
  BY <1>2, <1>3, <1>4 DEF DigestOwnedFiles
<1>6. \A f \in run.record.owned : at[2][f] \in during[f]
  BY <1>5 DEF DigestInv
<1>7. e.rev # 0 => at[1] = run.head
  BY <1>2 DEF OfDigest
<1> QED
  BY <1>1, <1>2, <1>6, <1>7 DEF Was

(* When a task passes, there was a check and, at high risk, a review of    *)
(* one moment whose contents every owned file had while the validation     *)
(* read them, whatever the user does before and meanwhile, for any number  *)
(* of files, commits and steps.                                            *)
THEOREM EvidenceIsCurrentAlways == Spec => EvidenceIsCurrent
<1>1. TypeInv /\ EvidenceInv /\ DigestInv /\ [Next]_vars =>
        [Pass => /\ run.useRecord => Was(checked, run.record.checks)
                 /\ run.high => Was(reviewed, run.record.review)]_vars
  <2> SUFFICES ASSUME EvidenceInv, DigestInv, Pass
               PROVE  /\ run.useRecord => Was(checked, run.record.checks)
                      /\ run.high => Was(reviewed, run.record.review)
    OBVIOUS
  <2>1. run.phase = "review"
    BY DEF Pass
  <2>2. run.useRecord => Was(checked, run.record.checks)
    BY <2>1, CurrentWas DEF EvidenceInv, Honest, DigestInv
  <2>3. run.high => Was(reviewed, run.record.review)
    <3>1. run.high => run.record.review # {} /\ \A e \in run.record.review : OfDigest(e)
      BY DEF Pass, ValidateReviewEvidence, Current, OfDigest, ResolveGitRevision
    <3> QED
      BY <2>1, <3>1, CurrentWas DEF EvidenceInv, Honest
  <2> QED
    BY <2>2, <2>3
<1> QED
  BY <1>1, TypeInit, TypeNext, EvidenceInit, EvidenceNext, DigestInit, DigestNext, PTL
     DEF Spec, EvidenceIsCurrent

-----------------------------------------------------------------------------
(* The changed files.  What an undisturbed high-risk validation has found  *)
(* is what git says now: the diff from the base, without the old paths of  *)
(* some renames, and then the status, all of it allowed.                   *)
ChangesInv ==
    /\ run.high => run.useSpec /\ run.useRecord /\ run.base = 1
    /\ run.phase \in {"status", "digest", "review"} /\ run.high /\ ~disturbed =>
         \E renames \in SUBSET RenamePairs(commits[1], commits[HEAD]) :
             DiffNames(commits[1], commits[HEAD], renames) \subseteq run.changed
    /\ run.phase \in {"digest", "review"} /\ run.high /\ ~disturbed =>
         /\ ParseGitStatusPaths \subseteq run.changed
         /\ \A f \in run.changed : Allowed(f)

LEMMA ChangesInit == Init => ChangesInv
  BY DEF Init, Idle, ChangesInv

(* What the user does either disturbs the validation or precedes it. *)
LEMMA UserDisturbs ==
    ASSUME ChangesInv, UserStep, run' = run
    PROVE  ChangesInv'
<1>1. CASE run.phase = "idle"
  BY <1>1 DEF ChangesInv
<1>2. CASE run.phase # "idle"
  BY <1>2 DEF ChangesInv, UserStep
<1> QED
  BY <1>1, <1>2

LEMMA ChangesNext == TypeInv /\ ChangesInv /\ [Next]_vars => ChangesInv'
<1> SUFFICES ASSUME TypeInv, ChangesInv, [Next]_vars PROVE ChangesInv'
  OBVIOUS
<1>0. run \in Validations /\ HEAD \in Nat
  BY DEF TypeInv, TypeOK
<1>1. CASE Edit \/ StageRename \/ Commit \/ AmendOwnedFiles \/ RecordCheck \/ RecordReview
  BY <1>1, UserDisturbs DEF Edit, StageRename, Commit, AmendOwnedFiles, RecordCheck, RecordReview
<1>2. CASE Start \/ Pass \/ NoPass
  <2>1. run' = Idle \/ run' = [Idle EXCEPT !.phase = "evidence", !.head = HEAD]
    BY <1>2 DEF Start, Pass, NoPass, End
  <2>2. Idle \in Validations /\ ~Idle.high /\ Idle.phase = "idle"
    BY IdleType DEF Idle
  <2>3. ~run'.high /\ run'.phase \in {"idle", "evidence"}
    BY <2>1, <2>2 DEF Validations
  <2> QED
    BY <2>3 DEF ChangesInv
<1>3. CASE ReadEvidence
  <2>1. PICK high, useSpec, useRecord \in BOOLEAN, base \in 0..HEAD,
             affected \in AffectedLists \union {{}} :
           /\ high => useSpec /\ useRecord /\ base # 0
           /\ (useRecord /\ base # 0) => base = 1
           /\ ~useSpec => affected = {}
           /\ run' = [run EXCEPT !.phase = "diff", !.high = high, !.useSpec = useSpec,
                          !.useRecord = useRecord, !.base = base, !.affected = affected,
                          !.record = IF useRecord THEN record ELSE NoRecord]
    BY <1>3 DEF ReadEvidence
  <2>2. run'.phase = "diff" /\ run'.high = high /\ run'.useSpec = useSpec
        /\ run'.useRecord = useRecord /\ run'.base = base
    BY <1>0, <2>1 DEF Validations
  <2> QED
    BY <2>1, <2>2 DEF ChangesInv
<1>4. CASE GitDiff
  <2>1. CASE run.base = 0
    <3>1. run'.base = 0 /\ run'.high = run.high /\ ~run.high
      BY <1>0, <1>4, <2>1 DEF GitDiff, Validations, ChangesInv
    <3> QED
      BY <3>1 DEF ChangesInv
  <2>2. CASE run.base # 0
    <3>1. PICK renames \in RenameSets(commits[run.base], commits[HEAD]) :
             run' = [run EXCEPT !.phase = "status",
                         !.changed = DiffNames(commits[run.base], commits[HEAD], renames)]
      BY <1>4, <2>2 DEF GitDiff
    <3>2. renames \in SUBSET RenamePairs(commits[run.base], commits[HEAD])
      BY <3>1 DEF RenameSets
    <3>3. /\ run'.phase = "status" /\ run'.high = run.high /\ run'.useSpec = run.useSpec
          /\ run'.useRecord = run.useRecord /\ run'.base = run.base
          /\ run'.changed = DiffNames(commits[run.base], commits[HEAD], renames)
      BY <1>0, <3>1 DEF Validations
    <3>4. commits' = commits /\ HEAD' = HEAD
      BY <1>4 DEF GitDiff, repo, HEAD
    <3>5. run.high =>
            \E r \in SUBSET RenamePairs(commits[1], commits[HEAD]) :
                DiffNames(commits[1], commits[HEAD], r) \subseteq run'.changed
      BY <3>2, <3>3 DEF ChangesInv
    <3>6. (\E r \in SUBSET RenamePairs(commits[1], commits[HEAD]) :
               DiffNames(commits[1], commits[HEAD], r) \subseteq run'.changed)
          => (\E r \in SUBSET RenamePairs(commits[1], commits[HEAD]) :
               DiffNames(commits[1], commits[HEAD], r) \subseteq run.changed)'
      BY <3>4
    <3> QED
      BY <3>3, <3>5, <3>6 DEF ChangesInv
  <2> QED
    BY <2>1, <2>2
<1>5. CASE GitStatus
  <2>1. /\ run.phase = "status" /\ run'.phase = "digest" /\ run'.high = run.high
        /\ run'.useSpec = run.useSpec /\ run'.useRecord = run.useRecord /\ run'.base = run.base
        /\ run'.affected = run.affected /\ run'.record = run.record
        /\ run'.changed = run.changed \union ParseGitStatusPaths
    BY <1>0, <1>5 DEF GitStatus, Validations
  <2>2. UNCHANGED <<commits, work, renamed, disturbed>>
    BY <1>5 DEF GitStatus, StartDigest, repo
  <2>3. \A f : Allowed(f)' <=> Allowed(f)
    BY <2>1 DEF Allowed, SpecAllows, InOwnedScope
  <2>4. ParseGitStatusPaths' = ParseGitStatusPaths /\ HEAD' = HEAD
    BY <2>2 DEF ParseGitStatusPaths, Dirty, HEAD
  <2>5. \A f \in run'.changed : Allowed(f)'
    BY <1>5, <2>1, <2>3 DEF GitStatus
  <2>6. ASSUME NEW r, DiffNames(commits[1], commits[HEAD], r) \subseteq run.changed
        PROVE  DiffNames(commits[1], commits[HEAD], r) \subseteq run'.changed
    BY <2>1, <2>6
  <2>7. run.high /\ ~disturbed =>
         \E r \in SUBSET RenamePairs(commits[1], commits[HEAD]) :
             DiffNames(commits[1], commits[HEAD], r) \subseteq run'.changed
    BY <2>1, <2>6 DEF ChangesInv
  <2>8. (run.high /\ ~disturbed =>
         \E r \in SUBSET RenamePairs(commits[1], commits[HEAD]) :
             DiffNames(commits[1], commits[HEAD], r) \subseteq run.changed)'
    BY <2>1, <2>2, <2>4, <2>7
  <2> QED
    BY <2>1, <2>2, <2>4, <2>5, <2>8 DEF ChangesInv
<1>6. CASE NoGitStatus
  <2>1. run.base = 0 /\ run'.base = 0 /\ run'.high = run.high
    BY <1>0, <1>6 DEF NoGitStatus, Validations
  <2> QED
    BY <2>1 DEF ChangesInv
<1>7. CASE DigestOwnedFile \/ ValidateCheckEvidence
  <2>1. /\ run.phase = "digest" /\ run'.phase \in {"digest", "review"}
        /\ run'.high = run.high /\ run'.useSpec = run.useSpec /\ run'.useRecord = run.useRecord
        /\ run'.base = run.base /\ run'.affected = run.affected /\ run'.record = run.record
        /\ run'.changed = run.changed
    BY <1>0, <1>7 DEF DigestOwnedFile, ValidateCheckEvidence, Validations
  <2>2. UNCHANGED <<commits, work, renamed, disturbed>>
    BY <1>7 DEF DigestOwnedFile, ValidateCheckEvidence, repo, history
  <2>3. \A f : Allowed(f)' <=> Allowed(f)
    BY <2>1 DEF Allowed, SpecAllows, InOwnedScope
  <2>4. ParseGitStatusPaths' = ParseGitStatusPaths /\ HEAD' = HEAD
    BY <2>2 DEF ParseGitStatusPaths, Dirty, HEAD
  <2>5. (\E r \in SUBSET RenamePairs(commits[1], commits[HEAD]) :
             DiffNames(commits[1], commits[HEAD], r) \subseteq run.changed)'
        <=> \E r \in SUBSET RenamePairs(commits[1], commits[HEAD]) :
             DiffNames(commits[1], commits[HEAD], r) \subseteq run.changed
    BY <2>1, <2>2, <2>4
  <2> QED
    BY <2>1, <2>2, <2>3, <2>4, <2>5 DEF ChangesInv
<1>8. CASE UNCHANGED vars
  BY <1>8 DEF vars, repo, history, ChangesInv, ParseGitStatusPaths, Dirty, HEAD, Allowed,
              SpecAllows, InOwnedScope
<1> QED
  BY <1>1, <1>2, <1>3, <1>4, <1>5, <1>6, <1>7, <1>8 DEF Next

(* The new path of a rename is named by git diff: it is there, the old     *)
(* path of a rename is not.                                                *)
LEMMA NewPathNamed ==
    ASSUME NEW t, NEW u, NEW renames \in SUBSET RenamePairs(t, u), NEW p \in renames
    PROVE  p[2] \in DiffNames(t, u, renames)
<1>1. ASSUME NEW q \in renames
      PROVE  /\ q[1] \in Changed(t, u) /\ u[q[1]] = Absent
             /\ q[2] \in Changed(t, u) /\ t[q[2]] = Absent
  BY DEF RenamePairs, Deleted, Added
<1>2. u[p[2]] # Absent
  BY <1>1 DEF Changed
<1> QED
  BY <1>1, <1>2 DEF DiffNames

(* A high-risk task that is left alone while it is validated only passes   *)
(* when everything that differs from its base is in the scope, the spec    *)
(* and the owned files, or is one end of a rename whose other end is.      *)
THEOREM ChangesAreCoveredAlways == Spec => ChangesAreCovered
<1>1. ChangesInv =>
        [(Pass /\ run.high /\ ~disturbed) =>
            \A f \in TaskChanges :
                Covered(f) \/ \E p \in Renames :
                                 f \in {p[1], p[2]} /\ (Covered(p[1]) \/ Covered(p[2]))]_vars
  <2> SUFFICES ASSUME ChangesInv, Pass, run.high, ~disturbed, NEW f \in TaskChanges
               PROVE  Covered(f) \/ \E p \in Renames :
                                 f \in {p[1], p[2]} /\ (Covered(p[1]) \/ Covered(p[2]))
    OBVIOUS
  <2>1. run.phase = "review"
    BY DEF Pass
  <2>2. PICK renames \in SUBSET RenamePairs(commits[1], commits[HEAD]) :
          DiffNames(commits[1], commits[HEAD], renames) \subseteq run.changed
    BY <2>1 DEF ChangesInv
  <2>3. ParseGitStatusPaths \subseteq run.changed
    BY <2>1 DEF ChangesInv
  <2>4. \A g \in run.changed : Covered(g)
    BY <2>1 DEF ChangesInv, Allowed, SpecAllows, InOwnedScope, Covered
  <2>5. f \in Changed(commits[HEAD], work) \/ f \in Changed(commits[1], commits[HEAD])
    BY DEF TaskChanges, Changed
  <2>6. CASE f \in Changed(commits[HEAD], work)
    <3>1. CASE f \in Dirty
      BY <2>3, <2>4, <3>1 DEF ParseGitStatusPaths
    <3>2. CASE f \notin Dirty
      <4>1. PICK p \in renamed : f = p[2]
        BY <2>6, <3>2 DEF Dirty
      <4>2. Covered(p[1])
        BY <2>3, <2>4 DEF ParseGitStatusPaths
      <4> QED
        BY <4>1, <4>2 DEF Renames
    <3> QED
      BY <3>1, <3>2
  <2>7. CASE f \in Changed(commits[1], commits[HEAD])
    <3>1. CASE f \in DiffNames(commits[1], commits[HEAD], renames)
      BY <2>2, <2>4, <3>1
    <3>2. CASE f \notin DiffNames(commits[1], commits[HEAD], renames)
      <4>1. PICK p \in renames : f = p[1]
        BY <2>7, <3>2 DEF DiffNames
      <4>2. p[2] \in DiffNames(commits[1], commits[HEAD], renames)
        BY NewPathNamed
      <4>3. Covered(p[2]) /\ p \in Renames
        BY <2>2, <2>4, <4>2 DEF Renames
      <4> QED
        BY <4>1, <4>3
    <3> QED
      BY <3>1, <3>2
  <2> QED
    BY <2>5, <2>6, <2>7
<1> QED
  BY <1>1, TypeInit, TypeNext, ChangesInit, ChangesNext, PTL DEF Spec, ChangesAreCovered
=============================================================================
