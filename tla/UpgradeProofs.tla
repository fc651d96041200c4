---------------------------- MODULE UpgradeProofs ----------------------------
(***************************************************************************)
(* What upgrades promise about the binary at their destination, for any    *)
(* number of upgrades, releases and builds.                                *)
(*                                                                         *)
(* That the destination only has whole, published binaries rests on what   *)
(* each upgrade has downloaded and staged (Progress).  That there is a     *)
(* binary to recover is inductive only when the backup to recover from is  *)
(* one of an upgrade that has still to move its binary in (HasBinary): a   *)
(* backup that is being removed may be gone in the next step.              *)
(***************************************************************************)
EXTENDS Upgrade, TLAPS

Verified == {"staging", "writing", "replacing", "aside", "moving"}
Staged == {"replacing", "aside", "moving"}

(* What an upgrade has in each phase.  Assets are only ever replaced by    *)
(* later builds, so that the build it has seen stays a lower bound.        *)
Progress(u) ==
    /\ u.phase \in Verified \union {"checksums", "archive"} =>
          u.rel \in Releases /\ sums[u.rel] # 0
    /\ u.phase \in Verified \union {"archive"} => u.sum # 0 /\ u.sum <= sums[u.rel]
    /\ u.phase \in Verified => u.sum <= archive[u.rel]
    /\ u.phase \in Staged => u.staged = <<u.rel, u.sum>>
    /\ u.phase = "cleaning" => u.backup # Absent

TypeInv == TypeOK /\ \A c \in Commands : Progress(cmd[c])

(* The upgrade has moved the old binary aside and not yet its own in. *)
HoldsBackup(c) == cmd[c].phase = "moving" /\ cmd[c].backup # Absent

HasBinary ==
    had => \/ bin # Absent
           \/ os = "windows" /\ (backups # {} \/ \E c \in Commands : HoldsBackup(c))

WindowsOnly == \A c \in Commands : cmd[c].phase \in {"aside", "moving"} => os = "windows"

RecoverInv == HasBinary /\ WindowsOnly

(* As long as no two upgrades have run at once: what is moved aside is the *)
(* binary last put in place, and nobody else has put one there since.      *)
Alone == \A c, d \in Commands : cmd[c].phase # "idle" /\ cmd[d].phase # "idle" => c = d

AsideIsExpected ==
    \A c \in Commands :
        /\ cmd[c].phase \notin {"moving", "cleaning"} => cmd[c].backup = Absent
        /\ HoldsBackup(c) => cmd[c].backup = expected /\ bin = Absent

ExpectedIsThere ==
    \/ bin = expected
    \/ /\ os = "windows" /\ bin = Absent
       /\ expected \in backups \/ \E c \in Commands : HoldsBackup(c)

SettledInv == ~overlapped => Alone /\ AsideIsExpected /\ ExpectedIsThere

-----------------------------------------------------------------------------
(* Types and downloads. *)

LEMMA IdleType == Idle \in CommandStates
  BY BoundAssumption DEF Idle, CommandStates, Phases

LEMMA BecomeEffect ==
    ASSUME TypeOK, NEW c \in Commands, NEW s \in CommandStates, Become(c, s)
    PROVE  /\ cmd' \in [Commands -> CommandStates]
           /\ cmd'[c] = s
           /\ \A d \in Commands : d # c => cmd'[d] = cmd[d]
  BY DEF Become, TypeOK

(* A step of one upgrade leaves the releases alone, so that only its own   *)
(* new state has to be looked at.                                          *)
LEMMA BecomeProgress ==
    ASSUME TypeInv, NEW c \in Commands, NEW s \in CommandStates, Become(c, s), Progress(s),
           UNCHANGED upstream
    PROVE  cmd' \in [Commands -> CommandStates] /\ \A d \in Commands : Progress(cmd[d])'
<1>1. \A d \in Commands : cmd'[d] = s \/ cmd'[d] = cmd[d]
  BY BecomeEffect DEF TypeInv
<1>2. \A d \in Commands : Progress(cmd'[d])
  BY <1>1 DEF TypeInv
<1>3. archive' = archive /\ sums' = sums
  BY DEF upstream
<1>4. \A d \in Commands : Progress(cmd[d])'
  BY <1>2, <1>3 DEF Progress
<1>5. QED
  BY <1>4, BecomeEffect DEF TypeInv

(* An idle upgrade has downloaded nothing. *)
LEMMA ReturnProgress ==
    ASSUME TypeInv, NEW c \in Commands, Return(c), UNCHANGED upstream
    PROVE  cmd' \in [Commands -> CommandStates] /\ \A d \in Commands : Progress(cmd[d])'
<1>1. Progress(Idle)
  BY DEF Progress, Idle, Verified, Staged
<1>2. QED
  BY <1>1, IdleType, BecomeProgress DEF Return

LEMMA StagedIsBinary ==
    ASSUME TypeInv, NEW c \in Commands, cmd[c].phase \in Staged
    PROVE  /\ cmd[c].staged \in Binaries
           /\ cmd[c].staged = <<cmd[c].rel, cmd[c].sum>>
           /\ cmd[c].sum \in 1..MaxBuild
           /\ cmd[c].sum <= archive[cmd[c].rel] /\ cmd[c].sum <= sums[cmd[c].rel]
<1>1. cmd[c].sum \in 0..MaxBuild
  BY DEF TypeInv, TypeOK, CommandStates
<1>2. /\ cmd[c].rel \in Releases /\ cmd[c].sum # 0
      /\ cmd[c].sum <= archive[cmd[c].rel] /\ cmd[c].sum <= sums[cmd[c].rel]
      /\ cmd[c].staged = <<cmd[c].rel, cmd[c].sum>>
  BY DEF TypeInv, Progress, Verified, Staged
<1>3. cmd[c].sum \in 1..MaxBuild
  BY <1>1, <1>2, BoundAssumption
<1>4. QED
  BY <1>2, <1>3 DEF Binaries

LEMMA InitTypeInv == Init => TypeInv
<1> SUFFICES ASSUME Init PROVE TypeInv
  OBVIOUS
<1>1. cmd \in [Commands -> CommandStates]
  BY IdleType DEF Init
<1>2. 1 \in Releases /\ <<1, 1>> \in Binaries
  BY BoundAssumption DEF Releases, Binaries
<1>3. archive \in [Releases -> 0..MaxBuild]
  BY BoundAssumption DEF Init
<1>4. TypeOK
  BY <1>1, <1>2, <1>3 DEF Init, TypeOK
<1>5. ASSUME NEW c \in Commands PROVE Progress(cmd[c])
  BY <1>5 DEF Init, Progress, Idle, Verified, Staged
<1>6. QED
  BY <1>4, <1>5 DEF TypeInv

LEMMA StepTypeInv == TypeInv /\ [Next]_vars => TypeInv'
<1> SUFFICES ASSUME TypeInv, [Next]_vars PROVE TypeInv'
  OBVIOUS
<1>0. \A c \in Commands : cmd[c] \in CommandStates /\ Progress(cmd[c])
  BY DEF TypeInv, TypeOK
<1>1. ASSUME NEW c \in Commands, Start(c) PROVE TypeInv'
  <2>1. PICK want \in 0..latest, dry \in BOOLEAN, current \in 0..latest :
          Become(c, [Idle EXCEPT !.phase = "planning", !.want = want, !.dry = dry,
                                 !.current = current])
    BY <1>1 DEF Start
  <2> DEFINE s == [Idle EXCEPT !.phase = "planning", !.want = want, !.dry = dry,
                               !.current = current]
  <2>2. want \in 0..MaxRelease /\ current \in 0..MaxRelease
    BY BoundAssumption DEF TypeInv, TypeOK, Releases
  <2>3. s \in CommandStates
    BY <2>2, IdleType DEF CommandStates, Phases
  <2>4. Progress(s)
    BY DEF Progress, Idle, Verified, Staged
  <2>5. cmd' \in [Commands -> CommandStates] /\ \A d \in Commands : Progress(cmd[d])'
    BY <1>1, <2>1, <2>3, <2>4, BecomeProgress DEF Start
  <2>6. QED
    BY <1>1, <2>5 DEF Start, TypeInv, TypeOK, upstream
<1>2. ASSUME NEW c \in Commands, PlanUpgrade(c) PROVE TypeInv'
  <2> DEFINE r == IF cmd[c].want = 0 THEN latest ELSE cmd[c].want
             s == [Idle EXCEPT !.phase = "checksums", !.rel = r]
  <2>1. CASE Return(c)
    BY <1>2, <2>1, ReturnProgress DEF PlanUpgrade, TypeInv, TypeOK, upstream, history
  <2>2. CASE Become(c, s)
    <3>1. r \in Releases /\ sums[r] # 0
      BY <1>0, <1>2, BoundAssumption DEF PlanUpgrade, TypeInv, TypeOK, Releases, CommandStates
    <3>2. r \in 0..MaxRelease
      BY <3>1 DEF Releases
    <3>3. s \in CommandStates
      BY <3>2, IdleType DEF CommandStates, Phases
    <3>4. s.phase = "checksums" /\ s.rel = r
      BY DEF Idle
    <3>5. Progress(s)
      BY <3>1, <3>4 DEF Progress, Verified, Staged
    <3>6. cmd' \in [Commands -> CommandStates] /\ \A d \in Commands : Progress(cmd[d])'
      BY <1>2, <2>2, <3>3, <3>5, BecomeProgress DEF PlanUpgrade
    <3>7. QED
      BY <1>2, <3>6 DEF PlanUpgrade, TypeInv, TypeOK, upstream, history
  <2>3. QED
    BY <1>2, <2>1, <2>2 DEF PlanUpgrade
<1>3. ASSUME NEW c \in Commands, NEW s \in CommandStates, Become(c, s), Progress(s),
             UNCHANGED <<os, upstream, history>>,
             bin' \in Binaries \union {Absent}, backups' \subseteq Binaries
      PROVE  TypeInv'
  BY <1>3, BecomeProgress DEF TypeInv, TypeOK, upstream, history
<1>4. ASSUME NEW c \in Commands, DownloadChecksums(c) PROVE TypeInv'
  <2> DEFINE s == [cmd[c] EXCEPT !.phase = "archive", !.sum = sums[cmd[c].rel]]
  <2>1. cmd[c].rel \in Releases /\ sums[cmd[c].rel] # 0 /\ sums[cmd[c].rel] \in 0..MaxBuild
    BY <1>0, <1>4 DEF DownloadChecksums, Progress, TypeInv, TypeOK
  <2>2. s \in CommandStates
    BY <1>0, <2>1 DEF CommandStates, Phases
  <2>3. s.phase = "archive" /\ s.rel = cmd[c].rel /\ s.sum = sums[cmd[c].rel]
    BY <1>0 DEF CommandStates
  <2>4. Progress(s)
    BY <1>4, <2>1, <2>2, <2>3 DEF DownloadChecksums, Progress, Verified, Staged
  <2>5. QED
    BY <1>3, <1>4, <2>2, <2>4 DEF DownloadChecksums, TypeInv, TypeOK
<1>5. ASSUME NEW c \in Commands, DownloadArchive(c) PROVE TypeInv'
  <2> DEFINE s == [cmd[c] EXCEPT !.phase = "staging"]
  <2>1. s \in CommandStates
    BY <1>0 DEF CommandStates, Phases
  <2>2. s.phase = "staging" /\ s.rel = cmd[c].rel /\ s.sum = cmd[c].sum
    BY <1>0 DEF CommandStates
  <2>3. cmd[c].sum <= archive[cmd[c].rel]
    BY <1>0, <1>5 DEF DownloadArchive, VerifyChecksum, CommandStates
  <2>4. Progress(s)
    BY <1>0, <1>5, <2>1, <2>2, <2>3 DEF DownloadArchive, Progress, Verified, Staged
  <2>5. QED
    BY <1>3, <1>5, <2>1, <2>4 DEF DownloadArchive, TypeInv, TypeOK
<1>6. ASSUME NEW c \in Commands, CreateStaged(c) PROVE TypeInv'
  <2> DEFINE s == [cmd[c] EXCEPT !.phase = "writing", !.staged = Torn]
  <2>1. s \in CommandStates
    BY <1>0 DEF CommandStates, Phases
  <2>2. s.phase = "writing" /\ s.rel = cmd[c].rel /\ s.sum = cmd[c].sum
    BY <1>0 DEF CommandStates
  <2>3. Progress(s)
    BY <1>0, <1>6, <2>1, <2>2 DEF CreateStaged, Progress, Verified, Staged
  <2>4. QED
    BY <1>3, <1>6, <2>1, <2>3 DEF CreateStaged, TypeInv, TypeOK
<1>7. ASSUME NEW c \in Commands, WriteStaged(c) PROVE TypeInv'
  <2> DEFINE s == [cmd[c] EXCEPT !.phase = "replacing", !.staged = <<cmd[c].rel, cmd[c].sum>>]
  <2>1. cmd[c].rel \in Releases /\ cmd[c].sum # 0 /\ cmd[c].sum \in 0..MaxBuild
    BY <1>0, <1>7 DEF WriteStaged, Progress, Verified, CommandStates
  <2>2. cmd[c].sum \in 1..MaxBuild
    BY <2>1, BoundAssumption
  <2>3. <<cmd[c].rel, cmd[c].sum>> \in Binaries
    BY <2>1, <2>2 DEF Binaries
  <2>4. s \in CommandStates
    BY <1>0, <2>3 DEF CommandStates, Phases
  <2>5. /\ s.phase = "replacing" /\ s.rel = cmd[c].rel /\ s.sum = cmd[c].sum
        /\ s.staged = <<cmd[c].rel, cmd[c].sum>>
    BY <1>0 DEF CommandStates
  <2>6. Progress(s)
    BY <1>0, <1>7, <2>4, <2>5 DEF WriteStaged, Progress, Verified, Staged
  <2>7. QED
    BY <1>3, <1>7, <2>4, <2>6 DEF WriteStaged, TypeInv, TypeOK
<1>8. ASSUME NEW c \in Commands, ReplaceBinary(c) PROVE TypeInv'
  <2>1. cmd[c].staged \in Binaries
    BY <1>8, StagedIsBinary DEF ReplaceBinary, Staged
  <2>2. QED
    BY <1>8, <2>1, ReturnProgress
       DEF ReplaceBinary, PutInPlace, TypeInv, TypeOK, upstream
<1>9. ASSUME NEW c \in Commands, InspectDestination(c) PROVE TypeInv'
  <2> DEFINE s == [cmd[c] EXCEPT !.phase = IF bin = Absent THEN "moving" ELSE "aside"]
  <2>1. s \in CommandStates
    BY <1>0 DEF CommandStates, Phases
  <2>2. /\ s.phase \in {"moving", "aside"} /\ s.rel = cmd[c].rel /\ s.sum = cmd[c].sum
        /\ s.staged = cmd[c].staged
    BY <1>0 DEF CommandStates
  <2>3. Progress(s)
    BY <1>0, <1>9, <2>1, <2>2 DEF InspectDestination, Progress, Verified, Staged
  <2>4. QED
    BY <1>3, <1>9, <2>1, <2>3 DEF InspectDestination, TypeInv, TypeOK
<1>10. ASSUME NEW c \in Commands, MoveAside(c) PROVE TypeInv'
  <2> DEFINE s == [cmd[c] EXCEPT !.phase = "moving", !.backup = bin]
  <2>1. s \in CommandStates
    BY <1>0 DEF CommandStates, Phases, TypeInv, TypeOK
  <2>2. /\ s.phase = "moving" /\ s.rel = cmd[c].rel /\ s.sum = cmd[c].sum
        /\ s.staged = cmd[c].staged
    BY <1>0 DEF CommandStates
  <2>3. Progress(s)
    BY <1>0, <1>10, <2>1, <2>2 DEF MoveAside, Progress, Verified, Staged
  <2>4. QED
    BY <1>3, <1>10, <2>1, <2>3 DEF MoveAside, TypeInv, TypeOK
<1>11. ASSUME NEW c \in Commands, MoveIn(c) PROVE TypeInv'
  <2> DEFINE s == [cmd[c] EXCEPT !.phase = "cleaning", !.staged = Absent]
  <2>1. cmd[c].staged \in Binaries
    BY <1>11, StagedIsBinary DEF MoveIn, Staged
  <2>2. CASE Return(c)
    BY <1>11, <2>1, <2>2, ReturnProgress DEF MoveIn, PutInPlace, TypeInv, TypeOK, upstream
  <2>3. CASE Become(c, s) /\ cmd[c].backup # Absent
    <3>1. s \in CommandStates
      BY <1>0 DEF CommandStates, Phases
    <3>2. s.phase = "cleaning" /\ s.backup = cmd[c].backup
      BY <1>0 DEF CommandStates
    <3>3. Progress(s)
      BY <2>3, <3>2 DEF Progress, Verified, Staged
    <3>4. cmd' \in [Commands -> CommandStates] /\ \A d \in Commands : Progress(cmd[d])'
      BY <1>11, <2>3, <3>1, <3>3, BecomeProgress DEF MoveIn
    <3>5. QED
      BY <1>11, <2>1, <3>4 DEF MoveIn, PutInPlace, TypeInv, TypeOK, upstream
  <2>4. QED
    BY <1>11, <2>2, <2>3 DEF MoveIn
<1>12. ASSUME NEW c \in Commands, Return(c), UNCHANGED <<os, upstream, history>>,
              bin' \in Binaries \union {Absent}, backups' \subseteq Binaries
       PROVE  TypeInv'
  BY <1>12, ReturnProgress DEF TypeInv, TypeOK, upstream, history
<1>13. ASSUME NEW c \in Commands,
              RollBack(c) \/ RemoveBackup(c) \/ Fail(c) \/ Kill(c)
       PROVE  TypeInv'
  <2>1. cmd[c].backup \in Binaries \union {Absent}
    BY <1>0 DEF CommandStates
  <2>2. CASE RollBack(c)
    BY <1>12, <2>1, <2>2 DEF RollBack, TypeInv, TypeOK
  <2>3. CASE RemoveBackup(c)
    BY <1>0, <1>12, <2>1, <2>3 DEF RemoveBackup, Progress, TypeInv, TypeOK
  <2>4. CASE Fail(c)
    BY <1>12, <2>4 DEF Fail, TypeInv, TypeOK
  <2>5. CASE Kill(c)
    BY <1>12, <2>1, <2>5 DEF Kill, TypeInv, TypeOK
  <2>6. QED
    BY <1>13, <2>2, <2>3, <2>4, <2>5
<1>14. CASE PublishRelease
  <2>1. latest' \in Releases
    BY <1>14, BoundAssumption DEF PublishRelease, TypeInv, TypeOK, Releases
  <2>2. QED
    BY <1>14, <2>1 DEF PublishRelease, TypeInv, TypeOK, Progress, history
<1>15. CASE UploadArchive
  <2>1. PICK r \in 1..latest : archive[r] < MaxBuild /\ archive' = [archive EXCEPT ![r] = @ + 1]
    BY <1>15 DEF UploadArchive
  <2>2. r \in Releases /\ archive[r] + 1 \in 0..MaxBuild
    BY <2>1, BoundAssumption DEF TypeInv, TypeOK, Releases
  <2>3. archive' \in [Releases -> 0..MaxBuild] /\ \A q \in Releases : archive[q] <= archive'[q]
    BY <2>1, <2>2 DEF TypeInv, TypeOK
  <2>4. ASSUME NEW c \in Commands PROVE Progress(cmd[c])'
    BY <1>0, <1>15, <2>3 DEF UploadArchive, Progress, CommandStates, Verified, TypeInv, TypeOK
  <2>5. QED
    BY <1>15, <2>3, <2>4 DEF UploadArchive, TypeInv, TypeOK, history
<1>16. CASE UploadChecksums
  <2>1. PICK r \in 1..latest : sums[r] < MaxBuild /\ sums' = [sums EXCEPT ![r] = @ + 1]
    BY <1>16 DEF UploadChecksums
  <2>2. r \in Releases /\ sums[r] + 1 \in 0..MaxBuild
    BY <2>1, BoundAssumption DEF TypeInv, TypeOK, Releases
  <2>3. sums' \in [Releases -> 0..MaxBuild] /\ \A q \in Releases : sums[q] <= sums'[q]
    BY <2>1, <2>2 DEF TypeInv, TypeOK
  <2>4. ASSUME NEW c \in Commands PROVE Progress(cmd[c])'
    BY <1>0, <1>16, <2>3 DEF UploadChecksums, Progress, CommandStates, Verified, TypeInv, TypeOK
  <2>5. QED
    BY <1>16, <2>3, <2>4 DEF UploadChecksums, TypeInv, TypeOK, history
<1>17. CASE UNCHANGED vars
  BY <1>17 DEF vars, upstream, history, TypeInv, TypeOK, Progress
<1>18. QED
  BY <1>1, <1>2, <1>4, <1>5, <1>6, <1>7, <1>8, <1>9, <1>10, <1>11, <1>13, <1>14, <1>15,
     <1>16, <1>17 DEF Next

(* Every state is well typed; in particular, the destination never has a   *)
(* staged file that is not wholly written, whatever fails and whoever is   *)
(* killed.                                                                 *)
THEOREM TypeCorrect == Spec => []TypeOK
<1>1. TypeInv => TypeOK
  BY DEF TypeInv
<1>2. QED
  BY <1>1, InitTypeInv, StepTypeInv, PTL DEF Spec
-----------------------------------------------------------------------------
(* What is put in place. *)

(* An upgrade puts in place a build of the release it resolved whose       *)
(* archive and checksum were both published.                               *)
THEOREM InstalledIsPublishedAlways == Spec => InstalledIsPublished
<1> DEFINE Published(c) ==
        \E k \in 1..MaxBuild :
            /\ bin' = <<cmd[c].rel, k>>
            /\ k <= archive[cmd[c].rel] /\ k <= sums[cmd[c].rel]
           Step == \A c \in Commands : (ReplaceBinary(c) \/ MoveIn(c)) => Published(c)
<1>1. TypeInv /\ [Next]_vars => [Step]_vars
  <2> SUFFICES ASSUME TypeInv, NEW c \in Commands, ReplaceBinary(c) \/ MoveIn(c)
               PROVE  Published(c)
    OBVIOUS
  <2>1. cmd[c].phase \in Staged /\ bin' = cmd[c].staged
    BY DEF ReplaceBinary, MoveIn, PutInPlace, Staged
  <2>2. QED
    BY <2>1, StagedIsBinary
<1>2. QED
  BY <1>1, InitTypeInv, StepTypeInv, PTL DEF Spec, InstalledIsPublished

-----------------------------------------------------------------------------
(* A binary to recover. *)

LEMMA InitRecover == Init => RecoverInv
<1> SUFFICES ASSUME Init PROVE RecoverInv
  OBVIOUS
<1>1. HasBinary
  BY Zenon DEF Init, HasBinary
<1>2. WindowsOnly
  BY DEF Init, WindowsOnly, Idle
<1>3. QED
  BY <1>1, <1>2 DEF RecoverInv

LEMMA ReturnIsIdle ==
    ASSUME TypeInv, NEW c \in Commands, Return(c)
    PROVE  /\ cmd'[c].phase = "idle" /\ cmd'[c].backup = Absent
           /\ \A d \in Commands : d # c => cmd'[d] = cmd[d]
  BY DEF Return, Become, Idle, TypeInv, TypeOK

(* The steps of an upgrade before it touches the destination. *)
Prepare(c) ==
    \/ Start(c) \/ PlanUpgrade(c) \/ DownloadChecksums(c) \/ DownloadArchive(c)
    \/ CreateStaged(c) \/ WriteStaged(c) \/ Fail(c)

LEMMA PrepareMovesNothing ==
    ASSUME TypeInv, NEW c \in Commands, Prepare(c)
    PROVE  /\ UNCHANGED <<os, bin, backups, had, expected>>
           /\ cmd[c].phase \notin {"moving", "cleaning"}
           /\ cmd'[c].phase \notin {"aside", "moving", "cleaning"}
           /\ cmd'[c].backup \in {cmd[c].backup, Absent}
           /\ \A d \in Commands : d # c => cmd'[d] = cmd[d]
<1>0. cmd \in [Commands -> CommandStates]
  BY DEF TypeInv, TypeOK
<1>1. CASE Start(c)
  <2>1. PICK want \in 0..latest, dry \in BOOLEAN, current \in 0..latest :
          Become(c, [Idle EXCEPT !.phase = "planning", !.want = want, !.dry = dry,
                                 !.current = current])
    BY <1>1 DEF Start
  <2>2. /\ cmd'[c].phase = "planning" /\ cmd'[c].backup = Absent
        /\ \A d \in Commands : d # c => cmd'[d] = cmd[d]
    BY <1>0, <2>1 DEF Become, Idle
  <2>3. QED
    BY <1>1, <2>2 DEF Start
<1>2. CASE Return(c) /\ (PlanUpgrade(c) \/ Fail(c))
  BY <1>2, ReturnIsIdle DEF PlanUpgrade, Fail, history
<1>3. CASE PlanUpgrade(c)
  <2>1. CASE Return(c)
    BY <1>2, <1>3, <2>1
  <2>2. CASE Become(c, [Idle EXCEPT !.phase = "checksums",
                                    !.rel = IF cmd[c].want = 0 THEN latest ELSE cmd[c].want])
    BY <1>0, <1>3, <2>2 DEF Become, PlanUpgrade, Idle, history
  <2>3. QED
    BY <1>3, <2>1, <2>2 DEF PlanUpgrade
<1>4. CASE DownloadChecksums(c)
  BY <1>0, <1>4 DEF Become, DownloadChecksums, CommandStates, history
<1>5. CASE DownloadArchive(c)
  BY <1>0, <1>5 DEF Become, DownloadArchive, CommandStates, history
<1>6. CASE CreateStaged(c)
  BY <1>0, <1>6 DEF Become, CreateStaged, CommandStates, history
<1>7. CASE WriteStaged(c)
  BY <1>0, <1>7 DEF Become, WriteStaged, CommandStates, history
<1>8. CASE Fail(c)
  BY <1>2, <1>8 DEF Fail
<1>9. QED
  BY <1>1, <1>3, <1>4, <1>5, <1>6, <1>7, <1>8 DEF Prepare

(* The steps of the maintainers, and no step at all. *)
LEMMA ElsewhereMovesNothing ==
    ASSUME PublishRelease \/ UploadArchive \/ UploadChecksums \/ UNCHANGED vars
    PROVE  UNCHANGED <<os, bin, backups, cmd, had, expected, overlapped>>
  BY DEF PublishRelease, UploadArchive, UploadChecksums, vars, history

LEMMA StepRecover == TypeInv /\ RecoverInv /\ [Next]_vars => RecoverInv'
<1> SUFFICES ASSUME TypeInv, RecoverInv, [Next]_vars PROVE RecoverInv'
  OBVIOUS
<1>0. cmd \in [Commands -> CommandStates]
  BY DEF TypeInv, TypeOK
<1>1. ASSUME NEW c \in Commands, Prepare(c) PROVE RecoverInv'
  BY <1>1, PrepareMovesNothing DEF RecoverInv, HasBinary, HoldsBackup, WindowsOnly
<1>2. ASSUME NEW c \in Commands, ReplaceBinary(c) PROVE RecoverInv'
  <2>1. bin' # Absent
    BY <1>2, StagedIsBinary, FileAssumption DEF ReplaceBinary, PutInPlace, Staged
  <2>2. QED
    BY <1>2, <2>1, ReturnIsIdle DEF ReplaceBinary, RecoverInv, HasBinary, WindowsOnly
<1>3. ASSUME NEW c \in Commands, InspectDestination(c) PROVE RecoverInv'
  <2>1. /\ cmd'[c].phase \in {"aside", "moving"}
        /\ \A d \in Commands : d # c => cmd'[d] = cmd[d]
    BY <1>0, <1>3 DEF Become, InspectDestination, CommandStates
  <2>2. cmd[c].phase = "replacing" /\ os = "windows" /\ UNCHANGED <<os, bin, backups, had>>
    BY <1>3 DEF InspectDestination, history
  <2>3. QED
    BY <2>1, <2>2 DEF RecoverInv, HasBinary, HoldsBackup, WindowsOnly
<1>4. ASSUME NEW c \in Commands, MoveAside(c) PROVE RecoverInv'
  <2>1. /\ cmd'[c].phase = "moving" /\ cmd'[c].backup = bin
        /\ \A d \in Commands : d # c => cmd'[d] = cmd[d]
    BY <1>0, <1>4 DEF Become, MoveAside, CommandStates
  <2>2. bin # Absent /\ os' = "windows"
    BY <1>4 DEF MoveAside, RecoverInv, WindowsOnly
  <2>3. QED
    BY <2>1, <2>2 DEF RecoverInv, HasBinary, HoldsBackup, WindowsOnly
<1>5. ASSUME NEW c \in Commands, MoveIn(c) PROVE RecoverInv'
  <2>1. bin' # Absent /\ UNCHANGED os
    BY <1>5, StagedIsBinary, FileAssumption DEF MoveIn, PutInPlace, Staged
  <2>2. /\ cmd'[c].phase \in {"idle", "cleaning"}
        /\ \A d \in Commands : d # c => cmd'[d] = cmd[d]
    BY <1>0, <1>5, ReturnIsIdle DEF Become, MoveIn, CommandStates
  <2>3. QED
    BY <2>1, <2>2 DEF RecoverInv, HasBinary, WindowsOnly
<1>6. ASSUME NEW c \in Commands, RollBack(c) PROVE RecoverInv'
  <2>1. /\ cmd[c].phase = "moving" /\ UNCHANGED <<os, had>>
        /\ cmd'[c].phase = "idle" /\ \A d \in Commands : d # c => cmd'[d] = cmd[d]
    BY <1>6, ReturnIsIdle DEF RollBack, history
  <2>2. CASE cmd[c].backup = Absent /\ UNCHANGED <<bin, backups>>
    BY <2>1, <2>2 DEF RecoverInv, HasBinary, HoldsBackup, WindowsOnly
  <2>3. CASE cmd[c].backup # Absent /\ bin' = cmd[c].backup
    BY <2>1, <2>3 DEF RecoverInv, HasBinary, WindowsOnly
  <2>4. CASE backups' = backups \union {cmd[c].backup} /\ UNCHANGED bin
    BY <2>1, <2>4 DEF RecoverInv, HasBinary, WindowsOnly
  <2>5. QED
    BY <1>6, <2>2, <2>3, <2>4 DEF RollBack
<1>7. ASSUME NEW c \in Commands, RemoveBackup(c) PROVE RecoverInv'
  <2>1. /\ cmd[c].phase = "cleaning" /\ UNCHANGED <<os, bin, had>> /\ backups \subseteq backups'
        /\ cmd'[c].phase = "idle" /\ \A d \in Commands : d # c => cmd'[d] = cmd[d]
    BY <1>7, ReturnIsIdle DEF RemoveBackup, history
  <2>2. QED
    BY <2>1 DEF RecoverInv, HasBinary, HoldsBackup, WindowsOnly
<1>8. ASSUME NEW c \in Commands, Kill(c) PROVE RecoverInv'
  <2>1. /\ UNCHANGED <<os, bin, had>> /\ backups' = backups \union ({cmd[c].backup} \ {Absent})
        /\ cmd'[c].phase = "idle" /\ \A d \in Commands : d # c => cmd'[d] = cmd[d]
    BY <1>8, ReturnIsIdle DEF Kill, history
  <2>2. HoldsBackup(c) => backups' # {}
    BY <2>1 DEF HoldsBackup
  <2>3. backups # {} => backups' # {}
    BY <2>1
  <2>4. \A d \in Commands : d # c /\ HoldsBackup(d) => HoldsBackup(d)'
    BY <2>1 DEF HoldsBackup
  <2>5. QED
    BY <2>1, <2>2, <2>3, <2>4 DEF RecoverInv, HasBinary, WindowsOnly
<1>9. CASE PublishRelease \/ UploadArchive \/ UploadChecksums \/ UNCHANGED vars
  BY <1>9, ElsewhereMovesNothing DEF RecoverInv, HasBinary, HoldsBackup, WindowsOnly
<1>10. QED
  BY <1>1, <1>2, <1>3, <1>4, <1>5, <1>6, <1>7, <1>8, <1>9 DEF Next, Prepare

(* Once the destination had a binary there always is one, or on Windows a  *)
(* backup to move back, however many upgrades there are.                   *)
THEOREM RecoverableAlways == Spec => []Recoverable
<1>1. RecoverInv => Recoverable
  BY DEF RecoverInv, HasBinary, HoldsBackup, Recoverable
<1>2. QED
  BY <1>1, InitTypeInv, StepTypeInv, InitRecover, StepRecover, PTL DEF Spec

-----------------------------------------------------------------------------
(* One upgrade at a time. *)

LEMMA InitSettled == Init => SettledInv
<1> SUFFICES ASSUME Init PROVE SettledInv
  OBVIOUS
<1>1. \A c \in Commands : cmd[c].phase = "idle" /\ cmd[c].backup = Absent
  BY DEF Init, Idle
<1>2. bin = expected
  BY DEF Init
<1>3. QED
  BY <1>1, <1>2 DEF SettledInv, Alone, AsideIsExpected, ExpectedIsThere, HoldsBackup

(* The steps of an upgrade that has been started. *)
Proceed(c) ==
    \/ PlanUpgrade(c) \/ DownloadChecksums(c) \/ DownloadArchive(c)
    \/ CreateStaged(c) \/ WriteStaged(c) \/ ReplaceBinary(c)
    \/ InspectDestination(c) \/ MoveAside(c) \/ MoveIn(c) \/ RollBack(c) \/ RemoveBackup(c)
    \/ Fail(c) \/ Kill(c)

LEMMA ProceedsAlone ==
    ASSUME TypeInv, Alone, NEW c \in Commands, Proceed(c)
    PROVE  /\ Alone' /\ UNCHANGED overlapped
           /\ \A d \in Commands : d # c => cmd[d].phase = "idle" /\ cmd'[d] = cmd[d]
<1>1. /\ cmd[c].phase # "idle" /\ UNCHANGED overlapped
      /\ \E s : Become(c, s)
  BY DEF Proceed, Return, PutInPlace, history, PlanUpgrade, DownloadChecksums, DownloadArchive,
         CreateStaged, WriteStaged, ReplaceBinary, InspectDestination, MoveAside, MoveIn,
         RollBack, RemoveBackup, Fail, Kill
<1>2. \A d \in Commands : d # c => cmd[d].phase = "idle" /\ cmd'[d] = cmd[d]
  BY <1>1 DEF Alone, Become, TypeInv, TypeOK
<1>3. QED
  BY <1>1, <1>2 DEF Alone

LEMMA StepSettled == TypeInv /\ WindowsOnly /\ SettledInv /\ [Next]_vars => SettledInv'
<1> SUFFICES ASSUME TypeInv, WindowsOnly, SettledInv, [Next]_vars, ~overlapped'
             PROVE  (Alone /\ AsideIsExpected /\ ExpectedIsThere)'
  BY DEF SettledInv
<1> DEFINE Good == Alone /\ AsideIsExpected /\ ExpectedIsThere
<1>0. cmd \in [Commands -> CommandStates]
  BY DEF TypeInv, TypeOK
<1>1. ASSUME NEW c \in Commands, Start(c) PROVE Good'
  <2>1. ~overlapped /\ \A d \in Commands : cmd[d].phase = "idle"
    BY Zenon, <1>1 DEF Start
  <2>2. /\ UNCHANGED <<os, bin, backups, expected>>
        /\ cmd'[c].phase \notin {"aside", "moving", "cleaning"}
        /\ cmd'[c].backup \in {cmd[c].backup, Absent}
        /\ \A d \in Commands : d # c => cmd'[d] = cmd[d]
    BY <1>1, PrepareMovesNothing DEF Prepare
  <2>3. Alone'
    BY <2>1, <2>2 DEF Alone
  <2>4. QED
    BY <2>1, <2>2, <2>3 DEF SettledInv, AsideIsExpected, ExpectedIsThere, HoldsBackup
<1>2. ASSUME NEW c \in Commands, Proceed(c)
      PROVE  /\ Alone' /\ AsideIsExpected /\ ExpectedIsThere
             /\ \A d \in Commands :
                   d # c => /\ cmd'[d] = cmd[d] /\ cmd[d].phase = "idle"
                            /\ cmd[d].backup = Absent
  <2>1. ~overlapped
    <3>1. UNCHANGED overlapped
      BY <1>2 DEF Proceed, PutInPlace, history, PlanUpgrade, DownloadChecksums,
                  DownloadArchive, CreateStaged, WriteStaged, ReplaceBinary, InspectDestination,
                  MoveAside, MoveIn, RollBack, RemoveBackup, Fail, Kill
    <3>2. QED
      BY <3>1
  <2>2. QED
    BY <1>2, <2>1, ProceedsAlone DEF SettledInv, AsideIsExpected
<1>3. ASSUME NEW c \in Commands, Prepare(c), Proceed(c) PROVE Good'
  BY <1>2, <1>3, PrepareMovesNothing DEF AsideIsExpected, ExpectedIsThere, HoldsBackup
<1>4. ASSUME NEW c \in Commands, ReplaceBinary(c) PROVE Good'
  <2>1. cmd'[c].phase = "idle" /\ cmd'[c].backup = Absent /\ bin' = expected'
    BY <1>4, ReturnIsIdle DEF ReplaceBinary, PutInPlace
  <2>2. QED
    BY <1>2, <1>4, <2>1 DEF Proceed, AsideIsExpected, ExpectedIsThere, HoldsBackup
<1>5. ASSUME NEW c \in Commands, InspectDestination(c) PROVE Good'
  <2>1. /\ UNCHANGED <<os, bin, backups, expected>>
        /\ cmd[c].phase = "replacing" /\ cmd'[c].backup = cmd[c].backup
    BY <1>0, <1>5 DEF InspectDestination, Become, CommandStates, history
  <2>2. QED
    BY <1>2, <1>5, <2>1 DEF Proceed, AsideIsExpected, ExpectedIsThere, HoldsBackup
<1>6. ASSUME NEW c \in Commands, MoveAside(c) PROVE Good'
  <2>1. /\ cmd'[c].phase = "moving" /\ cmd'[c].backup = bin /\ bin # Absent /\ bin' = Absent
        /\ UNCHANGED <<os, expected>> /\ os = "windows"
    BY <1>0, <1>6 DEF MoveAside, Become, CommandStates, history, WindowsOnly
  <2>2. bin = expected
    BY <1>2, <1>6, <2>1 DEF Proceed, ExpectedIsThere
  <2>3. QED
    BY <1>2, <1>6, <2>1, <2>2 DEF Proceed, AsideIsExpected, ExpectedIsThere, HoldsBackup
<1>7. ASSUME NEW c \in Commands, MoveIn(c) PROVE Good'
  <2>1. bin' = expected' /\ cmd'[c].phase \in {"idle", "cleaning"}
    BY <1>0, <1>7, ReturnIsIdle DEF MoveIn, PutInPlace, Become, CommandStates
  <2>2. cmd'[c].phase = "idle" => cmd'[c].backup = Absent
    BY <1>0, <1>7, ReturnIsIdle DEF MoveIn, Become, CommandStates
  <2>3. QED
    BY <1>2, <1>7, <2>1, <2>2 DEF Proceed, AsideIsExpected, ExpectedIsThere, HoldsBackup
<1>8. ASSUME NEW c \in Commands, RollBack(c) \/ Kill(c) \/ RemoveBackup(c) PROVE Good'
  <2>1. /\ UNCHANGED <<os, expected>>
        /\ cmd'[c].phase = "idle" /\ cmd'[c].backup = Absent
    BY <1>8, ReturnIsIdle DEF RollBack, Kill, RemoveBackup, history
  <2>2. AsideIsExpected /\ ExpectedIsThere
    BY <1>2, <1>8 DEF Proceed
  <2>3. AsideIsExpected' /\ Alone'
    BY <1>2, <1>8, <2>1 DEF Proceed, AsideIsExpected, HoldsBackup
  <2>4. \A d \in Commands : HoldsBackup(d) => d = c
    BY <1>2, <1>8 DEF Proceed, HoldsBackup
  <2>5. CASE RollBack(c)
    <3>1. cmd[c].phase = "moving"
      BY <2>5 DEF RollBack
    <3>2. CASE cmd[c].backup = Absent /\ UNCHANGED <<bin, backups>>
      BY <2>1, <2>2, <2>3, <2>4, <3>2 DEF ExpectedIsThere, HoldsBackup
    <3>3. CASE cmd[c].backup # Absent /\ bin' = cmd[c].backup
      BY <2>1, <2>2, <2>3, <3>1, <3>3 DEF ExpectedIsThere, AsideIsExpected, HoldsBackup
    <3>4. CASE cmd[c].backup # Absent /\ backups' = backups \union {cmd[c].backup} /\ UNCHANGED bin
      <4>1. cmd[c].backup = expected /\ bin = Absent
        BY <2>2, <3>1, <3>4 DEF AsideIsExpected, HoldsBackup
      <4>2. bin' = expected' \/ (os' = "windows" /\ bin' = Absent /\ expected' \in backups')
        BY <2>1, <2>2, <3>4, <4>1 DEF ExpectedIsThere
      <4>3. QED
        BY <2>3, <4>2 DEF ExpectedIsThere
    <3>5. QED
      BY <2>5, <3>2, <3>3, <3>4 DEF RollBack
  <2>6. CASE Kill(c)
    <3>1. bin' = bin /\ backups' = backups \union ({cmd[c].backup} \ {Absent})
      BY <2>6 DEF Kill
    <3>2. ASSUME HoldsBackup(c) PROVE expected' \in backups'
      BY <2>1, <2>2, <3>1, <3>2 DEF AsideIsExpected, HoldsBackup
    <3>3. bin' = expected' \/ (os' = "windows" /\ bin' = Absent /\ expected' \in backups')
      BY <2>1, <2>2, <2>4, <3>1, <3>2 DEF ExpectedIsThere
    <3>4. QED
      BY <2>3, <3>3 DEF ExpectedIsThere
  <2>7. CASE RemoveBackup(c)
    <3>1. cmd[c].phase = "cleaning" /\ bin' = bin /\ backups \subseteq backups'
      BY <2>7 DEF RemoveBackup
    <3>2. ~\E d \in Commands : HoldsBackup(d)
      BY <2>4, <3>1 DEF HoldsBackup
    <3>3. bin' = expected' \/ (os' = "windows" /\ bin' = Absent /\ expected' \in backups')
      BY <2>1, <2>2, <3>1, <3>2 DEF ExpectedIsThere
    <3>4. QED
      BY <2>3, <3>3 DEF ExpectedIsThere
  <2>8. QED
    BY <1>8, <2>5, <2>6, <2>7
<1>9. CASE PublishRelease \/ UploadArchive \/ UploadChecksums \/ UNCHANGED vars
  <2>1. UNCHANGED <<os, bin, backups, cmd, expected, overlapped>>
    BY <1>9, ElsewhereMovesNothing
  <2>2. ~overlapped
    BY <2>1
  <2>3. QED
    BY <2>1, <2>2 DEF SettledInv, Alone, AsideIsExpected, ExpectedIsThere, HoldsBackup
<1>10. QED
  BY <1>1, <1>3, <1>4, <1>5, <1>6, <1>7, <1>8, <1>9 DEF Next, Prepare, Proceed

(* While upgrades run one at a time the destination, or on Windows a       *)
(* backup, has the last binary that was put in place, whatever failed.     *)
THEOREM DestinationSettledAlways == Spec => []DestinationSettled
<1>1. SettledInv => DestinationSettled
  <2> SUFFICES ASSUME SettledInv, ~overlapped, \A c \in Commands : cmd[c].phase = "idle"
               PROVE  \/ bin = expected
                      \/ os = "windows" /\ bin = Absent /\ expected \in backups
    BY DEF DestinationSettled
  <2>1. ExpectedIsThere /\ ~\E c \in Commands : HoldsBackup(c)
    BY DEF SettledInv, HoldsBackup
  <2>2. QED
    BY <2>1 DEF ExpectedIsThere
<1>2. RecoverInv => WindowsOnly
  BY DEF RecoverInv
<1>3. QED
  BY <1>1, <1>2, InitTypeInv, StepTypeInv, InitRecover, StepRecover, InitSettled, StepSettled,
     PTL DEF Spec
=============================================================================
