------------------------------- MODULE Upgrade -------------------------------
(***************************************************************************)
(* `aidlc upgrade` (internal/install): resolve a release, download its     *)
(* checksums and then its archive, verify, extract, stage the binary in    *)
(* the destination directory and put it in place - on Unix by one rename,  *)
(* on Windows by moving the old binary aside first.  Every request and     *)
(* every system call may fail, the process may be killed between any two,  *)
(* and two upgrades may have the same destination.                         *)
(*                                                                         *)
(* A binary is its release and the number of the build: assets of a        *)
(* release may be uploaded again, the archive and checksums.txt one after  *)
(* the other.  A checksum is the build it is the checksum of.              *)
(***************************************************************************)
EXTENDS Naturals

CONSTANTS
    Commands,       \* the upgrade processes
    MaxRelease,     \* releases are 1..MaxRelease, in order
    MaxBuild,       \* bound on the builds uploaded for a release
    Absent, Torn    \* no file; a staged file not written yet

ASSUME BoundAssumption == MaxRelease \in Nat \ {0} /\ MaxBuild \in Nat \ {0}

Releases == 1..MaxRelease
Binaries == Releases \X (1..MaxBuild)

ASSUME FileAssumption == Absent \notin Binaries /\ Torn \notin Binaries \union {Absent}

Phases == {"idle", "planning", "checksums", "archive", "staging", "writing", "replacing",
           "aside", "moving", "cleaning"}

VARIABLES
    os,             \* "unix" or "windows"
    latest,         \* the latest release
    archive, sums,  \* the builds its assets are of; 0: not uploaded yet
    bin,            \* the binary at the destination
    backups,        \* the backup files upgrades left beside it
    cmd             \* the running upgrades

(* What the properties compare with; no action reads them. *)
VARIABLES
    had,            \* has there ever been a binary at the destination
    expected,       \* the last binary that an upgrade put in place
    overlapped      \* have two upgrades ever run at once

upstream == <<latest, archive, sums>>
history == <<had, expected, overlapped>>
vars == <<os, upstream, bin, backups, cmd, history>>

(* want: the release asked for, 0 for the latest; current: the version of  *)
(* the running binary, 0 for a development build; rel: the release         *)
(* resolved; sum: the checksum downloaded; staged, backup: the files that  *)
(* are the command's own.                                                  *)
Idle == [phase |-> "idle", want |-> 0, dry |-> FALSE, current |-> 0, rel |-> 0, sum |-> 0,
         staged |-> Absent, backup |-> Absent]

CommandStates ==
    [phase : Phases, want : 0..MaxRelease, dry : BOOLEAN, current : 0..MaxRelease,
     rel : 0..MaxRelease, sum : 0..MaxBuild,
     staged : Binaries \union {Absent, Torn}, backup : Binaries \union {Absent}]

(* Every state is well typed: in particular the destination only ever has  *)
(* a whole binary or none.                                                 *)
TypeOK ==
    /\ os \in {"unix", "windows"}
    /\ latest \in Releases
    /\ archive \in [Releases -> 0..MaxBuild]
    /\ sums \in [Releases -> 0..MaxBuild]
    /\ bin \in Binaries \union {Absent}
    /\ backups \subseteq Binaries
    /\ cmd \in [Commands -> CommandStates]
    /\ had \in BOOLEAN
    /\ expected \in Binaries \union {Absent}
    /\ overlapped \in BOOLEAN

(* One release is out; the destination has it, or nothing. *)
Init ==
    /\ os \in {"unix", "windows"}
    /\ latest = 1
    /\ archive = [r \in Releases |-> IF r = 1 THEN 1 ELSE 0]
    /\ sums = archive
    /\ bin \in {<<1, 1>>, Absent}
    /\ backups = {}
    /\ cmd = [c \in Commands |-> Idle]
    /\ had = (bin # Absent)
    /\ expected = bin
    /\ overlapped = FALSE

-----------------------------------------------------------------------------
(* The upgrade. *)

Become(c, state) == cmd' = [cmd EXCEPT ![c] = state]

(* Returning, with or without an error: what was staged is removed. *)
Return(c) == Become(c, Idle)

(* --version, --dry-run; by default the destination is the running binary, *)
(* with --install-dir any version may be running.                          *)
Start(c) ==
    /\ cmd[c].phase = "idle"
    /\ \E want \in 0..latest, dry \in BOOLEAN, current \in 0..latest :
         Become(c, [Idle EXCEPT !.phase = "planning", !.want = want, !.dry = dry,
                                !.current = current])
    /\ overlapped' = (overlapped \/ \E d \in Commands : cmd[d].phase # "idle")
    /\ UNCHANGED <<os, upstream, bin, backups, had, expected>>

ShouldSkipUpgrade(c, r) == cmd[c].want = 0 /\ cmd[c].current = r

(* The release has both assets.  A dry run ends here, and so does an       *)
(* upgrade to the latest release by a binary of that release.              *)
PlanUpgrade(c) ==
    LET r == IF cmd[c].want = 0 THEN latest ELSE cmd[c].want
        skip == ShouldSkipUpgrade(c, r)
    IN  /\ cmd[c].phase = "planning"
        /\ archive[r] # 0 /\ sums[r] # 0
        /\ \/ (cmd[c].dry \/ skip) /\ Return(c)
           \/ /\ ~(cmd[c].dry \/ skip)
              /\ Become(c, [Idle EXCEPT !.phase = "checksums", !.rel = r])
        /\ UNCHANGED <<os, upstream, bin, backups, history>>

DownloadChecksums(c) ==
    /\ cmd[c].phase = "checksums"
    /\ Become(c, [cmd[c] EXCEPT !.phase = "archive", !.sum = sums[cmd[c].rel]])
    /\ UNCHANGED <<os, upstream, bin, backups, history>>

(* Mutant of DownloadArchive: the archive is not verified. *)
DownloadUnverified(c) ==
    /\ cmd[c].phase = "archive"
    /\ Become(c, [cmd[c] EXCEPT !.phase = "staging", !.sum = archive[cmd[c].rel]])
    /\ UNCHANGED <<os, upstream, bin, backups, history>>

VerifyChecksum(rel, sum) == archive[rel] = sum

(* The archive is only extracted when it is the one the checksum is of.  A *)
(* broken download is not, and fails likewise.                             *)
DownloadArchive(c) ==
    /\ cmd[c].phase = "archive"
    /\ VerifyChecksum(cmd[c].rel, cmd[c].sum)
    /\ Become(c, [cmd[c] EXCEPT !.phase = "staging"])
    /\ UNCHANGED <<os, upstream, bin, backups, history>>

CreateStaged(c) ==
    /\ cmd[c].phase = "staging"
    /\ Become(c, [cmd[c] EXCEPT !.phase = "writing", !.staged = Torn])
    /\ UNCHANGED <<os, upstream, bin, backups, history>>

(* The binary is written, made executable and closed. *)
WriteStaged(c) ==
    /\ cmd[c].phase = "writing"
    /\ Become(c, [cmd[c] EXCEPT !.phase = "replacing", !.staged = <<cmd[c].rel, cmd[c].sum>>])
    /\ UNCHANGED <<os, upstream, bin, backups, history>>

(* os.Rename of the staged file over the destination. *)
PutInPlace(c) ==
    /\ bin' = cmd[c].staged
    /\ expected' = cmd[c].staged
    /\ had' = TRUE

ReplaceBinary(c) ==
    /\ cmd[c].phase = "replacing" /\ os = "unix"
    /\ PutInPlace(c)
    /\ Return(c)
    /\ UNCHANGED <<os, upstream, backups, overlapped>>

-----------------------------------------------------------------------------
(* replaceBinaryWindows *)

InspectDestination(c) ==
    /\ cmd[c].phase = "replacing" /\ os = "windows"
    /\ Become(c, [cmd[c] EXCEPT !.phase = IF bin = Absent THEN "moving" ELSE "aside"])
    /\ UNCHANGED <<os, upstream, bin, backups, history>>

(* Mutant of MoveAside: the old binary is deleted. *)
DeleteOld(c) ==
    /\ cmd[c].phase = "aside" /\ bin # Absent
    /\ bin' = Absent
    /\ Become(c, [cmd[c] EXCEPT !.phase = "moving"])
    /\ UNCHANGED <<os, upstream, backups, history>>

(* A name for the backup is reserved and the old binary moved to it; that  *)
(* fails when another upgrade has moved it meanwhile.                      *)
MoveAside(c) ==
    /\ cmd[c].phase = "aside" /\ bin # Absent
    /\ bin' = Absent
    /\ Become(c, [cmd[c] EXCEPT !.phase = "moving", !.backup = bin])
    /\ UNCHANGED <<os, upstream, backups, history>>

MoveIn(c) ==
    /\ cmd[c].phase = "moving"
    /\ PutInPlace(c)
    /\ IF cmd[c].backup = Absent THEN Return(c)
       ELSE Become(c, [cmd[c] EXCEPT !.phase = "cleaning", !.staged = Absent])
    /\ UNCHANGED <<os, upstream, backups, overlapped>>

(* Mutant of RollBack: the backup is not moved back. *)
GiveUp(c) ==
    /\ cmd[c].phase = "moving"
    /\ Return(c)
    /\ UNCHANGED <<os, upstream, bin, backups, history>>

(* The staged binary could not be moved in.  The backup is moved back, or  *)
(* stays where it is if that fails too.                                    *)
RollBack(c) ==
    /\ cmd[c].phase = "moving"
    /\ \/ cmd[c].backup = Absent /\ UNCHANGED <<bin, backups>>
       \/ cmd[c].backup # Absent /\ bin' = cmd[c].backup /\ UNCHANGED backups
       \/ cmd[c].backup # Absent /\ backups' = backups \union {cmd[c].backup} /\ UNCHANGED bin
    /\ Return(c)
    /\ UNCHANGED <<os, upstream, history>>

(* The backup is removed, unless it cannot be: it may be the program that  *)
(* is running.                                                             *)
RemoveBackup(c) ==
    /\ cmd[c].phase = "cleaning"
    /\ backups' \in {backups, backups \union {cmd[c].backup}}
    /\ Return(c)
    /\ UNCHANGED <<os, upstream, bin, history>>

-----------------------------------------------------------------------------
(* Any request or system call before the staged binary is moved in fails. *)
Fail(c) ==
    /\ cmd[c].phase \notin {"idle", "moving", "cleaning"}
    /\ Return(c)
    /\ UNCHANGED <<os, upstream, bin, backups, history>>

(* A killed process leaves its backup; what it staged has a name of its    *)
(* own that nothing looks for again.                                       *)
Kill(c) ==
    /\ cmd[c].phase # "idle"
    /\ backups' = backups \union ({cmd[c].backup} \ {Absent})
    /\ Return(c)
    /\ UNCHANGED <<os, upstream, bin, history>>

(* The release workflow publishes a release and uploads its assets; run    *)
(* again for the same tag, it replaces both by a new build, in any order.  *)
PublishRelease ==
    /\ latest < MaxRelease
    /\ latest' = latest + 1
    /\ UNCHANGED <<os, archive, sums, bin, backups, cmd, history>>

UploadArchive ==
    /\ \E r \in 1..latest :
         /\ archive[r] < MaxBuild /\ archive[r] <= sums[r]
         /\ archive' = [archive EXCEPT ![r] = @ + 1]
    /\ UNCHANGED <<os, latest, sums, bin, backups, cmd, history>>

UploadChecksums ==
    /\ \E r \in 1..latest :
         /\ sums[r] < MaxBuild /\ sums[r] <= archive[r]
         /\ sums' = [sums EXCEPT ![r] = @ + 1]
    /\ UNCHANGED <<os, latest, archive, bin, backups, cmd, history>>

Next ==
    \/ \E c \in Commands :
        \/ Start(c) \/ PlanUpgrade(c) \/ DownloadChecksums(c) \/ DownloadArchive(c)
        \/ CreateStaged(c) \/ WriteStaged(c) \/ ReplaceBinary(c)
        \/ InspectDestination(c) \/ MoveAside(c) \/ MoveIn(c) \/ RollBack(c) \/ RemoveBackup(c)
        \/ Fail(c) \/ Kill(c)
    \/ PublishRelease \/ UploadArchive \/ UploadChecksums

Spec == Init /\ [][Next]_vars

-----------------------------------------------------------------------------
(* Properties. *)

(* Once the destination had a binary there is always one to run or to move *)
(* back: at its place on Unix, there or in a backup on Windows, however    *)
(* many upgrades run at once and wherever they fail or are killed.         *)
Recoverable ==
    had => \/ bin # Absent
           \/ /\ os = "windows"
              /\ backups # {} \/ \E c \in Commands : cmd[c].backup # Absent

(* What an upgrade puts in place is a build of the release it resolved     *)
(* whose archive and checksum were both published, also when the release   *)
(* is uploaded again between its requests.                                 *)
InstalledIsPublished ==
    [][\A c \in Commands :
        (ReplaceBinary(c) \/ MoveIn(c)) =>
            \E k \in 1..MaxBuild :
                /\ bin' = <<cmd[c].rel, k>>
                /\ k <= archive[cmd[c].rel] /\ k <= sums[cmd[c].rel]]_vars

(* While upgrades ran one at a time, whatever failed or was killed, the    *)
(* destination has the last binary that was put in place; on Windows it    *)
(* may be only in a backup.                                                *)
DestinationSettled ==
    (~overlapped /\ \A c \in Commands : cmd[c].phase = "idle") =>
        \/ bin = expected
        \/ os = "windows" /\ bin = Absent /\ expected \in backups
=============================================================================
