------------------------------ MODULE SyncPlan ------------------------------
(***************************************************************************)
(* The three-way comparison behind `aidlc init` and `aidlc update`         *)
(* (internal/sync): what BuildPlan decides for each payload path from the  *)
(* local file, the release being installed and the previous lock, which    *)
(* decisions are written, and which become clean entries of the new lock.  *)
(*                                                                         *)
(* A file is represented by its content, and its SHA-256 checksum by the   *)
(* content too: equal checksums are equal contents.  Absent stands for a   *)
(* file that is not there, and for a path a lock does not track.           *)
(***************************************************************************)

CONSTANTS
    Paths,      \* payload paths, already normalised
    Absent      \* no file; no entry

Modes == {"init", "update"}

(* The states of a Decision.  "unplanned" is the absence of one. *)
DecisionStates ==
    {"create", "skip", "update-clean", "overwrite", "conflict", "removed-upstream"}

IsWritable(d) == d \in {"create", "update-clean", "overwrite"}

(* A path is planned when the release has it; update also visits the paths *)
(* only the previous lock tracks.                                          *)
IsPlanned(mode, up, prev) ==
    \/ up # Absent
    \/ mode = "update" /\ prev # Absent

(* Mutant of Decide: a file already at the release is not recognised. *)
DecideWithoutSkip(mode, force, local, up, prev) ==
    IF ~IsPlanned(mode, up, prev) THEN "unplanned"
    ELSE IF up = Absent THEN "removed-upstream"
    ELSE IF local = Absent THEN "create"
    ELSE IF mode = "update" /\ local = prev THEN "update-clean"
    ELSE IF force THEN "overwrite"
    ELSE "conflict"

(* Mutant of Decide: every tracked file is taken for an unmodified one. *)
DecideTrackedIsClean(mode, force, local, up, prev) ==
    IF ~IsPlanned(mode, up, prev) THEN "unplanned"
    ELSE IF up = Absent THEN "removed-upstream"
    ELSE IF local = Absent THEN "create"
    ELSE IF local = up THEN "skip"
    ELSE IF mode = "update" /\ prev # Absent THEN "update-clean"
    ELSE IF force THEN "overwrite"
    ELSE "conflict"

(* The decision for one path: local is the file on disk, up the content in *)
(* the release, prev the content the previous lock recorded.  The tests    *)
(* are those of the loop in BuildPlan, in its order.                       *)
Decide(mode, force, local, up, prev) ==
    IF ~IsPlanned(mode, up, prev) THEN "unplanned"
    ELSE IF up = Absent THEN "removed-upstream"
    ELSE IF local = Absent THEN "create"
    ELSE IF local = up THEN "skip"
    ELSE IF mode = "update" /\ local = prev THEN "update-clean"
    ELSE IF force THEN "overwrite"
    ELSE "conflict"

(* disk, payload and tracked are functions on Paths; init plans without    *)
(* the previous lock.                                                      *)
BuildPlan(mode, force, disk, payload, tracked) ==
    [p \in Paths |->
        Decide(mode, force, disk[p], payload[p],
               IF mode = "update" THEN tracked[p] ELSE Absent)]

WritablePaths(plan) == {p \in Paths : IsWritable(plan[p])}

HasConflict(plan) == \E p \in Paths : plan[p] = "conflict"

(* Mutant of AcceptedUpstreamDecision: a conflict is accepted. *)
AcceptedWhenPlanned(d) == d \in DecisionStates \ {"removed-upstream"}

(* Mutant of AcceptedUpstreamDecision: a file that matched is left out. *)
AcceptedWhenWritten(d) == IsWritable(d)

(* A decision is accepted when the release's content is, or is about to    *)
(* be, the content of the file.                                            *)
AcceptedUpstreamDecision(d) == IsWritable(d) \/ d = "skip"

(* The entries of the lock written by init: only what was accepted. *)
ManifestFromAcceptedPlan(plan, payload) ==
    [p \in Paths |-> IF AcceptedUpstreamDecision(plan[p]) THEN payload[p] ELSE Absent]

(* The entries of the lock written by update: the whole release. *)
ManifestFromPlan(plan, payload) == [p \in Paths |-> payload[p]]
=============================================================================
