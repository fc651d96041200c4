-------------------------- MODULE TrackedWorkspace --------------------------
(***************************************************************************)
(* What init and update promise about a target repository, whatever steps  *)
(* they take: the lock always describes one release, only claims contents  *)
(* the files really had, and what the user wrote is only replaced when the *)
(* user puts it at risk.                                                   *)
(***************************************************************************)
CONSTANTS
    Paths, Absent, Torn,
    Releases, Payload,      \* the upstream content of each path in each release
    UserContents            \* what a user may save

Blobs == {Payload[r][p] : r \in Releases, p \in Paths} \ {Absent}
Work == UserContents \ Blobs

VARIABLES
    disk,       \* the content of each file
    files,      \* the content the lock claims for each file
    held,       \* the upstream contents each file has had
    risk        \* does the user put work at risk; changes at any time

vars == <<disk, files, held, risk>>

Init ==
    /\ disk \in [Paths -> UserContents \union {Absent}]
    /\ files = [p \in Paths |-> Absent]
    /\ held = [p \in Paths |-> {disk[p]} \intersect Blobs]
    /\ risk \in BOOLEAN

(* The user saves or deletes a file. *)
UserSaves ==
    /\ \E p \in Paths, new \in UserContents \union {Absent} :
         /\ disk' = [disk EXCEPT ![p] = new]
         /\ held' = [held EXCEPT ![p] = @ \union ({new} \intersect Blobs)]
    /\ UNCHANGED files

(* A file is opened for writing. *)
Truncate ==
    /\ \E p \in Paths :
         /\ disk[p] \in Work => risk
         /\ disk' = [disk EXCEPT ![p] = Torn]
    /\ UNCHANGED <<files, held>>

(* The opened file receives upstream content; so may one that was saved    *)
(* meanwhile.                                                              *)
Install ==
    /\ \E p \in Paths, b \in Blobs :
         /\ disk[p] = Torn \/ risk
         /\ disk' = [disk EXCEPT ![p] = b]
         /\ held' = [held EXCEPT ![p] = @ \union {b}]
    /\ UNCHANGED files

(* The lock is replaced by a truthful description of some of one release. *)
Record ==
    /\ \E r \in Releases, tracked \in SUBSET Paths :
         /\ \A p \in tracked : Payload[r][p] \in held[p]
         /\ files' = [p \in Paths |-> IF p \in tracked THEN Payload[r][p] ELSE Absent]
    /\ UNCHANGED <<disk, held>>

Next ==
    /\ UserSaves \/ Truncate \/ Install \/ Record \/ UNCHANGED <<disk, files, held>>
    /\ risk' \in BOOLEAN

Spec == Init /\ [][Next]_vars
=============================================================================
