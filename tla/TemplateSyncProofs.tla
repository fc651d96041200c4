------------------------- MODULE TemplateSyncProofs -------------------------
(***************************************************************************)
(* What holds of init and update for any paths, releases, commands and     *)
(* users: type correctness, that the lock never claims a content a file    *)
(* never had, and that an unforced command keeps the user's work.          *)
(***************************************************************************)
EXTENDS TemplateSync, TLAPS

USE DEF Modes, DecisionStates, Phases

-----------------------------------------------------------------------------
(* Lemmas about the constants and the plan. *)

(* What a release has for a path is upstream content or nothing. *)
LEMMA PayloadType ==
    ASSUME NEW r \in Releases, NEW p \in Paths
    PROVE  /\ Payload[r][p] \in Blobs \union {Absent}
           /\ Payload[r][p] # Torn
  BY ContentsAssumption DEF Blobs

(* A decision is always one of the declared states. *)
LEMMA DecideType ==
    ASSUME NEW mode \in Modes, NEW force \in BOOLEAN, NEW local, NEW up, NEW prev
    PROVE  Decide(mode, force, local, up, prev) \in DecisionStates \union {"unplanned"}
  BY DEF Decide

(* An accepted decision is about a file of the release, and one that is    *)
(* not written is about a file that matches it.                            *)
LEMMA AcceptedMatches ==
    ASSUME NEW mode \in Modes, NEW force \in BOOLEAN, NEW local, NEW up, NEW prev,
           AcceptedUpstreamDecision(Decide(mode, force, local, up, prev))
    PROVE  /\ up # Absent
           /\ IsWritable(Decide(mode, force, local, up, prev)) \/ local = up
  BY DEF Decide, AcceptedUpstreamDecision, IsWritable, IsPlanned

(* A file of the release is accepted unless it is a conflict. *)
LEMMA OnlyConflictsRefused ==
    ASSUME NEW mode \in Modes, NEW force \in BOOLEAN, NEW local, NEW up, NEW prev,
           up # Absent, Decide(mode, force, local, up, prev) # "conflict"
    PROVE  AcceptedUpstreamDecision(Decide(mode, force, local, up, prev))
  BY DEF Decide, AcceptedUpstreamDecision, IsWritable, IsPlanned

(* Without --force, what is written replaces nothing, or what the lock     *)
(* recorded.                                                               *)
LEMMA UnforcedWrites ==
    ASSUME NEW mode \in Modes, NEW local, NEW up, NEW prev,
           IsWritable(Decide(mode, FALSE, local, up, prev))
    PROVE  local = Absent \/ local = prev
  BY DEF Decide, IsWritable, IsPlanned

LEMMA NoLockType == NoLock \in Locks
  BY DEF NoLock, Locks

LEMMA IdleType == Idle \in CommandStates
  BY NoLockType DEF Idle, Command, NoPlan, CommandStates

(* Moving one command to a well-typed state keeps all of them well typed. *)
LEMMA BecomeType ==
    ASSUME cmd \in [Commands -> CommandStates], SnapshotKnown,
           NEW c \in Commands, NEW s \in CommandStates, Become(c, s),
           s.phase \notin {"idle", "started"} => s.snap \in Releases
    PROVE  cmd' \in [Commands -> CommandStates] /\ SnapshotKnown'
  BY DEF Become, SnapshotKnown

(* Likewise for the command that returns. *)
LEMMA FinishType ==
    ASSUME cmd \in [Commands -> CommandStates], SnapshotKnown,
           NEW c \in Commands, Finish(c)
    PROVE  cmd' \in [Commands -> CommandStates] /\ SnapshotKnown'
<1>1. Become(c, Idle) /\ Idle.phase = "idle"
  BY DEF Finish, Idle, Command
<1>2. QED
  BY <1>1, IdleType, BecomeType

-----------------------------------------------------------------------------
(* Type correctness: every action keeps the files, the lock and the        *)
(* commands within their types.                                            *)
THEOREM TypeCorrect == Spec => []TypeOK
<1>1. Init => TypeOK
  BY IdleType, NoLockType, ReleasesAssumption DEF Init, TypeOK, SnapshotKnown, Contents, Idle, Command
<1>2. TypeOK /\ [Next]_vars => TypeOK'
  <2> SUFFICES ASSUME TypeOK, [Next]_vars PROVE TypeOK'
    OBVIOUS
  <2> DEFINE CmdOK == cmd \in [Commands -> CommandStates] /\ SnapshotKnown
  <2>0. /\ CmdOK
        /\ \A c \in Commands : cmd[c] \in CommandStates
    BY DEF TypeOK
  <2>1. ASSUME NEW c \in Commands, ReadManifest(c) PROVE TypeOK'
    <3>1. PICK mode \in Modes, force \in BOOLEAN, dry \in BOOLEAN,
               ide \in {{i} : i \in IDEs} \union {IDEs} :
            Become(c, Command("started", mode, force, dry, ide, lock))
      BY <2>1 DEF ReadManifest
    <3> DEFINE s == Command("started", mode, force, dry, ide, lock)
    <3>2. ide \in SUBSET IDEs
      OBVIOUS
    <3>3. s \in CommandStates /\ s.phase = "started"
      BY <3>2 DEF Command, CommandStates, NoPlan, TypeOK
    <3>4. CmdOK'
      BY <2>0, <3>1, <3>3, BecomeType
    <3>5. QED
      BY <2>1, <3>4 DEF ReadManifest, TypeOK, history
  <2>2. ASSUME NEW c \in Commands, Snapshot(c) PROVE TypeOK'
    <3> DEFINE s == [cmd[c] EXCEPT !.phase = "fetched", !.snap = release]
    <3>1. s \in CommandStates /\ s.snap \in Releases
      BY <2>0 DEF TypeOK, CommandStates
    <3>2. CmdOK'
      BY <2>0, <2>2, <3>1, BecomeType DEF Snapshot
    <3>3. QED
      BY <2>2, <3>2 DEF Snapshot, TypeOK, history
  <2>3. ASSUME NEW c \in Commands, Plan(c) PROVE TypeOK'
    <3> DEFINE p == BuildPlan(cmd[c].mode, cmd[c].force, disk,
                              Payload[cmd[c].snap], cmd[c].prev.files)
               s == [cmd[c] EXCEPT !.phase = "applying", !.plan = p, !.todo = WritablePaths(p)]
    <3>1. p \in [Paths -> DecisionStates \union {"unplanned"}]
      BY <2>0, DecideType DEF BuildPlan, CommandStates
    <3>2. WritablePaths(p) \subseteq Paths
      BY DEF WritablePaths
    <3>3. s \in CommandStates /\ s.snap = cmd[c].snap
      BY <2>0, <3>1, <3>2 DEF CommandStates
    <3>4. cmd[c].snap \in Releases
      BY <2>0, <2>3 DEF Plan, SnapshotKnown
    <3>5. Finish(c) \/ Become(c, s)
      BY <2>3 DEF Plan
    <3>6. CmdOK'
      BY <2>0, <3>3, <3>4, <3>5, BecomeType, FinishType
    <3>7. QED
      BY <2>3, <3>6 DEF Plan, TypeOK, history
  <2>4. ASSUME NEW c \in Commands, BeginWrite(c) PROVE TypeOK'
    <3> DEFINE s == [cmd[c] EXCEPT !.phase = "writing"]
    <3>1. s \in CommandStates /\ s.snap = cmd[c].snap
      BY <2>0 DEF CommandStates
    <3>2. cmd[c].snap \in Releases
      BY <2>0, <2>4 DEF BeginWrite, SnapshotKnown
    <3>3. CmdOK'
      BY <2>0, <2>4, <3>1, <3>2, BecomeType DEF BeginWrite
    <3>4. QED
      BY <2>4, <3>2, <3>3 DEF BeginWrite, TypeOK, Contents
  <2>5. ASSUME NEW c \in Commands, FinishWrite(c) PROVE TypeOK'
    <3>1. PICK p \in Paths :
            /\ disk' = [disk EXCEPT ![p] = Payload[cmd[c].snap][p]]
            /\ held' = [held EXCEPT ![p] = @ \union ({Payload[cmd[c].snap][p]} \intersect Blobs)]
            /\ excused' = excused \ {p}
            /\ unseen' = unseen \ {<<c, p>>}
            /\ Become(c, [cmd[c] EXCEPT !.phase = "applying", !.todo = @ \ {p}])
      BY <2>5 DEF FinishWrite
    <3> DEFINE s == [cmd[c] EXCEPT !.phase = "applying", !.todo = @ \ {p}]
    <3>2. s \in CommandStates /\ s.snap = cmd[c].snap
      BY <2>0 DEF CommandStates
    <3>3. cmd[c].snap \in Releases
      BY <2>0, <2>5 DEF FinishWrite, SnapshotKnown
    <3>4. CmdOK'
      BY <2>0, <3>1, <3>2, <3>3, BecomeType
    <3>5. Payload[cmd[c].snap][p] \in Contents \union {Absent}
      BY <3>3, PayloadType DEF Contents
    <3>6. QED
      BY <2>5, <3>1, <3>3, <3>4, <3>5 DEF FinishWrite, TypeOK
  <2>6. ASSUME NEW c \in Commands, BeginGenerate(c) PROVE TypeOK'
    <3> DEFINE ides == IF cmd[c].mode = "init" THEN cmd[c].ide ELSE cmd[c].prev.ides
               s == [cmd[c] EXCEPT !.phase = "generating", !.render = ides]
    <3>1. ides \in SUBSET IDEs
      BY <2>0 DEF CommandStates, Locks
    <3>2. s \in CommandStates /\ s.snap = cmd[c].snap
      BY <2>0, <3>1 DEF CommandStates
    <3>3. cmd[c].snap \in Releases
      BY <2>0, <2>6 DEF BeginGenerate, SnapshotKnown
    <3>4. CmdOK'
      BY <2>0, <2>6, <3>2, <3>3, BecomeType DEF BeginGenerate
    <3>5. QED
      BY <2>6, <3>4 DEF BeginGenerate, TypeOK, history
  <2>7. ASSUME NEW c \in Commands, GenerateIDE(c) PROVE TypeOK'
    <3>1. PICK i \in cmd[c].render :
            /\ Become(c, [cmd[c] EXCEPT !.render = @ \ {i}])
            /\ fresh' = fresh \union {i}
      BY <2>7 DEF GenerateIDE
    <3> DEFINE s == [cmd[c] EXCEPT !.render = @ \ {i}]
    <3>2. i \in IDEs /\ s \in CommandStates /\ s.snap = cmd[c].snap
      BY <2>0 DEF CommandStates
    <3>3. cmd[c].snap \in Releases
      BY <2>0, <2>7 DEF GenerateIDE, SnapshotKnown
    <3>4. CmdOK'
      BY <2>0, <3>1, <3>2, <3>3, BecomeType
    <3>5. QED
      BY <2>7, <3>1, <3>2, <3>4 DEF GenerateIDE, TypeOK
  <2>8. ASSUME NEW c \in Commands, EndGenerate(c) PROVE TypeOK'
    <3> DEFINE s == [cmd[c] EXCEPT !.phase = "locking"]
    <3>1. s \in CommandStates /\ s.snap = cmd[c].snap
      BY <2>0 DEF CommandStates
    <3>2. cmd[c].snap \in Releases
      BY <2>0, <2>8 DEF EndGenerate, SnapshotKnown
    <3>3. CmdOK'
      BY <2>0, <2>8, <3>1, <3>2, BecomeType DEF EndGenerate
    <3>4. QED
      BY <2>8, <3>3 DEF EndGenerate, TypeOK, history
  <2>9. ASSUME NEW c \in Commands, WriteManifest(c) PROVE TypeOK'
    <3>1. CmdOK'
      BY <2>0, <2>9, FinishType DEF WriteManifest
    <3>2. cmd[c].snap \in Releases
      BY <2>0, <2>9 DEF WriteManifest, SnapshotKnown
    <3>3. NewLock(c) \in Locks
      BY <2>0, <3>2, PayloadType
         DEF NewLock, ManifestFromPlan, ManifestFromAcceptedPlan, Locks, CommandStates
    <3>4. QED
      BY <2>9, <3>1, <3>3 DEF WriteManifest, Forget, TypeOK
  <2>10. ASSUME NEW c \in Commands, Abort(c) PROVE TypeOK'
    <3>1. CmdOK'
      BY <2>0, <2>10, FinishType DEF Abort
    <3>2. QED
      BY <2>10, <3>1 DEF Abort, Forget, TypeOK
  <2>11. CASE Edit
    <3>1. unseen' \subseteq Commands \X Paths
      BY <2>11 DEF Edit, TypeOK
    <3>2. QED
      BY <2>11, <3>1 DEF Edit, TypeOK, SnapshotKnown, Contents
  <2>12. CASE Publish
    BY <2>12 DEF Publish, TypeOK, SnapshotKnown, history
  <2>13. CASE UNCHANGED vars
    BY <2>13 DEF vars, history, TypeOK, SnapshotKnown
  <2>14. QED
    BY <2>1, <2>2, <2>3, <2>4, <2>5, <2>6, <2>7, <2>8, <2>9, <2>10, <2>11, <2>12, <2>13
       DEF Next, Advance
<1>3. QED
  BY <1>1, <1>2, PTL DEF Spec
-----------------------------------------------------------------------------
(* The lock is honest.  HeldInv is inductive relative to TypeOK.  No       *)
(* action takes a content out of held, so what one command knows of the    *)
(* files it accepted survives everybody else's steps.                      *)

HeldGrows == \A p \in Paths : held[p] \subseteq held'[p]

LEMMA OthersStayHonest ==
    ASSUME NEW c \in Commands, CommandHonest(c), HeldGrows, cmd'[c] = cmd[c]
    PROVE  CommandHonest(c)'
  BY DEF CommandHonest, Running, HeldGrows

(* Only the stepping command has to be looked at. *)
LEMMA OneCommand ==
    ASSUME TypeOK, NEW c \in Commands, NEW s, Become(c, s), HeldGrows,
           \A d \in Commands : CommandHonest(d), CommandHonest(c)'
    PROVE  \A d \in Commands : CommandHonest(d)'
  BY OthersStayHonest DEF Become, TypeOK

(* A command at rest, or not past its plan, has nothing to be honest about. *)
LEMMA NotRunningHonest ==
    ASSUME TypeOK, NEW c \in Commands, NEW s, Become(c, s),
           s.phase \in {"idle", "started", "fetched"}
    PROVE  CommandHonest(c)'
  BY DEF Become, CommandHonest, Running, TypeOK

LEMMA FinishHonest ==
    ASSUME TypeOK, NEW c \in Commands, Finish(c), HeldGrows,
           \A d \in Commands : CommandHonest(d)
    PROVE  \A d \in Commands : CommandHonest(d)'
<1>1. Become(c, Idle) /\ Idle.phase = "idle"
  BY DEF Finish, Idle, Command
<1>2. CommandHonest(c)'
  BY <1>1, NotRunningHonest
<1>3. QED
  BY <1>1, <1>2, OneCommand

(* A plan that was not refused makes its command honest. *)
LEMMA PlanHonest ==
    ASSUME TypeOK, HeldInv, NEW c \in Commands, Plan(c)
    PROVE  \A d \in Commands : CommandHonest(d)'
<1> DEFINE p == BuildPlan(cmd[c].mode, cmd[c].force, disk,
                          Payload[cmd[c].snap], cmd[c].prev.files)
           s == [cmd[c] EXCEPT !.phase = "applying", !.plan = p, !.todo = WritablePaths(p)]
<1>0. /\ cmd[c] \in CommandStates /\ cmd[c].snap \in Releases
      /\ cmd[c].mode \in Modes /\ cmd[c].force \in BOOLEAN
      /\ HeldGrows /\ held' = held
  BY DEF Plan, TypeOK, SnapshotKnown, CommandStates, history, HeldGrows
<1>1. CASE Finish(c)
  BY <1>0, <1>1, FinishHonest DEF HeldInv
<1>2. CASE Become(c, s) /\ (cmd[c].mode = "update" => ~HasConflict(p))
  <2>1. /\ cmd'[c].phase = "applying" /\ cmd'[c].plan = p /\ cmd'[c].todo = WritablePaths(p)
        /\ cmd'[c].snap = cmd[c].snap /\ cmd'[c].mode = cmd[c].mode
    BY <1>0, <1>2 DEF Become, TypeOK, CommandStates
  <2>2. ASSUME NEW q \in Paths, AcceptedUpstreamDecision(p[q])
        PROVE  /\ Payload[cmd[c].snap][q] # Absent
               /\ q \in WritablePaths(p) \/ Payload[cmd[c].snap][q] \in held[q]
    <3>1. /\ Payload[cmd[c].snap][q] # Absent
          /\ IsWritable(p[q]) \/ disk[q] = Payload[cmd[c].snap][q]
      BY <1>0, <2>2, AcceptedMatches DEF BuildPlan
    <3>2. CASE IsWritable(p[q])
      BY <3>1, <3>2 DEF WritablePaths
    <3>3. CASE disk[q] = Payload[cmd[c].snap][q]
      BY <1>0, <3>1, <3>3, PayloadType DEF HeldInv, DiskHeld
    <3>4. QED
      BY <3>1, <3>2, <3>3
  <2>3. ASSUME cmd[c].mode = "update", NEW q \in Paths, Payload[cmd[c].snap][q] # Absent
        PROVE  AcceptedUpstreamDecision(p[q])
    <3>1. p[q] # "conflict"
      BY <1>2, <2>3 DEF HasConflict
    <3>2. QED
      BY <1>0, <2>3, <3>1, OnlyConflictsRefused DEF BuildPlan
  <2>4. CommandHonest(c)'
    BY <1>0, <2>1, <2>2, <2>3 DEF CommandHonest
  <2>5. QED
    BY <1>0, <1>2, <2>4, OneCommand DEF HeldInv
<1>3. QED
  BY <1>1, <1>2 DEF Plan

LEMMA HeldInit == Init => HeldInv
  BY DEF Init, HeldInv, CommandHonest, Running, DiskHeld, LockOnlyClaimsHeld, NoLock, Idle, Command

LEMMA HeldStep == TypeOK /\ HeldInv /\ [Next]_vars => HeldInv'
<1> SUFFICES ASSUME TypeOK, HeldInv, [Next]_vars PROVE HeldInv'
  OBVIOUS
<1> DEFINE AllHonest == \A d \in Commands : CommandHonest(d)
<1>0. /\ AllHonest
      /\ \A c \in Commands : cmd[c] \in CommandStates
      /\ held' = held => HeldGrows
      /\ disk' = disk /\ held' = held => DiskHeld'
      /\ lock' = lock /\ HeldGrows => LockOnlyClaimsHeld'
  BY DEF TypeOK, HeldInv, DiskHeld, LockOnlyClaimsHeld, HeldGrows
<1>1. ASSUME NEW c \in Commands, ReadManifest(c) PROVE HeldInv'
  <2>1. PICK mode \in Modes, force \in BOOLEAN, dry \in BOOLEAN,
             ide \in {{i} : i \in IDEs} \union {IDEs} :
          Become(c, Command("started", mode, force, dry, ide, lock))
    BY <1>1 DEF ReadManifest
  <2>2. Command("started", mode, force, dry, ide, lock).phase = "started"
    BY DEF Command
  <2>3. disk' = disk /\ lock' = lock /\ held' = held
    BY <1>1 DEF ReadManifest, history
  <2>4. AllHonest'
    BY <1>0, <2>1, <2>2, <2>3, NotRunningHonest, OneCommand
  <2>5. QED
    BY <1>0, <2>3, <2>4 DEF HeldInv
<1>2. ASSUME NEW c \in Commands, Snapshot(c) PROVE HeldInv'
  <2>1. disk' = disk /\ lock' = lock /\ held' = held
    BY <1>2 DEF Snapshot, history
  <2>2. [cmd[c] EXCEPT !.phase = "fetched", !.snap = release].phase = "fetched"
    BY <1>0 DEF CommandStates
  <2>3. AllHonest'
    BY <1>0, <1>2, <2>1, <2>2, NotRunningHonest, OneCommand DEF Snapshot
  <2>4. QED
    BY <1>0, <2>1, <2>3 DEF HeldInv
<1>3. ASSUME NEW c \in Commands, Plan(c) PROVE HeldInv'
  <2>1. disk' = disk /\ lock' = lock /\ held' = held
    BY <1>3 DEF Plan, history
  <2>2. QED
    BY <1>0, <1>3, <2>1, PlanHonest DEF HeldInv
<1>4. ASSUME NEW c \in Commands, BeginWrite(c) PROVE HeldInv'
  <2> DEFINE s == [cmd[c] EXCEPT !.phase = "writing"]
  <2>1. /\ lock' = lock /\ held' = held
        /\ \E p \in Paths : disk' = [disk EXCEPT ![p] = Torn]
        /\ Become(c, s) /\ cmd[c].phase = "applying"
    BY <1>4 DEF BeginWrite
  <2>2. DiskHeld'
    BY <2>1, ContentsAssumption DEF HeldInv, DiskHeld, TypeOK
  <2>3. CommandHonest(c)'
    BY <1>0, <2>1 DEF Become, TypeOK, CommandStates, CommandHonest, Running
  <2>4. QED
    BY <1>0, <2>1, <2>2, <2>3, OneCommand DEF HeldInv
<1>5. ASSUME NEW c \in Commands, FinishWrite(c) PROVE HeldInv'
  <2>1. PICK p \in Paths :
          /\ disk' = [disk EXCEPT ![p] = Payload[cmd[c].snap][p]]
          /\ held' = [held EXCEPT ![p] = @ \union ({Payload[cmd[c].snap][p]} \intersect Blobs)]
          /\ Become(c, [cmd[c] EXCEPT !.phase = "applying", !.todo = @ \ {p}])
    BY <1>5 DEF FinishWrite
  <2>2. lock' = lock /\ cmd[c].phase = "writing"
    BY <1>5 DEF FinishWrite
  <2>3. HeldGrows /\ (Payload[cmd[c].snap][p] # Absent => Payload[cmd[c].snap][p] \in held'[p])
    <3>1. cmd[c].snap \in Releases
      BY <1>5 DEF FinishWrite, TypeOK, SnapshotKnown
    <3>2. QED
      BY <2>1, <3>1, PayloadType DEF HeldGrows, TypeOK
  <2>4. DiskHeld'
    BY <2>1 DEF HeldInv, DiskHeld, TypeOK
  <2>5. /\ cmd'[c].phase = "applying" /\ cmd'[c].todo = cmd[c].todo \ {p}
        /\ cmd'[c].snap = cmd[c].snap /\ cmd'[c].plan = cmd[c].plan
        /\ cmd'[c].mode = cmd[c].mode
    BY <1>0, <2>1 DEF Become, TypeOK, CommandStates
  <2>6. CommandHonest(c)'
    BY <1>0, <2>2, <2>3, <2>5 DEF CommandHonest, Running, HeldGrows
  <2>7. QED
    BY <1>0, <2>1, <2>2, <2>3, <2>4, <2>6, OneCommand DEF HeldInv
<1>6. ASSUME NEW c \in Commands, BeginGenerate(c) PROVE HeldInv'
  <2> DEFINE s == [cmd[c] EXCEPT !.phase = "generating",
                     !.render = IF cmd[c].mode = "init" THEN cmd[c].ide ELSE cmd[c].prev.ides]
  <2>1. /\ disk' = disk /\ lock' = lock /\ held' = held
        /\ Become(c, s) /\ cmd[c].phase = "applying" /\ cmd[c].todo = {}
    BY <1>6 DEF BeginGenerate, history
  <2>2. CommandHonest(c)'
    BY <1>0, <2>1 DEF Become, TypeOK, CommandStates, CommandHonest, Running
  <2>3. QED
    BY <1>0, <2>1, <2>2, OneCommand DEF HeldInv
<1>7. ASSUME NEW c \in Commands, GenerateIDE(c) PROVE HeldInv'
  <2>1. PICK i \in cmd[c].render : Become(c, [cmd[c] EXCEPT !.render = @ \ {i}])
    BY <1>7 DEF GenerateIDE
  <2>2. disk' = disk /\ lock' = lock /\ held' = held
    BY <1>7 DEF GenerateIDE
  <2>3. CommandHonest(c)'
    BY <1>0, <2>1, <2>2 DEF Become, TypeOK, CommandStates, CommandHonest, Running
  <2>4. QED
    BY <1>0, <2>1, <2>2, <2>3, OneCommand DEF HeldInv
<1>8. ASSUME NEW c \in Commands, EndGenerate(c) PROVE HeldInv'
  <2>1. /\ disk' = disk /\ lock' = lock /\ held' = held
        /\ Become(c, [cmd[c] EXCEPT !.phase = "locking"]) /\ cmd[c].phase = "generating"
    BY <1>8 DEF EndGenerate, history
  <2>2. CommandHonest(c)'
    BY <1>0, <2>1 DEF Become, TypeOK, CommandStates, CommandHonest, Running
  <2>3. QED
    BY <1>0, <2>1, <2>2, OneCommand DEF HeldInv
<1>9. ASSUME NEW c \in Commands, WriteManifest(c) PROVE HeldInv'
  <2>1. /\ disk' = disk /\ held' = held /\ Finish(c) /\ lock' = NewLock(c)
        /\ cmd[c].phase = "locking"
    BY <1>9 DEF WriteManifest
  <2>2. AllHonest'
    BY <1>0, <2>1, FinishHonest
  <2>3. /\ cmd[c].todo = {} /\ CommandHonest(c) /\ Running(c)
    BY <1>0, <2>1 DEF CommandHonest, Running
  <2>4. ASSUME NEW p \in Paths, NewLock(c).files[p] # Absent
        PROVE  NewLock(c).files[p] \in held[p]
    <3>1. CASE cmd[c].mode = "init"
      BY <2>3, <2>4, <3>1 DEF NewLock, ManifestFromAcceptedPlan, CommandHonest
    <3>2. CASE cmd[c].mode = "update"
      BY <2>3, <2>4, <3>2 DEF NewLock, ManifestFromPlan, CommandHonest
    <3>3. QED
      BY <1>0, <3>1, <3>2 DEF CommandStates
  <2>5. LockOnlyClaimsHeld'
    BY <2>1, <2>4 DEF LockOnlyClaimsHeld
  <2>6. QED
    BY <1>0, <2>1, <2>2, <2>5 DEF HeldInv
<1>10. ASSUME NEW c \in Commands, Abort(c) PROVE HeldInv'
  <2>1. disk' = disk /\ lock' = lock /\ held' = held /\ Finish(c)
    BY <1>10 DEF Abort, history
  <2>2. QED
    BY <1>0, <2>1, FinishHonest DEF HeldInv
<1>11. CASE Edit
  <2>1. HeldGrows /\ lock' = lock /\ cmd' = cmd /\ DiskHeld'
    BY <1>11 DEF Edit, HeldInv, DiskHeld, HeldGrows, TypeOK
  <2>2. AllHonest'
    BY <1>0, <2>1, OthersStayHonest
  <2>3. QED
    BY <1>0, <2>1, <2>2 DEF HeldInv
<1>12. CASE Publish \/ UNCHANGED vars
  <2>1. disk' = disk /\ lock' = lock /\ held' = held /\ cmd' = cmd
    BY <1>12 DEF Publish, vars, history
  <2>2. AllHonest'
    BY <1>0, <2>1, OthersStayHonest
  <2>3. QED
    BY <1>0, <2>1, <2>2 DEF HeldInv
<1>13. QED
  BY <1>1, <1>2, <1>3, <1>4, <1>5, <1>6, <1>7, <1>8, <1>9, <1>10, <1>11, <1>12
     DEF Next, Advance

(* The lock of a repository never records a content its file never had,    *)
(* for any number of commands running at once, whatever fails and whatever *)
(* the user edits meanwhile.                                               *)
THEOREM LockHonest == Spec => []LockOnlyClaimsHeld
<1>1. HeldInv => LockOnlyClaimsHeld
  BY DEF HeldInv
<1>2. QED
  BY <1>1, HeldInit, HeldStep, TypeCorrect, PTL DEF Spec

-----------------------------------------------------------------------------
(* The user's work.  What an unforced plan found writable is not the       *)
(* user's work when it is written, unless it was saved since:              *)
(* UnforcedWritesSafe is inductive relative to TypeOK, because no command  *)
(* puts user's work on disk, and a save is noted for every command that    *)
(* has not written all of its plan.                                        *)

(* Upstream content, nothing, and a torn file are not the user's work. *)
LEMMA NotWork ==
    \A b \in Blobs \union {Absent, Torn} : b \notin Work
  BY ContentsAssumption DEF Work

LEMMA PlanWritesSafe ==
    ASSUME TypeOK, NEW c \in Commands, cmd[c].snap \in Releases, ~cmd[c].force,
           NEW p \in Paths,
           IsWritable(BuildPlan(cmd[c].mode, cmd[c].force, disk,
                                Payload[cmd[c].snap], cmd[c].prev.files)[p])
    PROVE  disk[p] \notin Work
<1>1. /\ cmd[c].mode \in Modes /\ cmd[c].force = FALSE
      /\ cmd[c].prev.files \in [Paths -> Blobs \union {Absent}]
  BY DEF TypeOK, CommandStates, Locks
<1> DEFINE prev == IF cmd[c].mode = "update" THEN cmd[c].prev.files[p] ELSE Absent
<1>2. IsWritable(Decide(cmd[c].mode, FALSE, disk[p], Payload[cmd[c].snap][p], prev))
  BY <1>1 DEF BuildPlan
<1>3. disk[p] = Absent \/ disk[p] = prev
  BY <1>1, <1>2, UnforcedWrites
<1>4. QED
  BY <1>1, <1>3, NotWork

LEMMA UnforcedInit == Init => UnforcedWritesSafe
<1>1. Idle.phase = "idle"
  BY DEF Idle, Command
<1>2. QED
  BY <1>1 DEF Init, UnforcedWritesSafe, WritesSafe

NoWorkAppears == \A p \in Paths : disk'[p] \in Work => disk[p] \in Work

(* A step of one command that puts no user's work on disk leaves the       *)
(* others' writes as safe as they were.                                    *)
LEMMA OthersStaySafe ==
    ASSUME TypeOK, UnforcedWritesSafe, NEW c \in Commands, NEW s, Become(c, s), NoWorkAppears,
           unseen \ ({c} \X Paths) \subseteq unseen', WritesSafe(c)'
    PROVE  UnforcedWritesSafe'
<1>1. SUFFICES ASSUME NEW d \in Commands, d # c PROVE WritesSafe(d)'
  BY DEF UnforcedWritesSafe
<1>2. cmd'[d] = cmd[d] /\ cmd[d].todo \subseteq Paths
  BY <1>1 DEF Become, TypeOK, CommandStates
<1>3. \A p \in Paths : <<d, p>> \in unseen => <<d, p>> \in unseen'
  BY <1>1
<1>4. QED
  BY <1>2, <1>3 DEF UnforcedWritesSafe, WritesSafe, NoWorkAppears

(* A command that has nothing to write only has to leave the files alone. *)
LEMMA NotWritingSafe ==
    ASSUME TypeOK, UnforcedWritesSafe, NEW c \in Commands, NEW s, Become(c, s),
           s.phase \notin {"applying", "writing"}, disk' = disk,
           unseen \ ({c} \X Paths) \subseteq unseen'
    PROVE  UnforcedWritesSafe'
<1>1. WritesSafe(c)'
  BY DEF Become, TypeOK, WritesSafe
<1>2. QED
  BY <1>1, OthersStaySafe DEF NoWorkAppears

LEMMA FinishSafe ==
    ASSUME TypeOK, UnforcedWritesSafe, NEW c \in Commands, Finish(c), disk' = disk,
           unseen \ ({c} \X Paths) \subseteq unseen'
    PROVE  UnforcedWritesSafe'
<1>1. Become(c, Idle) /\ Idle.phase = "idle"
  BY DEF Finish, Idle, Command
<1>2. QED
  BY <1>1, NotWritingSafe

LEMMA UnforcedStep ==
    ASSUME TypeOK, UnforcedWritesSafe, [Next]_vars
    PROVE  UnforcedWritesSafe'
<1>0. \A c \in Commands : WritesSafe(c) /\ cmd[c] \in CommandStates
  BY DEF UnforcedWritesSafe, TypeOK
<1>1. ASSUME NEW c \in Commands, ReadManifest(c) PROVE UnforcedWritesSafe'
  <2>1. PICK mode \in Modes, force \in BOOLEAN, dry \in BOOLEAN,
             ide \in {{i} : i \in IDEs} \union {IDEs} :
          Become(c, Command("started", mode, force, dry, ide, lock))
    BY <1>1 DEF ReadManifest
  <2>2. Command("started", mode, force, dry, ide, lock).phase = "started"
    BY DEF Command
  <2>3. disk' = disk /\ unseen' = unseen
    BY <1>1 DEF ReadManifest, history
  <2>4. QED
    BY <2>1, <2>2, <2>3, NotWritingSafe
<1>2. ASSUME NEW c \in Commands, Snapshot(c) PROVE UnforcedWritesSafe'
  <2>1. [cmd[c] EXCEPT !.phase = "fetched", !.snap = release].phase = "fetched"
    BY <1>0 DEF CommandStates
  <2>2. disk' = disk /\ unseen' = unseen
    BY <1>2 DEF Snapshot, history
  <2>3. QED
    BY <1>2, <2>1, <2>2, NotWritingSafe DEF Snapshot
<1>3. ASSUME NEW c \in Commands, Plan(c) PROVE UnforcedWritesSafe'
  <2> DEFINE p == BuildPlan(cmd[c].mode, cmd[c].force, disk,
                            Payload[cmd[c].snap], cmd[c].prev.files)
             s == [cmd[c] EXCEPT !.phase = "applying", !.plan = p, !.todo = WritablePaths(p)]
  <2>1. disk' = disk /\ unseen' = unseen
    BY <1>3 DEF Plan, history
  <2>2. CASE Finish(c)
    BY <2>1, <2>2, FinishSafe
  <2>3. CASE Become(c, s)
    <3>1. cmd'[c].force = cmd[c].force /\ cmd'[c].todo = WritablePaths(p)
      BY <1>0, <2>3 DEF Become, TypeOK, CommandStates
    <3>2. cmd[c].snap \in Releases
      BY <1>3 DEF Plan, TypeOK, SnapshotKnown
    <3>3. ~cmd[c].force => \A q \in WritablePaths(p) : disk[q] \notin Work
      BY <3>2, PlanWritesSafe DEF WritablePaths
    <3>4. WritesSafe(c)'
      BY <2>1, <3>1, <3>3 DEF WritesSafe
    <3>5. QED
      BY <2>1, <2>3, <3>4, OthersStaySafe DEF NoWorkAppears
  <2>4. QED
    BY <1>3, <2>2, <2>3 DEF Plan
<1>4. ASSUME NEW c \in Commands, BeginWrite(c) PROVE UnforcedWritesSafe'
  <2>1. NoWorkAppears
    BY <1>4, NotWork DEF BeginWrite, NoWorkAppears, TypeOK
  <2>2. /\ Become(c, [cmd[c] EXCEPT !.phase = "writing"])
        /\ cmd[c].phase = "applying" /\ unseen' = unseen
    BY <1>4 DEF BeginWrite
  <2>3. cmd'[c].force = cmd[c].force /\ cmd'[c].todo = cmd[c].todo /\ cmd[c].todo \subseteq Paths
    BY <1>0, <2>2 DEF Become, TypeOK, CommandStates
  <2>4. WritesSafe(c)'
    BY <1>0, <2>1, <2>2, <2>3 DEF WritesSafe, NoWorkAppears
  <2>5. QED
    BY <2>1, <2>2, <2>4, OthersStaySafe
<1>5. ASSUME NEW c \in Commands, FinishWrite(c) PROVE UnforcedWritesSafe'
  <2>1. PICK p \in Paths :
          /\ disk' = [disk EXCEPT ![p] = Payload[cmd[c].snap][p]]
          /\ unseen' = unseen \ {<<c, p>>}
          /\ Become(c, [cmd[c] EXCEPT !.phase = "applying", !.todo = @ \ {p}])
    BY <1>5 DEF FinishWrite
  <2>2. cmd[c].phase = "writing" /\ cmd[c].snap \in Releases
    BY <1>5 DEF FinishWrite, TypeOK, SnapshotKnown
  <2>3. NoWorkAppears
    BY <2>1, <2>2, NotWork, PayloadType DEF NoWorkAppears, TypeOK
  <2>4. /\ cmd'[c].force = cmd[c].force /\ cmd'[c].todo = cmd[c].todo \ {p}
        /\ cmd[c].todo \subseteq Paths
    BY <1>0, <2>1 DEF Become, TypeOK, CommandStates
  <2>5. WritesSafe(c)'
    BY <1>0, <2>1, <2>2, <2>3, <2>4 DEF WritesSafe, NoWorkAppears
  <2>6. QED
    BY <2>1, <2>2, <2>3, <2>5, OthersStaySafe
<1>6. ASSUME NEW c \in Commands, BeginGenerate(c) PROVE UnforcedWritesSafe'
  <2> DEFINE s == [cmd[c] EXCEPT !.phase = "generating",
                     !.render = IF cmd[c].mode = "init" THEN cmd[c].ide ELSE cmd[c].prev.ides]
  <2>1. s.phase = "generating" /\ Become(c, s)
    BY <1>0, <1>6 DEF BeginGenerate, CommandStates
  <2>2. disk' = disk /\ unseen' = unseen
    BY <1>6 DEF BeginGenerate, history
  <2>3. QED
    BY <2>1, <2>2, NotWritingSafe
<1>7. ASSUME NEW c \in Commands, GenerateIDE(c) PROVE UnforcedWritesSafe'
  <2>1. PICK i \in cmd[c].render : Become(c, [cmd[c] EXCEPT !.render = @ \ {i}])
    BY <1>7 DEF GenerateIDE
  <2>2. [cmd[c] EXCEPT !.render = @ \ {i}].phase = "generating"
    BY <1>0, <1>7 DEF GenerateIDE, CommandStates
  <2>3. disk' = disk /\ unseen' = unseen
    BY <1>7 DEF GenerateIDE
  <2>4. QED
    BY <2>1, <2>2, <2>3, NotWritingSafe
<1>8. ASSUME NEW c \in Commands, EndGenerate(c) PROVE UnforcedWritesSafe'
  <2>1. [cmd[c] EXCEPT !.phase = "locking"].phase = "locking"
    BY <1>0 DEF CommandStates
  <2>2. disk' = disk /\ unseen' = unseen
    BY <1>8 DEF EndGenerate, history
  <2>3. QED
    BY <1>8, <2>1, <2>2, NotWritingSafe DEF EndGenerate
<1>9. ASSUME NEW c \in Commands, WriteManifest(c) \/ Abort(c) PROVE UnforcedWritesSafe'
  BY <1>9, FinishSafe DEF WriteManifest, Abort, Forget
<1>10. CASE Edit
  <2>1. PICK p \in Paths, new \in UserContents \union {Absent} :
          /\ disk' = [disk EXCEPT ![p] = new]
          /\ unseen' = unseen \union {<<c, p>> : c \in {d \in Commands : Running(d)}}
    BY <1>10 DEF Edit
  <2>2. cmd' = cmd
    BY <1>10 DEF Edit
  <2>3. ASSUME NEW c \in Commands, cmd[c].phase \in {"applying", "writing"}, ~cmd[c].force, NEW q \in cmd[c].todo,
               disk'[q] \in Work
        PROVE  <<c, q>> \in unseen'
    <3>1. CASE q = p
      BY <2>1, <2>3, <3>1 DEF Running
    <3>2. CASE q # p
      BY <1>0, <2>1, <2>3, <3>2 DEF WritesSafe, TypeOK
    <3>3. QED
      BY <3>1, <3>2
  <2>4. QED
    BY <2>2, <2>3 DEF UnforcedWritesSafe, WritesSafe
<1>11. CASE Publish \/ UNCHANGED vars
  BY <1>11 DEF Publish, vars, history, UnforcedWritesSafe, WritesSafe
<1>12. QED
  BY <1>1, <1>2, <1>3, <1>4, <1>5, <1>6, <1>7, <1>8, <1>9, <1>10, <1>11 DEF Next, Advance

(* A command's only steps over files are those over a path it still has to *)
(* write.                                                                  *)
LEMMA OnlyWritesTouchFiles ==
    ASSUME TypeOK, [Next]_vars, NEW c \in Commands, cmd'[c] # cmd[c], disk' # disk
    PROVE  BeginWrite(c) \/ FinishWrite(c)
<1>1. PICK d \in Commands : BeginWrite(d) \/ FinishWrite(d)
  BY DEF Next, Advance, ReadManifest, Snapshot, Plan, BeginGenerate, GenerateIDE,
         EndGenerate, WriteManifest, Abort, Edit, Publish, vars
<1>2. \E s : Become(d, s)
  BY <1>1 DEF BeginWrite, FinishWrite
<1>3. d = c
  BY <1>2 DEF Become, TypeOK
<1>4. QED
  BY <1>1, <1>3

LEMMA UserWorkStep ==
    ASSUME TypeOK, UnforcedWritesSafe, [Next]_vars,
           NEW c \in Commands, NEW p \in Paths,
           cmd'[c] # cmd[c], disk[p] \in Work, disk'[p] # disk[p]
    PROVE  cmd[c].force \/ <<c, p>> \in unseen
<1>1. BeginWrite(c) \/ FinishWrite(c)
  BY OnlyWritesTouchFiles
<1>2. PICK q \in Paths : NextToWrite(c, q) /\ \E new : disk' = [disk EXCEPT ![q] = new]
  BY <1>1 DEF BeginWrite, FinishWrite
<1>3. q = p /\ p \in cmd[c].todo
  BY <1>2 DEF NextToWrite, TypeOK
<1>4. cmd[c].phase \in {"applying", "writing"} /\ WritesSafe(c)
  BY <1>1 DEF BeginWrite, FinishWrite, UnforcedWritesSafe
<1>5. QED
  BY <1>3, <1>4 DEF WritesSafe

(* Whatever other commands, the user and failures do at any moment, an     *)
(* unforced command replaces no work of the user's that was there when it  *)
(* made its plan.                                                          *)
THEOREM UserWorkSafe == Spec => UserWorkKept
<1>1. TypeOK /\ UnforcedWritesSafe /\ [Next]_vars => UnforcedWritesSafe'
  BY UnforcedStep
<1>2. TypeOK /\ UnforcedWritesSafe /\ [Next]_vars =>
        [\A c \in Commands, p \in Paths :
            (cmd'[c] # cmd[c] /\ disk[p] \in Work /\ disk'[p] # disk[p]) =>
                cmd[c].force \/ <<c, p>> \in unseen]_vars
  BY UserWorkStep
<1>3. QED
  BY <1>1, <1>2, UnforcedInit, TypeCorrect, PTL DEF Spec, UserWorkKept

-----------------------------------------------------------------------------
(* Retries.  UntouchedKnown is inductive: whoever writes a file puts its   *)
(* release in attempts, whoever touches it otherwise excuses it, and a     *)
(* command that empties attempts excuses what its lock does not record.    *)

LEMMA UntouchedStep ==
    ASSUME TypeOK, UntouchedKnown, [Next]_vars
    PROVE  UntouchedKnown'
<1>1. ASSUME NEW c \in Commands, BeginWrite(c) PROVE UntouchedKnown'
  <2>1. PICK p \in Paths : disk' = [disk EXCEPT ![p] = Torn] /\ excused' = excused \union {p}
    BY <1>1 DEF BeginWrite
  <2>2. lock' = lock /\ attempts \subseteq attempts'
    BY <1>1 DEF BeginWrite
  <2>3. QED
    BY <2>1, <2>2 DEF UntouchedKnown, Untouched, TypeOK
<1>2. ASSUME NEW c \in Commands, FinishWrite(c) PROVE UntouchedKnown'
  <2>1. PICK p \in Paths :
          disk' = [disk EXCEPT ![p] = Payload[cmd[c].snap][p]] /\ excused' = excused \ {p}
    BY <1>2 DEF FinishWrite
  <2>2. lock' = lock /\ attempts' = attempts \union {cmd[c].snap}
    BY <1>2 DEF FinishWrite
  <2>3. ASSUME NEW q \in Paths, q \notin excused' PROVE Untouched(q)'
    <3>1. CASE q = p
      BY <2>1, <2>2, <3>1 DEF Untouched, TypeOK
    <3>2. CASE q # p
      BY <2>1, <2>2, <2>3, <3>2 DEF UntouchedKnown, Untouched, TypeOK
    <3>3. QED
      BY <3>1, <3>2
  <2>4. QED
    BY <2>3 DEF UntouchedKnown
<1>3. ASSUME NEW c \in Commands, WriteManifest(c) PROVE UntouchedKnown'
  <2>1. disk' = disk /\ excused' = {p \in Paths : disk[p] # Absent /\ lock'.files[p] # disk[p]}
    BY <1>3 DEF WriteManifest
  <2>2. QED
    BY <2>1 DEF UntouchedKnown, Untouched
<1>4. CASE Edit
  <2>1. PICK p \in Paths, new \in UserContents \union {Absent} :
          disk' = [disk EXCEPT ![p] = new] /\ excused' = excused \union {p}
    BY <1>4 DEF Edit
  <2>2. lock' = lock /\ attempts' = attempts
    BY <1>4 DEF Edit
  <2>3. QED
    BY <2>1, <2>2 DEF UntouchedKnown, Untouched, TypeOK
<1>5. ASSUME disk' = disk, lock' = lock, excused' = excused, attempts' = attempts
      PROVE  UntouchedKnown'
  BY <1>5 DEF UntouchedKnown, Untouched
<1>6. QED
  BY <1>1, <1>2, <1>3, <1>4, <1>5
     DEF Next, Advance, ReadManifest, Snapshot, Plan, BeginGenerate, GenerateIDE,
         EndGenerate, Abort, Publish, history, vars

(* After any failures, of any number of commands at once, an update of the *)
(* release that was being installed finds no conflict in a file that the   *)
(* user has not touched.                                                   *)
THEOREM RetryClean == Spec => []RetryIsClean
<1>1. Init => UntouchedKnown
  BY DEF Init, UntouchedKnown, Untouched
<1>2. UntouchedKnown => RetryIsClean
  <2> SUFFICES ASSUME UntouchedKnown, attempts \subseteq {release}, NEW p \in Paths \ excused
               PROVE  Decide("update", FALSE, disk[p], Payload[release][p], lock.files[p])
                        # "conflict"
    BY DEF RetryIsClean
  <2>1. disk[p] \in {Absent, Payload[release][p], lock.files[p]}
    BY DEF UntouchedKnown, Untouched
  <2>2. QED
    BY <2>1 DEF Decide, IsPlanned
<1>3. QED
  BY <1>1, <1>2, UntouchedStep, TypeCorrect, PTL DEF Spec
-----------------------------------------------------------------------------
(* One command at a time.  With no other command writing, the lock a       *)
(* command read stays the lock, what it did not have to write and nobody   *)
(* saved stays as it found it, and what it rendered stays fresh unless a   *)
(* file is saved.                                                          *)

Undisturbed(c) ==
    /\ cmd[c].phase # "idle" => cmd[c].prev = lock
    /\ Running(c) =>
        /\ \A p \in cmd[c].todo : AcceptedUpstreamDecision(cmd[c].plan[p])
        /\ \A p \in Paths \ cmd[c].todo :
              (Payload[cmd[c].snap][p] # Absent /\ <<c, p>> \notin unseen) =>
                (AcceptedUpstreamDecision(cmd[c].plan[p]) <=> disk[p] = Payload[cmd[c].snap][p])
    /\ cmd[c].phase = "writing" =>
          \A p \in Paths : (NextToWrite(c, p) /\ <<c, p>> \notin unseen) => disk[p] = Torn
    /\ (/\ cmd[c].phase \in {"generating", "locking"} /\ cmd[c].mode = "update"
        /\ \A p \in Paths : <<c, p>> \notin unseen) =>
          cmd[c].prev.ides \subseteq fresh \union cmd[c].render
    /\ cmd[c].phase = "locking" => cmd[c].render = {}

(* A file of the release that matches it is accepted, and one that is not  *)
(* to be written is accepted only when it matches.                         *)
LEMMA PlanMatches ==
    ASSUME NEW mode \in Modes, NEW force \in BOOLEAN, NEW local, NEW up, NEW prev,
           up # Absent, ~IsWritable(Decide(mode, force, local, up, prev))
    PROVE  AcceptedUpstreamDecision(Decide(mode, force, local, up, prev)) <=> local = up
  BY DEF Decide, AcceptedUpstreamDecision, IsWritable, IsPlanned

LEMMA UndisturbedInit == Init => \A c \in Commands : Undisturbed(c)
  BY DEF Init, Undisturbed, Running, Idle, Command

LEMMA UndisturbedStep ==
    ASSUME \A c, d \in Commands : c = d,
           TypeOK, \A c \in Commands : Undisturbed(c), [Next]_vars,
           NEW c \in Commands
    PROVE  Undisturbed(c)'
<1>0. /\ Undisturbed(c) /\ cmd[c] \in CommandStates
      /\ \A d \in Commands : d = c
  BY DEF TypeOK
<1>1. CASE ReadManifest(c)
  <2>1. PICK mode \in Modes, force \in BOOLEAN, dry \in BOOLEAN,
             ide \in {{i} : i \in IDEs} \union {IDEs} :
          cmd'[c] = Command("started", mode, force, dry, ide, lock)
    BY <1>1 DEF ReadManifest, Become, TypeOK
  <2>2. cmd'[c].phase = "started" /\ cmd'[c].prev = lock /\ lock' = lock
    BY <1>1, <2>1 DEF ReadManifest, Command
  <2>3. QED
    BY <2>2 DEF Undisturbed, Running
<1>2. CASE Snapshot(c)
  <2>1. /\ cmd'[c] = [cmd[c] EXCEPT !.phase = "fetched", !.snap = release]
        /\ cmd[c].phase = "started" /\ lock' = lock
    BY <1>2 DEF Snapshot, Become, TypeOK
  <2>2. cmd'[c].phase = "fetched" /\ cmd'[c].prev = cmd[c].prev
    BY <1>0, <2>1 DEF CommandStates
  <2>3. QED
    BY <1>0, <2>1, <2>2 DEF Undisturbed, Running
<1>3. ASSUME Finish(c) PROVE Undisturbed(c)'
  <2>1. cmd'[c].phase = "idle"
    BY <1>3 DEF Finish, Become, Idle, Command, TypeOK
  <2>2. QED
    BY <2>1 DEF Undisturbed, Running
<1>4. CASE Plan(c)
  <2> DEFINE p == BuildPlan(cmd[c].mode, cmd[c].force, disk,
                            Payload[cmd[c].snap], cmd[c].prev.files)
             s == [cmd[c] EXCEPT !.phase = "applying", !.plan = p, !.todo = WritablePaths(p)]
  <2>1. CASE Become(c, s)
    <3>1. cmd[c].phase = "fetched" /\ lock' = lock /\ disk' = disk /\ unseen' = unseen
      BY <1>4 DEF Plan, history
    <3>2. /\ cmd'[c].phase = "applying" /\ cmd'[c].plan = p /\ cmd'[c].todo = WritablePaths(p)
          /\ cmd'[c].prev = cmd[c].prev /\ cmd'[c].snap = cmd[c].snap
      BY <1>0, <2>1 DEF Become, TypeOK, CommandStates
    <3>3. cmd[c].mode \in Modes /\ cmd[c].force \in BOOLEAN
      BY <1>0 DEF CommandStates
    <3>4. \A q \in WritablePaths(p) : AcceptedUpstreamDecision(p[q])
      BY DEF WritablePaths, AcceptedUpstreamDecision
    <3>5. ASSUME NEW q \in Paths \ WritablePaths(p), Payload[cmd[c].snap][q] # Absent
          PROVE  AcceptedUpstreamDecision(p[q]) <=> disk[q] = Payload[cmd[c].snap][q]
      BY <3>3, <3>5, PlanMatches DEF WritablePaths, BuildPlan
    <3> HIDE DEF p
    <3>6. QED
      BY <1>0, <3>1, <3>2, <3>4, <3>5 DEF Undisturbed, Running
  <2>2. QED
    BY <1>3, <1>4, <2>1 DEF Plan
<1>5. CASE BeginWrite(c)
  <2>1. PICK p \in Paths : NextToWrite(c, p) /\ disk' = [disk EXCEPT ![p] = Torn]
    BY <1>5 DEF BeginWrite
  <2>2. /\ cmd'[c].phase = "writing" /\ cmd'[c].plan = cmd[c].plan /\ cmd'[c].todo = cmd[c].todo
        /\ cmd'[c].prev = cmd[c].prev /\ cmd'[c].snap = cmd[c].snap
        /\ cmd[c].phase = "applying" /\ lock' = lock /\ cmd[c].todo \subseteq Paths
        /\ unseen' = unseen
    BY <1>0, <1>5 DEF BeginWrite, Become, TypeOK, CommandStates
  <2>3. ASSUME NEW q \in Paths, NextToWrite(c, q)' PROVE disk'[q] = Torn
    <3>1. q <= p /\ p <= q
      BY <2>1, <2>2, <2>3 DEF NextToWrite
    <3>2. q = p
      BY <3>1, PathsAssumption
    <3>3. QED
      BY <2>1, <3>2 DEF TypeOK
  <2>4. \A q \in Paths \ cmd[c].todo : disk'[q] = disk[q]
    BY <2>1 DEF NextToWrite, TypeOK
  <2>5. QED
    BY <1>0, <2>2, <2>3, <2>4 DEF Undisturbed, Running
<1>6. CASE FinishWrite(c)
  <2>1. PICK p \in Paths :
          /\ NextToWrite(c, p)
          /\ disk' = [disk EXCEPT ![p] = Payload[cmd[c].snap][p]]
          /\ unseen' = unseen \ {<<c, p>>}
          /\ cmd'[c] = [cmd[c] EXCEPT !.phase = "applying", !.todo = @ \ {p}]
    BY <1>6 DEF FinishWrite, Become, TypeOK
  <2>2. /\ cmd'[c].phase = "applying" /\ cmd'[c].plan = cmd[c].plan
        /\ cmd'[c].todo = cmd[c].todo \ {p}
        /\ cmd'[c].prev = cmd[c].prev /\ cmd'[c].snap = cmd[c].snap
        /\ cmd[c].phase = "writing" /\ lock' = lock
    BY <1>0, <1>6, <2>1 DEF FinishWrite, CommandStates
  <2>3. ASSUME NEW q \in Paths \ cmd'[c].todo, Payload[cmd[c].snap][q] # Absent,
               <<c, q>> \notin unseen'
        PROVE  AcceptedUpstreamDecision(cmd[c].plan[q]) <=> disk'[q] = Payload[cmd[c].snap][q]
    <3>1. CASE q = p
      BY <1>0, <2>1, <2>2, <3>1 DEF NextToWrite, Undisturbed, Running, TypeOK
    <3>2. CASE q # p
      BY <1>0, <2>1, <2>2, <2>3, <3>2 DEF Undisturbed, Running, TypeOK
    <3>3. QED
      BY <3>1, <3>2
  <2>4. QED
    BY <1>0, <2>2, <2>3 DEF Undisturbed, Running
<1>7. CASE BeginGenerate(c)
  <2>1. cmd'[c] = [cmd[c] EXCEPT !.phase = "generating",
                     !.render = IF cmd[c].mode = "init" THEN cmd[c].ide ELSE cmd[c].prev.ides]
    BY <1>7 DEF BeginGenerate, Become, TypeOK
  <2>2. /\ cmd'[c].phase = "generating" /\ cmd'[c].plan = cmd[c].plan /\ cmd'[c].todo = cmd[c].todo
        /\ cmd'[c].prev = cmd[c].prev /\ cmd'[c].snap = cmd[c].snap /\ cmd'[c].mode = cmd[c].mode
        /\ cmd[c].mode = "update" => cmd'[c].render = cmd[c].prev.ides
    BY <1>0, <2>1 DEF CommandStates
  <2>3. cmd[c].phase = "applying" /\ lock' = lock /\ disk' = disk /\ unseen' = unseen
    BY <1>7 DEF BeginGenerate, history
  <2>4. QED
    BY <1>0, <2>2, <2>3 DEF Undisturbed, Running
<1>8. CASE GenerateIDE(c)
  <2>1. PICK i \in cmd[c].render :
          /\ cmd'[c] = [cmd[c] EXCEPT !.render = @ \ {i}]
          /\ fresh' = fresh \union {i}
    BY <1>8 DEF GenerateIDE, Become, TypeOK
  <2>2. /\ cmd'[c].phase = cmd[c].phase /\ cmd'[c].plan = cmd[c].plan /\ cmd'[c].todo = cmd[c].todo
        /\ cmd'[c].prev = cmd[c].prev /\ cmd'[c].snap = cmd[c].snap /\ cmd'[c].mode = cmd[c].mode
        /\ cmd'[c].render = cmd[c].render \ {i}
    BY <1>0, <2>1 DEF CommandStates
  <2>3. cmd[c].phase = "generating" /\ lock' = lock /\ disk' = disk /\ unseen' = unseen
    BY <1>8 DEF GenerateIDE
  <2>4. QED
    BY <1>0, <2>1, <2>2, <2>3 DEF Undisturbed, Running
<1>9. CASE EndGenerate(c)
  <2>1. cmd'[c] = [cmd[c] EXCEPT !.phase = "locking"]
    BY <1>9 DEF EndGenerate, Become, TypeOK
  <2>2. /\ cmd'[c].phase = "locking" /\ cmd'[c].plan = cmd[c].plan /\ cmd'[c].todo = cmd[c].todo
        /\ cmd'[c].prev = cmd[c].prev /\ cmd'[c].snap = cmd[c].snap /\ cmd'[c].mode = cmd[c].mode
        /\ cmd'[c].render = cmd[c].render
    BY <1>0, <2>1 DEF CommandStates
  <2>3. /\ cmd[c].phase = "generating" /\ cmd[c].render = {}
        /\ lock' = lock /\ disk' = disk /\ fresh' = fresh /\ unseen' = unseen
    BY <1>9 DEF EndGenerate, history
  <2>4. QED
    BY <1>0, <2>2, <2>3 DEF Undisturbed, Running
<1>10. CASE Edit
  <2>1. PICK p \in Paths, new \in UserContents \union {Absent} :
          /\ disk' = [disk EXCEPT ![p] = new]
          /\ unseen' = unseen \union {<<d, p>> : d \in {d \in Commands : Running(d)}}
    BY <1>10 DEF Edit
  <2>2. cmd' = cmd /\ lock' = lock
    BY <1>10 DEF Edit
  <2>3. Running(c) => <<c, p>> \in unseen'
    BY <2>1
  <2>4. \A q \in Paths : <<c, q>> \notin unseen' => <<c, q>> \notin unseen
    BY <2>1
  <2>5. \A q \in Paths \ {p} : disk'[q] = disk[q]
    BY <2>1 DEF TypeOK
  <2>6. CASE Running(c)
    BY <1>0, <2>2, <2>3, <2>4, <2>5, <2>6 DEF Undisturbed, Running, NextToWrite
  <2>7. CASE ~Running(c)
    BY <1>0, <2>2, <2>7 DEF Undisturbed, Running
  <2>8. QED
    BY <2>6, <2>7
<1>11. CASE Publish \/ UNCHANGED vars
  BY <1>0, <1>11 DEF Publish, vars, history, Undisturbed, Running, NextToWrite
<1>12. QED
  BY <1>0, <1>1, <1>2, <1>3, <1>4, <1>5, <1>6, <1>7, <1>8, <1>9, <1>10, <1>11
     DEF Next, Advance, WriteManifest, Abort

AllUndisturbed == \A c \in Commands : Undisturbed(c)

(* What holds in every state of one command at a time. *)
LoneInv == TypeOK /\ HeldInv /\ UnforcedWritesSafe /\ AllUndisturbed

LEMMA LoneInvariant ==
    ASSUME \A c, d \in Commands : c = d
    PROVE  Spec => []LoneInv
<1>1. Init => HeldInv /\ UnforcedWritesSafe /\ AllUndisturbed
  BY HeldInit, UnforcedInit, UndisturbedInit DEF AllUndisturbed
<1>2. LoneInv /\ [Next]_vars => HeldInv' /\ UnforcedWritesSafe' /\ AllUndisturbed'
  BY HeldStep, UnforcedStep, UndisturbedStep DEF LoneInv, AllUndisturbed
<1>3. QED
  BY <1>1, <1>2, TypeCorrect, PTL DEF Spec, LoneInv

(* The lock only changes when a command replaces it. *)
LEMMA LockChanges ==
    ASSUME [Next]_vars, lock' # lock
    PROVE  \E c \in Commands : WriteManifest(c)
  BY DEF Next, Advance, ReadManifest, Snapshot, Plan, BeginWrite, FinishWrite, BeginGenerate,
         GenerateIDE, EndGenerate, Abort, Edit, Publish, vars

(* A command that replaces the lock has read it, has written all it had to *)
(* and, if it is an update, has rendered what the lock selects.            *)
LEMMA AtWriteManifest ==
    ASSUME LoneInv, NEW c \in Commands, WriteManifest(c)
    PROVE  /\ lock' = NewLock(c) /\ disk' = disk /\ held' = held
           /\ cmd[c].snap \in Releases /\ cmd[c].mode \in Modes
           /\ cmd[c].prev = lock /\ cmd[c].todo = {}
           /\ CommandHonest(c) /\ Undisturbed(c) /\ Running(c)
           /\ (cmd[c].mode = "update" /\ \A p \in Paths : <<c, p>> \notin unseen) =>
                 cmd[c].prev.ides \subseteq fresh
<1>1. cmd[c].phase = "locking" /\ lock' = NewLock(c) /\ disk' = disk /\ held' = held
  BY DEF WriteManifest
<1>2. cmd[c].snap \in Releases /\ cmd[c].mode \in Modes
  BY <1>1 DEF LoneInv, TypeOK, SnapshotKnown, CommandStates
<1>3. CommandHonest(c) /\ Undisturbed(c) /\ Running(c)
  BY <1>1 DEF LoneInv, HeldInv, AllUndisturbed, Running
<1>4. QED
  BY <1>1, <1>2, <1>3 DEF Undisturbed, CommandHonest, Running

(* Of the files of its release, the new lock tracks those that match. *)
LEMMA NewLockMatchesDisk ==
    ASSUME LoneInv, NEW c \in Commands, WriteManifest(c),
           NEW p \in Paths, Payload[lock'.release][p] # Absent, <<c, p>> \notin unseen
    PROVE  lock'.files[p] = Payload[lock'.release][p] <=> disk[p] = Payload[lock'.release][p]
<1>1. lock'.release = cmd[c].snap
  BY AtWriteManifest DEF NewLock
<1>2. AcceptedUpstreamDecision(cmd[c].plan[p]) <=> disk[p] = Payload[cmd[c].snap][p]
  BY <1>1, AtWriteManifest DEF Undisturbed
<1>3. CASE cmd[c].mode = "init"
  BY <1>1, <1>2, <1>3, AtWriteManifest DEF NewLock, ManifestFromAcceptedPlan
<1>4. CASE cmd[c].mode = "update"
  BY <1>1, <1>2, <1>4, AtWriteManifest DEF NewLock, ManifestFromPlan, CommandHonest
<1>5. QED
  BY <1>3, <1>4, AtWriteManifest

(* With one command at a time, a new lock tracks a file of its release     *)
(* exactly when that file has the release's content, but for files saved   *)
(* while the command ran.                                                  *)
THEOREM LockTracksInstalled ==
    ASSUME \A c, d \in Commands : c = d
    PROVE  Spec => LockRecordsInstalled
<1>1. LoneInv /\ [Next]_vars =>
        [\A c \in Commands : WriteManifest(c) =>
            \A p \in Paths :
                (Payload[lock'.release][p] # Absent /\ <<c, p>> \notin unseen) =>
                    (lock'.files[p] = Payload[lock'.release][p]
                        <=> disk[p] = Payload[lock'.release][p])]_vars
  BY NewLockMatchesDisk
<1>2. QED
  BY <1>1, LoneInvariant, PTL DEF Spec, LockRecordsInstalled

(* Under the same condition an update that replaces the lock has rendered  *)
(* every IDE the lock selects from the payload now on disk, if no file was *)
(* saved under it.                                                         *)
THEOREM UpdateRenders ==
    ASSUME \A c, d \in Commands : c = d
    PROVE  Spec => UpdateRendersSelection
<1>1. LoneInv /\ [Next]_vars =>
        [\A c \in Commands :
            (WriteManifest(c) /\ cmd[c].mode = "update" /\ \A p \in Paths : <<c, p>> \notin unseen)
                => lock'.ides \subseteq fresh]_vars
  BY AtWriteManifest DEF NewLock
<1>2. QED
  BY <1>1, LoneInvariant, PTL DEF Spec, UpdateRendersSelection

(* The lock a lone command read is the lock until it replaces it; the user *)
(* does not touch it, whatever else he edits.                              *)
ReadIsCurrent == \A c \in Commands : cmd[c].phase # "idle" => cmd[c].prev = lock

LEMMA ReadIsCurrentStep ==
    ASSUME \A c, d \in Commands : c = d, TypeOK, ReadIsCurrent, [Next]_vars
    PROVE  ReadIsCurrent'
<1>1. ASSUME NEW c \in Commands, NEW s, Become(c, s),
             s.phase = "idle" \/ (s.prev = lock /\ lock' = lock)
      PROVE  ReadIsCurrent'
  BY <1>1 DEF Become, ReadIsCurrent, TypeOK
<1>2. ASSUME NEW c \in Commands, Finish(c) PROVE ReadIsCurrent'
  BY <1>1, <1>2 DEF Finish, Idle, Command
<1>3. ASSUME NEW c \in Commands, ReadManifest(c) PROVE ReadIsCurrent'
  BY <1>1, <1>3 DEF ReadManifest, Command
<1>4. ASSUME NEW c \in Commands, Advance(c), ~Finish(c) PROVE ReadIsCurrent'
  <2>0. cmd[c] \in CommandStates
    BY DEF TypeOK
  <2>1. CASE Snapshot(c)
    BY <2>0, <2>1 DEF Snapshot, Become, TypeOK, CommandStates, ReadIsCurrent
  <2>2. CASE Plan(c)
    <3>1. PICK s : Become(c, s) /\ s.prev = cmd[c].prev
      <4> DEFINE p == BuildPlan(cmd[c].mode, cmd[c].force, disk,
                                Payload[cmd[c].snap], cmd[c].prev.files)
                 s == [cmd[c] EXCEPT !.phase = "applying", !.plan = p, !.todo = WritablePaths(p)]
      <4>1. Become(c, s)
        BY <1>4, <2>2 DEF Plan
      <4> HIDE DEF p
      <4>2. s.prev = cmd[c].prev
        BY <2>0 DEF CommandStates
      <4>3. QED
        BY <4>1, <4>2
    <3>2. cmd[c].phase = "fetched" /\ lock' = lock
      BY <2>2 DEF Plan
    <3>3. QED
      BY <1>1, <3>1, <3>2 DEF ReadIsCurrent
  <2>3. CASE BeginWrite(c)
    BY <2>0, <2>3 DEF BeginWrite, Become, TypeOK, CommandStates, ReadIsCurrent
  <2>4. CASE FinishWrite(c)
    BY <2>0, <2>4 DEF FinishWrite, Become, TypeOK, CommandStates, ReadIsCurrent
  <2>5. CASE BeginGenerate(c)
    BY <2>0, <2>5 DEF BeginGenerate, Become, TypeOK, CommandStates, ReadIsCurrent
  <2>6. CASE GenerateIDE(c)
    BY <2>0, <2>6 DEF GenerateIDE, Become, TypeOK, CommandStates, ReadIsCurrent
  <2>7. CASE EndGenerate(c)
    BY <2>0, <2>7 DEF EndGenerate, Become, TypeOK, CommandStates, ReadIsCurrent
  <2>8. QED
    BY <1>4, <2>1, <2>2, <2>3, <2>4, <2>5, <2>6, <2>7 DEF Advance, WriteManifest
<1>5. CASE Edit \/ Publish \/ UNCHANGED vars
  BY <1>5 DEF Edit, Publish, vars, ReadIsCurrent
<1>6. QED
  BY <1>2, <1>3, <1>4, <1>5 DEF Next, Abort

(* With one command at a time an IDE recorded in the lock stays selected,  *)
(* whichever IDE a later init asks for.                                    *)
THEOREM SelectionStays ==
    ASSUME \A c, d \in Commands : c = d
    PROVE  Spec => SelectionKept
<1>1. Init => ReadIsCurrent
  BY DEF Init, ReadIsCurrent, Idle, Command
<1>2. TypeOK /\ ReadIsCurrent /\ [Next]_vars => [lock.ides \subseteq lock'.ides]_vars
  <2> SUFFICES ASSUME TypeOK, ReadIsCurrent, [Next]_vars, lock' # lock
               PROVE  lock.ides \subseteq lock'.ides
    OBVIOUS
  <2>1. PICK c \in Commands : WriteManifest(c)
    BY LockChanges
  <2>2. lock' = NewLock(c) /\ cmd[c].prev = lock
    BY <2>1 DEF WriteManifest, ReadIsCurrent
  <2>3. QED
    BY <2>2 DEF NewLock
<1>3. QED
  BY <1>1, <1>2, ReadIsCurrentStep, TypeCorrect, PTL DEF Spec, SelectionKept

-----------------------------------------------------------------------------
(* The promise.  Under LoneInv every step of a command or of the user is a *)
(* step of TrackedWorkspace, or leaves its variables alone.                *)

LEMMA PromiseInit == Init => Workspace!Init
  BY DEF Init, Workspace!Init, Workspace!Blobs, Blobs, NoLock

LEMMA SameContents == Workspace!Blobs = Blobs /\ Workspace!Work = Work
  BY DEF Workspace!Blobs, Workspace!Work, Blobs, Work

LEMMA SavesStep ==
    ASSUME Edit
    PROVE  Workspace!UserSaves
<1>1. PICK p \in Paths, new \in UserContents \union {Absent} :
        /\ disk' = [disk EXCEPT ![p] = new]
        /\ held' = [held EXCEPT ![p] = @ \union ({new} \intersect Blobs)]
  BY DEF Edit
<1>2. UNCHANGED lock.files
  BY DEF Edit
<1>3. QED
  BY <1>1, <1>2, SameContents DEF Workspace!UserSaves

(* A command truncates the user's work only when that is at risk. *)
LEMMA TruncateStep ==
    ASSUME LoneInv, NEW c \in Commands, BeginWrite(c)
    PROVE  Workspace!Truncate
<1>1. PICK p \in Paths : NextToWrite(c, p) /\ disk' = [disk EXCEPT ![p] = Torn]
  BY DEF BeginWrite
<1>2. disk[p] \in Work => unseen # {} \/ \E d \in Commands : cmd[d].force
  BY <1>1 DEF BeginWrite, LoneInv, UnforcedWritesSafe, WritesSafe, NextToWrite
<1>3. UNCHANGED <<lock.files, held>>
  BY DEF BeginWrite
<1>4. QED
  BY <1>1, <1>2, <1>3, SameContents DEF Workspace!Truncate

(* The file a command finishes is the one it truncated, unless it was      *)
(* saved in between, and the release has it.                               *)
LEMMA InstallStep ==
    ASSUME LoneInv, NEW c \in Commands, FinishWrite(c)
    PROVE  Workspace!Install
<1>1. PICK p \in Paths :
        /\ NextToWrite(c, p)
        /\ disk' = [disk EXCEPT ![p] = Payload[cmd[c].snap][p]]
        /\ held' = [held EXCEPT ![p] = @ \union ({Payload[cmd[c].snap][p]} \intersect Blobs)]
  BY DEF FinishWrite
<1>2. cmd[c].snap \in Releases /\ cmd[c].phase = "writing" /\ Running(c)
  BY DEF FinishWrite, LoneInv, TypeOK, SnapshotKnown, Running
<1>3. disk[p] = Torn \/ unseen # {}
  BY <1>1, <1>2 DEF LoneInv, AllUndisturbed, Undisturbed
<1>4. Payload[cmd[c].snap][p] # Absent
  BY <1>1, <1>2 DEF LoneInv, AllUndisturbed, Undisturbed, HeldInv, CommandHonest, NextToWrite
<1>5. Payload[cmd[c].snap][p] \in Blobs
  BY <1>2, <1>4 DEF Blobs
<1>6. held' = [held EXCEPT ![p] = @ \union {Payload[cmd[c].snap][p]}]
  BY <1>1, <1>5
<1>7. UNCHANGED lock.files
  BY DEF FinishWrite
<1>8. QED
  BY <1>1, <1>3, <1>5, <1>6, <1>7, SameContents DEF Workspace!Install

(* The new lock describes its release, of which it tracks what was held. *)
LEMMA RecordStep ==
    ASSUME LoneInv, NEW c \in Commands, WriteManifest(c)
    PROVE  Workspace!Record
<1> DEFINE r == cmd[c].snap
           tracked == {p \in Paths : NewLock(c).files[p] # Absent}
<1>1. /\ lock' = NewLock(c) /\ disk' = disk /\ held' = held /\ r \in Releases
      /\ cmd[c].mode \in Modes
  BY AtWriteManifest
<1>2. /\ NewLock(c).files = [p \in Paths |-> IF p \in tracked THEN Payload[r][p] ELSE Absent]
      /\ \A p \in tracked : NewLock(c).files[p] = Payload[r][p]
  <2>1. CASE cmd[c].mode = "init"
    BY <2>1 DEF NewLock, ManifestFromAcceptedPlan
  <2>2. CASE cmd[c].mode = "update"
    BY <2>2 DEF NewLock, ManifestFromPlan
  <2>3. QED
    BY <1>1, <2>1, <2>2
<1>3. HeldInv'
  BY HeldStep DEF LoneInv, Next, Advance
<1>4. \A p \in tracked : Payload[r][p] \in held[p]
  BY <1>1, <1>2, <1>3 DEF HeldInv, LockOnlyClaimsHeld
<1>5. tracked \in SUBSET Paths
  OBVIOUS
<1> HIDE DEF tracked, r
<1>6. QED
  BY <1>1, <1>2, <1>4, <1>5 DEF Workspace!Record

(* With one command at a time, init and update implement what              *)
(* TrackedWorkspace promises: the lock always describes one release, only  *)
(* claims contents the files had, and the user's work is only replaced     *)
(* under --force, or when it was saved under a running command.            *)
THEOREM PromiseKept ==
    ASSUME \A c, d \in Commands : c = d
    PROVE  Spec => KeepsPromise
<1>1. LoneInv /\ [Next]_vars => [Workspace!Next]_(Workspace!vars)
  <2> SUFFICES ASSUME LoneInv, [Next]_vars PROVE Workspace!Next
    OBVIOUS
  <2>1. (unseen # {} \/ \E c \in Commands : cmd[c].force)' \in BOOLEAN
    OBVIOUS
  <2>2. \/ Workspace!UserSaves \/ Workspace!Truncate \/ Workspace!Install \/ Workspace!Record
        \/ UNCHANGED <<disk, lock, held>>
    BY SavesStep, TruncateStep, InstallStep, RecordStep
       DEF Next, Advance, ReadManifest, Snapshot, Plan, BeginGenerate, GenerateIDE, EndGenerate,
           Abort, Publish, history, vars
  <2>3. QED
    BY <2>1, <2>2 DEF Workspace!Next
<1>2. QED
  BY <1>1, PromiseInit, LoneInvariant, PTL DEF Spec, KeepsPromise, Workspace!Spec

=============================================================================
