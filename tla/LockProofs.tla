----------------------------- MODULE LockProofs -----------------------------
(***************************************************************************)
(* Proofs about what is recorded in the lock: by SkillProjections, of the  *)
(* projections AIDLC owns, and by ManifestLock, of the fields that four    *)
(* commands write.                                                         *)
(*                                                                         *)
(* A command that has written a projection only records it at its end, and *)
(* may never come to that: the invariants about projections say which of   *)
(* them are still to be deleted or written (Pending), what is AIDLC's      *)
(* among them, and what the records composed so far say of the others.     *)
(*                                                                         *)
(* The lock changes only at a rename, and the content renamed was composed *)
(* earlier: the invariant of the store, with one command at a time, says   *)
(* that a command still holds the manifest that is on disk, and that the   *)
(* content it composed agrees with the lock it will replace in every field *)
(* that is not the command's own.                                          *)
(***************************************************************************)
EXTENDS SkillProjections, ManifestLock, WellFoundedInduction, TLAPS

-----------------------------------------------------------------------------
(* Types. *)

(* A set of files or IDEs has a first one. *)
LEMMA MinIsFirst ==
    ASSUME NEW S \in SUBSET Nat, S # {}
    PROVE  Min(S) \in S /\ \A y \in S : Min(S) <= y
<1>1. PICK x \in S : \A y \in S : ~(<<y, x>> \in OpToRel(<, Nat))
  BY NatLessThanWellFounded, WFMin
<1>2. ASSUME NEW y \in S PROVE x <= y
  <2>1. x \in Nat /\ y \in Nat
    OBVIOUS
  <2>2. y < x => <<y, x>> \in OpToRel(<, Nat)
    BY <2>1 DEF OpToRel
  <2>3. ~(y < x)
    BY <1>1, <2>2, Zenon
  <2> QED
    BY <2>1, <2>3
<1> QED
  BY <1>2 DEF Min

Sync == {"generating", "deleting", "projecting", "checked", "tearing"}

(* What is true of the running command in each of its phases. *)
PhaseInv ==
    /\ cmd.phase = "idle" => cmd = Idle
    /\ cmd.phase \in {"copying", "writing"} => source.exists
    /\ cmd.phase \in {"writing", "tearing"} => cmd.todo # {}
    /\ cmd.phase \in {"copying", "writing", "generating", "projecting", "checked", "tearing", "locking"}
         => cmd.gone = {}
    /\ cmd.phase \in {"projecting", "checked", "tearing"} => cmd.ides \subseteq Natives
    /\ cmd.phase \in {"checked", "tearing"} => cmd.ides # {} /\ cmd.todo \subseteq FilesOf(cmd.skill)
    /\ cmd.phase \in {"emptying", "cleaning"} => cmd.kind = "remove"
    /\ cmd.phase \in Sync => cmd.kind \in {"init", "update"}

TypeInv == TypeOK /\ PhaseInv

LEMMA IdleType == Idle \in CommandStates
  BY DEF Idle, CommandStates, Phases, Kinds, NoFiles, NoRecords, Records

LEMMA TypeInit == Init => TypeInv
<1> SUFFICES ASSUME Init PROVE TypeInv
  OBVIOUS
<1>1. NoFiles \in [Files -> Blobs \union {Torn, Absent}] /\ NoRecords \in Records
  BY DEF NoFiles, NoRecords, Records
<1>2. TypeOK
  BY <1>1, IdleType DEF Init, TypeOK, Sources, Locks, Contents
<1> QED
  BY <1>2 DEF Init, TypeInv, PhaseInv, Idle, Sync

LEMMA TypeInstall ==
    ASSUME TypeInv, Install \/ BeginCopy \/ FinishCopy
    PROVE  TypeInv'
<1>0. /\ cmd \in CommandStates /\ source \in Sources
      /\ cmd.skill \in [Files -> Blobs \union {Torn, Absent}]
  BY DEF TypeInv, TypeOK, CommandStates
<1>1. CASE Install
  <2>1. PICK v \in Versions :
          cmd' = [Idle EXCEPT !.phase = "copying", !.skill = Tree[v], !.todo = FilesOf(Tree[v])]
    BY <1>1 DEF Install
  <2>2. Tree[v] \in [Files -> Blobs \union {Torn, Absent}] /\ FilesOf(Tree[v]) \in SUBSET Files
    BY TreeAssumption DEF FilesOf
  <2>3. cmd' \in CommandStates
    BY <2>1, <2>2, IdleType DEF CommandStates, Phases
  <2>4. source' \in Sources /\ source'.exists
    BY <1>0, <1>1 DEF Install, Sources
  <2>5. cmd'.phase = "copying" /\ cmd'.gone = {}
    BY <2>1, IdleType DEF Idle
  <2> QED
    BY <1>1, <2>3, <2>4, <2>5 DEF Install, TypeInv, TypeOK, PhaseInv, Sync, history
<1>2. CASE BeginCopy
  <2>1. source' \in Sources /\ source'.exists = source.exists
    BY <1>0, <1>2 DEF BeginCopy, Sources
  <2>2. cmd' \in CommandStates /\ cmd'.phase = "writing" /\ cmd'.gone = cmd.gone /\ cmd'.todo = cmd.todo
    BY <1>0, <1>2 DEF BeginCopy, CommandStates, Phases
  <2> QED
    BY <1>2, <2>1, <2>2 DEF BeginCopy, TypeInv, TypeOK, PhaseInv, Sync, history
<1>3. CASE FinishCopy
  <2> DEFINE f == Min(cmd.todo)
  <2>1. f \in Files
    BY <1>3, MinIsFirst, NumbersAssumption DEF FinishCopy, TypeInv, TypeOK, PhaseInv, CommandStates
  <2>2. source' \in Sources /\ source'.exists = source.exists
    BY <1>0, <1>3, <2>1 DEF FinishCopy, Sources
  <2>3. CASE cmd' = Idle
    BY <1>3, <2>2, <2>3, IdleType DEF FinishCopy, TypeInv, TypeOK, PhaseInv, Sync, history, Idle
  <2>4. CASE cmd' = [cmd EXCEPT !.phase = "copying", !.todo = @ \ {f}]
    <3>1. cmd' \in CommandStates /\ cmd'.phase = "copying" /\ cmd'.gone = cmd.gone
      BY <1>0, <2>4 DEF CommandStates, Phases
    <3> QED
      BY <1>3, <2>2, <3>1 DEF FinishCopy, TypeInv, TypeOK, PhaseInv, Sync, history
  <2> QED
    BY <1>3, <2>3, <2>4 DEF FinishCopy
<1> QED
  BY <1>1, <1>2, <1>3

LEMMA TypeRemove ==
    ASSUME TypeInv, Remove \/ RemoveSource \/ RemoveProjection \/ EndRemove
    PROVE  TypeInv'
<1>0. /\ cmd \in CommandStates /\ source \in Sources /\ lock \in Locks
      /\ proj \in [Spots -> Contents \union {Absent}]
  BY DEF TypeInv, TypeOK
<1>1. CASE Remove
  <2> DEFINE gone == {s \in Spots : Unmodified(s)}
  <2>1. RemainingRecords(gone) \in Records
    BY <1>0 DEF RemainingRecords, Records, Locks
  <2>2. cmd' \in CommandStates /\ cmd'.phase = "emptying" /\ cmd'.kind = "remove"
    BY <1>0, <1>1, <2>1, IdleType DEF Remove, CommandStates, Phases, Kinds, Locks
  <2> QED
    BY <1>1, <2>2 DEF Remove, TypeInv, TypeOK, PhaseInv, Sync, history
<1>2. CASE RemoveSource
  <2>1. CASE UNCHANGED cmd
    <3>1. PICK f \in FilesOf(source.files) : source' = [source EXCEPT !.files[f] = Absent]
      BY <1>2, <2>1, <1>0 DEF RemoveSource, CommandStates, Phases
    <3>2. source' \in Sources /\ source'.exists = source.exists
      BY <1>0, <3>1 DEF Sources
    <3>3. source.files[f] # Absent /\ f \in Files
      BY DEF FilesOf
    <3>4. source.exists
      BY <3>3 DEF TypeInv, TypeOK, NoFiles
    <3> QED
      BY <1>2, <2>1, <3>2, <3>4 DEF RemoveSource, TypeInv, TypeOK, PhaseInv, Sync, history
  <2>2. CASE /\ FilesOf(source.files) = {}
             /\ source' = [source EXCEPT !.exists = FALSE]
             /\ cmd' = [cmd EXCEPT !.phase = "cleaning"]
    <3>1. source' \in Sources /\ source'.files = source.files /\ source.files = NoFiles
      BY <1>0, <2>2 DEF Sources, FilesOf, NoFiles
    <3>2. cmd' \in CommandStates /\ cmd'.phase = "cleaning" /\ cmd'.kind = cmd.kind
      BY <1>0, <2>2 DEF CommandStates, Phases
    <3> QED
      BY <1>2, <3>1, <3>2 DEF RemoveSource, TypeInv, TypeOK, PhaseInv, Sync, history
  <2> QED
    BY <1>2, <2>1, <2>2 DEF RemoveSource
<1>3. CASE RemoveProjection
  <2>1. PICK s \in cmd.gone : /\ proj' = [proj EXCEPT ![s] = Absent]
                              /\ cmd' = [cmd EXCEPT !.gone = @ \ {s}]
    BY <1>3 DEF RemoveProjection
  <2>2. proj' \in [Spots -> Contents \union {Absent}]
    BY <1>0, <2>1
  <2>3. cmd' \in CommandStates /\ cmd'.phase = "cleaning" /\ cmd'.kind = cmd.kind
    BY <1>0, <1>3, <2>1 DEF RemoveProjection, CommandStates
  <2> QED
    BY <1>3, <2>2, <2>3 DEF RemoveProjection, TypeInv, TypeOK, PhaseInv, Sync, history
<1>4. CASE EndRemove
  <2>1. CASE cmd' = Idle
    BY <1>4, <2>1, IdleType DEF EndRemove, TypeInv, TypeOK, PhaseInv, Sync, history, Idle
  <2>2. CASE cmd' = [cmd EXCEPT !.phase = "locking"]
    <3>1. cmd' \in CommandStates /\ cmd'.phase = "locking" /\ cmd'.gone = {}
      BY <1>0, <1>4, <2>2 DEF EndRemove, CommandStates, Phases
    <3> QED
      BY <1>4, <3>1 DEF EndRemove, TypeInv, TypeOK, PhaseInv, Sync, history
  <2> QED
    BY <1>4, <2>1, <2>2 DEF EndRemove
<1> QED
  BY <1>1, <1>2, <1>3, <1>4

LEMMA TypeSync ==
    ASSUME TypeInv, StartSync \/ Preflight \/ DeleteStale \/ CheckIDE
    PROVE  TypeInv'
<1>0. /\ cmd \in CommandStates /\ source \in Sources /\ lock \in Locks
      /\ proj \in [Spots -> Contents \union {Absent}]
  BY DEF TypeInv, TypeOK
<1>1. CASE StartSync
  <2>1. ASSUME NEW ides \in SUBSET IDEs, NEW select \in SUBSET IDEs, NEW kind \in {"init", "update"},
               cmd' = [Idle EXCEPT !.phase = "generating", !.kind = kind, !.ides = ides,
                                   !.select = select]
        PROVE  TypeInv'
    <3>1. cmd' \in CommandStates
      BY <2>1, IdleType DEF CommandStates, Phases, Kinds
    <3>2. cmd'.phase = "generating" /\ cmd'.kind = kind /\ cmd'.gone = {}
      BY <2>1 DEF Idle
    <3> QED
      BY <1>1, <3>1, <3>2 DEF StartSync, TypeInv, TypeOK, PhaseInv, Sync, history
  <2>2. CASE cmd' = [Idle EXCEPT !.phase = "locking", !.kind = "update", !.result = lock.owned]
    <3>1. cmd' \in CommandStates
      BY <1>0, <2>2, IdleType DEF CommandStates, Phases, Kinds, Locks
    <3>2. cmd'.phase = "locking" /\ cmd'.gone = {}
      BY <2>2 DEF Idle
    <3> QED
      BY <1>1, <3>1, <3>2 DEF StartSync, TypeInv, TypeOK, PhaseInv, Sync, history
  <2>3. lock.ides \in SUBSET IDEs
    BY <1>0 DEF Locks
  <2>4. \A ides \in {{i} : i \in IDEs} \union {IDEs} :
          ides \in SUBSET IDEs /\ lock.ides \union ides \in SUBSET IDEs
    BY <2>3
  <2> QED
    BY <1>1, <2>1, <2>2, <2>3, <2>4 DEF StartSync
<1>2. CASE Preflight
  <2>1. PICK gone \in SUBSET Spots, stale \in SUBSET Spots :
          cmd' = [cmd EXCEPT !.phase = "deleting", !.skill = source.files, !.gone = gone,
                     !.result = [s \in Spots |->
                                    IF s[1] \notin cmd.ides \/ s \in stale \ gone
                                    THEN lock.owned[s] ELSE Absent]]
    BY <1>2 DEF Preflight
  <2>2. [s \in Spots |-> IF s[1] \notin cmd.ides \/ s \in stale \ gone
                         THEN lock.owned[s] ELSE Absent] \in Records
    BY <1>0 DEF Records, Locks
  <2>3. cmd' \in CommandStates /\ cmd'.phase = "deleting" /\ cmd'.kind = cmd.kind
    BY <1>0, <2>1, <2>2 DEF CommandStates, Phases, Sources
  <2> QED
    BY <1>2, <2>3 DEF Preflight, TypeInv, TypeOK, PhaseInv, Sync, history
<1>3. CASE DeleteStale
  <2>1. ASSUME NEW s \in cmd.gone,
               proj' = [proj EXCEPT ![s] = Absent], cmd' = [cmd EXCEPT !.gone = @ \ {s}]
        PROVE  TypeInv'
    <3>1. proj' \in [Spots -> Contents \union {Absent}]
      BY <1>0, <2>1
    <3>2. cmd' \in CommandStates /\ cmd'.phase = "deleting" /\ cmd'.kind = cmd.kind
      BY <1>0, <1>3, <2>1 DEF DeleteStale, CommandStates
    <3> QED
      BY <1>3, <3>1, <3>2 DEF DeleteStale, TypeInv, TypeOK, PhaseInv, Sync, history
  <2>2. CASE /\ cmd.gone = {}
             /\ cmd' = [cmd EXCEPT !.phase = "projecting", !.ides = @ \intersect Natives]
             /\ UNCHANGED proj
    <3>1. /\ cmd' \in CommandStates /\ cmd'.phase = "projecting" /\ cmd'.kind = cmd.kind
          /\ cmd'.gone = {} /\ cmd'.ides \subseteq Natives
      BY <1>0, <2>2 DEF CommandStates, Phases
    <3> QED
      BY <1>3, <2>2, <3>1 DEF DeleteStale, TypeInv, TypeOK, PhaseInv, Sync, history
  <2> QED
    BY <1>3, <2>1, <2>2 DEF DeleteStale
<1>4. CASE CheckIDE
  <2>1. /\ cmd' \in CommandStates /\ cmd'.phase = "checked" /\ cmd'.kind = cmd.kind
        /\ cmd'.gone = cmd.gone /\ cmd'.ides = cmd.ides /\ cmd'.todo = FilesOf(cmd'.skill)
    BY <1>0, <1>4 DEF CheckIDE, CommandStates, Phases, FilesOf
  <2> QED
    BY <1>4, <2>1 DEF CheckIDE, TypeInv, TypeOK, PhaseInv, Sync, history
<1> QED
  BY <1>1, <1>2, <1>3, <1>4

(* The file the projection is at is one of the skill, for a native IDE.    *)
LEMMA AtSpot ==
    ASSUME TypeInv, cmd.phase \in {"checked", "tearing"}, cmd.todo # {}
    PROVE  /\ Min(cmd.ides) \in cmd.ides \intersect Natives
           /\ Min(cmd.todo) \in cmd.todo /\ Min(cmd.todo) \in FilesOf(cmd.skill)
           /\ <<Min(cmd.ides), Min(cmd.todo)>> \in Spots
<1>1. cmd.ides \in SUBSET Nat /\ cmd.ides # {} /\ cmd.ides \subseteq Natives
  BY NumbersAssumption DEF TypeInv, TypeOK, PhaseInv, CommandStates
<1>2. cmd.todo \in SUBSET Nat /\ cmd.todo \subseteq FilesOf(cmd.skill)
  BY NumbersAssumption DEF TypeInv, TypeOK, PhaseInv, CommandStates
<1>3. Min(cmd.ides) \in cmd.ides /\ Min(cmd.todo) \in cmd.todo
  BY <1>1, <1>2, MinIsFirst
<1> QED
  BY <1>1, <1>2, <1>3 DEF Spots, FilesOf

LEMMA TypeProject ==
    ASSUME TypeInv, BeginProjection \/ FinishProjection \/ EndIDE \/ EndGenerate
    PROVE  TypeInv'
<1>0. /\ cmd \in CommandStates /\ proj \in [Spots -> Contents \union {Absent}]
      /\ excused \subseteq Spots
  BY DEF TypeInv, TypeOK
<1> DEFINE f == Min(cmd.todo)
           s == <<Min(cmd.ides), f>>
<1>1. CASE BeginProjection
  <2>1. s \in Spots
    BY <1>1, AtSpot DEF BeginProjection
  <2>2. /\ proj' \in [Spots -> Contents \union {Absent}]
        /\ excused' \subseteq Spots
    BY <1>0, <1>1, <2>1 DEF BeginProjection, Contents
  <2>3. /\ cmd' \in CommandStates /\ cmd'.phase = "tearing" /\ cmd'.kind = cmd.kind
        /\ cmd'.gone = cmd.gone /\ cmd'.ides = cmd.ides /\ cmd'.todo = cmd.todo
        /\ cmd'.skill = cmd.skill
    BY <1>0, <1>1 DEF BeginProjection, CommandStates, Phases
  <2> QED
    BY <1>1, <2>2, <2>3 DEF BeginProjection, TypeInv, TypeOK, PhaseInv, Sync
<1>2. CASE FinishProjection
  <2>1. s \in Spots /\ f \in Files /\ cmd.skill \in [Files -> Blobs \union {Torn, Absent}]
    BY <1>0, <1>2, AtSpot DEF FinishProjection, TypeInv, PhaseInv, CommandStates, FilesOf
  <2>2. cmd.skill[f] \in Blobs \union {Torn, Absent}
    BY <2>1
  <2>3. /\ proj' \in [Spots -> Contents \union {Absent}]
        /\ excused' \subseteq Spots
    BY <1>0, <1>2, <2>1, <2>2 DEF FinishProjection, Contents
  <2>4. /\ cmd' \in CommandStates /\ cmd'.phase = "checked" /\ cmd'.kind = cmd.kind
        /\ cmd'.gone = cmd.gone /\ cmd'.ides = cmd.ides /\ cmd'.todo \subseteq cmd.todo
        /\ cmd'.skill = cmd.skill
    BY <1>0, <1>2, <2>2 DEF FinishProjection, CommandStates, Phases, Records
  <2> QED
    BY <1>2, <2>3, <2>4 DEF FinishProjection, TypeInv, TypeOK, PhaseInv, Sync
<1>3. CASE EndIDE
  <2>1. /\ cmd' \in CommandStates /\ cmd'.phase = "projecting" /\ cmd'.kind = cmd.kind
        /\ cmd'.gone = cmd.gone /\ cmd'.ides \subseteq cmd.ides
    BY <1>0, <1>3 DEF EndIDE, CommandStates, Phases
  <2> QED
    BY <1>3, <2>1 DEF EndIDE, TypeInv, TypeOK, PhaseInv, Sync, history
<1>4. CASE EndGenerate
  <2>1. cmd' \in CommandStates /\ cmd'.phase = "locking" /\ cmd'.gone = cmd.gone
    BY <1>0, <1>4 DEF EndGenerate, CommandStates, Phases
  <2> QED
    BY <1>4, <2>1 DEF EndGenerate, TypeInv, TypeOK, PhaseInv, Sync, history
<1> QED
  BY <1>1, <1>2, <1>3, <1>4

LEMMA TypeEnd ==
    ASSUME TypeInv, ReplaceLock \/ Abort \/ EditProjection \/ EditSource
    PROVE  TypeInv'
<1>0. /\ cmd \in CommandStates /\ source \in Sources
      /\ proj \in [Spots -> Contents \union {Absent}] /\ excused \subseteq Spots
  BY DEF TypeInv, TypeOK
<1>1. CASE ReplaceLock
  <2>1. lock' \in Locks /\ excused' \subseteq Spots
    BY <1>0, <1>1 DEF ReplaceLock, CommandStates, Locks
  <2> QED
    BY <1>1, <2>1, IdleType DEF ReplaceLock, TypeInv, TypeOK, PhaseInv, Sync, Idle
<1>2. CASE Abort
  BY <1>2, IdleType DEF Abort, TypeInv, TypeOK, PhaseInv, Sync, Idle, history
<1>3. CASE EditProjection
  <2>1. PICK s \in Spots, new \in UserContents \union {Absent} :
          /\ proj' = [proj EXCEPT ![s] = new]
          /\ excused' = IF new = Absent THEN excused \ {s} ELSE excused \union {s}
    BY <1>3 DEF EditProjection
  <2>2. proj' \in [Spots -> Contents \union {Absent}] /\ excused' \subseteq Spots
    BY <1>0, <2>1 DEF Contents
  <2> QED
    BY <1>3, <2>2 DEF EditProjection, TypeInv, TypeOK, PhaseInv
<1>4. CASE EditSource
  <2>1. PICK v \in Versions, f \in Files : source' = [source EXCEPT !.files[f] = Tree[v][f]]
    BY <1>4 DEF EditSource
  <2>2. source' \in Sources /\ source'.exists
    BY <1>0, <1>4, <2>1, TreeAssumption DEF EditSource, Sources
  <2> QED
    BY <1>4, <2>2 DEF EditSource, TypeInv, TypeOK, PhaseInv, history
<1> QED
  BY <1>1, <1>2, <1>3, <1>4

LEMMA TypeNext == TypeInv /\ [Next]_vars => TypeInv'
<1>1. TypeInv /\ UNCHANGED vars => TypeInv'
  BY DEF vars, history, TypeInv, TypeOK, PhaseInv
<1> QED
  BY <1>1, TypeInstall, TypeRemove, TypeSync, TypeProject, TypeEnd DEF Next

LEMMA TypeInvariant == Spec => []TypeInv
  BY TypeInit, TypeNext, PTL DEF Spec

(* Source, projections, lock and command are well typed, for any files,    *)
(* IDEs and versions, whatever stops a command.                            *)
THEOREM TypeCorrect == Spec => []TypeOK
<1>1. TypeInv => TypeOK
  BY DEF TypeInv
<1> QED
  BY <1>1, TypeInvariant, PTL

-----------------------------------------------------------------------------
(* What a command still has to write. *)

(* The projections that a Generate past its preflight has not finished. *)
Pending ==
    {s \in Desired(cmd.ides, cmd.skill) :
        \/ cmd.phase \in {"deleting", "projecting"}
        \/ cmd.phase \in {"checked", "tearing"} /\ (s[1] = Min(cmd.ides) => s[2] \in cmd.todo)}

LEMMA NothingPending ==
    ASSUME cmd.phase \notin {"deleting", "projecting", "checked", "tearing"}
    PROVE  Pending = {}
  BY DEF Pending

(* Going from one IDE to the next, and beginning a file, leave the set of  *)
(* files to be written as it is; finishing one takes it out.               *)
LEMMA PendingStep ==
    ASSUME TypeInv
    PROVE  /\ Preflight => Pending' = Desired(cmd.ides, source.files)
           /\ DeleteStale \/ CheckIDE \/ BeginProjection \/ EndIDE => Pending' = Pending
           /\ FinishProjection => Pending' = Pending \ {<<Min(cmd.ides), Min(cmd.todo)>>}
           /\ EndGenerate => Pending = {} /\ Pending' = {}
<1>0. /\ cmd \in CommandStates /\ Natives \subseteq IDEs
      /\ \A s \in Spots : s[1] \in Natives /\ s[2] \in Files /\ s = <<s[1], s[2]>>
  BY NumbersAssumption DEF TypeInv, TypeOK, Spots
<1>1. ASSUME Preflight PROVE Pending' = Desired(cmd.ides, source.files)
  <2>1. cmd'.phase = "deleting" /\ cmd'.ides = cmd.ides /\ cmd'.skill = source.files
    BY <1>0, <1>1 DEF Preflight, CommandStates
  <2> QED
    BY <2>1 DEF Pending, Desired
<1>2. ASSUME DeleteStale PROVE Pending' = Pending
  <2>1. /\ cmd'.phase \in {"deleting", "projecting"} /\ cmd'.skill = cmd.skill
        /\ cmd'.ides \in {cmd.ides, cmd.ides \intersect Natives}
    BY <1>0, <1>2 DEF DeleteStale, CommandStates
  <2>2. cmd.phase = "deleting"
    BY <1>2 DEF DeleteStale
  <2>3. Desired(cmd'.ides, cmd'.skill) = Desired(cmd.ides, cmd.skill)
    BY <1>0, <2>1 DEF Desired
  <2> QED
    BY <2>1, <2>2, <2>3 DEF Pending
<1>3. ASSUME CheckIDE PROVE Pending' = Pending
  <2>1. /\ cmd.phase = "projecting" /\ cmd'.phase = "checked"
        /\ cmd'.skill = cmd.skill /\ cmd'.ides = cmd.ides /\ cmd'.todo = FilesOf(cmd.skill)
    BY <1>0, <1>3 DEF CheckIDE, CommandStates
  <2>2. \A s \in Desired(cmd.ides, cmd.skill) : s[2] \in FilesOf(cmd.skill)
    BY <1>0 DEF Desired, FilesOf
  <2> QED
    BY <2>1, <2>2 DEF Pending
<1>4. ASSUME BeginProjection PROVE Pending' = Pending
  <2>1. /\ cmd.phase = "checked" /\ cmd'.phase = "tearing"
        /\ cmd'.skill = cmd.skill /\ cmd'.ides = cmd.ides /\ cmd'.todo = cmd.todo
    BY <1>0, <1>4 DEF BeginProjection, CommandStates
  <2> QED
    BY <2>1 DEF Pending
<1>5. ASSUME EndIDE PROVE Pending' = Pending
  <2>1. /\ cmd.phase = "checked" /\ cmd.todo = {} /\ cmd'.phase = "projecting"
        /\ cmd'.skill = cmd.skill /\ cmd'.ides = cmd.ides \ {Min(cmd.ides)}
    BY <1>0, <1>5 DEF EndIDE, CommandStates
  <2> QED
    BY <2>1 DEF Pending, Desired
<1>6. ASSUME FinishProjection PROVE Pending' = Pending \ {<<Min(cmd.ides), Min(cmd.todo)>>}
  <2>1. /\ cmd.phase = "tearing" /\ cmd'.phase = "checked"
        /\ cmd'.skill = cmd.skill /\ cmd'.ides = cmd.ides /\ cmd'.todo = cmd.todo \ {Min(cmd.todo)}
    BY <1>0, <1>6 DEF FinishProjection, CommandStates
  <2>2. \A s \in Desired(cmd.ides, cmd.skill) :
          s = <<Min(cmd.ides), Min(cmd.todo)>> <=> s[1] = Min(cmd.ides) /\ s[2] = Min(cmd.todo)
    BY <1>0 DEF Desired
  <2> QED
    BY <2>1, <2>2 DEF Pending
<1>7. ASSUME EndGenerate PROVE Pending = {} /\ Pending' = {}
  <2>1. cmd.ides = {} /\ cmd'.phase = "locking"
    BY <1>0, <1>7 DEF EndGenerate, CommandStates
  <2> QED
    BY <2>1 DEF Pending, Desired
<1> QED
  BY <1>1, <1>2, <1>3, <1>4, <1>5, <1>6, <1>7

(* The projection at work is pending, and done with when it is finished.   *)
LEMMA AtPending ==
    ASSUME TypeInv, cmd.phase \in {"checked", "tearing"}, cmd.todo # {}
    PROVE  <<Min(cmd.ides), Min(cmd.todo)>> \in Pending
  BY AtSpot DEF Pending, Desired, FilesOf

-----------------------------------------------------------------------------
(* Edits of the user. *)

(* What a command may still delete or overwrite is not the user's. *)
EditsSafe ==
    /\ \A s \in cmd.gone : proj[s] \notin UserContents
    /\ cmd.phase \in {"checked", "tearing"} =>
          \A f \in cmd.todo : proj[<<Min(cmd.ides), f>>] \notin UserContents

(* AIDLC's own contents, and no file, are not the user's. *)
LEMMA OwnContents ==
    ASSUME NEW content \in Blobs \union {Torn, Absent}
    PROVE  content \notin UserContents
  BY ContentsAssumption

LEMMA UnmodifiedIsOwn ==
    ASSUME TypeInv, NEW s \in Spots, Unmodified(s)
    PROVE  proj[s] \notin UserContents
<1>1. lock.owned[s] \in Blobs \union {Torn, Absent}
  BY DEF TypeInv, TypeOK, Locks, Records
<1> QED
  BY <1>1, OwnContents DEF Unmodified

LEMMA EditsSafeNext == TypeInv /\ EditsSafe /\ [Next]_vars => EditsSafe'
<1> SUFFICES ASSUME TypeInv, EditsSafe, [Next]_vars PROVE EditsSafe'
  OBVIOUS
<1>0. /\ cmd \in CommandStates /\ lock \in Locks /\ source \in Sources
      /\ proj \in [Spots -> Contents \union {Absent}]
  BY DEF TypeInv, TypeOK
<1>1. ASSUME cmd'.gone = {}, cmd'.phase \notin {"checked", "tearing"} PROVE EditsSafe'
  BY <1>1 DEF EditsSafe
<1>2. CASE Install \/ BeginCopy \/ FinishCopy \/ EndRemove \/ StartSync \/ EndGenerate
           \/ ReplaceLock \/ Abort
  <2>1. Install \/ StartSync =>
          cmd'.gone = {} /\ cmd'.phase \in {"copying", "generating", "locking"}
    BY DEF Install, StartSync, Idle
  <2>2. BeginCopy \/ FinishCopy \/ EndRemove \/ EndGenerate => cmd.gone = {}
    BY DEF BeginCopy, FinishCopy, EndRemove, EndGenerate, TypeInv, PhaseInv
  <2>3. BeginCopy \/ FinishCopy \/ EndRemove \/ EndGenerate =>
          \/ cmd' = Idle
          \/ cmd'.gone = cmd.gone /\ cmd'.phase \notin {"checked", "tearing"}
    BY <1>0 DEF BeginCopy, FinishCopy, EndRemove, EndGenerate, CommandStates
  <2>4. ReplaceLock \/ Abort => cmd' = Idle
    BY DEF ReplaceLock, Abort
  <2>5. Idle.gone = {} /\ Idle.phase = "idle"
    BY DEF Idle
  <2> QED
    BY <1>1, <1>2, <2>1, <2>2, <2>3, <2>4, <2>5
<1>3. CASE Remove \/ Preflight
  <2>1. cmd'.phase \in {"emptying", "deleting"} /\ proj' = proj
    BY <1>0, <1>3 DEF Remove, Preflight, CommandStates, Idle
  <2>2. cmd'.gone \subseteq {s \in Spots : Unmodified(s)}
    <3>1. CASE Remove
      BY <3>1 DEF Remove, Idle
    <3>2. CASE Preflight
      BY <1>0, <3>2 DEF Preflight, CommandStates
    <3> QED
      BY <1>3, <3>1, <3>2
  <2> QED
    BY <2>1, <2>2, UnmodifiedIsOwn DEF EditsSafe
<1>4. CASE RemoveSource
  BY <1>0, <1>4 DEF RemoveSource, EditsSafe, CommandStates
<1>5. CASE RemoveProjection \/ DeleteStale
  <2>1. /\ cmd'.gone \subseteq cmd.gone /\ cmd'.phase \notin {"checked", "tearing"}
        /\ proj' = proj \/ \E s \in cmd.gone : proj' = [proj EXCEPT ![s] = Absent]
    BY <1>0, <1>5 DEF RemoveProjection, DeleteStale, CommandStates
  <2> QED
    BY <1>0, <2>1, ContentsAssumption DEF EditsSafe, CommandStates
<1>6. CASE CheckIDE
  <2>1. /\ cmd'.gone = {} /\ proj' = proj /\ cmd'.todo = FilesOf(cmd.skill) /\ cmd'.ides = cmd.ides
    BY <1>0, <1>6 DEF CheckIDE, CommandStates, TypeInv, PhaseInv
  <2>2. Min(cmd.ides) \in Natives
    BY <1>0, <1>6, NumbersAssumption, MinIsFirst DEF CheckIDE, TypeInv, PhaseInv, CommandStates
  <2>3. ASSUME NEW f \in FilesOf(cmd.skill) PROVE proj[<<Min(cmd.ides), f>>] \notin UserContents
    <3> DEFINE s == <<Min(cmd.ides), f>>
    <3>1. s \in Spots /\ s[1] = Min(cmd.ides) /\ s[2] = f
      BY <2>2 DEF Spots, FilesOf
    <3>2. s \in Desired({Min(cmd.ides)}, cmd.skill)
      BY <3>1 DEF Desired, FilesOf
    <3>3. proj[s] \in {Absent, cmd.skill[f], lock.owned[s]}
      BY <1>6, <3>1, <3>2 DEF CheckIDE, DestinationFree
    <3>4. cmd.skill[f] \in Blobs \union {Torn, Absent} /\ lock.owned[s] \in Blobs \union {Torn, Absent}
      BY <1>0, <3>1 DEF CommandStates, Locks, Records, FilesOf
    <3> QED
      BY <3>3, <3>4, OwnContents
  <2> QED
    BY <2>1, <2>3 DEF EditsSafe
<1>7. CASE BeginProjection \/ FinishProjection
  <2> DEFINE s == <<Min(cmd.ides), Min(cmd.todo)>>
  <2>1. /\ cmd'.gone = {} /\ cmd'.todo \subseteq cmd.todo /\ cmd'.ides = cmd.ides
        /\ cmd'.phase \in {"checked", "tearing"} /\ cmd.phase \in {"checked", "tearing"}
    BY <1>0, <1>7 DEF BeginProjection, FinishProjection, CommandStates, TypeInv, PhaseInv
  <2>2. s \in Spots /\ Min(cmd.todo) \in Files
    BY <1>7, AtSpot DEF BeginProjection, FinishProjection, TypeInv, PhaseInv, FilesOf
  <2>3. proj' = [proj EXCEPT ![s] = Torn] \/ proj' = [proj EXCEPT ![s] = cmd.skill[Min(cmd.todo)]]
    BY <1>7 DEF BeginProjection, FinishProjection
  <2>4. cmd.skill[Min(cmd.todo)] \in Blobs \union {Torn, Absent}
    BY <1>0, <2>2 DEF CommandStates
  <2>5. proj'[s] \notin UserContents /\ \A t \in Spots \ {s} : proj'[t] = proj[t]
    BY <1>0, <2>2, <2>3, <2>4, OwnContents
  <2>6. \A f \in cmd.todo : <<Min(cmd.ides), f>> \in Spots
    BY <1>0, <2>2 DEF Spots, CommandStates
  <2> QED
    BY <2>1, <2>5, <2>6 DEF EditsSafe
<1>8. CASE EndIDE
  BY <1>0, <1>8 DEF EndIDE, EditsSafe, CommandStates
<1>9. CASE EditProjection \/ EditSource
  <2>1. cmd' = Idle
    BY <1>9 DEF EditProjection, EditSource, TypeInv, PhaseInv
  <2> QED
    BY <1>1, <2>1 DEF Idle
<1>10. CASE UNCHANGED vars
  BY <1>10 DEF vars, EditsSafe
<1> QED
  BY <1>2, <1>3, <1>4, <1>5, <1>6, <1>7, <1>8, <1>9, <1>10 DEF Next

(* No command changes or deletes a projection the user edited, for any     *)
(* skills and edits, and wherever earlier commands stopped.                *)
THEOREM EditsKept == Spec => ManualEditsKept
<1>1. Init => EditsSafe
  BY DEF Init, EditsSafe, Idle
<1>2. TypeInv /\ EditsSafe /\ [Next]_vars =>
        [\A s \in Spots : (cmd' # cmd /\ proj[s] \in UserContents) => proj'[s] = proj[s]]_vars
  <2> SUFFICES ASSUME TypeInv, EditsSafe, Next, NEW s \in Spots, cmd' # cmd,
                      proj[s] \in UserContents
               PROVE  proj'[s] = proj[s]
    OBVIOUS
  <2>0. proj \in [Spots -> Contents \union {Absent}]
    BY DEF TypeInv, TypeOK
  <2>1. CASE RemoveProjection \/ DeleteStale
    BY <2>0, <2>1 DEF RemoveProjection, DeleteStale, EditsSafe
  <2>2. CASE BeginProjection \/ FinishProjection
    <3>1. Min(cmd.todo) \in cmd.todo /\ cmd.phase \in {"checked", "tearing"}
      BY <2>2, AtSpot DEF BeginProjection, FinishProjection, TypeInv, PhaseInv
    <3>2. s # <<Min(cmd.ides), Min(cmd.todo)>>
      BY <3>1 DEF EditsSafe
    <3> QED
      BY <2>0, <2>2, <3>2 DEF BeginProjection, FinishProjection
  <2> QED
    BY <2>1, <2>2 DEF Next, Install, BeginCopy, FinishCopy, Remove, RemoveSource, EndRemove,
         StartSync, Preflight, CheckIDE, EndIDE, EndGenerate, ReplaceLock, Abort,
         EditProjection, EditSource
<1> QED
  BY <1>1, <1>2, EditsSafeNext, TypeInvariant, PTL DEF Spec, ManualEditsKept

-----------------------------------------------------------------------------
(* Retries. *)

(* What is on disk and not excused is AIDLC's: recorded in the lock, or of *)
(* a tree projected since the lock was replaced.                           *)
Explained ==
    /\ \A s \in Spots \ excused :
         proj[s] \in {Absent, lock.owned[s]} \union {tree[s[2]] : tree \in attempts}
    /\ cmd.phase = "tearing" => cmd.skill \in attempts

LEMMA ExplainedNext == TypeInv /\ Explained /\ [Next]_vars => Explained'
<1> SUFFICES ASSUME TypeInv, Explained, [Next]_vars PROVE Explained'
  OBVIOUS
<1>0. /\ cmd \in CommandStates /\ lock \in Locks
      /\ proj \in [Spots -> Contents \union {Absent}]
  BY DEF TypeInv, TypeOK
<1>1. CASE Install \/ BeginCopy \/ FinishCopy \/ Remove \/ RemoveSource \/ EndRemove
           \/ StartSync \/ Preflight \/ CheckIDE \/ EndIDE \/ EndGenerate \/ Abort \/ EditSource
           \/ UNCHANGED vars
  <2>1. UNCHANGED <<proj, lock, excused, attempts>>
    BY <1>1 DEF Install, BeginCopy, FinishCopy, Remove, RemoveSource, EndRemove, StartSync,
         Preflight, CheckIDE, EndIDE, EndGenerate, Abort, EditSource, vars, history
  <2>2. cmd'.phase # "tearing" \/ UNCHANGED cmd
    <3>1. Install \/ StartSync => cmd'.phase \in {"copying", "generating", "locking"}
      BY DEF Install, StartSync, Idle
    <3>2. Remove => cmd'.phase = "emptying"
      BY DEF Remove, Idle
    <3>3. BeginCopy \/ FinishCopy \/ RemoveSource \/ EndRemove \/ Abort =>
            cmd' = Idle \/ cmd'.phase # "tearing" \/ cmd' = cmd
      BY <1>0 DEF BeginCopy, FinishCopy, RemoveSource, EndRemove, Abort, CommandStates
    <3>4. Preflight \/ CheckIDE \/ EndIDE \/ EndGenerate => cmd'.phase # "tearing"
      BY <1>0 DEF Preflight, CheckIDE, EndIDE, EndGenerate, CommandStates
    <3>5. Idle.phase # "tearing"
      BY DEF Idle
    <3> QED
      BY <1>1, <3>1, <3>2, <3>3, <3>4, <3>5 DEF EditSource, vars
  <2> QED
    BY <2>1, <2>2 DEF Explained
<1>2. CASE RemoveProjection \/ DeleteStale
  <2>1. /\ UNCHANGED <<lock, excused, attempts>> /\ cmd'.phase # "tearing"
        /\ proj' = proj \/ \E s \in cmd.gone : proj' = [proj EXCEPT ![s] = Absent]
    BY <1>0, <1>2 DEF RemoveProjection, DeleteStale, CommandStates, history
  <2> QED
    BY <1>0, <2>1 DEF Explained
<1>3. CASE BeginProjection
  <2>1. /\ lock' = lock /\ attempts' = attempts \union {cmd.skill} /\ cmd'.skill = cmd.skill
        /\ excused' = excused \union {<<Min(cmd.ides), Min(cmd.todo)>>}
        /\ proj' = [proj EXCEPT ![<<Min(cmd.ides), Min(cmd.todo)>>] = Torn]
    BY <1>0, <1>3 DEF BeginProjection, CommandStates
  <2> QED
    BY <1>0, <2>1 DEF Explained
<1>4. CASE FinishProjection
  <2> DEFINE s == <<Min(cmd.ides), Min(cmd.todo)>>
  <2>1. /\ UNCHANGED <<lock, attempts>> /\ excused' = excused \ {s} /\ cmd'.phase = "checked"
        /\ proj' = [proj EXCEPT ![s] = cmd.skill[Min(cmd.todo)]]
    BY <1>0, <1>4 DEF FinishProjection, CommandStates
  <2>2. s[2] = Min(cmd.todo) /\ cmd.skill \in attempts
    BY <1>4 DEF FinishProjection, Explained
  <2>3. proj'[s] = cmd.skill[s[2]] /\ \A t \in Spots \ {s} : proj'[t] = proj[t]
    BY <1>0, <1>4, <2>1, <2>2, AtSpot DEF FinishProjection, TypeInv, PhaseInv
  <2> QED
    BY <2>1, <2>2, <2>3 DEF Explained
<1>5. CASE ReplaceLock
  <2>1. \A s \in Spots \ excused' : proj'[s] \in {Absent, lock'.owned[s]}
    BY <1>5 DEF ReplaceLock
  <2>2. cmd'.phase = "idle"
    BY <1>5 DEF ReplaceLock, Idle
  <2> QED
    BY <2>1, <2>2 DEF Explained
<1>6. CASE EditProjection
  <2>1. PICK s \in Spots, new \in UserContents \union {Absent} :
          /\ proj' = [proj EXCEPT ![s] = new]
          /\ excused' = IF new = Absent THEN excused \ {s} ELSE excused \union {s}
    BY <1>6 DEF EditProjection
  <2>2. UNCHANGED <<lock, attempts, cmd>>
    BY <1>6 DEF EditProjection
  <2> QED
    BY <1>0, <2>1, <2>2 DEF Explained
<1> QED
  BY <1>1, <1>2, <1>3, <1>4, <1>5, <1>6 DEF Next

(* After a failure anywhere, while the installed tree is still the one     *)
(* that was being projected, nothing the user has not touched and that was *)
(* not left torn keeps init or update from being run again.                *)
THEOREM RetryNotBlockedAlways == Spec => []RetryNotBlocked
<1>1. Init => Explained
  BY DEF Init, Explained, Idle
<1>2. Explained => RetryNotBlocked
  <2> SUFFICES ASSUME Explained, attempts \subseteq {source.files},
                      NEW s \in Desired(Natives, source.files) \ excused
               PROVE  proj[s] \in {Absent, source.files[s[2]], lock.owned[s]}
    BY DEF RetryNotBlocked, DestinationFree
  <2> QED
    BY DEF Explained, Desired
<1> QED
  BY <1>1, <1>2, ExplainedNext, TypeInvariant, PTL DEF Spec

-----------------------------------------------------------------------------
(* The records of the next lock. *)

(* With this record the lock is still true of the projection, and owns     *)
(* everything that it owned and that is still there.                       *)
Accounts(s) ==
    /\ cmd.result[s] \in {Absent, proj[s], lock.owned[s]}
    /\ lock.owned[s] # Absent /\ cmd.result[s] = Absent => proj[s] = Absent

(* The records that were composed are those of the projections as they are *)
(* now, but for the projections still to be deleted or written.            *)
Accounted ==
    cmd.phase \in {"emptying", "cleaning", "deleting", "projecting", "checked", "tearing", "locking"} =>
        /\ \A s \in cmd.gone : cmd.result[s] = Absent
        /\ \A s \in Pending : cmd.result[s] \in {Absent, lock.owned[s]}
        /\ \A s \in Spots \ (Pending \union cmd.gone) : Accounts(s)

(* The projections that `skill remove` leaves with a record differ from it. *)
Diverged ==
    (cmd.kind = "remove" /\ cmd.phase \in {"emptying", "cleaning", "locking"}) =>
        /\ cmd.phase # "emptying" => ~source.exists
        /\ \A s \in Spots : cmd.result[s] # Absent => proj[s] \notin {Absent, cmd.result[s]}

(* An update has the skill of the installed tree wherever it is done. *)
Projected ==
    /\ cmd.phase \in {"deleting", "projecting", "checked", "tearing"} => cmd.skill = source.files
    /\ cmd.kind = "update" =>
         /\ cmd.phase \in {"generating", "deleting"} => cmd.ides = cmd.select
         /\ cmd.phase \in {"deleting", "projecting", "checked", "tearing", "locking"} =>
              \A s \in Desired(cmd.select, source.files) \ Pending :
                  proj[s] = source.files[s[2]] /\ cmd.result[s] = proj[s]

RecordsInv == Accounted /\ Diverged /\ Projected

(* A command that has composed no records, or has stopped. *)
LEMMA NoRecordsYet ==
    ASSUME \/ cmd'.phase \in {"idle", "copying", "writing"}
           \/ cmd'.phase = "generating" /\ (cmd'.kind = "update" => cmd'.ides = cmd'.select)
    PROVE  RecordsInv'
  BY DEF RecordsInv, Accounted, Diverged, Projected

(* The records `skill remove` and update compose before they change files. *)
LEMMA RecordsComposed ==
    ASSUME TypeInv, Remove \/ StartSync \/ Preflight, RecordsInv
    PROVE  RecordsInv'
<1>0. /\ cmd \in CommandStates /\ lock \in Locks /\ source \in Sources
  BY DEF TypeInv, TypeOK
<1>1. CASE Remove
  <2> DEFINE gone == {s \in Spots : Unmodified(s)}
  <2>1. /\ cmd'.phase = "emptying" /\ cmd'.kind = "remove" /\ cmd'.gone = gone
        /\ cmd'.result = RemainingRecords(gone) /\ UNCHANGED <<proj, lock, source>>
    BY <1>1 DEF Remove, Idle
  <2>2. Pending' = {}
    BY <2>1, NothingPending DEF Pending
  <2>3. \A s \in gone : cmd'.result[s] = Absent
    BY <2>1 DEF RemainingRecords
  <2>4. \A s \in Spots \ gone : cmd'.result[s] = lock.owned[s] /\ ~Unmodified(s)
    BY <2>1 DEF RemainingRecords
  <2>5. Accounted'
    BY <2>1, <2>2, <2>3, <2>4 DEF Accounted, Accounts
  <2>6. Diverged'
    BY <2>1, <2>3, <2>4 DEF Diverged, Unmodified
  <2> QED
    BY <2>1, <2>5, <2>6 DEF RecordsInv, Projected
<1>2. CASE StartSync
  <2>1. CASE cmd' = [Idle EXCEPT !.phase = "locking", !.kind = "update", !.result = lock.owned]
    <3>1. /\ cmd'.phase = "locking" /\ cmd'.kind = "update" /\ cmd'.gone = {} /\ cmd'.select = {}
          /\ cmd'.result = lock.owned
      BY <2>1 DEF Idle
    <3>2. UNCHANGED <<source, proj, lock>>
      BY <1>2 DEF StartSync
    <3>3. Pending' = {}
      BY <3>1 DEF Pending
    <3>4. Accounted'
      BY <3>1, <3>2, <3>3 DEF Accounted, Accounts
    <3> QED
      BY <3>1, <3>4 DEF RecordsInv, Diverged, Projected, Desired
  <2>2. CASE \E ides \in SUBSET IDEs :
               cmd' = [Idle EXCEPT !.phase = "generating", !.kind = "init", !.ides = ides,
                                   !.select = lock.ides \union ides]
    <3>1. cmd'.phase = "generating" /\ cmd'.kind = "init"
      BY <2>2 DEF Idle
    <3> QED
      BY <3>1, NoRecordsYet
  <2>3. CASE cmd' = [Idle EXCEPT !.phase = "generating", !.kind = "update", !.ides = lock.ides,
                                 !.select = lock.ides]
    <3>1. cmd'.phase = "generating" /\ cmd'.ides = cmd'.select
      BY <2>3 DEF Idle
    <3> QED
      BY <3>1, NoRecordsYet
  <2> QED
    BY <1>2, <2>1, <2>2, <2>3 DEF StartSync
<1>3. CASE Preflight
  <2> DEFINE desired == Desired(cmd.ides, source.files)
             stale == {s \in Spots : s[1] \in cmd.ides /\ lock.owned[s] # Absent} \ desired
             gone == {s \in stale : Unmodified(s)}
  <2>1. /\ cmd'.phase = "deleting" /\ cmd'.kind = cmd.kind /\ cmd'.skill = source.files
        /\ cmd'.ides = cmd.ides /\ cmd'.select = cmd.select /\ cmd'.gone = gone
        /\ cmd'.result = [s \in Spots |-> IF s[1] \notin cmd.ides \/ s \in stale \ gone
                                          THEN lock.owned[s] ELSE Absent]
    BY <1>0, <1>3 DEF Preflight, CommandStates
  <2>2. UNCHANGED <<source, proj, lock>> /\ cmd.phase = "generating" /\ cmd.kind # "remove"
    BY <1>3 DEF Preflight, TypeInv, PhaseInv, Sync
  <2>3. Pending' = desired
    BY <1>3, PendingStep
  <2>4. \A s \in gone : cmd'.result[s] = Absent
    BY <2>1
  <2>5. \A s \in Spots : cmd'.result[s] \in {Absent, lock.owned[s]}
    BY <2>1
  <2>6. \A s \in Spots \ (desired \union gone) : cmd'.result[s] = lock.owned[s]
    BY <2>1
  <2>7. Accounted'
    BY <2>1, <2>2, <2>3, <2>4, <2>5, <2>6 DEF Accounted, Accounts, Desired
  <2>8. Projected'
    BY <2>1, <2>2, <2>3 DEF RecordsInv, Projected
  <2> QED
    BY <2>1, <2>2, <2>7, <2>8 DEF RecordsInv, Diverged
<1> QED
  BY <1>1, <1>2, <1>3

(* Steps that change neither a projection nor a record. *)
LEMMA RecordsStand ==
    ASSUME TypeInv, RecordsInv, RemoveSource \/ EndRemove \/ CheckIDE \/ EndIDE \/ EndGenerate
    PROVE  RecordsInv'
<1>0. cmd \in CommandStates /\ source \in Sources
  BY DEF TypeInv, TypeOK
<1>1. UNCHANGED <<proj, lock>>
  BY DEF RemoveSource, EndRemove, CheckIDE, EndIDE, EndGenerate
<1>2. CASE RemoveSource \/ EndRemove
  <2>1. CASE cmd' = Idle
    BY <2>1, NoRecordsYet DEF Idle
  <2>2. CASE cmd' # Idle
    <3>1. /\ cmd.kind = "remove" /\ cmd'.kind = "remove"
          /\ cmd.phase \in {"emptying", "cleaning"} /\ cmd'.phase \in {"emptying", "cleaning", "locking"}
          /\ cmd'.gone = cmd.gone /\ cmd'.result = cmd.result
      BY <1>0, <1>2, <2>2 DEF RemoveSource, EndRemove, CommandStates, TypeInv, PhaseInv
    <3>2. Pending = {} /\ Pending' = {}
      BY <3>1 DEF Pending
    <3>3. Accounted'
      BY <1>1, <3>1, <3>2 DEF RecordsInv, Accounted, Accounts
    <3>4. cmd'.phase # "emptying" => ~source'.exists
      <4>1. CASE RemoveSource
        BY <1>0, <3>1, <4>1 DEF RemoveSource, CommandStates, Sources
      <4>2. CASE EndRemove
        BY <3>1, <4>2 DEF EndRemove, RecordsInv, Diverged
      <4> QED
        BY <1>2, <4>1, <4>2
    <3>5. Diverged'
      BY <1>1, <3>1, <3>4 DEF RecordsInv, Diverged
    <3> QED
      BY <3>1, <3>3, <3>5 DEF RecordsInv, Projected
  <2> QED
    BY <2>1, <2>2
<1>3. CASE CheckIDE \/ EndIDE \/ EndGenerate
  <2>1. /\ cmd.phase \in {"projecting", "checked"} /\ cmd'.phase \in {"checked", "projecting", "locking"}
        /\ cmd.kind # "remove" /\ cmd'.kind = cmd.kind /\ cmd'.select = cmd.select
        /\ cmd'.skill = cmd.skill /\ cmd'.gone = cmd.gone /\ cmd'.result = cmd.result
    BY <1>0, <1>3 DEF CheckIDE, EndIDE, EndGenerate, CommandStates, TypeInv, PhaseInv, Sync
  <2>2. Pending' = Pending /\ source' = source
    BY <1>3, PendingStep DEF CheckIDE, EndIDE, EndGenerate
  <2>3. Accounted'
    BY <1>1, <2>1, <2>2 DEF RecordsInv, Accounted, Accounts
  <2>4. Projected'
    BY <1>1, <2>1, <2>2 DEF RecordsInv, Projected
  <2> QED
    BY <2>1, <2>3, <2>4 DEF RecordsInv, Diverged
<1> QED
  BY <1>2, <1>3

(* Deleting what is to go, by `skill remove` or by Generate. *)
LEMMA RecordsDelete ==
    ASSUME TypeInv, RecordsInv, RemoveProjection \/ DeleteStale
    PROVE  RecordsInv'
<1>0. cmd \in CommandStates /\ proj \in [Spots -> Contents \union {Absent}]
  BY DEF TypeInv, TypeOK
<1>1. /\ UNCHANGED <<source, lock>> /\ cmd.phase \in {"cleaning", "deleting"}
      /\ cmd'.kind = cmd.kind /\ cmd'.select = cmd.select /\ cmd'.skill = cmd.skill
      /\ cmd'.result = cmd.result
  BY <1>0 DEF RemoveProjection, DeleteStale, CommandStates
<1>2. Pending' = Pending
  <2>1. CASE RemoveProjection
    <3>1. cmd.phase = "cleaning" /\ cmd'.phase = "cleaning"
      BY <1>0, <2>1 DEF RemoveProjection, CommandStates
    <3> QED
      BY <3>1 DEF Pending
  <2> QED
    BY <2>1, PendingStep
<1>3. ASSUME NEW s \in cmd.gone, proj' = [proj EXCEPT ![s] = Absent],
             cmd' = [cmd EXCEPT !.gone = @ \ {s}]
      PROVE  RecordsInv'
  <2>1. cmd'.phase = cmd.phase /\ cmd'.gone = cmd.gone \ {s} /\ cmd'.ides = cmd.ides
    BY <1>0, <1>3 DEF CommandStates
  <2>2. s \in Spots /\ proj'[s] = Absent /\ \A t \in Spots \ {s} : proj'[t] = proj[t]
    BY <1>0, <1>3 DEF CommandStates
  <2>3. cmd.result[s] = Absent
    BY <1>1 DEF RecordsInv, Accounted
  <2>4. Accounted'
    BY <1>1, <1>2, <2>1, <2>2, <2>3 DEF RecordsInv, Accounted, Accounts
  <2>5. Diverged'
    BY <1>1, <2>1, <2>2, <2>3 DEF RecordsInv, Diverged
  <2>6. Projected'
    <3>1. cmd.kind = "update" /\ cmd.phase = "deleting" =>
            Desired(cmd.select, source.files) \ Pending = {}
      BY DEF RecordsInv, Projected, Pending
    <3>2. cmd.phase = "cleaning" => cmd.kind = "remove"
      BY DEF TypeInv, PhaseInv
    <3> QED
      BY <1>1, <1>2, <2>1, <3>1, <3>2 DEF RecordsInv, Projected
  <2> QED
    BY <2>4, <2>5, <2>6 DEF RecordsInv
<1>4. CASE /\ DeleteStale /\ cmd.gone = {}
           /\ cmd' = [cmd EXCEPT !.phase = "projecting", !.ides = @ \intersect Natives]
           /\ UNCHANGED proj
  <2>1. /\ cmd.phase = "deleting" /\ cmd'.phase = "projecting" /\ cmd'.gone = cmd.gone
        /\ cmd.kind # "remove"
    BY <1>0, <1>4 DEF DeleteStale, CommandStates, TypeInv, PhaseInv, Sync
  <2>2. Accounted'
    BY <1>1, <1>2, <1>4, <2>1 DEF RecordsInv, Accounted, Accounts
  <2>3. Projected'
    BY <1>1, <1>2, <1>4, <2>1 DEF RecordsInv, Projected
  <2> QED
    BY <1>1, <2>1, <2>2, <2>3 DEF RecordsInv, Diverged
<1> QED
  BY <1>3, <1>4 DEF RemoveProjection, DeleteStale

(* Writing a projection: it is pending until its record is made. *)
LEMMA RecordsWrite ==
    ASSUME TypeInv, RecordsInv, BeginProjection \/ FinishProjection
    PROVE  RecordsInv'
<1> DEFINE f == Min(cmd.todo)
           s == <<Min(cmd.ides), f>>
<1>0. /\ cmd \in CommandStates /\ proj \in [Spots -> Contents \union {Absent}]
      /\ cmd.result \in Records
  BY DEF TypeInv, TypeOK, CommandStates
<1>1. /\ s \in Spots /\ s \in Pending /\ f \in FilesOf(cmd.skill)
      /\ cmd.gone = {} /\ cmd.kind # "remove" /\ cmd.phase \in {"checked", "tearing"}
  BY AtSpot, AtPending DEF BeginProjection, FinishProjection, TypeInv, PhaseInv, Sync
<1>2. /\ UNCHANGED <<source, lock>> /\ cmd'.phase \in {"checked", "tearing"}
      /\ cmd'.kind = cmd.kind /\ cmd'.select = cmd.select /\ cmd'.skill = cmd.skill
      /\ cmd'.gone = cmd.gone
  BY <1>0 DEF BeginProjection, FinishProjection, CommandStates
<1>3. CASE BeginProjection
  <2>1. cmd'.result = cmd.result /\ \A t \in Spots \ {s} : proj'[t] = proj[t]
    BY <1>0, <1>3 DEF BeginProjection, CommandStates
  <2>2. Pending' = Pending
    BY <1>3, PendingStep
  <2>3. Accounted'
    BY <1>1, <1>2, <2>1, <2>2 DEF RecordsInv, Accounted, Accounts
  <2>4. Projected'
    BY <1>1, <1>2, <2>1, <2>2 DEF RecordsInv, Projected, Desired
  <2> QED
    BY <1>1, <1>2, <2>3, <2>4 DEF RecordsInv, Diverged
<1>4. CASE FinishProjection
  <2>1. cmd'.result = [cmd.result EXCEPT ![s] = cmd.skill[f]]
    BY <1>0, <1>4 DEF FinishProjection, CommandStates
  <2>2. /\ cmd'.result[s] = cmd.skill[f] /\ proj'[s] = cmd.skill[f] /\ s[2] = f
        /\ \A t \in Spots \ {s} : cmd'.result[t] = cmd.result[t] /\ proj'[t] = proj[t]
    BY <1>0, <1>1, <1>4, <2>1 DEF FinishProjection, Records
  <2>3. Pending' = Pending \ {s}
    BY <1>4, PendingStep
  <2>4. cmd.skill[f] # Absent
    BY <1>1 DEF FilesOf
  <2>5. Accounted'
    <3>1. ASSUME NEW t \in Spots, t = s PROVE Accounts(t)'
      BY <2>2, <2>4, <3>1 DEF Accounts
    <3>2. ASSUME NEW t \in Spots \ Pending, t # s PROVE Accounts(t)'
      BY <1>1, <1>2, <2>2, <3>2 DEF RecordsInv, Accounted, Accounts
    <3>3. \A t \in Pending' : cmd'.result[t] \in {Absent, lock'.owned[t]}
      BY <1>1, <1>2, <2>2, <2>3 DEF RecordsInv, Accounted, Pending, Desired
    <3> QED
      BY <1>1, <1>2, <2>3, <3>1, <3>2, <3>3 DEF Accounted
  <2>6. Projected'
    BY <1>1, <1>2, <2>2, <2>3 DEF RecordsInv, Projected, Desired
  <2> QED
    BY <1>1, <1>2, <2>5, <2>6 DEF RecordsInv, Diverged
<1> QED
  BY <1>3, <1>4

LEMMA RecordsNext == TypeInv /\ RecordsInv /\ [Next]_vars => RecordsInv'
<1> SUFFICES ASSUME TypeInv, RecordsInv, [Next]_vars PROVE RecordsInv'
  OBVIOUS
<1>0. cmd \in CommandStates
  BY DEF TypeInv, TypeOK
<1>1. CASE Install \/ BeginCopy \/ FinishCopy
  <2>1. cmd' = Idle \/ cmd'.phase \in {"copying", "writing"}
    BY <1>0, <1>1 DEF Install, BeginCopy, FinishCopy, CommandStates, Idle
  <2> QED
    BY <2>1, NoRecordsYet DEF Idle
<1>2. CASE ReplaceLock \/ Abort \/ EditProjection \/ EditSource
  <2>1. cmd' = Idle
    BY <1>2 DEF ReplaceLock, Abort, EditProjection, EditSource, TypeInv, PhaseInv
  <2> QED
    BY <2>1, NoRecordsYet DEF Idle
<1>3. CASE UNCHANGED vars
  <2>1. Pending' = Pending
    BY <1>3 DEF vars, Pending
  <2> QED
    BY <1>3, <2>1 DEF vars, RecordsInv, Accounted, Accounts, Diverged, Projected
<1> QED
  BY <1>1, <1>2, <1>3, RecordsComposed, RecordsStand, RecordsDelete, RecordsWrite DEF Next

LEMMA RecordsInvariant == Spec => [](TypeInv /\ RecordsInv)
<1>1. Init => RecordsInv
  BY DEF Init, RecordsInv, Accounted, Diverged, Projected, Idle
<1> QED
  BY <1>1, RecordsNext, TypeInit, TypeNext, PTL DEF Spec

(* Whoever replaces the lock, a record in it is of what is on disk or the  *)
(* one that was there, and a record is only dropped with its file: what    *)
(* AIDLC owns and the user changed stays owned.                            *)
THEOREM RecordsAlwaysAccounted == Spec => RecordsAccounted
<1>1. TypeInv /\ RecordsInv /\ ReplaceLock =>
        \A s \in Spots :
            /\ lock'.owned[s] \in {Absent, proj[s], lock.owned[s]}
            /\ lock.owned[s] # Absent /\ lock'.owned[s] = Absent => proj[s] = Absent
  <2> SUFFICES ASSUME TypeInv, RecordsInv, ReplaceLock, NEW s \in Spots PROVE Accounts(s)
    BY DEF ReplaceLock, Accounts
  <2>1. cmd.gone = {} /\ cmd.phase = "locking"
    BY DEF ReplaceLock, TypeInv, PhaseInv
  <2> QED
    BY <2>1, NothingPending DEF RecordsInv, Accounted
<1> QED
  BY <1>1, RecordsInvariant, PTL DEF RecordsAccounted

(* After `skill remove` the source is gone, every unmodified projection    *)
(* with it, and the lock owns only projections that differ from their      *)
(* record, wherever earlier commands stopped.                              *)
THEOREM RemoveLeavesOnlyDiverged == Spec => RemoveLeavesDiverged
<1>1. RecordsInv /\ ReplaceLock /\ cmd.kind = "remove" =>
        /\ ~source.exists
        /\ \A s \in Spots : lock'.owned[s] # Absent => proj[s] \notin {Absent, lock'.owned[s]}
  BY DEF RecordsInv, Diverged, ReplaceLock
<1> QED
  BY <1>1, RecordsInvariant, PTL DEF RemoveLeavesDiverged

(* After update every selected native IDE has the skill as it is in the    *)
(* installed tree, and the lock owns it.                                   *)
THEOREM UpdateAlwaysProjects == Spec => UpdateProjectsSkill
<1>1. RecordsInv /\ ReplaceLock /\ cmd.kind = "update" =>
        \A s \in Desired(lock'.ides, source.files) :
            proj[s] = source.files[s[2]] /\ lock'.owned[s] = proj[s]
  BY NothingPending DEF RecordsInv, Projected, ReplaceLock
<1> QED
  BY <1>1, RecordsInvariant, PTL DEF UpdateProjectsSkill

-----------------------------------------------------------------------------
(* The store. *)

(* The manifest a working command read is still the current one. *)
ReadIsCurrent(c) ==
    writer[c].phase = "working" =>
        writer[c].kind # "map" /\ writer[c].prev = ReadManifest(root, legacy)

AsksUser(c) == writer[c].phase \in {"confirming", "composing"} => writer[c].kind = "map"

(* What a composed lock has in common with the lock on disk. *)
ComposedAgrees(c) ==
    writer[c].phase = "renaming" =>
        LET next == writer[c].next
        IN  /\ writer[c].kind = "map" => next = WriteManifestMapInclude(root, writer[c].want)
            /\ writer[c].kind # "map" =>
                  /\ saved \notin {Missing, {}} => next.include = saved
                  /\ Selection(root, legacy) \subseteq next.ides
                  /\ writer[c].kind # "init" => next.ides = Selection(root, legacy)
            /\ (writer[c].kind = "remove" /\ root # Missing) =>
                  /\ next.install = root.install
                  /\ next.owned \subseteq root.owned

LockInv ==
    /\ \A c \in Commands : ReadIsCurrent(c) /\ AsksUser(c) /\ ComposedAgrees(c)
    /\ FoldersKept

-----------------------------------------------------------------------------
(* Types. *)

LEMMA EmptyLockType == EmptyLock \in LockFiles
  BY DEF EmptyLock, LockFiles

LEMMA RestingType == Resting \in WriterStates
  BY EmptyLockType DEF Resting, Command, WriterStates, WriterPhases, WriterKinds, Whitelists

(* A lock and a legacy manifest are read as a well-typed manifest. *)
LEMMA ReadType ==
    ASSUME NEW file \in {Missing} \union LockFiles, NEW old \in {Missing} \union LegacyFiles
    PROVE  ReadManifest(file, old) \in {Missing} \union Manifests
<1>1. CASE file # Missing
  BY <1>1 DEF ReadManifest, LockFiles, Manifests, Whitelists
<1>2. CASE file = Missing /\ old # Missing
  BY <1>2 DEF ReadManifest, LegacyManifest, LegacyFiles, Manifests, Whitelists
<1>3. CASE file = Missing /\ old = Missing
  BY <1>3 DEF ReadManifest
<1>4. QED
  BY <1>1, <1>2, <1>3

(* A manifest is written as a well-typed lock. *)
LEMMA WriteType ==
    ASSUME NEW file \in {Missing} \union LockFiles, NEW m \in Manifests
    PROVE  WriteManifest(m, file) \in LockFiles
  BY DEF WriteManifest, ReadManifestMapInclude, LockFiles, Manifests

LEMMA WriteIncludeType ==
    ASSUME NEW file \in {Missing} \union LockFiles, NEW include \in Whitelists
    PROVE  WriteManifestMapInclude(file, include) \in LockFiles
<1>1. RawLock(file) \in LockFiles
  BY EmptyLockType DEF RawLock
<1>2. [RawLock(file) EXCEPT !.include = include] \in LockFiles
  BY <1>1 DEF LockFiles
<1>3. QED
  BY <1>2 DEF WriteManifestMapInclude

(* Moving one command to a well-typed state keeps all of them well typed. *)
LEMMA BecomeType ==
    ASSUME StoreTypeOK, NEW c \in Commands, NEW s \in WriterStates, Become(c, s)
    PROVE  writer' \in [Commands -> WriterStates] /\ writer'[c] = s
  BY DEF Become, StoreTypeOK

(* Every state of the store is well typed: what is read from a lock, from  *)
(* a legacy manifest or from nothing is a manifest, and what is written is *)
(* a lock.                                                                 *)
THEOREM StoreTypeCorrect == StoreSpec => []StoreTypeOK
<1>1. StoreInit => StoreTypeOK
  BY RestingType DEF StoreInit, StoreTypeOK
<1>2. StoreTypeOK /\ [StoreNext]_storeVars => StoreTypeOK'
  <2> SUFFICES ASSUME StoreTypeOK, [StoreNext]_storeVars PROVE StoreTypeOK'
    OBVIOUS
  <2>0. /\ \A c \in Commands : writer[c] \in WriterStates
        /\ root \in {Missing} \union LockFiles /\ legacy \in {Missing} \union LegacyFiles
    BY DEF StoreTypeOK
  <2>1. ASSUME NEW c \in Commands, Start(c) PROVE StoreTypeOK'
    <3>1. PICK kind \in WriterKinds \ {"map"} :
            Become(c, Command("working", kind, ReadManifest(root, legacy), {}))
      BY <2>1 DEF Start
    <3>2. Command("working", kind, ReadManifest(root, legacy), {}) \in WriterStates
      BY <2>0, ReadType, EmptyLockType DEF Command, WriterStates, WriterPhases, Whitelists
    <3>3. QED
      BY <2>1, <3>1, <3>2, BecomeType DEF Start, StoreTypeOK
  <2>2. ASSUME NEW c \in Commands, StartMap(c) PROVE StoreTypeOK'
    <3>1. PICK phase \in {"confirming", "composing"}, folders \in Whitelists :
            Become(c, Command(phase, "map", Missing, folders))
      BY <2>2 DEF StartMap
    <3>2. Command(phase, "map", Missing, folders) \in WriterStates
      BY EmptyLockType DEF Command, WriterStates, WriterPhases, WriterKinds
    <3>3. QED
      BY <2>2, <3>1, <3>2, BecomeType DEF StartMap, StoreTypeOK
  <2>3. ASSUME NEW c \in Commands, Confirm(c) PROVE StoreTypeOK'
    <3>1. [writer[c] EXCEPT !.phase = "composing"] \in WriterStates
      BY <2>0 DEF WriterStates, WriterPhases
    <3>2. QED
      BY <2>3, <3>1, BecomeType DEF Confirm, StoreTypeOK
  <2>4. ASSUME NEW c \in Commands, ComposeMap(c) PROVE StoreTypeOK'
    <3>1. WriteManifestMapInclude(root, writer[c].want) \in LockFiles
      BY <2>0, WriteIncludeType DEF WriterStates
    <3>2. [writer[c] EXCEPT !.phase = "renaming",
                         !.next = WriteManifestMapInclude(root, writer[c].want)] \in WriterStates
      BY <2>0, <3>1 DEF WriterStates, WriterPhases
    <3>3. QED
      BY <2>4, <3>2, BecomeType DEF ComposeMap, StoreTypeOK
  <2>5. ASSUME NEW c \in Commands, NEW m \in Manifests,
               Become(c, [writer[c] EXCEPT !.phase = "renaming", !.next = WriteManifest(m, root)]),
               UNCHANGED <<root, legacy, saved>>
        PROVE  StoreTypeOK'
    <3>1. [writer[c] EXCEPT !.phase = "renaming", !.next = WriteManifest(m, root)] \in WriterStates
      BY <2>0, WriteType DEF WriterStates, WriterPhases
    <3>2. QED
      BY <2>5, <3>1, BecomeType DEF StoreTypeOK
  <2>6. ASSUME NEW c \in Commands, ComposeInit(c) PROVE StoreTypeOK'
    BY <2>0, <2>5, <2>6 DEF ComposeInit, PreviousIDEs, Manifests, WriterStates, Whitelists
  <2>7. ASSUME NEW c \in Commands, ComposeUpdate(c) PROVE StoreTypeOK'
    BY <2>0, <2>5, <2>7 DEF ComposeUpdate, PreviousIDEs, Manifests, WriterStates, Whitelists
  <2>8. ASSUME NEW c \in Commands, ComposeRemove(c) PROVE StoreTypeOK'
    BY <2>0, <2>5, <2>8, RestingType, BecomeType
       DEF ComposeRemove, Manifests, WriterStates, StoreTypeOK
  <2>9. ASSUME NEW c \in Commands, Rename(c) PROVE StoreTypeOK'
    BY <2>0, <2>9, RestingType, BecomeType DEF Rename, WriterStates, StoreTypeOK
  <2>10. ASSUME NEW c \in Commands, Stop(c) PROVE StoreTypeOK'
    BY <2>10, RestingType, BecomeType DEF Stop, StoreTypeOK
  <2>11. CASE UNCHANGED storeVars
    BY <2>11 DEF storeVars, StoreTypeOK
  <2>12. QED
    BY <2>1, <2>2, <2>3, <2>4, <2>6, <2>7, <2>8, <2>9, <2>10, <2>11 DEF StoreNext
<1>3. QED
  BY <1>1, <1>2, PTL DEF StoreSpec

-----------------------------------------------------------------------------
(* Facts about the store the invariant rests on. *)

(* What was read from a root lock is what is in it. *)
LEMMA ReadRoot ==
    ASSUME NEW file \in LockFiles, NEW old
    PROVE  /\ ReadManifest(file, old) # Missing
           /\ ReadManifest(file, old).ides = file.ides
           /\ ReadManifest(file, old).install = file.install
           /\ ReadManifest(file, old).owned = file.owned
           /\ file.include # Missing => ReadManifest(file, old).include = file.include
<1>1. file # Missing
  BY LockAssumption
<1> DEFINE m == [include |-> IF file.include = Missing THEN {} ELSE file.include,
                 ides |-> file.ides, install |-> file.install, owned |-> file.owned]
<1>2. ReadManifest(file, old) = m
  BY <1>1 DEF ReadManifest
<1>3. m \in Manifests
  BY DEF LockFiles, Manifests, Whitelists
<1>4. QED
  BY <1>2, <1>3, LockAssumption

(* A manifest that names no folders takes the whitelist on disk, and the   *)
(* other fields are written as they are.                                   *)
LEMMA WriteFields ==
    ASSUME NEW m, NEW file
    PROVE  /\ WriteManifest(m, file).ides = m.ides
           /\ WriteManifest(m, file).install = m.install
           /\ WriteManifest(m, file).owned = m.owned
           /\ m.include = {} /\ ReadManifestMapInclude(file) # {} =>
                 WriteManifest(m, file).include = ReadManifestMapInclude(file)
           /\ m.include # {} => WriteManifest(m, file).include = m.include
  BY DEF WriteManifest

LEMMA WriteIncludeFields ==
    ASSUME NEW file \in {Missing} \union LockFiles, NEW include
    PROVE  /\ WriteManifestMapInclude(file, include).include = include
           /\ file # Missing => WriteManifestMapInclude(file, include) = [file EXCEPT !.include = include]
<1>1. RawLock(file) \in LockFiles
  BY EmptyLockType DEF RawLock
<1>2. QED
  BY <1>1 DEF WriteManifestMapInclude, RawLock, LockFiles

-----------------------------------------------------------------------------
(* The invariant. *)

LEMMA LockInvInit == StoreInit => LockInv
  BY DEF StoreInit, LockInv, ReadIsCurrent, AsksUser, ComposedAgrees, FoldersKept, Resting, Command

(* A command that comes to rest, with the lock as it was, and a command    *)
(* that has not composed anything yet.                                     *)
LEMMA RestingInv ==
    ASSUME StoreTypeOK, LockInv, \A c, d \in Commands : c = d,
           NEW c \in Commands, Become(c, Resting), UNCHANGED <<root, legacy, saved>>
    PROVE  LockInv'
<1>1. writer'[c].phase = "idle"
  BY DEF Become, StoreTypeOK, Resting, Command
<1>2. QED
  BY <1>1 DEF LockInv, ReadIsCurrent, AsksUser, ComposedAgrees, FoldersKept

(* A manifest composed by init, update or `skill remove`: it names no      *)
(* folders, or those of the manifest read.                                 *)
LEMMA ComposingInv ==
    ASSUME StoreTypeOK, LockInv, \A c, d \in Commands : c = d,
           NEW c \in Commands, NEW m \in Manifests,
           writer[c].phase = "working",
           Become(c, [writer[c] EXCEPT !.phase = "renaming", !.next = WriteManifest(m, root)]),
           UNCHANGED <<root, legacy, saved>>,
           m.include = {} \/ (writer[c].prev # Missing /\ m.include = writer[c].prev.include),
           PreviousIDEs(c) \subseteq m.ides,
           writer[c].kind # "init" => m.ides = PreviousIDEs(c),
           writer[c].kind = "remove" =>
               /\ writer[c].prev # Missing
               /\ m.install = writer[c].prev.install
               /\ m.owned \subseteq writer[c].prev.owned
    PROVE  LockInv'
<1> DEFINE next == WriteManifest(m, root)
<1>0. /\ writer[c] \in WriterStates
      /\ root \in {Missing} \union LockFiles
      /\ writer[c].kind # "map" /\ writer[c].prev = ReadManifest(root, legacy)
      /\ FoldersKept
  BY DEF StoreTypeOK, LockInv, ReadIsCurrent
<1>1. /\ writer'[c].phase = "renaming" /\ writer'[c].kind = writer[c].kind /\ writer'[c].next = next
  BY <1>0 DEF Become, StoreTypeOK, WriterStates
<1>2. saved \notin {Missing, {}} => next.include = saved
  <2> SUFFICES ASSUME saved \notin {Missing, {}} PROVE next.include = saved
    OBVIOUS
  <2>1. ReadManifestMapInclude(root) = saved
    BY <1>0 DEF FoldersKept
  <2>2. root \in LockFiles /\ root.include = saved
    BY <1>0, <2>1 DEF ReadManifestMapInclude
  <2>3. ReadManifest(root, legacy).include = saved
    BY <2>2, ReadRoot
  <2>4. QED
    BY <1>0, <2>1, <2>3, WriteFields
<1>3. PreviousIDEs(c) = Selection(root, legacy)
  BY <1>0 DEF PreviousIDEs, Selection
<1>4. /\ Selection(root, legacy) \subseteq next.ides
      /\ writer[c].kind # "init" => next.ides = Selection(root, legacy)
  BY <1>3, WriteFields
<1>5. ASSUME writer[c].kind = "remove", root # Missing
      PROVE  next.install = root.install /\ next.owned \subseteq root.owned
  <2>1. root \in LockFiles
    BY <1>0, <1>5
  <2>2. writer[c].prev.install = root.install /\ writer[c].prev.owned = root.owned
    BY <1>0, <2>1, ReadRoot
  <2>3. QED
    BY <1>5, <2>2, WriteFields
<1>6. ComposedAgrees(c)' /\ ReadIsCurrent(c)' /\ AsksUser(c)'
  <2> HIDE DEF next
  <2>1. QED
    BY <1>0, <1>1, <1>2, <1>4, <1>5 DEF ComposedAgrees, ReadIsCurrent, AsksUser, Selection
<1>7. QED
  BY <1>0, <1>6 DEF LockInv, FoldersKept

LEMMA LockInvStep ==
    ASSUME StoreTypeOK, LockInv, \A c, d \in Commands : c = d, [StoreNext]_storeVars
    PROVE  LockInv'
<1>0. /\ \A c \in Commands : writer[c] \in WriterStates
      /\ \A c \in Commands : ReadIsCurrent(c) /\ AsksUser(c) /\ ComposedAgrees(c)
      /\ root \in {Missing} \union LockFiles /\ legacy \in {Missing} \union LegacyFiles
      /\ FoldersKept
  BY DEF StoreTypeOK, LockInv
<1>1. ASSUME NEW c \in Commands, Start(c) PROVE LockInv'
  <2>1. PICK kind \in WriterKinds \ {"map"} :
          Become(c, Command("working", kind, ReadManifest(root, legacy), {}))
    BY <1>1 DEF Start
  <2>2. /\ writer'[c].phase = "working" /\ writer'[c].kind # "map"
        /\ writer'[c].prev = ReadManifest(root, legacy)
    BY <2>1 DEF Become, StoreTypeOK, Command
  <2>3. QED
    BY <1>0, <1>1, <2>2 DEF Start, LockInv, ReadIsCurrent, AsksUser, ComposedAgrees, FoldersKept
<1>2. ASSUME NEW c \in Commands, StartMap(c) PROVE LockInv'
  <2>1. PICK phase \in {"confirming", "composing"}, folders \in Whitelists :
          Become(c, Command(phase, "map", Missing, folders))
    BY <1>2 DEF StartMap
  <2>2. writer'[c].phase \in {"confirming", "composing"} /\ writer'[c].kind = "map"
    BY <2>1 DEF Become, StoreTypeOK, Command
  <2>3. QED
    BY <1>0, <1>2, <2>2 DEF StartMap, LockInv, ReadIsCurrent, AsksUser, ComposedAgrees, FoldersKept
<1>3. ASSUME NEW c \in Commands, Confirm(c) PROVE LockInv'
  <2>1. writer'[c].phase = "composing" /\ writer'[c].kind = "map"
    BY <1>0, <1>3 DEF Confirm, Become, StoreTypeOK, WriterStates, AsksUser
  <2>2. QED
    BY <1>0, <1>3, <2>1 DEF Confirm, LockInv, ReadIsCurrent, AsksUser, ComposedAgrees, FoldersKept
<1>4. ASSUME NEW c \in Commands, ComposeMap(c) PROVE LockInv'
  <2>1. /\ writer'[c].phase = "renaming" /\ writer'[c].kind = "map"
        /\ writer'[c].next = WriteManifestMapInclude(root, writer'[c].want)
    BY <1>0, <1>4 DEF ComposeMap, Become, StoreTypeOK, WriterStates, AsksUser
  <2>2. QED
    BY <1>0, <1>4, <2>1 DEF ComposeMap, LockInv, ReadIsCurrent, AsksUser, ComposedAgrees, FoldersKept
<1>5. ASSUME NEW c \in Commands, ComposeInit(c) PROVE LockInv'
  <2>1. PICK ide \in {Supported} \union {{i} : i \in Supported}, install \in Installs, owned \in SUBSET Skills :
          Become(c, [writer[c] EXCEPT !.phase = "renaming",
                       !.next = WriteManifest([include |-> {}, ides |-> PreviousIDEs(c) \union ide,
                                               install |-> install, owned |-> owned], root)])
    BY <1>5 DEF ComposeInit
  <2> DEFINE m == [include |-> {}, ides |-> PreviousIDEs(c) \union ide,
                   install |-> install, owned |-> owned]
  <2>2. m \in Manifests
    BY <1>0 DEF PreviousIDEs, Manifests, WriterStates, Whitelists
  <2>3. QED
    BY <1>5, <2>1, <2>2, ComposingInv DEF ComposeInit
<1>6. ASSUME NEW c \in Commands, ComposeUpdate(c) PROVE LockInv'
  <2>1. PICK install \in Installs, owned \in SUBSET Skills :
          Become(c, [writer[c] EXCEPT !.phase = "renaming",
                       !.next = WriteManifest([include |-> {}, ides |-> PreviousIDEs(c),
                                               install |-> install, owned |-> owned], root)])
    BY <1>6 DEF ComposeUpdate
  <2> DEFINE m == [include |-> {}, ides |-> PreviousIDEs(c), install |-> install, owned |-> owned]
  <2>2. m \in Manifests
    BY <1>0 DEF PreviousIDEs, Manifests, WriterStates, Whitelists
  <2>3. QED
    BY <1>6, <2>1, <2>2, ComposingInv DEF ComposeUpdate
<1>7. ASSUME NEW c \in Commands, ComposeRemove(c) PROVE LockInv'
  <2>1. CASE Become(c, Resting)
    BY <1>7, <2>1, RestingInv DEF ComposeRemove
  <2>2. CASE ~Become(c, Resting)
    <3>1. writer[c].prev # Missing
      BY <1>7, <2>2 DEF ComposeRemove
    <3>2. PICK owned \in SUBSET writer[c].prev.owned :
            Become(c, [writer[c] EXCEPT !.phase = "renaming",
                         !.next = WriteManifest([writer[c].prev EXCEPT !.owned = owned], root)])
      BY <1>7, <2>2 DEF ComposeRemove
    <3> DEFINE m == [writer[c].prev EXCEPT !.owned = owned]
    <3>3. writer[c].prev \in Manifests
      BY <1>0, <3>1 DEF WriterStates
    <3>4. /\ m \in Manifests /\ m.include = writer[c].prev.include /\ m.ides = writer[c].prev.ides
          /\ m.install = writer[c].prev.install /\ m.owned = owned
      BY <3>3 DEF Manifests
    <3>5. PreviousIDEs(c) = m.ides
      BY <3>1, <3>4 DEF PreviousIDEs
    <3>6. QED
      BY <1>7, <3>1, <3>2, <3>4, <3>5, ComposingInv DEF ComposeRemove
  <2>3. QED
    BY <2>1, <2>2
<1>8. ASSUME NEW c \in Commands, Rename(c) PROVE LockInv'
  <2>1. writer'[c].phase = "idle"
    BY <1>8 DEF Rename, Become, StoreTypeOK, Resting, Command
  <2>2. FoldersKept'
    <3>1. root' = writer[c].next /\ writer[c].next \in LockFiles /\ writer[c].next # Missing
      BY <1>0, <1>8, LockAssumption DEF Rename, WriterStates
    <3>2. CASE writer[c].kind = "map"
      <4>1. saved' = writer[c].want /\ writer[c].next.include = writer[c].want
        BY <1>0, <1>8, <3>2, WriteIncludeFields DEF Rename, ComposedAgrees
      <4>2. QED
        BY <3>1, <4>1 DEF FoldersKept, ReadManifestMapInclude
    <3>3. CASE writer[c].kind # "map"
      BY <1>0, <1>8, <3>1, <3>3 DEF Rename, ComposedAgrees, FoldersKept, ReadManifestMapInclude
    <3>4. QED
      BY <3>2, <3>3
  <2>3. QED
    BY <2>1, <2>2 DEF LockInv, ReadIsCurrent, AsksUser, ComposedAgrees
<1>9. ASSUME NEW c \in Commands, Stop(c) PROVE LockInv'
  BY <1>9, RestingInv DEF Stop
<1>10. CASE UNCHANGED storeVars
  BY <1>10 DEF storeVars, LockInv, ReadIsCurrent, AsksUser, ComposedAgrees, FoldersKept
<1>11. QED
  BY <1>1, <1>2, <1>3, <1>4, <1>5, <1>6, <1>7, <1>8, <1>9, <1>10 DEF StoreNext

-----------------------------------------------------------------------------
(* The theorems. *)

(* With one command at a time, a whitelist that names folders stays as map *)
(* saved it through any sequence of commands and failures.                 *)
THEOREM FoldersSafe ==
    ASSUME \A c, d \in Commands : c = d
    PROVE  StoreSpec => []FoldersKept
<1>1. StoreTypeOK /\ LockInv /\ [StoreNext]_storeVars => LockInv'
  BY LockInvStep
<1>2. LockInv => FoldersKept
  BY DEF LockInv
<1>3. QED
  BY <1>1, <1>2, LockInvInit, StoreTypeCorrect, PTL DEF StoreSpec

(* With one command at a time, the lock init, update or `skill remove`     *)
(* writes carries the selection it found, from either manifest.            *)
THEOREM SelectionSafe ==
    ASSUME \A c, d \in Commands : c = d
    PROVE  StoreSpec => SelectionCarried
<1> DEFINE Carried(c) ==
        (writer[c].kind # "map" /\ Rename(c)) =>
            /\ Selection(root, legacy) \subseteq Selection(root', legacy)
            /\ writer[c].kind # "init" => Selection(root', legacy) = Selection(root, legacy)
<1>1. StoreTypeOK /\ LockInv /\ [StoreNext]_storeVars => LockInv'
  BY LockInvStep
<1>2. ASSUME StoreTypeOK, LockInv, NEW c \in Commands PROVE Carried(c)
  <2> SUFFICES ASSUME writer[c].kind # "map", Rename(c)
               PROVE  /\ Selection(root, legacy) \subseteq Selection(root', legacy)
                      /\ writer[c].kind # "init" => Selection(root', legacy) = Selection(root, legacy)
    OBVIOUS
  <2>1. root' = writer[c].next /\ writer[c].next \in LockFiles
    BY <1>2 DEF Rename, StoreTypeOK, WriterStates
  <2>2. Selection(root', legacy) = writer[c].next.ides
    BY <2>1, ReadRoot DEF Selection
  <2>3. QED
    BY <1>2, <2>2, <2>1 DEF LockInv, ComposedAgrees, Rename
<1>3. StoreTypeOK /\ LockInv => [\A c \in Commands : Carried(c)]_storeVars
  BY <1>2
<1>4. QED
  BY <1>1, <1>3, LockInvInit, StoreTypeCorrect, PTL DEF StoreSpec, SelectionCarried

(* With one command at a time, saving a whitelist changes nothing else in  *)
(* a root lock, and `skill remove` only its projections (and the fields    *)
(* this version does not know).                                            *)
THEOREM FieldsSafe ==
    ASSUME \A c, d \in Commands : c = d
    PROVE  StoreSpec => OthersFieldsKept
<1> DEFINE Kept(c) ==
        (root # Missing /\ Rename(c)) =>
            /\ writer[c].kind = "map" => root' = [root EXCEPT !.include = root'.include]
            /\ writer[c].kind = "remove" =>
                  /\ root'.install = root.install /\ root'.ides = root.ides
                  /\ root'.owned \subseteq root.owned
<1>1. StoreTypeOK /\ LockInv /\ [StoreNext]_storeVars => LockInv'
  BY LockInvStep
<1>2. ASSUME StoreTypeOK, LockInv, NEW c \in Commands PROVE Kept(c)
  <2> SUFFICES ASSUME root # Missing, Rename(c)
               PROVE  /\ writer[c].kind = "map" => root' = [root EXCEPT !.include = root'.include]
                      /\ writer[c].kind = "remove" =>
                            /\ root'.install = root.install /\ root'.ides = root.ides
                            /\ root'.owned \subseteq root.owned
    OBVIOUS
  <2>1. /\ root' = writer[c].next /\ root \in LockFiles /\ ComposedAgrees(c)
        /\ writer[c].phase = "renaming"
    BY <1>2 DEF Rename, StoreTypeOK, LockInv
  <2>2. writer[c].kind = "map" => root' = [root EXCEPT !.include = root'.include]
    BY <2>1, WriteIncludeFields DEF ComposedAgrees
  <2>3. Selection(root, legacy) = root.ides
    BY <2>1, ReadRoot DEF Selection
  <2>4. QED
    BY <2>1, <2>2, <2>3 DEF ComposedAgrees
<1>3. StoreTypeOK /\ LockInv => [\A c \in Commands : Kept(c)]_storeVars
  BY <1>2
<1>4. QED
  BY <1>1, <1>3, LockInvInit, StoreTypeCorrect, PTL DEF StoreSpec, OthersFieldsKept
=============================================================================
