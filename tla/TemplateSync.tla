---------------------------- MODULE TemplateSync ----------------------------
(***************************************************************************)
(* `aidlc init` and `aidlc update` over one target repository: the payload *)
(* files on disk, aidlc.lock.json, the releases the source publishes, the  *)
(* user editing files, and the commands themselves.  A command reads the   *)
(* lock, fetches a snapshot, plans, writes the payload file by file,       *)
(* renders the IDE files and replaces the lock, and any of these steps may *)
(* fail or be the last before a crash.  Nothing serialises two commands,   *)
(* or a command and the user.                                              *)
(*                                                                         *)
(* Paths are numbers because ApplyPlan writes in sorted path order, and    *)
(* IDEs because Generate renders in the canonical IDE order.  Release 0 is *)
(* "no lock": RunUpdate treats a missing lock as one with no entries and   *)
(* no IDEs.                                                                *)
(***************************************************************************)
EXTENDS Naturals, SyncPlan

CONSTANTS
    Commands,       \* the command processes
    IDEs,           \* the supported IDEs
    Releases,       \* the releases the source publishes, in order
    Payload,        \* Payload[r][p]: content of p in release r, or Absent
    UserContents,   \* what a user may save in a file
    Torn            \* a file truncated by a write that did not finish

Blobs == {Payload[r][p] : r \in Releases, p \in Paths} \ {Absent}
Contents == Blobs \union UserContents \union {Torn}
Work == UserContents \ Blobs        \* what only the user can have written

ASSUME PathsAssumption == Paths \subseteq Nat
ASSUME IDEsAssumption == IDEs \subseteq Nat
ASSUME ReleasesAssumption == Releases \subseteq Nat \ {0} /\ 1 \in Releases
ASSUME PayloadAssumption == Payload \in [Releases -> [Paths -> Blobs \union {Absent}]]
ASSUME ContentsAssumption ==
    Absent \notin UserContents /\ Torn \notin UserContents \union Blobs \union {Absent}

NoLock == [release |-> 0, files |-> [p \in Paths |-> Absent], ides |-> {}]

Locks == [release : Releases \union {0},
          files   : [Paths -> Blobs \union {Absent}],
          ides    : SUBSET IDEs]

Phases == {"idle", "started", "fetched", "applying", "writing", "generating", "locking"}

NoPlan == [p \in Paths |-> "unplanned"]

(* A command: its flags, the lock and release it read, its plan, the paths *)
(* still to write and the IDEs still to render.                            *)
Command(phase, mode, force, dry, ide, prev) ==
    [phase |-> phase, mode |-> mode, force |-> force, dry |-> dry, ide |-> ide, prev |-> prev,
     snap |-> 0, plan |-> NoPlan, todo |-> {}, render |-> {}]

Idle == Command("idle", "init", FALSE, FALSE, {}, NoLock)

CommandStates ==
    [phase : Phases, mode : Modes, force : BOOLEAN, dry : BOOLEAN, ide : SUBSET IDEs,
     prev : Locks, snap : Releases \union {0},
     plan : [Paths -> DecisionStates \union {"unplanned"}],
     todo : SUBSET Paths, render : SUBSET IDEs]

VARIABLES
    disk,       \* the payload files
    lock,       \* aidlc.lock.json
    release,    \* the newest published release
    cmd         \* the command processes

(* What the properties compare the state with; no action reads them. *)
VARIABLES
    held,       \* held[p]: the upstream contents p has had
    excused,    \* the paths a command may report as a conflict
    attempts,   \* the releases written to disk since the lock was last replaced
    fresh,      \* the IDEs rendered from the payload now on disk
    unseen      \* the paths edited behind the back of a command

history == <<held, excused, attempts, fresh, unseen>>
vars == <<disk, lock, release, cmd, history>>

(* A command past the fetch knows which release it installs. *)
SnapshotKnown ==
    \A c \in Commands : cmd[c].phase \notin {"idle", "started"} => cmd[c].snap \in Releases

TypeOK ==
    /\ disk \in [Paths -> Contents \union {Absent}]
    /\ lock \in Locks
    /\ release \in Releases
    /\ cmd \in [Commands -> CommandStates]
    /\ SnapshotKnown
    /\ held \in [Paths -> SUBSET Blobs]
    /\ excused \subseteq Paths
    /\ attempts \subseteq Releases
    /\ fresh \subseteq IDEs
    /\ unseen \subseteq Commands \X Paths

(* The repository before its first init: no lock, files of the user's own. *)
Init ==
    /\ disk \in [Paths -> UserContents \union {Absent}]
    /\ lock = NoLock
    /\ release = 1
    /\ cmd = [c \in Commands |-> Idle]
    /\ held = [p \in Paths |-> {disk[p]} \intersect Blobs]
    /\ excused = {p \in Paths : disk[p] # Absent}
    /\ attempts = {}
    /\ fresh = {}
    /\ unseen = {}

-----------------------------------------------------------------------------
(* The commands. *)

Become(c, changes) == cmd' = [cmd EXCEPT ![c] = changes]

Finish(c) == Become(c, Idle)

(* A command that returned has nothing at its back. *)
Forget(c) == unseen' = unseen \ ({c} \X Paths)

(* A command that has planned. *)
Running(c) == cmd[c].phase \in {"applying", "writing", "generating", "locking"}

(* RunInit and RunUpdate start by reading the lock; init names one IDE or  *)
(* all of them.                                                            *)
ReadManifest(c) ==
    /\ cmd[c].phase = "idle"
    /\ \E mode \in Modes, force, dry \in BOOLEAN, ide \in {{i} : i \in IDEs} \union {IDEs} :
         /\ mode = "update" => ide = IDEs
         /\ Become(c, Command("started", mode, force, dry, ide, lock))
    /\ UNCHANGED <<disk, lock, release, history>>

(* The source provider returns the newest release. *)
Snapshot(c) ==
    /\ cmd[c].phase = "started"
    /\ Become(c, [cmd[c] EXCEPT !.phase = "fetched", !.snap = release])
    /\ UNCHANGED <<disk, lock, release, history>>

(* Mutant of Plan: update goes on past a conflict, as init does. *)
PlanPastConflicts(c) ==
    /\ cmd[c].phase = "fetched"
    /\ LET p == BuildPlan(cmd[c].mode, cmd[c].force, disk,
                          Payload[cmd[c].snap], cmd[c].prev.files)
       IN  \/ cmd[c].dry /\ Finish(c)
           \/ ~cmd[c].dry /\ Become(c, [cmd[c] EXCEPT !.phase = "applying", !.plan = p,
                                                      !.todo = WritablePaths(p)])
    /\ UNCHANGED <<disk, lock, release, history>>

(* BuildPlan checksums every planned file.  A dry run, and an update that  *)
(* meets a conflict, end here with nothing written.                        *)
Plan(c) ==
    /\ cmd[c].phase = "fetched"
    /\ LET p == BuildPlan(cmd[c].mode, cmd[c].force, disk,
                          Payload[cmd[c].snap], cmd[c].prev.files)
           stops == cmd[c].dry \/ (cmd[c].mode = "update" /\ HasConflict(p))
       IN  \/ stops /\ Finish(c)
           \/ ~stops /\ Become(c, [cmd[c] EXCEPT !.phase = "applying", !.plan = p,
                                                 !.todo = WritablePaths(p)])
    /\ UNCHANGED <<disk, lock, release, history>>

(* The file is the least path still to write: plans are sorted. *)
NextToWrite(c, p) == p \in cmd[c].todo /\ \A q \in cmd[c].todo : p <= q

(* os.WriteFile truncates the file, then writes it. *)
BeginWrite(c) ==
    /\ cmd[c].phase = "applying"
    /\ \E p \in Paths :
         /\ NextToWrite(c, p)
         /\ disk' = [disk EXCEPT ![p] = Torn]
         /\ excused' = excused \union {p}
    /\ Become(c, [cmd[c] EXCEPT !.phase = "writing"])
    /\ attempts' = attempts \union {cmd[c].snap}
    /\ fresh' = {}
    /\ UNCHANGED <<lock, release, held, unseen>>

FinishWrite(c) ==
    /\ cmd[c].phase = "writing"
    /\ \E p \in Paths :
         /\ NextToWrite(c, p)
         /\ disk' = [disk EXCEPT ![p] = Payload[cmd[c].snap][p]]
         /\ held' = [held EXCEPT ![p] = @ \union ({Payload[cmd[c].snap][p]} \intersect Blobs)]
         /\ excused' = excused \ {p}
         /\ unseen' = unseen \ {<<c, p>>}
         /\ Become(c, [cmd[c] EXCEPT !.phase = "applying", !.todo = @ \ {p}])
    /\ attempts' = attempts \union {cmd[c].snap}
    /\ fresh' = {}
    /\ UNCHANGED <<lock, release>>

(* Mutant of BeginGenerate: an update that wrote nothing renders nothing. *)
GenerateIfWritten(c) ==
    /\ cmd[c].phase = "applying"
    /\ cmd[c].todo = {}
    /\ Become(c, [cmd[c] EXCEPT !.phase = "generating",
                    !.render = IF cmd[c].mode = "init" THEN cmd[c].ide
                               ELSE IF WritablePaths(cmd[c].plan) = {} THEN {}
                               ELSE cmd[c].prev.ides])
    /\ UNCHANGED <<disk, lock, release, history>>

(* Once every writable file is written init renders the IDEs it was asked  *)
(* for, update those the previous lock selected; with none update does not *)
(* call Generate.                                                          *)
BeginGenerate(c) ==
    /\ cmd[c].phase = "applying"
    /\ cmd[c].todo = {}
    /\ Become(c, [cmd[c] EXCEPT !.phase = "generating",
                    !.render = IF cmd[c].mode = "init" THEN cmd[c].ide ELSE cmd[c].prev.ides])
    /\ UNCHANGED <<disk, lock, release, history>>

GenerateIDE(c) ==
    /\ cmd[c].phase = "generating"
    /\ \E i \in cmd[c].render :
         /\ \A j \in cmd[c].render : i <= j
         /\ Become(c, [cmd[c] EXCEPT !.render = @ \ {i}])
         /\ fresh' = fresh \union {i}
    /\ UNCHANGED <<disk, lock, release, held, excused, attempts, unseen>>

EndGenerate(c) ==
    /\ cmd[c].phase = "generating"
    /\ cmd[c].render = {}
    /\ Become(c, [cmd[c] EXCEPT !.phase = "locking"])
    /\ UNCHANGED <<disk, lock, release, history>>

(* Mutant of NewLock: init records only the IDE it was asked for. *)
NewLockForgetsIDEs(c) ==
    IF cmd[c].mode = "init"
    THEN [release |-> cmd[c].snap,
          files   |-> ManifestFromAcceptedPlan(cmd[c].plan, Payload[cmd[c].snap]),
          ides    |-> cmd[c].ide]
    ELSE [release |-> cmd[c].snap,
          files   |-> ManifestFromPlan(cmd[c].plan, Payload[cmd[c].snap]),
          ides    |-> cmd[c].prev.ides]

(* The lock an unhindered command writes. *)
NewLock(c) ==
    IF cmd[c].mode = "init"
    THEN [release |-> cmd[c].snap,
          files   |-> ManifestFromAcceptedPlan(cmd[c].plan, Payload[cmd[c].snap]),
          ides    |-> cmd[c].prev.ides \union cmd[c].ide]
    ELSE [release |-> cmd[c].snap,
          files   |-> ManifestFromPlan(cmd[c].plan, Payload[cmd[c].snap]),
          ides    |-> cmd[c].prev.ides]

(* WriteManifest replaces the lock by renaming a temporary file over it. *)
WriteManifest(c) ==
    /\ cmd[c].phase = "locking"
    /\ lock' = NewLock(c)
    /\ Finish(c)
    /\ excused' = {p \in Paths : disk[p] # Absent /\ lock'.files[p] # disk[p]}
    /\ attempts' = {}
    /\ Forget(c)
    /\ UNCHANGED <<disk, release, held, fresh>>

(* An error of the provider, the plan, a file write, the generator or the  *)
(* lock write is returned at once, and nothing written so far is undone.   *)
(* A crash leaves the same state: in both a file being written stays torn. *)
Abort(c) ==
    /\ cmd[c].phase # "idle"
    /\ Finish(c)
    /\ Forget(c)
    /\ UNCHANGED <<disk, lock, release, held, excused, attempts, fresh>>

-----------------------------------------------------------------------------
(* The rest of the world. *)

(* The user saves, restores or deletes a file. *)
Edit ==
    /\ \E p \in Paths, new \in UserContents \union {Absent} :
         /\ disk' = [disk EXCEPT ![p] = new]
         /\ held' = [held EXCEPT ![p] = @ \union ({new} \intersect Blobs)]
         /\ excused' = excused \union {p}
         /\ unseen' = unseen \union {<<c, p>> : c \in {d \in Commands : Running(d)}}
    /\ fresh' = {}
    /\ UNCHANGED <<lock, release, cmd, attempts>>

(* The source publishes its next release. *)
Publish ==
    /\ release + 1 \in Releases
    /\ release' = release + 1
    /\ UNCHANGED <<disk, lock, cmd, history>>

(* What a running command does unless it fails. *)
Advance(c) ==
    \/ Snapshot(c)
    \/ Plan(c)
    \/ BeginWrite(c)
    \/ FinishWrite(c)
    \/ BeginGenerate(c)
    \/ GenerateIDE(c)
    \/ EndGenerate(c)
    \/ WriteManifest(c)

Next ==
    \/ \E c \in Commands : ReadManifest(c) \/ Advance(c) \/ Abort(c)
    \/ Edit
    \/ Publish

Spec == Init /\ [][Next]_vars

-----------------------------------------------------------------------------
(* Properties. *)

(* The strengthening LockOnlyClaimsHeld rests on: a running command has     *)
(* written, found in place or still has to write every file it accepted,   *)
(* and an update accepted the whole release.                               *)
CommandHonest(c) ==
    Running(c) =>
        /\ \A p \in Paths : AcceptedUpstreamDecision(cmd[c].plan[p]) =>
              /\ Payload[cmd[c].snap][p] # Absent
              /\ p \in cmd[c].todo \/ Payload[cmd[c].snap][p] \in held[p]
        /\ cmd[c].mode = "update" =>
              \A p \in Paths : Payload[cmd[c].snap][p] # Absent =>
                  AcceptedUpstreamDecision(cmd[c].plan[p])
        /\ cmd[c].phase \in {"generating", "locking"} => cmd[c].todo = {}

DiskHeld == \A p \in Paths : disk[p] \in Blobs => disk[p] \in held[p]

(* The lock never records a checksum for a file that never had that        *)
(* content: init leaves conflicts out of ManifestFromAcceptedPlan, and     *)
(* update only gets to ManifestFromPlan when every file was written or     *)
(* already matched, whoever else was writing meanwhile.                    *)
LockOnlyClaimsHeld ==
    \A p \in Paths : lock.files[p] # Absent => lock.files[p] \in held[p]

HeldInv ==
    /\ \A c \in Commands : CommandHonest(c)
    /\ DiskHeld
    /\ LockOnlyClaimsHeld

(* A command that failed or crashed can be run again: while the source     *)
(* still offers the release it was installing, update finds no conflict in *)
(* a file that the user has not touched, that was not left torn, and that  *)
(* the lock had not let go of.                                             *)
RetryIsClean ==
    attempts \subseteq {release} =>
        \A p \in Paths \ excused :
            Decide("update", FALSE, disk[p], Payload[release][p], lock.files[p]) # "conflict"

(* The strengthening RetryIsClean rests on: such a file is gone, or as the *)
(* lock recorded it, or as a command that has not replaced the lock since  *)
(* wrote it.                                                               *)
Untouched(p) ==
    \/ disk[p] \in {Absent, lock.files[p]}
    \/ \E r \in attempts : disk[p] = Payload[r][p]

UntouchedKnown == \A p \in Paths \ excused : Untouched(p)

(* Without --force neither command replaces what only the user can have    *)
(* written ("divergent local files remain untouched"), unless it was saved *)
(* after the command checksummed the file: no edit that a plan could have  *)
(* seen is lost, whatever else runs.                                       *)
UserWorkKept ==
    [][\A c \in Commands, p \in Paths :
        (cmd'[c] # cmd[c] /\ disk[p] \in Work /\ disk'[p] # disk[p]) =>
            cmd[c].force \/ <<c, p>> \in unseen]_vars

(* The strengthening UserWorkKept rests on. *)
WritesSafe(c) ==
    (cmd[c].phase \in {"applying", "writing"} /\ ~cmd[c].force) =>
        \A p \in cmd[c].todo : disk[p] \in Work => <<c, p>> \in unseen

UnforcedWritesSafe == \A c \in Commands : WritesSafe(c)

(* A new lock tracks a file of its release exactly when that file has the  *)
(* release's content, but for files saved while the command ran: the       *)
(* partial lock of a conflicted init is honest, and a clean file is never  *)
(* left out.                                                               *)
LockRecordsInstalled ==
    [][\A c \in Commands : WriteManifest(c) =>
        \A p \in Paths :
            (Payload[lock'.release][p] # Absent /\ <<c, p>> \notin unseen) =>
                (lock'.files[p] = Payload[lock'.release][p]
                    <=> disk[p] = Payload[lock'.release][p])]_vars

(* When update replaces the lock, every IDE the lock selects was rendered  *)
(* from the payload now on disk, unless a file was saved under it.         *)
UpdateRendersSelection ==
    [][\A c \in Commands :
        (WriteManifest(c) /\ cmd[c].mode = "update" /\ \A p \in Paths : <<c, p>> \notin unseen)
            => lock'.ides \subseteq fresh]_vars

(* An IDE once recorded in workspace.ides stays selected, whichever IDE a  *)
(* later init asks for.                                                    *)
SelectionKept == [][lock.ides \subseteq lock'.ides]_vars

(* init and update implement the promise of TrackedWorkspace: the user     *)
(* puts work at risk with a forced command, or by saving while one runs.   *)
Workspace == INSTANCE TrackedWorkspace
    WITH files <- lock.files, risk <- unseen # {} \/ \E c \in Commands : cmd[c].force

KeepsPromise == Workspace!Spec
=============================================================================
