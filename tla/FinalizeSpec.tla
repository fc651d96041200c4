---------------------------- MODULE FinalizeSpec ----------------------------
(***************************************************************************)
(* What happens to a spec after its branch is merged                       *)
(* (.ai/scripts/finalize_spec.sh, run by the finalize-spec workflow for    *)
(* every merged pull request, or by hand): its entry leaves the in-flight  *)
(* tracker, its status becomes implemented, and both go to the default     *)
(* branch in one commit.  Jobs of several branches, and a maintainer with  *)
(* a clone, do this at the same time, while more branches are merged.      *)
(*                                                                         *)
(* Of a tree only docs/spec is of interest: the tracker's entries, the     *)
(* spec files, and the specs whose status is implemented.                  *)
(***************************************************************************)
EXTENDS Naturals, FiniteSets

CONSTANTS
    Specs,
    Branches,     \* the feature branches
    SpecOf,       \* the spec a branch implements, or NoSpec
    NoSpec,
    Main,         \* the default branch
    Local,        \* the maintainer's clone
    LocalArgs,    \* what the maintainer runs the script with
    MaxKills,     \* bound on runs that are killed
    MaxLocalRuns  \* bound on the maintainer's runs

(* --spec, or NoSpec; --branch, or Main, where the checkout is; --push.    *)
Args == [spec : Specs \union {NoSpec}, branch : Branches \union {Main}, push : BOOLEAN]

ASSUME BranchAssumption ==
    /\ IsFiniteSet(Specs)
    /\ SpecOf \in [Branches -> Specs \union {NoSpec}] /\ NoSpec \notin Specs
    /\ Main \notin Branches /\ Local \notin Branches
    /\ LocalArgs \subseteq Args
    /\ MaxKills \in Nat /\ MaxLocalRuns \in Nat

Trees == [inFlight : SUBSET (Specs \X Branches), files : SUBSET Specs, done : SUBSET Specs]

Runners == Branches \union {Local}

Steps == {"idle", "resolve", "remove", "status", "commit", "push", "done", "failed"}

Runs == [pc : Steps, args : Args,
         spec : Specs \union {NoSpec},  \* spec_file
         tree : Trees,                  \* the working tree
         head : Trees,                  \* the last commit
         base : Nat]                    \* the commits of origin below it

VARIABLES
    origin,      \* the tree of origin's default branch,
    commits,     \* and the number of its commits
    merged,      \* the branches that are merged
    run,         \* what each runner does
    kills, localRuns
vars == <<origin, commits, merged, run, kills, localRuns>>
bounds == <<kills, localRuns>>

CIArgs(b) == [spec |-> NoSpec, branch |-> b, push |-> TRUE]

TypeOK ==
    /\ origin \in Trees
    /\ commits \in Nat
    /\ merged \subseteq Branches
    /\ run \in [Runners -> Runs]
    /\ \A b \in Branches : run[b].args = CIArgs(b)
    /\ kills \in 0..MaxKills
    /\ localRuns \in 0..MaxLocalRuns

NoTree == [inFlight |-> {}, files |-> {}, done |-> {}]

(* A runner's checkout is of no interest between its runs. *)
NoRun(r, pc) ==
    [pc |-> pc, args |-> CIArgs(IF r = Local THEN Main ELSE r), spec |-> NoSpec,
     tree |-> NoTree, head |-> NoTree, base |-> 0]

(* Some specs have been written already. *)
Init ==
    /\ origin \in [inFlight : {{}}, files : SUBSET Specs, done : {{}}]
    /\ commits = 0
    /\ merged = {}
    /\ run = [r \in Runners |-> NoRun(r, "idle")]
    /\ kills = 0 /\ localRuns = 0

-----------------------------------------------------------------------------
(* The repository's users. *)

(* The tree with a branch's spec and its entry in the tracker. *)
WithEntry(b) ==
    IF SpecOf[b] = NoSpec THEN origin
    ELSE [origin EXCEPT !.inFlight = @ \union {<<SpecOf[b], b>>}, !.files = @ \union {SpecOf[b]}]

(* An entry is added when the pull request is opened; at the latest it is  *)
(* merged with it.                                                         *)
Open(b) ==
    /\ b \notin merged /\ origin # WithEntry(b)
    /\ origin' = WithEntry(b)
    /\ commits' = commits + 1
    /\ UNCHANGED <<merged, run, bounds>>

Merge(b) ==
    /\ b \notin merged
    /\ merged' = merged \union {b}
    /\ origin' = WithEntry(b)
    /\ commits' = commits + 1
    /\ UNCHANGED <<run, bounds>>

-----------------------------------------------------------------------------
(* The start of a run. *)

FreshRun(args) ==
    [pc |-> "resolve", args |-> args, spec |-> NoSpec,
     tree |-> origin, head |-> origin, base |-> commits]

(* The workflow of a merged branch has its own checkout, and so has the    *)
(* rerun of one that failed, which somebody may start and nothing does.    *)
Checkout(b) ==
    /\ b \in merged /\ run[b].pc \in {"idle", "failed"}
    /\ run' = [run EXCEPT ![b] = FreshRun(CIArgs(b))]
    /\ UNCHANGED <<origin, commits, merged, bounds>>

(* The maintainer runs the script in a clone that is up to date and clean, *)
(* for a branch, a spec, both or neither.                                  *)
RunLocally(args) ==
    /\ run[Local].pc \in {"idle", "done", "failed"}
    /\ localRuns < MaxLocalRuns
    /\ localRuns' = localRuns + 1
    /\ args.spec = NoSpec \/ args.spec \in origin.files
    /\ run' = [run EXCEPT ![Local] = FreshRun(args)]
    /\ UNCHANGED <<origin, commits, merged, kills>>

-----------------------------------------------------------------------------
(* main. *)

End(r, pc) == [run EXCEPT ![r] = NoRun(r, pc)]

InFlightSpecs(r) == {s \in Specs : <<s, run[r].args.branch>> \in run[r].tree.inFlight}

(* A bug: any spec will do. *)
AnySpecs(r) == run[r].tree.files

SoleSpecs(r) ==
    IF Cardinality(run[r].tree.files) = 1 THEN run[r].tree.files ELSE {}

(* resolve_spec_path: --spec, the tracker's spec for the branch, or the    *)
(* only spec there is.                                                     *)
ResolvedSpecs(r) ==
    IF run[r].args.spec # NoSpec THEN {run[r].args.spec}
    ELSE IF InFlightSpecs(r) # {} THEN InFlightSpecs(r)
    ELSE SoleSpecs(r)

ResolveSpecPath(r) ==
    /\ run[r].pc = "resolve"
    /\ \/ \E s \in ResolvedSpecs(r) :
            run' = [run EXCEPT ![r].pc = "remove", ![r].spec = s]
       \/ ResolvedSpecs(r) = {} /\ run' = End(r, "failed")
    /\ UNCHANGED <<origin, commits, merged, bounds>>

(* A bug: entries go whatever their spec and branch. *)
RemoveEntries(r) ==
    /\ run[r].pc = "remove"
    /\ run' = [run EXCEPT ![r].pc = "status", ![r].tree.inFlight = {}]
    /\ UNCHANGED <<origin, commits, merged, bounds>>

RemoveFromInFlight(r) ==
    /\ run[r].pc = "remove"
    /\ run' = [run EXCEPT ![r].pc = "status",
                          ![r].tree.inFlight = @ \ {<<run[r].spec, run[r].args.branch>>}]
    /\ UNCHANGED <<origin, commits, merged, bounds>>

SetSpecStatusImplemented(r) ==
    /\ run[r].pc = "status"
    /\ run' = [run EXCEPT ![r].pc = "commit", ![r].tree.done = @ \union {run[r].spec}]
    /\ UNCHANGED <<origin, commits, merged, bounds>>

CommitFinalize(r) ==
    /\ run[r].pc = "commit"
    /\ run' = [run EXCEPT ![r].pc = "push", ![r].head = run[r].tree]
    /\ UNCHANGED <<origin, commits, merged, bounds>>

NoPush(r) ==
    /\ run[r].pc = "push" /\ ~run[r].args.push
    /\ run' = End(r, "done")
    /\ UNCHANGED <<origin, commits, merged, bounds>>

(* A bug: a push that fails is not an error. *)
PushIgnored(r) ==
    /\ run[r].pc = "push" /\ run[r].args.push
    /\ run[r].base # commits
    /\ run' = End(r, "done")
    /\ UNCHANGED <<origin, commits, merged, bounds>>

(* git push takes nothing that is not on top of origin. *)
PushRejected(r) ==
    /\ run[r].pc = "push" /\ run[r].args.push
    /\ run[r].base # commits
    /\ run' = End(r, "failed")
    /\ UNCHANGED <<origin, commits, merged, bounds>>

(* A bug: git push --force. *)
ForcedPush(r) ==
    /\ run[r].pc = "push"
    /\ origin' = run[r].head
    /\ commits' = commits + 1
    /\ run' = End(r, "done")
    /\ UNCHANGED <<merged, bounds>>

Push(r) ==
    /\ run[r].pc = "push" /\ run[r].args.push
    /\ run[r].base = commits
    /\ origin' = run[r].head
    /\ commits' = IF run[r].head = origin THEN commits ELSE commits + 1
    /\ \/ /\ run' = End(r, "done")
          /\ UNCHANGED kills
       \/ /\ run' = End(r, "failed")  \* the answer is lost
          /\ kills < MaxKills /\ kills' = kills + 1
    /\ UNCHANGED <<merged, localRuns>>

(* A run is killed, or one of its commands fails. *)
Kill(r) ==
    /\ run[r].pc \in {"resolve", "remove", "status", "commit", "push"}
    /\ kills < MaxKills
    /\ kills' = kills + 1
    /\ run' = End(r, "failed")
    /\ UNCHANGED <<origin, commits, merged, localRuns>>

Step(r) ==
    \/ ResolveSpecPath(r) \/ RemoveFromInFlight(r) \/ SetSpecStatusImplemented(r)
    \/ CommitFinalize(r) \/ NoPush(r) \/ PushRejected(r) \/ Push(r)

Next ==
    \/ \E b \in Branches : Open(b) \/ Merge(b) \/ Checkout(b)
    \/ \E args \in LocalArgs : RunLocally(args)
    \/ \E r \in Runners : Step(r) \/ Kill(r)

Spec == Init /\ [][Next]_vars

-----------------------------------------------------------------------------
(* Properties. *)

SpecBranches == {b \in Branches : SpecOf[b] # NoSpec}

InTracker(b) == <<SpecOf[b], b>> \in origin.inFlight
Implemented(b) == SpecOf[b] \in origin.done

(* On the default branch, a merged spec that is no longer in flight is     *)
(* implemented: neither a run that stops between the tracker and the       *)
(* status, nor two runs that push at once, nor a push that was accepted    *)
(* without the run knowing, publish one without the other                  *)
(* (finalize_spec.sh:362-365, 303).                                        *)
EntryAndStatusTogether ==
    \A b \in SpecBranches : b \in merged => InTracker(b) \/ Implemented(b)

(* The run of a branch with a spec, however often it is repeated, changes  *)
(* no other spec: once its entry is gone it finds its own spec as the only *)
(* one, or none.  The run of a branch without a spec ends without having   *)
(* chosen one if there are two: if there is only one, it takes that,       *)
(* whoever's it is and merged or not (finalize_spec.sh:136-161).           *)
RunsKeepToTheirSpec ==
    \A b \in Branches : run[b].spec # NoSpec =>
        IF b \in SpecBranches THEN run[b].spec = SpecOf[b]
                              ELSE run[b].tree.files = {run[b].spec}

Lifecycle == INSTANCE SpecLifecycle
             WITH tracker <- origin.inFlight, written <- origin.files, implemented <- origin.done

(* Whatever runs race, stop or are repeated, the default branch only ever  *)
(* sees whole finalisations of one spec: nothing that another run or a     *)
(* merge has committed since the checkout is undone, and no entry comes    *)
(* back after its branch is merged (finalize_spec.sh:186-205, 304).        *)
KeepsLifecycle == Lifecycle!Spec

(* What a run that succeeded has done is on the default branch and stays:  *)
(* the spec of its branch is implemented and no longer in flight, whoever  *)
(* else has finalised, merged or pushed before, meanwhile and since        *)
(* (finalize_spec.sh:292-306, 337-366).                                    *)
SuccessIsPublished ==
    \A b \in SpecBranches : run[b].pc = "done" => ~InTracker(b) /\ Implemented(b)
=============================================================================
