-------------------------- MODULE FinalizeSpecProofs --------------------------
(***************************************************************************)
(* Proofs about FinalizeSpec, for any specs, branches, arguments of the    *)
(* maintainer and numbers of runs and failures.                            *)
(***************************************************************************)
EXTENDS FinalizeSpec, FiniteSetTheorems, TLAPS

LEMMA NoRunType ==
    ASSUME NEW r \in Runners, NEW pc \in Steps
    PROVE  /\ NoRun(r, pc) \in Runs
           /\ r \in Branches => NoRun(r, pc).args = CIArgs(r)
  BY BranchAssumption DEF NoRun, Runs, Runners, Args, CIArgs, Trees, NoTree

LEMMA TypeInit == Init => TypeOK
<1> SUFFICES ASSUME Init PROVE TypeOK
  OBVIOUS
<1>1. origin \in Trees
  BY DEF Init, Trees
<1>2. run \in [Runners -> Runs] /\ \A b \in Branches : run[b].args = CIArgs(b)
  BY NoRunType DEF Init, Steps, Runners
<1> QED
  BY <1>1, <1>2, BranchAssumption DEF Init, TypeOK

LEMMA WithEntryType ==
    ASSUME TypeOK, NEW b \in Branches
    PROVE  WithEntry(b) \in Trees
<1>1. CASE SpecOf[b] = NoSpec
  BY <1>1 DEF TypeOK, WithEntry
<1>2. CASE SpecOf[b] # NoSpec
  <2>1. SpecOf[b] \in Specs
    BY <1>2, BranchAssumption
  <2>2. origin.inFlight \union {<<SpecOf[b], b>>} \in SUBSET (Specs \X Branches)
    BY <2>1 DEF TypeOK, Trees
  <2>3. origin.files \union {SpecOf[b]} \in SUBSET Specs
    BY <2>1 DEF TypeOK, Trees
  <2> QED
    BY <1>2, <2>2, <2>3 DEF TypeOK, WithEntry, Trees
<1> QED
  BY <1>1, <1>2

LEMMA FreshRunType ==
    ASSUME TypeOK, NEW args \in Args
    PROVE  FreshRun(args) \in Runs
  BY DEF TypeOK, FreshRun, Runs, Steps

LEMMA EndType ==
    ASSUME TypeOK, NEW r \in Runners, NEW pc \in Steps
    PROVE  /\ End(r, pc) \in [Runners -> Runs]
           /\ \A b \in Branches : End(r, pc)[b].args = CIArgs(b)
  BY NoRunType DEF TypeOK, End, Runners

LEMMA ResolvedType ==
    ASSUME TypeOK, NEW r \in Runners
    PROVE  ResolvedSpecs(r) \subseteq Specs
<1>1. run[r].tree.files \subseteq Specs /\ run[r].args.spec \in Specs \union {NoSpec}
  BY DEF TypeOK, Runs, Trees, Args
<1> QED
  BY <1>1 DEF ResolvedSpecs, InFlightSpecs, SoleSpecs

LEMMA TypeStep ==
    ASSUME TypeOK, NEW r \in Runners, Step(r) \/ Kill(r)
    PROVE  TypeOK'
<1>0. run[r] \in Runs /\ r \in DOMAIN run /\ {"done", "failed"} \subseteq Steps
  BY DEF TypeOK, Steps
<1>1. CASE ResolveSpecPath(r)
  <2>1. CASE ResolvedSpecs(r) = {} /\ run' = End(r, "failed")
    BY <1>0, <1>1, <2>1, EndType DEF ResolveSpecPath, TypeOK, bounds
  <2>2. CASE \E s \in ResolvedSpecs(r) :
               run' = [run EXCEPT ![r].pc = "remove", ![r].spec = s]
    <3>1. PICK s \in ResolvedSpecs(r) :
              run' = [run EXCEPT ![r].pc = "remove", ![r].spec = s]
      BY <2>2
    <3>2. [run[r] EXCEPT !.pc = "remove", !.spec = s] \in Runs
      BY <1>0, <3>1, ResolvedType DEF Runs, Steps
    <3> QED
      BY <1>0, <1>1, <3>1, <3>2 DEF ResolveSpecPath, TypeOK, bounds, Runs, Runners
  <2> QED
    BY <1>1, <2>1, <2>2 DEF ResolveSpecPath
<1>2. CASE RemoveFromInFlight(r)
  <2>1. [run[r] EXCEPT !.pc = "status",
           !.tree.inFlight = @ \ {<<run[r].spec, run[r].args.branch>>}] \in Runs
    BY <1>0 DEF Runs, Steps, Trees
  <2> QED
    BY <1>0, <1>2, <2>1 DEF RemoveFromInFlight, TypeOK, bounds, Runs, Runners
<1>3. CASE SetSpecStatusImplemented(r)
  BY <1>0, <1>3 DEF SetSpecStatusImplemented, TypeOK, bounds, Runs, Steps, Trees, Runners
<1>4. CASE CommitFinalize(r)
  BY <1>0, <1>4 DEF CommitFinalize, TypeOK, bounds, Runs, Steps, Runners
<1>5. CASE NoPush(r) \/ PushRejected(r)
  BY <1>0, <1>5, EndType DEF NoPush, PushRejected, TypeOK, bounds
<1>6. CASE Push(r)
  <2>1. origin' \in Trees /\ commits' \in Nat
    BY <1>0, <1>6 DEF Push, TypeOK, Runs
  <2>2. kills' \in 0..MaxKills
    BY <1>6, BranchAssumption DEF Push, TypeOK
  <2>3. run' = End(r, "done") \/ run' = End(r, "failed")
    BY <1>6 DEF Push
  <2> QED
    BY <1>0, <1>6, <2>1, <2>2, <2>3, EndType DEF Push, TypeOK
<1>7. CASE Kill(r)
  <2>1. kills' \in 0..MaxKills
    BY <1>7, BranchAssumption DEF Kill, TypeOK
  <2> QED
    BY <1>0, <1>7, <2>1, EndType DEF Kill, TypeOK
<1> QED
  BY <1>1, <1>2, <1>3, <1>4, <1>5, <1>6, <1>7 DEF Step

LEMMA TypeNext == TypeOK /\ [Next]_vars => TypeOK'
<1> SUFFICES ASSUME TypeOK, [Next]_vars PROVE TypeOK'
  OBVIOUS
<1>1. ASSUME NEW b \in Branches, Open(b) \/ Merge(b) PROVE TypeOK'
  BY <1>1, WithEntryType DEF Open, Merge, TypeOK, bounds
<1>2. ASSUME NEW b \in Branches, Checkout(b) PROVE TypeOK'
  <2>1. FreshRun(CIArgs(b)) \in Runs /\ FreshRun(CIArgs(b)).args = CIArgs(b)
    BY FreshRunType DEF CIArgs, Args, FreshRun
  <2> QED
    BY <1>2, <2>1 DEF Checkout, TypeOK, bounds, Runners
<1>3. ASSUME NEW args \in LocalArgs, RunLocally(args) PROVE TypeOK'
  <2>1. FreshRun(args) \in Runs
    BY FreshRunType, BranchAssumption
  <2>2. localRuns' \in 0..MaxLocalRuns
    BY <1>3, BranchAssumption DEF RunLocally, TypeOK
  <2> QED
    BY <1>3, <2>1, <2>2, BranchAssumption DEF RunLocally, TypeOK, Runners
<1>4. CASE UNCHANGED vars
  BY <1>4 DEF vars, TypeOK
<1> QED
  BY <1>1, <1>2, <1>3, <1>4, TypeStep DEF Next

(* Repositories, checkouts and runs are well typed, for any number of      *)
(* branches, runs and failures; a branch's run has its workflow's          *)
(* arguments.                                                              *)
THEOREM TypeCorrect == Spec => []TypeOK
  BY TypeInit, TypeNext, PTL DEF Spec

-----------------------------------------------------------------------------
(* The inductive invariant.  A run whose checkout is still on top of       *)
(* origin has changed nothing in it but its own spec's status and its      *)
(* entry for the branch, and what it has committed has the status.         *)

Consistent(tree) ==
    \A s \in Specs, b \in Branches :
        <<s, b>> \in tree.inFlight => s = SpecOf[b] /\ s \in tree.files

MergedHaveSpecs == \A b \in SpecBranches : b \in merged => SpecOf[b] \in origin.files

Changes(new, s, branch) ==
    /\ s \in origin.files
    /\ new.files = origin.files
    /\ origin.done \subseteq new.done
    /\ new.done \subseteq origin.done \union {s}
    /\ new.inFlight \subseteq origin.inFlight
    /\ \A t \in Specs, b \in Branches :
         <<t, b>> \in origin.inFlight /\ <<t, b>> \notin new.inFlight => t = s /\ b = branch

OnTop(r) ==
    /\ run[r].base <= commits
    /\ run[r].base = commits =>
         /\ run[r].pc = "resolve" => /\ run[r].tree = origin
                                     /\ run[r].args.spec \in origin.files \union {NoSpec}
         /\ run[r].pc \in {"remove", "status", "commit"} =>
               Changes(run[r].tree, run[r].spec, run[r].args.branch)
         /\ run[r].pc = "commit" => run[r].spec \in run[r].tree.done
         /\ run[r].pc = "push" => Changes(run[r].head, run[r].spec, run[r].args.branch)
                                   /\ run[r].spec \in run[r].head.done

OwnSpec(b) ==
    /\ run[b].spec \in {NoSpec, SpecOf[b]}
    /\ run[b].pc = "resolve" => SpecOf[b] \in run[b].tree.files /\ Consistent(run[b].tree)

Inv ==
    /\ TypeOK
    /\ Consistent(origin)
    /\ MergedHaveSpecs
    /\ EntryAndStatusTogether
    /\ \A r \in Runners : OnTop(r)
    /\ \A b \in SpecBranches : OwnSpec(b)

LEMMA SpecBranch ==
    ASSUME NEW b \in SpecBranches
    PROVE  b \in Branches /\ b \in Runners /\ SpecOf[b] \in Specs /\ SpecOf[b] # NoSpec
  BY BranchAssumption DEF SpecBranches, Runners

LEMMA InvInit == Init => Inv
<1> SUFFICES ASSUME Init PROVE Inv
  OBVIOUS
<1>1. TypeOK
  BY TypeInit
<1>2. \A r \in Runners : run[r].pc = "idle" /\ run[r].spec = NoSpec /\ run[r].base = 0
  BY DEF Init, NoRun
<1>3. \A r \in Runners : OnTop(r)
  BY <1>2 DEF Init, OnTop
<1>4. \A b \in SpecBranches : OwnSpec(b)
  BY <1>2, SpecBranch DEF OwnSpec
<1>5. Consistent(origin) /\ MergedHaveSpecs /\ EntryAndStatusTogether
  BY DEF Init, Consistent, MergedHaveSpecs, EntryAndStatusTogether
<1> QED
  BY <1>1, <1>3, <1>4, <1>5 DEF Inv

(* What a runner that ended has no part in. *)
LEMMA AfterEnd ==
    ASSUME Inv, NEW r \in Runners, NEW pc \in {"done", "failed"}, run' = End(r, pc),
           commits' \in Nat, commits <= commits',
           commits' = commits => origin' = origin
    PROVE  /\ \A q \in Runners : OnTop(q)'
           /\ \A b \in SpecBranches : OwnSpec(b)'
<1>1. run'[r].pc = pc /\ run'[r].spec = NoSpec /\ run'[r].base = 0
  BY DEF Inv, TypeOK, End, NoRun
<1>2. \A q \in Runners \ {r} : run'[q] = run[q]
  BY DEF Inv, TypeOK, End
<1>3. ASSUME NEW q \in Runners PROVE OnTop(q)'
  <2>1. CASE q = r
    BY <1>1, <2>1 DEF OnTop
  <2>2. CASE q # r /\ commits' = commits
    BY <1>2, <2>2 DEF Inv, OnTop, Changes
  <2>3. CASE q # r /\ commits' # commits
    <3>1. run'[q].base \in Nat /\ run'[q].base <= commits /\ commits \in Nat
      BY <1>2, <2>3 DEF Inv, TypeOK, Runs, OnTop
    <3> QED
      BY <3>1, <2>3 DEF OnTop
  <2> QED
    BY <2>1, <2>2, <2>3
<1>4. ASSUME NEW b \in SpecBranches PROVE OwnSpec(b)'
  BY <1>1, <1>2, SpecBranch DEF Inv, OwnSpec, Consistent
<1> QED
  BY <1>3, <1>4

(* Someone else's commit leaves no run on top of origin. *)
LEMMA AfterCommit ==
    ASSUME Inv, run' = run, commits' = commits + 1
    PROVE  /\ \A q \in Runners : OnTop(q)'
           /\ \A b \in SpecBranches : OwnSpec(b)'
<1>1. ASSUME NEW q \in Runners PROVE OnTop(q)'
  <2>1. run[q].base \in Nat /\ run[q].base <= commits /\ commits \in Nat
    BY DEF Inv, TypeOK, Runs, OnTop
  <2> QED
    BY <2>1 DEF OnTop
<1>2. ASSUME NEW b \in SpecBranches PROVE OwnSpec(b)'
  BY DEF Inv, OwnSpec, Consistent
<1> QED
  BY <1>1, <1>2

LEMMA InvUsers ==
    ASSUME Inv, NEW b \in Branches, Open(b) \/ Merge(b)
    PROVE  Inv'
<1>0. origin \in Trees /\ origin' = WithEntry(b) /\ run' = run /\ commits' = commits + 1
  BY DEF Inv, TypeOK, Open, Merge
<1>1. TypeOK'
  BY TypeNext DEF Inv, Next
<1>2. /\ origin.files \subseteq origin'.files
      /\ origin'.done = origin.done
      /\ origin.inFlight \subseteq origin'.inFlight
      /\ SpecOf[b] # NoSpec => SpecOf[b] \in origin'.files /\ <<SpecOf[b], b>> \in origin'.inFlight
  <2>1. CASE SpecOf[b] = NoSpec
    BY <1>0, <2>1 DEF WithEntry
  <2>2. CASE SpecOf[b] # NoSpec
    BY <1>0, <2>2 DEF WithEntry, Trees
  <2> QED
    BY <2>1, <2>2
<1>3. Consistent(origin')
  <2>1. CASE SpecOf[b] = NoSpec
    BY <1>0, <2>1 DEF WithEntry, Inv
  <2>2. CASE SpecOf[b] # NoSpec
    <3>1. origin'.inFlight = origin.inFlight \union {<<SpecOf[b], b>>}
      BY <1>0, <2>2 DEF WithEntry, Trees
    <3> QED
      BY <1>2, <2>2, <3>1 DEF Inv, Consistent
  <2> QED
    BY <2>1, <2>2
<1>4. merged' \subseteq merged \union {b}
  BY DEF Open, Merge
<1>5. MergedHaveSpecs'
  BY <1>2, <1>4, SpecBranch DEF Inv, MergedHaveSpecs
<1>6. EntryAndStatusTogether'
  BY <1>2, <1>4, SpecBranch DEF Inv, EntryAndStatusTogether, InTracker, Implemented
<1> QED
  BY <1>0, <1>1, <1>3, <1>5, <1>6, AfterCommit DEF Inv

LEMMA InvStart ==
    ASSUME Inv, NEW r \in Runners, NEW args \in Args,
           run' = [run EXCEPT ![r] = FreshRun(args)],
           r \in merged \/ r = Local,
           args.spec \in origin.files \union {NoSpec},
           UNCHANGED <<origin, commits, merged>>, TypeOK'
    PROVE  Inv'
<1>1. run'[r] = FreshRun(args) /\ \A q \in Runners \ {r} : run'[q] = run[q]
  BY DEF Inv, TypeOK
<1>2. \A q \in Runners : OnTop(q)'
  <2>1. OnTop(r)'
    BY <1>1, BranchAssumption DEF FreshRun, OnTop, Inv, TypeOK
  <2>2. \A q \in Runners \ {r} : OnTop(q)'
    BY <1>1 DEF Inv, OnTop, Changes
  <2> QED
    BY <2>1, <2>2
<1>3. \A b \in SpecBranches : OwnSpec(b)'
  <2>1. ASSUME NEW b \in SpecBranches, b = r PROVE OwnSpec(b)'
    <3>1. b \in merged
      BY <2>1, BranchAssumption, SpecBranch
    <3>2. SpecOf[b] \in origin.files
      BY <3>1 DEF Inv, MergedHaveSpecs
    <3> QED
      BY <1>1, <2>1, <3>2 DEF FreshRun, OwnSpec, Inv, Consistent
  <2>2. ASSUME NEW b \in SpecBranches, b # r PROVE OwnSpec(b)'
    BY <1>1, <2>2, SpecBranch DEF Inv, OwnSpec, Consistent
  <2> QED
    BY <2>1, <2>2
<1> QED
  BY <1>2, <1>3 DEF Inv, Consistent, MergedHaveSpecs, EntryAndStatusTogether, InTracker, Implemented

(* The run of a branch with a spec resolves to that, or not at all. *)
LEMMA ResolvesOwn ==
    ASSUME Inv, NEW b \in SpecBranches, run[b].pc = "resolve"
    PROVE  ResolvedSpecs(b) \subseteq {SpecOf[b]}
<1>1. run[b].args = CIArgs(b) /\ run[b].tree \in Trees
  BY SpecBranch DEF Inv, TypeOK, Runs
<1>2. SpecOf[b] \in run[b].tree.files /\ Consistent(run[b].tree)
  BY DEF Inv, OwnSpec
<1>3. InFlightSpecs(b) \subseteq {SpecOf[b]}
  BY <1>1, <1>2, SpecBranch DEF InFlightSpecs, CIArgs, Consistent
<1>4. SoleSpecs(b) \subseteq {SpecOf[b]}
  <2>1. IsFiniteSet(run[b].tree.files)
    BY <1>1, FS_Subset, BranchAssumption DEF Trees
  <2> QED
    BY <1>2, <2>1, FS_Singleton DEF SoleSpecs
<1> QED
  BY <1>1, <1>3, <1>4 DEF ResolvedSpecs, CIArgs

(* A run on top of origin resolves to a spec that is there. *)
LEMMA ResolvesWritten ==
    ASSUME Inv, NEW r \in Runners, run[r].pc = "resolve", run[r].base = commits
    PROVE  ResolvedSpecs(r) \subseteq origin.files
<1>1. run[r].tree = origin /\ run[r].args.spec \in origin.files \union {NoSpec}
  BY DEF Inv, OnTop
<1>2. origin.inFlight \subseteq Specs \X Branches
  BY DEF Inv, TypeOK, Trees
<1>3. InFlightSpecs(r) \subseteq origin.files
  BY <1>1, <1>2 DEF Inv, Consistent, InFlightSpecs
<1> QED
  BY <1>1, <1>3 DEF ResolvedSpecs, SoleSpecs

(* A step of a run that changes its own checkout only. *)
LEMMA InvInCheckout ==
    ASSUME Inv, NEW r \in Runners, NEW new \in Runs,
           run' = [run EXCEPT ![r] = new],
           UNCHANGED <<origin, commits, merged>>, TypeOK', OnTop(r)',
           new.pc # "resolve",
           r \in SpecBranches => new.spec \in {NoSpec, SpecOf[r]}
    PROVE  Inv'
<1>1. run'[r] = new /\ \A q \in Runners \ {r} : run'[q] = run[q]
  BY DEF Inv, TypeOK
<1>2. \A q \in Runners : OnTop(q)'
  BY <1>1 DEF Inv, OnTop, Changes
<1>3. \A b \in SpecBranches : OwnSpec(b)'
  BY <1>1, SpecBranch DEF Inv, OwnSpec, Consistent
<1> QED
  BY <1>2, <1>3 DEF Inv, Consistent, MergedHaveSpecs, EntryAndStatusTogether, InTracker, Implemented

LEMMA InvStep ==
    ASSUME Inv, NEW r \in Runners, Step(r) \/ Kill(r)
    PROVE  Inv'
<1>0. run[r] \in Runs /\ run \in [Runners -> Runs] /\ TypeOK' /\ OnTop(r)
  BY TypeStep DEF Inv, TypeOK
<1>1. CASE ResolveSpecPath(r)
  <2>1. CASE run' = End(r, "failed")
    BY <1>0, <1>1, <2>1, AfterEnd DEF ResolveSpecPath, Inv, TypeOK, Consistent,
       MergedHaveSpecs, EntryAndStatusTogether, InTracker, Implemented
  <2>2. ASSUME NEW s \in ResolvedSpecs(r), run' = [run EXCEPT ![r].pc = "remove", ![r].spec = s]
        PROVE  Inv'
    <3> DEFINE new == [run[r] EXCEPT !.pc = "remove", !.spec = s]
    <3>1. run[r].pc = "resolve" /\ UNCHANGED <<origin, commits, merged>>
      BY <1>1 DEF ResolveSpecPath
    <3>2. new \in Runs /\ run' = [run EXCEPT ![r] = new]
      BY <1>0, <2>2, ResolvedType DEF Inv, Runs, Steps
    <3>s. run[r].base = commits => s \in origin.files
      BY <2>2, <3>1, ResolvesWritten
    <3>3. OnTop(r)'
      BY <1>0, <2>2, <3>1, <3>s DEF OnTop, Changes, Runs
    <3>4. r \in SpecBranches => s = SpecOf[r]
      BY <2>2, <3>1, ResolvesOwn
    <3>5. new.pc # "resolve" /\ new.spec = s
      BY <1>0 DEF Runs
    <3> HIDE DEF new
    <3> QED
      BY <1>0, <3>1, <3>2, <3>3, <3>4, <3>5, InvInCheckout
  <2> QED
    BY <1>1, <2>1, <2>2 DEF ResolveSpecPath
<1>2. CASE RemoveFromInFlight(r)
  <2> DEFINE new == [run[r] EXCEPT !.pc = "status",
                       !.tree.inFlight = @ \ {<<run[r].spec, run[r].args.branch>>}]
  <2>1. run[r].pc = "remove" /\ UNCHANGED <<origin, commits, merged>> /\ run' = [run EXCEPT ![r] = new]
    BY <1>0, <1>2 DEF RemoveFromInFlight, Runs
  <2>2. /\ new.pc = "status" /\ new.spec = run[r].spec /\ new.base = run[r].base
        /\ new.tree.files = run[r].tree.files /\ new.tree.done = run[r].tree.done
        /\ new.tree.inFlight = run[r].tree.inFlight \ {<<run[r].spec, run[r].args.branch>>}
    BY <1>0 DEF Runs, Trees
  <2>3. new \in Runs
    BY <1>0 DEF Runs, Steps, Trees
  <2>4. run'[r] = new
    BY <1>0, <2>1
  <2>5. OnTop(r)'
    BY <1>0, <2>1, <2>2, <2>4 DEF OnTop, Changes
  <2>6. r \in SpecBranches => new.spec \in {NoSpec, SpecOf[r]}
    BY <2>2 DEF Inv, OwnSpec
  <2> HIDE DEF new
  <2> QED
    BY <1>0, <2>1, <2>2, <2>3, <2>5, <2>6, InvInCheckout
<1>3. CASE SetSpecStatusImplemented(r)
  <2> DEFINE new == [run[r] EXCEPT !.pc = "commit", !.tree.done = @ \union {run[r].spec}]
  <2>1. run[r].pc = "status" /\ UNCHANGED <<origin, commits, merged>> /\ run' = [run EXCEPT ![r] = new]
    BY <1>0, <1>3 DEF SetSpecStatusImplemented, Runs
  <2>2. /\ new.pc = "commit" /\ new.spec = run[r].spec /\ new.base = run[r].base
        /\ new.tree.files = run[r].tree.files /\ new.tree.inFlight = run[r].tree.inFlight
        /\ new.tree.done = run[r].tree.done \union {run[r].spec}
    BY <1>0 DEF Runs, Trees
  <2>3. run'[r] = new
    BY <1>0, <2>1
  <2>4. new \in Runs
    BY <1>0, <2>3 DEF TypeOK
  <2>5. OnTop(r)'
    BY <1>0, <2>1, <2>2, <2>3 DEF OnTop, Changes
  <2>6. r \in SpecBranches => new.spec \in {NoSpec, SpecOf[r]}
    BY <2>2 DEF Inv, OwnSpec
  <2> HIDE DEF new
  <2> QED
    BY <1>0, <2>1, <2>2, <2>4, <2>5, <2>6, InvInCheckout
<1>4. CASE CommitFinalize(r)
  <2> DEFINE new == [run[r] EXCEPT !.pc = "push", !.head = run[r].tree]
  <2>1. run[r].pc = "commit" /\ UNCHANGED <<origin, commits, merged>> /\ run' = [run EXCEPT ![r] = new]
    BY <1>0, <1>4 DEF CommitFinalize, Runs
  <2>2. new.pc = "push" /\ new.spec = run[r].spec /\ new.base = run[r].base /\ new.head = run[r].tree
    BY <1>0 DEF Runs
  <2>3. run'[r] = new /\ new \in Runs
    BY <1>0, <2>1 DEF TypeOK
  <2>4. OnTop(r)'
    BY <1>0, <2>1, <2>2, <2>3 DEF OnTop, Changes
  <2>5. r \in SpecBranches => new.spec \in {NoSpec, SpecOf[r]}
    BY <2>2 DEF Inv, OwnSpec
  <2> HIDE DEF new
  <2> QED
    BY <1>0, <2>1, <2>2, <2>3, <2>4, <2>5, InvInCheckout
<1>5. CASE NoPush(r) \/ PushRejected(r) \/ Kill(r)
  <2>1. run' = End(r, "done") \/ run' = End(r, "failed")
    BY <1>5 DEF NoPush, PushRejected, Kill
  <2>2. UNCHANGED <<origin, commits, merged>>
    BY <1>5 DEF NoPush, PushRejected, Kill
  <2> QED
    BY <1>0, <2>1, <2>2, AfterEnd DEF Inv, TypeOK, Consistent, MergedHaveSpecs,
       EntryAndStatusTogether, InTracker, Implemented
<1>6. CASE Push(r)
  <2>1. run' = End(r, "done") \/ run' = End(r, "failed")
    BY <1>6 DEF Push
  <2>2. /\ run[r].base = commits /\ run[r].pc = "push" /\ merged' = merged
        /\ origin' = run[r].head
        /\ commits' = IF run[r].head = origin THEN commits ELSE commits + 1
    BY <1>6 DEF Push
  <2>3. Changes(origin', run[r].spec, run[r].args.branch) /\ run[r].spec \in origin'.done
    BY <1>0, <2>2 DEF OnTop
  <2>4. Consistent(origin')
    BY <2>3 DEF Inv, Consistent, Changes
  <2>5. MergedHaveSpecs'
    BY <2>2, <2>3 DEF Inv, MergedHaveSpecs, Changes
  <2>6. EntryAndStatusTogether'
    BY <2>2, <2>3, SpecBranch DEF Inv, EntryAndStatusTogether, Changes, InTracker, Implemented
  <2>7. commits' \in Nat /\ commits <= commits' /\ (commits' = commits => origin' = origin)
    BY <2>2 DEF Inv, TypeOK
  <2> QED
    BY <1>0, <2>1, <2>4, <2>5, <2>6, <2>7, AfterEnd DEF Inv
<1> QED
  BY <1>1, <1>2, <1>3, <1>4, <1>5, <1>6 DEF Step

LEMMA InvNext == Inv /\ [Next]_vars => Inv'
<1> SUFFICES ASSUME Inv, [Next]_vars PROVE Inv'
  OBVIOUS
<1>0. TypeOK'
  BY TypeNext DEF Inv
<1>1. ASSUME NEW b \in Branches, Open(b) \/ Merge(b) PROVE Inv'
  BY <1>1, InvUsers
<1>2. ASSUME NEW b \in Branches, Checkout(b) PROVE Inv'
  BY <1>0, <1>2, InvStart DEF Checkout, CIArgs, Args, Runners
<1>3. ASSUME NEW args \in LocalArgs, RunLocally(args) PROVE Inv'
  BY <1>0, <1>3, InvStart, BranchAssumption DEF RunLocally, Runners
<1>4. CASE UNCHANGED vars
  BY <1>0, <1>4 DEF vars, Inv, Consistent, MergedHaveSpecs, EntryAndStatusTogether,
     InTracker, Implemented, OnTop, Changes, OwnSpec
<1> QED
  BY <1>1, <1>2, <1>3, <1>4, InvStep DEF Next

(* On the default branch no merged spec has lost its entry without being   *)
(* implemented, for any number of runs that race, fail or are repeated.    *)
THEOREM TogetherAlways == Spec => []EntryAndStatusTogether
<1>1. Inv => EntryAndStatusTogether
  BY DEF Inv
<1> QED
  BY <1>1, InvInit, InvNext, PTL DEF Spec

-----------------------------------------------------------------------------
(* The specs that runs choose.  A branch without a spec has no entry in    *)
(* any tree, so that its run can only choose the sole spec of its checkout. *)

BareBranches == Branches \ SpecBranches

SoleSpec(b) ==
    /\ run[b].pc = "resolve" => Consistent(run[b].tree) /\ run[b].spec = NoSpec
    /\ run[b].spec # NoSpec => run[b].tree.files = {run[b].spec}

BareInv == \A b \in BareBranches : SoleSpec(b)

LEMMA BareBranch ==
    ASSUME NEW b \in BareBranches
    PROVE  b \in Branches /\ b \in Runners /\ SpecOf[b] = NoSpec /\ b \notin SpecBranches
  BY DEF BareBranches, SpecBranches, Runners

LEMMA ResolvesSole ==
    ASSUME Inv, NEW b \in BareBranches, SoleSpec(b), run[b].pc = "resolve",
           NEW s \in ResolvedSpecs(b)
    PROVE  run[b].tree.files = {s}
<1>1. run[b].args = CIArgs(b) /\ run[b].tree \in Trees
  BY BareBranch DEF Inv, TypeOK, Runs
<1>2. InFlightSpecs(b) = {}
  BY <1>1, BareBranch, BranchAssumption DEF SoleSpec, InFlightSpecs, CIArgs, Consistent
<1>3. s \in SoleSpecs(b)
  BY <1>1, <1>2 DEF ResolvedSpecs, CIArgs
<1>4. IsFiniteSet(run[b].tree.files)
  BY <1>1, FS_Subset, BranchAssumption DEF Trees
<1> QED
  BY <1>3, <1>4, FS_Singleton DEF SoleSpecs

LEMMA BareStep ==
    ASSUME Inv, BareInv, NEW r \in Runners, Step(r) \/ Kill(r)
    PROVE  BareInv'
<1>0. run[r] \in Runs /\ run \in [Runners -> Runs]
  BY DEF Inv, TypeOK
<1>1. \A q \in Runners \ {r} : run'[q] = run[q]
  BY <1>0 DEF Step, Kill, ResolveSpecPath, RemoveFromInFlight, SetSpecStatusImplemented,
     CommitFinalize, NoPush, PushRejected, Push, End
<1>2. ASSUME r \in BareBranches PROVE SoleSpec(r)'
  <2>0. SoleSpec(r)
    BY <1>2 DEF BareInv
  <2>1. CASE \E pc \in Steps : run' = End(r, pc) /\ pc # "resolve"
    BY <1>0, <2>1 DEF End, NoRun, SoleSpec
  <2>2. CASE ResolveSpecPath(r) /\ ~(run' = End(r, "failed"))
    <3>1. PICK s \in ResolvedSpecs(r) : run' = [run EXCEPT ![r].pc = "remove", ![r].spec = s]
      BY <2>2 DEF ResolveSpecPath
    <3>2. run'[r].pc = "remove" /\ run'[r].spec = s /\ run'[r].tree = run[r].tree
      BY <1>0, <3>1 DEF Runs
    <3>3. run[r].tree.files = {s}
      BY <1>2, <2>0, <2>2, ResolvesSole DEF ResolveSpecPath
    <3> QED
      BY <3>2, <3>3 DEF SoleSpec
  <2>3. CASE RemoveFromInFlight(r) \/ SetSpecStatusImplemented(r) \/ CommitFinalize(r)
    <3>1. /\ run'[r].pc # "resolve" /\ run'[r].spec = run[r].spec
          /\ run'[r].tree.files = run[r].tree.files
      BY <1>0, <2>3 DEF RemoveFromInFlight, SetSpecStatusImplemented, CommitFinalize, Runs, Trees
    <3> QED
      BY <2>0, <3>1 DEF SoleSpec
  <2>4. CASE NoPush(r) \/ PushRejected(r) \/ Push(r) \/ Kill(r) \/ run' = End(r, "failed")
    <3>1. run' = End(r, "done") \/ run' = End(r, "failed")
      BY <2>4 DEF NoPush, PushRejected, Push, Kill
    <3> QED
      BY <2>1, <3>1 DEF Steps
  <2> QED
    BY <2>2, <2>3, <2>4 DEF Step
<1> QED
  BY <1>1, <1>2, BareBranch DEF BareInv, SoleSpec, Consistent

LEMMA BareNext == Inv /\ BareInv /\ [Next]_vars => BareInv'
<1> SUFFICES ASSUME Inv, BareInv, [Next]_vars PROVE BareInv'
  OBVIOUS
<1>1. ASSUME run' = run PROVE BareInv'
  BY <1>1 DEF BareInv, SoleSpec, Consistent
<1>2. ASSUME NEW r \in Runners, NEW args \in Args, run' = [run EXCEPT ![r] = FreshRun(args)]
      PROVE  BareInv'
  <2>1. run'[r] = FreshRun(args) /\ \A q \in Runners \ {r} : run'[q] = run[q]
    BY <1>2 DEF Inv, TypeOK
  <2> QED
    BY <2>1, BareBranch DEF BareInv, SoleSpec, FreshRun, Inv, Consistent
<1>3. ASSUME NEW b \in Branches, Open(b) \/ Merge(b) \/ Checkout(b) PROVE BareInv'
  <2>1. b \in Runners /\ CIArgs(b) \in Args
    BY DEF Runners, CIArgs, Args
  <2> QED
    BY <1>1, <1>2, <1>3, <2>1 DEF Open, Merge, Checkout
<1>4. ASSUME NEW args \in LocalArgs, RunLocally(args) PROVE BareInv'
  BY <1>2, <1>4, BranchAssumption DEF RunLocally, Runners
<1>5. CASE UNCHANGED vars
  BY <1>1, <1>5 DEF vars
<1> QED
  BY <1>3, <1>4, <1>5, BareStep DEF Next

(* However often it is repeated, the run of a branch that has a spec       *)
(* changes no other; the run of one that has none changes a spec, whoever's *)
(* it is, only when there is no other in its checkout.                     *)
THEOREM OwnSpecAlways == Spec => []RunsKeepToTheirSpec
<1>1. Init => BareInv
  BY BareBranch DEF Init, NoRun, BareInv, SoleSpec
<1>2. Inv /\ BareInv => RunsKeepToTheirSpec
  <2> SUFFICES ASSUME Inv, BareInv, NEW b \in Branches, run[b].spec # NoSpec
               PROVE  IF b \in SpecBranches THEN run[b].spec = SpecOf[b]
                                            ELSE run[b].tree.files = {run[b].spec}
    BY DEF RunsKeepToTheirSpec
  <2> QED
    BY DEF Inv, OwnSpec, BareInv, SoleSpec, BareBranches
<1> QED
  BY <1>1, <1>2, InvInit, InvNext, BareNext, PTL DEF Spec

-----------------------------------------------------------------------------
(* What a run that succeeded leaves behind.  How far a run has come with   *)
(* its checkout is known whether or not origin has moved on; git takes it  *)
(* only when origin has not.                                               *)

Progress(b) ==
    /\ run[b].pc # "idle" => b \in merged
    /\ run[b].pc \in {"remove", "status", "commit", "push"} => run[b].spec = SpecOf[b]
    /\ run[b].pc \in {"status", "commit"} => <<SpecOf[b], b>> \notin run[b].tree.inFlight
    /\ run[b].pc = "commit" => SpecOf[b] \in run[b].tree.done
    /\ run[b].pc = "push" => /\ <<SpecOf[b], b>> \notin run[b].head.inFlight
                             /\ SpecOf[b] \in run[b].head.done
    /\ run[b].pc = "done" => ~InTracker(b) /\ Implemented(b)

ProgressInv == \A b \in SpecBranches : Progress(b)

(* Whoever else opens, merges or pushes: an entry that is gone from origin *)
(* after its branch was merged is gone for good, and a status stays.       *)
LEMMA FinalisedStays ==
    ASSUME Inv, NEW b \in SpecBranches, b \in merged, ~InTracker(b), Implemented(b),
           [Next]_vars
    PROVE  ~InTracker(b)' /\ Implemented(b)'
<1>1. CASE origin' = origin
  BY <1>1 DEF InTracker, Implemented
<1>2. ASSUME NEW c \in Branches, Open(c) \/ Merge(c) PROVE ~InTracker(b)' /\ Implemented(b)'
  <2>1. c # b /\ origin' = WithEntry(c) /\ origin \in Trees
    BY <1>2 DEF Open, Merge, Inv, TypeOK
  <2> QED
    BY <2>1 DEF WithEntry, Trees, InTracker, Implemented
<1>3. ASSUME NEW r \in Runners, Push(r) PROVE ~InTracker(b)' /\ Implemented(b)'
  <2>1. Changes(origin', run[r].spec, run[r].args.branch)
    BY <1>3 DEF Push, Inv, OnTop
  <2> QED
    BY <2>1 DEF Changes, InTracker, Implemented
<1> QED
  BY <1>1, <1>2, <1>3 DEF Next, Step, Kill, Checkout, RunLocally, ResolveSpecPath, RemoveFromInFlight,
     SetSpecStatusImplemented, CommitFinalize, NoPush, PushRejected, vars

LEMMA ProgressStays ==
    ASSUME Inv, NEW b \in SpecBranches, Progress(b), [Next]_vars, run'[b] = run[b]
    PROVE  Progress(b)'
<1>1. merged \subseteq merged'
  BY DEF Next, Open, Merge, Step, Kill, Checkout, RunLocally, ResolveSpecPath, RemoveFromInFlight,
     SetSpecStatusImplemented, CommitFinalize, NoPush, PushRejected, Push, vars
<1>2. run[b].pc = "done" => ~InTracker(b)' /\ Implemented(b)'
  BY FinalisedStays DEF Progress
<1> QED
  BY <1>1, <1>2 DEF Progress

LEMMA ProgressStep ==
    ASSUME Inv, NEW b \in SpecBranches, Progress(b), Step(b) \/ Kill(b)
    PROVE  Progress(b)'
<1>0. /\ run[b] \in Runs /\ run \in [Runners -> Runs] /\ b \in Runners
      /\ run[b].args = CIArgs(b) /\ run[b].args.branch = b /\ run[b].args.push
  BY SpecBranch DEF Inv, TypeOK, CIArgs
<1>1. b \in merged /\ merged' = merged
  <2>1. run[b].pc # "idle"
    BY DEF Step, Kill, ResolveSpecPath, RemoveFromInFlight, SetSpecStatusImplemented,
       CommitFinalize, NoPush, PushRejected, Push
  <2> QED
    BY <2>1 DEF Progress, Step, Kill, ResolveSpecPath, RemoveFromInFlight,
       SetSpecStatusImplemented, CommitFinalize, NoPush, PushRejected, Push
<1>2. CASE run' = End(b, "failed")
  <2>1. run'[b].pc = "failed"
    BY <1>0, <1>2 DEF End, NoRun
  <2> QED
    BY <1>1, <2>1 DEF Progress
<1>3. CASE ResolveSpecPath(b) /\ ~(run' = End(b, "failed"))
  <2>1. PICK s \in ResolvedSpecs(b) : run' = [run EXCEPT ![b].pc = "remove", ![b].spec = s]
    BY <1>3 DEF ResolveSpecPath
  <2>2. run'[b].pc = "remove" /\ run'[b].spec = s
    BY <1>0, <2>1 DEF Runs
  <2>3. s = SpecOf[b]
    BY <1>3, ResolvesOwn DEF ResolveSpecPath
  <2> QED
    BY <1>1, <2>2, <2>3 DEF Progress
<1>4. CASE RemoveFromInFlight(b)
  <2>1. /\ run[b].pc = "remove" /\ run'[b].pc = "status" /\ run'[b].spec = run[b].spec
        /\ run'[b].tree.inFlight = run[b].tree.inFlight \ {<<run[b].spec, b>>}
    BY <1>0, <1>4 DEF RemoveFromInFlight, Runs, Trees
  <2> QED
    BY <1>1, <2>1 DEF Progress
<1>5. CASE SetSpecStatusImplemented(b)
  <2>1. /\ run[b].pc = "status" /\ run'[b].pc = "commit" /\ run'[b].spec = run[b].spec
        /\ run'[b].tree.inFlight = run[b].tree.inFlight
        /\ run'[b].tree.done = run[b].tree.done \union {run[b].spec}
    BY <1>0, <1>5 DEF SetSpecStatusImplemented, Runs, Trees
  <2> QED
    BY <1>1, <2>1 DEF Progress
<1>6. CASE CommitFinalize(b)
  <2>1. /\ run[b].pc = "commit" /\ run'[b].pc = "push" /\ run'[b].spec = run[b].spec
        /\ run'[b].head = run[b].tree
    BY <1>0, <1>6 DEF CommitFinalize, Runs
  <2> QED
    BY <1>1, <2>1 DEF Progress
<1>7. CASE Push(b) /\ run' = End(b, "done")
  <2>1. run[b].pc = "push" /\ origin' = run[b].head /\ run'[b].pc = "done"
    BY <1>0, <1>7 DEF Push, End, NoRun
  <2> QED
    BY <1>1, <2>1 DEF Progress, InTracker, Implemented
<1> QED
  BY <1>0, <1>2, <1>3, <1>4, <1>5, <1>6, <1>7 DEF Step, NoPush, PushRejected, Push, Kill

LEMMA ProgressNext == Inv /\ ProgressInv /\ [Next]_vars => ProgressInv'
<1> SUFFICES ASSUME Inv, ProgressInv, [Next]_vars, NEW b \in SpecBranches PROVE Progress(b)'
  BY DEF ProgressInv
<1>0. Progress(b) /\ run \in [Runners -> Runs] /\ b \in Branches /\ b \in Runners /\ b # Local
  BY SpecBranch, BranchAssumption DEF ProgressInv, Inv, TypeOK
<1>1. CASE run'[b] = run[b]
  BY <1>0, <1>1, ProgressStays
<1>2. CASE Step(b) \/ Kill(b)
  BY <1>0, <1>2, ProgressStep
<1>3. CASE Checkout(b)
  <2>1. run'[b].pc = "resolve" /\ b \in merged'
    BY <1>0, <1>3 DEF Checkout, FreshRun
  <2> QED
    BY <2>1 DEF Progress
<1>4. ASSUME NEW r \in Runners \ {b}, Step(r) \/ Kill(r) PROVE run'[b] = run[b]
  BY <1>0, <1>4 DEF Step, Kill, ResolveSpecPath, RemoveFromInFlight, SetSpecStatusImplemented,
     CommitFinalize, NoPush, PushRejected, Push, End
<1>5. ASSUME NEW c \in Branches, Open(c) \/ Merge(c) \/ (Checkout(c) /\ c # b) PROVE run'[b] = run[b]
  BY <1>0, <1>5 DEF Open, Merge, Checkout
<1>6. ASSUME NEW args \in LocalArgs, RunLocally(args) PROVE run'[b] = run[b]
  BY <1>0, <1>6 DEF RunLocally
<1> QED
  BY <1>1, <1>2, <1>3, <1>4, <1>5, <1>6 DEF Next, vars

(* A run of a branch with a spec that ended well has finalised it on the   *)
(* default branch, and nothing that any branch, run or maintainer does     *)
(* later takes that back.                                                  *)
THEOREM SuccessPublishedAlways == Spec => []SuccessIsPublished
<1>1. Init => ProgressInv
  BY SpecBranch DEF Init, NoRun, ProgressInv, Progress
<1>2. ProgressInv => SuccessIsPublished
  BY DEF ProgressInv, Progress, SuccessIsPublished
<1> QED
  BY <1>1, <1>2, InvInit, InvNext, ProgressNext, PTL DEF Spec

-----------------------------------------------------------------------------
(* The refinement: what each commit on the default branch is.              *)

LEMMA LifecycleInit == Init => Lifecycle!Init
  BY DEF Init, Lifecycle!Init

(* A branch that is opened or merged. *)
LEMMA LifecycleUsers ==
    ASSUME Inv, NEW b \in Branches, Open(b) \/ Merge(b)
    PROVE  Lifecycle!Next \/ UNCHANGED Lifecycle!vars
<1>1. b \notin merged /\ origin \in Trees /\ origin' = WithEntry(b) /\ merged' \in {merged, merged \union {b}}
  BY DEF Inv, TypeOK, Open, Merge
<1>2. CASE SpecOf[b] = NoSpec
  <2>1. origin' = origin
    BY <1>1, <1>2 DEF WithEntry
  <2> QED
    BY <1>1, <1>2, <2>1 DEF Lifecycle!Next, Lifecycle!MergeWithoutSpec, Lifecycle!vars
<1>3. CASE SpecOf[b] # NoSpec
  <2>1. /\ origin'.inFlight = origin.inFlight \union {<<SpecOf[b], b>>}
        /\ origin'.files = origin.files \union {SpecOf[b]}
        /\ origin'.done = origin.done
    BY <1>1, <1>3 DEF WithEntry, Trees
  <2> QED
    BY <1>1, <1>3, <2>1 DEF Lifecycle!Next, Lifecycle!AddEntry
<1> QED
  BY <1>2, <1>3

(* A push that is accepted is on top of origin: it adds one finalisation. *)
LEMMA LifecyclePush ==
    ASSUME Inv, NEW r \in Runners, Push(r)
    PROVE  Lifecycle!Next
<1> DEFINE s == run[r].spec
           branch == run[r].args.branch
<1>1. /\ run[r].base = commits /\ run[r].pc = "push" /\ merged' = merged
      /\ origin' = run[r].head
  BY DEF Push
<1>2. /\ Changes(origin', s, branch) /\ s \in origin'.done
  BY <1>1 DEF Inv, OnTop
<1>3. /\ origin.inFlight \subseteq Specs \X Branches
      /\ branch \in Branches \union {Main}
  BY DEF Inv, TypeOK, Runs, Trees, Args
<1> HIDE DEF s, branch
<1>4. s \in origin.files /\ origin'.files = origin.files /\ origin'.done = origin.done \union {s}
  BY <1>2 DEF Changes
<1>5. origin'.inFlight \in {origin.inFlight} \union {origin.inFlight \ {<<s, b>>} : b \in Branches}
  <2>1. origin'.inFlight \subseteq origin.inFlight
    BY <1>2 DEF Changes
  <2>2. \A e \in origin.inFlight : e \in origin'.inFlight \/ e = <<s, branch>>
    <3> SUFFICES ASSUME NEW e \in origin.inFlight, e \notin origin'.inFlight PROVE e = <<s, branch>>
      OBVIOUS
    <3>1. PICK t \in Specs, b \in Branches : e = <<t, b>>
      BY <1>3
    <3> QED
      BY <1>2, <3>1 DEF Changes
  <2>3. CASE branch \in Branches /\ <<s, branch>> \notin origin'.inFlight
    <3>1. origin'.inFlight = origin.inFlight \ {<<s, branch>>}
      BY <2>1, <2>2, <2>3
    <3> QED
      BY <2>3, <3>1
  <2>4. CASE <<s, branch>> \in origin'.inFlight
    BY <2>1, <2>2, <2>4
  <2>5. CASE branch = Main
    <3>1. <<s, branch>> \notin origin.inFlight
      BY <1>3, <2>5, BranchAssumption
    <3> QED
      BY <2>1, <2>2, <3>1
  <2> QED
    BY <1>3, <2>3, <2>4, <2>5
<1> QED
  BY <1>1, <1>4, <1>5 DEF Lifecycle!Next, Lifecycle!Finalize

LEMMA LifecycleNext == Inv /\ [Next]_vars => [Lifecycle!Next]_(Lifecycle!vars)
<1> SUFFICES ASSUME Inv, [Next]_vars PROVE Lifecycle!Next \/ UNCHANGED Lifecycle!vars
  OBVIOUS
<1>1. ASSUME NEW b \in Branches, Open(b) \/ Merge(b) PROVE Lifecycle!Next \/ UNCHANGED Lifecycle!vars
  BY <1>1, LifecycleUsers
<1>2. ASSUME NEW r \in Runners, Push(r) PROVE Lifecycle!Next
  BY <1>2, LifecyclePush
<1>3. ASSUME UNCHANGED <<origin, merged>> PROVE UNCHANGED Lifecycle!vars
  BY <1>3 DEF Lifecycle!vars
<1>4. ASSUME NEW r \in Runners, Step(r) \/ Kill(r) PROVE Lifecycle!Next \/ UNCHANGED Lifecycle!vars
  BY <1>2, <1>3, <1>4 DEF Step, Kill, ResolveSpecPath, RemoveFromInFlight,
     SetSpecStatusImplemented, CommitFinalize, NoPush, PushRejected
<1>5. ASSUME NEW b \in Branches, Checkout(b) PROVE UNCHANGED Lifecycle!vars
  BY <1>3, <1>5 DEF Checkout
<1>6. ASSUME NEW args \in LocalArgs, RunLocally(args) PROVE UNCHANGED Lifecycle!vars
  BY <1>3, <1>6 DEF RunLocally
<1>7. CASE UNCHANGED vars
  BY <1>3, <1>7 DEF vars
<1> QED
  BY <1>1, <1>4, <1>5, <1>6, <1>7 DEF Next

(* For any number of branches, runs and failures, every commit on the      *)
(* default branch is that of a branch or one whole finalisation of one     *)
(* spec, and undoes nothing that was committed before.                     *)
THEOREM LifecycleKept == Spec => KeepsLifecycle
  BY LifecycleInit, LifecycleNext, InvInit, InvNext, PTL DEF Spec, KeepsLifecycle, Lifecycle!Spec
=============================================================================
