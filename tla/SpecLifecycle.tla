--------------------------- MODULE SpecLifecycle ---------------------------
(***************************************************************************)
(* What finalisation promises about the default branch, whoever runs it    *)
(* and however often: specs and their entries come with the branches; a    *)
(* spec is finalised in one commit that marks it implemented, removes at   *)
(* most its own entry for one branch, and leaves all that others have      *)
(* committed meanwhile as it is.                                           *)
(***************************************************************************)
CONSTANTS Specs, Branches, SpecOf, NoSpec

VARIABLES
    tracker,        \* the entries: pairs of a spec and a branch
    written,        \* the spec files
    implemented,    \* the specs with this status
    merged          \* the branches that are merged

vars == <<tracker, written, implemented, merged>>

Init ==
    /\ tracker = {} /\ implemented = {} /\ merged = {}
    /\ written \in SUBSET Specs

(* A branch that is not merged yet brings its spec and its entry. *)
AddEntry ==
    /\ \E b \in Branches :
         /\ b \notin merged /\ SpecOf[b] # NoSpec
         /\ tracker' = tracker \union {<<SpecOf[b], b>>}
         /\ written' = written \union {SpecOf[b]}
         /\ merged' \in {merged, merged \union {b}}
    /\ UNCHANGED implemented

MergeWithoutSpec ==
    /\ \E b \in Branches : SpecOf[b] = NoSpec /\ merged' = merged \union {b}
    /\ UNCHANGED <<tracker, written, implemented>>

Finalize ==
    /\ \E s \in written :
         /\ implemented' = implemented \union {s}
         /\ tracker' \in {tracker} \union {tracker \ {<<s, b>>} : b \in Branches}
    /\ UNCHANGED <<written, merged>>

Next == AddEntry \/ MergeWithoutSpec \/ Finalize

Spec == Init /\ [][Next]_vars
=============================================================================
