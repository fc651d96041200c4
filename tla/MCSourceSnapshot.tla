-------------------------- MODULE MCSourceSnapshot --------------------------
(* Finite instances of SourceSnapshot. *)
EXTENDS SourceSnapshot, SequencesExt

(* Up to one included path, two mappings and one excluded path: chains and *)
(* swaps, shared sources, repeated targets, private ends.                  *)
SmallManifests ==
    [include : SeqOf(Paths, 1), mappings : SeqOf(Entry, 2),
     exclude : {{}} \union {{p} : p \in Paths}]

(* Three mappings around a circle. *)
Circle ==
    [include |-> <<>>,
     mappings |-> <<[source |-> "a", target |-> "b"], [source |-> "b", target |-> "c"],
                    [source |-> "c", target |-> "a"]>>,
     exclude |-> {}]

NonEmptyManifests ==
    {m \in SmallManifests : m.include # <<>> \/ m.mappings # <<>>} \union {Circle}
=============================================================================
