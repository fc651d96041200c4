--------------------------- MODULE MCFinalizeSpec ---------------------------
EXTENDS FinalizeSpec

(* Two branches with a spec each, and one without. *)
SpecOfFirstTwo ==
    [b \in Branches |-> CASE b = "b1" -> "s1" [] b = "b2" -> "s2" [] OTHER -> NoSpec]

Arguments(spec, branch, push) == [spec |-> spec, branch |-> branch, push |-> push]

(* With no argument, with a spec, with a spec and another's branch. *)
SomeArguments ==
    {Arguments(NoSpec, Main, TRUE), Arguments("s1", Main, TRUE), Arguments("s2", "b1", FALSE)}

(* Of the numbers of commits only matters whether a checkout is behind.    *)
Behind(r) == run[r].base # commits /\ run[r].pc \notin {"idle", "done", "failed"}
UpToNumbers ==
    <<origin, merged, kills, localRuns,
      [r \in Runners |-> <<[run[r] EXCEPT !.base = 0], Behind(r)>>]>>
=============================================================================
