---------------------------- MODULE MCQueryPlan ----------------------------
EXTENDS QueryPlan

Record(shard, language, text, phrase, symbol) ==
    [shard |-> shard, language |-> language, text |-> text, phrase |-> phrase, symbol |-> symbol]
Profile(test, hint, records) == [test |-> test, hint |-> hint, records |-> records]

(* A file without a record, a document with a phrase, a source file with   *)
(* two chunks that match, one with a symbol, and a test of it that is hit  *)
(* by a path hint.                                                         *)
SomeProfiles ==
    {Profile(FALSE, 0, <<>>),
     Profile(FALSE, 0, <<Record("docs", "", 1, 2, 0)>>),
     Profile(FALSE, 0, <<Record("chunks", "go", 1, 0, 0), Record("chunks", "go", 1, 0, 0)>>),
     Profile(FALSE, 0, <<Record("chunks", "py", 2, 0, 0), Record("symbols", "py", 0, 0, 5)>>),
     Profile(TRUE, 4, <<Record("chunks", "go", 1, 2, 0)>>)}

(* No link; a test of the first file; and one of a file it imports. *)
SomeLinks ==
    {[imports |-> {}, tests |-> {}], [imports |-> {}, tests |-> {<<2, 1>>}],
     [imports |-> {<<1, 2>>}, tests |-> {<<3, 2>>}]}

Plan(shards, languages, noTests, depth) ==
    [shards |-> shards, languages |-> languages, noTests |-> noTests, depth |-> depth]
SomePlans ==
    {Plan({}, {}, FALSE, 1), Plan({"chunks"}, {}, FALSE, 2),
     Plan({}, {"go"}, FALSE, 1), Plan({}, {}, TRUE, 2)}
=============================================================================
