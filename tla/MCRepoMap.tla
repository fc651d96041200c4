------------------------------ MODULE MCRepoMap ------------------------------
EXTENDS RepoMap, TLC

(* No action or property tells the contents apart. *)
SameContents == Permutations(Contents)

(* A file of a folder and one of the root. *)
Folders == [f \in Files |-> IF f = 1 THEN "src" ELSE RootDir]

(* A folder with the file and one without. *)
Whitelists == {{"src"}, {"docs"}}

(* files.jsonl has every file, the second shard only the first of them. *)
FilesAndDocs == [s \in Shards |-> IF s = 1 THEN Files ELSE {1}]

Having(contents) == {e \in Shards \X Files \X Contents : e[3] \in contents}

(* Two words, of which a file has one or both: the cache finds those with  *)
(* both, the shards either, but not where the text of the second shard     *)
(* has the words spelled otherwise.                                        *)
Asked == {[any |-> Having(Contents) \ {<<2, 1, c>>}, all |-> Having({c})] : c \in Contents}
=============================================================================
