---------------------------- MODULE MCExactSearch ----------------------------
EXTENDS ExactSearch, TLC

(* A hint for a file, one for its folder, one that names nothing, one that *)
(* is skipped.                                                             *)
FileAndFolder == [h \in Hints |-> IF h \in {"file", "folder"} THEN {"f"} ELSE {}]
=============================================================================
