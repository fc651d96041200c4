-------------------------- MODULE MCValidateEvidence --------------------------
EXTENDS ValidateEvidence

CONSTANTS a, b, c, x, y

(* The first commit has one of the task's files and the nested one. *)
OneFile == [f \in Files |-> IF f = b THEN Absent ELSE x]

(* The file that is there alone, or also the one that may be created. *)
OneOrBoth == {{a}, {a, b}}
=============================================================================
