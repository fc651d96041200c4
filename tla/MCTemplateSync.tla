--------------------------- MODULE MCTemplateSync ---------------------------
(* Finite instances of TemplateSync. *)
EXTENDS TemplateSync

(* Two paths over two releases: the first file changes, the second is      *)
(* dropped.                                                                *)
ChangeAndRemove == << <<"a1", "b1">>, <<"a2", "none">> >>

(* The user's own text. *)
OwnText == {"mine"}
=============================================================================
