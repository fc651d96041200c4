------------------------- MODULE MCSkillProjections -------------------------
(* Finite instances of SkillProjections. *)
EXTENDS SkillProjections

(* SKILL.md and a second file, which the second version drops. *)
DropFile == << <<"a1", "b1">>, <<"a2", "none">> >>
=============================================================================
