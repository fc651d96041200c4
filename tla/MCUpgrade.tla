------------------------------ MODULE MCUpgrade ------------------------------
EXTENDS Upgrade, TLC

(* No action or property tells the upgrades apart. *)
SameCommands == Permutations(Commands)
=============================================================================
