----------------------------- MODULE MCHumanCase -----------------------------
(* Small instances of HumanCase for TLC. *)
EXTENDS HumanCase, TLC

Symmetry == Permutations(Agents \ Admins) \cup Permutations(Evidence)
=============================================================================
