----------------------------- MODULE MCCommandLog -----------------------------
(* Instances of CommandLog for TLC. *)
EXTENDS CommandLog, TLC

Symmetry == Permutations(Procs)

===============================================================================
