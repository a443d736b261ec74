-------------------------- MODULE MCProjectUpgrade --------------------------
(* ProjectUpgrade on small instances. *)
EXTENDS ProjectUpgrade, TLC

\* The second build brings a new schema of the authority, the third one of the cache.
MCAuthority == [b \in Builds |-> IF b = 1 THEN 1 ELSE 2]
MCCache == [b \in Builds |-> IF b <= 2 THEN 1 ELSE 2]

CommandSymmetry == Permutations(Commands)

=============================================================================
