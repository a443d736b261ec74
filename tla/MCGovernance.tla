----------------------------- MODULE MCGovernance -----------------------------
(* Governance on small instances. *)
EXTENDS Governance, TLC

CONSTANTS owner, x, y, v

MCReads == [p \in Names |-> IF p = x THEN v ELSE IF p = y THEN "BUILT_IN" ELSE "NONE"]

\* Approvals of the two promotions, and records that take the place of one.
MCRequests ==
  {<<x, "HUMAN", "GRANT", "AHEAD">>, <<x, "HUMAN", "OTHER", "AHEAD">>,
   <<x, "ORCHESTRATOR", "GRANT", "NONE">>, <<y, "HUMAN", "GRANT", "AHEAD">>}
MCPlainRequests == {<<x, "HUMAN", "GRANT", "NONE">>, <<y, "HUMAN", "GRANT", "NONE">>}
MCBuiltIn == [p \in Names |-> IF p = owner THEN "NONE" ELSE "BUILT_IN"]

=============================================================================
