--------------------------- MODULE MCLiveSession ---------------------------
(* LiveSession on small instances. *)
EXTENDS LiveSession

Only(permission, action) == <<[permission |-> permission, action |-> action]>>

\* People forbid editing or nothing; the agent allows it.
MCHumanRules == {<<>>, Only("edit", "deny")}
MCAgentRules == {Only("edit", "allow")}

=============================================================================
