---------------------------- MODULE MCTaskLeases ----------------------------
(* TaskLeases on small instances. *)
EXTENDS TaskLeases, TLC

CONSTANTS t1, t2, lead, a

MCOverlapping == {{t1, t2}}
MCNoOverlap == {}
MCEveryone == Principals \X Tasks

\* Lead and agent are entitled to t1, only the agent to t2.
MCScoped == {<<lead, t1>>, <<a, t1>>, <<a, t2>>}

\* Handoffs and blockers concern the first task: the second one is there to overlap it.
SecondIsPlain ==
  /\ task[t2].risk = "ROUTINE" /\ task[t2].handoffTo = None
  /\ \A b \in Blockers : blocker[b].task \in {None, t1} /\ blocker[b].answer[a] = "NONE"

MCTakeovers == {Takeover(t1), SharedWrite(t2, t1)}
MCTakeoverOfFirst == {Takeover(t1)}

=============================================================================
