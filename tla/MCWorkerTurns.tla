--------------------------- MODULE MCWorkerTurns ---------------------------
(* WorkerTurns on small instances. *)
EXTENDS WorkerTurns, TLC

CONSTANTS w1, w2, i1, i2

\* One worker, restarted, with all that may go wrong; or two at a time.
MCLone == [runs |-> {w1}, asked |-> {i1, i2}, faults |-> 1, decisions |-> 1]
MCPair == [runs |-> {w1, w2}, asked |-> {i1, i2}, faults |-> 0, decisions |-> 1]

MCScenarios == {MCLone, MCPair}

=============================================================================
