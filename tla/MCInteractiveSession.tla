------------------------ MODULE MCInteractiveSession ------------------------
(* InteractiveSession on small instances. *)
EXTENDS InteractiveSession, TLC

CONSTANTS w1, w2, n1, n2

MCTakeovers == {<<w2, "WRAPPER", w1>>, <<w2, "PROVIDER", w1>>}
MCNoTakeovers == {}

\* Two runs of the command, or two deliveries to one, and what may go wrong with them.
MCRivals == [runs |-> {w1, w2}, asked |-> {}, faults |-> 2]
MCDeliveries == [runs |-> {w1}, asked |-> {n1, n2}, faults |-> 1]

MCScenarios == {MCRivals, MCDeliveries}

=============================================================================
