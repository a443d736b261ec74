---------------------------- MODULE MCLiveBroker ----------------------------
(* LiveBroker on small instances. *)
EXTENDS LiveBroker

CONSTANTS c1, c2, r1, reading, writing

MCRuntimes == [c \in {c1, c2} |-> r1]

\* Two executions of one worker, or of two workers with different permissions.
MCSetups == {[c \in {c1, c2} |-> reading],
             [c \in {c1, c2} |-> IF c = c1 THEN reading ELSE writing]}

=============================================================================
