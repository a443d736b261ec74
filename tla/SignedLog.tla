------------------------------ MODULE SignedLog ------------------------------
(***************************************************************************)
(* What Agent Comms promises about its history, whoever submits and         *)
(* whatever fails: commands take their places in one order, a command at    *)
(* most once; a host's copy is built from the first event on, one event at  *)
(* a time; an answer names the place its command has taken and is given     *)
(* once.                                                                    *)
(***************************************************************************)
EXTENDS Naturals, Sequences

CONSTANT Keys    \* commands, each under its idempotency key

VARIABLES
    log,         \* the events, in order
    copy,        \* the host's copy of them
    answer       \* the place a command was told, 0 while it has no answer

Init ==
    /\ log = <<>>
    /\ copy = <<>>
    /\ answer = [k \in Keys |-> 0]

Commit ==
    \E k \in Keys :
        /\ \A i \in 1..Len(log) : log[i] # k
        /\ log' = Append(log, k)
        /\ UNCHANGED <<copy, answer>>

Learn ==
    /\ Len(copy) < Len(log)
    /\ copy' = Append(copy, log[Len(copy) + 1])
    /\ UNCHANGED <<log, answer>>

Answer ==
    \E i \in 1..Len(log) :
        /\ answer[log[i]] = 0
        /\ answer' = [answer EXCEPT ![log[i]] = i]
        /\ UNCHANGED <<log, copy>>

Next == Commit \/ Learn \/ Answer

Spec == Init /\ [][Next]_<<log, copy, answer>>

=============================================================================
