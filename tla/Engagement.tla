----------------------------- MODULE Engagement -----------------------------
(***************************************************************************)
(* What an invocation promises the one who asked for it, whatever the      *)
(* route a notification takes: it is issued once, at most one runtime ever *)
(* takes it, and once closed it neither opens again nor changes hands.     *)
(* InvocationLifecycle implements this.                                    *)
(***************************************************************************)
CONSTANTS Invocations, Runtimes, None

VARIABLES phase, holder

vars == <<phase, holder>>

Init ==
  /\ phase = [i \in Invocations |-> "NONE"]
  /\ holder = [i \in Invocations |-> None]

Issue(i) ==
  /\ phase[i] = "NONE"
  /\ phase' = [phase EXCEPT ![i] = "OPEN"]
  /\ UNCHANGED holder

Take(i, r) ==
  /\ phase[i] = "OPEN" /\ holder[i] = None
  /\ phase' = [phase EXCEPT ![i] = "HELD"]
  /\ holder' = [holder EXCEPT ![i] = r]

Close(i) ==
  /\ phase[i] \in {"OPEN", "HELD"}
  /\ phase' = [phase EXCEPT ![i] = "CLOSED"]
  /\ UNCHANGED holder

Next == \E i \in Invocations :
  Issue(i) \/ Close(i) \/ \E r \in Runtimes : Take(i, r)

Spec == Init /\ [][Next]_vars

=============================================================================
