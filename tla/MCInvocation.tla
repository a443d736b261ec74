---------------------------- MODULE MCInvocation ----------------------------
(* InvocationLifecycle on small instances. *)
EXTENDS InvocationLifecycle, TLC

\* Identifiers of one kind are interchangeable where no other constant names
\* one of them.
DeliverySymmetry == Permutations(Deliveries) \cup Permutations(Runtimes)
InvocationSymmetry == Permutations(Invocations)
AgentSymmetry == Permutations(Agents)

=============================================================================
