----------------------------- MODULE MCDispatch -----------------------------
(* DeliveryDispatch on small instances. *)
EXTENDS DeliveryDispatch, TLC

MCEverySigner == Dispatchers \X Agents
MCEveryConnector == Dispatchers \X Runtimes
DispatcherSymmetry == Permutations(Dispatchers)

=============================================================================
