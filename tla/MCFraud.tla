------------------------------- MODULE MCFraud -------------------------------
(***************************************************************************)
(* The fraud service for TLC: the worker, and the velocity rule that it    *)
(* evaluates. The worker's model leaves the rule's verdict open, so that   *)
(* the two share no state, and each is explored while the other rests.     *)
(***************************************************************************)
EXTENDS FraudWorker, FraudVelocity, TLC

CONSTANTS pod1, pod2, e1

VARIABLE part   \* the one that is explored

large(e) == [id |-> e, form |-> "valid", large |-> TRUE]
malformed == [id |-> "malformed", form |-> "malformed", large |-> FALSE]

(* A large transfer, sent twice by the relay, and a malformed message. *)
Resent == [lane1 |-> <<large(e1), malformed, large(e1)>>]

FraudInit == Init /\ VelocityInit /\ part \in {"worker", "rule"}

FraudNext ==
  \/ part = "worker" /\ Next /\ UNCHANGED <<velocityVars, part>>
  \/ part = "rule" /\ VelocityNext /\ UNCHANGED <<vars, part>>

FraudSpec == FraudInit /\ [][FraudNext]_<<vars, velocityVars, part>>

Symmetric == Permutations(Consumers)
==============================================================================
