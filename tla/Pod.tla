-------------------------------- MODULE Pod ---------------------------------
(***************************************************************************)
(* What the shutdowns of the gateway, the wallet and the notification      *)
(* service have in common: SIGTERM, stages that main() goes through, and a *)
(* timer that ends the process before Kubernetes' grace period does.       *)
(* Time is in seconds.                                                     *)
(***************************************************************************)
EXTENDS Integers

CONSTANTS
  Delay,       \* SHUTDOWN_DELAY
  Timeout,     \* SHUTDOWN_TIMEOUT
  Grace,       \* terminationGracePeriodSeconds
  MaxOutages   \* bound: how often the database, or Kafka, becomes unreachable

ASSUME PodAssumption ==
  /\ {Delay, Timeout, Grace, MaxOutages} \subseteq Nat
  /\ Delay + Timeout < Grace

VARIABLES
  kind,      \* which program the pod runs
  phase,     \* where its shutdown is
  since,     \* seconds since SIGTERM
  outages

pod == <<kind, phase, since, outages>>

GoPod == kind \in {"gateway", "wallet"}
NodePod == kind = "notification"

Alive == phase \notin {"exited", "forced"}
Stopping == phase # "serving"

PodInit ==
  /\ kind \in {"gateway", "wallet", "notification"}
  /\ phase = "serving" /\ since = 0 /\ outages = 0

(* A mutant: the timer is armed after the sleep. *)
TimerAfterSleep == Delay + Delay + Timeout

(* When the timer that SIGTERM has armed goes off. *)
Timer == Delay + Timeout

(* The pod is gone before Kubernetes would kill it, though requests hang or WebSocket
   clients have fallen silent.                                                        *)
NeverKilled == Alive => since < Grace

==============================================================================
