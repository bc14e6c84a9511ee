----------------------------- MODULE PodShutdown -----------------------------
(***************************************************************************)
(* A gateway or wallet pod as Kubernetes sees it: /readyz decides whether  *)
(* the Service routes requests to it; SIGTERM starts a shutdown in stages, *)
(* against three clocks: the delay that routing needs, the timer that      *)
(* force-exits, and the grace period that ends in SIGKILL.                 *)
(*                                                                         *)
(* Time is in seconds and urgent: it does not pass a moment at which       *)
(* something is due. A request that hangs stands for one without an end    *)
(* that the pod could wait for.                                            *)
(***************************************************************************)
EXTENDS Pod

CONSTANTS
  Requests,    \* what clients may send at the same time
  Drain,       \* the gateway's limit on server.Shutdown
  Lag,         \* how long Kubernetes takes to act on /readyz
  CallTime,    \* the longest request (WALLET_CALL_TIMEOUT and the like)
  BatchTime    \* the longest publishBatch: 15s of WriteMessages and the SQL around it

ASSUME ShutdownAssumption ==
  /\ {Drain, Lag, CallTime, BatchTime} \subseteq Nat
  /\ Lag < Delay
  /\ 0 < CallTime /\ CallTime < Drain
  /\ 0 < BatchTime /\ CallTime + BatchTime < Timeout

VARIABLES
  draining,  \* Ops.draining
  dbUp,      \* pool.Ping succeeds
  routed,    \* the pod is among the Service's endpoints
  stale,     \* for how long routed has differed from /readyz
  left,      \* request -> seconds it will still take (0: none in flight; Hung: no end)
  batch,     \* seconds the relay's batch will still take (0: between batches)
  relay,     \* running, stopping (cancelled) or stopped
  lost       \* history: what has been refused or cut short

goVars == <<draining, dbUp, routed, stale, left, batch, relay, lost>>
goPod == <<pod, goVars>>

Hung == CallTime + 1

InFlight == {r \in Requests : left[r] # 0}
SomeHung == \E r \in Requests : left[r] = Hung

GoInit ==
  /\ draining = FALSE
  /\ dbUp = TRUE /\ routed = TRUE /\ stale = 0
  /\ left = [r \in Requests |-> 0]
  /\ batch = 0
  /\ relay = IF kind = "wallet" THEN "running" ELSE "stopped"
  /\ lost = {}

-----------------------------------------------------------------------------
(* Ops and Kubernetes. *)

(* readyz *)
Readyz == ~draining /\ dbUp

(* Kubernetes acts on what a probe of /readyz has shown. *)
Route ==
  /\ GoPod
  /\ routed # (Readyz /\ Alive)
  /\ routed' = (Readyz /\ Alive)
  /\ stale' = 0
  /\ UNCHANGED <<kind, phase, since, draining, dbUp, outages, left, batch, relay, lost>>

DbFails ==
  /\ GoPod
  /\ dbUp /\ outages < MaxOutages
  /\ dbUp' = FALSE /\ outages' = outages + 1
  /\ UNCHANGED <<kind, phase, since, draining, routed, stale, left, batch, relay, lost>>

DbReturns ==
  /\ GoPod
  /\ ~dbUp
  /\ dbUp' = TRUE
  /\ UNCHANGED <<kind, phase, since, draining, outages, routed, stale, left, batch, relay, lost>>

(* A request reaches the pod while it is routed to: the listener is open until main()
   stops the server. One that hangs is one more than CallTime allows.                *)
Arrive(r) ==
  /\ GoPod
  /\ routed /\ left[r] = 0
  /\ IF phase \in {"serving", "delay"}
       THEN (\E t \in 1..Hung : left' = [left EXCEPT ![r] = t]) /\ lost' = lost
       ELSE lost' = lost \cup {"refused"} /\ left' = left
  /\ UNCHANGED <<kind, phase, since, draining, dbUp, outages, routed, stale, batch, relay>>

(* The relay's loop starts a batch; cancelled, it returns once no batch is in progress. *)
RelayStep ==
  /\ GoPod
  /\ Alive
  /\ batch = 0
  /\ \/ relay = "running" /\ (\E t \in 1..BatchTime : batch' = t) /\ relay' = relay
     \/ relay = "stopping" /\ relay' = "stopped" /\ batch' = batch
  /\ UNCHANGED <<kind, phase, since, draining, dbUp, outages, routed, stale, left, lost>>

-----------------------------------------------------------------------------
(* Shutdown, one stage of main() after the other. *)

(* A mutant: no time for Kubernetes to notice. *)
BeginShutdownNow ==
  /\ GoPod
  /\ phase = "serving"
  /\ phase' = "delay" /\ since' = Delay
  /\ draining' = TRUE
  /\ UNCHANGED <<kind, dbUp, outages, routed, stale, left, batch, relay, lost>>

(* SIGTERM: BeginShutdown marks the pod not ready, arms the timer and sleeps. *)
BeginShutdown ==
  /\ GoPod
  /\ phase = "serving"
  /\ phase' = "delay"
  /\ draining' = TRUE
  /\ UNCHANGED <<kind, since, dbUp, outages, routed, stale, left, batch, relay, lost>>

(* server.Shutdown or GracefulStop: the listener closes, requests in flight go on. *)
StopServer ==
  /\ GoPod
  /\ phase = "delay" /\ since >= Delay
  /\ phase' = "drain"
  /\ UNCHANGED <<kind, since, draining, dbUp, outages, routed, stale, left, batch, relay, lost>>

(* A mutant: the pool and the connections are closed without waiting. *)
DrainedAtOnce == TRUE

(* When it returns: all requests are finished or, in the gateway, Drain has passed. *)
Drained ==
  \/ InFlight = {}
  \/ kind = "gateway" /\ since >= Delay + Drain

(* relay.Stop cancels the loop (the gateway has none). *)
StopRelay ==
  /\ GoPod
  /\ phase = "drain" /\ Drained
  /\ phase' = "relay"
  /\ relay' = IF kind = "wallet" THEN "stopping" ELSE relay
  /\ UNCHANGED <<kind, since, draining, dbUp, outages, routed, stale, left, batch, lost>>

(* What an exit, or closing what it needs, does to unfinished work. *)
Cut == (IF \E r \in InFlight : left[r] # Hung THEN {"request"} ELSE {})
       \cup (IF batch > 0 THEN {"batch"} ELSE {})

(* The relay is done: writer, pool, wallet connection and Redis are closed. *)
CloseConnections ==
  /\ GoPod
  /\ phase = "relay" /\ relay = "stopped"
  /\ phase' = "closing"
  /\ lost' = lost \cup Cut
  /\ left' = [r \in Requests |-> 0] /\ batch' = 0
  /\ UNCHANGED <<kind, since, draining, dbUp, outages, routed, stale, relay>>

(* pool.Close and ops.Shutdown return, after any time, and so does main(). *)
GoExit ==
  /\ GoPod
  /\ phase = "closing"
  /\ phase' = "exited"
  /\ UNCHANGED <<kind, since, draining, dbUp, outages, routed, stale, left, batch, relay, lost>>

GoForceExit ==
  /\ GoPod
  /\ Alive /\ phase # "serving" /\ since >= Timer
  /\ phase' = "forced"
  /\ lost' = IF SomeHung THEN lost ELSE lost \cup Cut
  /\ left' = [r \in Requests |-> 0] /\ batch' = 0
  /\ UNCHANGED <<kind, since, draining, dbUp, outages, routed, stale, relay>>

(* Something is due before time goes on. "closing" may take any time. *)
GoDue ==
  \/ phase = "delay" /\ since >= Delay
  \/ phase = "drain" /\ Drained
  \/ phase = "relay" /\ batch = 0
  \/ phase # "serving" /\ since >= Timer
  \/ stale >= Lag /\ routed # (Readyz /\ Alive)

GoTick ==
  /\ GoPod
  /\ ~GoDue
  /\ Alive
  /\ since' = IF phase = "serving" THEN 0 ELSE since + 1
  /\ stale' = IF routed # (Readyz /\ Alive) THEN stale + 1 ELSE 0
  /\ left' = [r \in Requests |-> IF left[r] \in {0, Hung} THEN left[r] ELSE left[r] - 1]
  /\ batch' = IF batch = 0 THEN 0 ELSE batch - 1
  /\ UNCHANGED <<kind, phase, draining, dbUp, outages, routed, relay, lost>>

GoNext ==
  \/ Route \/ DbFails \/ DbReturns \/ RelayStep
  \/ \E r \in Requests : Arrive(r)
  \/ BeginShutdown \/ StopServer \/ StopRelay \/ CloseConnections \/ GoExit
  \/ GoForceExit \/ GoTick

-----------------------------------------------------------------------------
(* No request is sent to a pod that has stopped listening. *)
NothingRefused == "refused" \notin lost

(* Shutdown waits for the work in progress: no request that ends in time and no batch of
   the relay (between its Kafka write and its COMMIT) is cut short, unless a request that
   never ends keeps the pod until it is forced out.                                     *)
NothingCut == lost \cap {"request", "batch"} = {}

==============================================================================
