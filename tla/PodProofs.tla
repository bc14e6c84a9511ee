------------------------------ MODULE PodProofs ------------------------------
(***************************************************************************)
(* Theorems about the shutdown of a pod, for any delays and timeouts that  *)
(* satisfy the assumptions: it ends before Kubernetes kills it, refuses    *)
(* and cuts short nothing that ends in time, leaves nothing running, and   *)
(* is forced out only where clients or Kafka do not answer.                *)
(***************************************************************************)
EXTENDS MCPods, TLAPS

allVars == <<pod, goVars, nodeVars>>

Phases == {"serving", "delay", "drain", "relay", "closing", "await", "leaving",
           "disconnected", "exited", "forced"}

PodTypes ==
  /\ kind \in {"gateway", "wallet", "notification"}
  /\ phase \in Phases
  /\ since \in Nat

GoTypes ==
  /\ draining \in BOOLEAN /\ dbUp \in BOOLEAN /\ routed \in BOOLEAN
  /\ stale \in Nat
  /\ left \in [Requests -> 0..Hung]
  /\ batch \in 0..BatchTime
  /\ relay \in {"running", "stopping", "stopped"}

NodeTypes ==
  /\ starter \in {"connecting", "sleeping", "returned"}
  /\ wait \in Nat
  /\ backoff \in Nat /\ backoff <= MaxBackoff
  /\ socket \in [Clients -> {"none", "open", "closing"}]
  /\ silent \subseteq Clients

(* The timer bounds the time since SIGTERM. *)
Timed ==
  /\ phase = "serving" => since = 0
  /\ since <= Timer

PodInv == PodTypes /\ GoTypes /\ NodeTypes /\ Timed

(* The constants as numbers. *)
LEMMA Constants ==
  /\ Delay \in Nat /\ Timeout \in Nat /\ Grace \in Nat /\ Drain \in Nat /\ Lag \in Nat
  /\ CallTime \in Nat /\ BatchTime \in Nat
  /\ CloseTimeout \in Nat /\ ConnectTime \in Nat /\ LeaveTime \in Nat /\ MaxBackoff \in Nat
  /\ Timer \in Nat /\ Hung \in Nat /\ Hung = CallTime + 1 /\ Timer = Delay + Timeout
  /\ Timer < Grace /\ Lag < Delay
  /\ 0 < CallTime /\ CallTime < Drain /\ 0 < BatchTime /\ CallTime + BatchTime < Timeout
  /\ 0 < MaxBackoff /\ LeaveTime < Timeout
  /\ ConnectTime + LeaveTime < Timer /\ MaxBackoff + LeaveTime < Timer
  BY PodAssumption, ShutdownAssumption, NodeAssumption DEF Timer, Hung

LEMMA InitPod == Init => PodInv
<1> SUFFICES ASSUME Init PROVE PodInv
  OBVIOUS
<1> USE Constants
<1>1. PodTypes /\ Timed
  BY DEF Init, PodInit, PodTypes, Phases, Timed
<1>2. left \in [Requests -> 0..Hung] /\ batch \in 0..BatchTime
  BY DEF Init, GoInit
<1>3. GoTypes
  BY <1>2 DEF Init, GoInit, GoTypes
<1>4. NodeTypes
  BY DEF Init, NodeInit, NodeTypes
<1> QED
  BY <1>1, <1>3, <1>4 DEF PodInv

(* Steps of the Go services. *)
LEMMA GoStepPod ==
  ASSUME PodInv, GoNext, UNCHANGED nodeVars
  PROVE  PodInv'
<1> USE Constants
<1>n. NodeTypes'
  BY DEF PodInv, NodeTypes, nodeVars, startVars, clientVars
<1>1. ASSUME Route \/ DbFails \/ DbReturns PROVE PodInv'
  <2>1. routed' \in BOOLEAN /\ dbUp' \in BOOLEAN
    BY <1>1, Zenon DEF Route, DbFails, DbReturns, PodInv, GoTypes, Readyz, Alive
  <2>2. stale' \in Nat
    BY <1>1 DEF Route, DbFails, DbReturns, PodInv, GoTypes
  <2> QED
    BY <1>1, <1>n, <2>1, <2>2 DEF Route, DbFails, DbReturns, PodInv, PodTypes, GoTypes, Timed
<1>2. ASSUME RelayStep PROVE PodInv'
  BY <1>2, <1>n DEF RelayStep, PodInv, PodTypes, GoTypes, Timed
<1>3. ASSUME NEW r \in Requests, Arrive(r) PROVE PodInv'
  BY <1>3, <1>n DEF Arrive, PodInv, PodTypes, GoTypes, Timed
<1>4. ASSUME BeginShutdown \/ StopServer \/ StopRelay \/ GoExit PROVE PodInv'
  BY <1>4, <1>n
  DEF BeginShutdown, StopServer, StopRelay, GoExit, PodInv, PodTypes, GoTypes, Timed, Phases
<1>5. ASSUME CloseConnections \/ GoForceExit PROVE PodInv'
  BY <1>5, <1>n DEF CloseConnections, GoForceExit, PodInv, PodTypes, GoTypes, Timed, Phases
<1>6. ASSUME GoTick PROVE PodInv'
  <2>1. left' \in [Requests -> 0..Hung] /\ batch' \in 0..BatchTime
    BY <1>6 DEF GoTick, PodInv, GoTypes
  <2>2. since' \in Nat /\ stale' \in Nat
    BY <1>6 DEF GoTick, PodInv, PodTypes, GoTypes
  <2>3. Timed'
    BY <1>6 DEF GoTick, GoDue, PodInv, PodTypes, Timed
  <2> QED
    BY <1>6, <1>n, <2>1, <2>2, <2>3 DEF GoTick, PodInv, PodTypes, GoTypes
<1> QED
  BY <1>1, <1>2, <1>3, <1>4, <1>5, <1>6 DEF GoNext

(* Steps of the notification service. *)
LEMMA NodeStepPod ==
  ASSUME PodInv, NodeNext, UNCHANGED goVars
  PROVE  PodInv'
<1> USE Constants
<1>g. GoTypes'
  BY DEF PodInv, GoTypes, goVars
<1>1. ASSUME Starter PROVE PodInv'
  <2>1. wait' \in Nat /\ backoff' \in Nat /\ backoff' <= MaxBackoff
    BY <1>1 DEF Starter, Connected, ConnectFails, ConnectAgain, PodInv, NodeTypes
  <2> QED
    BY <1>1, <1>g, <2>1
    DEF Starter, Connected, ConnectFails, ConnectAgain, PodInv, PodTypes, NodeTypes, Timed, clientVars
<1>2. ASSUME ConsumerCrash \/ GroupJoin \/ KafkaFails \/ KafkaReturns PROVE PodInv'
  BY <1>2, <1>g DEF ConsumerCrash, GroupJoin, KafkaFails, KafkaReturns, PodInv, PodTypes,
                    NodeTypes, Timed, startVars, clientVars
<1>3. ASSUME NEW c \in Clients, Open(c) \/ GoSilent(c) \/ Pong(c) \/ Closed(c) PROVE PodInv'
  BY <1>3, <1>g DEF Open, GoSilent, Pong, Closed, PodInv, PodTypes, NodeTypes, Timed, startVars
<1>4. ASSUME Heartbeat PROVE PodInv'
  BY <1>4, <1>g DEF Heartbeat, PodInv, PodTypes, NodeTypes, Timed, startVars
<1>5. ASSUME Shutdown \/ CloseSockets \/ ServerClosed \/ NodeExit \/ NodeForceExit PROVE PodInv'
  BY <1>5, <1>g DEF Shutdown, CloseSockets, ServerClosed, NodeExit, NodeForceExit,
                    PodInv, PodTypes, NodeTypes, Timed, Phases, startVars, clientVars
<1>7. ASSUME Disconnect \/ Disconnected PROVE PodInv'
  <2>1. wait' \in Nat
    BY <1>7 DEF Disconnect, Disconnected
  <2> QED
    BY <1>7, <1>g, <2>1 DEF Disconnect, Disconnected, PodInv, PodTypes, NodeTypes, Timed, Phases,
                            clientVars
<1>6. ASSUME NodeTick PROVE PodInv'
  <2>1. since' \in Nat /\ wait' \in Nat
    BY <1>6 DEF NodeTick, PodInv, PodTypes, NodeTypes
  <2>2. Timed'
    BY <1>6 DEF NodeTick, NodeDue, Stopping, PodInv, PodTypes, Timed
  <2> QED
    BY <1>6, <1>g, <2>1, <2>2 DEF NodeTick, PodInv, PodTypes, NodeTypes, clientVars
<1> QED
  BY <1>1, <1>2, <1>3, <1>4, <1>5, <1>6, <1>7 DEF NodeNext, Main

LEMMA StepPod == PodInv /\ [Next]_allVars => PodInv'
<1> SUFFICES ASSUME PodInv, [Next]_allVars PROVE PodInv'
  OBVIOUS
<1>1. CASE UNCHANGED allVars
  BY <1>1 DEF allVars, pod, goVars, nodeVars, startVars, clientVars, PodInv, PodTypes, GoTypes,
              NodeTypes, Timed
<1> QED
  BY <1>1, GoStepPod, NodeStepPod DEF Next

(* Whatever hangs, a pod is gone before Kubernetes' grace period ends: SIGTERM arms the
   timer at once, and delay and timeout together are shorter than the grace period.      *)
THEOREM PodEndsInTime == FairSpec => []NeverKilled
<1>1. PodInv => NeverKilled
  BY Constants DEF PodInv, PodTypes, Timed, NeverKilled
<1> QED
  BY InitPod, StepPod, <1>1, PTL DEF FairSpec, allVars

-----------------------------------------------------------------------------
(* The gateway and the wallet: nothing is refused, nothing is cut short. *)

(* Kubernetes stops routing before the listener closes: a pod that drains is not ready, so
   that for as long as it is routed to its endpoint is stale, and Lag is less than Delay.  *)
Unrouted ==
  /\ phase \notin {"await", "leaving", "disconnected"}
  /\ draining <=> phase # "serving"
  /\ stale <= Lag
  /\ phase = "delay" => since <= Delay
  /\ phase = "delay" /\ routed => since <= stale
  /\ phase \notin {"serving", "delay"} => ~routed

(* A request that ends does so within CallTime of the listener's closing, and then the
   relay's batch within BatchTime.                                                      *)
WorkEnds ==
  /\ phase = "drain" =>
       \A r \in Requests : left[r] \notin {0, Hung} => left[r] + since <= Delay + CallTime
  /\ phase = "drain" /\ ~SomeHung => since <= Delay + CallTime
  /\ phase = "relay" => \A r \in Requests : left[r] \in {0, Hung}
  /\ phase = "relay" /\ kind = "wallet" =>
       ~SomeHung /\ since + batch <= Delay + CallTime + BatchTime /\ relay # "running"
  /\ phase = "closing" => batch = 0 /\ relay = "stopped" /\ \A r \in Requests : left[r] = 0

RelayRests ==
  /\ relay = "stopped" => batch = 0
  /\ kind = "gateway" => relay = "stopped"

GoInv ==
  /\ PodInv
  /\ lost = {}
  /\ GoPod => Unrouted /\ WorkEnds /\ RelayRests

LEMMA InitGo == Init => GoInv
<1> SUFFICES ASSUME Init PROVE GoInv
  OBVIOUS
<1>1. PodInv
  BY InitPod
<1>2. GoPod => Unrouted /\ WorkEnds /\ RelayRests
  BY Constants DEF Init, PodInit, GoInit, GoPod, Unrouted, WorkEnds, RelayRests
<1> QED
  BY <1>1, <1>2 DEF Init, GoInit, GoInv

(* Once it drains a pod is never ready again. *)
LEMMA NotReady ==
  ASSUME Unrouted, phase # "serving"
  PROVE  ~(Readyz /\ Alive)
  BY DEF Unrouted, Readyz

LEMMA StepUnrouted ==
  ASSUME PodInv, GoPod, Unrouted, GoNext
  PROVE  Unrouted'
<1> USE Constants
<1>t. PodTypes /\ GoTypes /\ Timed
  BY DEF PodInv
<1>1. CASE Route
  <2>1. /\ stale' = 0 /\ draining' = draining /\ phase' = phase /\ since' = since
        /\ phase # "serving" => ~routed'
    BY <1>1, NotReady DEF Route
  <2> QED
    BY <2>1, <1>t DEF Unrouted, PodTypes
<1>2. CASE DbFails \/ DbReturns \/ RelayStep \/ \E r \in Requests : Arrive(r)
  <2>1. UNCHANGED <<draining, phase, since, stale, routed>>
    BY <1>2 DEF DbFails, DbReturns, RelayStep, Arrive
  <2> QED
    BY <2>1 DEF Unrouted
<1>3. CASE BeginShutdown
  BY <1>3, <1>t DEF BeginShutdown, Unrouted, Timed, PodTypes, GoTypes
<1>4. CASE StopServer
  BY <1>4, <1>t DEF StopServer, Unrouted, PodTypes, GoTypes
<1>5. CASE StopRelay \/ CloseConnections \/ GoExit
  BY <1>5, <1>t DEF StopRelay, CloseConnections, GoExit, Unrouted
<1>6. CASE GoForceExit
  BY <1>6, <1>t DEF GoForceExit, Unrouted, PodTypes
<1>7. CASE GoTick
  <2>1. /\ phase' = phase /\ draining' = draining /\ routed' = routed
        /\ phase # "serving" => since' = since + 1
        /\ phase = "delay" => since < Delay
    BY <1>7, <1>t DEF GoTick, GoDue, PodTypes
  <2>2. CASE routed = (Readyz /\ Alive)
    <3>1. stale' = 0 /\ (phase # "serving" => ~routed)
      BY <1>7, <2>2, NotReady DEF GoTick
    <3> QED
      BY <1>t, <2>1, <3>1 DEF Unrouted, PodTypes, GoTypes
  <2>3. CASE routed # (Readyz /\ Alive)
    <3>1. stale' = stale + 1 /\ ~(stale >= Lag)
      BY <1>7, <2>3 DEF GoTick, GoDue
    <3> QED
      BY <1>t, <2>1, <3>1 DEF Unrouted, PodTypes, GoTypes
  <2> QED
    BY <2>2, <2>3
<1> QED
  BY <1>1, <1>2, <1>3, <1>4, <1>5, <1>6, <1>7 DEF GoNext

LEMMA StepRests ==
  ASSUME PodInv, GoPod, RelayRests, GoNext
  PROVE  RelayRests'
<1> USE Constants
<1>t. PodTypes /\ GoTypes
  BY DEF PodInv
<1>1. CASE RelayStep
  BY <1>1 DEF RelayStep, RelayRests
<1>2. CASE StopRelay
  BY <1>2 DEF StopRelay, RelayRests
<1>3. CASE GoTick
  BY <1>3 DEF GoTick, RelayRests
<1>4. CASE CloseConnections \/ GoForceExit
  BY <1>4 DEF CloseConnections, GoForceExit, RelayRests
<1>5. CASE UNCHANGED <<kind, relay, batch>>
  BY <1>5 DEF RelayRests
<1> QED
  BY <1>1, <1>2, <1>3, <1>4, <1>5
  DEF GoNext, Route, DbFails, DbReturns, Arrive, BeginShutdown, StopServer, GoExit

LEMMA StepWork ==
  ASSUME PodInv, GoPod, Unrouted, WorkEnds, RelayRests, GoNext
  PROVE  WorkEnds'
<1> USE Constants
<1>t. /\ PodTypes /\ GoTypes /\ Timed /\ since \in Nat /\ batch \in Nat /\ batch <= BatchTime
      /\ \A r \in Requests : left[r] \in Nat /\ left[r] <= Hung
  BY DEF PodInv, PodTypes, GoTypes
<1>1. CASE UNCHANGED <<phase, since, left, batch, relay, kind>>
  BY <1>1 DEF WorkEnds, SomeHung
<1>2. ASSUME NEW r \in Requests, Arrive(r) PROVE WorkEnds'
  <2>1. phase' = phase /\ phase \in {"serving", "delay"}
    BY <1>2 DEF Arrive, Unrouted
  <2> QED
    BY <2>1 DEF WorkEnds
<1>3. CASE RelayStep
  <2>1. UNCHANGED <<phase, since, left, kind>> /\ relay # "stopped"
    BY <1>3 DEF RelayStep
  <2>2. phase = "relay" /\ kind = "wallet" => relay' # "running" /\ batch' = batch
    BY <1>3, <1>t DEF RelayStep, WorkEnds
  <2> QED
    BY <2>1, <2>2 DEF WorkEnds, SomeHung
<1>4. CASE BeginShutdown \/ GoExit \/ GoForceExit
  <2>1. phase' \in {"delay", "exited", "forced"}
    BY <1>4 DEF BeginShutdown, GoExit, GoForceExit
  <2> QED
    BY <2>1 DEF WorkEnds
<1>5. CASE StopServer
  <2>1. since = Delay /\ since' = since /\ left' = left /\ phase' = "drain"
    BY <1>5, <1>t DEF StopServer, Unrouted
  <2>2. \A r \in Requests : left[r] \notin {0, Hung} => left[r] <= CallTime
    BY <1>t
  <2> QED
    BY <1>t, <2>1, <2>2 DEF WorkEnds
<1>6. CASE StopRelay
  <2>1. /\ phase = "drain" /\ phase' = "relay" /\ UNCHANGED <<since, left, batch, kind>>
        /\ relay' = (IF kind = "wallet" THEN "stopping" ELSE relay)
        /\ Drained
    BY <1>6 DEF StopRelay
  <2>2. \A r \in Requests : left[r] \in {0, Hung}
    <3> SUFFICES ASSUME NEW r \in Requests, left[r] \notin {0, Hung} PROVE FALSE
      OBVIOUS
    <3>1. since >= Delay + Drain
      BY <2>1 DEF Drained, InFlight
    <3>2. left[r] + since <= Delay + CallTime
      BY <2>1 DEF WorkEnds
    <3> QED
      BY <1>t, <3>1, <3>2
  <2>3. ASSUME kind = "wallet" PROVE ~SomeHung
    <3>1. InFlight = {}
      BY <2>1, <2>3 DEF Drained
    <3> QED
      BY <3>1 DEF InFlight, SomeHung
  <2>4. ASSUME kind = "wallet" PROVE since + batch <= Delay + CallTime + BatchTime
    <3>1. since <= Delay + CallTime
      BY <2>1, <2>3, <2>4 DEF WorkEnds
    <3> QED
      BY <1>t, <3>1
  <2> QED
    BY <2>1, <2>2, <2>3, <2>4 DEF WorkEnds, SomeHung
<1>7. CASE CloseConnections
  <2>1. /\ phase' = "closing" /\ batch' = 0 /\ relay' = "stopped"
        /\ \A r \in Requests : left'[r] = 0
    BY <1>7 DEF CloseConnections
  <2> QED
    BY <2>1 DEF WorkEnds
<1>8. CASE GoTick
  <2>1. /\ phase' = phase /\ kind' = kind /\ relay' = relay
        /\ phase # "serving" => since' = since + 1
        /\ \A r \in Requests : left'[r] = IF left[r] \in {0, Hung} THEN left[r] ELSE left[r] - 1
        /\ batch' = IF batch = 0 THEN 0 ELSE batch - 1
    BY <1>8 DEF GoTick
  <2>2. \A r \in Requests : /\ left[r] \in {0, Hung} => left'[r] = left[r]
                            /\ left[r] \notin {0, Hung} =>
                                 left'[r] = left[r] - 1 /\ left[r] < Hung /\ left'[r] # Hung
    BY <1>t, <2>1
  <2>3. SomeHung' <=> SomeHung
    BY <2>2 DEF SomeHung
  <2>4. ASSUME phase = "drain", NEW r \in Requests, left'[r] \notin {0, Hung}
        PROVE  left'[r] + since' <= Delay + CallTime
    <3>1. left[r] \notin {0, Hung} /\ left[r] + since <= Delay + CallTime
      BY <2>2, <2>4 DEF WorkEnds
    <3> QED
      BY <1>t, <2>1, <2>2, <2>4, <3>1
  <2>5. ASSUME phase = "drain", ~SomeHung PROVE since' <= Delay + CallTime
    <3>1. PICK r \in Requests : left[r] # 0
      BY <1>8, <2>5 DEF GoTick, GoDue, Drained, InFlight
    <3>2. left[r] \notin {0, Hung}
      BY <2>5, <3>1 DEF SomeHung
    <3>3. left[r] + since <= Delay + CallTime /\ left[r] >= 1
      BY <1>t, <2>5, <3>2 DEF WorkEnds
    <3> QED
      BY <1>t, <2>1, <2>5, <3>3
  <2>6. ASSUME phase = "relay", kind = "wallet"
        PROVE  since' + batch' <= Delay + CallTime + BatchTime
    <3>1. batch # 0
      BY <1>8, <2>6 DEF GoTick, GoDue
    <3> QED
      BY <1>t, <2>1, <2>6, <3>1 DEF WorkEnds
  <2>7. phase = "closing" => batch' = 0 /\ \A r \in Requests : left'[r] = 0
    BY <2>1, <2>2 DEF WorkEnds
  <2>8. phase = "relay" => \A r \in Requests : left'[r] \in {0, Hung}
    BY <2>2 DEF WorkEnds
  <2> QED
    BY <2>1, <2>3, <2>4, <2>5, <2>6, <2>7, <2>8 DEF WorkEnds
<1> QED
  BY <1>1, <1>2, <1>3, <1>4, <1>5, <1>6, <1>7, <1>8 DEF GoNext, Route, DbFails, DbReturns

(* Exits and closed connections find nothing unfinished that would have ended. *)
LEMMA StepLost ==
  ASSUME PodInv, lost = {}, GoPod, Unrouted, WorkEnds, RelayRests, GoNext
  PROVE  lost' = {}
<1> USE Constants
<1>t. PodTypes /\ GoTypes /\ since \in Nat /\ batch \in Nat
  BY DEF PodInv, PodTypes, GoTypes
<1>1. ASSUME NEW r \in Requests, Arrive(r) PROVE lost' = {}
  BY <1>1 DEF Arrive, Unrouted
<1>2. CASE CloseConnections
  <2>1. phase = "relay" /\ relay = "stopped" /\ lost' = lost \cup Cut
    BY <1>2 DEF CloseConnections
  <2>2. batch = 0 /\ \A r \in InFlight : left[r] = Hung
    BY <2>1 DEF WorkEnds, RelayRests, InFlight
  <2>3. Cut = {}
    BY <2>2 DEF Cut
  <2> QED
    BY <2>1, <2>3
<1>3. CASE GoForceExit
  <2>1. /\ lost' = (IF SomeHung THEN lost ELSE lost \cup Cut)
        /\ Alive /\ phase # "serving" /\ since >= Timer
    BY <1>3 DEF GoForceExit
  <2>2. ASSUME ~SomeHung PROVE Cut = {}
    <3>1. phase \notin {"delay", "drain"} /\ ~(phase = "relay" /\ kind = "wallet")
      BY <1>t, <2>1, <2>2 DEF Unrouted, WorkEnds
    <3>2. phase \in {"relay", "closing"} /\ (phase = "relay" => kind = "gateway")
      BY <1>t, <2>1, <3>1 DEF Alive, PodTypes, Phases, Unrouted, GoPod
    <3>3. batch = 0 /\ \A r \in Requests : left[r] \in {0, Hung}
      BY <3>2 DEF WorkEnds, RelayRests
    <3>4. InFlight = {}
      BY <2>2, <3>3 DEF InFlight, SomeHung
    <3> QED
      BY <3>3, <3>4 DEF Cut
  <2> QED
    BY <2>1, <2>2
<1>4. CASE lost' = lost
  BY <1>4
<1> QED
  BY <1>1, <1>2, <1>3, <1>4
  DEF GoNext, Route, DbFails, DbReturns, RelayStep, BeginShutdown, StopServer, StopRelay, GoExit, GoTick

LEMMA StepGo == GoInv /\ [Next]_allVars => GoInv'
<1> SUFFICES ASSUME GoInv, [Next]_allVars PROVE GoInv'
  OBVIOUS
<1>1. PodInv /\ PodInv' /\ lost = {} /\ (GoPod => Unrouted /\ WorkEnds /\ RelayRests)
  BY StepPod DEF GoInv
<1>2. CASE GoNext
  <2>1. GoPod
    BY <1>2 DEF GoNext, Route, DbFails, DbReturns, RelayStep, Arrive, BeginShutdown, StopServer,
                StopRelay, CloseConnections, GoExit, GoForceExit, GoTick
  <2> QED
    BY <1>1, <1>2, <2>1, StepUnrouted, StepRests, StepWork, StepLost DEF GoInv
<1>3. CASE NodeNext /\ UNCHANGED goVars
  <2>1. NodePod /\ kind' = kind
    BY <1>3 DEF NodeNext, Starter, Connected, ConnectFails, ConnectAgain, ConsumerCrash, GroupJoin,
                KafkaFails, KafkaReturns, Open, GoSilent, Pong, Closed, Heartbeat, Shutdown, Main,
                CloseSockets, ServerClosed, Disconnect, Disconnected, NodeExit, NodeForceExit, NodeTick
  <2>2. ~GoPod'
    BY <2>1 DEF NodePod, GoPod
  <2> QED
    BY <1>1, <1>3, <2>2 DEF GoInv, goVars
<1>4. CASE UNCHANGED allVars
  <2>1. UNCHANGED <<kind, phase, since, goVars>>
    BY <1>4 DEF allVars, pod
  <2> QED
    BY <1>1, <2>1 DEF GoInv, GoPod, Unrouted, WorkEnds, RelayRests, SomeHung, goVars
<1> QED
  BY <1>2, <1>3, <1>4 DEF Next

(* No request reaches a gateway or wallet pod that has stopped listening: BeginShutdown
   fails /readyz first and sleeps longer than Kubernetes takes to act on it.           *)
THEOREM NoRequestRefused == FairSpec => []NothingRefused
<1>1. GoInv => NothingRefused
  BY DEF GoInv, NothingRefused
<1> QED
  BY InitGo, StepGo, <1>1, PTL DEF FairSpec, allVars

(* Neither the closing of the connections nor the forced exit cuts short a request that
   would have ended, or a batch of the relay, unless a request hangs until the timer.  *)
THEOREM NoWorkCut == FairSpec => []NothingCut
<1>1. GoInv => NothingCut
  BY DEF GoInv, NothingCut
<1> QED
  BY InitGo, StepGo, <1>1, PTL DEF FairSpec, allVars

-----------------------------------------------------------------------------
(* The notification service: what keeps a pod that shuts down. *)

(* startConsumer sleeps for at most MaxBackoff. *)
Waits ==
  /\ starter = "connecting" => wait <= ConnectTime
  /\ starter = "sleeping" => wait <= MaxBackoff

SilentOnes == {c \in silent : socket[c] = "closing"}

(* Kafka not answering leaves its mark on an attempt, and on shutdown. *)
Marked == ~kafkaUp /\ (starter = "connecting" \/ Stopping) => hindered

(* Time t is at most d after what shutdown waits for before it disconnects. *)
Within(t, d) == t <= Delay + d \/ t <= ConnectTime + d \/ t <= MaxBackoff + d

(* Where Kafka answers, the step that SIGTERM has found startConsumer in is its last, and
   disconnecting takes LeaveTime after that.                                             *)
Prompt ==
  /\ starter = "connecting" => since + wait <= ConnectTime
  /\ starter = "sleeping" => since + wait <= MaxBackoff
  /\ phase = "await" => Within(since, 0)
  /\ phase = "leaving" => starter = "returned" /\ Within(since + wait, LeaveTime)
  /\ phase = "disconnected" => Within(since, LeaveTime)

(* After Delay only silent clients hold up the closing; without them there is only what
   Kafka is needed for.                                                                 *)
HeldUp ==
  /\ phase \in {"drain", "relay"} => FALSE
  /\ phase = "delay" => since <= Delay
  /\ phase = "closing" => \A c \in Clients : socket[c] # "open"
  /\ phase = "closing" /\ since > Delay => SilentOnes # {}
  /\ Alive /\ Stopping => hindered \/ Prompt
  /\ phase = "forced" => hindered \/ SilentOnes # {}

SilenceInv == PodInv /\ (NodePod => Waits /\ Marked /\ HeldUp)

LEMMA StepNodePod ==
  ASSUME NodeNext
  PROVE  NodePod /\ kind' = kind
  BY DEF NodeNext, Starter, Connected, ConnectFails, ConnectAgain, ConsumerCrash, GroupJoin,
         KafkaFails, KafkaReturns, Open, GoSilent, Pong, Closed, Heartbeat, Shutdown, Main,
         CloseSockets, ServerClosed, Disconnect, Disconnected, NodeExit, NodeForceExit, NodeTick

LEMMA StepGoPod ==
  ASSUME GoNext
  PROVE  ~NodePod /\ kind' = kind
  BY DEF GoNext, Route, DbFails, DbReturns, RelayStep, Arrive, BeginShutdown, StopServer,
         StopRelay, CloseConnections, GoExit, GoForceExit, GoTick, GoPod, NodePod

(* shutdown disconnects a consumer that nobody will start any more. *)
LeftInv ==
  /\ NothingLeftRunning
  /\ NodePod /\ phase = "leaving" => starter = "returned"

LEMMA StepLeft == LeftInv /\ [Next]_allVars => LeftInv'
<1> SUFFICES ASSUME LeftInv, [Next]_allVars PROVE LeftInv'
  OBVIOUS
<1>1. CASE GoNext
  BY <1>1, StepGoPod DEF LeftInv, NothingLeftRunning, NodePod
<1>2. CASE NodeNext
  BY <1>2, StepNodePod
  DEF LeftInv, NothingLeftRunning, NodePod, NodeNext, Starter, Connected, ConnectFails, ConnectAgain,
      ConsumerCrash, GroupJoin, KafkaFails, KafkaReturns, Open, GoSilent, Pong, Closed, Heartbeat,
      Shutdown, Main, CloseSockets, ServerClosed, Disconnect, Disconnected, ConsumerStarted, NodeExit,
      NodeForceExit, NodeTick, Alive, startVars
<1>3. CASE UNCHANGED allVars
  BY <1>3 DEF allVars, pod, nodeVars, startVars, LeftInv, NothingLeftRunning, NodePod
<1> QED
  BY <1>1, <1>2, <1>3 DEF Next

(* A notification pod that exits has left the consumer group, and startConsumer is not at
   work behind its back: shutdown awaits it before it disconnects.                       *)
THEOREM NoConsumerLeft == FairSpec => []NothingLeftRunning
<1>1. Init => LeftInv
  BY DEF Init, PodInit, LeftInv, NothingLeftRunning
<1>2. LeftInv => NothingLeftRunning
  BY DEF LeftInv
<1> QED
  BY StepLeft, <1>1, <1>2, PTL DEF FairSpec, allVars

(* ws gives up on a silent client only after the pod has been forced out. *)
PatientClose == Timeout < CloseTimeout

LEMMA InitSilence == Init => SilenceInv
<1> SUFFICES ASSUME Init PROVE SilenceInv
  OBVIOUS
<1>1. PodInv
  BY InitPod
<1>2. Waits /\ HeldUp
  BY Constants DEF Init, PodInit, NodeInit, Waits, HeldUp, Stopping
<1>3. Marked
  BY DEF Init, NodeInit, Marked
<1> QED
  BY <1>1, <1>2, <1>3 DEF SilenceInv

LEMMA StepStarterWaits ==
  ASSUME PodInv, Waits, NodeNext
  PROVE  Waits'
<1> USE Constants
<1>t. wait \in Nat /\ backoff \in Nat /\ backoff <= MaxBackoff
  BY DEF PodInv, NodeTypes
<1>1. CASE Starter
  BY <1>1, <1>t DEF Starter, Connected, ConnectFails, ConnectAgain, Waits
<1>2. CASE NodeTick
  BY <1>2, <1>t DEF NodeTick, Waits
<1>3. CASE Disconnect \/ Disconnected
  BY <1>3, <1>t DEF Disconnect, Disconnected, ConsumerStarted, Waits
<1>4. CASE starter' = starter /\ wait' = wait
  BY <1>4 DEF Waits
<1> QED
  BY <1>1, <1>2, <1>3, <1>4
  DEF NodeNext, ConsumerCrash, GroupJoin, KafkaFails, KafkaReturns, Open, GoSilent, Pong, Closed,
      Heartbeat, Shutdown, Main, CloseSockets, ServerClosed, NodeExit, NodeForceExit, startVars

LEMMA StepMarked ==
  ASSUME Marked, NodeNext
  PROVE  Marked'
<1>1. CASE ConnectAgain
  BY <1>1 DEF ConnectAgain, Marked, Stopping
<1>2. CASE KafkaFails
  BY <1>2 DEF KafkaFails, Marked
<1>3. CASE KafkaReturns
  BY <1>3 DEF KafkaReturns, Marked
<1>4. CASE Shutdown
  BY <1>4 DEF Shutdown, Marked
<1>5. CASE /\ UNCHANGED <<kafkaUp, hindered>>
           /\ starter' = "connecting" => starter = "connecting"
           /\ Stopping' => Stopping
  BY <1>5 DEF Marked
<1> QED
  BY <1>1, <1>2, <1>3, <1>4, <1>5
  DEF NodeNext, Starter, Connected, ConnectFails, ConsumerCrash, GroupJoin, Open, GoSilent, Pong,
      Closed, Heartbeat, Main, CloseSockets, ServerClosed, Disconnect, Disconnected, NodeExit,
      NodeForceExit, NodeTick, Stopping, startVars, kafkaVars

LEMMA WithinLater ==
  ASSUME NEW s \in Nat, NEW d \in Nat, d <= LeaveTime, Within(s, 0)
  PROVE  Within(s + d, LeaveTime)
  BY Constants DEF Within

(* Where Kafka answers, every step of shutdown is prompt; others do not take time. *)
LEMMA StepPrompt ==
  ASSUME PatientClose, PodInv, NodePod, Waits, Marked, HeldUp, NodeNext, Alive', Stopping'
  PROVE  hindered' \/ Prompt'
<1> USE Constants
<1>t. /\ wait \in Nat /\ backoff \in Nat /\ since \in Nat
      /\ since <= Timer /\ phase \in Phases /\ (phase = "serving" => since = 0)
      /\ starter \in {"connecting", "sleeping", "returned"}
      /\ socket \in [Clients -> {"none", "open", "closing"}] /\ silent \subseteq Clients
  BY DEF PodInv, NodeTypes, PodTypes, Timed
<1>1. CASE Shutdown
  <2>1. starter' = starter /\ wait' = wait /\ since' = 0 /\ phase' = "delay"
    BY <1>1, <1>t DEF Shutdown, startVars
  <2> QED
    BY <1>t, <2>1 DEF Prompt, Waits
<1>2. ASSUME ~Shutdown PROVE hindered' \/ Prompt'
  <2>1. Alive /\ Stopping
    BY <1>2
    DEF NodeNext, Starter, Connected, ConnectFails, ConnectAgain, ConsumerCrash, GroupJoin,
        KafkaFails, KafkaReturns, Open, GoSilent, Pong, Closed, Heartbeat, Main, CloseSockets,
        ServerClosed, Disconnect, Disconnected, NodeExit, NodeForceExit, NodeTick, Alive, Stopping
  <2>2. hindered => hindered'
    BY <1>2, <2>1
    DEF NodeNext, Starter, Connected, ConnectFails, ConnectAgain, ConsumerCrash, GroupJoin,
        KafkaFails, KafkaReturns, Open, GoSilent, Pong, Closed, Heartbeat, Main, CloseSockets,
        ServerClosed, Disconnect, Disconnected, NodeExit, NodeForceExit, NodeTick, kafkaVars
  <2> SUFFICES ASSUME ~hindered PROVE hindered' \/ Prompt'
    BY <2>2
  <2>p. Prompt
    BY <2>1 DEF HeldUp
  <2>3. CASE Starter
    <3>1. UNCHANGED <<phase, since>> /\ wait' \in Nat
          /\ starter' = "returned"
      BY <2>1, <2>3, <1>t DEF Starter, Connected, ConnectFails, ConnectAgain
    <3>2. phase \notin {"leaving"}
      BY <2>3, <2>p DEF Starter, Connected, ConnectFails, ConnectAgain, Prompt
    <3> QED
      BY <1>t, <2>p, <3>1, <3>2 DEF Prompt
  <2>4. CASE /\ UNCHANGED <<since, starter, wait>>
             /\ phase' \in {"await", "leaving", "disconnected"} => phase' = phase
    BY <2>4, <2>p DEF Prompt
  <2>5. CASE ServerClosed
    <3>1. /\ phase = "closing" /\ phase' = "await" /\ UNCHANGED <<since, starter, wait>>
          /\ \A c \in Clients : socket[c] = "none"
      BY <2>5 DEF ServerClosed, startVars
    <3>2. SilentOnes = {}
      BY <1>t, <3>1 DEF SilentOnes
    <3>3. since <= Delay
      BY <1>t, <3>1, <3>2 DEF HeldUp
    <3> QED
      BY <1>t, <2>p, <3>1, <3>3 DEF Prompt, Within
  <2>6. CASE Disconnect
    <3>1. /\ phase = "await" /\ phase' = "leaving" /\ UNCHANGED <<since, starter>>
          /\ starter = "returned" /\ wait' \in 0..LeaveTime
      BY <2>6 DEF Disconnect, ConsumerStarted
    <3>2. wait' \in Nat /\ wait' <= LeaveTime
      BY <3>1
    <3>3. Within(since, 0)
      BY <2>p, <3>1 DEF Prompt
    <3>4. Within(since + wait', LeaveTime)
      BY <1>t, <3>2, <3>3, WithinLater
    <3> QED
      BY <3>1, <3>4 DEF Prompt
  <2>7. CASE Disconnected
    <3>1. /\ phase = "leaving" /\ phase' = "disconnected" /\ UNCHANGED <<since, starter>>
          /\ starter = "returned"
      BY <2>7, <2>p DEF Disconnected, Prompt
    <3>2. Within(since, LeaveTime)
      BY <1>t, <2>p, <3>1 DEF Prompt, Within
    <3> QED
      BY <3>1, <3>2 DEF Prompt
  <2>8. CASE NodeTick
    <3>1. /\ UNCHANGED <<phase, starter>> /\ since' = since + 1 /\ ~NodeDue
          /\ wait' = (IF wait > 0 THEN wait - 1 ELSE 0)
      BY <2>1, <2>8 DEF NodeTick
    <3>2. starter \in {"connecting", "sleeping"} => wait > 0
      BY <1>t, <3>1 DEF NodeDue
    <3>3. phase = "leaving" => wait > 0
      BY <1>t, <3>1 DEF NodeDue
    <3>4. phase = "await" => starter \in {"connecting", "sleeping"}
      BY <1>t, <3>1 DEF NodeDue, ConsumerStarted
    <3>5. phase = "await" => Within(since', 0)
      BY <1>t, <2>p, <3>1, <3>2, <3>4 DEF Prompt, Within
    <3>6. phase = "leaving" => since' + wait' = since + wait
      BY <1>t, <3>1, <3>3
    <3>7. phase # "disconnected"
      BY <3>1 DEF NodeDue
    <3> QED
      BY <1>t, <2>p, <3>1, <3>2, <3>5, <3>6, <3>7 DEF Prompt
  <2> QED
    BY <1>2, <2>3, <2>4, <2>5, <2>6, <2>7, <2>8
    DEF NodeNext, Main, ConsumerCrash, GroupJoin, KafkaFails, KafkaReturns, Open, GoSilent, Pong,
        Closed, Heartbeat, CloseSockets, NodeExit, NodeForceExit, startVars
<1> QED
  BY <1>1, <1>2

LEMMA StepHeldUp ==
  ASSUME PatientClose, PodInv, NodePod, Waits, Marked, HeldUp, NodeNext
  PROVE  HeldUp'
<1> USE Constants
<1>t. /\ since \in Nat /\ wait \in Nat
      /\ since <= Timer /\ phase \in Phases /\ (phase = "serving" => since = 0)
      /\ socket \in [Clients -> {"none", "open", "closing"}] /\ silent \subseteq Clients
  BY DEF PodInv, NodeTypes, PodTypes, Timed
<1>p. Alive' /\ Stopping' => hindered' \/ Prompt'
  BY StepPrompt
<1>1. CASE UNCHANGED <<phase, since, socket, silent>> /\ (phase = "forced" /\ hindered => hindered')
  <2>1. SilentOnes' = SilentOnes
    BY <1>1 DEF SilentOnes
  <2> QED
    BY <1>1, <1>p, <2>1 DEF HeldUp
<1>2. CASE Heartbeat \/ \E c \in Clients : Open(c) \/ GoSilent(c)
  <2>1. UNCHANGED <<phase, since, hindered>> /\ Alive
    BY <1>2 DEF Open, GoSilent, Heartbeat, Alive, kafkaVars
  <2>2. phase = "closing" => SilentOnes \subseteq SilentOnes' /\ socket' = socket
    BY <1>2 DEF Open, GoSilent, Heartbeat, SilentOnes
  <2> QED
    BY <1>p, <2>1, <2>2 DEF HeldUp, Alive
<1>3. ASSUME NEW c \in Clients, Closed(c) PROVE HeldUp'
  <2>1. UNCHANGED <<phase, since, silent, hindered>>
    BY <1>3 DEF Closed, kafkaVars
  <2>2. c \notin silent
    BY <1>3, <1>t DEF Closed, PatientClose
  <2>3. SilentOnes' = SilentOnes /\ \A d \in Clients : socket[d] # "open" => socket'[d] # "open"
    BY <1>3, <1>t, <2>1, <2>2 DEF Closed, SilentOnes
  <2> QED
    BY <1>p, <2>1, <2>3 DEF HeldUp
<1>4. CASE Shutdown
  BY <1>4, <1>p, <1>t DEF Shutdown, HeldUp
<1>5. CASE CloseSockets
  <2>1. phase' = "closing" /\ since' = since /\ since <= Delay
    BY <1>5 DEF CloseSockets, HeldUp
  <2>2. \A c \in Clients : socket'[c] # "open"
    BY <1>5, <1>t DEF CloseSockets
  <2> QED
    BY <1>p, <1>t, <2>1, <2>2 DEF HeldUp
<1>6. CASE ServerClosed \/ Disconnect \/ Disconnected \/ NodeExit
  <2>1. phase' \in {"await", "leaving", "disconnected", "exited"}
    BY <1>6 DEF ServerClosed, Disconnect, Disconnected, NodeExit
  <2> QED
    BY <1>p, <2>1 DEF HeldUp
<1>7. CASE NodeForceExit
  <2>1. /\ phase' = "forced" /\ UNCHANGED <<socket, silent, hindered>>
        /\ since >= Timer /\ Alive /\ Stopping
    BY <1>7 DEF NodeForceExit, clientVars, kafkaVars
  <2>2. ASSUME ~hindered PROVE phase = "closing"
    <3>1. Prompt
      BY <2>1, <2>2 DEF HeldUp
    <3>2. phase \notin {"delay", "await", "leaving", "disconnected", "drain", "relay"}
      BY <1>t, <2>1, <3>1 DEF Prompt, Within, HeldUp
    <3> QED
      BY <1>t, <2>1, <3>2 DEF Phases, Alive, Stopping
  <2>3. phase = "closing" => SilentOnes # {}
    BY <1>t, <2>1 DEF HeldUp
  <2>4. SilentOnes' = SilentOnes
    BY <2>1 DEF SilentOnes
  <2> QED
    BY <2>1, <2>2, <2>3, <2>4 DEF HeldUp, Alive
<1>8. CASE NodeTick
  <2>1. /\ UNCHANGED <<phase, socket, silent>>
        /\ since' = (IF Stopping THEN since + 1 ELSE since)
        /\ Alive /\ ~NodeDue
    BY <1>8 DEF NodeTick, clientVars
  <2>2. SilentOnes' = SilentOnes
    BY <2>1 DEF SilentOnes
  <2>3. phase = "delay" => since' <= Delay
    BY <1>t, <2>1 DEF NodeDue, Stopping
  <2>4. ASSUME phase = "closing" PROVE SilentOnes # {}
    <3>1. PICK c \in Clients : socket[c] # "none"
      BY <2>1, <2>4 DEF NodeDue
    <3>2. socket[c] = "closing"
      BY <1>t, <2>4, <3>1 DEF HeldUp
    <3>3. c \in silent
      BY <2>1, <3>2 DEF NodeDue
    <3> QED
      BY <3>2, <3>3 DEF SilentOnes
  <2> QED
    BY <1>p, <2>1, <2>2, <2>3, <2>4 DEF HeldUp, Alive
<1> QED
  BY <1>1, <1>2, <1>3, <1>4, <1>5, <1>6, <1>7, <1>8
  DEF NodeNext, Main, Starter, Connected, ConnectFails, ConnectAgain, ConsumerCrash, GroupJoin,
      KafkaFails, KafkaReturns, Pong, Alive, Stopping, startVars, clientVars, kafkaVars

(* Where ws waits longer for a close frame than the pod for its timer (30s against 20s),
   the forced exit is the doing of others: of silent clients, or of Kafka when it does not
   answer shutdown, or the attempt to connect that shutdown has to await. An earlier outage
   does not reach that far, since startConsumer, wherever SIGTERM finds it, ends with the
   step it is in, and disconnecting fits into what is left.                               *)
THEOREM OnlyOthersForce ==
  ASSUME PatientClose
  PROVE  FairSpec => []ForcedByOthersOnly
<1>1. SilenceInv /\ [Next]_allVars => SilenceInv'
  <2> SUFFICES ASSUME SilenceInv, [Next]_allVars PROVE SilenceInv'
    OBVIOUS
  <2>1. PodInv /\ PodInv' /\ (NodePod => Waits /\ Marked /\ HeldUp)
    BY StepPod DEF SilenceInv
  <2>2. CASE GoNext
    BY <2>1, <2>2, StepGoPod DEF SilenceInv, NodePod
  <2>3. CASE NodeNext
    BY <2>1, <2>3, StepNodePod, StepStarterWaits, StepMarked, StepHeldUp DEF SilenceInv
  <2>4. CASE UNCHANGED allVars
    <3>1. UNCHANGED <<kind, phase, since, starter, wait, socket, silent, kafkaUp, hindered>>
      BY <2>4 DEF allVars, pod, nodeVars, startVars, clientVars, kafkaVars
    <3> QED
      BY <2>1, <3>1 DEF SilenceInv, NodePod, Waits, Marked, HeldUp, Prompt, Within, SilentOnes, Alive,
                        Stopping
  <2> QED
    BY <2>2, <2>3, <2>4 DEF Next
<1>2. SilenceInv => ForcedByOthersOnly
  BY DEF SilenceInv, HeldUp, SilentOnes, ForcedByOthersOnly
<1> QED
  BY InitSilence, <1>1, <1>2, PTL DEF FairSpec, allVars
==============================================================================
