--------------------------- MODULE NotificationPod ---------------------------
(***************************************************************************)
(* One pod of the notification service around its message handler:         *)
(* startConsumer, which connects to Kafka until it succeeds, the           *)
(* WebSockets with their heartbeat, readiness, and shutdown, which may     *)
(* begin at any moment of all that.                                        *)
(*                                                                         *)
(* Time is in seconds and urgent: it does not pass a moment at which       *)
(* something is due. A client that has gone silent answers neither a ping  *)
(* nor a close frame.                                                      *)
(***************************************************************************)
EXTENDS Pod

CONSTANTS
  Clients,       \* WebSockets
  MaySilence,    \* clients that may go silent
  CloseTimeout,  \* how long ws waits for the answer to a close frame
  ConnectTime,   \* how long connecting and joining the group take if Kafka answers
  LeaveTime,     \* how long consumer.disconnect and the rest take if Kafka answers
  MaxBackoff     \* the 10000 of startConsumer

ASSUME NodeAssumption ==
  /\ {CloseTimeout, ConnectTime, LeaveTime, MaxBackoff} \subseteq Nat
  /\ MaySilence \subseteq Clients
  /\ 0 < MaxBackoff
  /\ \A t \in {Delay, ConnectTime, MaxBackoff} : t + LeaveTime < Delay + Timeout

VARIABLES
  starter,    \* startConsumer: connecting, sleeping or returned
  wait,       \* seconds that its step, or shutdown's disconnecting, may still take
  backoff,    \* its next sleep
  kafkaUp,    \* brokers answer, and no other member holds up the group
  hindered,   \* kafkaUp has been FALSE in the course of the attempt, or of shutdown
  consumer,   \* the consumer (and the DLQ producer): off, or a member of the group
  consuming,  \* the flag behind the kafka-consumer readiness check
  socket,     \* client -> none, open, closing
  silent,     \* clients that have gone silent
  isAlive     \* client -> it has answered since the last ping

startVars == <<starter, wait, backoff, consumer>>
clientVars == <<socket, silent, isAlive>>
kafkaVars == <<kafkaUp, hindered>>
nodeVars == <<startVars, kafkaVars, consuming, clientVars>>
nodePod == <<pod, nodeVars>>

NodeInit ==
  /\ starter = "connecting" /\ wait = ConnectTime /\ backoff = 1
  /\ kafkaUp \in IF NodePod THEN BOOLEAN ELSE {TRUE}
  /\ hindered = ~kafkaUp
  /\ consumer = "off" /\ consuming = FALSE
  /\ socket = [c \in Clients |-> "none"] /\ silent = {} /\ isAlive = [c \in Clients |-> TRUE]

-----------------------------------------------------------------------------
(* startConsumer. An attempt of which Kafka answers every call succeeds within ConnectTime;
   another one may take as long as it likes, as kafkajs has timeouts and retries of its
   own, and may fail.                                                                    *)

Connected ==
  /\ NodePod
  /\ Alive
  /\ starter = "connecting" /\ kafkaUp
  /\ starter' = "returned" /\ wait' = 0
  /\ consumer' = "on" /\ consuming' = TRUE
  /\ UNCHANGED <<kind, phase, since, backoff, kafkaVars, outages, clientVars>>

(* The catch block: disconnect, then sleep. *)
ConnectFails ==
  /\ NodePod
  /\ Alive
  /\ starter = "connecting" /\ hindered
  /\ starter' = "sleeping" /\ wait' = backoff
  /\ backoff' = IF 2 * backoff < MaxBackoff THEN 2 * backoff ELSE MaxBackoff
  /\ UNCHANGED <<kind, phase, since, kafkaVars, outages, consumer, consuming, clientVars>>

(* A mutant: startConsumer gives up after one attempt. *)
ConnectOnce ==
  /\ NodePod
  /\ Alive
  /\ starter = "sleeping" /\ wait = 0
  /\ starter' = "returned"
  /\ UNCHANGED <<kind, phase, since, wait, backoff, kafkaVars, outages, consumer, consuming, clientVars>>

(* A mutant: while (true). *)
ConnectForever ==
  /\ NodePod
  /\ Alive
  /\ starter = "sleeping" /\ wait = 0
  /\ starter' = "connecting" /\ wait' = ConnectTime
  /\ hindered' = ((Stopping /\ hindered) \/ ~kafkaUp)
  /\ UNCHANGED <<kind, phase, since, backoff, kafkaUp, outages, consumer, consuming, clientVars>>

(* while (!stopping) *)
ConnectAgain ==
  /\ NodePod
  /\ Alive
  /\ starter = "sleeping" /\ wait = 0
  /\ IF Stopping THEN starter' = "returned" /\ UNCHANGED <<wait, hindered>>
                 ELSE starter' = "connecting" /\ wait' = ConnectTime /\ hindered' = ~kafkaUp
  /\ UNCHANGED <<kind, phase, since, backoff, kafkaUp, outages, consumer, consuming, clientVars>>

(* CRASH: kafkajs restarts the consumer by itself, and reports GROUP_JOIN when it is back. *)
ConsumerCrash ==
  /\ NodePod
  /\ Alive
  /\ consumer = "on" /\ consuming /\ ~kafkaUp
  /\ consuming' = FALSE
  /\ UNCHANGED <<kind, phase, since, startVars, kafkaVars, outages, clientVars>>

GroupJoin ==
  /\ NodePod
  /\ Alive
  /\ consumer = "on" /\ ~consuming /\ kafkaUp
  /\ consuming' = TRUE
  /\ UNCHANGED <<kind, phase, since, startVars, kafkaVars, outages, clientVars>>

KafkaFails ==
  /\ NodePod
  /\ kafkaUp /\ outages < MaxOutages
  /\ kafkaUp' = FALSE /\ hindered' = TRUE /\ outages' = outages + 1
  /\ UNCHANGED <<kind, phase, since, startVars, consuming, clientVars>>

KafkaReturns ==
  /\ NodePod
  /\ ~kafkaUp
  /\ kafkaUp' = TRUE
  /\ UNCHANGED <<kind, phase, since, startVars, hindered, outages, consuming, clientVars>>

-----------------------------------------------------------------------------
(* WebSockets *)

(* The upgrade: possible as long as the HTTP server listens. *)
Open(c) ==
  /\ NodePod
  /\ phase \in {"serving", "delay"}
  /\ socket[c] = "none" /\ c \notin silent
  /\ socket' = [socket EXCEPT ![c] = "open"]
  /\ isAlive' = [isAlive EXCEPT ![c] = TRUE]
  /\ UNCHANGED <<kind, phase, since, startVars, kafkaVars, outages, consuming, silent>>

GoSilent(c) ==
  /\ NodePod
  /\ Alive
  /\ c \in MaySilence \ silent /\ socket[c] = "open"
  /\ silent' = silent \cup {c}
  /\ UNCHANGED <<kind, phase, since, startVars, kafkaVars, outages, consuming, socket, isAlive>>

(* One heartbeat: those who have not answered the last ping are terminated. *)
Heartbeat ==
  /\ NodePod
  /\ phase \in {"serving", "delay"}
  /\ socket' = [c \in Clients |-> IF socket[c] = "open" /\ ~isAlive[c] THEN "none" ELSE socket[c]]
  /\ isAlive' = [c \in Clients |-> socket'[c] # "open"]
  /\ UNCHANGED <<kind, phase, since, startVars, kafkaVars, outages, consuming, silent>>

Pong(c) ==
  /\ NodePod
  /\ Alive
  /\ socket[c] = "open" /\ ~isAlive[c] /\ c \notin silent
  /\ isAlive' = [isAlive EXCEPT ![c] = TRUE]
  /\ UNCHANGED <<kind, phase, since, startVars, kafkaVars, outages, consuming, socket, silent>>

(* The client answers the close frame, or ws gives up on it. *)
Closed(c) ==
  /\ NodePod
  /\ socket[c] = "closing"
  /\ c \notin silent \/ since >= Delay + CloseTimeout
  /\ socket' = [socket EXCEPT ![c] = "none"]
  /\ UNCHANGED <<kind, phase, since, startVars, kafkaVars, outages, consuming, silent, isAlive>>

-----------------------------------------------------------------------------
(* shutdown *)

(* An outage that is over counts no more, unless it has struck the attempt that is under
   way, or a consumer that has not joined the group again.                              *)
Shutdown ==
  /\ NodePod
  /\ phase = "serving"
  /\ phase' = "delay"
  /\ hindered' = \/ ~kafkaUp
                 \/ starter = "connecting" /\ hindered
                 \/ consumer = "on" /\ ~consuming
  /\ UNCHANGED <<kind, since, startVars, kafkaUp, outages, consuming, clientVars>>

(* clearInterval, ws.close for every client, server.close *)
CloseSockets ==
  /\ NodePod
  /\ phase = "delay" /\ since >= Delay
  /\ phase' = "closing"
  /\ socket' = [c \in Clients |-> IF socket[c] = "open" THEN "closing" ELSE socket[c]]
  /\ UNCHANGED <<kind, since, startVars, kafkaVars, outages, consuming, silent, isAlive>>

(* server.close calls back once no connection is left. *)
ServerClosed ==
  /\ NodePod
  /\ phase = "closing"
  /\ \A c \in Clients : socket[c] = "none"
  /\ phase' = "await"
  /\ UNCHANGED <<kind, since, startVars, kafkaVars, outages, consuming, clientVars>>

(* A mutant: shutdown does not wait for startConsumer. *)
StarterDone == TRUE

(* await consumerStarted *)
ConsumerStarted == starter = "returned"

(* consumer.disconnect is called: the message and the fetch in progress end, and the group
   is left. The producer and the Redis clients follow.                                   *)
Disconnect ==
  /\ NodePod
  /\ phase = "await"
  /\ ConsumerStarted
  /\ phase' = "leaving"
  /\ wait' = IF consumer = "on" THEN LeaveTime ELSE 0
  /\ UNCHANGED <<kind, since, starter, backoff, consumer, kafkaVars, outages, consuming, clientVars>>

(* They are done, or their errors are caught: while Kafka answers, within LeaveTime. *)
Disconnected ==
  /\ NodePod
  /\ phase = "leaving"
  /\ phase' = "disconnected"
  /\ consumer' = "off" /\ wait' = 0
  /\ UNCHANGED <<kind, since, starter, backoff, kafkaVars, outages, consuming, clientVars>>

NodeExit ==
  /\ NodePod
  /\ phase = "disconnected"
  /\ phase' = "exited"
  /\ UNCHANGED <<kind, since, startVars, kafkaVars, outages, consuming, clientVars>>

NodeForceExit ==
  /\ NodePod
  /\ Alive /\ Stopping
  /\ since >= Timer
  /\ phase' = "forced"
  /\ UNCHANGED <<kind, since, startVars, kafkaVars, outages, consuming, clientVars>>

(* Responsive clients answer within a second; main() goes on at once. Nothing is known of
   how long kafkajs takes over what an outage has hindered.                              *)
NodeDue ==
  \/ phase = "delay" /\ since >= Delay
  \/ phase = "closing" /\ \A c \in Clients : socket[c] = "none"
  \/ phase = "await" /\ ConsumerStarted
  \/ phase = "leaving" /\ wait = 0 /\ ~hindered
  \/ phase = "disconnected"
  \/ Stopping /\ since >= Timer
  \/ starter = "connecting" /\ wait = 0 /\ ~hindered
  \/ starter = "sleeping" /\ wait = 0
  \/ \E c \in Clients : socket[c] = "closing" /\ c \notin silent

NodeTick ==
  /\ NodePod
  /\ Alive /\ ~NodeDue
  /\ since' = IF Stopping THEN since + 1 ELSE since
  /\ wait' = IF wait > 0 THEN wait - 1 ELSE 0
  /\ UNCHANGED <<kind, phase, starter, backoff, kafkaVars, outages, consumer, consuming, clientVars>>

Starter == Connected \/ ConnectFails \/ ConnectAgain
Main == CloseSockets \/ ServerClosed \/ Disconnect \/ Disconnected \/ NodeExit

NodeNext ==
  \/ Starter \/ ConsumerCrash \/ GroupJoin \/ KafkaFails \/ KafkaReturns
  \/ \E c \in Clients : Open(c) \/ GoSilent(c) \/ Pong(c) \/ Closed(c)
  \/ Heartbeat
  \/ Shutdown \/ Main \/ NodeForceExit \/ NodeTick

(* Timers run, kafkajs rejoins, clients that are not silent answer, Kafka comes back. *)
NodeFairness ==
  /\ WF_nodePod(NodeTick) /\ WF_nodePod(Starter) /\ WF_nodePod(Main) /\ WF_nodePod(NodeForceExit)
  /\ WF_nodePod(GroupJoin) /\ WF_nodePod(KafkaReturns)
  /\ \A c \in Clients : WF_nodePod(Closed(c))

-----------------------------------------------------------------------------
(* A pod that exits has left the consumer group for good: startConsumer, wherever SIGTERM
   found it, neither runs the consumer after shutdown has disconnected it nor is still at
   it.                                                                                   *)
NothingLeftRunning ==
  NodePod /\ phase \in {"disconnected", "exited"} => consumer = "off" /\ starter = "returned"

(* If the timer has to end the pod, then because others do not answer: a silent client, or
   Kafka, during the shutdown or the attempt to connect that SIGTERM has met. An outage that
   is over, however far it has made the backoff grow, is no reason, and nor is a consumer
   that is only being started: shutdown's awaits fit into its timer.                      *)
ForcedByOthersOnly ==
  NodePod /\ phase = "forced" => hindered \/ \E c \in silent : socket[c] = "closing"

(* Kafka down at startup is not fatal: the pod becomes ready once Kafka stays up. *)
EventuallyConsuming == NodePod => <>(consuming \/ Stopping)
==============================================================================
