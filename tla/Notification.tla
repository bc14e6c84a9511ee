---------------------------- MODULE Notification -----------------------------
(***************************************************************************)
(* The notification service: one pod of the group "notification" handles   *)
(* an event, skips it if its Redis key says that it has been seen, and     *)
(* publishes it on a Redis channel; every pod is subscribed to the channel *)
(* and pushes to the users who are connected to it.                        *)
(***************************************************************************)
EXTENDS ConsumerGroup, SequencesExt

CONSTANTS
  Users,
  MessagesFor,    \* event id -> the users messagesFor addresses, in its order
  Connections,    \* <<pod, user>> of the WebSockets, all open at the start
  NoLane,         \* no message in hand
  MaxFaults,      \* bound: failed calls, crashed pods and closed sockets
  MaxResends,     \* bound: commands that ioredis sends again after a reconnect
  MaxRebalances   \* bound

(* A message: form says what JSON.parse and messagesFor make of it. "null" is a
   message without a value.                                                     *)
ASSUME NotificationAssumption ==
  /\ MaxFaults \in Nat /\ MaxResends \in Nat /\ MaxRebalances \in Nat
  /\ Connections \subseteq Consumers \X Users
  /\ \A l \in Lanes : \A n \in 1..Len(Log[l]) :
       /\ Log[l][n].form \in {"valid", "malformed", "null"}
       /\ Log[l][n].form = "valid" => Log[l][n].id \in DOMAIN MessagesFor

(* messagesFor addresses a deposit's or an alert's user, or the two users of a transfer,
   who differ: a wallet does not send to itself, and a user has only one.               *)
ASSUME AddressAssumption ==
  \A e \in DOMAIN MessagesFor :
    /\ MessagesFor[e] \in Seq(Users) \ {<<>>}
    /\ \A i, j \in 1..Len(MessagesFor[e]) : MessagesFor[e][i] = MessagesFor[e][j] => i = j

VARIABLES
  pc,          \* pod -> where its handle() is
  lane,        \* pod -> lane of the message in hand
  out,         \* pod -> users it has still to publish the event to
  seen,        \* Redis: events whose notif:seen key is set
  subscribed,  \* pods whose subscriber gets the channel's messages
  inbox,       \* pod -> messages <<event, user>> of the channel it has still to push
  connected,   \* open WebSockets, as <<pod, user>>
  pushed,      \* history: event -> WebSockets <<pod, user>> it was pushed to
  published,   \* history: event -> user -> how often it was published
  dlq,         \* messages, as <<lane, offset>>, sent to the .dlq topics
  faults, resends, rebalances

redis == <<seen, subscribed, inbox>>
sockets == <<connected, pushed>>
counters == <<faults, resends, rebalances>>
vars == <<group, position, pc, lane, out, redis, sockets, published, dlq, counters>>

Events == DOMAIN MessagesFor

Init ==
  /\ GroupInit
  /\ pc = [c \in Consumers |-> "idle"]
  /\ lane = [c \in Consumers |-> NoLane]
  /\ out = [c \in Consumers |-> <<>>]
  /\ seen = {}
  /\ subscribed = Consumers
  /\ inbox = [c \in Consumers |-> <<>>]
  /\ connected = Connections
  /\ pushed = [e \in Events |-> {}]
  /\ published = [e \in Events |-> [u \in Users |-> 0]]
  /\ dlq = {}
  /\ faults = 0 /\ resends = 0 /\ rebalances = 0

Fault == faults < MaxFaults /\ faults' = faults + 1 /\ UNCHANGED <<resends, rebalances>>
Resend == resends < MaxResends /\ resends' = resends + 1 /\ UNCHANGED <<faults, rebalances>>

Offset(c) == position[c][lane[c]] + 1
Event(c) == Log[lane[c]][Offset(c)].id

-----------------------------------------------------------------------------
(* The consumer group. *)

Rebalance(l, c) ==
  /\ GiveAway(l, c)
  /\ rebalances < MaxRebalances /\ rebalances' = rebalances + 1
  /\ UNCHANGED <<pc, lane, out, redis, sockets, published, dlq, faults, resends>>

(* The consumer is started once the subscription stands. *)
Poll(c, l) ==
  /\ pc[c] = "idle" /\ c \in subscribed
  /\ Learn(c, l)
  /\ UNCHANGED <<pc, lane, out, redis, sockets, published, dlq, counters>>

CommitOffset(c, l) ==
  /\ CommitPosition(c, l)
  /\ UNCHANGED <<pc, lane, out, redis, sockets, published, dlq, counters>>

-----------------------------------------------------------------------------
(* handle *)

PutDown(c) ==
  /\ pc' = [pc EXCEPT ![c] = "idle"]
  /\ lane' = [lane EXCEPT ![c] = NoLane]
  /\ out' = [out EXCEPT ![c] = <<>>]

(* handle returns: the message is done with. *)
Return(c) ==
  /\ PutDown(c)
  /\ position' = [position EXCEPT ![c][lane[c]] = @ + 1]

(* handle throws: kafkajs calls it again with the same message. *)
Throw(c) == PutDown(c) /\ UNCHANGED position

GoOn(c, label, users) ==
  /\ pc' = [pc EXCEPT ![c] = label]
  /\ out' = [out EXCEPT ![c] = users]
  /\ UNCHANGED <<lane, position>>

(* Where the parsing ends: at redis.set, in the catch block with an InvalidEvent or a
   SyntaxError, or there with a TypeError.                                           *)
Parse(m) == CASE m.form = "valid" -> "seen" [] m.form = "malformed" -> "dlq" [] OTHER -> "throw"

Handle(c, l) ==
  /\ pc[c] = "idle" /\ c \in subscribed
  /\ HasNext(c, l)
  /\ lane' = [lane EXCEPT ![c] = l]
  /\ pc' = [pc EXCEPT ![c] = Parse(Log[l][position[c][l] + 1])]
  /\ UNCHANGED <<group, position, out, redis, sockets, published, dlq, counters>>

Rethrow(c) ==
  /\ pc[c] = "throw"
  /\ Throw(c)
  /\ UNCHANGED <<group, redis, sockets, published, dlq, counters>>

(* A mutant: SET without NX, which always answers OK. *)
SetSeenAlways(c) ==
  /\ pc[c] = "seen"
  /\ GoOn(c, "publish", MessagesFor[Event(c)])
  /\ seen' = seen \cup {Event(c)}
  /\ UNCHANGED <<group, subscribed, inbox, sockets, published, dlq, counters>>

(* SET notif:seen:... NX *)
SetSeen(c) ==
  /\ pc[c] = "seen"
  /\ IF Event(c) \in seen THEN Return(c) ELSE GoOn(c, "publish", MessagesFor[Event(c)])
  /\ seen' = seen \cup {Event(c)}
  /\ UNCHANGED <<group, subscribed, inbox, sockets, published, dlq, counters>>

(* The connection breaks after the SET and ioredis sends it again: "not fresh". *)
SetSeenResent(c) ==
  /\ pc[c] = "seen"
  /\ Resend
  /\ Return(c)
  /\ seen' = seen \cup {Event(c)}
  /\ UNCHANGED <<group, subscribed, inbox, sockets, published, dlq>>

(* A mutant: the pod that has the event pushes it, to its own users. *)
PublishHere(c, times) ==
  LET u == Head(out[c]) IN
  /\ published' = [published EXCEPT ![Event(c)][u] = @ + times]
  /\ inbox' = [inbox EXCEPT ![c] = Append(@, <<Event(c), u>>)]

(* PUBLISH: the message goes to every subscriber there is. *)
PublishTo(c, times) ==
  LET u == Head(out[c]) IN
  /\ published' = [published EXCEPT ![Event(c)][u] = @ + times]
  /\ inbox' = [p \in Consumers |->
                 IF p \in subscribed THEN inbox[p] \o [n \in 1..times |-> <<Event(c), u>>] ELSE inbox[p]]

Publish(c) ==
  /\ pc[c] = "publish"
  /\ \/ PublishTo(c, 1) /\ UNCHANGED counters
     \/ PublishTo(c, 2) /\ Resend
  /\ GoOn(c, IF Len(out[c]) = 1 THEN "webhook" ELSE "publish", Tail(out[c]))
  /\ UNCHANGED <<group, seen, subscribed, sockets, dlq>>

(* callWebhook, which never throws; handle returns. *)
CallWebhook(c) ==
  /\ pc[c] = "webhook"
  /\ Return(c)
  /\ UNCHANGED <<group, redis, sockets, published, dlq, counters>>

(* A mutant: nothing is thrown on. *)
RedisFailsIgnored(c) ==
  /\ Fault
  /\ pc[c] \in {"seen", "publish"}
  /\ Return(c)
  /\ UNCHANGED <<group, redis, sockets, published, dlq>>

(* Redis fails at the SET or a PUBLISH, which may have taken effect: thrown on. *)
RedisFails(c) ==
  /\ Fault
  /\ \/ /\ pc[c] = "seen"
        /\ seen' \in {seen, seen \cup {Event(c)}}
        /\ UNCHANGED <<inbox, published>>
     \/ /\ pc[c] = "publish"
        /\ PublishTo(c, 1) \/ UNCHANGED <<inbox, published>>
        /\ seen' = seen
  /\ Throw(c)
  /\ UNCHANGED <<group, subscribed, sockets, dlq>>

(* dlqProducer.send *)
SendDlq(c) ==
  /\ pc[c] = "dlq"
  /\ dlq' = dlq \cup {<<lane[c], Offset(c)>>}
  /\ Return(c)
  /\ UNCHANGED <<group, redis, sockets, published, counters>>

SendDlqFails(c) ==
  /\ pc[c] = "dlq"
  /\ Fault
  /\ dlq' \in {dlq, dlq \cup {<<lane[c], Offset(c)>>}}
  /\ Throw(c)
  /\ UNCHANGED <<group, redis, sockets, published>>

-----------------------------------------------------------------------------
(* Fan-out: subscriber.on('message') pushes to the user's sockets on this pod. *)
Push(p) ==
  LET e == Head(inbox[p])[1]
      u == Head(inbox[p])[2] IN
  /\ inbox[p] # <<>>
  /\ inbox' = [inbox EXCEPT ![p] = Tail(@)]
  /\ pushed' = IF <<p, u>> \in connected THEN [pushed EXCEPT ![e] = @ \cup {<<p, u>>}] ELSE pushed
  /\ UNCHANGED <<group, position, pc, lane, out, seen, subscribed, connected, published, dlq, counters>>

(* server.on('upgrade'): a user of this pod connects again. *)
Connect(p, u) ==
  /\ <<p, u>> \in Connections \ connected
  /\ connected' = connected \cup {<<p, u>>}
  /\ UNCHANGED <<group, position, pc, lane, out, redis, pushed, published, dlq, counters>>

(* The socket closes, or the heartbeat terminates it. *)
Disconnect(p, u) ==
  /\ <<p, u>> \in connected
  /\ Fault
  /\ connected' = connected \ {<<p, u>>}
  /\ UNCHANGED <<group, position, pc, lane, out, redis, pushed, published, dlq>>

(* A pod dies and is started again: it listens before it has subscribed. *)
Crash(p) ==
  /\ Fault
  /\ PutDown(p) /\ Forget(p)
  /\ subscribed' = subscribed \ {p}
  /\ inbox' = [inbox EXCEPT ![p] = <<>>]
  /\ connected' = {w \in connected : w[1] # p}
  /\ UNCHANGED <<seen, pushed, published, dlq>>

Subscribe(p) ==
  /\ p \notin subscribed
  /\ subscribed' = subscribed \cup {p}
  /\ UNCHANGED <<group, position, pc, lane, out, seen, inbox, sockets, published, dlq, counters>>

-----------------------------------------------------------------------------
Consume(c) ==
  \/ \E l \in Lanes : Poll(c, l) \/ Handle(c, l)
  \/ Rethrow(c) \/ SetSeen(c) \/ Publish(c) \/ CallWebhook(c) \/ SendDlq(c)

Next ==
  \/ \E c \in Consumers :
       \/ Consume(c) \/ Push(c) \/ Subscribe(c)
       \/ SetSeenResent(c) \/ RedisFails(c) \/ SendDlqFails(c) \/ Crash(c)
       \/ \E l \in Lanes : CommitOffset(c, l) \/ Rebalance(l, c)
       \/ \E u \in Users : Connect(c, u) \/ Disconnect(c, u)

Spec == Init /\ [][Next]_vars

(* Consumers and subscribers go on, and commit what they have handled. *)
Fairness ==
  /\ \A c \in Consumers : WF_vars(Consume(c)) /\ WF_vars(Push(c)) /\ WF_vars(Subscribe(c))
  /\ \A c \in Consumers, l \in Lanes : WF_vars(CommitOffset(c, l))

FairSpec == Spec /\ Fairness

-----------------------------------------------------------------------------
(* "Skip redelivered events so users don't see the same notification twice": retries,
   zombies and the same event in two messages notwithstanding, a user's message is
   published once (and once more for each command that the Redis client repeats).    *)
PublishedOnce ==
  \A e \in Events, u \in Users : published[e][u] <= 1 + resends

(* A committed offset has nothing behind it but bad messages in the DLQ and events that
   some pod has at least begun to publish; and only bad messages are in the DLQ.        *)
NothingIgnored ==
  /\ \A l \in Lanes : \A n \in 1..committed[l] :
       IF Log[l][n].form = "valid" THEN Log[l][n].id \in seen ELSE <<l, n>> \in dlq
  /\ \A d \in dlq : Log[d[1]][d[2]].form # "valid"

(* The topic holds the event with no message in front of it that handle can only throw at. *)
InReach(e) ==
  \E l \in Lanes : \E n \in 1..Len(Log[l]) :
    /\ Log[l][n].form = "valid" /\ Log[l][n].id = e
    /\ \A m \in 1..(n - 1) : Log[l][m].form # "null"

(* An event reaches every WebSocket that its users had open, on whichever pods these are,
   unless a call failed, a pod or a socket went down or a command was sent twice, or a
   message without a value stands before it in its partition. A rebalance in the middle of
   it, malformed messages before it and a message without a value behind it are no excuse. *)
EveryoneIsTold ==
  \A e \in Events : \A w \in Connections :
    InReach(e) /\ w[2] \in ToSet(MessagesFor[e]) =>
      <>(w \in pushed[e] \/ faults > 0 \/ resends > 0)

(* "Malformed messages go to <topic>.dlq" (docs/HANDOVER.md): a message that is no event
   ends up there, and its partition goes on. handle does that for what JSON.parse and
   messagesFor refuse, but not for a message without a value.                            *)
MalformedGoToDlq ==
  \A l \in Lanes : \A n \in 1..Len(Log[l]) :
    Log[l][n].form # "valid" => <>(<<l, n>> \in dlq)
==============================================================================
