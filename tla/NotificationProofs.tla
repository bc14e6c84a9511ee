-------------------------- MODULE NotificationProofs --------------------------
(***************************************************************************)
(* Theorems about Notification, for any pods, topics, users and number of  *)
(* faults: a message is published once, and a committed offset leaves      *)
(* nothing behind.                                                         *)
(***************************************************************************)
EXTENDS Notification, TLAPS

Message(c) == Log[lane[c]][Offset(c)]

Types ==
  /\ committed \in [Lanes -> Nat]
  /\ position \in [Consumers -> [Lanes -> Nat]]
  /\ pc \in [Consumers -> {"idle", "throw", "dlq", "seen", "publish", "webhook"}]
  /\ lane \in [Consumers -> Lanes \cup {NoLane}]
  /\ out \in [Consumers -> Seq(Users)]
  /\ published \in [Events -> [Users -> Nat]]
  /\ resends \in Nat

(* The message in hand exists, and is of a form that may have got this far. *)
InHand(c) ==
  pc[c] # "idle" =>
    /\ lane[c] \in Lanes /\ Offset(c) \in 1..Len(Log[lane[c]])
    /\ pc[c] = "dlq" => Message(c).form # "valid"
    /\ pc[c] \in {"seen", "publish", "webhook"} => Message(c).form = "valid"
    /\ pc[c] \in {"publish", "webhook"} => Event(c) \in seen
    /\ pc[c] = "publish" => out[c] # <<>>

TypeInv == Types /\ \A c \in Consumers : InHand(c)

LEMMA InitType == Init => TypeInv
<1> SUFFICES ASSUME Init PROVE TypeInv
  OBVIOUS
<1>1. Types
  BY DEF Init, GroupInit, Types
<1>2. \A c \in Consumers : InHand(c)
  BY DEF Init, InHand
<1> QED BY <1>1, <1>2 DEF TypeInv

(* Steps of one pod's consumer; the others are of the group, of Redis and of the sockets. *)
StepOf(c) ==
  Consume(c) \/ SetSeenResent(c) \/ RedisFails(c) \/ SendDlqFails(c) \/ Crash(c)

Handling == <<pc, lane, out, position, seen, published, resends, dlq>>
Local(c) == <<pc[c], lane[c], out[c], position[c]>>

LEMMA NextCases ==
  ASSUME [Next]_vars
  PROVE  \/ UNCHANGED Handling
         \/ \E c \in Consumers : StepOf(c)
<1>1. CASE UNCHANGED vars
  BY <1>1 DEF vars, Handling, redis, counters
<1>2. CASE \E c \in Consumers : StepOf(c)
  BY <1>2
<1>3. ASSUME NEW c \in Consumers, Push(c) \/ Subscribe(c) PROVE UNCHANGED Handling
  BY <1>3 DEF Push, Subscribe, Handling, redis, counters
<1>4. ASSUME NEW c \in Consumers, NEW l \in Lanes, CommitOffset(c, l) \/ Rebalance(l, c)
      PROVE  UNCHANGED Handling
  BY <1>4 DEF CommitOffset, CommitPosition, Rebalance, GiveAway, Handling, redis, counters
<1>5. ASSUME NEW c \in Consumers, NEW u \in Users, Connect(c, u) \/ Disconnect(c, u)
      PROVE  UNCHANGED Handling
  BY <1>5 DEF Connect, Disconnect, Fault, Handling, redis, counters
<1> QED
  BY <1>1, <1>2, <1>3, <1>4, <1>5 DEF Next, StepOf

LEMMA StepOthers ==
  ASSUME TypeInv, NEW c \in Consumers, StepOf(c), NEW d \in Consumers \ {c}
  PROVE  Local(d)' = Local(d)
<1> USE DEF TypeInv, Types, Local
<1>1. CASE \E l \in Lanes : Poll(c, l) \/ Handle(c, l)
  BY <1>1 DEF Poll, Learn, Handle
<1>2. CASE Rethrow(c) \/ SetSeen(c) \/ SetSeenResent(c) \/ CallWebhook(c)
  BY <1>2 DEF Rethrow, SetSeen, SetSeenResent, CallWebhook, Throw, Return, PutDown, GoOn
<1>3. CASE Publish(c)
  BY <1>3 DEF Publish, GoOn
<1>4. CASE RedisFails(c) \/ SendDlq(c) \/ SendDlqFails(c) \/ Crash(c)
  BY <1>4 DEF RedisFails, SendDlq, SendDlqFails, Crash, Throw, Return, PutDown, Forget
<1> QED
  BY <1>1, <1>2, <1>3, <1>4 DEF StepOf, Consume

LEMMA TailLeft ==
  ASSUME NEW s \in Seq(Users), s # <<>>, Len(s) # 1
  PROVE  Tail(s) # <<>>
<1>1. Len(s) \in Nat /\ Len(s) > 0
  OBVIOUS
<1>2. Len(Tail(s)) = Len(s) - 1
  BY <1>1
<1>3. Len(Tail(s)) # 0
  BY <1>1, <1>2
<1>4. Len(<<>>) = 0
  OBVIOUS
<1> QED BY <1>3, <1>4, Zenon

(* What a step does to the shared state: seen and the DLQ only grow, and a publish is one
   of a pod that has set the event's key.                                                *)
Publishes(c, times) ==
  /\ pc[c] = "publish"
  /\ published' = [published EXCEPT ![Event(c)][Head(out[c])] = @ + times]
  /\ pc'[c] = "publish" => out'[c] = Tail(out[c]) /\ Tail(out[c]) # <<>>
                           /\ lane'[c] = lane[c] /\ position'[c] = position[c]

LEMMA StepShared ==
  ASSUME TypeInv, NEW c \in Consumers, StepOf(c)
  PROVE  /\ seen \subseteq seen' /\ dlq \subseteq dlq'
         /\ \/ published' = published /\ resends' \in {resends, resends + 1}
            \/ Publishes(c, 1) /\ resends' = resends
            \/ Publishes(c, 2) /\ resends' = resends + 1
<1> USE DEF TypeInv, Types
<1>1. CASE \E l \in Lanes : Poll(c, l) \/ Handle(c, l)
  BY <1>1 DEF Poll, Handle, redis, counters
<1>2. CASE Rethrow(c) \/ SetSeen(c) \/ CallWebhook(c) \/ SendDlq(c)
  BY <1>2 DEF Rethrow, SetSeen, CallWebhook, SendDlq, redis, counters
<1>3. CASE SetSeenResent(c)
  BY <1>3 DEF SetSeenResent, Resend
<1>4. CASE SendDlqFails(c) \/ Crash(c)
  BY <1>4 DEF SendDlqFails, Crash, Fault, redis
<1>5. CASE Publish(c)
  <2>1. /\ pc[c] = "publish"
        /\ pc' = [pc EXCEPT ![c] = IF Len(out[c]) = 1 THEN "webhook" ELSE "publish"]
        /\ out' = [out EXCEPT ![c] = Tail(out[c])]
        /\ UNCHANGED <<lane, position, seen, dlq>>
    BY <1>5 DEF Publish, GoOn
  <2>2. out[c] \in Seq(Users) /\ out[c] # <<>>
    BY <2>1 DEF InHand
  <2>3. Len(out[c]) # 1 => Tail(out[c]) # <<>>
    BY <2>2, TailLeft
  <2>4. pc'[c] = "publish" => Len(out[c]) # 1
    BY <2>1
  <2>5. out'[c] = Tail(out[c])
    BY <2>1
  <2> QED BY <1>5, <2>1, <2>3, <2>4, <2>5 DEF Publish, PublishTo, Publishes, Resend, counters
<1>6. CASE RedisFails(c)
  BY <1>6 DEF RedisFails, Fault, PublishTo, Publishes, Throw, PutDown
<1> QED
  BY <1>1, <1>2, <1>3, <1>4, <1>5, <1>6 DEF StepOf, Consume

LEMMA EventTyped ==
  ASSUME TypeInv, NEW c \in Consumers, pc[c] \in {"seen", "publish", "webhook"}
  PROVE  Event(c) \in Events /\ Message(c).form = "valid" /\ Message(c).id = Event(c)
  BY NotificationAssumption DEF TypeInv, InHand, Message, Event, Events

LEMMA StepPublished ==
  ASSUME TypeInv, NEW c \in Consumers, StepOf(c)
  PROVE  published' \in [Events -> [Users -> Nat]] /\ resends' \in Nat
<1>1. ASSUME NEW times \in {1, 2}, Publishes(c, times)
      PROVE  published' \in [Events -> [Users -> Nat]]
  <2>1. Event(c) \in Events
    BY <1>1, EventTyped DEF Publishes
  <2>2. out[c] \in Seq(Users) /\ out[c] # <<>>
    BY <1>1 DEF Publishes, TypeInv, Types, InHand
  <2>3. Head(out[c]) \in Users
    BY <2>2
  <2>4. published \in [Events -> [Users -> Nat]]
    BY DEF TypeInv, Types
  <2>5. PICK e \in Events, u \in Users : e = Event(c) /\ u = Head(out[c])
    BY <2>1, <2>3
  <2>6. published' = [published EXCEPT ![e][u] = @ + times]
    BY <1>1, <2>5 DEF Publishes
  <2>7. published[e] \in [Users -> Nat] /\ published[e][u] + times \in Nat
    BY <1>1, <2>4
  <2>8. [published[e] EXCEPT ![u] = @ + times] \in [Users -> Nat]
    BY <2>7
  <2> QED BY <2>4, <2>6, <2>8
<1>2. \/ published' = published /\ resends' \in {resends, resends + 1}
      \/ Publishes(c, 1) /\ resends' = resends
      \/ Publishes(c, 2) /\ resends' = resends + 1
  BY StepShared
<1>3. published \in [Events -> [Users -> Nat]] /\ resends \in Nat
  BY DEF TypeInv, Types
<1> QED BY <1>1, <1>2, <1>3

(* How far a step leaves the pod, and with what in hand. *)
LEMMA StepHand ==
  ASSUME TypeInv, NEW c \in Consumers, StepOf(c)
  PROVE  /\ pc' \in [Consumers -> {"idle", "throw", "dlq", "seen", "publish", "webhook"}]
         /\ lane' \in [Consumers -> Lanes \cup {NoLane}]
         /\ out' \in [Consumers -> Seq(Users)]
         /\ committed' = committed
         /\ InHand(c)'
<1> USE DEF TypeInv, Types
<1>0. ASSUME PutDown(c)
      PROVE  /\ pc' \in [Consumers -> {"idle", "throw", "dlq", "seen", "publish", "webhook"}]
             /\ lane' \in [Consumers -> Lanes \cup {NoLane}]
             /\ out' \in [Consumers -> Seq(Users)]
             /\ InHand(c)'
  BY <1>0 DEF PutDown, InHand
<1>1. ASSUME NEW l \in Lanes, Poll(c, l)
      PROVE  UNCHANGED <<pc, lane, out, committed>> /\ InHand(c)'
  BY <1>1 DEF Poll, Learn, InHand
<1>2. ASSUME NEW l \in Lanes, Handle(c, l)
      PROVE  /\ pc' \in [Consumers -> {"idle", "throw", "dlq", "seen", "publish", "webhook"}]
             /\ lane' \in [Consumers -> Lanes \cup {NoLane}]
             /\ out' = out /\ committed' = committed /\ InHand(c)'
  <2>1. PICK m : m = Log[l][position[c][l] + 1]
    OBVIOUS
  <2>2. position[c][l] + 1 \in 1..Len(Log[l])
    BY <1>2, LogAssumption DEF Handle, HasNext
  <2>3. m.form \in {"valid", "malformed", "null"}
    BY <2>1, <2>2, NotificationAssumption
  <2>4. /\ Parse(m) \in {"throw", "dlq", "seen"}
        /\ Parse(m) = "dlq" => m.form # "valid"
        /\ Parse(m) = "seen" => m.form = "valid"
    BY <2>3 DEF Parse
  <2>5. /\ lane' = [lane EXCEPT ![c] = l] /\ pc' = [pc EXCEPT ![c] = Parse(m)]
        /\ UNCHANGED <<position, out, committed>>
    BY <1>2, <2>1 DEF Handle, group
  <2>6. lane'[c] = l /\ pc'[c] = Parse(m) /\ position'[c] = position[c]
    BY <2>5
  <2>7. InHand(c)'
    BY <2>1, <2>2, <2>4, <2>6 DEF InHand, Offset, Message
  <2> QED BY <2>4, <2>5, <2>7
<1>3. CASE Rethrow(c) \/ CallWebhook(c) \/ SetSeenResent(c) \/ SendDlq(c) \/ RedisFails(c) \/ SendDlqFails(c)
  BY <1>0, <1>3 DEF Rethrow, CallWebhook, SetSeenResent, SendDlq, RedisFails, SendDlqFails, Return,
                    Throw, group
<1>4. CASE Crash(c)
  BY <1>0, <1>4 DEF Crash, Forget
<1>5. ASSUME SetSeen(c)
      PROVE  /\ pc' \in [Consumers -> {"idle", "throw", "dlq", "seen", "publish", "webhook"}]
             /\ lane' \in [Consumers -> Lanes \cup {NoLane}]
             /\ out' \in [Consumers -> Seq(Users)]
             /\ committed' = committed /\ InHand(c)'
  <2>1. CASE Return(c)
    BY <1>0, <1>5, <2>1 DEF SetSeen, Return, group
  <2>2. CASE GoOn(c, "publish", MessagesFor[Event(c)])
    <3>1. pc[c] = "seen" /\ Event(c) \in Events /\ Message(c).form = "valid"
      BY <1>5, EventTyped DEF SetSeen
    <3>2. MessagesFor[Event(c)] \in Seq(Users) /\ MessagesFor[Event(c)] # <<>>
      BY <3>1, AddressAssumption DEF Events
    <3>3. /\ pc' = [pc EXCEPT ![c] = "publish"]
          /\ out' = [out EXCEPT ![c] = MessagesFor[Event(c)]]
          /\ UNCHANGED <<lane, position, committed>> /\ Event(c) \in seen'
      BY <1>5, <2>2 DEF GoOn, SetSeen, group
    <3>4. pc'[c] = "publish" /\ out'[c] = MessagesFor[Event(c)]
      BY <3>3
    <3>5. Message(c)' = Message(c) /\ Event(c)' = Event(c) /\ Offset(c)' = Offset(c)
      BY <3>3 DEF Message, Event, Offset
    <3>6. lane[c] \in Lanes /\ Offset(c) \in 1..Len(Log[lane[c]])
      BY <3>1 DEF InHand
    <3>7. InHand(c)'
      BY <3>1, <3>2, <3>3, <3>4, <3>5, <3>6 DEF InHand
    <3> QED BY <3>2, <3>3, <3>7
  <2> QED BY <1>5, <2>1, <2>2 DEF SetSeen
<1>6. ASSUME Publish(c)
      PROVE  /\ pc' \in [Consumers -> {"idle", "throw", "dlq", "seen", "publish", "webhook"}]
             /\ lane' = lane
             /\ out' \in [Consumers -> Seq(Users)]
             /\ committed' = committed /\ InHand(c)'
  <2>1. /\ pc[c] = "publish"
        /\ pc' = [pc EXCEPT ![c] = IF Len(out[c]) = 1 THEN "webhook" ELSE "publish"]
        /\ out' = [out EXCEPT ![c] = Tail(out[c])]
        /\ UNCHANGED <<lane, position, seen, committed>>
    BY <1>6 DEF Publish, GoOn, group
  <2>2. out[c] \in Seq(Users) /\ out[c] # <<>>
    BY <2>1 DEF InHand
  <2>3. Tail(out[c]) \in Seq(Users)
    BY <2>2
  <2>4. Message(c)' = Message(c) /\ Event(c)' = Event(c) /\ Offset(c)' = Offset(c)
    BY <2>1 DEF Message, Event, Offset
  <2>5. pc'[c] = "publish" => out'[c] # <<>>
    <3>1. pc'[c] = "publish" => Len(out[c]) # 1
      BY <2>1
    <3>2. out'[c] = Tail(out[c])
      BY <2>1
    <3> QED BY <2>2, <3>1, <3>2, TailLeft
  <2>6. pc'[c] \in {"webhook", "publish"}
    BY <2>1
  <2>7. /\ lane[c] \in Lanes /\ Offset(c) \in 1..Len(Log[lane[c]])
        /\ Message(c).form = "valid" /\ Event(c) \in seen
    BY <2>1 DEF InHand
  <2>8. InHand(c)'
    BY <2>1, <2>4, <2>5, <2>6, <2>7 DEF InHand
  <2> QED BY <2>1, <2>3, <2>8
<1> QED
  BY <1>1, <1>2, <1>3, <1>4, <1>5, <1>6 DEF StepOf, Consume

(* Positions move past a message that is done with, or back to the committed offset. *)
Places(c) ==
  \/ position'[c] = position[c]
  \/ \E l \in Lanes : \E n \in {0, committed[l]} : position'[c] = [position[c] EXCEPT ![l] = n]
  \/ position'[c] = [l \in Lanes |-> 0]
  \/ /\ pc[c] # "idle" /\ position'[c] = [position[c] EXCEPT ![lane[c]] = @ + 1]
     /\ \/ Message(c).form = "valid" /\ Message(c).id \in seen'
        \/ Message(c).form # "valid" /\ <<lane[c], Offset(c)>> \in dlq'

LEMMA StepPlaces ==
  ASSUME TypeInv, NEW c \in Consumers, StepOf(c)
  PROVE  Places(c) /\ position' \in [Consumers -> [Lanes -> Nat]]
<1> USE DEF TypeInv, Types
<1>1. ASSUME NEW l \in Lanes, Poll(c, l)
      PROVE  Places(c) /\ position' \in [Consumers -> [Lanes -> Nat]]
  <2>1. PICK n \in {0, committed[l]} : position' = [position EXCEPT ![c][l] = n]
    BY <1>1 DEF Poll, Learn
  <2>2. n \in Nat
    OBVIOUS
  <2>3. position'[c] = [position[c] EXCEPT ![l] = n]
    BY <2>1
  <2>4. position' \in [Consumers -> [Lanes -> Nat]]
    BY <2>1, <2>2
  <2> QED BY <2>3, <2>4 DEF Places
<1>2. ASSUME position' = position
      PROVE  Places(c) /\ position' \in [Consumers -> [Lanes -> Nat]]
  BY <1>2 DEF Places
<1>3. ASSUME pc[c] # "idle", Return(c),
             \/ Message(c).form = "valid" /\ Message(c).id \in seen'
             \/ Message(c).form # "valid" /\ <<lane[c], Offset(c)>> \in dlq'
      PROVE  Places(c) /\ position' \in [Consumers -> [Lanes -> Nat]]
  <2>1. lane[c] \in Lanes
    BY <1>3 DEF InHand
  <2>2. position' = [position EXCEPT ![c][lane[c]] = @ + 1]
    BY <1>3 DEF Return
  <2>3. position'[c] = [position[c] EXCEPT ![lane[c]] = @ + 1]
    BY <2>2
  <2> QED BY <1>3, <2>1, <2>2, <2>3 DEF Places
<1>4. ASSUME NEW l \in Lanes, Handle(c, l) PROVE position' = position
  BY <1>4 DEF Handle
<1>5. CASE Rethrow(c) \/ RedisFails(c) \/ SendDlqFails(c) \/ Publish(c)
  BY <1>2, <1>5 DEF Rethrow, RedisFails, SendDlqFails, Publish, Throw, GoOn
<1>6. CASE SetSeen(c) \/ SetSeenResent(c) \/ CallWebhook(c)
  <2>1. Message(c).form = "valid" /\ Message(c).id = Event(c) /\ pc[c] # "idle"
    BY <1>6, EventTyped DEF SetSeen, SetSeenResent, CallWebhook
  <2>2. Return(c) => Event(c) \in seen'
    BY <1>6 DEF SetSeen, SetSeenResent, CallWebhook, InHand, redis
  <2>3. Return(c) \/ position' = position
    BY <1>6 DEF SetSeen, SetSeenResent, CallWebhook, GoOn
  <2> QED BY <1>2, <1>3, <2>1, <2>2, <2>3
<1>7. CASE SendDlq(c)
  BY <1>3, <1>7 DEF SendDlq, InHand
<1>8. CASE Crash(c)
  BY <1>8 DEF Crash, Forget, Places
<1> QED
  BY <1>1, <1>2, <1>4, <1>5, <1>6, <1>7, <1>8 DEF StepOf, Consume

LEMMA SameInHand ==
  ASSUME NEW c \in Consumers, InHand(c), Local(c)' = Local(c), seen \subseteq seen'
  PROVE  InHand(c)' /\ Event(c)' = Event(c) /\ pc'[c] = pc[c] /\ out'[c] = out[c]
<1>1. pc'[c] = pc[c] /\ lane'[c] = lane[c] /\ out'[c] = out[c] /\ position'[c] = position[c]
  BY DEF Local
<1>2. Event(c)' = Event(c) /\ Offset(c)' = Offset(c) /\ Message(c)' = Message(c)
  BY <1>1 DEF Event, Offset, Message
<1> QED BY <1>1, <1>2 DEF InHand

LEMMA TypeStep == TypeInv /\ [Next]_vars => TypeInv'
<1> SUFFICES ASSUME TypeInv, [Next]_vars PROVE TypeInv'
  OBVIOUS
<1>1. ASSUME NEW c \in Consumers, StepOf(c) PROVE TypeInv'
  <2>1. Types'
    BY <1>1, StepHand, StepPlaces, StepPublished DEF TypeInv, Types
  <2>2. ASSUME NEW d \in Consumers PROVE InHand(d)'
    <3>1. CASE d = c
      BY <1>1, <3>1, StepHand
    <3>2. CASE d # c
      BY <1>1, <3>2, StepOthers, StepShared, SameInHand DEF TypeInv
    <3> QED BY <3>1, <3>2
  <2> QED BY <2>1, <2>2 DEF TypeInv
<1>2. CASE UNCHANGED Handling
  <2>1. committed' \in [Lanes -> Nat]
    <3>1. committed' = committed \/
          \E c \in Consumers, l \in Lanes : committed' = [committed EXCEPT ![l] = position[c][l]]
      BY StepHand DEF Next, vars, group, StepOf, CommitOffset, CommitPosition, Rebalance, GiveAway, Push,
                      Subscribe, Connect, Disconnect
    <3> QED BY <3>1 DEF TypeInv, Types
  <2>2. ASSUME NEW d \in Consumers PROVE InHand(d)'
    BY <1>2, SameInHand DEF TypeInv, Handling, Local
  <2> QED BY <1>2, <2>1, <2>2 DEF TypeInv, Types, Handling
<1> QED BY <1>1, <1>2, NextCases

-----------------------------------------------------------------------------
(* Nothing is left behind an offset. *)

Done(l, n) == IF Log[l][n].form = "valid" THEN Log[l][n].id \in seen ELSE <<l, n>> \in dlq

AllDone(l, n) == \A i \in 1..n : Done(l, i)

BehindInv ==
  /\ \A l \in Lanes : AllDone(l, committed[l])
  /\ \A c \in Consumers, l \in Lanes : AllDone(l, position[c][l])
  /\ \A d \in dlq : Log[d[1]][d[2]].form # "valid"

LEMMA InitBehind == Init => BehindInv
  BY DEF Init, GroupInit, BehindInv, AllDone

LEMMA DoneGrows ==
  ASSUME seen \subseteq seen', dlq \subseteq dlq', NEW l, NEW n, AllDone(l, n)
  PROVE  AllDone(l, n)'
  BY DEF AllDone, Done

LEMMA DoneAdvances ==
  ASSUME NEW l, NEW n \in Nat, AllDone(l, n)', Done(l, n + 1)'
  PROVE  AllDone(l, n + 1)'
<1>1. ASSUME NEW i \in 1..(n + 1) PROVE i \in 1..n \/ i = n + 1
  OBVIOUS
<1> QED BY <1>1 DEF AllDone

LEMMA StepDlq ==
  ASSUME TypeInv, BehindInv, NEW c \in Consumers, StepOf(c)
  PROVE  \A d \in dlq' : Log[d[1]][d[2]].form # "valid"
<1>1. \/ dlq' = dlq
      \/ pc[c] = "dlq" /\ dlq' = dlq \cup {<<lane[c], Offset(c)>>}
  BY DEF StepOf, Consume, Poll, Handle, Rethrow, SetSeen, Publish, CallWebhook, SendDlq,
         SetSeenResent, RedisFails, SendDlqFails, Crash
<1>2. pc[c] = "dlq" => Log[lane[c]][Offset(c)].form # "valid"
  BY DEF TypeInv, InHand, Message
<1> QED BY <1>1, <1>2 DEF BehindInv

LEMMA BehindStep == TypeInv /\ BehindInv /\ [Next]_vars => BehindInv'
<1> SUFFICES ASSUME TypeInv, BehindInv, [Next]_vars PROVE BehindInv'
  OBVIOUS
<1>1. ASSUME NEW c \in Consumers, StepOf(c) PROVE BehindInv'
  <2>1. seen \subseteq seen' /\ dlq \subseteq dlq'
    BY <1>1, StepShared
  <2>2. committed' = committed
    BY <1>1, StepHand
  <2>3. \A l \in Lanes : AllDone(l, committed[l])'
    <3> SUFFICES ASSUME NEW l \in Lanes PROVE AllDone(l, committed[l])'
      OBVIOUS
    <3>1. PICK n : n = committed[l] /\ AllDone(l, n)
      BY DEF BehindInv
    <3>2. AllDone(l, n)'
      BY <2>1, <3>1, DoneGrows
    <3> QED BY <2>2, <3>1, <3>2 DEF AllDone
  <2>4. ASSUME NEW d \in Consumers, NEW l \in Lanes PROVE AllDone(l, position[d][l])'
    <3>1. PICK n \in Nat : n = position[d][l] /\ AllDone(l, n)
      BY DEF BehindInv, TypeInv, Types
    <3>2. AllDone(l, n)'
      BY <2>1, <3>1, DoneGrows
    <3>3. CASE position'[d][l] = position[d][l]
      BY <3>1, <3>2, <3>3 DEF AllDone
    <3>4. CASE position'[d][l] = 0
      BY <3>4 DEF AllDone
    <3>5. CASE position'[d][l] = committed[l]
      BY <2>2, <2>3, <3>5 DEF AllDone
    <3>6. CASE d = c /\ l = lane[c] /\ position'[d][l] = n + 1
                /\ (\/ Message(c).form = "valid" /\ Message(c).id \in seen'
                    \/ Message(c).form # "valid" /\ <<lane[c], Offset(c)>> \in dlq')
      <4>1. Offset(c) = n + 1 /\ Message(c) = Log[l][n + 1]
        BY <3>1, <3>6 DEF Offset, Message
      <4>2. Done(l, n + 1)'
        BY <3>6, <4>1 DEF Done
      <4>3. AllDone(l, n + 1)'
        BY <3>2, <4>2, DoneAdvances
      <4> QED BY <3>6, <4>3 DEF AllDone
    <3>7. CASE d = c
      <4>1. Places(c) /\ position[c] \in [Lanes -> Nat]
        BY <1>1, StepPlaces DEF TypeInv, Types
      <4> QED BY <3>1, <3>3, <3>4, <3>5, <3>6, <3>7, <4>1 DEF Places
    <3>8. CASE d # c
      BY <1>1, <3>3, <3>8, StepOthers DEF Local
    <3> QED BY <3>7, <3>8
  <2> QED BY <1>1, <2>3, <2>4, StepDlq DEF BehindInv
<1>2. CASE UNCHANGED Handling
  <2>1. UNCHANGED <<seen, dlq, position>>
    BY <1>2 DEF Handling
  <2>2. committed' = committed \/
        \E c \in Consumers, l \in Lanes : committed' = [committed EXCEPT ![l] = position[c][l]]
    BY StepHand DEF Next, vars, group, StepOf, CommitOffset, CommitPosition, Rebalance, GiveAway, Push,
                    Subscribe, Connect, Disconnect
  <2>3. ASSUME NEW l \in Lanes PROVE AllDone(l, committed[l])'
    <3>1. committed'[l] = committed[l] \/ \E c \in Consumers : committed'[l] = position[c][l]
      BY <2>2 DEF TypeInv, Types
    <3>2. AllDone(l, committed'[l])
      BY <3>1 DEF BehindInv
    <3> QED BY <2>1, <3>2 DEF AllDone, Done
  <2>4. \A c \in Consumers, l \in Lanes : AllDone(l, position[c][l])'
    BY <2>1 DEF BehindInv, AllDone, Done
  <2> QED BY <2>1, <2>3, <2>4 DEF BehindInv
<1> QED BY <1>1, <1>2, NextCases

(* A committed offset has nothing behind it but bad messages in the DLQ and events whose
   key is set, whatever fails, crashes or is handled twice; and only bad messages are in
   the DLQ.                                                                             *)
THEOREM OffsetsIgnoreNothing == Spec => []NothingIgnored
<1>1. BehindInv => NothingIgnored
  BY DEF BehindInv, NothingIgnored, AllDone, Done
<1> QED BY <1>1, InitType, TypeStep, InitBehind, BehindStep, PTL DEF Spec

-----------------------------------------------------------------------------
(* A message is published once. *)

Distinct(s) == \A i, j \in 1..Len(s) : s[i] = s[j] => i = j

Unpublished(e, s) == \A i \in 1..Len(s) : published[e][s[i]] = 0

(* A pod that publishes has all of it still before it, *)
Fresh(c) == pc[c] = "publish" => Distinct(out[c]) /\ Unpublished(Event(c), out[c])

(* and the key of the event keeps the other pods away. *)
Apart(c, d) == pc[c] = "publish" /\ pc[d] = "publish" => Event(c) # Event(d)

Unseen(e) == e \notin seen => \A u \in Users : published[e][u] = 0

OnceInv ==
  /\ \A c \in Consumers : Fresh(c)
  /\ \A c, d \in Consumers : c # d => Apart(c, d)
  /\ \A e \in Events : Unseen(e)
  /\ PublishedOnce

LEMMA InitOnce == Init => OnceInv
  BY DEF Init, OnceInv, Fresh, Apart, Unseen, PublishedOnce

LEMMA TailDistinct ==
  ASSUME NEW s \in Seq(Users), s # <<>>, Distinct(s)
  PROVE  /\ Head(s) \in Users /\ Distinct(Tail(s))
         /\ \A i \in 1..Len(Tail(s)) : \E j \in 1..Len(s) : Tail(s)[i] = s[j] /\ s[j] # Head(s)
<1>1. /\ Len(s) \in Nat /\ Len(s) > 0 /\ Head(s) = s[1] /\ Head(s) \in Users
      /\ Len(Tail(s)) = Len(s) - 1
      /\ \A i \in 1..Len(Tail(s)) : Tail(s)[i] = s[i + 1]
  OBVIOUS
<1>2. ASSUME NEW i \in 1..Len(Tail(s)) PROVE i + 1 \in 1..Len(s) /\ 1 \in 1..Len(s) /\ i + 1 # 1
  BY <1>1
<1>3. Distinct(Tail(s))
  <2> SUFFICES ASSUME NEW i \in 1..Len(Tail(s)), NEW j \in 1..Len(Tail(s)), Tail(s)[i] = Tail(s)[j]
               PROVE  i = j
    BY DEF Distinct
  <2>1. i + 1 = j + 1
    BY <1>1, <1>2 DEF Distinct
  <2> QED BY <2>1
<1>4. ASSUME NEW i \in 1..Len(Tail(s))
      PROVE  \E j \in 1..Len(s) : Tail(s)[i] = s[j] /\ s[j] # Head(s)
  <2>1. Tail(s)[i] = s[i + 1] /\ s[i + 1] # s[1]
    BY <1>1, <1>2 DEF Distinct
  <2> QED BY <1>1, <1>2, <2>1
<1> QED BY <1>1, <1>3, <1>4

(* Who publishes has just set the key, or was publishing before. *)
LEMMA Publishing ==
  ASSUME TypeInv, NEW c \in Consumers, StepOf(c), pc'[c] = "publish"
  PROVE  /\ Event(c)' = Event(c) /\ Event(c) \in Events
         /\ \/ /\ pc[c] = "seen" /\ Event(c) \notin seen
               /\ out'[c] = MessagesFor[Event(c)] /\ published' = published
               /\ resends' = resends
            \/ /\ pc[c] = "publish" /\ out'[c] = Tail(out[c])
               /\ \E times \in {1, 2} : Publishes(c, times) /\ resends' = resends + times - 1
<1> USE DEF TypeInv, Types
<1>1. ~\E l \in Lanes : Poll(c, l)
  BY DEF Poll
<1>2. ~\E l \in Lanes : Handle(c, l)
  <2> SUFFICES ASSUME NEW l \in Lanes, Handle(c, l) PROVE FALSE
    OBVIOUS
  <2>1. pc'[c] = Parse(Log[l][position[c][l] + 1])
    BY DEF Handle
  <2>2. position[c][l] + 1 \in 1..Len(Log[l])
    BY LogAssumption DEF Handle, HasNext
  <2>3. Log[l][position[c][l] + 1].form \in {"valid", "malformed", "null"}
    BY <2>2, NotificationAssumption
  <2> QED BY <2>1, <2>3 DEF Parse
<1>3. ~PutDown(c)
  BY DEF PutDown
<1>4. SetSeen(c) \/ Publish(c)
  BY <1>1, <1>2, <1>3 DEF StepOf, Consume, Rethrow, CallWebhook, SendDlq, SetSeenResent, RedisFails,
                         SendDlqFails, Crash, Throw, Return
<1>5. pc[c] \in {"seen", "publish"} /\ lane' = lane /\ position' = position
  BY <1>3, <1>4 DEF SetSeen, Publish, Return, GoOn
<1>6. Event(c)' = Event(c) /\ Event(c) \in Events
  BY <1>5, EventTyped DEF Event, Offset
<1>7. CASE SetSeen(c)
  BY <1>3, <1>6, <1>7 DEF SetSeen, Return, GoOn, counters
<1>8. CASE Publish(c)
  <2>1. out'[c] = Tail(out[c]) /\ pc[c] = "publish"
    BY <1>8 DEF Publish, GoOn
  <2>2. out[c] # <<>> /\ out[c] \in Seq(Users)
    BY <2>1 DEF InHand
  <2>3. Tail(out[c]) # <<>>
    <3>1. Len(out[c]) # 1
      BY <1>8 DEF Publish, GoOn
    <3> QED BY <2>2, <3>1, TailLeft
  <2>4. \/ PublishTo(c, 1) /\ resends' = resends
        \/ PublishTo(c, 2) /\ resends' = resends + 1
    BY <1>8 DEF Publish, Resend, counters
  <2>5. \A times \in {1, 2} : PublishTo(c, times) => Publishes(c, times)
    BY <1>5, <2>1, <2>3 DEF PublishTo, Publishes
  <2>6. \E times \in {1, 2} : Publishes(c, times) /\ resends' = resends + times - 1
    <3>1. resends \in Nat /\ resends + 1 - 1 = resends /\ resends + 2 - 1 = resends + 1
      OBVIOUS
    <3> QED BY <2>4, <2>5, <3>1
  <2> QED BY <1>6, <2>1, <2>6
<1> QED BY <1>4, <1>7, <1>8

LEMMA PublishedEffect ==
  ASSUME TypeInv, NEW c \in Consumers, NEW times \in {1, 2}, Publishes(c, times)
  PROVE  \E e \in Events, u \in Users :
           /\ e = Event(c) /\ u = Head(out[c]) /\ e \in seen
           /\ published'[e][u] = published[e][u] + times
           /\ \A v \in Users : v # u => published'[e][v] = published[e][v]
           /\ \A f \in Events : f # e => published'[f] = published[f]
<1>1. pc[c] = "publish"
  BY DEF Publishes
<1>2. Event(c) \in Events /\ Event(c) \in seen
  BY <1>1, EventTyped DEF TypeInv, InHand
<1>3. out[c] \in Seq(Users) /\ out[c] # <<>>
  BY <1>1 DEF TypeInv, Types, InHand
<1>4. Head(out[c]) \in Users
  BY <1>3
<1>5. PICK e \in Events, u \in Users : e = Event(c) /\ u = Head(out[c])
  BY <1>2, <1>4
<1>6. published' = [published EXCEPT ![e][u] = @ + times]
  BY <1>5 DEF Publishes
<1>7. published \in [Events -> [Users -> Nat]]
  BY DEF TypeInv, Types
<1>8. published'[e] = [published[e] EXCEPT ![u] = @ + times]
      /\ \A f \in Events : f # e => published'[f] = published[f]
  BY <1>6, <1>7
<1>9. /\ published'[e][u] = published[e][u] + times
      /\ \A v \in Users : v # u => published'[e][v] = published[e][v]
  BY <1>7, <1>8
<1>10. e \in seen
  BY <1>2, <1>5
<1> WITNESS e \in Events, u \in Users
<1> QED BY <1>5, <1>8, <1>9, <1>10

LEMMA OnceStep == TypeInv /\ OnceInv /\ [Next]_vars => OnceInv'
<1> SUFFICES ASSUME TypeInv, OnceInv, [Next]_vars PROVE OnceInv'
  OBVIOUS
<1>1. CASE UNCHANGED Handling
  <2>1. UNCHANGED <<pc, lane, out, position, seen, published, resends>>
    BY <1>1 DEF Handling
  <2> QED BY <2>1 DEF OnceInv, Fresh, Apart, Unseen, PublishedOnce, Unpublished, Event, Offset
<1>2. ASSUME NEW c \in Consumers, StepOf(c) PROVE OnceInv'
  <2>1. seen \subseteq seen' /\ resends \in Nat /\ resends' \in Nat
    BY <1>2, StepShared, StepPublished DEF TypeInv, Types
  <2>2. \A d \in Consumers : d # c =>
          Event(d)' = Event(d) /\ pc'[d] = pc[d] /\ out'[d] = out[d]
    BY <1>2, <2>1, StepOthers, SameInHand DEF TypeInv
  <2>3. published \in [Events -> [Users -> Nat]]
    BY DEF TypeInv, Types
  (* The others stay apart from it. *)
  <2>4. \A d \in Consumers : d # c => Apart(c, d)' /\ Apart(d, c)'
    <3> SUFFICES ASSUME NEW d \in Consumers, d # c, pc'[c] = "publish", pc[d] = "publish"
                 PROVE  Event(c)' # Event(d)
      BY <2>2 DEF Apart
    <3>1. Event(d) \in seen
      BY DEF TypeInv, InHand
    <3>2. /\ Event(c)' = Event(c)
          /\ (pc[c] = "seen" /\ Event(c) \notin seen) \/ pc[c] = "publish"
      BY <1>2, Publishing
    <3> QED BY <3>1, <3>2 DEF OnceInv, Apart
  <2>5. \A b, d \in Consumers : b # d => Apart(b, d)'
    BY <2>2, <2>4 DEF OnceInv, Apart
  <2>6. CASE published' = published /\ resends' \in {resends, resends + 1} /\ pc'[c] # "publish"
    <3>1. \A d \in Consumers : Fresh(d)'
      BY <2>2, <2>6 DEF OnceInv, Fresh, Unpublished
    <3>2. \A e \in Events : Unseen(e)'
      BY <2>1, <2>6 DEF OnceInv, Unseen
    <3>3. PublishedOnce'
      BY <2>1, <2>3, <2>6 DEF OnceInv, PublishedOnce
    <3> QED BY <2>5, <3>1, <3>2, <3>3 DEF OnceInv
  <2>7. CASE /\ pc'[c] = "publish" /\ Event(c)' = Event(c) /\ Event(c) \in Events /\ Event(c) \notin seen
             /\ out'[c] = MessagesFor[Event(c)] /\ published' = published /\ resends' = resends
    <3>1. Distinct(MessagesFor[Event(c)]) /\ MessagesFor[Event(c)] \in Seq(Users)
      BY <2>7, AddressAssumption DEF Events, Distinct
    <3>2. \A u \in Users : published[Event(c)][u] = 0
      BY <2>7 DEF OnceInv, Unseen
    <3>3. \A i \in 1..Len(MessagesFor[Event(c)]) : MessagesFor[Event(c)][i] \in Users
      BY <3>1
    <3>4. Fresh(c)'
      BY <2>7, <3>1, <3>2, <3>3 DEF Fresh, Unpublished, Distinct
    <3>5. \A d \in Consumers : d # c => Fresh(d)'
      BY <2>2, <2>7 DEF OnceInv, Fresh, Unpublished
    <3>6. \A e \in Events : Unseen(e)'
      BY <2>1, <2>7 DEF OnceInv, Unseen
    <3>7. PublishedOnce'
      BY <2>7 DEF OnceInv, PublishedOnce
    <3> QED BY <2>5, <3>4, <3>5, <3>6, <3>7 DEF OnceInv
  <2>8. ASSUME NEW times \in {1, 2}, Publishes(c, times), resends' = resends + times - 1
        PROVE  OnceInv'
    <3>1. PICK e \in Events, u \in Users :
            /\ e = Event(c) /\ u = Head(out[c]) /\ e \in seen
            /\ published'[e][u] = published[e][u] + times
            /\ \A v \in Users : v # u => published'[e][v] = published[e][v]
            /\ \A f \in Events : f # e => published'[f] = published[f]
      BY <2>8, PublishedEffect
    <3>2. /\ pc[c] = "publish" /\ out[c] \in Seq(Users) /\ out[c] # <<>>
          /\ Distinct(out[c]) /\ Unpublished(e, out[c])
      BY <2>8, <3>1 DEF Publishes, TypeInv, Types, InHand, OnceInv, Fresh
    <3>3. published[e][u] = 0
      <4>1. 1 \in 1..Len(out[c]) /\ out[c][1] = u
        BY <3>1, <3>2
      <4> QED BY <3>2, <4>1 DEF Unpublished
    <3>4. Fresh(c)'
      <4> SUFFICES ASSUME pc'[c] = "publish"
                   PROVE  Distinct(out'[c]) /\ Unpublished(Event(c), out[c])'
        BY DEF Fresh, Distinct
      <4>1. Event(c)' = e /\ out'[c] = Tail(out[c])
        BY <1>2, <2>8, <3>1, Publishing DEF Publishes
      <4>2. /\ Distinct(Tail(out[c]))
            /\ \A i \in 1..Len(Tail(out[c])) : \E j \in 1..Len(out[c]) :
                 Tail(out[c])[i] = out[c][j] /\ out[c][j] # u
        BY <3>1, <3>2, TailDistinct
      <4>3. ASSUME NEW i \in 1..Len(Tail(out[c])) PROVE published'[e][Tail(out[c])[i]] = 0
        <5>1. PICK j \in 1..Len(out[c]) : Tail(out[c])[i] = out[c][j] /\ out[c][j] # u
          BY <4>2
        <5>2. out[c][j] \in Users /\ published[e][out[c][j]] = 0
          BY <3>2 DEF Unpublished
        <5> QED BY <3>1, <5>1, <5>2
      <4> QED BY <4>1, <4>2, <4>3 DEF Unpublished
    <3>5. ASSUME NEW d \in Consumers, d # c PROVE Fresh(d)'
      <4> SUFFICES ASSUME pc[d] = "publish" PROVE Distinct(out[d]) /\ Unpublished(Event(d), out[d])'
        BY <2>2, <3>5 DEF Fresh, Distinct
      <4>1. Event(d) # e /\ Event(d) \in Events
        BY <3>1, <3>2, <3>5, EventTyped DEF OnceInv, Apart
      <4>2. Distinct(out[d]) /\ Unpublished(Event(d), out[d])
        BY DEF OnceInv, Fresh
      <4>3. published'[Event(d)] = published[Event(d)]
        BY <3>1, <4>1
      <4> QED BY <2>2, <3>5, <4>2, <4>3 DEF Unpublished
    <3>6. \A f \in Events : Unseen(f)'
      BY <2>1, <3>1 DEF OnceInv, Unseen
    <3>7. PublishedOnce'
      <4> SUFFICES ASSUME NEW f \in Events, NEW v \in Users
                   PROVE  published'[f][v] <= 1 + resends'
        BY DEF PublishedOnce
      <4>1. published[f][v] <= 1 + resends /\ published[f][v] \in Nat
        BY <2>3 DEF OnceInv, PublishedOnce
      <4>2. CASE f = e /\ v = u
        BY <2>1, <2>8, <3>1, <3>3, <4>2
      <4>3. CASE ~(f = e /\ v = u)
        <5>1. published'[f][v] = published[f][v]
          BY <3>1, <4>3
        <5> QED BY <2>1, <2>8, <4>1, <5>1
      <4> QED BY <4>2, <4>3
    <3> QED BY <2>5, <3>4, <3>5, <3>6, <3>7 DEF OnceInv
  <2>9. CASE pc'[c] = "publish"
    BY <1>2, <2>7, <2>8, <2>9, Publishing
  <2>10. CASE pc'[c] # "publish"
    <3>1. \/ published' = published /\ resends' \in {resends, resends + 1}
          \/ Publishes(c, 1) /\ resends' = resends
          \/ Publishes(c, 2) /\ resends' = resends + 1
      BY <1>2, StepShared
    <3>2. resends = resends + 1 - 1 /\ resends + 1 = resends + 2 - 1
      BY <2>1
    <3> QED BY <2>6, <2>8, <2>10, <3>1, <3>2
  <2> QED BY <2>9, <2>10
<1> QED BY <1>1, <1>2, NextCases

(* A user's message is published once, and once more for each command that the Redis
   client repeats: retries, zombies of a rebalance and the same event in two messages are
   all stopped at SET NX.                                                               *)
THEOREM MessagesPublishedOnce == Spec => []PublishedOnce
<1>1. OnceInv => PublishedOnce
  BY DEF OnceInv
<1> QED BY <1>1, InitType, TypeStep, InitOnce, OnceStep, PTL DEF Spec
==============================================================================
