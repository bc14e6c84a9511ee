----------------------------- MODULE FraudProofs -----------------------------
(***************************************************************************)
(* Theorems about the fraud service, for any pods, partitions, messages    *)
(* and failures, and any window: which alerts the worker raises, and how   *)
(* often; which records it may skip; and what the velocity rule counts.    *)
(***************************************************************************)
EXTENDS FraudWorker, FraudVelocity, FiniteSetTheorems, TLAPS

Alerting == {"alert", "send", "setKey"}

Types ==
  /\ committed \in [Lanes -> Nat]
  /\ assigned \in [Lanes -> Consumers]
  /\ generation \in [Lanes -> Nat]
  /\ claim \in [Consumers -> [Lanes -> Int]]
  /\ position \in [Consumers -> [Lanes -> Nat]]
  /\ task \in [Consumers -> {"connecting", "running", "ended", "dead"}]
  /\ stopping \in [Consumers -> BOOLEAN]
  /\ pc \in [Consumers -> {"idle", "handle", "dlq", "commit"} \cup Alerting]
  /\ batch \in [Consumers -> Seq(Records)]
  /\ out \in [Consumers -> Seq(Rules)]
  /\ alerts \in [Events \X Rules -> Nat]
  /\ alerted \subseteq Events \X Rules
  /\ faults \in Nat /\ retried \in Nat /\ rebalances \in Nat

(* What run() has in hand. *)
InHand(c) ==
  /\ pc[c] = "idle" <=> batch[c] = <<>>
  /\ task[c] = "connecting" => pc[c] = "idle"
  /\ pc[c] \in Alerting => Valid(Record(c))
  /\ pc[c] = "dlq" => ~Valid(Record(c))
  /\ pc[c] \in {"send", "setKey"} => out[c] # <<>>

TypeInv == Types /\ \A c \in Consumers : InHand(c)

(* The alert that a pod is at. *)
Pending(c) == <<Event(c), Head(out[c])>>

LEMMA RecordTypes ==
  ASSUME NEW r \in Records
  PROVE  r[1] \in Lanes /\ r[2] \in Nat \ {0} /\ MessageAt(r).id \in Events
<1>1. PICK l \in Lanes : \E n \in 1..Len(Log[l]) : r = <<l, n>>
  BY DEF Records
<1> QED
  BY <1>1, LogAssumption DEF Events

LEMMA Update ==
  ASSUME NEW S, NEW T, NEW f \in [S -> T], NEW x \in S, NEW y \in T
  PROVE  [f EXCEPT ![x] = y] \in [S -> T]
OBVIOUS

LEMMA HeadTail ==
  ASSUME NEW S, NEW s \in Seq(S), s # <<>>
  PROVE  /\ Head(s) \in S /\ Tail(s) \in Seq(S) /\ Head(s) = s[1] /\ 1 \in 1..Len(s)
         /\ Tail(s) = <<>> <=> Len(s) = 1
         /\ \A x : Contains(s, x) <=> x = Head(s) \/ Contains(Tail(s), x)
         /\ \A i \in 1..Len(Tail(s)) : i + 1 \in 1..Len(s) /\ Tail(s)[i] = s[i + 1]
<1>1. /\ Head(s) \in S /\ Tail(s) \in Seq(S) /\ Head(s) = s[1] /\ 1 \in 1..Len(s)
      /\ Len(s) \in Nat /\ Len(Tail(s)) = Len(s) - 1
      /\ \A i \in 1..Len(Tail(s)) : i + 1 \in 1..Len(s) /\ Tail(s)[i] = s[i + 1]
  OBVIOUS
<1>2. Tail(s) = <<>> <=> Len(s) = 1
  <2>1. \A t \in Seq(S) : t = <<>> <=> Len(t) = 0
    OBVIOUS
  <2>2. Tail(s) \in Seq(S) /\ (Len(Tail(s)) = 0 <=> Len(s) = 1)
    BY <1>1
  <2> QED
    BY <2>1, <2>2
<1>3. ASSUME NEW x, Contains(s, x) PROVE x = Head(s) \/ Contains(Tail(s), x)
  <2>1. PICK i \in 1..Len(s) : s[i] = x
    BY <1>3 DEF Contains
  <2>2. CASE i = 1
    BY <1>1, <2>1, <2>2
  <2>3. CASE i # 1
    <3>1. i - 1 \in 1..Len(Tail(s)) /\ (i - 1) + 1 = i
      BY <1>1, <2>3
    <3>2. Tail(s)[i - 1] = x
      BY <1>1, <2>1, <3>1
    <3> QED
      BY <3>1, <3>2 DEF Contains
  <2> QED
    BY <2>2, <2>3
<1>4. ASSUME NEW x, x = Head(s) \/ Contains(Tail(s), x) PROVE Contains(s, x)
  <2>1. CASE x = Head(s)
    BY <1>1, <2>1 DEF Contains
  <2>2. CASE Contains(Tail(s), x)
    <3>1. PICK i \in 1..Len(Tail(s)) : Tail(s)[i] = x
      BY <2>2 DEF Contains
    <3> QED
      BY <1>1, <3>1 DEF Contains
  <2> QED
    BY <1>4, <2>1, <2>2
<1> QED
  BY <1>1, <1>2, <1>3, <1>4

(* What getmany returns: the records between the positions of before and after, and none
   of a lane that is not the consumer's.                                                *)
Takes(c, upTo, s) ==
  /\ batch' = [batch EXCEPT ![c] = s] /\ position' = [position EXCEPT ![c] = upTo]
  /\ s # <<>>
  /\ \A l \in Lanes : position[c][l] <= upTo[l] /\ (upTo[l] # position[c][l] => claim[c][l] # -1)
  /\ \A r \in Records : position[c][r[1]] < r[2] /\ r[2] <= upTo[r[1]] => Contains(s, r)
  /\ \A i \in 1..Len(s) : upTo[s[i][1]] # position[c][s[i][1]]

LEMMA GetManyEffect ==
  ASSUME Types, NEW c \in Consumers, GetMany(c)
  PROVE  \E upTo \in [Lanes -> Nat], s \in Seq(Records) : Takes(c, upTo, s)
<1>1. PICK upTo \in [Lanes -> UNION {0..Len(Log[l]) : l \in Lanes}] :
        /\ \A l \in Lanes :
             upTo[l] \in position[c][l]..(IF HasNext(c, l) THEN Len(Log[l]) ELSE position[c][l])
        /\ Fetched(c, upTo) # {}
        /\ \E s \in Batches(Fetched(c, upTo)) : batch' = [batch EXCEPT ![c] = s]
        /\ position' = [position EXCEPT ![c] = upTo]
  BY DEF GetMany
<1> DEFINE S == Fetched(c, upTo)
<1>2. PICK s \in Batches(S) : batch' = [batch EXCEPT ![c] = s]
  BY <1>1
<1>3. \A l \in Lanes : position[c][l] \in Nat /\ Len(Log[l]) \in Nat
  BY LogAssumption DEF Types
<1>4. upTo \in [Lanes -> Nat]
  BY <1>1, <1>3
<1>5. \A l \in Lanes : position[c][l] <= upTo[l] /\ (upTo[l] # position[c][l] => claim[c][l] # -1)
  BY <1>1, <1>3 DEF HasNext
<1>6. S \subseteq Records /\ S # {}
  BY <1>1 DEF Fetched
<1>7. IsFiniteSet(S) /\ Cardinality(S) \in Nat
  BY <1>6, FraudAssumption, FS_Subset, FS_CardinalityType
<1>8. s \in [1..Cardinality(S) -> S] /\ \A r \in S : Contains(s, r)
  BY <1>2 DEF Batches
<1>9. s \in Seq(Records) /\ \A i \in 1..Len(s) : s[i] \in S
  <2>1. PICK n \in Nat : s \in [1..n -> S]
    BY <1>7, <1>8
  <2> HIDE DEF S
  <2>2. s \in Seq(S) /\ Len(s) = n
    BY <2>1
  <2> QED
    BY <1>6, <2>1, <2>2
<1>10. s # <<>>
  BY <1>6, <1>8, <1>9 DEF Contains
<1>11. \A r \in S : upTo[r[1]] # position[c][r[1]]
  <2> SUFFICES ASSUME NEW r \in S PROVE upTo[r[1]] # position[c][r[1]]
    OBVIOUS
  <2>1. r[1] \in Lanes /\ r[2] \in Nat
    BY <1>6, RecordTypes
  <2> QED
    BY <1>3, <1>4, <2>1 DEF Fetched
<1>12. Takes(c, upTo, s)
  BY <1>1, <1>2, <1>5, <1>8, <1>9, <1>10, <1>11 DEF Fetched, Takes
<1> QED
  BY <1>4, <1>9, <1>12

-----------------------------------------------------------------------------
(* Types, and what run() has in hand. *)

LEMMA RecordInHand ==
  ASSUME Types, NEW c \in Consumers, InHand(c), pc[c] # "idle"
  PROVE  /\ batch[c] \in Seq(Records) /\ batch[c] # <<>>
         /\ Record(c) \in Records /\ Record(c)[1] \in Lanes /\ Event(c) \in Events
BY HeadTail, RecordTypes DEF Types, InHand, Record, Event

LEMMA AlertInHand ==
  ASSUME Types, NEW c \in Consumers, pc[c] # "idle", InHand(c), out[c] # <<>>
  PROVE  /\ Head(out[c]) \in Rules /\ Tail(out[c]) \in Seq(Rules)
         /\ Pending(c) \in Events \X Rules
         /\ \A x : Contains(out[c], x) <=> x = Head(out[c]) \/ Contains(Tail(out[c]), x)
<1>1. Event(c) \in Events
  BY RecordInHand
<1>2. out[c] \in Seq(Rules)
  BY DEF Types
<1> QED
  BY <1>1, <1>2, HeadTail DEF Pending

StepOf(c) ==
  \/ Run(c) \/ HandleFails(c) \/ TaskDies(c) \/ Stop(c) \/ Restart(c)
  \/ \E l \in Lanes : Poll(c, l)

Local(c) == <<task[c], stopping[c], pc[c], batch[c], out[c], claim[c], position[c]>>

LEMMA NextCases ==
  ASSUME Next
  PROVE  \/ \E c \in Consumers : StepOf(c)
         \/ \E c \in Consumers, l \in Lanes : Rebalance(l, c)
BY DEF Next, StepOf

(* A step of one pod leaves the others alone, and the assignment of lanes. *)
LEMMA Frame ==
  ASSUME Types, NEW c \in Consumers, StepOf(c)
  PROVE  /\ \A d \in Consumers \ {c} : Local(d)' = Local(d)
         /\ UNCHANGED <<assigned, generation, rebalances>>
<1>1. CASE Run(c)
  <2>1. CASE GetMany(c)
    <3>1. UNCHANGED <<assigned, generation, rebalances, claim, task, stopping>> /\ Goto(c, "handle", <<>>)
      BY <2>1 DEF GetMany, group, worker, counters
    <3>2. PICK upTo \in [Lanes -> Nat], s \in Seq(Records) : Takes(c, upTo, s)
      BY <2>1, GetManyEffect
    <3> QED
      BY <3>1, <3>2 DEF Types, Local, Goto, Takes
  <2>2. CASE Connect(c) \/ End(c)
    BY <2>2 DEF Connect, End, Types, Local, group, worker, counters
  <2>3. CASE Handle(c) \/ Alert(c) \/ SendAlert(c) \/ SetKey(c) \/ ToDlq(c)
    BY <2>3 DEF Handle, Alert, SendAlert, SetKey, ToDlq, Return, Goto, Types, Local, group, worker, counters
  <2>4. CASE Commit(c)
    BY <2>4 DEF Commit, Goto, Types, Local, worker, counters
  <2> QED
    BY <1>1, <2>1, <2>2, <2>3, <2>4 DEF Run
<1>2. CASE HandleFails(c)
  BY <1>2 DEF HandleFails, Retried, Goto, Types, Local, group
<1>3. CASE TaskDies(c) \/ Stop(c)
  BY <1>3 DEF TaskDies, Stop, Fault, Types, Local, group
<1>4. CASE Restart(c)
  BY <1>4 DEF Restart, Fault, Goto, Forget, Types, Local, counters
<1>5. CASE \E l \in Lanes : Poll(c, l)
  <2>1. PICK l \in Lanes : Poll(c, l)
    BY <1>5
  <2>2. /\ \E f, p : claim' = [claim EXCEPT ![c] = f] /\ position' = [position EXCEPT ![c] = p]
        /\ UNCHANGED <<assigned, generation, rebalances, task, stopping, pc, batch, out>>
    BY <2>1 DEF Poll, Learn, worker, counters
  <2> QED
    BY <2>2 DEF Types, Local
<1> QED
  BY <1>1, <1>2, <1>3, <1>4, <1>5 DEF StepOf

LEMMA InitType == Init => TypeInv
<1> SUFFICES ASSUME Init PROVE TypeInv
  OBVIOUS
<1>1. Types
  BY DEF Init, GroupInit, Types
<1>2. \A c \in Consumers : InHand(c)
  BY DEF Init, InHand, Alerting
<1> QED
  BY <1>1, <1>2 DEF TypeInv

LEMMA StepTypes ==
  ASSUME TypeInv, NEW c \in Consumers, StepOf(c)
  PROVE  Types'
<1>1. Types /\ InHand(c)
  BY DEF TypeInv
<1> USE DEF Alerting
<1>2. CASE Connect(c) \/ End(c)
  BY <1>1, <1>2 DEF Connect, End, Types, group, counters
<1>3. CASE GetMany(c)
  <2>1. UNCHANGED <<group, worker, alerts, alerted, counters>> /\ Goto(c, "handle", <<>>)
    BY <1>3 DEF GetMany
  <2>2. PICK upTo \in [Lanes -> Nat], s \in Seq(Records) : Takes(c, upTo, s)
    BY <1>1, <1>3, GetManyEffect
  <2>3. batch' = [batch EXCEPT ![c] = s] /\ position' = [position EXCEPT ![c] = upTo]
    BY <2>2 DEF Takes
  <2> QED
    BY <1>1, <2>1, <2>3 DEF Types, Goto, group, worker, counters
<1>4. CASE Handle(c)
  <2>1. /\ <<>> \in Seq(Rules)
        /\ \A velocity \in BOOLEAN :
             (IF MessageAt(Record(c)).large THEN <<"LARGE_AMOUNT">> ELSE <<>>)
               \o (IF velocity THEN <<"VELOCITY">> ELSE <<>>) \in Seq(Rules)
    BY DEF Rules
  <2>2. PICK rules \in Seq(Rules), label \in {"dlq", "alert"} : Goto(c, label, rules)
    BY <1>4, <2>1 DEF Handle
  <2> QED
    BY <1>1, <1>4, <2>2 DEF Handle, Types, Goto, group, worker, counters
<1>5. CASE Alert(c)
  <2>1. PICK rules \in Seq(Rules), label \in {"commit", "alert", "send"} : Goto(c, label, rules)
    <3>1. CASE out[c] = <<>>
      <4>1. Goto(c, "commit", <<>>) /\ <<>> \in Seq(Rules)
        BY <1>5, <3>1 DEF Alert, Return
      <4> QED
        BY <4>1
    <3>2. CASE out[c] # <<>>
      <4>1. Tail(out[c]) \in Seq(Rules) /\ out[c] \in Seq(Rules)
        BY <1>1, <1>5, <3>2, AlertInHand DEF Alert, At, Types
      <4> QED
        BY <1>5, <3>2, <4>1 DEF Alert
    <3> QED
      BY <3>1, <3>2
  <2> QED
    BY <1>1, <1>5, <2>1 DEF Alert, Types, Goto, group, worker, counters
<1>6. CASE SendAlert(c) \/ SetKey(c)
  <2>1. Pending(c) \in Events \X Rules /\ Tail(out[c]) \in Seq(Rules) /\ out[c] \in Seq(Rules)
    BY <1>1, <1>6, AlertInHand DEF SendAlert, SetKey, At, InHand, Types
  <2>2. /\ alerts' \in {alerts, [alerts EXCEPT ![Pending(c)] = @ + 1]}
        /\ alerted' \in {alerted, alerted \cup {Pending(c)}}
        /\ \E label \in {"setKey", "alert"}, rules \in Seq(Rules) : Goto(c, label, rules)
        /\ UNCHANGED <<group, position, worker, batch, counters>>
    BY <1>6, <2>1 DEF SendAlert, SetKey, Pending
  <2>3. alerts' \in [Events \X Rules -> Nat]
    <3>1. alerts \in [Events \X Rules -> Nat] /\ alerts[Pending(c)] + 1 \in Nat
      BY <1>1, <2>1 DEF Types
    <3>2. [alerts EXCEPT ![Pending(c)] = @ + 1] \in [Events \X Rules -> Nat]
      BY <2>1, <3>1, Update
    <3> QED
      BY <2>2, <3>1, <3>2
  <2>4. pc' \in [Consumers -> {"idle", "handle", "dlq", "commit"} \cup Alerting]
    BY <1>1, <2>2 DEF Types, Goto
  <2>5. out' \in [Consumers -> Seq(Rules)]
    BY <1>1, <2>2 DEF Types, Goto
  <2> QED
    BY <1>1, <2>1, <2>2, <2>3, <2>4, <2>5 DEF Types, group, worker, counters
<1>7. CASE ToDlq(c)
  BY <1>1, <1>7 DEF ToDlq, Return, Types, Goto, group, worker, counters
<1>8. CASE Commit(c)
  <2>1. batch[c] \in Seq(Records) /\ batch[c] # <<>>
    BY <1>1, <1>8, RecordInHand DEF Commit, At
  <2>2. Tail(batch[c]) \in Seq(Records)
    BY <2>1, HeadTail
  <2> QED
    BY <1>1, <1>8, <2>2 DEF Commit, Types, Goto, worker, counters
<1>9. CASE HandleFails(c)
  <2>1. alerts' \in [Events \X Rules -> Nat] /\ alerted' \subseteq Events \X Rules
    <3>1. CASE At(c, "send") \/ At(c, "setKey")
      <4>1. Pending(c) \in Events \X Rules
        BY <1>1, <3>1, AlertInHand DEF At, InHand
      <4>2. /\ alerts' \in {alerts, [alerts EXCEPT ![Pending(c)] = @ + 1]}
            /\ alerted' \in {alerted, alerted \cup {Pending(c)}}
        BY <1>9, <3>1 DEF HandleFails, Pending, At
      <4> QED
        BY <1>1, <4>1, <4>2 DEF Types
    <3>2. CASE ~(At(c, "send") \/ At(c, "setKey"))
      BY <1>1, <1>9, <3>2 DEF HandleFails, Types
    <3> QED
      BY <3>1, <3>2
  <2>2. /\ pc' \in [Consumers -> {"idle", "handle", "dlq", "commit"} \cup Alerting]
        /\ task' \in [Consumers -> {"connecting", "running", "ended", "dead"}]
    BY <1>1, <1>9 DEF HandleFails, Goto, Types
  <2>3. out' \in [Consumers -> Seq(Rules)] /\ faults' \in Nat /\ retried' \in Nat /\ rebalances' \in Nat
    <3>1. /\ out' \in {out, [out EXCEPT ![c] = <<>>]}
          /\ retried' = retried + 1 /\ UNCHANGED <<faults, rebalances>>
      BY <1>9 DEF HandleFails, Retried, Goto
    <3>2. <<>> \in Seq(Rules) /\ out \in [Consumers -> Seq(Rules)]
      BY <1>1 DEF Types
    <3>3. [out EXCEPT ![c] = <<>>] \in [Consumers -> Seq(Rules)]
      BY <3>2, Update
    <3>4. faults' \in Nat /\ retried' \in Nat /\ rebalances' \in Nat
      BY <1>1, <3>1 DEF Types
    <3> QED
      BY <3>1, <3>2, <3>3, <3>4
  <2>4. UNCHANGED <<group, position, stopping, batch>>
    BY <1>9 DEF HandleFails
  <2> QED
    BY <1>1, <2>1, <2>2, <2>3, <2>4 DEF Types, group
<1>10. CASE TaskDies(c) \/ Stop(c)
  <2>1. CASE TaskDies(c)
    BY <1>1, <2>1 DEF TaskDies, Fault, Types, group
  <2>2. CASE Stop(c)
    BY <1>1, <2>2 DEF Stop, Fault, Types, group
  <2> QED
    BY <1>10, <2>1, <2>2
<1>11. CASE Restart(c)
  BY <1>1, <1>11 DEF Restart, Fault, Types, Goto, Forget, counters
<1>12. CASE \E l \in Lanes : Poll(c, l)
  <2>1. PICK l \in Lanes : Learn(c, l)
    BY <1>12 DEF Poll
  <2>2. /\ claim' \in [Consumers -> [Lanes -> Int]] /\ position' \in [Consumers -> [Lanes -> Nat]]
        /\ UNCHANGED <<committed, assigned, generation>>
    <3>1. PICK g \in Int, p \in Nat : /\ claim' = [claim EXCEPT ![c] = [claim[c] EXCEPT ![l] = g]]
                                     /\ position' = [position EXCEPT ![c] = [position[c] EXCEPT ![l] = p]]
      <4>1. generation[l] \in Int /\ committed[l] \in Nat /\ -1 \in Int /\ 0 \in Nat
        BY <1>1 DEF Types
      <4> QED
        BY <2>1, <4>1 DEF Learn
    <3>2. /\ claim \in [Consumers -> [Lanes -> Int]] /\ position \in [Consumers -> [Lanes -> Nat]]
          /\ claim[c] \in [Lanes -> Int] /\ position[c] \in [Lanes -> Nat]
      BY <1>1 DEF Types
    <3>3. [claim[c] EXCEPT ![l] = g] \in [Lanes -> Int] /\ [position[c] EXCEPT ![l] = p] \in [Lanes -> Nat]
      BY <3>2, Update
    <3>4. claim' \in [Consumers -> [Lanes -> Int]] /\ position' \in [Consumers -> [Lanes -> Nat]]
      BY <3>1, <3>2, <3>3, Update
    <3> QED
      BY <2>1, <3>4 DEF Learn
  <2>3. UNCHANGED <<worker, pc, batch, out, alerts, alerted, counters>>
    BY <1>12 DEF Poll
  <2> QED
    BY <1>1, <2>2, <2>3 DEF Types, worker, counters
<1> QED
  BY <1>2, <1>3, <1>4, <1>5, <1>6, <1>7, <1>8, <1>9, <1>10, <1>11, <1>12 DEF StepOf, Run

LEMMA StepHand ==
  ASSUME TypeInv, NEW c \in Consumers, StepOf(c)
  PROVE  InHand(c)'
<1>1. Types /\ InHand(c)
  BY DEF TypeInv
<1> USE DEF Alerting
<1>2. CASE Connect(c) \/ End(c) \/ TaskDies(c) \/ Stop(c) \/ \E l \in Lanes : Poll(c, l)
  BY <1>1, <1>2 DEF Connect, End, TaskDies, Stop, Poll, Types, InHand, Record, worker
<1>3. CASE GetMany(c)
  <2>1. pc'[c] = "handle" /\ out'[c] = <<>> /\ task'[c] = "running"
    BY <1>1, <1>3 DEF GetMany, At, Goto, Types, worker
  <2>2. PICK upTo \in [Lanes -> Nat], s \in Seq(Records) : Takes(c, upTo, s)
    BY <1>1, <1>3, GetManyEffect
  <2>3. batch'[c] # <<>>
    BY <1>1, <2>2 DEF Types, Takes
  <2> QED
    BY <2>1, <2>3 DEF InHand
<1>4. CASE Handle(c)
  <2>1. batch' = batch /\ pc[c] = "handle" /\ pc'[c] \in {"dlq", "alert"} /\ task'[c] = "running"
    BY <1>1, <1>4 DEF Handle, At, Goto, Types, worker
  <2>2. (pc'[c] = "alert" => Valid(Record(c))) /\ (pc'[c] = "dlq" => ~Valid(Record(c)))
    BY <1>1, <1>4 DEF Handle, Goto, Types
  <2> QED
    BY <1>1, <2>1, <2>2 DEF InHand, Record
<1>5. CASE Alert(c)
  BY <1>1, <1>5 DEF Alert, At, Return, Goto, Types, InHand, Record, worker
<1>6. CASE SendAlert(c) \/ SetKey(c)
  BY <1>1, <1>6 DEF SendAlert, SetKey, At, Goto, Types, InHand, Record, worker
<1>7. CASE ToDlq(c)
  BY <1>1, <1>7 DEF ToDlq, At, Return, Goto, Types, InHand, worker
<1>8. CASE Commit(c)
  <2>1. batch[c] \in Seq(Records) /\ batch[c] # <<>>
    BY <1>1, <1>8, RecordInHand DEF Commit, At
  <2>2. Tail(batch[c]) = <<>> <=> Len(batch[c]) = 1
    BY <2>1, HeadTail
  <2> QED
    BY <1>1, <1>8, <2>2 DEF Commit, At, Goto, Types, InHand, worker
<1>9. CASE HandleFails(c)
  BY <1>1, <1>9 DEF HandleFails, At, Goto, Types, InHand, Record
<1>10. CASE Restart(c)
  BY <1>1, <1>10 DEF Restart, Goto, Types, InHand
<1> QED
  BY <1>2, <1>3, <1>4, <1>5, <1>6, <1>7, <1>8, <1>9, <1>10 DEF StepOf, Run

LEMMA NextType == TypeInv /\ [Next]_vars => TypeInv'
<1> SUFFICES ASSUME TypeInv, [Next]_vars PROVE TypeInv'
  OBVIOUS
<1>1. ASSUME NEW c \in Consumers, StepOf(c) PROVE TypeInv'
  <2>1. Types' /\ InHand(c)'
    BY <1>1, StepTypes, StepHand
  <2>2. ASSUME NEW d \in Consumers, d # c PROVE InHand(d)'
    <3>1. Local(d)' = Local(d)
      BY <1>1, <2>2, Frame DEF TypeInv
    <3> QED
      BY <3>1 DEF TypeInv, InHand, Local, Record
  <2> QED
    BY <2>1, <2>2 DEF TypeInv
<1>2. ASSUME NEW c \in Consumers, NEW l \in Lanes, Rebalance(l, c) PROVE TypeInv'
  <2>1. Types'
    <3>1. /\ assigned' \in [Lanes -> Consumers] /\ generation' \in [Lanes -> Nat]
          /\ rebalances' \in Nat
      BY <1>2 DEF Rebalance, GiveAway, TypeInv, Types
    <3>2. UNCHANGED <<committed, claim, position, worker, pc, batch, out, alerts, alerted, faults, retried>>
      BY <1>2 DEF Rebalance, GiveAway
    <3> QED
      BY <3>1, <3>2 DEF worker, TypeInv, Types
  <2>2. \A d \in Consumers : InHand(d)'
    BY <1>2 DEF Rebalance, worker, TypeInv, InHand, Record
  <2> QED
    BY <2>1, <2>2 DEF TypeInv
<1>3. CASE UNCHANGED vars
  BY <1>3 DEF vars, group, worker, counters, TypeInv, Types, InHand, Record
<1> QED
  BY <1>1, <1>2, <1>3, NextCases

LEMMA TypeOK == Spec => []TypeInv
BY InitType, NextType, PTL DEF Spec

-----------------------------------------------------------------------------
(* Every large transfer is alerted. *)

Raised(a) == alerts[a] > 0

(* A dedupe key stands for an alert that was sent, and the alert of a large transfer is
   among those that handle has still to raise until it is.                             *)
LargeInv ==
  /\ handled \subseteq Records
  /\ \A a \in alerted : Raised(a)
  /\ \A c \in Consumers : pc[c] = "setKey" => Raised(Pending(c))
  /\ \A c \in Consumers : pc[c] \in Alerting /\ MessageAt(Record(c)).large =>
       Raised(<<Event(c), "LARGE_AMOUNT">>) \/ Contains(out[c], "LARGE_AMOUNT")
  /\ LargeIsAlerted

LEMMA AlertsEffect ==
  ASSUME TypeInv, NEW c \in Consumers, StepOf(c)
  PROVE  /\ \/ UNCHANGED alerts
            \/ At(c, "send") /\ alerts' = [alerts EXCEPT ![Pending(c)] = @ + 1]
         /\ \/ UNCHANGED alerted
            \/ At(c, "setKey") /\ alerted' = alerted \cup {Pending(c)}
         /\ \/ UNCHANGED handled
            \/ /\ (pc[c] = "alert" /\ out[c] = <<>>) \/ pc[c] = "dlq"
               /\ handled' = handled \cup {Record(c)}
<1>1. CASE Run(c)
  <2>1. CASE Connect(c) \/ GetMany(c) \/ End(c) \/ Handle(c) \/ Commit(c)
    BY <2>1 DEF Connect, GetMany, End, Handle, Commit
  <2>2. CASE Alert(c) \/ ToDlq(c)
    BY <2>2 DEF Alert, ToDlq, Return, At
  <2>3. CASE SendAlert(c) \/ SetKey(c)
    BY <2>3 DEF SendAlert, SetKey, Pending
  <2> QED
    BY <1>1, <2>1, <2>2, <2>3 DEF Run
<1>2. CASE HandleFails(c)
  BY <1>2 DEF HandleFails, Pending
<1>3. CASE TaskDies(c) \/ Stop(c) \/ Restart(c) \/ \E l \in Lanes : Poll(c, l)
  BY <1>3 DEF TaskDies, Stop, Restart, Poll
<1> QED
  BY <1>1, <1>2, <1>3 DEF StepOf

LEMMA AlertsGrow ==
  ASSUME TypeInv, NEW c \in Consumers, StepOf(c)
  PROVE  /\ \A a \in Events \X Rules : Raised(a) => Raised(a)'
         /\ SendAlert(c) => alerts'[Pending(c)] > 0
<1>1. alerts \in [Events \X Rules -> Nat]
  BY DEF TypeInv, Types
<1>2. CASE UNCHANGED alerts /\ ~SendAlert(c)
  BY <1>2 DEF Raised
<1>3. CASE At(c, "send") /\ alerts' = [alerts EXCEPT ![Pending(c)] = @ + 1]
  <2>1. Pending(c) \in Events \X Rules
    BY <1>3, AlertInHand DEF TypeInv, InHand, At
  <2> HIDE DEF Pending
  <2>2. alerts'[Pending(c)] > 0
    BY <1>1, <1>3, <2>1
  <2>3. \A a \in Events \X Rules : alerts[a] > 0 => alerts'[a] > 0
    BY <1>1, <1>3, <2>1
  <2> QED
    BY <2>2, <2>3 DEF Raised
<1> QED
  BY <1>2, <1>3, AlertsEffect DEF SendAlert, Pending

(* Where a step takes its pod, as to the alert it is at. *)
Moves(c, from, to) ==
  /\ task[c] = "running" /\ pc[c] = from /\ task'[c] = "running" /\ pc'[c] = to
  /\ batch'[c] = batch[c]

LEMMA PodEffect ==
  ASSUME TypeInv, NEW c \in Consumers, StepOf(c)
  PROVE  \/ pc'[c] = pc[c] /\ batch'[c] = batch[c] /\ out'[c] = out[c]
         \/ pc'[c] \notin Alerting
         \/ /\ Moves(c, "handle", "alert")
            /\ MessageAt(Record(c)).large => Contains(out'[c], "LARGE_AMOUNT")
         \/ /\ Moves(c, "alert", "alert") /\ out[c] # <<>> /\ out'[c] = Tail(out[c])
            /\ Pending(c) \in alerted
         \/ Moves(c, "alert", "send") /\ out'[c] = out[c] /\ Pending(c) \notin alerted /\ Alert(c)
         \/ Moves(c, "send", "setKey") /\ out'[c] = out[c] /\ SendAlert(c)
         \/ Moves(c, "setKey", "alert") /\ out'[c] = Tail(out[c]) /\ SetKey(c)
<1>1. Types
  BY DEF TypeInv
<1>2. CASE Connect(c) \/ End(c) \/ TaskDies(c) \/ Stop(c) \/ \E l \in Lanes : Poll(c, l)
  BY <1>2 DEF Connect, End, TaskDies, Stop, Poll
<1>3. CASE GetMany(c) \/ Commit(c) \/ ToDlq(c) \/ Restart(c)
  BY <1>1, <1>3 DEF GetMany, Commit, ToDlq, Return, Restart, Goto, Types, Alerting
<1>4. CASE Handle(c)
  <2>1. task'[c] = "running" /\ task[c] = "running" /\ pc[c] = "handle" /\ batch' = batch
    BY <1>4 DEF Handle, At, worker
  <2>2. CASE ~Valid(Record(c))
    BY <1>1, <1>4, <2>2 DEF Handle, Goto, Types, Alerting
  <2>3. CASE Valid(Record(c))
    <3>1. PICK velocity \in BOOLEAN :
            Goto(c, "alert", (IF MessageAt(Record(c)).large THEN <<"LARGE_AMOUNT">> ELSE <<>>)
                             \o (IF velocity THEN <<"VELOCITY">> ELSE <<>>))
      BY <1>4, <2>3 DEF Handle
    <3>2. pc'[c] = "alert"
      BY <1>1, <3>1 DEF Goto, Types
    <3>3. ASSUME MessageAt(Record(c)).large PROVE Contains(out'[c], "LARGE_AMOUNT")
      <4>1. out'[c] = <<"LARGE_AMOUNT">> \o (IF velocity THEN <<"VELOCITY">> ELSE <<>>)
        BY <1>1, <3>1, <3>3 DEF Goto, Types
      <4>2. 1 \in 1..Len(out'[c]) /\ out'[c][1] = "LARGE_AMOUNT"
        BY <4>1
      <4> QED
        BY <4>2 DEF Contains
    <3> QED
      BY <2>1, <3>2, <3>3 DEF Moves
  <2> QED
    BY <2>2, <2>3
<1>5. CASE Alert(c)
  BY <1>1, <1>5 DEF Alert, At, Return, Goto, Moves, Pending, Types, Alerting, worker
<1>6. CASE SendAlert(c) \/ SetKey(c)
  BY <1>1, <1>6 DEF SendAlert, SetKey, At, Goto, Moves, Types, worker
<1>7. CASE HandleFails(c)
  BY <1>1, <1>7 DEF HandleFails, Goto, Types, Alerting
<1> QED
  BY <1>2, <1>3, <1>4, <1>5, <1>6, <1>7 DEF StepOf, Run

LEMMA InitLarge == Init => LargeInv
BY DEF Init, LargeInv, LargeIsAlerted, Alerting

LEMMA LargeStep ==
  ASSUME TypeInv, TypeInv', LargeInv, NEW c \in Consumers, StepOf(c)
  PROVE  LargeInv'
<1> DEFINE Large(d) == <<Event(d), "LARGE_AMOUNT">>
<1>1. /\ \A a \in Events \X Rules : Raised(a) => Raised(a)'
      /\ SendAlert(c) => alerts'[Pending(c)] > 0
  BY AlertsGrow
<1>2. alerted \subseteq Events \X Rules /\ "LARGE_AMOUNT" \in Rules
  BY DEF TypeInv, Types, Rules
<1>3. handled' \subseteq Records
  <2>1. pc[c] # "idle" => Record(c) \in Records
    BY RecordInHand DEF TypeInv
  <2> QED
    BY <2>1, AlertsEffect DEF LargeInv
<1>4. \A a \in alerted' : Raised(a)'
  <2>1. pc[c] = "setKey" => Pending(c) \in Events \X Rules /\ Raised(Pending(c))
    BY AlertInHand DEF TypeInv, InHand, LargeInv
  <2> QED
    BY <1>1, <1>2, <2>1, AlertsEffect DEF LargeInv, At
<1>5. ASSUME NEW d \in Consumers, pc'[d] = "setKey" PROVE Raised(Pending(d))'
  <2>1. CASE pc'[d] = pc[d] /\ batch'[d] = batch[d] /\ out'[d] = out[d]
    <3>1. Pending(d) \in Events \X Rules /\ Raised(Pending(d)) /\ Pending(d)' = Pending(d)
      BY <1>5, <2>1, AlertInHand DEF TypeInv, InHand, LargeInv, Pending, Event, Record
    <3> QED
      BY <1>1, <3>1 DEF Raised
  <2>2. CASE d = c /\ Moves(c, "send", "setKey") /\ out'[c] = out[c] /\ SendAlert(c)
    BY <1>1, <2>2 DEF Moves, Raised, Pending, Event, Record
  <2>3. CASE d # c
    BY <2>1, <2>3, Frame DEF Local, TypeInv
  <2> QED
    BY <1>5, <2>1, <2>2, <2>3, PodEffect DEF Moves, Alerting
<1>6. ASSUME NEW d \in Consumers, pc'[d] \in Alerting, MessageAt(Record(d)').large
      PROVE  Raised(Large(d))' \/ Contains(out'[d], "LARGE_AMOUNT")
  <2>1. CASE pc'[d] = pc[d] /\ batch'[d] = batch[d] /\ out'[d] = out[d]
    <3>1. Large(d)' = Large(d) /\ Record(d)' = Record(d)
      BY <2>1 DEF Event, Record
    <3>2. Large(d) \in Events \X Rules
      BY <1>2, <1>6, <2>1, RecordInHand DEF TypeInv, Alerting
    <3>3. Raised(Large(d)) \/ Contains(out[d], "LARGE_AMOUNT")
      BY <1>6, <2>1, <3>1 DEF LargeInv
    <3> QED
      BY <1>1, <2>1, <3>1, <3>2, <3>3 DEF Raised
  <2>2. CASE d # c
    BY <2>1, <2>2, Frame DEF Local, TypeInv
  <2>3. CASE d = c /\ pc[c] # "idle" /\ batch'[c] = batch[c]
    <3>1. Record(c)' = Record(c) /\ Event(c)' = Event(c) /\ Large(c) \in Events \X Rules
      BY <1>2, <2>3, RecordInHand DEF TypeInv, Event, Record
    <3>2. CASE Moves(c, "handle", "alert")
      BY <1>6, <2>3, <3>1, <3>2, PodEffect DEF Moves, Alerting
    <3>3. CASE pc[c] \in Alerting /\ out'[c] = out[c]
      <4>1. Raised(Large(c)) \/ Contains(out[c], "LARGE_AMOUNT")
        BY <1>6, <2>3, <3>1, <3>3 DEF LargeInv
      <4> QED
        BY <1>1, <2>3, <3>1, <3>3, <4>1 DEF Raised
    <3>4. CASE /\ pc[c] \in Alerting /\ out[c] # <<>> /\ out'[c] = Tail(out[c])
               /\ Raised(Pending(c))
      <4>1. Raised(Large(c)) \/ Contains(out[c], "LARGE_AMOUNT")
        BY <1>6, <2>3, <3>1, <3>4 DEF LargeInv
      <4>2. Contains(out[c], "LARGE_AMOUNT") => Head(out[c]) = "LARGE_AMOUNT" \/ Contains(out'[c], "LARGE_AMOUNT")
        BY <2>3, <3>4, AlertInHand DEF TypeInv
      <4>3. Head(out[c]) = "LARGE_AMOUNT" => Raised(Large(c))
        BY <3>4 DEF Pending
      <4> QED
        BY <1>1, <2>3, <3>1, <4>1, <4>2, <4>3 DEF Raised
    <3>5. pc[c] = "alert" /\ Pending(c) \in alerted => Raised(Pending(c))
      BY DEF LargeInv
    <3>6. pc[c] = "setKey" => Raised(Pending(c)) /\ out[c] # <<>>
      BY DEF LargeInv, TypeInv, InHand
    <3> QED
      BY <1>6, <2>1, <2>3, <3>2, <3>3, <3>4, <3>5, <3>6, PodEffect DEF Moves, Alerting
  <2> QED
    BY <1>6, <2>1, <2>2, <2>3, PodEffect DEF Moves, Alerting
<1>7. LargeIsAlerted'
  <2> SUFFICES ASSUME NEW r \in handled', MessageAt(r).large
               PROVE  Raised(<<MessageAt(r).id, "LARGE_AMOUNT">>)'
    BY DEF LargeIsAlerted, Raised
  <2>1. r \in Records /\ <<MessageAt(r).id, "LARGE_AMOUNT">> \in Events \X Rules /\ Valid(r)
    BY <1>2, <1>3, RecordTypes, FraudAssumption
  <2>2. CASE r \in handled
    BY <1>1, <2>1, <2>2 DEF LargeInv, LargeIsAlerted, Raised
  <2>3. CASE r = Record(c) /\ ((pc[c] = "alert" /\ out[c] = <<>>) \/ pc[c] = "dlq")
    <3>1. pc[c] = "alert" /\ out[c] = <<>>
      BY <2>1, <2>3 DEF TypeInv, InHand
    <3>2. ~Contains(out[c], "LARGE_AMOUNT")
      BY <3>1 DEF Contains
    <3>3. Raised(Large(c))
      BY <2>3, <3>1, <3>2 DEF LargeInv, Alerting
    <3> QED
      BY <1>1, <2>1, <2>3, <3>3 DEF Event
  <2> QED
    BY <2>2, <2>3, AlertsEffect
<1> QED
  BY <1>3, <1>4, <1>5, <1>6, <1>7 DEF LargeInv

LEMMA NextLarge == TypeInv /\ TypeInv' /\ LargeInv /\ [Next]_vars => LargeInv'
<1> SUFFICES ASSUME TypeInv, TypeInv', LargeInv, [Next]_vars PROVE LargeInv'
  OBVIOUS
<1>1. CASE \E c \in Consumers : StepOf(c)
  BY <1>1, LargeStep
<1>2. CASE \/ UNCHANGED vars
           \/ \E c \in Consumers, l \in Lanes : Rebalance(l, c)
  BY <1>2 DEF vars, Rebalance, LargeInv, LargeIsAlerted, Raised, Pending, Event, Record
<1> QED
  BY <1>1, <1>2, NextCases

(* A large transfer that the worker is done with has been alerted, whatever failed, stopped
   or moved in between and however often handle was begun again: "Redis outage loses
   nothing". Its alert stays among those to raise until it is sent or its key is found,
   and keys are set only after a send.                                                    *)
THEOREM LargeTransfersAreAlerted == Spec => []LargeIsAlerted
<1>1. Spec => [](TypeInv /\ LargeInv)
  BY TypeOK, InitLarge, NextLarge, PTL DEF Spec
<1>2. LargeInv => LargeIsAlerted
  BY DEF LargeInv
<1> QED
  BY <1>1, <1>2, PTL

-----------------------------------------------------------------------------
(* An alert is raised again only after a fault. *)

(* The pods that a message of lane l may be, or become, in the hands of: each rebalance
   adds one at most.                                                                   *)
Around(l) ==
  {c \in Consumers : \/ c = assigned[l]
                     \/ claim[c][l] # -1
                     \/ \E i \in 1..Len(batch[c]) : batch[c][i][1] = l}

Raising(a, label) == {c \in Consumers : At(c, label) /\ Pending(c) = a}

(* The pods that may still send alert a, of an event in lane l, though nothing fails: all
   but those which have, and once the key is set only those which asked for it before.   *)
MaySend(a, l) == IF a \in alerted THEN Raising(a, "send") ELSE Around(l) \ Raising(a, "setKey")

Excuses == retried + faults + rebalances

OnceInv ==
  /\ \A l \in Lanes : IsFiniteSet(Around(l))
  /\ \A r \in Records, rule \in Rules : Valid(r) =>
       LET a == <<MessageAt(r).id, rule>>
       IN  alerts[a] + Cardinality(MaySend(a, r[1])) <= 1 + Excuses
  /\ \A a \in Events \X Rules : Raised(a) => \E r \in Records : Valid(r) /\ MessageAt(r).id = a[1]

LEMMA Sizes ==
  ASSUME NEW S, IsFiniteSet(S), NEW x, NEW T, T \subseteq S \cup {x}
  PROVE  /\ IsFiniteSet(T) /\ Cardinality(S) \in Nat /\ Cardinality(T) \in Nat
         /\ Cardinality(T) <= Cardinality(S) + 1
         /\ (x \in S \/ x \notin T) => Cardinality(T) <= Cardinality(S)
         /\ x \in S /\ x \notin T => Cardinality(T) + 1 <= Cardinality(S)
<1>1. /\ IsFiniteSet(S \cup {x}) /\ Cardinality(S) \in Nat
      /\ Cardinality(S \cup {x}) = IF x \in S THEN Cardinality(S) ELSE Cardinality(S) + 1
  BY FS_AddElement, FS_CardinalityType
<1>2. IsFiniteSet(T) /\ Cardinality(T) <= Cardinality(S \cup {x}) /\ Cardinality(T) \in Nat
  BY <1>1, FS_Subset, FS_CardinalityType
<1>3. ASSUME x \notin T, x \notin S PROVE Cardinality(T) <= Cardinality(S)
  <2>1. T \subseteq S
    BY <1>3
  <2> QED
    BY <2>1, FS_Subset
<1>4. ASSUME x \in S, x \notin T PROVE Cardinality(T) + 1 <= Cardinality(S)
  <2>1. T \subseteq S \ {x}
    BY <1>4
  <2>2. IsFiniteSet(S \ {x}) /\ Cardinality(S \ {x}) = Cardinality(S) - 1
    BY <1>4, FS_RemoveElement
  <2>3. Cardinality(T) <= Cardinality(S \ {x})
    BY <2>1, <2>2, FS_Subset
  <2> QED
    BY <1>1, <1>2, <2>2, <2>3
<1> QED
  BY <1>1, <1>2, <1>3, <1>4

(* Whoever is at an alert of the event has a copy of it, from the event's own lane. *)
LEMMA RaisingAround ==
  ASSUME TypeInv, NEW r \in Records, Valid(r), NEW rule \in Rules,
         NEW label \in {"send", "setKey"}
  PROVE  Raising(<<MessageAt(r).id, rule>>, label) \subseteq Around(r[1])
<1> SUFFICES ASSUME NEW c \in Raising(<<MessageAt(r).id, rule>>, label) PROVE c \in Around(r[1])
  OBVIOUS
<1>1. c \in Consumers /\ pc[c] \in Alerting /\ pc[c] # "idle" /\ Event(c) = MessageAt(r).id
  BY DEF Raising, At, Pending, Alerting
<1>2. batch[c] \in Seq(Records) /\ batch[c] # <<>> /\ Record(c) \in Records /\ Valid(Record(c))
  BY <1>1, RecordInHand DEF TypeInv, InHand
<1>3. Record(c)[1] = r[1]
  BY <1>1, <1>2, KeyAssumption DEF Event
<1>4. 1 \in 1..Len(batch[c]) /\ batch[c][1] = Record(c)
  BY <1>2, HeadTail DEF Record
<1> QED
  BY <1>1, <1>3, <1>4 DEF Around

LEMMA MaySendAround ==
  ASSUME TypeInv, NEW r \in Records, Valid(r), NEW rule \in Rules
  PROVE  MaySend(<<MessageAt(r).id, rule>>, r[1]) \subseteq Around(r[1])
BY RaisingAround DEF MaySend

(* Only a rebalance brings another pod to a lane. *)
LEMMA AroundShrinks ==
  ASSUME TypeInv, NEW c \in Consumers, StepOf(c), NEW l \in Lanes
  PROVE  Around(l)' \subseteq Around(l)
<1> SUFFICES ASSUME NEW d \in Consumers, d \in Around(l)', d # assigned[l] PROVE d \in Around(l)
  BY DEF Around
<1>1. Types /\ assigned' = assigned
  BY Frame DEF TypeInv
<1>2. claim'[d][l] # -1 \/ \E i \in 1..Len(batch'[d]) : batch'[d][i][1] = l
  BY <1>1 DEF Around
<1>3. CASE claim'[d] = claim[d] /\ batch'[d] = batch[d]
  BY <1>2, <1>3 DEF Around
<1>4. CASE d # c
  BY <1>3, <1>4, <1>1, Frame DEF Local
<1>5. CASE d = c /\ GetMany(c)
  <2>1. claim' = claim
    BY <1>5 DEF GetMany, group
  <2>2. PICK upTo \in [Lanes -> Nat], s \in Seq(Records) : Takes(c, upTo, s)
    BY <1>1, <1>5, GetManyEffect
  <2>3. batch'[c] = s
    BY <1>1, <2>2 DEF Types, Takes
  <2>4. claim[c][l] # -1
    BY <1>2, <1>5, <2>1, <2>2, <2>3 DEF Takes
  <2> QED
    BY <1>5, <2>4 DEF Around
<1>6. CASE d = c /\ Commit(c)
  <2>1. claim' = claim /\ batch'[c] = Tail(batch[c]) /\ batch[c] \in Seq(Records) /\ batch[c] # <<>>
    BY <1>1, <1>6, RecordInHand DEF Commit, At, TypeInv, Types
  <2>2. \A i \in 1..Len(Tail(batch[c])) : i + 1 \in 1..Len(batch[c]) /\ Tail(batch[c])[i] = batch[c][i + 1]
    BY <2>1, HeadTail
  <2> QED
    BY <1>2, <1>6, <2>1, <2>2 DEF Around
<1>7. CASE d = c /\ Restart(c)
  <2>1. claim'[c][l] = -1 /\ batch'[c] = <<>>
    BY <1>1, <1>7 DEF Restart, Forget, Types
  <2> QED
    BY <1>2, <1>7, <2>1
<1>8. CASE d = c /\ \E k \in Lanes : Poll(c, k)
  <2>1. PICK k \in Lanes : Learn(c, k)
    BY <1>8 DEF Poll
  <2>2. batch' = batch
    BY <1>8 DEF Poll
  <2>3. claim'[c][l] = claim[c][l] \/ claim'[c][l] = -1
    <3>1. claim \in [Consumers -> [Lanes -> Int]]
      BY <1>1 DEF Types
    <3>2. CASE assigned[k] = c
      <4>1. k # l /\ claim' = [claim EXCEPT ![c][k] = generation[k]]
        BY <1>8, <2>1, <3>2 DEF Learn
      <4> QED
        BY <3>1, <4>1
    <3>3. CASE assigned[k] # c
      <4>1. claim' = [claim EXCEPT ![c][k] = -1]
        BY <2>1, <3>3 DEF Learn
      <4> QED
        BY <3>1, <4>1
    <3> QED
      BY <3>2, <3>3
  <2> QED
    BY <1>2, <1>8, <2>2, <2>3 DEF Around
<1>9. CASE Handle(c) \/ Alert(c) \/ SendAlert(c) \/ SetKey(c) \/ ToDlq(c) \/ HandleFails(c)
  BY <1>3, <1>9 DEF Handle, Alert, SendAlert, SetKey, ToDlq, HandleFails, group
<1>10. CASE Connect(c) \/ End(c) \/ TaskDies(c) \/ Stop(c)
  BY <1>3, <1>10 DEF Connect, End, TaskDies, Stop, group
<1> QED
  BY <1>4, <1>5, <1>6, <1>7, <1>8, <1>9, <1>10 DEF StepOf, Run

(* Every failure is counted; what is not is a step of run(), a poll, or a new process in the
   place of an ended one.                                                                 *)
LEMMA ExcusesStep ==
  ASSUME TypeInv, NEW c \in Consumers, StepOf(c)
  PROVE  /\ Excuses \in Nat
         /\ \/ Excuses' = Excuses + 1
            \/ /\ Excuses' = Excuses
               /\ ~HandleFails(c) /\ ~TaskDies(c) /\ ~Stop(c) /\ (Restart(c) => task[c] = "ended")
<1>1. faults \in Nat /\ retried \in Nat /\ rebalances \in Nat
  BY DEF TypeInv, Types
<1>2. CASE Fault \/ Retried
  BY <1>1, <1>2 DEF Fault, Retried, Excuses
<1>3. CASE UNCHANGED counters
  <2>1. ~Fault /\ ~Retried
    BY <1>1, <1>3 DEF Fault, Retried, counters
  <2> QED
    BY <1>1, <1>3, <2>1 DEF Excuses, counters, HandleFails, TaskDies, Stop, Restart
<1>4. Run(c) \/ (\E l \in Lanes : Poll(c, l)) => UNCHANGED counters
  BY DEF Run, Poll, Connect, GetMany, End, Handle, Alert, SendAlert, SetKey, ToDlq, Commit
<1> QED
  BY <1>2, <1>3, <1>4 DEF StepOf, HandleFails, TaskDies, Stop, Restart

LEMMA AlertsOf ==
  ASSUME TypeInv, NEW c \in Consumers, StepOf(c), NEW a \in Events \X Rules
  PROVE  /\ alerts[a] \in Nat
         /\ \/ alerts'[a] = alerts[a]
            \/ At(c, "send") /\ Pending(c) = a /\ alerts'[a] = alerts[a] + 1
<1>1. alerts \in [Events \X Rules -> Nat]
  BY DEF TypeInv, Types
<1>2. CASE UNCHANGED alerts
  BY <1>1, <1>2
<1>3. CASE At(c, "send") /\ alerts' = [alerts EXCEPT ![Pending(c)] = @ + 1]
  <2>1. CASE Pending(c) = a
    BY <1>1, <1>3, <2>1
  <2>2. CASE Pending(c) # a
    BY <1>1, <1>3, <2>2
  <2> QED
    BY <2>1, <2>2
<1> QED
  BY <1>2, <1>3, AlertsEffect

(* Whatever the step, only c itself may come to be among those that may send. *)
LEMMA MaySendStep ==
  ASSUME TypeInv, NEW c \in Consumers, StepOf(c), NEW r \in Records, Valid(r), NEW rule \in Rules,
         NEW a, a = <<MessageAt(r).id, rule>>
  PROVE  MaySend(a, r[1])' \subseteq MaySend(a, r[1]) \cup {c}
<1> SUFFICES ASSUME NEW d \in MaySend(a, r[1])', d # c PROVE d \in MaySend(a, r[1])
  OBVIOUS
<1>1. r[1] \in Lanes
  BY RecordTypes
<1>2. Around(r[1])' \subseteq Around(r[1])
  BY <1>1, AroundShrinks
<1>3. Raising(a, "send") \subseteq Around(r[1])
  BY RaisingAround
<1>4. d \in Consumers
  BY DEF MaySend, Raising, Around
<1>5. Local(d)' = Local(d)
  BY <1>4, Frame DEF TypeInv
<1>6. \A label : d \in Raising(a, label)' <=> d \in Raising(a, label)
  BY <1>4, <1>5 DEF Raising, At, Pending, Event, Record, Local
<1>7. alerted \subseteq alerted'
  BY AlertsEffect
<1>8. d \in Raising(a, "send") => d \notin Raising(a, "setKey")
  BY DEF Raising, At
<1> QED
  BY <1>2, <1>3, <1>6, <1>7, <1>8 DEF MaySend

(* A pod that is about to send is among those that may. *)
LEMMA SenderMaySend ==
  ASSUME TypeInv, NEW c \in Consumers, NEW r \in Records, Valid(r), NEW rule \in Rules,
         NEW a, a = <<MessageAt(r).id, rule>>, At(c, "send"), Pending(c) = a
  PROVE  c \in MaySend(a, r[1])
<1>1. c \in Raising(a, "send") /\ c \notin Raising(a, "setKey")
  BY DEF Raising, At
<1>2. c \in Around(r[1])
  BY <1>1, RaisingAround
<1> QED
  BY <1>1, <1>2 DEF MaySend

(* Where nothing fails c does not become one of them. *)
LEMMA MaySendKept ==
  ASSUME TypeInv, NEW c \in Consumers, StepOf(c), NEW r \in Records, Valid(r), NEW rule \in Rules,
         NEW a, a = <<MessageAt(r).id, rule>>,
         ~HandleFails(c), ~TaskDies(c), ~Stop(c), Restart(c) => task[c] = "ended",
         c \in MaySend(a, r[1])'
  PROVE  c \in MaySend(a, r[1])
<1>1. r[1] \in Lanes
  BY RecordTypes
<1>2. Around(r[1])' \subseteq Around(r[1])
  BY <1>1, AroundShrinks
<1>3. CASE a \notin alerted'
  <2>1. a \notin alerted /\ c \in Around(r[1]) /\ c \notin Raising(a, "setKey")'
    BY <1>2, <1>3, AlertsEffect DEF MaySend
  <2>2. ASSUME c \in Raising(a, "setKey") PROVE FALSE
    <3>1. At(c, "setKey") /\ Pending(c) = a
      BY <2>2 DEF Raising
    <3>2. SetKey(c) \/ \E l \in Lanes : Poll(c, l)
      BY <3>1 DEF StepOf, Run, At, Connect, GetMany, End, Handle, Alert, SendAlert, ToDlq, Commit
    <3>3. CASE SetKey(c)
      BY <1>3, <3>1, <3>3 DEF SetKey, Pending
    <3>4. CASE \E l \in Lanes : Poll(c, l)
      BY <2>1, <3>1, <3>4 DEF Poll, Raising, At, Pending, Event, Record, worker
    <3> QED
      BY <3>2, <3>3, <3>4
  <2> QED
    BY <2>1, <2>2 DEF MaySend
<1>4. CASE a \in alerted'
  <2>1. At(c, "send")' /\ Pending(c)' = a
    BY <1>4 DEF MaySend, Raising
  <2>2. CASE pc'[c] = pc[c] /\ batch'[c] = batch[c] /\ out'[c] = out[c]
    <3>1. pc[c] = "send" /\ Pending(c) = a
      BY <2>1, <2>2 DEF At, Pending, Event, Record
    <3>2. task[c] = "running"
      <4>1. ~Connect(c)
        BY <3>1 DEF Connect, TypeInv, InHand
      <4>2. ~Restart(c)
        BY <2>1 DEF Restart, At, TypeInv, Types
      <4> QED
        BY <2>1, <4>1, <4>2 DEF StepOf, Run, At, GetMany, End, Handle, Alert, SendAlert, SetKey, ToDlq, Commit,
                                Poll, worker
    <3> QED
      BY <3>1, <3>2, SenderMaySend DEF At
  <2>3. CASE Moves(c, "alert", "send") /\ out'[c] = out[c] /\ Pending(c) \notin alerted /\ Alert(c)
    BY <1>4, <2>1, <2>3 DEF Moves, Alert, Pending, Event, Record
  <2> QED
    BY <2>1, <2>2, <2>3, PodEffect DEF Moves, At, Alerting
<1> QED
  BY <1>3, <1>4

LEMMA OnceStep ==
  ASSUME TypeInv, TypeInv', OnceInv, NEW c \in Consumers, StepOf(c),
         NEW r \in Records, Valid(r), NEW rule \in Rules, NEW a, a = <<MessageAt(r).id, rule>>
  PROVE  alerts'[a] + Cardinality(MaySend(a, r[1])') <= 1 + Excuses'
<1> DEFINE S == MaySend(a, r[1])
           T == MaySend(a, r[1])'
<1> SUFFICES alerts'[a] + Cardinality(T) <= 1 + Excuses'
  OBVIOUS
<1>1. r[1] \in Lanes /\ a \in Events \X Rules
  BY RecordTypes
<1>2. IsFiniteSet(S) /\ T \subseteq S \cup {c}
  <2>1. IsFiniteSet(Around(r[1])) /\ S \subseteq Around(r[1])
    BY <1>1, MaySendAround DEF OnceInv
  <2> QED
    BY <2>1, MaySendStep, FS_Subset
<1>3. alerts[a] + Cardinality(S) <= 1 + Excuses
  BY DEF OnceInv
<1>4. /\ Cardinality(S) \in Nat /\ Cardinality(T) \in Nat
      /\ Cardinality(T) <= Cardinality(S) + 1
      /\ (c \in S \/ c \notin T) => Cardinality(T) <= Cardinality(S)
      /\ c \in S /\ c \notin T => Cardinality(T) + 1 <= Cardinality(S)
  <2> HIDE DEF S, T
  <2> QED
    BY <1>2, Sizes
<1>5. /\ alerts[a] \in Nat
      /\ \/ alerts'[a] = alerts[a]
         \/ At(c, "send") /\ Pending(c) = a /\ alerts'[a] = alerts[a] + 1
  BY <1>1, AlertsOf
<1>6. At(c, "send") /\ Pending(c) = a => c \in S
  BY SenderMaySend
<1>7. Excuses \in Nat
  BY ExcusesStep
<1>8. CASE Excuses' = Excuses + 1
  <2> HIDE DEF S, T
  <2> QED
    BY <1>3, <1>4, <1>5, <1>6, <1>7, <1>8
<1>9. CASE /\ Excuses' = Excuses
           /\ ~HandleFails(c) /\ ~TaskDies(c) /\ ~Stop(c) /\ (Restart(c) => task[c] = "ended")
  <2>1. c \in T => c \in S
    BY <1>9, MaySendKept
  <2>2. ASSUME alerts'[a] # alerts[a] PROVE c \notin T
    <3>1. At(c, "send") /\ Pending(c) = a
      BY <1>5, <2>2
    <3>2. SendAlert(c)
      BY <1>9, <2>2, <3>1 DEF StepOf, Run, At, Connect, GetMany, End, Handle, Alert, SetKey, ToDlq, Commit,
                              Poll, Restart
    <3>3. c \in Raising(a, "setKey")' /\ c \notin Raising(a, "send")'
      <4>1. task'[c] = "running" /\ pc'[c] = "setKey" /\ batch'[c] = batch[c] /\ out'[c] = out[c]
        BY <3>1, <3>2 DEF SendAlert, At, Goto, worker, TypeInv, Types
      <4> QED
        BY <3>1, <4>1 DEF Raising, At, Pending, Event, Record
    <3> QED
      BY <3>3 DEF MaySend
  <2> HIDE DEF S, T
  <2> QED
    BY <1>3, <1>4, <1>5, <1>6, <1>7, <1>9, <2>1, <2>2
<1> QED
  BY <1>8, <1>9, ExcusesStep

LEMMA InitOnce == Init => OnceInv
<1> SUFFICES ASSUME Init PROVE OnceInv
  OBVIOUS
<1>1. alerts = [a \in Events \X Rules |-> 0] /\ alerted = {} /\ Excuses = 0
  BY DEF Init, Excuses
<1>2. ASSUME NEW l \in Lanes PROVE IsFiniteSet(Around(l)) /\ Cardinality(Around(l)) = 1
  <2>1. Around(l) = {assigned[l]}
    BY <1>2 DEF Init, GroupInit, Around
  <2> QED
    BY <2>1, FS_Singleton
<1>3. ASSUME NEW r \in Records, NEW rule \in Rules, Valid(r), NEW a, a = <<MessageAt(r).id, rule>>
      PROVE  alerts[a] + Cardinality(MaySend(a, r[1])) <= 1 + Excuses
  <2>1. MaySend(a, r[1]) \subseteq Around(r[1])
    BY <1>1 DEF MaySend
  <2>2. r[1] \in Lanes /\ a \in Events \X Rules
    BY <1>3, RecordTypes
  <2>3. Cardinality(MaySend(a, r[1])) <= 1 /\ Cardinality(MaySend(a, r[1])) \in Nat
    BY <1>2, <2>1, <2>2, FS_Subset, FS_CardinalityType
  <2> QED
    BY <1>1, <2>2, <2>3
<1>4. \A a \in Events \X Rules : ~Raised(a)
  BY <1>1 DEF Raised
<1> QED
  BY <1>2, <1>3, <1>4 DEF OnceInv

(* A rebalance brings one pod, and is an excuse. *)
LEMMA RebalanceOnce ==
  ASSUME TypeInv, OnceInv, NEW c \in Consumers, NEW l \in Lanes, Rebalance(l, c)
  PROVE  OnceInv'
<1>1. /\ assigned' = [assigned EXCEPT ![l] = c] /\ rebalances' = rebalances + 1
      /\ UNCHANGED <<claim, worker, pc, batch, out, alerts, alerted, faults, retried>>
  BY DEF Rebalance, GiveAway
<1>2. /\ assigned \in [Lanes -> Consumers] /\ alerts \in [Events \X Rules -> Nat]
      /\ faults \in Nat /\ retried \in Nat /\ rebalances \in Nat
  BY DEF TypeInv, Types
<1>3. Excuses \in Nat /\ Excuses' = Excuses + 1
  BY <1>1, <1>2 DEF Excuses
<1>4. \A k \in Lanes : Around(k)' \subseteq Around(k) \cup {c}
  BY <1>1, <1>2 DEF Around
<1>5. \A a, label : Raising(a, label)' = Raising(a, label)
  BY <1>1 DEF Raising, At, Pending, Event, Record, worker
<1>6. \A k \in Lanes : IsFiniteSet(Around(k)')
  BY <1>4, Sizes DEF OnceInv
<1>7. ASSUME NEW r \in Records, NEW rule \in Rules, Valid(r), NEW a, a = <<MessageAt(r).id, rule>>
      PROVE  alerts'[a] + Cardinality(MaySend(a, r[1])') <= 1 + Excuses'
  <2> DEFINE S == MaySend(a, r[1])
             T == MaySend(a, r[1])'
  <2> SUFFICES alerts'[a] + Cardinality(T) <= 1 + Excuses'
    OBVIOUS
  <2>1. r[1] \in Lanes /\ a \in Events \X Rules
    BY <1>7, RecordTypes
  <2>2. T \subseteq S \cup {c}
    BY <1>1, <1>4, <1>5, <2>1 DEF MaySend
  <2>3. S \subseteq Around(r[1]) /\ IsFiniteSet(Around(r[1]))
    BY <1>7, <2>1, MaySendAround DEF OnceInv
  <2>4. alerts[a] + Cardinality(S) <= 1 + Excuses
    BY <1>7 DEF OnceInv
  <2>5. alerts'[a] = alerts[a] /\ alerts[a] \in Nat
    BY <1>1, <1>2, <2>1
  <2> HIDE DEF S, T
  <2>6. IsFiniteSet(S)
    BY <2>3, FS_Subset
  <2>7. Cardinality(S) \in Nat /\ Cardinality(T) \in Nat /\ Cardinality(T) <= Cardinality(S) + 1
    BY <2>2, <2>6, Sizes
  <2> QED
    BY <1>3, <2>4, <2>5, <2>7
<1>8. \A a \in Events \X Rules : Raised(a)' => Raised(a)
  BY <1>1 DEF Raised
<1> QED
  BY <1>6, <1>7, <1>8 DEF OnceInv

LEMMA NextOnce == TypeInv /\ TypeInv' /\ OnceInv /\ [Next]_vars => OnceInv'
<1> SUFFICES ASSUME TypeInv, TypeInv', OnceInv, [Next]_vars PROVE OnceInv'
  OBVIOUS
<1>1. ASSUME NEW c \in Consumers, StepOf(c) PROVE OnceInv'
  <2>1. ASSUME NEW l \in Lanes PROVE IsFiniteSet(Around(l)')
    BY <1>1, <2>1, AroundShrinks, FS_Subset DEF OnceInv
  <2>2. ASSUME NEW r \in Records, NEW rule \in Rules, Valid(r), NEW a, a = <<MessageAt(r).id, rule>>
        PROVE  alerts'[a] + Cardinality(MaySend(a, r[1])') <= 1 + Excuses'
    BY <1>1, <2>2, OnceStep
  <2>3. ASSUME NEW a \in Events \X Rules, Raised(a)'
        PROVE  \E r \in Records : Valid(r) /\ MessageAt(r).id = a[1]
    <3>1. CASE alerts'[a] = alerts[a]
      BY <2>3, <3>1 DEF OnceInv, Raised
    <3>2. CASE At(c, "send") /\ Pending(c) = a
      <4>1. Record(c) \in Records /\ Valid(Record(c))
        BY <1>1, <3>2, RecordInHand DEF TypeInv, InHand, At, Alerting
      <4> QED
        BY <3>2, <4>1 DEF Pending, Event
    <3> QED
      BY <1>1, <3>1, <3>2, AlertsOf
  <2> QED
    BY <2>1, <2>2, <2>3 DEF OnceInv
<1>2. CASE \E c \in Consumers, l \in Lanes : Rebalance(l, c)
  BY <1>2, RebalanceOnce
<1>3. CASE UNCHANGED vars
  <2>1. UNCHANGED <<assigned, claim, task, pc, batch, out, alerts, alerted, faults, retried, rebalances>>
    BY <1>3 DEF vars, group, worker, counters
  <2>2. /\ \A l : Around(l)' = Around(l)
        /\ \A a, label : Raising(a, label)' = Raising(a, label)
        /\ Excuses' = Excuses
    BY <2>1 DEF Around, Raising, At, Pending, Event, Record, Excuses
  <2>3. \A a, l : MaySend(a, l)' = MaySend(a, l)
    BY <2>1, <2>2 DEF MaySend
  <2> QED
    BY <2>1, <2>2, <2>3 DEF OnceInv, Raised
<1> QED
  BY <1>1, <1>2, <1>3, NextCases

(* An alert is in fraud.alerts once, and once more for every failed call, crash, stop and
   rebalance at most: whoever may still send it without one of these had it, or its lane,
   from before, and the dedupe key keeps it from the rest.                               *)
THEOREM AlertsAreRaisedOnce == Spec => []RaisedAgainOnlyAfterFault
<1>1. Spec => [](TypeInv /\ OnceInv)
  BY TypeOK, InitOnce, NextOnce, PTL DEF Spec
<1>2. TypeInv /\ OnceInv => RaisedAgainOnlyAfterFault
  <2> SUFFICES ASSUME TypeInv, OnceInv, NEW a \in Events \X Rules
               PROVE  alerts[a] <= 1 + retried + faults + rebalances
    BY DEF RaisedAgainOnlyAfterFault
  <2>1. alerts[a] \in Nat /\ retried \in Nat /\ faults \in Nat /\ rebalances \in Nat
    BY DEF TypeInv, Types
  <2>2. CASE ~Raised(a)
    BY <2>1, <2>2 DEF Raised
  <2>3. CASE Raised(a)
    <3>1. PICK r \in Records : Valid(r) /\ MessageAt(r).id = a[1]
      BY <2>3 DEF OnceInv
    <3>2. a = <<MessageAt(r).id, a[2]>> /\ a[2] \in Rules /\ r[1] \in Lanes
      BY <3>1, RecordTypes
    <3> DEFINE S == MaySend(a, r[1])
    <3>3. alerts[a] + Cardinality(S) <= 1 + Excuses
      BY <3>1, <3>2 DEF OnceInv
    <3>4. IsFiniteSet(Around(r[1])) /\ S \subseteq Around(r[1])
      BY <3>1, <3>2, MaySendAround DEF OnceInv
    <3> HIDE DEF S
    <3>5. Cardinality(S) \in Nat
      BY <3>4, FS_Subset, FS_CardinalityType
    <3> QED
      BY <2>1, <3>3, <3>5 DEF Excuses
  <2> QED
    BY <2>2, <2>3
<1> QED
  BY <1>1, <1>2, PTL

-----------------------------------------------------------------------------
(* A record is skipped only after a fault. *)

InHandOf(c, r) == r \in handled \/ Contains(batch[c], r)

(* Without a fault or a rebalance a lane has one consumer, which has handled, or holds,
   whatever it has taken, and whose position no committed offset is ahead of.          *)
Calm ==
  /\ \A c \in Consumers : ~stopping[c] /\ task[c] \in {"connecting", "running"}
  /\ \A l \in Lanes : generation[l] = 0 /\ committed[l] <= position[assigned[l]][l]
  /\ \A c \in Consumers, l \in Lanes :
       \/ claim[c][l] = -1 /\ position[c][l] = 0
       \/ claim[c][l] = 0 /\ assigned[l] = c
  /\ \A c \in Consumers, r \in Records : r[2] <= position[c][r[1]] => InHandOf(c, r)
  /\ \A c \in Consumers : pc[c] = "commit" => Record(c) \in handled

CalmInv == faults = 0 /\ rebalances = 0 => Calm

LEMMA InitCalm == Init => CalmInv
<1> SUFFICES ASSUME Init PROVE Calm
  BY DEF CalmInv
<1>1. /\ \A l \in Lanes : assigned[l] \in Consumers /\ generation[l] = 0 /\ committed[l] = 0
      /\ \A c \in Consumers, l \in Lanes : claim[c][l] = -1 /\ position[c][l] = 0
  BY DEF Init, GroupInit
<1>2. \A c \in Consumers, r \in Records : ~(r[2] <= position[c][r[1]])
  BY RecordTypes DEF Init, GroupInit
<1> QED
  BY <1>1, <1>2 DEF Init, Calm

LEMMA FaultsGrow ==
  ASSUME TypeInv, NEW c \in Consumers, StepOf(c)
  PROVE  faults' = faults \/ faults' = faults + 1
<1>1. CASE HandleFails(c) \/ TaskDies(c) \/ Stop(c) \/ Restart(c)
  BY <1>1 DEF HandleFails, Retried, TaskDies, Stop, Restart, Fault, counters
<1>2. CASE Run(c) \/ \E l \in Lanes : Poll(c, l)
  BY <1>2 DEF Run, Poll, Connect, GetMany, End, Handle, Alert, SendAlert, SetKey, ToDlq, Commit, counters
<1> QED
  BY <1>1, <1>2 DEF StepOf

(* The steps that are left when nothing fails or moves. *)
LEMMA CalmSteps ==
  ASSUME TypeInv, Calm, NEW c \in Consumers, StepOf(c), faults' = 0
  PROVE  /\ ~End(c) /\ ~TaskDies(c) /\ ~Stop(c) /\ ~Restart(c)
         /\ handled \subseteq handled'
<1>1. ~Fault
  BY DEF Fault, TypeInv, Types
<1>2. ~stopping[c] /\ task[c] # "ended"
  BY DEF Calm
<1>3. ~End(c) /\ ~TaskDies(c) /\ ~Stop(c) /\ ~Restart(c)
  BY <1>1, <1>2 DEF End, TaskDies, Stop, Restart
<1> QED
  BY <1>3, AlertsEffect

(* The coordinator's poll of a lane that c has just been given finds nothing committed. *)
LEMMA CalmPoll ==
  ASSUME TypeInv, Calm, NEW c \in Consumers, NEW l \in Lanes, Poll(c, l)
  PROVE  position' = position /\ claim' = [claim EXCEPT ![c][l] = 0] /\ assigned[l] = c
<1>1. Types
  BY DEF TypeInv
<1>2. /\ \/ claim[c][l] = -1 /\ position[c][l] = 0
         \/ claim[c][l] = 0 /\ assigned[l] = c
      /\ generation[l] = 0
  BY DEF Calm
<1>3. Learn(c, l) /\ assigned[l] = c /\ claim[c][l] = -1 /\ position[c][l] = 0
  BY <1>2 DEF Poll, Learn
<1>4. committed[l] = 0
  BY <1>1, <1>3 DEF Calm, Types
<1>5. position' = [position EXCEPT ![c] = [position[c] EXCEPT ![l] = 0]]
  BY <1>3, <1>4 DEF Learn
<1>6. [position[c] EXCEPT ![l] = 0] = position[c] /\ position \in [Consumers -> [Lanes -> Nat]]
  BY <1>1, <1>3 DEF Types
<1> QED
  BY <1>2, <1>3, <1>5, <1>6 DEF Learn

LEMMA CalmStep ==
  ASSUME TypeInv, TypeInv', Calm, NEW c \in Consumers, StepOf(c), faults' = 0
  PROVE  Calm'
<1>1. Types /\ Types' /\ InHand(c)
  BY DEF TypeInv
<1>2. /\ ~End(c) /\ ~TaskDies(c) /\ ~Stop(c) /\ ~Restart(c)
      /\ handled \subseteq handled'
  BY CalmSteps
<1>3. /\ \A d \in Consumers \ {c} : Local(d)' = Local(d)
      /\ UNCHANGED <<assigned, generation>>
  BY <1>1, Frame
<1>4. ~stopping'[c] /\ task'[c] \in {"connecting", "running"}
  <2>1. ~stopping[c] /\ task[c] \in {"connecting", "running"}
    BY DEF Calm
  <2>2. CASE Connect(c)
    BY <1>1, <2>1, <2>2 DEF Connect, Types
  <2>3. CASE ~Connect(c)
    BY <1>2, <2>1, <2>3 DEF StepOf, Run, GetMany, Handle, Alert, SendAlert, SetKey, ToDlq, Commit, HandleFails, Poll,
                            worker
  <2> QED
    BY <2>2, <2>3
<1>5. CASE GetMany(c)
  <2>1. UNCHANGED <<committed, claim>> /\ pc'[c] = "handle" /\ pc[c] = "idle" /\ handled' = handled
    BY <1>1, <1>5 DEF GetMany, At, Goto, group, Types
  <2>2. PICK upTo \in [Lanes -> Nat], s \in Seq(Records) : Takes(c, upTo, s)
    BY <1>1, <1>5, GetManyEffect
  <2>3. batch'[c] = s /\ position'[c] = upTo
    BY <1>1, <2>2 DEF Types, Takes
  <2>4. ASSUME NEW l \in Lanes PROVE committed[l] <= position'[assigned[l]][l]
    <3>1. committed[l] <= position[assigned[l]][l] /\ assigned[l] \in Consumers
      BY <1>1 DEF Calm, Types
    <3>2. CASE assigned[l] = c
      <4>1. committed[l] \in Nat /\ position[c][l] \in Nat /\ upTo[l] \in Nat
        BY <1>1 DEF Types
      <4> QED
        BY <2>2, <2>3, <3>1, <3>2, <4>1 DEF Takes
    <3>3. CASE assigned[l] # c
      BY <1>3, <3>1, <3>3 DEF Local
    <3> QED
      BY <3>2, <3>3
  <2>5. ASSUME NEW l \in Lanes
        PROVE  \/ claim[c][l] = -1 /\ upTo[l] = 0
               \/ claim[c][l] = 0 /\ assigned[l] = c
    BY <2>2 DEF Calm, Takes
  <2>6. ASSUME NEW r \in Records, r[2] <= upTo[r[1]] PROVE r \in handled \/ Contains(s, r)
    <3>0. r[1] \in Lanes /\ r[2] \in Nat
      BY RecordTypes
    <3>1. position[c][r[1]] \in Nat
      BY <1>1, <3>0 DEF Types
    <3>2. CASE position[c][r[1]] < r[2]
      BY <2>2, <2>6, <3>2 DEF Takes
    <3>3. CASE r[2] <= position[c][r[1]]
      <4>1. batch[c] = <<>> /\ InHandOf(c, r)
        BY <1>1, <2>1, <3>3 DEF Calm, InHand
      <4> QED
        BY <4>1 DEF InHandOf, Contains
    <3> QED
      BY <3>0, <3>1, <3>2, <3>3
  <2> QED
    BY <1>3, <1>4, <2>1, <2>3, <2>4, <2>5, <2>6 DEF Calm, InHandOf, Local, Record
<1>6. CASE Commit(c)
  <2>1. /\ UNCHANGED <<claim, position, handled>> /\ batch'[c] = Tail(batch[c]) /\ pc'[c] # "commit"
        /\ pc[c] = "commit"
        /\ committed' = [l \in Lanes |-> IF MayCommit(c, l) THEN position[c][l] ELSE committed[l]]
    BY <1>1, <1>6 DEF Commit, At, Goto, Types
  <2>2. \A l \in Lanes : committed'[l] <= position[assigned[l]][l]
    <3> SUFFICES ASSUME NEW l \in Lanes PROVE committed'[l] <= position[assigned[l]][l]
      OBVIOUS
    <3>1. position[c][l] \in Nat /\ committed[l] <= position[assigned[l]][l]
      BY <1>1 DEF Types, Calm
    <3> QED
      BY <2>1, <3>1 DEF MayCommit
  <2>3. ASSUME NEW r \in Records, r[2] <= position[c][r[1]] PROVE r \in handled \/ Contains(Tail(batch[c]), r)
    <3>1. InHandOf(c, r) /\ Record(c) \in handled
      BY <2>1, <2>3 DEF Calm
    <3>2. batch[c] \in Seq(Records) /\ batch[c] # <<>>
      BY <1>1, <2>1, RecordInHand
    <3>3. Contains(batch[c], r) => r = Record(c) \/ Contains(Tail(batch[c]), r)
      BY <3>2, HeadTail DEF Record
    <3> QED
      BY <3>1, <3>3 DEF InHandOf
  <2> QED
    BY <1>3, <1>4, <2>1, <2>2, <2>3 DEF Calm, InHandOf, Local, Record
<1>7. CASE \E l \in Lanes : Poll(c, l)
  <2>1. PICK l \in Lanes : Poll(c, l)
    BY <1>7
  <2>2. position' = position /\ claim' = [claim EXCEPT ![c][l] = 0] /\ assigned[l] = c
    BY <2>1, CalmPoll
  <2>3. UNCHANGED <<committed, worker, pc, batch, handled>>
    BY <2>1 DEF Poll, Learn
  <2>4. \A k \in Lanes : (claim'[c][k] = 0 /\ assigned[k] = c) \/ claim'[c][k] = claim[c][k]
    BY <1>1, <2>2 DEF Types
  <2>5. \A d \in Consumers : d # c => claim'[d] = claim[d]
    BY <1>3 DEF Local
  <2>6. \A d \in Consumers, k \in Lanes : \/ claim'[d][k] = -1 /\ position[d][k] = 0
                                          \/ claim'[d][k] = 0 /\ assigned[k] = d
    BY <2>4, <2>5 DEF Calm
  <2> QED
    BY <1>3, <2>2, <2>3, <2>6 DEF Calm, InHandOf, Record, worker
<1>8. CASE UNCHANGED <<committed, claim, position, batch>>
  <2>1. ASSUME pc'[c] = "commit" PROVE Record(c) \in handled'
    <3>1. CASE pc[c] = "commit"
      BY <1>2, <3>1 DEF Calm
    <3>2. CASE pc[c] # "commit"
      <4>1. Alert(c) \/ ToDlq(c)
        BY <1>1, <1>2, <2>1, <3>2 DEF StepOf, Run, Connect, GetMany, Handle, SendAlert, SetKey, Commit, HandleFails,
                                      Poll, Goto, Types
      <4> QED
        BY <1>1, <2>1, <4>1 DEF Alert, ToDlq, Return, Goto, Types
    <3> QED
      BY <3>1, <3>2
  <2>2. \A d \in Consumers : pc'[d] = "commit" => Record(d) \in handled'
    BY <1>2, <1>3, <2>1 DEF Calm, Local
  <2>3. Record(c)' = Record(c) /\ \A d \in Consumers : Record(d)' = Record(d)
    BY <1>8 DEF Record
  <2> QED
    BY <1>2, <1>3, <1>4, <1>8, <2>2, <2>3 DEF Calm, InHandOf, Local
<1>9. CASE Connect(c) \/ Handle(c) \/ Alert(c) \/ SendAlert(c) \/ SetKey(c) \/ ToDlq(c) \/ HandleFails(c)
  BY <1>8, <1>9 DEF Connect, Handle, Alert, SendAlert, SetKey, ToDlq, HandleFails, group
<1> QED
  BY <1>2, <1>5, <1>6, <1>7, <1>9 DEF StepOf, Run

LEMMA NextCalm == TypeInv /\ TypeInv' /\ CalmInv /\ [Next]_vars => CalmInv'
<1> SUFFICES ASSUME TypeInv, TypeInv', CalmInv, [Next]_vars, faults' = 0, rebalances' = 0 PROVE Calm'
  BY DEF CalmInv
<1>1. faults \in Nat /\ rebalances \in Nat
  BY DEF TypeInv, Types
<1>2. ASSUME NEW c \in Consumers, StepOf(c) PROVE Calm'
  <2>1. rebalances = 0 /\ faults = 0
    BY <1>1, <1>2, Frame, FaultsGrow DEF TypeInv
  <2> QED
    BY <1>2, <2>1, CalmStep DEF CalmInv
<1>3. CASE \E c \in Consumers, l \in Lanes : Rebalance(l, c)
  BY <1>1, <1>3 DEF Rebalance
<1>4. CASE UNCHANGED vars
  BY <1>4 DEF vars, group, worker, counters, CalmInv, Calm, InHandOf, Record
<1> QED
  BY <1>2, <1>3, <1>4, NextCases

(* While there is no crash, stop, exception that ends the task, or rebalance, every record up
   to the committed offsets is handled or still in the hands of a running pod: the commit
   between two messages of a batch is ahead of what is handled, but loses nothing itself. *)
THEOREM CommitSkipsNothingAlone == Spec => []SkippedOnlyAfterFault
<1>1. Spec => [](TypeInv /\ CalmInv)
  BY TypeOK, InitCalm, NextCalm, PTL DEF Spec
<1>2. TypeInv /\ CalmInv => SkippedOnlyAfterFault
  <2> SUFFICES ASSUME TypeInv, Calm, NEW r \in Records, r[2] <= committed[r[1]], r \notin handled
               PROVE  \E c \in Consumers : task[c] = "running" /\ Contains(batch[c], r)
    BY DEF CalmInv, SkippedOnlyAfterFault
  <2> DEFINE c == assigned[r[1]]
  <2>1. r[1] \in Lanes /\ r[2] \in Nat
    BY RecordTypes
  <2>2. /\ c \in Consumers /\ committed[r[1]] \in Nat /\ position[c][r[1]] \in Nat
        /\ committed[r[1]] <= position[c][r[1]]
    BY <2>1 DEF TypeInv, Types, Calm
  <2>3. r[2] <= position[c][r[1]]
    BY <2>1, <2>2
  <2>4. Contains(batch[c], r)
    BY <2>2, <2>3 DEF Calm, InHandOf
  <2>5. batch[c] # <<>>
    BY <2>4 DEF Contains
  <2>6. task[c] = "running"
    BY <2>2, <2>5 DEF Calm, TypeInv, InHand
  <2> QED
    BY <2>2, <2>4, <2>6
<1> QED
  BY <1>1, <1>2, PTL

-----------------------------------------------------------------------------
(* The velocity rule. *)

VelocityTypes ==
  /\ clock \in Nat /\ expireAt \in Nat
  /\ occurredAt \in Seq(Nat)
  /\ DOMAIN scored \subseteq Sent /\ DOMAIN zset \subseteq DOMAIN scored
  /\ \A e \in DOMAIN scored : scored[e] \in Nat
  /\ Checked => last.time \in Nat /\ last.count \in Nat

(* A score is the transfer's own time, or the time it was checked at. *)
Scores ==
  /\ \A e \in Sent : occurredAt[e] <= clock
  /\ \A e \in DOMAIN zset : zset[e] = scored[e]
  /\ \A e \in DOMAIN scored :
       /\ scored[e] <= clock /\ scored[e] + 2 * WindowMs <= expireAt
       /\ e \notin NoTime => scored[e] = occurredAt[e]

(* What has left the set was a window behind some other transfer, or two behind the time. *)
Left ==
  \A e \in DOMAIN scored \ DOMAIN zset :
    \/ \E f \in DOMAIN scored : scored[e] + WindowMs <= scored[f]
    \/ scored[e] + 2 * WindowMs <= clock

VelocityInv == VelocityTypes /\ Scores /\ Left /\ NeverOvercounts /\ ExactWhenPrompt

LEMMA InitVelocity == VelocityInit => VelocityInv
<1> SUFFICES ASSUME VelocityInit PROVE VelocityInv
  OBVIOUS
<1>1. DOMAIN Empty = {}
  BY DEF Empty
<1>2. last.event = 0 /\ Sent = {} /\ occurredAt \in Seq(Nat)
  BY DEF VelocityInit, NoCheck, Sent
<1> QED
  BY <1>1, <1>2 DEF VelocityInit, VelocityInv, VelocityTypes, Scores, Left, Checked,
                    NeverOvercounts, ExactWhenPrompt

(* The transfers that may be in the window which ends at t. *)
Candidates(t) == {e \in Sent : e \in NoTime \/ InWindow(occurredAt[e], t)}

LEMMA SentFinite ==
  ASSUME VelocityTypes, NEW T, T \subseteq Sent
  PROVE  IsFiniteSet(T) /\ Cardinality(T) \in Nat
<1>1. Len(occurredAt) \in Nat
  BY DEF VelocityTypes
<1>2. IsFiniteSet(Sent)
  BY <1>1, FS_Interval DEF Sent
<1>3. IsFiniteSet(T)
  BY <1>2, FS_Subset
<1> QED
  BY <1>3, FS_CardinalityType

LEMMA SendStep ==
  ASSUME VelocityInv, Send PROVE VelocityInv'
<1>1. /\ occurredAt \in Seq(Nat) /\ clock \in Nat /\ occurredAt' = Append(occurredAt, clock)
      /\ UNCHANGED <<clock, zset, expireAt, redelivered, scored, last>>
  BY DEF Send, VelocityInv, VelocityTypes
<1>2. /\ occurredAt' \in Seq(Nat) /\ Sent \subseteq Sent'
      /\ \A e \in Sent : occurredAt'[e] = occurredAt[e]
      /\ \A e \in Sent' : e \in Sent \/ occurredAt'[e] = clock
  BY <1>1 DEF Sent
<1>3. VelocityTypes'
  BY <1>1, <1>2 DEF VelocityInv, VelocityTypes, Checked
<1>4. Scores'
  <2>1. \A e \in Sent' : occurredAt'[e] <= clock
    <3> SUFFICES ASSUME NEW e \in Sent' PROVE occurredAt'[e] <= clock
      OBVIOUS
    <3>1. CASE e \in Sent
      BY <1>2, <3>1 DEF VelocityInv, Scores
    <3>2. CASE occurredAt'[e] = clock
      BY <1>1, <3>2
    <3> QED
      BY <1>2, <3>1, <3>2
  <2> QED
    BY <1>1, <1>2, <2>1 DEF VelocityInv, VelocityTypes, Scores
<1>5. Left' /\ ExactWhenPrompt'
  BY <1>1 DEF VelocityInv, Left, ExactWhenPrompt, Checked, InWindow
<1>6. NeverOvercounts'
  <2> SUFFICES ASSUME Checked PROVE last.count <= Cardinality(Candidates(last.time)')
    BY <1>1 DEF NeverOvercounts, Candidates, Checked
  <2>1. last.count <= Cardinality(Candidates(last.time)) /\ last.count \in Nat
    BY DEF VelocityInv, VelocityTypes, NeverOvercounts, Candidates
  <2>2. Candidates(last.time) \subseteq Candidates(last.time)'
    BY <1>1, <1>2 DEF Candidates, InWindow
  <2>3. IsFiniteSet(Candidates(last.time)')
    <3>1. Candidates(last.time)' \subseteq Sent' /\ Len(occurredAt') \in Nat
      BY <1>2 DEF Candidates
    <3>2. IsFiniteSet(Sent')
      BY <3>1, FS_Interval DEF Sent
    <3> QED
      BY <3>1, <3>2, FS_Subset
  <2>4. /\ Cardinality(Candidates(last.time)) <= Cardinality(Candidates(last.time)')
        /\ IsFiniteSet(Candidates(last.time))
    BY <2>2, <2>3, FS_Subset
  <2>5. Cardinality(Candidates(last.time)) \in Nat /\ Cardinality(Candidates(last.time)') \in Nat
    BY <2>3, <2>4, FS_CardinalityType
  <2> QED
    BY <2>1, <2>4, <2>5
<1> QED
  BY <1>3, <1>4, <1>5, <1>6 DEF VelocityInv

LEMMA TickStep ==
  ASSUME VelocityInv, Tick PROVE VelocityInv'
<1>1. /\ clock \in Nat /\ clock' = clock + 1
      /\ UNCHANGED <<occurredAt, zset, expireAt, redelivered, scored, last>>
  BY DEF Tick, VelocityInv, VelocityTypes
<1>2. VelocityTypes'
  BY <1>1 DEF VelocityInv, VelocityTypes, Checked, Sent
<1>3. \A e \in Sent : occurredAt[e] \in Nat
  BY DEF VelocityInv, VelocityTypes, Sent
<1>4. Scores'
  BY <1>1, <1>3 DEF VelocityInv, VelocityTypes, Scores, Sent
<1>5. Left'
  BY <1>1, VelocityAssumption DEF VelocityInv, VelocityTypes, Left
<1>6. ExactWhenPrompt' /\ NeverOvercounts'
  BY <1>1 DEF VelocityInv, ExactWhenPrompt, NeverOvercounts, Checked, InWindow, Sent
<1> QED
  BY <1>2, <1>4, <1>5, <1>6 DEF VelocityInv

(* What the MULTI of transfer e leaves: the set as it was, unless it had expired, with e and
   without those a window behind.                                                         *)
Kept(e, f, time) ==
  f = e \/ (clock < expireAt /\ f \in DOMAIN zset /\ scored[f] + WindowMs > time)

LEMMA CheckEffect ==
  ASSUME VelocityInv, NEW e \in Sent, Check(e)
  PROVE  \E time \in Nat :
           /\ time <= clock /\ (e \notin NoTime => time = occurredAt[e])
           /\ e \in DOMAIN scored => scored[e] <= time
           /\ DOMAIN scored' = DOMAIN scored \cup {e} /\ scored'[e] = time
           /\ \A f \in DOMAIN scored : f # e => scored'[f] = scored[f]
           /\ \A f : f \in DOMAIN zset' <=> Kept(e, f, time)
           /\ \A f \in DOMAIN zset' : zset'[f] = scored'[f]
           /\ expireAt' = clock + 2 * WindowMs
           /\ UNCHANGED <<clock, occurredAt>>
           /\ last'.event = e /\ last'.time = time /\ last'.clock = clock
           /\ last'.before = scored
           /\ last'.count = Cardinality({f \in DOMAIN zset' : InWindow(scored'[f], time)})
<1> DEFINE time == EventTime(e)
           base == IF clock < expireAt THEN zset ELSE Empty
           with == With(base, e, time)
<1>1. /\ zset' = Trim(with, time) /\ expireAt' = Expiry /\ scored' = With(scored, e, time)
      /\ last' = [event |-> e, time |-> time, clock |-> clock,
                  count |-> Count(zset', time), before |-> scored]
      /\ UNCHANGED <<clock, occurredAt>>
  BY DEF Check
<1>2. /\ time \in Nat /\ time <= clock /\ (e \notin NoTime => time = occurredAt[e])
      /\ e \in DOMAIN scored => scored[e] <= time
  <2>1. occurredAt[e] \in Nat /\ occurredAt[e] <= clock /\ clock \in Nat
    BY DEF VelocityInv, VelocityTypes, Scores, Sent
  <2>2. e \in DOMAIN scored =>
          scored[e] \in Nat /\ scored[e] <= clock /\ (e \notin NoTime => scored[e] = occurredAt[e])
    BY DEF VelocityInv, VelocityTypes, Scores
  <2> QED
    BY <2>1, <2>2 DEF EventTime
<1> HIDE DEF time
<1>3. /\ DOMAIN scored' = DOMAIN scored \cup {e} /\ scored'[e] = time
      /\ \A f \in DOMAIN scored : f # e => scored'[f] = scored[f]
  BY <1>1 DEF With
<1>4. /\ DOMAIN base \subseteq DOMAIN zset
      /\ \A f : f \in DOMAIN base <=> clock < expireAt /\ f \in DOMAIN zset
      /\ \A f \in DOMAIN base : base[f] = scored[f] /\ f \in DOMAIN scored
  BY DEF Empty, VelocityInv, VelocityTypes, Scores
<1> HIDE DEF base
<1>5. /\ DOMAIN with = DOMAIN base \cup {e}
      /\ \A f \in DOMAIN with : with[f] = scored'[f]
  BY <1>3, <1>4 DEF With
<1> HIDE DEF with
<1>6. /\ DOMAIN zset' = {f \in DOMAIN with : with[f] + WindowMs > time}
      /\ \A f \in DOMAIN zset' : zset'[f] = with[f] /\ f \in DOMAIN with
  BY <1>1 DEF Trim, Restrict
<1>7. \A f : f \in DOMAIN zset' <=> Kept(e, f, time)
  <2>1. time + WindowMs > time
    BY <1>2, VelocityAssumption
  <2> QED
    BY <1>3, <1>4, <1>5, <1>6, <2>1 DEF Kept
<1>8. \A f \in DOMAIN zset' : zset'[f] = scored'[f] /\ scored'[f] + WindowMs > time
  BY <1>5, <1>6
<1>9. Count(zset', time) = Cardinality({f \in DOMAIN zset' : InWindow(scored'[f], time)})
  <2>1. \A f \in DOMAIN zset' : scored'[f] \in Nat
    BY <1>2, <1>3, <1>4, <1>5, <1>6 DEF VelocityInv, VelocityTypes
  <2>2. {f \in DOMAIN zset' : zset'[f] + WindowMs >= time /\ zset'[f] <= time}
        = {f \in DOMAIN zset' : InWindow(scored'[f], time)}
    BY <1>2, <1>8, <2>1, VelocityAssumption DEF InWindow
  <2> QED
    BY <2>2 DEF Count
<1> QED
  BY <1>1, <1>2, <1>3, <1>7, <1>8, <1>9 DEF Expiry

LEMMA CheckStep ==
  ASSUME VelocityInv, NEW e \in Sent, Check(e) PROVE VelocityInv'
<1>1. PICK time \in Nat :
        /\ time <= clock /\ (e \notin NoTime => time = occurredAt[e])
        /\ e \in DOMAIN scored => scored[e] <= time
        /\ DOMAIN scored' = DOMAIN scored \cup {e} /\ scored'[e] = time
        /\ \A f \in DOMAIN scored : f # e => scored'[f] = scored[f]
        /\ \A f : f \in DOMAIN zset' <=> Kept(e, f, time)
        /\ \A f \in DOMAIN zset' : zset'[f] = scored'[f]
        /\ expireAt' = clock + 2 * WindowMs
        /\ UNCHANGED <<clock, occurredAt>>
        /\ last'.event = e /\ last'.time = time /\ last'.clock = clock
        /\ last'.before = scored
        /\ last'.count = Cardinality({f \in DOMAIN zset' : InWindow(scored'[f], time)})
  BY CheckEffect
<1> DEFINE inSet == {f \in DOMAIN zset' : InWindow(scored'[f], time)}
<1>2. /\ clock \in Nat /\ expireAt \in Nat /\ WindowMs \in Nat \ {0}
      /\ occurredAt \in Seq(Nat)
      /\ DOMAIN scored \subseteq Sent /\ DOMAIN zset \subseteq DOMAIN scored
      /\ \A f \in DOMAIN scored : scored[f] \in Nat
  BY VelocityAssumption DEF VelocityInv, VelocityTypes
<1>3. /\ Sent' = Sent /\ DOMAIN scored' \subseteq Sent /\ DOMAIN zset' \subseteq DOMAIN scored'
      /\ \A f \in DOMAIN scored' : scored'[f] \in Nat
  BY <1>1, <1>2 DEF Kept, Sent
<1>4. IsFiniteSet(inSet) /\ Cardinality(inSet) \in Nat
  BY <1>3, SentFinite DEF VelocityInv
<1>5. VelocityTypes'
  BY <1>1, <1>2, <1>3, <1>4 DEF VelocityTypes
<1>6. Scores'
  <2>1. \A f \in DOMAIN scored :
          scored[f] <= clock /\ (f \notin NoTime => scored[f] = occurredAt[f])
    BY DEF VelocityInv, Scores
  <2>2. \A f \in DOMAIN scored' :
          scored'[f] <= clock /\ (f \notin NoTime => scored'[f] = occurredAt[f])
    BY <1>1, <1>2, <2>1
  <2> QED
    BY <1>1, <1>2, <1>3, <2>2 DEF VelocityInv, Scores
<1>7. Left'
  <2> SUFFICES ASSUME NEW f \in DOMAIN scored' \ DOMAIN zset'
               PROVE  \/ \E g \in DOMAIN scored' : scored'[f] + WindowMs <= scored'[g]
                      \/ scored'[f] + 2 * WindowMs <= clock
    BY <1>1 DEF Left
  <2>1. f \in DOMAIN scored /\ f # e /\ scored'[f] = scored[f] /\ ~Kept(e, f, time)
    BY <1>1 DEF Kept
  <2>2. CASE f \in DOMAIN zset /\ clock < expireAt
    BY <1>1, <1>2, <2>1, <2>2 DEF Kept
  <2>3. CASE f \in DOMAIN zset /\ ~(clock < expireAt)
    BY <1>2, <2>1, <2>3 DEF VelocityInv, Scores
  <2>4. CASE f \notin DOMAIN zset
    <3>1. \/ \E g \in DOMAIN scored : scored[f] + WindowMs <= scored[g]
          \/ scored[f] + 2 * WindowMs <= clock
      BY <2>1, <2>4 DEF VelocityInv, Left
    <3>2. ASSUME NEW g \in DOMAIN scored, scored[f] + WindowMs <= scored[g]
          PROVE  g \in DOMAIN scored' /\ scored'[f] + WindowMs <= scored'[g]
      BY <1>1, <1>2, <2>1, <3>2
    <3> QED
      BY <2>1, <3>1, <3>2
  <2> QED
    BY <2>2, <2>3, <2>4
<1>8. NeverOvercounts'
  <2>1. inSet \subseteq Candidates(time)
    <3> SUFFICES ASSUME NEW f \in inSet, f \notin NoTime PROVE InWindow(occurredAt[f], time)
      BY <1>3 DEF Candidates
    <3>1. scored'[f] = occurredAt[f]
      BY <1>1, <1>3, <1>6 DEF Scores
    <3> QED
      BY <3>1
  <2>2. IsFiniteSet(Candidates(time)) /\ Cardinality(Candidates(time)) \in Nat
    BY SentFinite DEF VelocityInv, Candidates
  <2>3. Cardinality(inSet) <= Cardinality(Candidates(time))
    BY <2>1, <2>2, FS_Subset
  <2>4. Candidates(time) = {f \in Sent' : f \in NoTime \/ InWindow(occurredAt'[f], last'.time)}
    BY <1>1, <1>3 DEF Candidates
  <2> QED
    BY <1>1, <2>3, <2>4 DEF NeverOvercounts
<1>9. ExactWhenPrompt'
  <2> SUFFICES ASSUME clock <= time + WindowMs, \A f \in DOMAIN scored : scored[f] <= time
               PROVE  inSet = {f \in DOMAIN scored' : InWindow(scored'[f], time)}
    BY <1>1 DEF ExactWhenPrompt
  <2> SUFFICES ASSUME NEW f \in DOMAIN scored', InWindow(scored'[f], time), f \notin DOMAIN zset'
               PROVE  FALSE
    BY <1>3
  <2>1. scored'[f] + WindowMs > time /\ scored'[f] \in Nat
    BY <1>3 DEF InWindow
  <2>2. PICK g \in DOMAIN scored' : \/ scored'[f] + WindowMs <= scored'[g]
                                    \/ scored'[f] + 2 * WindowMs <= clock
    BY <1>1, <1>7 DEF Left
  <2>3. scored'[g] <= time
    BY <1>1
  <2> QED
    BY <1>1, <1>2, <1>3, <2>1, <2>2, <2>3
<1> QED
  BY <1>5, <1>6, <1>7, <1>8, <1>9 DEF VelocityInv

LEMMA VelocityStep == VelocityInv /\ [VelocityNext]_velocityVars => VelocityInv'
<1> SUFFICES ASSUME VelocityInv, [VelocityNext]_velocityVars PROVE VelocityInv'
  OBVIOUS
<1>1. CASE UNCHANGED velocityVars
  BY <1>1 DEF velocityVars, VelocityInv, VelocityTypes, Scores, Left, NeverOvercounts,
              ExactWhenPrompt, Checked, Sent, InWindow
<1> QED
  BY <1>1, SendStep, TickStep, CheckStep DEF VelocityNext

(* The velocity rule counts no transfer twice, none that left the window and none that came
   after the one it looks at, in whatever order Kafka delivers them.                       *)
THEOREM CountsNothingExtra == VelocitySpec => []NeverOvercounts
<1>1. VelocityInv => NeverOvercounts
  BY DEF VelocityInv
<1> QED
  BY InitVelocity, VelocityStep, <1>1, PTL DEF VelocitySpec

(* A transfer that is checked promptly, and is not older than those before it, is given the
   exact number in its window: neither a trim for another transfer nor Redis's expiry has
   taken what it needs.                                                                   *)
THEOREM CountsExactly == VelocitySpec => []ExactWhenPrompt
<1>1. VelocityInv => ExactWhenPrompt
  BY DEF VelocityInv
<1> QED
  BY InitVelocity, VelocityStep, <1>1, PTL DEF VelocitySpec
==============================================================================
