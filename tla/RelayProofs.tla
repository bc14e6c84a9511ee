----------------------------- MODULE RelayProofs -----------------------------
(***************************************************************************)
(* Theorems about OutboxRelay, for any rows, keys, topic partitions, batch *)
(* size and number of pods and faults: no event is lost, none is sent      *)
(* twice unless something failed, and one pod keeps the order per wallet.  *)
(***************************************************************************)
EXTENDS OutboxRelay, FiniteSetTheorems, TLAPS

(* ORDER BY: ranks are different, and all numbers below the size occur. *)
LEMMA Ranks ==
  ASSUME NEW S, S \subseteq Nat, IsFiniteSet(S)
  PROVE  /\ Cardinality(S) \in Nat
         /\ \A i \in S : Rank(S, i) \in 0..(Cardinality(S) - 1)
         /\ \A i, j \in S : i < j => Rank(S, i) < Rank(S, j)
         /\ \A n \in 0..(Cardinality(S) - 1) : \E i \in S : Rank(S, i) = n
<1> DEFINE Before(i) == {j \in S : j < i}
<1>1. Cardinality(S) \in Nat
  BY FS_CardinalityType
<1>2. \A i : Before(i) \in SUBSET S /\ Rank(S, i) = Cardinality(Before(i))
  BY DEF Rank
<1>3. \A i : IsFiniteSet(Before(i)) /\ Rank(S, i) \in Nat
  BY <1>2, FS_Subset, FS_CardinalityType
<1>4. ASSUME NEW i \in S, NEW j \in Nat, i < j PROVE Rank(S, i) < Rank(S, j)
  <2>0. i \in Nat /\ \A k \in S : k \in Nat
    OBVIOUS
  <2>a. \A k \in S : k < i => k < j
    BY <1>4, <2>0
  <2>b. ~(i < i)
    BY <2>0
  <2>c. Before(i) \cup {i} \subseteq Before(j)
    BY <1>4, <2>a
  <2>1. i \notin Before(i) /\ Before(i) \cup {i} \in SUBSET Before(j)
    BY <2>b, <2>c
  <2> HIDE DEF Before
  <2>2. Cardinality(Before(i) \cup {i}) = Cardinality(Before(i)) + 1
    BY <1>3, <2>1, FS_AddElement
  <2>3. Cardinality(Before(i) \cup {i}) <= Cardinality(Before(j))
    BY <1>3, <2>1, FS_Subset
  <2> QED
    BY <1>2, <1>3, <2>2, <2>3
<1>5. ASSUME NEW i \in S PROVE Rank(S, i) \in 0..(Cardinality(S) - 1)
  <2>0. i \in Nat
    OBVIOUS
  <2>1. i \notin Before(i) /\ Before(i) \cup {i} \in SUBSET S
    BY <1>2, <2>0
  <2> HIDE DEF Before
  <2>2. Cardinality(Before(i) \cup {i}) = Cardinality(Before(i)) + 1
    BY <1>3, <2>1, FS_AddElement
  <2>3. Cardinality(Before(i) \cup {i}) <= Cardinality(S)
    BY <2>1, FS_Subset
  <2> QED
    BY <1>1, <1>2, <1>3, <2>2, <2>3
<1>6. \A n \in 0..(Cardinality(S) - 1) : \E i \in S : Rank(S, i) = n
  <2> DEFINE T == 0..(Cardinality(S) - 1)
             f == [i \in S |-> Rank(S, i)]
  <2>1. IsFiniteSet(T) /\ Cardinality(T) = Cardinality(S)
    <3> DEFINE c == Cardinality(S) - 1
    <3>1. 0 \in Int /\ c \in Int /\ (IF 0 > c THEN 0 ELSE c - 0 + 1) = Cardinality(S)
      BY <1>1
    <3> HIDE DEF c
    <3>2. IsFiniteSet(0..c) /\ Cardinality(0..c) = IF 0 > c THEN 0 ELSE c - 0 + 1
      BY <3>1, FS_Interval
    <3> QED
      BY <3>1, <3>2 DEF c
  <2>2. f \in [S -> T]
    BY <1>5
  <2>3. ASSUME NEW i \in S, NEW j \in S, f[i] = f[j] PROVE i = j
    <3>1. i \in Nat /\ j \in Nat /\ Rank(S, i) = Rank(S, j) /\ Rank(S, i) \in Nat
      BY <1>3, <2>3
    <3>2. ~(i < j) /\ ~(j < i)
      BY <1>4, <3>1
    <3> QED
      BY <3>1, <3>2
  <2>4. f \in Injection(S, T)
    BY <2>2, <2>3 DEF Injection, IsInjective
  <2> HIDE DEF f
  <2>5. f \in Surjection(S, T)
    BY <2>1, <2>4, FS_Injection
  <2> QED
    BY <2>5 DEF Surjection, f
<1> QED
  BY <1>1, <1>4, <1>5, <1>6

(* InOrder lists every row of S once, smaller ids first. *)
LEMMA InOrderLists ==
  ASSUME NEW S, S \subseteq Nat, IsFiniteSet(S)
  PROVE  /\ InOrder(S) \in Seq(S)
         /\ \A i \in S : \E n \in 1..Len(InOrder(S)) : InOrder(S)[n] = i
         /\ \A m, n \in 1..Len(InOrder(S)) : m < n => InOrder(S)[m] < InOrder(S)[n]
<1>1. /\ Cardinality(S) \in Nat
      /\ \A i \in S : Rank(S, i) \in 0..(Cardinality(S) - 1)
      /\ \A i, j \in S : i < j => Rank(S, i) < Rank(S, j)
      /\ \A n \in 0..(Cardinality(S) - 1) : \E i \in S : Rank(S, i) = n
  BY Ranks
<1>2. ASSUME NEW n \in 1..Cardinality(S)
      PROVE  InOrder(S)[n] \in S /\ Rank(S, InOrder(S)[n]) = n - 1
  <2>1. n - 1 \in 0..(Cardinality(S) - 1)
    BY <1>1
  <2>2. \E i \in S : Rank(S, i) = n - 1
    BY <1>1, <2>1
  <2> QED
    BY <2>2 DEF InOrder
<1>3. InOrder(S) \in Seq(S) /\ Len(InOrder(S)) = Cardinality(S)
  <2>1. InOrder(S) \in [1..Cardinality(S) -> S]
    BY <1>2 DEF InOrder
  <2> QED
    BY <1>1, <2>1
<1>4. ASSUME NEW i \in S PROVE \E n \in 1..Cardinality(S) : InOrder(S)[n] = i
  <2> DEFINE n == Rank(S, i) + 1
  <2>1. n \in 1..Cardinality(S) /\ Rank(S, i) \in Nat
    BY <1>1
  <2>2. InOrder(S)[n] \in S /\ Rank(S, InOrder(S)[n]) = Rank(S, i)
    BY <1>2, <2>1
  <2> HIDE DEF n
  <2> DEFINE k == InOrder(S)[n]
  <2>3. k \in S /\ k \in Nat /\ i \in Nat /\ Rank(S, k) = Rank(S, i)
    BY <2>2
  <2> HIDE DEF k
  <2>5. ~(k < i) /\ ~(i < k)
    BY <1>1, <2>1, <2>3
  <2>6. k = i
    BY <2>3, <2>5
  <2>4. InOrder(S)[n] = i
    BY <2>6 DEF k
  <2> QED
    BY <2>1, <2>4
<1>5. ASSUME NEW m \in 1..Cardinality(S), NEW n \in 1..Cardinality(S), m < n
      PROVE  InOrder(S)[m] < InOrder(S)[n]
  <2>1. /\ InOrder(S)[m] \in S /\ Rank(S, InOrder(S)[m]) = m - 1
        /\ InOrder(S)[n] \in S /\ Rank(S, InOrder(S)[n]) = n - 1
    BY <1>2
  <2> DEFINE i == InOrder(S)[m]
             j == InOrder(S)[n]
  <2>2. /\ i \in S /\ i \in Nat /\ Rank(S, i) = m - 1
        /\ j \in S /\ j \in Nat /\ Rank(S, j) = n - 1
    BY <2>1
  <2> HIDE DEF i, j
  <2>3. Rank(S, i) < Rank(S, j)
    BY <1>5, <2>2
  <2>4. i # j /\ ~(j < i)
    BY <1>1, <2>2, <2>3
  <2>5. i < j
    BY <2>2, <2>4
  <2> QED
    BY <2>5 DEF i, j
<1> QED
  BY <1>3, <1>4, <1>5

-----------------------------------------------------------------------------
(* What WriteMessages hands to lane l: the rows of the batch for it, ordered by id. *)
LEMMA Messages ==
  ASSUME TypeOK, NEW p \in Pods, NEW l \in Lanes
  PROVE  /\ MessagesFor(p, l) \in Seq(Rows)
         /\ \A n \in 1..Len(MessagesFor(p, l)) :
              MessagesFor(p, l)[n] \in batch[p] /\ LaneOf[MessagesFor(p, l)[n]] = l
         /\ \A i \in batch[p] : LaneOf[i] = l =>
              \E n \in 1..Len(MessagesFor(p, l)) : MessagesFor(p, l)[n] = i
         /\ \A m, n \in 1..Len(MessagesFor(p, l)) :
              m < n => MessagesFor(p, l)[m] < MessagesFor(p, l)[n]
<1> DEFINE S == {i \in batch[p] : LaneOf[i] = l}
<1>1. S \in SUBSET Rows /\ Rows \subseteq Nat /\ IsFiniteSet(Rows)
  BY RelayAssumption DEF TypeOK
<1>2. S \subseteq Nat /\ IsFiniteSet(S) /\ MessagesFor(p, l) = InOrder(S)
  BY <1>1, FS_Subset DEF MessagesFor
<1>3. \A i : i \in S <=> i \in batch[p] /\ LaneOf[i] = l
  OBVIOUS
<1> HIDE DEF S
<1>4. /\ InOrder(S) \in Seq(S)
      /\ \A i \in S : \E n \in 1..Len(InOrder(S)) : InOrder(S)[n] = i
      /\ \A m, n \in 1..Len(InOrder(S)) : m < n => InOrder(S)[m] < InOrder(S)[n]
  BY <1>2, InOrderLists
<1>5. \A n \in 1..Len(InOrder(S)) : InOrder(S)[n] \in S
  BY <1>4
<1>6. InOrder(S) \in Seq(Rows)
  <2> DEFINE s == InOrder(S)
  <2> HIDE DEF s
  <2>1. Len(s) \in Nat /\ s \in [1..Len(s) -> S]
    BY <1>4 DEF s
  <2>2. s \in [1..Len(s) -> Rows]
    BY <1>1, <2>1
  <2>3. s \in Seq(Rows)
    BY <2>1, <2>2
  <2> QED
    BY <2>3 DEF s
<1>7. /\ \A n \in 1..Len(InOrder(S)) : InOrder(S)[n] \in batch[p] /\ LaneOf[InOrder(S)[n]] = l
      /\ \A i \in batch[p] : LaneOf[i] = l => \E n \in 1..Len(InOrder(S)) : InOrder(S)[n] = i
  BY <1>3, <1>4, <1>5
<1> QED
  BY <1>2, <1>4, <1>6, <1>7

LEMMA InitTypes == Init => TypeOK
<1> SUFFICES ASSUME Init PROVE TypeOK
  OBVIOUS
<1>1. queue \in [Pods -> [Lanes -> Seq(Seq(Rows))]] /\ log \in [Lanes -> Seq(Rows)]
  BY DEF Init
<1> QED
  BY <1>1, RelayAssumption DEF Init, TypeOK, Status, PC

(* Taking the oldest write from a lane. *)
LEMMA DequeueTypes ==
  ASSUME TypeOK, NEW p \in Pods, NEW l \in Lanes, queue[p][l] # <<>>, Dequeue(p, l)
  PROVE  /\ queue' \in [Pods -> [Lanes -> Seq(Seq(Rows))]]
         /\ awaited' \in [Pods -> SUBSET Lanes]
         /\ Head(queue[p][l]) \in Seq(Rows)
         /\ queue[p][l] \in Seq(Seq(Rows))
<1>1. queue[p][l] \in Seq(Seq(Rows))
  BY DEF TypeOK
<1>2. Tail(queue[p][l]) \in Seq(Seq(Rows)) /\ Head(queue[p][l]) \in Seq(Rows)
  BY <1>1
<1> QED
  BY <1>1, <1>2 DEF TypeOK, Dequeue

LEMMA StepTypes == TypeOK /\ [Next]_vars => TypeOK'
<1> SUFFICES ASSUME TypeOK, [Next]_vars PROVE TypeOK'
  OBVIOUS
<1> USE RelayAssumption
<1>f. Fault => faults' \in 0..MaxFaults
  BY DEF Fault, TypeOK
<1>r. ASSUME NEW p \in Pods, Return(p)
      PROVE  /\ pc' \in [Pods -> PC] /\ batch' \in [Pods -> SUBSET Rows]
             /\ txOpen' \in [Pods -> BOOLEAN] /\ awaited' \in [Pods -> SUBSET Lanes]
             /\ writeErr' \in [Pods -> BOOLEAN]
  BY <1>r DEF Return, TypeOK, PC
<1>m. ASSUME NEW p \in Pods, MarkPublished(p) PROVE status' \in [Rows -> Status]
  BY <1>m DEF MarkPublished, TypeOK, Status
<1>1. CASE \E i \in Rows : Insert(i) \/ Cleanup(i)
  BY <1>1 DEF Insert, Cleanup, TypeOK, Status
<1>2. ASSUME NEW p \in Pods, Fetch(p) PROVE TypeOK'
  <2>1. \A rows \in FirstOf(Free) : rows \in SUBSET Rows
    BY DEF FirstOf, Free
  <2> QED
    BY <1>2, <2>1 DEF Fetch, TypeOK, PC
<1>3. ASSUME NEW p \in Pods, WriteMessages(p) PROVE TypeOK'
  <2> DEFINE lanes == {LaneOf[i] : i \in batch[p]}
  <2>1. lanes \subseteq Lanes
    BY DEF TypeOK, Lanes
  <2>2. \A l \in Lanes : Append(queue[p][l], MessagesFor(p, l)) \in Seq(Seq(Rows))
                         /\ queue[p][l] \in Seq(Seq(Rows))
    <3> TAKE l \in Lanes
    <3>1. queue[p][l] \in Seq(Seq(Rows))
      BY DEF TypeOK
    <3> QED
      BY <3>1, Messages
  <2>3. queue' \in [Pods -> [Lanes -> Seq(Seq(Rows))]]
    BY <1>3, <2>2 DEF WriteMessages, TypeOK
  <2> QED
    BY <1>3, <2>1, <2>3 DEF WriteMessages, TypeOK, PC
<1>4. ASSUME NEW p \in Pods, Written(p) PROVE TypeOK'
  <2>1. CASE writeErr[p]
    BY <1>4, <1>r, <2>1 DEF Written, TypeOK
  <2>2. CASE ~writeErr[p]
    BY <1>4, <2>2 DEF Written, TypeOK, PC
  <2> QED
    BY <2>1, <2>2
<1>5. ASSUME NEW p \in Pods, WriteTimeout(p) PROVE TypeOK'
  BY <1>5, <1>r, <1>f DEF WriteTimeout, TypeOK
<1>6. ASSUME NEW p \in Pods, Mark(p) PROVE TypeOK'
  BY <1>6, <1>r, <1>m DEF Mark, TypeOK
<1>7. ASSUME NEW p \in Pods, MarkFails(p) PROVE TypeOK'
  BY <1>7, <1>r, <1>m, <1>f DEF MarkFails, TypeOK
<1>8. ASSUME NEW p \in Pods, LoseTransaction(p) PROVE TypeOK'
  BY <1>8, <1>f DEF LoseTransaction, TypeOK
<1>9. ASSUME NEW p \in Pods, Crash(p) PROVE TypeOK'
  <2>1. queue' \in [Pods -> [Lanes -> Seq(Seq(Rows))]]
    BY <1>9 DEF Crash, TypeOK
  <2> QED
    BY <1>9, <1>r, <1>f, <2>1 DEF Crash, TypeOK
<1>10. ASSUME NEW p \in Pods, Stop(p) \/ Stopped(p) \/ Start(p) PROVE TypeOK'
  BY <1>10 DEF Stop, Stopped, Start, TypeOK, PC
<1>a. ASSUME NEW p \in Pods, NEW l \in Lanes, Head(queue[p][l]) \in Seq(Rows),
             log' = [log EXCEPT ![l] = @ \o Head(queue[p][l])]
      PROVE  log' \in [Lanes -> Seq(Rows)]
  <2>1. log[l] \o Head(queue[p][l]) \in Seq(Rows)
    BY <1>a DEF TypeOK
  <2> QED
    BY <1>a, <2>1 DEF TypeOK
<1>11. ASSUME NEW p \in Pods, NEW l \in Lanes, Produce(p, l) PROVE TypeOK'
  <2>1. queue[p][l] # <<>> /\ Dequeue(p, l)
    BY <1>11 DEF Produce
  <2> QED
    BY <1>11, <1>a, <2>1, DequeueTypes DEF Produce, TypeOK
<1>12. ASSUME NEW p \in Pods, NEW l \in Lanes, ProduceUnacknowledged(p, l) PROVE TypeOK'
  <2>1. queue[p][l] \in Seq(Seq(Rows)) /\ queue[p][l] # <<>>
    BY <1>12 DEF ProduceUnacknowledged, TypeOK
  <2>2. Head(queue[p][l]) \in Seq(Rows)
    BY <2>1
  <2> QED
    BY <1>12, <1>a, <1>f, <2>2 DEF ProduceUnacknowledged, TypeOK
<1>13. ASSUME NEW p \in Pods, NEW l \in Lanes, GiveUp(p, l) PROVE TypeOK'
  <2>1. queue[p][l] # <<>> /\ Dequeue(p, l)
    BY <1>13 DEF GiveUp
  <2> QED
    BY <1>13, <1>f, <2>1, DequeueTypes DEF GiveUp, TypeOK
<1>14. CASE UNCHANGED vars
  BY <1>14 DEF vars, TypeOK
<1> QED
  BY <1>1, <1>2, <1>3, <1>4, <1>5, <1>6, <1>7, <1>8, <1>9, <1>10, <1>11, <1>12, <1>13, <1>14
     DEF Next

-----------------------------------------------------------------------------
(* No event is lost. *)

Contains(s, i) == \E n \in 1..Len(s) : s[n] = i

(* What WriteMessages owes to publishBatch: it waits only for lanes whose last write holds
   what the batch has for them; and a row of a batch that has not failed is awaited or in
   Kafka.                                                                                 *)
Waits(p) ==
  /\ pc[p] # "writing" => awaited[p] = {}
  /\ pc[p] = "mark" => ~writeErr[p]
  /\ \A l \in awaited[p] :
       /\ queue[p][l] # <<>>
       /\ \A i \in batch[p] : LaneOf[i] = l => Contains(queue[p][l][Len(queue[p][l])], i)
  /\ pc[p] \in {"writing", "mark"} /\ ~writeErr[p] =>
       \A i \in batch[p] : LaneOf[i] \in awaited[p] \/ Sent(i)

SentInv == TypeOK /\ (\A p \in Pods : Waits(p)) /\ PublishedIsSent

(* What the brokers append to a partition stays there, after what was there before. *)
LEMMA LogGrows ==
  ASSUME TypeOK, NEW l \in Lanes, NEW w \in Seq(Rows),
         log' = [log EXCEPT ![l] = @ \o w]
  PROVE  /\ \A k \in Lanes : k # l => log'[k] = log[k]
         /\ Len(log[l]) \in Nat /\ Len(w) \in Nat
         /\ Len(log'[l]) = Len(log[l]) + Len(w)
         /\ \A n \in 1..Len(log[l]) : log'[l][n] = log[l][n]
         /\ \A n \in 1..Len(w) : log'[l][Len(log[l]) + n] = w[n]
         /\ \A n \in 1..Len(log'[l]) :
              n \in 1..Len(log[l]) \/ \E m \in 1..Len(w) : n = Len(log[l]) + m
         /\ \A i \in Rows : Sent(i)' <=> Sent(i) \/ (LaneOf[i] = l /\ Contains(w, i))
<1> DEFINE s == log[l]
<1>1. s \in Seq(Rows) /\ log'[l] = s \o w /\ \A k \in Lanes : k # l => log'[k] = log[k]
  BY DEF TypeOK
<1> DEFINE t == log'[l]
<1> HIDE DEF s, t
<1>2. /\ Len(s) \in Nat /\ Len(w) \in Nat /\ Len(t) = Len(s) + Len(w)
      /\ \A n \in 1..Len(s) : t[n] = s[n]
      /\ \A n \in 1..Len(w) : t[Len(s) + n] = w[n]
  <2>1. t = s \o w /\ Len(s) \in Nat /\ Len(w) \in Nat
    BY <1>1 DEF t
  <2>2. Len(t) = Len(s) + Len(w)
    BY <1>1, <2>1
  <2>3. \A n \in 1..Len(s) : t[n] = s[n]
    BY <1>1, <2>1
  <2>4. ASSUME NEW n \in 1..Len(w) PROVE t[Len(s) + n] = w[n]
    <3>1. /\ Len(s) + n \in 1..(Len(s) + Len(w)) /\ ~(Len(s) + n <= Len(s))
          /\ (Len(s) + n) - Len(s) = n
      BY <2>1
    <3>2. (s \o w)[Len(s) + n] = w[(Len(s) + n) - Len(s)]
      BY <1>1, <2>1, <3>1
    <3> QED
      BY <2>1, <3>1, <3>2
  <2> QED
    BY <2>1, <2>2, <2>3, <2>4
<1>3. \A n \in 1..Len(t) : n \in 1..Len(s) \/ \E m \in 1..Len(w) : n = Len(s) + m
  <2> TAKE n \in 1..Len(t)
  <2> SUFFICES ASSUME n \notin 1..Len(s) PROVE \E m \in 1..Len(w) : n = Len(s) + m
    OBVIOUS
  <2>1. n - Len(s) \in 1..Len(w) /\ n = Len(s) + (n - Len(s))
    BY <1>2
  <2> QED
    BY <2>1
<1>4. ASSUME NEW i \in Rows PROVE Sent(i)' <=> Sent(i) \/ (LaneOf[i] = l /\ Contains(w, i))
  <2>1. CASE LaneOf[i] # l
    <3>1. LaneOf[i] \in Lanes
      BY DEF Lanes
    <3>2. log'[LaneOf[i]] = log[LaneOf[i]]
      BY <1>1, <2>1, <3>1
    <3> QED
      BY <2>1, <3>2 DEF Sent
  <2>2. CASE LaneOf[i] = l
    <3>1. /\ Sent(i) <=> \E n \in 1..Len(s) : s[n] = i
          /\ Sent(i)' <=> \E n \in 1..Len(t) : t[n] = i
      BY <2>2 DEF Sent, s, t
    <3>2. ASSUME Sent(i)' PROVE Sent(i) \/ Contains(w, i)
      BY <1>2, <1>3, <3>1, <3>2 DEF Contains
    <3>3. ASSUME Sent(i) PROVE Sent(i)'
      <4>1. PICK n \in 1..Len(s) : s[n] = i
        BY <3>1, <3>3
      <4>2. n \in 1..Len(t) /\ t[n] = i
        BY <1>2, <4>1
      <4> QED
        BY <3>1, <4>2
    <3>4. ASSUME Contains(w, i) PROVE Sent(i)'
      <4>1. PICK n \in 1..Len(w) : w[n] = i
        BY <3>4 DEF Contains
      <4>2. Len(s) + n \in 1..Len(t) /\ t[Len(s) + n] = i
        BY <1>2, <4>1
      <4> QED
        BY <3>1, <4>2
    <3> QED
      BY <2>2, <3>2, <3>3, <3>4
  <2> QED
    BY <2>1, <2>2
<1> QED
  BY <1>1, <1>2, <1>3, <1>4 DEF s, t

(* What is left in a writer when one write is taken from a lane. *)
LEMMA DequeueEffect ==
  ASSUME TypeOK, NEW p \in Pods, NEW l \in Lanes, queue[p][l] # <<>>, Dequeue(p, l)
  PROVE  /\ \A q \in Pods : q # p => queue'[q] = queue[q] /\ awaited'[q] = awaited[q]
         /\ \A k \in Lanes : k # l => queue'[p][k] = queue[p][k]
         /\ \A k \in Lanes : k # l => (k \in awaited'[p] <=> k \in awaited[p])
         /\ l \in awaited'[p] <=> l \in awaited[p] /\ Len(queue[p][l]) # 1
         /\ Len(queue[p][l]) \in Nat \ {0}
         /\ Head(queue[p][l]) = queue[p][l][1] /\ queue[p][l][1] \in Seq(Rows)
         /\ Len(queue'[p][l]) = Len(queue[p][l]) - 1
         /\ \A n \in 1..(Len(queue[p][l]) - 1) : queue'[p][l][n] = queue[p][l][n + 1]
         /\ queue'[p][l] = <<>> <=> Len(queue[p][l]) = 1
<1> DEFINE s == queue[p][l]
<1>1. s \in Seq(Seq(Rows)) /\ s # <<>> /\ queue[p] \in [Lanes -> Seq(Seq(Rows))]
  BY DEF TypeOK
<1>2. /\ queue'[p][l] = Tail(s)
      /\ \A k \in Lanes : k # l => queue'[p][k] = queue[p][k]
      /\ \A q \in Pods : q # p => queue'[q] = queue[q] /\ awaited'[q] = awaited[q]
      /\ awaited'[p] = IF Len(s) = 1 THEN awaited[p] \ {l} ELSE awaited[p]
  BY DEF Dequeue, TypeOK
<1>3. /\ Len(s) \in Nat \ {0} /\ Head(s) = s[1] /\ Head(s) \in Seq(Rows)
      /\ Len(Tail(s)) = Len(s) - 1 /\ Tail(s) \in Seq(Seq(Rows))
      /\ \A n \in 1..(Len(s) - 1) : Tail(s)[n] = s[n + 1]
      /\ Tail(s) = <<>> <=> Len(s) = 1
  <2> HIDE DEF s
  <2>1. Len(s) \in Nat \ {0} /\ Head(s) = s[1] /\ Head(s) \in Seq(Rows)
    BY <1>1
  <2>2. Len(Tail(s)) = Len(s) - 1 /\ Tail(s) \in Seq(Seq(Rows))
    BY <1>1
  <2>3. \A n \in 1..(Len(s) - 1) : Tail(s)[n] = s[n + 1]
    BY <1>1
  <2>4. \A t \in Seq(Seq(Rows)) : t = <<>> <=> Len(t) = 0
    OBVIOUS
  <2>5. Tail(s) = <<>> <=> Len(Tail(s)) = 0
    BY <2>2, <2>4
  <2>6. Len(Tail(s)) = 0 <=> Len(s) = 1
    BY <2>1, <2>2
  <2> QED
    BY <2>1, <2>2, <2>3, <2>5, <2>6
<1> QED
  BY <1>2, <1>3

(* A pod that does not take part in a step is still owed what it was. *)
Idle(q) ==
  /\ pc'[q] = pc[q] /\ batch'[q] = batch[q] /\ writeErr'[q] = writeErr[q]
  /\ queue'[q] = queue[q] /\ awaited'[q] = awaited[q]

KeepsSent == \A i \in Rows : Sent(i) => Sent(i)'

LEMMA OthersWait ==
  ASSUME TypeOK, NEW q \in Pods, Waits(q), Idle(q), KeepsSent
  PROVE  Waits(q)'
<1>1. \A i \in batch[q] : i \in Rows
  BY DEF TypeOK
<1> QED
  BY <1>1 DEF Waits, Idle, KeepsSent, Contains

LEMMA AppendOne ==
  ASSUME NEW E, NEW s \in Seq(E), NEW e \in E
  PROVE  /\ Append(s, e) \in Seq(E) /\ Append(s, e) # <<>>
         /\ Len(s) \in Nat /\ Len(Append(s, e)) = Len(s) + 1
         /\ \A n \in 1..Len(s) : Append(s, e)[n] = s[n]
         /\ Append(s, e)[Len(s) + 1] = e
<1>1. Append(s, e) \in Seq(E) /\ Len(s) \in Nat /\ Len(Append(s, e)) = Len(s) + 1
  OBVIOUS
<1>2. \A t \in Seq(E) : t = <<>> => Len(t) = 0
  OBVIOUS
<1>3. Append(s, e) # <<>>
  BY <1>1, <1>2
<1>4. \A n \in 1..Len(s) : Append(s, e)[n] = s[n]
  OBVIOUS
<1>5. Append(s, e)[Len(s) + 1] = e
  OBVIOUS
<1> QED
  BY <1>1, <1>3, <1>4, <1>5

LEMMA InitSent == Init => SentInv
<1> SUFFICES ASSUME Init PROVE SentInv
  OBVIOUS
<1>1. TypeOK
  BY InitTypes
<1>2. \A p \in Pods : Waits(p)
  BY DEF Init, Waits
<1>3. PublishedIsSent
  BY DEF Init, PublishedIsSent
<1> QED
  BY <1>1, <1>2, <1>3 DEF SentInv

(* A batch that ends, however it ends, is owed nothing more. *)
LEMMA ReturnWaits ==
  ASSUME TypeOK, NEW p \in Pods, Return(p), \A q \in Pods : Waits(q), KeepsSent,
         \A q \in Pods : q # p => queue'[q] = queue[q]
  PROVE  \A q \in Pods : Waits(q)'
<1> TAKE q \in Pods
<1>1. CASE q = p
  BY <1>1 DEF Return, Waits, TypeOK
<1>2. CASE q # p
  <2>1. Idle(q)
    BY <1>2 DEF Return, Idle, TypeOK
  <2> QED
    BY <2>1, OthersWait
<1> QED
  BY <1>1, <1>2

LEMMA StepWaits ==
  ASSUME SentInv, Next
  PROVE  (\A q \in Pods : Waits(q)') /\ KeepsSent
<1> USE RelayAssumption
<1>t. TypeOK /\ (\A q \in Pods : Waits(q)) /\ PublishedIsSent
  BY DEF SentInv
<1>s. log' = log => KeepsSent
  BY DEF KeepsSent, Sent
<1>1. CASE \E i \in Rows : Insert(i) \/ Cleanup(i)
  <2>1. (\A q \in Pods : Idle(q)) /\ KeepsSent
    BY <1>1, <1>s DEF Insert, Cleanup, Idle
  <2> QED
    BY <1>t, <2>1, OthersWait
<1>2. ASSUME NEW p \in Pods, Fetch(p) \/ Stop(p) \/ Stopped(p) \/ Start(p) \/ LoseTransaction(p)
      PROVE  (\A q \in Pods : Waits(q)') /\ KeepsSent
  <2>1. KeepsSent
    BY <1>2, <1>s DEF Fetch, Stop, Stopped, Start, LoseTransaction
  <2>2. \A q \in Pods : q # p => Idle(q)
    BY <1>2, <1>t DEF Fetch, Stop, Stopped, Start, LoseTransaction, Idle, TypeOK
  <2>3. CASE Stop(p) \/ LoseTransaction(p)
    BY <2>3, <1>t, <2>1, <2>2, OthersWait DEF Stop, LoseTransaction, Idle
  <2>4. CASE Fetch(p) \/ Stopped(p) \/ Start(p)
    <3>1. awaited[p] = {} /\ awaited' = awaited /\ pc'[p] \in {"idle", "fetched", "stopped"}
      <4>1. pc[p] # "writing" /\ awaited' = awaited
        BY <2>4 DEF Fetch, Stopped, Start
      <4>2. pc'[p] \in {"idle", "fetched", "stopped"}
        BY <2>4, <1>t DEF Fetch, Stopped, Start, TypeOK
      <4> QED
        BY <1>t, <4>1, <4>2 DEF Waits
    <3>2. Waits(p)'
      BY <3>1 DEF Waits
    <3> QED
      BY <1>t, <2>1, <2>2, <3>2, OthersWait
  <2> QED
    BY <1>2, <2>3, <2>4
<1>3. ASSUME NEW p \in Pods, WriteMessages(p)
      PROVE  (\A q \in Pods : Waits(q)') /\ KeepsSent
  <2> DEFINE lanes == {LaneOf[i] : i \in batch[p]}
  <2>1. KeepsSent
    BY <1>3, <1>s DEF WriteMessages
  <2>2. \A q \in Pods : q # p => Idle(q)
    BY <1>3, <1>t DEF WriteMessages, Idle, TypeOK
  <2>3. /\ pc'[p] = "writing" /\ awaited'[p] = lanes /\ batch' = batch
        /\ \A l \in lanes : l \in Lanes /\ queue'[p][l] = Append(queue[p][l], MessagesFor(p, l))
    BY <1>3, <1>t DEF WriteMessages, TypeOK, Lanes
  <2>4. ASSUME NEW l \in lanes
        PROVE  /\ queue'[p][l] # <<>>
               /\ queue'[p][l][Len(queue'[p][l])] = MessagesFor(p, l)
    <3> DEFINE s == queue[p][l]
               w == MessagesFor(p, l)
    <3>0. l \in Lanes /\ queue'[p][l] = Append(s, w)
      BY <2>3
    <3>1. s \in Seq(Seq(Rows)) /\ w \in Seq(Rows) /\ queue'[p][l] = Append(s, w)
      <4>1. s \in Seq(Seq(Rows))
        BY <1>t, <3>0 DEF TypeOK
      <4>2. w \in Seq(Rows)
        BY <1>t, <3>0, Messages
      <4> QED
        BY <3>0, <4>1, <4>2
    <3> HIDE DEF s, w
    <3>2. Len(Append(s, w)) = Len(s) + 1 /\ Append(s, w)[Len(s) + 1] = w /\ Append(s, w) # <<>>
      BY <3>1, AppendOne
    <3> QED
      BY <3>1, <3>2 DEF w
  <2>5. \A l \in lanes, i \in batch[p] : LaneOf[i] = l => Contains(MessagesFor(p, l), i)
    BY <1>t, <2>3, Messages DEF Contains
  <2>6. Waits(p)'
    BY <2>3, <2>4, <2>5 DEF Waits, Contains
  <2> QED
    BY <1>t, <2>1, <2>2, <2>6, OthersWait
<1>4. ASSUME NEW p \in Pods, Written(p) PROVE (\A q \in Pods : Waits(q)') /\ KeepsSent
  <2>1. KeepsSent
    BY <1>4, <1>s DEF Written
  <2>2. CASE writeErr[p]
    BY <1>4, <1>t, <2>1, <2>2, ReturnWaits DEF Written
  <2>3. CASE ~writeErr[p]
    <3>1. \A q \in Pods : q # p => Idle(q)
      BY <1>4, <1>t, <2>3 DEF Written, Idle, TypeOK
    <3>2. \A i \in batch[p] : i \in Rows
      BY <1>t DEF TypeOK
    <3>3. Waits(p)'
      BY <1>4, <1>t, <2>1, <2>3, <3>2 DEF Written, Waits, TypeOK, KeepsSent
    <3> QED
      BY <1>t, <2>1, <3>1, <3>3, OthersWait
  <2> QED
    BY <2>2, <2>3
<1>5. ASSUME NEW p \in Pods, WriteTimeout(p) \/ Mark(p) \/ MarkFails(p) \/ Crash(p)
      PROVE  (\A q \in Pods : Waits(q)') /\ KeepsSent
  <2>1. Return(p) /\ log' = log /\ \A q \in Pods : q # p => queue'[q] = queue[q]
    BY <1>5, <1>t DEF WriteTimeout, Mark, MarkFails, Crash, TypeOK
  <2> QED
    BY <1>s, <1>t, <2>1, ReturnWaits
<1>6. ASSUME NEW p \in Pods, NEW l \in Lanes, ProduceUnacknowledged(p, l)
      PROVE  (\A q \in Pods : Waits(q)') /\ KeepsSent
  <2>1. queue[p][l] \in Seq(Seq(Rows)) /\ queue[p][l] # <<>>
    BY <1>6, <1>t DEF ProduceUnacknowledged, TypeOK
  <2>2. Head(queue[p][l]) \in Seq(Rows)
    BY <2>1
  <2>3. KeepsSent
    BY <1>6, <1>t, <2>2, LogGrows DEF ProduceUnacknowledged, KeepsSent
  <2>4. \A q \in Pods : Idle(q)
    BY <1>6 DEF ProduceUnacknowledged, Idle
  <2> QED
    BY <1>t, <2>3, <2>4, OthersWait
<1>7. ASSUME NEW p \in Pods, NEW l \in Lanes, Produce(p, l) \/ GiveUp(p, l)
      PROVE  (\A q \in Pods : Waits(q)') /\ KeepsSent
  <2>1. queue[p][l] # <<>> /\ Dequeue(p, l) /\ pc' = pc /\ batch' = batch
    BY <1>7 DEF Produce, GiveUp
  <2>2. /\ \A q \in Pods : q # p => queue'[q] = queue[q] /\ awaited'[q] = awaited[q]
        /\ \A k \in Lanes : k # l => queue'[p][k] = queue[p][k]
        /\ \A k \in Lanes : k # l => (k \in awaited'[p] <=> k \in awaited[p])
        /\ l \in awaited'[p] <=> l \in awaited[p] /\ Len(queue[p][l]) # 1
        /\ Len(queue[p][l]) \in Nat \ {0}
        /\ Head(queue[p][l]) = queue[p][l][1] /\ queue[p][l][1] \in Seq(Rows)
        /\ Len(queue'[p][l]) = Len(queue[p][l]) - 1
        /\ \A n \in 1..(Len(queue[p][l]) - 1) : queue'[p][l][n] = queue[p][l][n + 1]
        /\ queue'[p][l] = <<>> <=> Len(queue[p][l]) = 1
    BY <1>t, <2>1, DequeueEffect
  <2>3. KeepsSent
    <3>1. CASE Produce(p, l)
      BY <1>t, <2>2, <3>1, LogGrows DEF Produce, KeepsSent
    <3>2. CASE GiveUp(p, l)
      BY <1>s, <3>2 DEF GiveUp
    <3> QED
      BY <1>7, <3>1, <3>2
  <2>4. ASSUME NEW q \in Pods, q # p PROVE Waits(q)'
    <3>1. Idle(q)
      BY <1>7, <1>t, <2>1, <2>2, <2>4 DEF Idle, Produce, GiveUp, TypeOK
    <3> QED
      BY <1>t, <2>3, <3>1, OthersWait
  <2>5. ASSUME NEW k \in awaited'[p]
        PROVE  /\ queue'[p][k] # <<>>
               /\ queue'[p][k][Len(queue'[p][k])] = queue[p][k][Len(queue[p][k])]
               /\ k \in awaited[p]
    <3>1. k \in Lanes
      BY <1>t, <2>1, DequeueTypes
    <3>2. CASE k # l
      BY <1>t, <2>2, <2>5, <3>1, <3>2 DEF Waits
    <3>3. CASE k = l
      <4>1. Len(queue[p][l]) # 1 /\ l \in awaited[p]
        BY <2>2, <2>5, <3>3
      <4>2. /\ Len(queue[p][l]) - 1 \in 1..(Len(queue[p][l]) - 1)
            /\ (Len(queue[p][l]) - 1) + 1 = Len(queue[p][l])
        BY <2>2, <4>1
      <4> QED
        BY <2>2, <3>3, <4>1, <4>2, ZenonT(30)
    <3> QED
      BY <3>2, <3>3
  <2>6. ASSUME pc[p] \in {"writing", "mark"}, ~writeErr'[p], NEW i \in batch[p]
        PROVE  LaneOf[i] \in awaited'[p] \/ Sent(i)'
    <3>1. i \in Rows /\ LaneOf[i] \in Lanes
      BY <1>t DEF TypeOK, Lanes
    <3>2. ~writeErr[p] /\ (GiveUp(p, l) => ~(l \in awaited[p] /\ Len(queue[p][l]) = 1))
      BY <1>7, <1>t, <2>6 DEF Produce, GiveUp, TypeOK
    <3>3. LaneOf[i] \in awaited[p] \/ Sent(i)
      BY <1>t, <2>6, <3>2 DEF Waits
    <3>4. CASE LaneOf[i] = l /\ l \in awaited[p] /\ Len(queue[p][l]) = 1
      <4>1. Produce(p, l)
        BY <1>7, <3>2, <3>4
      <4>2. Contains(queue[p][l][1], i)
        BY <1>t, <3>4 DEF Waits
      <4> QED
        BY <1>t, <2>2, <3>1, <3>4, <4>1, <4>2, LogGrows DEF Produce
    <3> QED
      BY <2>2, <2>3, <3>1, <3>3, <3>4 DEF KeepsSent
  <2>7. pc[p] = "mark" => ~writeErr'[p]
    BY <1>7, <1>t DEF Produce, GiveUp, Waits, TypeOK
  <2>8. Waits(p)'
    BY <1>t, <2>1, <2>5, <2>6, <2>7 DEF Waits, Contains
  <2> QED
    BY <2>3, <2>4, <2>8
<1> QED
  BY <1>1, <1>2, <1>3, <1>4, <1>5, <1>6, <1>7 DEF Next

(* A row becomes published only as part of a batch in the hands of Mark or MarkFails, when
   every lane has answered and none has given up: then all of the batch is in Kafka.       *)
LEMMA StepPublished ==
  ASSUME SentInv, Next
  PROVE  PublishedIsSent'
<1>t. TypeOK /\ (\A q \in Pods : Waits(q)) /\ PublishedIsSent /\ KeepsSent
  BY StepWaits DEF SentInv
<1>1. ASSUME NEW i \in Rows, status'[i] \in {"published", "deleted"} PROVE Sent(i)
  <2>1. CASE status[i] \in {"published", "deleted"}
    BY <1>t, <2>1 DEF PublishedIsSent
  <2>2. CASE \E p \in Pods : pc[p] = "mark" /\ i \in batch[p]
    BY <1>t, <2>2 DEF Waits
  <2>3. ASSUME NEW j \in Rows, Insert(j) \/ Cleanup(j)
        PROVE  status[i] \in {"published", "deleted"}
    BY <1>1, <1>t, <2>3 DEF Insert, Cleanup, TypeOK
  <2>4. ASSUME NEW p \in Pods, Mark(p) \/ MarkFails(p)
        PROVE  status[i] \in {"published", "deleted"} \/ (pc[p] = "mark" /\ i \in batch[p])
    BY <1>1, <1>t, <2>4 DEF Mark, MarkFails, MarkPublished, TypeOK
  <2>5. CASE status' = status
    BY <1>1, <2>1, <2>5
  <2> QED
    BY <2>1, <2>2, <2>3, <2>4, <2>5
    DEF Next, Fetch, WriteMessages, Written, WriteTimeout, LoseTransaction, Crash, Stop, Stopped,
        Start, Produce, ProduceUnacknowledged, GiveUp
<1> QED
  BY <1>t, <1>1 DEF PublishedIsSent, KeepsSent

LEMMA StepSent == SentInv /\ [Next]_vars => SentInv'
<1> SUFFICES ASSUME SentInv, [Next]_vars PROVE SentInv'
  OBVIOUS
<1>1. CASE Next
  <2>1. TypeOK'
    BY StepTypes DEF SentInv
  <2>2. (\A q \in Pods : Waits(q)') /\ PublishedIsSent'
    BY <1>1, StepWaits, StepPublished
  <2> QED
    BY <2>1, <2>2 DEF SentInv
<1>2. CASE UNCHANGED vars
  <2>1. TypeOK'
    BY StepTypes DEF SentInv
  <2>2. PublishedIsSent' /\ KeepsSent
    BY <1>2 DEF SentInv, vars, PublishedIsSent, Sent, KeepsSent
  <2>3. \A q \in Pods : Idle(q)
    BY <1>2 DEF vars, Idle
  <2> QED
    BY <2>1, <2>2, <2>3, OthersWait DEF SentInv
<1> QED
  BY <1>1, <1>2

(* No event is lost between the database and Kafka: a row that publishBatch has marked, or
   that housekeeping has deleted, is in its topic partition, whatever failed on the way,
   with any number of pods and for any batch size.                                        *)
THEOREM NoEventIsLost == Spec => []PublishedIsSent
<1>1. SentInv => PublishedIsSent
  BY DEF SentInv
<1> QED
  BY InitSent, StepSent, <1>1, PTL DEF Spec

-----------------------------------------------------------------------------
(* No event is sent twice unless something failed. *)

(* A write is waiting: it holds rows of the batch that nobody has sent, each once. *)
Fresh(p, l) ==
  /\ pc[p] = "writing" /\ l \in awaited[p] /\ Len(queue[p][l]) = 1
  /\ \A n \in 1..Len(queue[p][l][1]) :
       /\ queue[p][l][1][n] \in batch[p] /\ LaneOf[queue[p][l][1][n]] = l
       /\ ~Sent(queue[p][l][1][n])
  /\ \A m, n \in 1..Len(queue[p][l][1]) : queue[p][l][1][m] = queue[p][l][1][n] => m = n

(* A batch holds the row locks until it ends, and its rows are still to be marked. *)
Holds(p) ==
  /\ ~writeErr[p]
  /\ pc[p] \in {"idle", "stopped"} => batch[p] = {}
  /\ batch[p] # {} => txOpen[p]
  /\ \A i \in batch[p] : status[i] = "pending"

(* No row is in two batches. *)
Apart == \A p, q \in Pods : p # q => batch[p] \cap batch[q] = {}

(* A row in Kafka is marked, or in a batch that is about to mark it. *)
Marking(i) ==
  Sent(i) =>
    /\ status[i] # "none"
    /\ status[i] = "pending" => \E p \in Pods : i \in batch[p] /\ pc[p] \in {"writing", "mark"}

(* The rows of a partition belong there, and none is there twice. *)
NoResend(l) ==
  /\ \A n \in 1..Len(log[l]) : LaneOf[log[l][n]] = l
  /\ \A m, n \in 1..Len(log[l]) : log[l][m] = log[l][n] => m = n

Clean ==
  /\ \A p \in Pods : Holds(p)
  /\ \A p \in Pods, l \in Lanes : queue[p][l] # <<>> => Fresh(p, l)
  /\ Apart
  /\ \A i \in Rows : Marking(i)
  /\ \A l \in Lanes : NoResend(l)

OnceInv == SentInv /\ (faults = 0 => Clean)

LEMMA InitOnce == Init => OnceInv
<1> SUFFICES ASSUME Init PROVE OnceInv
  OBVIOUS
<1>1. \A i \in Rows : ~Sent(i)
  BY DEF Init, Sent, Lanes
<1>2. Clean
  BY <1>1 DEF Init, Clean, Holds, Apart, Marking, NoResend
<1> QED
  BY <1>2, InitSent DEF OnceInv

LEMMA FetchClean ==
  ASSUME TypeOK, Clean, NEW p \in Pods, Fetch(p) PROVE Clean'
<1>1. PICK rows \in FirstOf(Free) : batch' = [batch EXCEPT ![p] = rows]
  BY DEF Fetch
<1>2. \A i \in rows : i \in Rows /\ status[i] = "pending" /\ i \notin Locked
  BY DEF FirstOf, Free
<1>3. /\ batch'[p] = rows /\ txOpen'[p] = TRUE /\ pc'[p] = "fetched" /\ pc[p] = "idle"
      /\ \A q \in Pods : q # p =>
           batch'[q] = batch[q] /\ txOpen'[q] = txOpen[q] /\ pc'[q] = pc[q]
      /\ status' = status /\ log' = log /\ queue' = queue /\ awaited' = awaited
      /\ writeErr' = writeErr
  BY <1>1 DEF Fetch, TypeOK
<1>s. \A i : Sent(i)' <=> Sent(i)
  BY <1>3 DEF Sent
<1>4. \A q \in Pods : q # p => rows \cap batch[q] = {}
  BY <1>2 DEF Clean, Holds, Locked
<1>5. \A q \in Pods : Holds(q)'
  BY <1>2, <1>3 DEF Clean, Holds
<1>6. Apart'
  BY <1>3, <1>4 DEF Clean, Apart
<1>7. ASSUME NEW q \in Pods, NEW l \in Lanes, queue'[q][l] # <<>> PROVE Fresh(q, l)'
  <2>1. Fresh(q, l) /\ q # p
    BY <1>3, <1>7 DEF Clean, Fresh
  <2> QED
    BY <1>3, <1>s, <2>1 DEF Fresh
<1>8. \A i \in Rows : Marking(i)'
  <2> SUFFICES ASSUME NEW i \in Rows, Marking(i) PROVE Marking(i)'
    BY DEF Clean
  <2>1. \A q \in Pods : i \in batch[q] /\ pc[q] \in {"writing", "mark"} =>
                        i \in batch'[q] /\ pc'[q] \in {"writing", "mark"}
    BY <1>3
  <2> QED
    BY <1>3, <1>s, <2>1 DEF Marking
<1>9. \A l \in Lanes : NoResend(l)'
  BY <1>3 DEF Clean, NoResend
<1> QED
  BY <1>5, <1>6, <1>7, <1>8, <1>9 DEF Clean

LEMMA WriteClean ==
  ASSUME TypeOK, Clean, NEW p \in Pods, WriteMessages(p) PROVE Clean'
<1> DEFINE lanes == {LaneOf[i] : i \in batch[p]}
<1>1. /\ pc[p] = "fetched" /\ pc'[p] = "writing" /\ awaited'[p] = lanes /\ writeErr'[p] = FALSE
      /\ \A q \in Pods : q # p => /\ pc'[q] = pc[q] /\ awaited'[q] = awaited[q]
                                  /\ queue'[q] = queue[q] /\ writeErr'[q] = writeErr[q]
      /\ \A l \in Lanes : queue'[p][l] =
           IF l \in lanes THEN Append(queue[p][l], MessagesFor(p, l)) ELSE queue[p][l]
      /\ status' = status /\ log' = log /\ batch' = batch /\ txOpen' = txOpen
  BY DEF WriteMessages, TypeOK
<1>s. \A i : Sent(i)' <=> Sent(i)
  BY <1>1 DEF Sent
<1>2. \A l \in Lanes : queue[p][l] = <<>>
  BY <1>1 DEF Clean, Fresh
<1>3. \A i \in batch[p] : i \in Rows /\ ~Sent(i)
  <2> TAKE i \in batch[p]
  <2>1. i \in Rows /\ status[i] = "pending" /\ Marking(i)
    BY DEF Clean, Holds, TypeOK
  <2>2. \A q \in Pods : i \in batch[q] => q = p
    BY DEF Clean, Apart
  <2> QED
    BY <1>1, <2>1, <2>2 DEF Marking
<1>4. \A q \in Pods : Holds(q)'
  BY <1>1 DEF Clean, Holds
<1>5. ASSUME NEW l \in Lanes, queue'[p][l] # <<>> PROVE Fresh(p, l)'
  <2> DEFINE w == MessagesFor(p, l)
  <2>1. l \in lanes /\ queue'[p][l] = Append(<<>>, w)
    BY <1>1, <1>2, <1>5
  <2>2. /\ w \in Seq(Rows)
        /\ \A n \in 1..Len(w) : w[n] \in batch[p] /\ LaneOf[w[n]] = l
        /\ \A m, n \in 1..Len(w) : m < n => w[m] < w[n]
    BY Messages
  <2> HIDE DEF w
  <2>3. queue'[p][l] = <<w>> /\ Len(queue'[p][l]) = 1 /\ queue'[p][l][1] = w
    BY <2>1, <2>2
  <2>4. ASSUME NEW m \in 1..Len(w), NEW n \in 1..Len(w), w[m] = w[n] PROVE m = n
    <3>0. w[m] \in Rows /\ w[n] \in Rows /\ m \in Nat /\ n \in Nat
      BY <2>2
    <3>1. w[m] \in Nat /\ w[n] \in Nat /\ m \in Nat /\ n \in Nat
      BY <3>0, RelayAssumption
    <3>2. ~(m < n) /\ ~(n < m)
      BY <2>2, <2>4, <3>1
    <3> QED
      BY <3>1, <3>2
  <2>5. \A n \in 1..Len(w) : w[n] \in batch[p] /\ LaneOf[w[n]] = l /\ ~Sent(w[n])
    BY <1>3, <2>2
  <2> QED
    BY <1>1, <1>s, <2>1, <2>3, <2>4, <2>5 DEF Fresh
<1>6. ASSUME NEW q \in Pods, NEW l \in Lanes, q # p, queue'[q][l] # <<>> PROVE Fresh(q, l)'
  <2>1. Fresh(q, l)
    BY <1>1, <1>6 DEF Clean
  <2> QED
    BY <1>1, <1>6, <1>s, <2>1 DEF Fresh
<1>7. \A i \in Rows : Marking(i)'
  <2> SUFFICES ASSUME NEW i \in Rows, Marking(i) PROVE Marking(i)'
    BY DEF Clean
  <2>1. \A q \in Pods : i \in batch[q] /\ pc[q] \in {"writing", "mark"} =>
                        i \in batch'[q] /\ pc'[q] \in {"writing", "mark"}
    BY <1>1
  <2> QED
    BY <1>1, <1>s, <2>1 DEF Marking
<1>8. Apart' /\ \A l \in Lanes : NoResend(l)'
  BY <1>1 DEF Clean, Apart, NoResend
<1> QED
  BY <1>4, <1>5, <1>6, <1>7, <1>8 DEF Clean

LEMMA ProduceClean ==
  ASSUME TypeOK, Clean, NEW p \in Pods, NEW l \in Lanes, Produce(p, l) PROVE Clean'
<1> DEFINE w == queue[p][l][1]
<1>1. queue[p][l] # <<>> /\ Dequeue(p, l)
  BY DEF Produce
<1>2. /\ \A q \in Pods : q # p => queue'[q] = queue[q] /\ awaited'[q] = awaited[q]
      /\ \A k \in Lanes : k # l => queue'[p][k] = queue[p][k]
      /\ \A k \in Lanes : k # l => (k \in awaited'[p] <=> k \in awaited[p])
      /\ Head(queue[p][l]) = w /\ w \in Seq(Rows)
      /\ queue'[p][l] = <<>> <=> Len(queue[p][l]) = 1
  BY <1>1, DequeueEffect
<1>3. Fresh(p, l)
  BY <1>1 DEF Clean
<1>4. queue'[p][l] = <<>> /\ log' = [log EXCEPT ![l] = @ \o w]
  BY <1>2, <1>3 DEF Fresh, Produce
<1>5. /\ pc[p] = "writing"
      /\ \A n \in 1..Len(w) : w[n] \in batch[p] /\ LaneOf[w[n]] = l /\ ~Sent(w[n])
      /\ \A m, n \in 1..Len(w) : w[m] = w[n] => m = n
  BY <1>3 DEF Fresh
<1>6. /\ pc' = pc /\ batch' = batch /\ txOpen' = txOpen /\ writeErr' = writeErr
      /\ status' = status
  BY DEF Produce
<1> HIDE DEF w
<1>7. /\ \A k \in Lanes : k # l => log'[k] = log[k]
      /\ Len(log[l]) \in Nat /\ Len(w) \in Nat
      /\ Len(log'[l]) = Len(log[l]) + Len(w)
      /\ \A n \in 1..Len(log[l]) : log'[l][n] = log[l][n]
      /\ \A n \in 1..Len(w) : log'[l][Len(log[l]) + n] = w[n]
      /\ \A n \in 1..Len(log'[l]) :
           n \in 1..Len(log[l]) \/ \E m \in 1..Len(w) : n = Len(log[l]) + m
      /\ \A i \in Rows : Sent(i)' <=> Sent(i) \/ (LaneOf[i] = l /\ Contains(w, i))
  BY <1>2, <1>4, LogGrows
<1>8. (\A q \in Pods : Holds(q)') /\ Apart'
  BY <1>6 DEF Clean, Holds, Apart
<1>9. ASSUME NEW q \in Pods, NEW k \in Lanes, queue'[q][k] # <<>> PROVE Fresh(q, k)'
  <2>1. ~(q = p /\ k = l) /\ queue'[q][k] = queue[q][k] /\ (k \in awaited'[q] <=> k \in awaited[q])
    BY <1>2, <1>4, <1>9
  <2>2. Fresh(q, k)
    BY <1>9, <2>1 DEF Clean
  <2>3. ASSUME NEW i \in batch[q], LaneOf[i] = k, ~Sent(i) PROVE ~Sent(i)'
    <3>1. i \in Rows
      BY DEF TypeOK
    <3>2. ASSUME Contains(w, i), k = l PROVE FALSE
      <4>1. i \in batch[p]
        BY <1>5, <3>2 DEF Contains
      <4> QED
        BY <2>1, <3>2, <4>1 DEF Clean, Apart
    <3> QED
      BY <1>7, <2>3, <3>1, <3>2
  <2> QED
    BY <1>6, <2>1, <2>2, <2>3 DEF Fresh
<1>10. ASSUME NEW i \in Rows PROVE Marking(i)'
  <2>1. Marking(i)
    BY DEF Clean
  <2>2. ASSUME Contains(w, i) PROVE i \in batch[p] /\ status[i] = "pending" /\ pc[p] = "writing"
    BY <1>5, <2>2 DEF Contains, Clean, Holds
  <2> QED
    BY <1>6, <1>7, <2>1, <2>2 DEF Marking
<1>11. ASSUME NEW k \in Lanes PROVE NoResend(k)'
  <2>1. NoResend(k) /\ NoResend(l)
    BY DEF Clean
  <2>2. CASE k # l
    BY <1>7, <2>1, <2>2 DEF NoResend
  <2>3. CASE k = l
    <3> DEFINE c == Len(log[l])
               t == log'[l]
    <3>0. \A n \in 1..Len(t) : \/ n \in 1..c /\ t[n] = log[l][n]
                              \/ \E m \in 1..Len(w) : n = c + m /\ t[n] = w[m]
      BY <1>7, SMTT(20)
    <3>1. \A n \in 1..Len(t) : LaneOf[t[n]] = l
      <4>1. \A n \in 1..c : LaneOf[log[l][n]] = l
        BY <2>1 DEF NoResend
      <4>2. \A m \in 1..Len(w) : LaneOf[w[m]] = l
        BY <1>5
      <4> HIDE DEF c, t, w
      <4> QED
        BY <3>0, <4>1, <4>2
    <3>2. ASSUME NEW m \in 1..Len(log[l]), NEW n \in 1..Len(w) PROVE log[l][m] # w[n]
      <4>1. ~Sent(w[n]) /\ LaneOf[w[n]] = l
        BY <1>5
      <4> QED
        BY <4>1 DEF Sent
    <3>3. ASSUME NEW m \in 1..Len(log'[l]), NEW n \in 1..Len(log'[l]), log'[l][m] = log'[l][n]
          PROVE  m = n
      <4>1. CASE m \in 1..c /\ t[m] = log[l][m]
        BY <2>1, <3>0, <3>2, <3>3, <4>1, ZenonT(30) DEF NoResend
      <4>2. CASE n \in 1..c /\ t[n] = log[l][n]
        BY <2>1, <3>0, <3>2, <3>3, <4>2, SMTT(20) DEF NoResend
      <4>3. ASSUME NEW x \in 1..Len(w), NEW y \in 1..Len(w),
                   m = c + x, n = c + y, t[m] = w[x], t[n] = w[y]
            PROVE  m = n
        BY <1>5, <3>3, <4>3
      <4> QED
        BY <3>0, <4>1, <4>2, <4>3
    <3> QED
      BY <2>3, <3>1, <3>3 DEF NoResend
  <2> QED
    BY <2>2, <2>3
<1> QED
  BY <1>8, <1>9, <1>10, <1>11 DEF Clean

LEMMA MarkClean ==
  ASSUME SentInv, Clean, NEW p \in Pods, Mark(p) PROVE Clean'
<1>t. TypeOK /\ Waits(p)
  BY DEF SentInv
<1>1. /\ pc[p] = "mark" /\ pc'[p] = "idle" /\ batch'[p] = {} /\ awaited'[p] = {}
      /\ txOpen'[p] = FALSE /\ writeErr'[p] = FALSE
      /\ \A q \in Pods : q # p =>
           /\ pc'[q] = pc[q] /\ batch'[q] = batch[q] /\ awaited'[q] = awaited[q]
           /\ txOpen'[q] = txOpen[q] /\ writeErr'[q] = writeErr[q]
      /\ queue' = queue /\ log' = log
  BY <1>t DEF Mark, Return, TypeOK
<1>s. \A i : Sent(i)' <=> Sent(i)
  BY <1>1 DEF Sent
<1>2. \A i \in Rows : status'[i] = IF i \in batch[p] THEN "published" ELSE status[i]
  BY <1>t DEF Mark, MarkPublished, TypeOK, Clean, Holds
<1>3. \A q \in Pods : q # p => \A i \in batch[q] : i \in Rows /\ i \notin batch[p]
  BY <1>t DEF Clean, Apart, TypeOK
<1>4. \A q \in Pods : Holds(q)'
  BY <1>1, <1>2, <1>3 DEF Clean, Holds
<1>5. ASSUME NEW q \in Pods, NEW l \in Lanes, queue'[q][l] # <<>> PROVE Fresh(q, l)'
  <2>1. Fresh(q, l) /\ q # p
    BY <1>1, <1>5 DEF Clean, Fresh
  <2> QED
    BY <1>1, <1>s, <2>1 DEF Fresh
<1>6. ASSUME NEW i \in Rows PROVE Marking(i)'
  <2>1. Marking(i)
    BY DEF Clean
  <2>2. CASE i \in batch[p]
    BY <1>2, <2>2 DEF Marking
  <2>3. CASE i \notin batch[p]
    <3>1. \A q \in Pods : i \in batch[q] => q # p
      BY <2>3
    <3> QED
      BY <1>1, <1>2, <1>s, <2>1, <2>3, <3>1 DEF Marking
  <2> QED
    BY <2>2, <2>3
<1>7. Apart' /\ \A l \in Lanes : NoResend(l)'
  BY <1>1 DEF Clean, Apart, NoResend
<1> QED
  BY <1>4, <1>5, <1>6, <1>7 DEF Clean

(* Steps that neither send nor lock anything. *)
LEMMA CalmClean ==
  ASSUME TypeOK, Clean, log' = log, batch' = batch, txOpen' = txOpen, queue' = queue,
         awaited' = awaited, writeErr' = writeErr,
         \/ pc' = pc /\ \E i \in Rows : Insert(i) \/ Cleanup(i)
         \/ pc' = pc /\ status' = status
         \/ status' = status /\ \E p \in Pods : Written(p) \/ Stopped(p) \/ Start(p)
  PROVE  Clean'
<1>s. \A i : Sent(i)' <=> Sent(i)
  BY DEF Sent
<1>1. Apart' /\ \A l \in Lanes : NoResend(l)'
  BY DEF Clean, Apart, NoResend
<1>2. ASSUME pc' = pc, NEW j \in Rows, Insert(j) \/ Cleanup(j) PROVE Clean'
  <2>1. \A i \in Rows : /\ i # j => status'[i] = status[i]
                        /\ status'[i] # "none" \/ status'[i] = status[i]
                        /\ status'[i] = "pending" => status[i] \in {"none", "pending"}
                        /\ status[i] = "pending" => status'[i] = "pending"
    BY <1>2 DEF Insert, Cleanup, TypeOK
  <2>2. \A q \in Pods : \A i \in batch[q] : i \in Rows
    BY DEF TypeOK
  <2>3. \A q \in Pods : Holds(q)'
    BY <1>2, <2>1, <2>2 DEF Clean, Holds
  <2>4. \A q \in Pods, l \in Lanes : Fresh(q, l) => Fresh(q, l)'
    BY <1>2, <1>s DEF Fresh
  <2>5. ASSUME NEW i \in Rows PROVE Marking(i)'
    <3>1. Marking(i)
      BY DEF Clean
    <3> QED
      BY <1>2, <1>s, <2>1, <3>1 DEF Marking
  <2> QED
    BY <1>1, <2>3, <2>4, <2>5 DEF Clean
<1>3. ASSUME status' = status,
             \A q \in Pods : /\ pc[q] \in {"writing", "mark"} => pc'[q] \in {"writing", "mark"}
                             /\ pc'[q] \in {"idle", "stopped"} => pc[q] \in {"idle", "stopped"}
                             /\ pc[q] = "writing" /\ pc'[q] # "writing" => awaited[q] = {}
      PROVE  Clean'
  <2>1. \A q \in Pods : Holds(q)'
    BY <1>3 DEF Clean, Holds
  <2>2. \A q \in Pods, l \in Lanes : Fresh(q, l) => Fresh(q, l)'
    BY <1>3, <1>s DEF Fresh
  <2>3. ASSUME NEW i \in Rows PROVE Marking(i)'
    <3>1. Marking(i)
      BY DEF Clean
    <3> QED
      BY <1>3, <1>s, <3>1 DEF Marking
  <2> QED
    BY <1>1, <2>1, <2>2, <2>3 DEF Clean
<1>4. ASSUME status' = status, pc' = pc PROVE Clean'
  BY <1>3, <1>4
<1>5. ASSUME status' = status, NEW p \in Pods, Written(p) \/ Stopped(p) \/ Start(p) PROVE Clean'
  <2>1. \A q \in Pods : q # p => pc'[q] = pc[q]
    BY <1>5 DEF Written, Return, Stopped, Start, TypeOK
  <2>2. \/ pc[p] = "writing" /\ pc'[p] = "mark" /\ awaited[p] = {}
        \/ pc[p] \in {"idle", "stopped"} /\ pc'[p] \in {"idle", "stopped"}
    BY <1>5 DEF Written, Stopped, Start, TypeOK, Clean, Holds
  <2> QED
    BY <1>3, <1>5, <2>1, <2>2
<1> QED
  BY <1>2, <1>4, <1>5

LEMMA StepOnce == OnceInv /\ [Next]_vars => OnceInv'
<1> SUFFICES ASSUME OnceInv, [Next]_vars PROVE OnceInv'
  OBVIOUS
<1>1. SentInv /\ TypeOK /\ SentInv'
  BY StepSent DEF OnceInv, SentInv
<1> SUFFICES ASSUME faults' = 0 PROVE Clean'
  BY <1>1 DEF OnceInv
<1>2. ~Fault
  BY <1>1 DEF Fault, TypeOK
<1>3. /\ ~\E p \in Pods : WriteTimeout(p) \/ MarkFails(p) \/ LoseTransaction(p) \/ Crash(p)
      /\ ~\E p \in Pods, l \in Lanes : ProduceUnacknowledged(p, l) \/ GiveUp(p, l)
  BY <1>2 DEF WriteTimeout, MarkFails, LoseTransaction, Crash, ProduceUnacknowledged, GiveUp
<1>4. CASE \E i \in Rows : Insert(i) \/ Cleanup(i)
  <2>1. Clean
    BY <1>4 DEF OnceInv, Insert, Cleanup
  <2> QED
    BY <1>1, <1>4, <2>1, CalmClean DEF Insert, Cleanup
<1>5. ASSUME NEW p \in Pods, Fetch(p) PROVE Clean'
  BY <1>1, <1>5, FetchClean DEF OnceInv, Fetch
<1>6. ASSUME NEW p \in Pods, WriteMessages(p) PROVE Clean'
  BY <1>1, <1>6, WriteClean DEF OnceInv, WriteMessages
<1>7. ASSUME NEW p \in Pods, Written(p) PROVE Clean'
  <2>1. Clean
    BY <1>7 DEF OnceInv, Written
  <2>2. ~writeErr[p]
    BY <2>1 DEF Clean, Holds
  <2> QED
    BY <1>1, <1>7, <2>1, <2>2, CalmClean DEF Written
<1>8. ASSUME NEW p \in Pods, Mark(p) PROVE Clean'
  BY <1>1, <1>8, MarkClean DEF OnceInv, Mark
<1>9. ASSUME NEW p \in Pods, Stop(p) PROVE Clean'
  BY <1>1, <1>9, CalmClean DEF OnceInv, Stop
<1>10. ASSUME NEW p \in Pods, Stopped(p) \/ Start(p) PROVE Clean'
  <2>1. Clean
    BY <1>10 DEF OnceInv, Stopped, Start
  <2> QED
    BY <1>1, <1>10, <2>1, CalmClean DEF Stopped, Start
<1>11. ASSUME NEW p \in Pods, NEW l \in Lanes, Produce(p, l) PROVE Clean'
  BY <1>1, <1>11, ProduceClean DEF OnceInv, Produce
<1>12. CASE UNCHANGED vars
  BY <1>1, <1>12, CalmClean DEF OnceInv, vars
<1> QED
  BY <1>3, <1>4, <1>5, <1>6, <1>7, <1>8, <1>9, <1>10, <1>11, <1>12 DEF Next

(* Several pods polling the outbox at once, and pods that are stopped and replaced in the
   middle of a batch, send no event twice as long as nothing fails: FOR UPDATE SKIP LOCKED
   keeps their batches apart, and Stop lets a batch end.                                   *)
THEOREM NothingSentTwice == Spec => []ResentOnlyAfterFault
<1>1. OnceInv => ResentOnlyAfterFault
  BY DEF OnceInv, Clean, NoResend, ResentOnlyAfterFault
<1> QED
  BY InitOnce, StepOnce, <1>1, PTL DEF Spec

-----------------------------------------------------------------------------
(* One pod keeps the order of a wallet's events. *)

OnePod == \A p, q \in Pods : p = q

(* Row i is an earlier event of the wallet of row j. *)
Earlier(i, j) == LaneOf[i] = LaneOf[j] /\ KeyOf[i] = KeyOf[j] /\ i < j

(* In list w, which goes to lane l, a row follows the earlier ones that Kafka lacks. *)
Follows(w, l) ==
  \A n \in 1..Len(w) :
    /\ LaneOf[w[n]] = l
    /\ \A i \in Rows : Earlier(i, w[n]) => Sent(i) \/ \E m \in 1..(n - 1) : w[m] = i

BatchFollows(p) ==
  /\ pc[p] \in {"idle", "stopped"} => batch[p] = {}
  /\ \A j \in batch[p], i \in Rows : Earlier(i, j) => i \in batch[p] \/ Sent(i)

WritesFollow(p) ==
  \A l \in Lanes : \A k \in 1..Len(queue[p][l]) : Follows(queue[p][l][k], l)

Ordered(p) == BatchFollows(p) /\ WritesFollow(p)

InsertedInOrder ==
  /\ \A i, j \in Rows : Earlier(i, j) /\ status[i] = "none" => status[j] = "none"
  /\ \A p \in Pods : \A i \in batch[p] : status[i] # "none"

LanesRight == \A l \in Lanes : \A n \in 1..Len(log[l]) : LaneOf[log[l][n]] = l

OrderInv ==
  SentInv /\ (\A p \in Pods : Ordered(p)) /\ InsertedInOrder /\ LanesRight /\ OrderPerKey

LEMMA InitOrder == Init => OrderInv
<1> SUFFICES ASSUME Init PROVE OrderInv
  OBVIOUS
<1>1. \A p \in Pods : Ordered(p)
  BY DEF Init, Ordered, BatchFollows, WritesFollow
<1>2. InsertedInOrder /\ LanesRight /\ OrderPerKey
  BY DEF Init, InsertedInOrder, LanesRight, OrderPerKey
<1> QED
  BY <1>1, <1>2, InitSent DEF OrderInv

(* What is in Kafka, and stays there, never makes a list worse. *)
LEMMA FollowsStays ==
  ASSUME KeepsSent, NEW w, NEW l, Follows(w, l) PROVE Follows(w, l)'
  BY DEF Follows, KeepsSent, Earlier

(* The batch is the lowest ids there are: an earlier event of the same wallet is in it, or
   has been marked, and so sent.                                                          *)
LEMMA FetchOrder ==
  ASSUME OnePod, OrderInv, NEW p \in Pods, Fetch(p)
  PROVE  \A j \in batch'[p], i \in Rows : Earlier(i, j) => i \in batch'[p] \/ Sent(i)
<1>t. TypeOK /\ PublishedIsSent
  BY DEF OrderInv, SentInv
<1>1. PICK rows \in FirstOf(Free) : batch' = [batch EXCEPT ![p] = rows]
  BY DEF Fetch
<1>2. batch'[p] = rows /\ rows = {i \in Free : Rank(Free, i) < BatchSize} /\ pc[p] = "idle"
  BY <1>1, <1>t DEF FirstOf, TypeOK, Fetch
<1>3. Locked = {}
  BY <1>2 DEF OnePod, OrderInv, Ordered, BatchFollows, Locked
<1>4. Free \in SUBSET Rows /\ Free = {i \in Rows : status[i] = "pending"}
  BY <1>3 DEF Free
<1>5. Free \subseteq Nat /\ IsFiniteSet(Free)
  BY <1>4, RelayAssumption, FS_Subset
<1> SUFFICES ASSUME NEW j \in rows, NEW i \in Rows, Earlier(i, j), ~Sent(i)
             PROVE  i \in rows
  BY <1>2
<1>6. j \in Free /\ j \in Rows /\ status[j] = "pending" /\ Rank(Free, j) < BatchSize
  BY <1>2, <1>4
<1>7. status[i] # "none"
  BY <1>6 DEF OrderInv, InsertedInOrder
<1>8. status[i] \notin {"published", "deleted"}
  BY <1>t DEF PublishedIsSent
<1>9. i \in Free
  BY <1>4, <1>7, <1>8, <1>t DEF TypeOK, Status
<1> HIDE DEF Free
<1>10. Rank(Free, i) < Rank(Free, j) /\ Rank(Free, i) \in Int /\ Rank(Free, j) \in Int
  <2>1. /\ Cardinality(Free) \in Nat
        /\ \A k \in Free : Rank(Free, k) \in 0..(Cardinality(Free) - 1)
        /\ \A k, m \in Free : k < m => Rank(Free, k) < Rank(Free, m)
    BY <1>5, Ranks
  <2>2. i < j
    BY DEF Earlier
  <2> QED
    BY <1>6, <1>9, <2>1, <2>2
<1>11. BatchSize \in Int
  BY RelayAssumption
<1> QED
  BY <1>2, <1>6, <1>9, <1>10, <1>11

(* A batch goes to its lanes in the order of the ids. *)
LEMMA MessagesFollow ==
  ASSUME TypeOK, NEW p \in Pods, Ordered(p), NEW l \in Lanes
  PROVE  Follows(MessagesFor(p, l), l)
<1> DEFINE w == MessagesFor(p, l)
<1>1. /\ w \in Seq(Rows)
      /\ \A n \in 1..Len(w) : w[n] \in batch[p] /\ LaneOf[w[n]] = l
      /\ \A i \in batch[p] : LaneOf[i] = l => \E n \in 1..Len(w) : w[n] = i
      /\ \A m, n \in 1..Len(w) : m < n => w[m] < w[n]
  BY Messages
<1> HIDE DEF w
<1>2. \A n \in 1..Len(w) : n \in Nat /\ w[n] \in Rows
  BY <1>1
<1>3. \A i \in Rows : i \in Nat
  BY RelayAssumption
<1>4. ASSUME NEW n \in 1..Len(w), NEW i \in Rows, Earlier(i, w[n]), ~Sent(i)
      PROVE  \E m \in 1..(n - 1) : w[m] = i
  <2>1. i \in batch[p] /\ LaneOf[i] = l
    BY <1>1, <1>4 DEF Ordered, BatchFollows, Earlier
  <2>2. PICK m \in 1..Len(w) : w[m] = i
    BY <1>1, <2>1
  <2>3. w[m] < w[n] /\ w[m] \in Nat /\ w[n] \in Nat /\ m \in Nat /\ n \in Nat
    BY <1>2, <1>3, <1>4, <2>2 DEF Earlier
  <2>4. ~(n < m) /\ n # m
    BY <1>1, <2>3
  <2>5. m \in 1..(n - 1)
    BY <2>3, <2>4
  <2> QED
    BY <2>2, <2>5
<1>5. Follows(w, l)
  BY <1>1, <1>4 DEF Follows
<1> QED
  BY <1>5 DEF w

LaneInOrder(s, l) ==
  \A n \in 1..Len(s) : \A i \in Rows :
    LaneOf[i] = l /\ KeyOf[i] = KeyOf[s[n]] /\ i < s[n] => \E m \in 1..(n - 1) : s[m] = i

(* Appending such a list to its partition keeps the partition in order. *)
LEMMA AppendOrder ==
  ASSUME TypeOK, LanesRight, OrderPerKey, NEW l \in Lanes, NEW w \in Seq(Rows), Follows(w, l),
         log' = [log EXCEPT ![l] = @ \o w]
  PROVE  OrderPerKey' /\ LanesRight'
<1> DEFINE c == Len(log[l])
           t == log'[l]
<1>1. /\ \A k \in Lanes : k # l => log'[k] = log[k]
      /\ c \in Nat /\ Len(w) \in Nat /\ Len(t) = c + Len(w)
      /\ \A n \in 1..c : t[n] = log[l][n]
      /\ \A n \in 1..Len(w) : t[c + n] = w[n]
      /\ \A n \in 1..Len(t) : n \in 1..c \/ \E m \in 1..Len(w) : n = c + m
  BY LogGrows
<1> HIDE DEF t
<1>2. ASSUME NEW n \in 1..Len(t) PROVE LaneOf[t[n]] = l
  <2>1. CASE n \in 1..c
    BY <1>1, <2>1 DEF LanesRight
  <2>2. ASSUME NEW m \in 1..Len(w), n = c + m PROVE LaneOf[t[n]] = l
    BY <1>1, <2>2 DEF Follows
  <2> QED
    BY <1>1, <2>1, <2>2
<1>3. LanesRight'
  <2> SUFFICES ASSUME NEW k \in Lanes, NEW n \in 1..Len(log'[k]) PROVE LaneOf[log'[k][n]] = k
    BY DEF LanesRight
  <2>1. CASE k = l
    BY <1>2, <2>1 DEF t
  <2>2. CASE k # l
    BY <1>1, <2>2 DEF LanesRight
  <2> QED
    BY <2>1, <2>2
<1>4. ASSUME NEW n \in 1..Len(t), NEW i \in Rows, LaneOf[i] = l, KeyOf[i] = KeyOf[t[n]], i < t[n]
      PROVE  \E m \in 1..(n - 1) : t[m] = i
  <2>1. CASE n \in 1..c
    <3>1. PICK m \in 1..(n - 1) : log[l][m] = i
      BY <1>1, <1>4, <2>1 DEF OrderPerKey
    <3>2. m \in 1..c
      BY <1>1, <2>1
    <3> QED
      BY <1>1, <3>1, <3>2
  <2>2. ASSUME NEW k \in 1..Len(w), n = c + k PROVE \E m \in 1..(n - 1) : t[m] = i
    <3>1. Sent(i) \/ \E m \in 1..(k - 1) : w[m] = i
      <4>1. t[n] = w[k] /\ LaneOf[w[k]] = l
        BY <1>1, <2>2 DEF Follows
      <4>2. Earlier(i, w[k])
        BY <1>4, <4>1 DEF Earlier
      <4> QED
        BY <4>2 DEF Follows
    <3>2. CASE Sent(i)
      <4>1. PICK m \in 1..c : log[l][m] = i
        BY <1>4, <3>2 DEF Sent
      <4>2. m \in 1..(n - 1) /\ t[m] = i
        BY <1>1, <2>2, <4>1
      <4> QED
        BY <4>2
    <3>3. ASSUME NEW m \in 1..(k - 1), w[m] = i PROVE \E x \in 1..(n - 1) : t[x] = i
      <4>1. c + m \in 1..(n - 1) /\ m \in 1..Len(w)
        BY <1>1, <2>2
      <4> QED
        BY <1>1, <3>3, <4>1
    <3> QED
      BY <3>1, <3>2, <3>3
  <2> QED
    BY <1>1, <2>1, <2>2
<1>5. LaneInOrder(t, l)
  BY <1>4 DEF LaneInOrder
<1>6. \A k \in Lanes : k # l => LaneInOrder(log'[k], k)
  BY <1>1 DEF OrderPerKey, LaneInOrder
<1>7. \A k \in Lanes : LaneInOrder(log'[k], k)
  BY <1>5, <1>6 DEF t
<1>8. OrderPerKey'
  BY <1>7 DEF OrderPerKey, LaneInOrder
<1> QED
  BY <1>3, <1>8

LEMMA WritesStay ==
  ASSUME KeepsSent, NEW p \in Pods, WritesFollow(p), queue'[p] = queue[p] PROVE WritesFollow(p)'
<1> SUFFICES ASSUME NEW l \in Lanes, NEW k \in 1..Len(queue'[p][l])
             PROVE  Follows(queue[p][l][k], l)'
  BY DEF WritesFollow
<1>1. PICK w : w = queue[p][l][k]
  OBVIOUS
<1>2. Follows(w, l)
  BY <1>1 DEF WritesFollow
<1>3. Follows(w, l)'
  BY <1>2, FollowsStays
<1>4. w = queue'[p][l][k]
  BY <1>1
<1> QED
  BY <1>3, <1>4 DEF Follows

LEMMA StepOrdered ==
  ASSUME OnePod, OrderInv, Next
  PROVE  \A p \in Pods : Ordered(p)'
<1>t. TypeOK /\ KeepsSent /\ \A p \in Pods : Ordered(p)
  BY StepWaits DEF OrderInv, SentInv
<1>b. ASSUME NEW p \in Pods, batch'[p] = batch[p],
             pc'[p] \in {"idle", "stopped"} => pc[p] \in {"idle", "stopped"}
      PROVE  BatchFollows(p)'
  BY <1>b, <1>t DEF Ordered, BatchFollows, KeepsSent, Earlier
<1>r. ASSUME NEW p \in Pods, Return(p) PROVE BatchFollows(p)'
  BY <1>r, <1>t DEF Return, BatchFollows, TypeOK
<1>o. ASSUME NEW p \in Pods, BatchFollows(p)', WritesFollow(p)' PROVE \A q \in Pods : Ordered(q)'
  BY <1>o DEF OnePod, Ordered
<1>1. CASE \E i \in Rows : Insert(i) \/ Cleanup(i)
  <2>1. \A p \in Pods : pc'[p] = pc[p] /\ batch'[p] = batch[p] /\ queue'[p] = queue[p]
    BY <1>1 DEF Insert, Cleanup
  <2> QED
    BY <1>b, <1>t, <2>1, WritesStay DEF Ordered
<1>2. ASSUME NEW p \in Pods, Fetch(p) PROVE \A q \in Pods : Ordered(q)'
  <2>1. pc'[p] = "fetched" /\ queue'[p] = queue[p]
    BY <1>2, <1>t DEF Fetch, TypeOK
  <2>2. \A j \in batch'[p], i \in Rows : Earlier(i, j) => i \in batch'[p] \/ Sent(i)
    BY <1>2, FetchOrder
  <2>3. BatchFollows(p)'
    BY <1>t, <2>1, <2>2 DEF BatchFollows, KeepsSent, Earlier
  <2> QED
    BY <1>o, <1>t, <2>1, <2>3, WritesStay DEF Ordered
<1>3. ASSUME NEW p \in Pods, WriteMessages(p) PROVE \A q \in Pods : Ordered(q)'
  <2> DEFINE lanes == {LaneOf[i] : i \in batch[p]}
  <2>1. /\ pc'[p] = "writing" /\ batch'[p] = batch[p]
        /\ \A l \in Lanes : queue'[p][l] =
             IF l \in lanes THEN Append(queue[p][l], MessagesFor(p, l)) ELSE queue[p][l]
    BY <1>3, <1>t DEF WriteMessages, TypeOK
  <2> HIDE DEF lanes
  <2>2. ASSUME NEW l \in Lanes, NEW k \in 1..Len(queue'[p][l])
        PROVE  \E w : w = queue'[p][l][k] /\ Follows(w, l)
    <3> DEFINE s == queue[p][l]
               w == MessagesFor(p, l)
    <3>1. /\ Follows(w, l) /\ w \in Seq(Rows) /\ s \in Seq(Seq(Rows))
          /\ \A n \in 1..Len(s) : Follows(s[n], l)
      <4>1. Follows(w, l) /\ w \in Seq(Rows)
        BY <1>t, MessagesFollow, Messages
      <4>2. s \in Seq(Seq(Rows))
        BY <1>t DEF TypeOK
      <4>3. \A n \in 1..Len(s) : Follows(s[n], l)
        BY <1>t DEF Ordered, WritesFollow
      <4> QED
        BY <4>1, <4>2, <4>3
    <3>2. queue'[p][l] = Append(s, w) \/ queue'[p][l] = s
      BY <2>1
    <3> HIDE DEF s, w
    <3>3. CASE queue'[p][l] = s
      BY <3>1, <3>3
    <3>4. CASE queue'[p][l] = Append(s, w)
      <4>1. /\ Len(s) \in Nat /\ Len(Append(s, w)) = Len(s) + 1
            /\ \A n \in 1..Len(s) : Append(s, w)[n] = s[n]
            /\ Append(s, w)[Len(s) + 1] = w
        BY <3>1, AppendOne
      <4>2. k \in 1..Len(s) \/ k = Len(s) + 1
        BY <3>4, <4>1
      <4> QED
        BY <3>1, <3>4, <4>1, <4>2
    <3> QED
      BY <3>2, <3>3, <3>4
  <2>3. WritesFollow(p)'
    <3> SUFFICES ASSUME NEW l \in Lanes, NEW k \in 1..Len(queue'[p][l])
                 PROVE  Follows(queue[p][l][k], l)'
      BY DEF WritesFollow
    <3>1. PICK w : w = queue'[p][l][k] /\ Follows(w, l)
      BY <2>2
    <3>2. Follows(w, l)'
      BY <1>t, <3>1, FollowsStays
    <3> QED
      BY <3>1, <3>2 DEF Follows
  <2> QED
    BY <1>b, <1>o, <2>1, <2>3
<1>4. ASSUME NEW p \in Pods, Written(p) PROVE \A q \in Pods : Ordered(q)'
  <2>1. queue'[p] = queue[p] /\ (Return(p) \/ (batch' = batch /\ pc'[p] = "mark"))
    BY <1>4, <1>t DEF Written, TypeOK
  <2>2. BatchFollows(p)'
    BY <1>b, <1>r, <2>1
  <2> QED
    BY <1>o, <1>t, <2>1, <2>2, WritesStay DEF Ordered
<1>5. ASSUME NEW p \in Pods, WriteTimeout(p) \/ Mark(p) \/ MarkFails(p)
      PROVE  \A q \in Pods : Ordered(q)'
  <2>1. queue'[p] = queue[p] /\ Return(p)
    BY <1>5 DEF WriteTimeout, Mark, MarkFails
  <2> QED
    BY <1>o, <1>r, <1>t, <2>1, WritesStay DEF Ordered
<1>6. ASSUME NEW p \in Pods, Crash(p) PROVE \A q \in Pods : Ordered(q)'
  <2>1. Return(p) /\ \A l \in Lanes : queue'[p][l] = <<>>
    BY <1>6, <1>t DEF Crash, TypeOK
  <2>2. WritesFollow(p)'
    BY <2>1 DEF WritesFollow
  <2> QED
    BY <1>o, <1>r, <2>1, <2>2
<1>7. ASSUME NEW p \in Pods, LoseTransaction(p) \/ Stop(p) \/ Stopped(p) \/ Start(p)
      PROVE  \A q \in Pods : Ordered(q)'
  <2>1. /\ queue'[p] = queue[p] /\ batch'[p] = batch[p]
        /\ pc'[p] \in {"idle", "stopped"} => pc[p] \in {"idle", "stopped"}
    BY <1>7, <1>t DEF LoseTransaction, Stop, Stopped, Start, TypeOK
  <2> QED
    BY <1>b, <1>o, <1>t, <2>1, WritesStay DEF Ordered
<1>8. ASSUME NEW p \in Pods, NEW l \in Lanes, ProduceUnacknowledged(p, l)
      PROVE  \A q \in Pods : Ordered(q)'
  <2>1. queue' = queue /\ batch' = batch /\ pc' = pc
    BY <1>8 DEF ProduceUnacknowledged
  <2> QED
    BY <1>b, <1>t, <2>1, WritesStay DEF Ordered
<1>9. ASSUME NEW p \in Pods, NEW l \in Lanes, Produce(p, l) \/ GiveUp(p, l)
      PROVE  \A q \in Pods : Ordered(q)'
  <2>1. queue[p][l] # <<>> /\ Dequeue(p, l) /\ batch' = batch /\ pc' = pc
    BY <1>9 DEF Produce, GiveUp
  <2>2. /\ \A k \in Lanes : k # l => queue'[p][k] = queue[p][k]
        /\ Len(queue[p][l]) \in Nat \ {0}
        /\ Len(queue'[p][l]) = Len(queue[p][l]) - 1
        /\ \A n \in 1..(Len(queue[p][l]) - 1) : queue'[p][l][n] = queue[p][l][n + 1]
    BY <1>t, <2>1, DequeueEffect
  <2>3. ASSUME NEW k \in Lanes, NEW n \in 1..Len(queue'[p][k])
        PROVE  \E w : w = queue'[p][k][n] /\ Follows(w, k)
    <3>1. CASE k # l
      BY <1>t, <2>2, <3>1 DEF Ordered, WritesFollow
    <3>2. CASE k = l
      <4>1. n + 1 \in 1..Len(queue[p][l]) /\ n \in 1..(Len(queue[p][l]) - 1)
        BY <2>2, <3>2
      <4>2. Follows(queue[p][l][n + 1], l)
        BY <1>t, <4>1 DEF Ordered, WritesFollow
      <4> QED
        BY <2>2, <3>2, <4>1, <4>2
    <3> QED
      BY <3>1, <3>2
  <2>4. WritesFollow(p)'
    <3> SUFFICES ASSUME NEW k \in Lanes, NEW n \in 1..Len(queue'[p][k])
                 PROVE  Follows(queue[p][k][n], k)'
      BY DEF WritesFollow
    <3>1. PICK w : w = queue'[p][k][n] /\ Follows(w, k)
      BY <2>3
    <3>2. Follows(w, k)'
      BY <1>t, <3>1, FollowsStays
    <3> QED
      BY <3>1, <3>2 DEF Follows
  <2> QED
    BY <1>b, <1>o, <2>1, <2>4
<1> QED
  BY <1>1, <1>2, <1>3, <1>4, <1>5, <1>6, <1>7, <1>8, <1>9 DEF Next

(* A row is inserted after the earlier ones of its wallet, and never taken back. *)
LEMMA StepInserted ==
  ASSUME OrderInv, Next
  PROVE  InsertedInOrder'
<1>t. TypeOK /\ InsertedInOrder
  BY DEF OrderInv, SentInv
<1>1. /\ \A i \in Rows : status'[i] = "none" => status[i] = "none"
      /\ \A j \in Rows : status[j] = "none" /\ status'[j] # "none" =>
           \A i \in Rows : Earlier(i, j) => status[i] # "none" /\ i # j
  <2>1. ASSUME NEW k \in Rows, Insert(k) \/ Cleanup(k)
        PROVE  /\ \A i \in Rows : status'[i] = "none" => status[i] = "none"
               /\ \A j \in Rows : status[j] = "none" /\ status'[j] # "none" => j = k /\ Insert(k)
    BY <2>1, <1>t DEF Insert, Cleanup, TypeOK
  <2>2. ASSUME NEW p \in Pods, Mark(p) \/ MarkFails(p)
        PROVE  /\ \A i \in Rows : status'[i] = "none" => status[i] = "none"
               /\ \A j \in Rows : status[j] = "none" => status'[j] = "none"
    BY <2>2, <1>t DEF Mark, MarkFails, MarkPublished, TypeOK, InsertedInOrder
  <2>3. \A i, j \in Rows : Earlier(i, j) => i # j
    BY RelayAssumption DEF Earlier
  <2>4. \A k, i \in Rows : Insert(k) /\ Earlier(i, k) => status[i] # "none"
    BY DEF Insert, Earlier
  <2> QED
    BY <2>1, <2>2, <2>3, <2>4
    DEF Next, Fetch, WriteMessages, Written, WriteTimeout, LoseTransaction, Crash, Stop, Stopped,
        Start, Produce, ProduceUnacknowledged, GiveUp
<1>2. ASSUME NEW q \in Pods, NEW i \in batch'[q] PROVE i \in Rows /\ status[i] # "none"
  <2>1. ASSUME NEW p \in Pods, Fetch(p) PROVE i \in Rows /\ status[i] # "none"
    <3>1. PICK rows \in FirstOf(Free) : batch' = [batch EXCEPT ![p] = rows]
      BY <2>1 DEF Fetch
    <3>2. \A k \in rows : k \in Rows /\ status[k] = "pending"
      BY DEF FirstOf, Free
    <3> QED
      BY <1>2, <1>t, <3>1, <3>2 DEF TypeOK, InsertedInOrder
  <2>2. CASE i \in batch[q]
    BY <1>t, <2>2 DEF TypeOK, InsertedInOrder
  <2>3. ASSUME NEW p \in Pods, Return(p) PROVE i \in batch[q]
    BY <1>2, <1>t, <2>3 DEF Return, TypeOK
  <2> QED
    BY <1>2, <2>1, <2>2, <2>3
    DEF Next, Insert, Cleanup, WriteMessages, Written, WriteTimeout, Mark, MarkFails,
        LoseTransaction, Crash, Stop, Stopped, Start, Produce, ProduceUnacknowledged, GiveUp
<1>3. \A i, j \in Rows : Earlier(i, j) /\ status'[i] = "none" => status'[j] = "none"
  BY <1>t, <1>1 DEF InsertedInOrder
<1>4. \A q \in Pods : \A i \in batch'[q] : status'[i] # "none"
  BY <1>1, <1>2
<1> QED
  BY <1>3, <1>4 DEF InsertedInOrder, Earlier

(* Only Produce and ProduceUnacknowledged add to a partition, and only the oldest write. *)
LEMMA StepLogs ==
  ASSUME OrderInv, Next
  PROVE  LanesRight' /\ OrderPerKey'
<1>t. TypeOK /\ LanesRight /\ OrderPerKey /\ \A p \in Pods : WritesFollow(p)
  BY DEF OrderInv, SentInv, Ordered
<1>1. CASE log' = log
  BY <1>1, <1>t DEF LanesRight, OrderPerKey
<1>2. ASSUME NEW p \in Pods, NEW l \in Lanes, Produce(p, l) \/ ProduceUnacknowledged(p, l)
      PROVE  LanesRight' /\ OrderPerKey'
  <2>1. PICK w : w = Head(queue[p][l])
    OBVIOUS
  <2>2. queue[p][l] \in Seq(Seq(Rows)) /\ queue[p][l] # <<>>
    BY <1>2, <1>t DEF Produce, ProduceUnacknowledged, TypeOK
  <2>3. w = queue[p][l][1] /\ w \in Seq(Rows) /\ 1 \in 1..Len(queue[p][l])
    BY <2>1, <2>2
  <2>4. Follows(w, l)
    BY <1>t, <2>3 DEF WritesFollow
  <2>5. log' = [log EXCEPT ![l] = @ \o w]
    BY <1>2, <2>1 DEF Produce, ProduceUnacknowledged
  <2> QED
    BY <1>t, <2>3, <2>4, <2>5, AppendOrder
<1> QED
  BY <1>1, <1>2
  DEF Next, Insert, Cleanup, Fetch, WriteMessages, Written, WriteTimeout, Mark, MarkFails,
      LoseTransaction, Crash, Stop, Stopped, Start, GiveUp

(* With one pod, whatever its batch size, and whatever fails, times out, is retried or
   restarted, every event of a wallet comes to its partition after the earlier ones. (With
   two pods it may not.)                                                                  *)
THEOREM OnePodKeepsOrder ==
  ASSUME OnePod
  PROVE  Spec => []OrderPerKey
<1>1. OrderInv /\ [Next]_vars => OrderInv'
  <2> SUFFICES ASSUME OrderInv, [Next]_vars PROVE OrderInv'
    OBVIOUS
  <2>1. SentInv'
    BY StepSent DEF OrderInv
  <2>2. CASE Next
    BY <2>1, <2>2, StepOrdered, StepInserted, StepLogs DEF OrderInv
  <2>3. CASE UNCHANGED vars
    <3>1. InsertedInOrder' /\ LanesRight' /\ OrderPerKey' /\ KeepsSent
      BY <2>3 DEF OrderInv, vars, InsertedInOrder, Earlier, LanesRight, OrderPerKey, KeepsSent, Sent
    <3>2. \A p \in Pods : WritesFollow(p)'
      BY <2>3, <3>1, WritesStay DEF OrderInv, Ordered, vars
    <3>3. \A p \in Pods : BatchFollows(p)'
      BY <2>3 DEF OrderInv, Ordered, BatchFollows, Sent, Earlier, vars
    <3> QED
      BY <2>1, <3>1, <3>2, <3>3 DEF OrderInv, Ordered
  <2> QED
    BY <2>2, <2>3
<1>2. OrderInv => OrderPerKey
  BY DEF OrderInv
<1> QED
  BY InitOrder, <1>1, <1>2, PTL DEF Spec
==============================================================================
