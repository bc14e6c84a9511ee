----------------------------- MODULE LedgerProofs ----------------------------
(***************************************************************************)
(* Theorems about LedgerConsumer, for any partitions, messages, consumers  *)
(* and number of faults: an event is recorded once, offsets leave nothing  *)
(* behind, and the ledger agrees with the wallets once it has read all.    *)
(***************************************************************************)
EXTENDS LedgerConsumer, SumProofs, TLAPS

Posting == {"insertLines", "commit"}

Types ==
  /\ committed \in [Lanes -> Nat]
  /\ position \in [Consumers -> [Lanes -> Nat]]
  /\ pc \in [Consumers -> {"idle", "recover", "insertEntry"} \cup Posting]
  /\ lane \in [Consumers -> Lanes \cup {NoLane}]
  /\ inserted = [c \in Consumers |-> inserted[c]]

(* The message in hand exists, and is of a kind that may have got this far; what is about to
   be committed is whole.                                                               *)
InHand(c) ==
  pc[c] # "idle" =>
    /\ lane[c] \in Lanes /\ Offset(c) \in 1..Len(Log[lane[c]])
    /\ pc[c] = "recover" => Message(c).form = "malformed"
    /\ pc[c] = "insertEntry" => Message(c).form \in {"valid", "badReference"}
    /\ pc[c] \in Posting => Message(c).form = "valid"
    /\ pc[c] = "commit" => inserted[c] = LinesFor(Message(c))

TypeInv == Types /\ \A c \in Consumers : InHand(c)

LEMMA InitType == Init => TypeInv
  BY DEF Init, GroupInit, TypeInv, Types, InHand

(* Steps of one consumer, and of the group. *)
StepOf(c) == Handle(c) \/ CommitPostLost(c) \/ Fail(c) \/ Crash(c)
Local(c) == <<pc[c], lane[c], position[c], inserted[c]>>

LEMMA NextCases ==
  ASSUME TypeInv, [Next]_vars
  PROVE  \/ UNCHANGED <<pc, lane, position, inserted, journal, dlq>>
         \/ \E c \in Consumers : StepOf(c)
  BY DEF Next, vars, StepOf, CommitOffset, CommitPosition, Rebalance, GiveAway

LEMMA StepOthers ==
  ASSUME TypeInv, NEW c \in Consumers, StepOf(c), NEW d \in Consumers \ {c}
  PROVE  Local(d)' = Local(d)
<1> USE DEF TypeInv, Types, Local
<1>1. CASE \E l \in Lanes : Poll(c, l) \/ OnEvent(c, l)
  BY <1>1 DEF Poll, Learn, OnEvent
<1>2. CASE Recover(c) \/ InsertEntry(c) \/ InsertLines(c) \/ CommitPost(c)
  BY <1>2 DEF Recover, InsertEntry, InsertLines, CommitPost, Advance, PutDown, HandleAgain, Continue
<1>3. CASE CommitPostLost(c) \/ Fail(c) \/ Crash(c)
  BY <1>3 DEF CommitPostLost, Fail, Crash, Forget, PutDown, HandleAgain
<1> QED
  BY <1>1, <1>2, <1>3 DEF StepOf, Handle

LEMMA SameInHand ==
  ASSUME NEW c \in Consumers, Local(c)' = Local(c)
  PROVE  InHand(c)' = InHand(c) /\ Message(c)' = Message(c) /\ pc'[c] = pc[c]
  BY DEF Local, InHand, Message, Offset

(* Positions move by one message at a time or back to the committed offset. *)
Places(c) ==
  \/ position'[c] = position[c]
  \/ \E l \in Lanes : \E n \in {0, committed[l]} : position'[c] = [position[c] EXCEPT ![l] = n]
  \/ position'[c] = [l \in Lanes |-> 0]
  \/ /\ pc[c] # "idle" /\ position'[c] = [position[c] EXCEPT ![lane[c]] = @ + 1]
     /\ \/ pc[c] = "recover" /\ <<lane[c], Offset(c)>> \in dlq'
        \/ pc[c] = "insertEntry" /\ Message(c).form = "valid" /\ Recorded(Message(c))
        \/ pc[c] = "commit" /\ Entry(c) \in journal'

LEMMA StepPlaces ==
  ASSUME TypeInv, NEW c \in Consumers, StepOf(c)
  PROVE  Places(c)
<1> USE DEF TypeInv, Types, Places
<1>1. CASE \E l \in Lanes : Poll(c, l) \/ OnEvent(c, l)
  BY <1>1 DEF Poll, Learn, OnEvent
<1>2. CASE Recover(c) \/ CommitPost(c)
  BY <1>2 DEF Recover, CommitPost, Advance, PutDown, HandleAgain
<1>3. CASE InsertEntry(c)
  BY <1>3 DEF InsertEntry, Advance, PutDown, HandleAgain, Continue, InHand
<1>4. CASE InsertLines(c) \/ CommitPostLost(c) \/ Fail(c) \/ Crash(c)
  BY <1>4 DEF InsertLines, CommitPostLost, Fail, Crash, Forget, PutDown, HandleAgain, Continue
<1> QED
  BY <1>1, <1>2, <1>3, <1>4 DEF StepOf, Handle

LEMMA StepTypes ==
  ASSUME TypeInv, NEW c \in Consumers, StepOf(c)
  PROVE  Types' /\ InHand(c)'
<1> USE DEF TypeInv, Types, InHand, Posting
<1>1. ASSUME NEW l \in Lanes, Poll(c, l) PROVE Types' /\ InHand(c)'
  <2>1. \E n \in Nat : position' = [position EXCEPT ![c][l] = n]
    BY <1>1 DEF Poll, Learn
  <2>2. position' \in [Consumers -> [Lanes -> Nat]]
    BY <2>1
  <2> QED
    BY <1>1, <2>2 DEF Poll, Learn
<1>2. ASSUME NEW l \in Lanes, OnEvent(c, l) PROVE Types' /\ InHand(c)'
  <2>1. /\ Types' /\ lane'[c] = l /\ position' = position
        /\ pc'[c] = IF WellFormed(Log[l][position[c][l] + 1]) THEN "insertEntry" ELSE "recover"
    BY <1>2 DEF OnEvent, group
  <2>2. position[c][l] + 1 \in 1..Len(Log[l])
    BY <1>2, LogAssumption DEF OnEvent, HasNext
  <2>3. Log[l][position[c][l] + 1].form \in {"valid", "malformed", "badReference"}
    BY <2>2, LedgerAssumption
  <2> QED
    BY <2>1, <2>2, <2>3 DEF Offset, Message, WellFormed
<1>3. ASSUME Advance(c), UNCHANGED group, pc[c] # "idle" PROVE Types' /\ InHand(c)'
  <2>1. lane[c] \in Lanes /\ position[c][lane[c]] + 1 \in Nat
    BY <1>3
  <2>2. \E n \in Nat : position' = [position EXCEPT ![c][lane[c]] = n]
    BY <1>3, <2>1 DEF Advance
  <2>3. position' \in [Consumers -> [Lanes -> Nat]]
    BY <2>1, <2>2
  <2> QED
    BY <1>3, <2>3 DEF Advance, PutDown, group
<1>4. ASSUME HandleAgain(c), UNCHANGED group PROVE Types' /\ InHand(c)'
  BY <1>4 DEF HandleAgain, PutDown, group
<1>5. ASSUME NEW label \in Posting, Continue(c, label), UNCHANGED group, pc[c] # "idle",
             Message(c).form = "valid", inserted' = [inserted EXCEPT ![c] = inserted'[c]],
             label = "commit" => inserted'[c] = LinesFor(Message(c))
      PROVE  Types' /\ InHand(c)'
  BY <1>5 DEF Continue, group, Message, Offset
<1>6. CASE Crash(c)
  BY <1>6 DEF Crash, Forget, PutDown
<1>7. CASE Recover(c) \/ CommitPost(c) \/ CommitPostLost(c) \/ Fail(c)
  BY <1>3, <1>4, <1>7 DEF Recover, CommitPost, CommitPostLost, Fail
<1>8. CASE InsertEntry(c)
  BY <1>3, <1>4, <1>5, <1>8 DEF InsertEntry
<1>9. CASE InsertLines(c)
  BY <1>5, <1>9 DEF InsertLines
<1> QED
  BY <1>1, <1>2, <1>6, <1>7, <1>8, <1>9 DEF StepOf, Handle

LEMMA TypeStep == TypeInv /\ [Next]_vars => TypeInv'
<1> SUFFICES ASSUME TypeInv, [Next]_vars PROVE TypeInv'
  OBVIOUS
<1>1. ASSUME NEW c \in Consumers, StepOf(c) PROVE TypeInv'
  BY <1>1, StepTypes, StepOthers, SameInHand DEF TypeInv
<1>2. CASE UNCHANGED <<pc, lane, position, inserted, journal, dlq>>
  <2>1. committed' \in [Lanes -> Nat]
    BY <1>2 DEF Next, vars, group, TypeInv, Types, CommitOffset, CommitPosition, Rebalance, GiveAway,
                Handle, Poll, Learn, OnEvent, Recover, InsertEntry, InsertLines, CommitPost,
                CommitPostLost, Fail, Crash, Forget
  <2>2. \A c \in Consumers : InHand(c)'
    BY <1>2 DEF InHand, TypeInv, Offset, Message
  <2> QED
    BY <1>2, <2>1, <2>2 DEF TypeInv, Types
<1> QED
  BY <1>1, <1>2, NextCases

-----------------------------------------------------------------------------
(* An event is recorded once. *)

(* The unique index has no entry yet for what an open transaction has inserted, and no two
   of these insert the same.                                                             *)
PostingAlone ==
  \A c \in Consumers : pc[c] \in Posting =>
    /\ ~Recorded(Message(c))
    /\ \A d \in Consumers \ {c} : pc[d] \in Posting => Message(d).id # Message(c).id

OnceInv == PostingAlone /\ RecordedOnce

LEMMA InitOnce == Init => OnceInv
  BY DEF Init, OnceInv, PostingAlone, RecordedOnce, Posting

(* The journal grows by the entry of a COMMIT, and Posting is entered by InsertEntry. *)
LEMMA StepJournal ==
  ASSUME TypeInv, NEW c \in Consumers, StepOf(c)
  PROVE  /\ \/ journal' = journal
            \/ pc[c] = "commit" /\ pc'[c] = "idle" /\ journal' = journal \cup {Entry(c)}
                 /\ Balanced(inserted[c])
         /\ pc'[c] \in Posting =>
              /\ journal' = journal /\ Local(c)'[2] = lane[c] /\ position'[c] = position[c]
              /\ pc[c] \in Posting \/ (NoConflictPending(c) /\ ~Recorded(Message(c)))
<1> USE DEF TypeInv, Types, Posting, Local
<1>1. CASE \E l \in Lanes : Poll(c, l) \/ OnEvent(c, l)
  BY <1>1 DEF Poll, OnEvent
<1>2. CASE Recover(c) \/ Fail(c) \/ Crash(c)
  BY <1>2 DEF Recover, Fail, Crash, Advance, PutDown, HandleAgain
<1>3. CASE InsertEntry(c) \/ InsertLines(c)
  BY <1>3 DEF InsertEntry, InsertLines, Advance, PutDown, HandleAgain, Continue
<1>4. CASE CommitPost(c) \/ CommitPostLost(c)
  BY <1>4 DEF CommitPost, CommitPostLost, Advance, PutDown, HandleAgain
<1> QED
  BY <1>1, <1>2, <1>3, <1>4 DEF StepOf, Handle

LEMMA OnceStep == TypeInv /\ OnceInv /\ [Next]_vars => OnceInv'
<1> SUFFICES ASSUME TypeInv, OnceInv, [Next]_vars PROVE OnceInv'
  OBVIOUS
<1>1. CASE UNCHANGED <<pc, lane, position, inserted, journal, dlq>>
  BY <1>1 DEF OnceInv, PostingAlone, RecordedOnce, Recorded, Message, Offset
<1>2. ASSUME NEW c \in Consumers, StepOf(c) PROVE OnceInv'
  <2>1. \A d \in Consumers \ {c} : Message(d)' = Message(d) /\ pc'[d] = pc[d]
    BY <1>2, StepOthers, SameInHand
  <2>2. pc'[c] \in Posting => Message(c)' = Message(c)
    BY <1>2, StepJournal DEF Message, Offset, Local
  <2>3. CASE journal' = journal
    <3>1. \A m : Recorded(m)' = Recorded(m)
      BY <2>3 DEF Recorded
    <3>2. PostingAlone'
      <4>1. CASE pc'[c] \notin Posting
        BY <2>1, <3>1, <4>1 DEF OnceInv, PostingAlone
      <4>2. CASE pc'[c] \in Posting /\ pc[c] \in Posting
        BY <2>1, <2>2, <3>1, <4>2 DEF OnceInv, PostingAlone
      <4>3. CASE pc'[c] \in Posting /\ NoConflictPending(c) /\ ~Recorded(Message(c))
        BY <2>1, <2>2, <3>1, <4>3 DEF OnceInv, PostingAlone, NoConflictPending, Posting
      <4> QED
        BY <1>2, <4>1, <4>2, <4>3, StepJournal
    <3> QED
      BY <2>3, <3>2 DEF OnceInv, RecordedOnce
  <2>4. CASE pc[c] = "commit" /\ pc'[c] = "idle" /\ journal' = journal \cup {Entry(c)}
    <3>1. ~Recorded(Message(c)) /\ Entry(c).eventId = Message(c).id
      BY <2>4 DEF OnceInv, PostingAlone, Posting, Entry
    <3>2. RecordedOnce'
      BY <2>4, <3>1 DEF OnceInv, RecordedOnce, Recorded
    <3>3. ASSUME NEW d \in Consumers, pc'[d] \in Posting
          PROVE  /\ ~Recorded(Message(d))' /\ d # c
                 /\ \A b \in Consumers \ {d} : pc'[b] \in Posting => Message(b)'.id # Message(d)'.id
      <4>1. d # c /\ Message(d).id # Message(c).id /\ ~Recorded(Message(d))
        BY <2>1, <2>4, <3>3 DEF OnceInv, PostingAlone, Posting
      <4>2. ~Recorded(Message(d))'
        BY <2>1, <2>4, <3>1, <4>1 DEF Recorded
      <4> QED
        BY <2>1, <2>4, <3>3, <4>1, <4>2 DEF OnceInv, PostingAlone, Posting
    <3> QED
      BY <3>2, <3>3 DEF OnceInv, PostingAlone
  <2> QED
    BY <1>2, <2>3, <2>4, StepJournal
<1> QED
  BY <1>1, <1>2, NextCases

(* One event has one journal entry: not redelivery after a crash or a lost COMMIT answer,
   not a zombie of an old generation nor a copy of the event in another partition makes a
   second one.                                                                           *)
THEOREM EventsRecordedOnce == Spec => []RecordedOnce
<1>1. OnceInv => RecordedOnce
  BY DEF OnceInv
<1> QED
  BY <1>1, InitType, TypeStep, InitOnce, OnceStep, PTL DEF Spec

-----------------------------------------------------------------------------
(* Nothing is left behind an offset. *)

Done(l, n) == IF Log[l][n].form = "valid" THEN Recorded(Log[l][n]) ELSE <<l, n>> \in dlq

AllDone(l, k) == \A n \in 1..k : Done(l, n)

(* Also what a consumer has gone past without having committed it is done. *)
BehindInv ==
  /\ \A l \in Lanes : AllDone(l, committed[l])
  /\ \A c \in Consumers, l \in Lanes : AllDone(l, position[c][l])
  /\ \A d \in dlq : Log[d[1]][d[2]].form # "valid"

LEMMA InitBehind == Init => BehindInv
  BY DEF Init, GroupInit, BehindInv, AllDone

LEMMA BehindImplies == BehindInv => NothingSkipped
  BY DEF BehindInv, NothingSkipped, AllDone, Done

(* The same after a step, for an offset of before. *)
DoneNext(l, n) ==
  IF Log[l][n].form = "valid" THEN \E e \in journal' : e.eventId = Log[l][n].id ELSE <<l, n>> \in dlq'

AllDoneNext(l, k) == \A n \in 1..k : DoneNext(l, n)

LEMMA StepGrows ==
  ASSUME TypeInv, [Next]_vars
  PROVE  /\ journal \subseteq journal' /\ dlq \subseteq dlq'
         /\ \A d \in dlq' : d \in dlq \/ Log[d[1]][d[2]].form # "valid"
<1>1. ASSUME NEW c \in Consumers, StepOf(c) PROVE journal \subseteq journal'
  BY <1>1, StepJournal
<1>2. ASSUME NEW c \in Consumers, StepOf(c)
      PROVE  /\ dlq \subseteq dlq'
             /\ \A d \in dlq' : d \in dlq \/ Log[d[1]][d[2]].form # "valid"
  <2>1. CASE Recover(c)
    BY <2>1 DEF Recover, TypeInv, InHand, Message
  <2>2. CASE ~Recover(c)
    BY <1>2, <2>2 DEF StepOf, Handle, Poll, OnEvent, InsertEntry, InsertLines, CommitPost,
                      CommitPostLost, Fail, Crash
  <2> QED
    BY <2>1, <2>2
<1> QED
  BY <1>1, <1>2, NextCases

LEMMA DoneStays ==
  ASSUME TypeInv, [Next]_vars, NEW l \in Lanes, NEW k, AllDone(l, k)
  PROVE  AllDoneNext(l, k)
  BY StepGrows DEF AllDone, Done, AllDoneNext, DoneNext, Recorded

LEMMA PositionsDone ==
  ASSUME TypeInv, BehindInv, [Next]_vars, NEW c \in Consumers, StepOf(c), NEW l \in Lanes
  PROVE  AllDoneNext(l, position'[c][l])
<1>1. AllDoneNext(l, position[c][l]) /\ AllDoneNext(l, committed[l]) /\ AllDoneNext(l, 0)
  BY DoneStays DEF BehindInv, AllDone, AllDoneNext
<1>2. CASE position'[c] = position[c]
  BY <1>1, <1>2
<1>3. ASSUME NEW m \in Lanes, NEW n \in {0, committed[m]}, position'[c] = [position[c] EXCEPT ![m] = n]
      PROVE  AllDoneNext(l, position'[c][l])
  BY <1>1, <1>3 DEF TypeInv, Types
<1>4. CASE position'[c] = [k \in Lanes |-> 0]
  BY <1>1, <1>4
<1>5. ASSUME pc[c] # "idle", position'[c] = [position[c] EXCEPT ![lane[c]] = @ + 1],
             \/ pc[c] = "recover" /\ <<lane[c], Offset(c)>> \in dlq'
             \/ pc[c] = "insertEntry" /\ Message(c).form = "valid" /\ Recorded(Message(c))
             \/ pc[c] = "commit" /\ Entry(c) \in journal'
      PROVE  AllDoneNext(l, position'[c][l])
  <2>1. DoneNext(lane[c], Offset(c))
    <3>1. CASE pc[c] = "recover" /\ <<lane[c], Offset(c)>> \in dlq'
      BY <3>1 DEF DoneNext, TypeInv, InHand, Message
    <3>2. CASE pc[c] = "insertEntry" /\ Message(c).form = "valid" /\ Recorded(Message(c))
      BY <3>2, StepGrows DEF DoneNext, Recorded, Message
    <3>3. CASE pc[c] = "commit" /\ Entry(c) \in journal'
      BY <3>3 DEF DoneNext, Recorded, Entry, Message, TypeInv, InHand, Posting
    <3> QED
      BY <1>5, <3>1, <3>2, <3>3
  <2>2. CASE l = lane[c]
    <3>1. position'[c][l] = position[c][l] + 1 /\ position[c][l] \in Nat
      BY <1>5, <2>2 DEF TypeInv, Types
    <3>2. \A n \in 1..(position[c][l] + 1) : n \in 1..position[c][l] \/ n = position[c][l] + 1
      BY <3>1
    <3> QED
      BY <1>1, <2>1, <2>2, <3>1, <3>2 DEF AllDoneNext, Offset
  <2>3. CASE l # lane[c]
    BY <1>1, <1>5, <2>3 DEF TypeInv, Types
  <2> QED
    BY <2>2, <2>3
<1> QED
  BY <1>2, <1>3, <1>4, <1>5, StepPlaces DEF Places

LEMMA BehindStep == TypeInv /\ BehindInv /\ [Next]_vars => BehindInv'
<1> SUFFICES ASSUME TypeInv, BehindInv, [Next]_vars PROVE BehindInv'
  OBVIOUS
<1>1. \A c \in Consumers, l \in Lanes : AllDoneNext(l, position'[c][l])
  <2>1. ASSUME NEW c \in Consumers, NEW l \in Lanes, position'[c] = position[c]
        PROVE  AllDoneNext(l, position'[c][l])
    BY <2>1, DoneStays DEF BehindInv
  <2>2. ASSUME NEW c \in Consumers, NEW d \in Consumers, StepOf(d), NEW l \in Lanes
        PROVE  AllDoneNext(l, position'[c][l])
    BY <2>1, <2>2, PositionsDone, StepOthers DEF Local
  <2> QED
    BY <2>1, <2>2, NextCases
<1>2. \A l \in Lanes : committed'[l] = committed[l] \/ \E c \in Consumers : committed'[l] = position[c][l]
  <2>1. CASE committed' = committed
    BY <2>1
  <2>2. ASSUME NEW c \in Consumers, NEW l \in Lanes, CommitOffset(c, l)
        PROVE  \A m \in Lanes : committed'[m] = committed[m] \/ committed'[m] = position[c][m]
    BY <2>2 DEF CommitOffset, CommitPosition, TypeInv, Types
  <2>3. committed' = committed \/ \E c \in Consumers, l \in Lanes : CommitOffset(c, l)
    BY DEF Next, vars, group, Rebalance, GiveAway, Handle, Poll, Learn, OnEvent, Recover,
           InsertEntry, InsertLines, CommitPost, CommitPostLost, Fail, Crash, Forget
  <2> QED
    BY <2>1, <2>2, <2>3
<1>3. \A l \in Lanes : AllDoneNext(l, committed'[l])
  BY <1>2, DoneStays DEF BehindInv
<1>4. \A d \in dlq' : Log[d[1]][d[2]].form # "valid"
  BY StepGrows DEF BehindInv
<1> QED
  BY <1>1, <1>3, <1>4 DEF BehindInv, AllDone, Done, AllDoneNext, DoneNext, Recorded

(* "The offset is not committed, so nothing is lost": whatever fails, crashes or is given to
   another consumer, behind a committed offset every event is recorded and every bad message
   is in the dead-letter topic, where no event ever ends up.                               *)
THEOREM OffsetsLoseNothing == Spec => []NothingSkipped
  BY BehindImplies, InitType, TypeStep, InitBehind, BehindStep, PTL DEF Spec

-----------------------------------------------------------------------------
(* The ledger agrees with the wallets. Both balances, and the check of an entry, are sums
   over sets; each is a Total, of which SumProofs says what one more member adds.         *)

Amounts(L) == MapThenSumSet(LAMBDA x : x.amount, L)
AmountsOf(L) == [x \in L |-> x.amount]

Change(m, w) == (IF m.to = w THEN m.amount ELSE 0) - (IF m.from = w THEN m.amount ELSE 0)
EventsBalance(M, w) == MapThenSumSet(LAMBDA m : Change(m, w), M)
Changes(M, w) == [m \in M |-> Change(m, w)]

LineEffect(e, w) == SumOf({x \in e.lines : x.account = w}, "CREDIT")
                  - SumOf({x \in e.lines : x.account = w}, "DEBIT")
EntriesBalance(J, w) == MapThenSumSet(LAMBDA e : LineEffect(e, w), J)
LineEffects(J, w) == [e \in J |-> LineEffect(e, w)]

LEMMA AmountsIsTotal ==
  ASSUME NEW T, IsFiniteSet(T)
  PROVE  \E g : Totals(g, AmountsOf(T), SUBSET T) /\ Amounts(T) = g[T]
<1> DEFINE Def(g) == [s \in SUBSET T |-> IF s = {} THEN 0 ELSE
                LET x == CHOOSE x \in s : TRUE IN x.amount + g[s \ {x}]]
           iter == CHOOSE g : g = Def(g)
<1>1. Amounts(T) = iter[T]
  BY DEF Amounts, MapThenSumSet, MapThenFoldSet
<1>2. \A g : Totals(g, AmountsOf(T), SUBSET T) <=> g = Def(g)
  <2>1. \A s \in SUBSET T : s # {} => Pick(s) \in T
    BY DEF Pick
  <2> QED
    BY <2>1 DEF Totals, Total, Pick, AmountsOf
<1>3. \E g : g = Def(g)
  <2> HIDE DEF Def
  <2>1. PICK g : Totals(g, AmountsOf(T), SUBSET T)
    BY TotalsExist
  <2> QED
    BY <1>2, <2>1
<1>4. iter = Def(iter)
  BY <1>3
<1> QED
  BY <1>1, <1>2, <1>4

LEMMA EventsIsTotal ==
  ASSUME NEW T, IsFiniteSet(T), NEW w
  PROVE  \E g : Totals(g, Changes(T, w), SUBSET T) /\ EventsBalance(T, w) = g[T]
<1> DEFINE Def(g) == [s \in SUBSET T |-> IF s = {} THEN 0 ELSE
                LET x == CHOOSE x \in s : TRUE IN Change(x, w) + g[s \ {x}]]
           iter == CHOOSE g : g = Def(g)
<1>1. EventsBalance(T, w) = iter[T]
  BY DEF EventsBalance, MapThenSumSet, MapThenFoldSet
<1>2. \A g : Totals(g, Changes(T, w), SUBSET T) <=> g = Def(g)
  <2>1. \A s \in SUBSET T : s # {} => Pick(s) \in T
    BY DEF Pick
  <2> QED
    BY <2>1 DEF Totals, Total, Pick, Changes
<1>3. \E g : g = Def(g)
  <2> HIDE DEF Def
  <2>1. PICK g : Totals(g, Changes(T, w), SUBSET T)
    BY TotalsExist
  <2> QED
    BY <1>2, <2>1
<1>4. iter = Def(iter)
  BY <1>3
<1> QED
  BY <1>1, <1>2, <1>4

LEMMA EntriesIsTotal ==
  ASSUME NEW T, IsFiniteSet(T), NEW w
  PROVE  \E g : Totals(g, LineEffects(T, w), SUBSET T) /\ EntriesBalance(T, w) = g[T]
<1> DEFINE Def(g) == [s \in SUBSET T |-> IF s = {} THEN 0 ELSE
                LET x == CHOOSE x \in s : TRUE IN LineEffect(x, w) + g[s \ {x}]]
           iter == CHOOSE g : g = Def(g)
<1>1. EntriesBalance(T, w) = iter[T]
  BY DEF EntriesBalance, MapThenSumSet, MapThenFoldSet
<1>2. \A g : Totals(g, LineEffects(T, w), SUBSET T) <=> g = Def(g)
  <2>1. \A s \in SUBSET T : s # {} => Pick(s) \in T
    BY DEF Pick
  <2> QED
    BY <2>1 DEF Totals, Total, Pick, LineEffects
<1>3. \E g : g = Def(g)
  <2> HIDE DEF Def
  <2>1. PICK g : Totals(g, LineEffects(T, w), SUBSET T)
    BY TotalsExist
  <2> QED
    BY <1>2, <2>1
<1>4. iter = Def(iter)
  BY <1>3
<1> QED
  BY <1>1, <1>2, <1>4

LEMMA AmountsOfFew ==
  /\ Amounts({}) = 0
  /\ \A x : x.amount \in Int => Amounts({x}) = x.amount
<1>1. PICK h : Totals(h, AmountsOf({}), SUBSET {}) /\ Amounts({}) = h[{}]
  BY AmountsIsTotal, FS_EmptySet
<1>2. h[{}] = 0
  BY <1>1 DEF Totals, Total
<1>3. ASSUME NEW x, x.amount \in Int PROVE Amounts({x}) = x.amount
  <2>1. PICK g : Totals(g, AmountsOf({x}), SUBSET {x}) /\ Amounts({x}) = g[{x}]
    BY AmountsIsTotal, FS_Singleton
  <2>2. Pick({x}) = x /\ {x} \ {x} = {} /\ {x} # {}
    BY DEF Pick
  <2>3. g[{}] = 0 /\ g[{x}] = x.amount + g[{}]
    BY <2>1, <2>2, ZenonT(30) DEF Totals, Total, AmountsOf
  <2> QED
    BY <1>3, <2>1, <2>3
<1> QED
  BY <1>1, <1>2, <1>3

LEMMA SumOfAmounts ==
  ASSUME NEW lines, NEW direction
  PROVE  SumOf(lines, direction) = Amounts({x \in lines : x.direction = direction})
  BY DEF SumOf, Amounts

(* What an entry adds to an account is what its event adds to the wallet. *)
LEMMA EntryMovesTheSame ==
  ASSUME NEW m \in Events, NEW w \in Wallets, NEW e, e.lines = LinesFor(m)
  PROVE  LineEffect(e, w) = Change(m, w) /\ Change(m, w) \in Int
<1> DEFINE credit == [account |-> m.to, direction |-> "CREDIT", amount |-> m.amount]
           debit(a) == [account |-> a, direction |-> "DEBIT", amount |-> m.amount]
           lines == {x \in e.lines : x.account = w}
<1>1. m.amount \in Nat
  BY EventsAssumption
<1>2. {x \in lines : x.direction = "CREDIT"} = IF m.to = w THEN {credit} ELSE {}
  BY DEF LinesFor
<1>3. {x \in lines : x.direction = "DEBIT"} = IF m.from = w THEN {debit(w)} ELSE {}
  BY EventsAssumption DEF LinesFor
<1>4. credit.amount = m.amount /\ debit(w).amount = m.amount /\ m.amount \in Int
  BY <1>1
<1> HIDE DEF lines, credit, debit
<1>5. SumOf(lines, "CREDIT") = IF m.to = w THEN m.amount ELSE 0
  <2>1. SumOf(lines, "CREDIT") = Amounts({x \in lines : x.direction = "CREDIT"})
    BY SumOfAmounts
  <2> QED
    BY <1>2, <1>4, <2>1, AmountsOfFew
<1>6. SumOf(lines, "DEBIT") = IF m.from = w THEN m.amount ELSE 0
  <2>1. SumOf(lines, "DEBIT") = Amounts({x \in lines : x.direction = "DEBIT"})
    BY SumOfAmounts
  <2> QED
    BY <1>3, <1>4, <2>1, AmountsOfFew
<1> QED
  BY <1>1, <1>5, <1>6 DEF LineEffect, Change, lines

LEMMA EventsBalanceGrows ==
  ASSUME NEW M, IsFiniteSet(M), M \subseteq Events, NEW m \in Events, m \notin M, NEW w
  PROVE  /\ EventsBalance(M \cup {m}, w) = EventsBalance(M, w) + Change(m, w)
         /\ EventsBalance(M, w) \in Int
<1>1. IsFiniteSet(M \cup {m})
  BY FS_AddElement
<1>2. PICK h : Totals(h, Changes(M, w), SUBSET M) /\ EventsBalance(M, w) = h[M]
  BY EventsIsTotal
<1>3. PICK g : /\ Totals(g, Changes(M \cup {m}, w), SUBSET (M \cup {m}))
               /\ EventsBalance(M \cup {m}, w) = g[M \cup {m}]
  BY <1>1, EventsIsTotal
<1>4. \A y \in M : Changes(M \cup {m}, w)[y] = Changes(M, w)[y]
  BY DEF Changes
<1>5. \A y \in Events : Change(y, w) \in Int
  BY EventsAssumption DEF Change
<1>6. \A y \in M \cup {m} : Changes(M \cup {m}, w)[y] \in Int
  BY <1>5 DEF Changes
<1>7. g[M \cup {m}] = Changes(M \cup {m}, w)[m] + h[M] /\ h[M] \in Int
  BY <1>2, <1>3, <1>4, <1>6, TotalsGrow
<1> QED
  BY <1>2, <1>3, <1>5, <1>7 DEF Changes

LEMMA EntriesBalanceGrows ==
  ASSUME NEW J, IsFiniteSet(J), NEW e, e \notin J, NEW w,
         \A f \in J \cup {e} : LineEffect(f, w) \in Int
  PROVE  /\ EntriesBalance(J \cup {e}, w) = EntriesBalance(J, w) + LineEffect(e, w)
         /\ EntriesBalance(J, w) \in Int
<1>1. IsFiniteSet(J \cup {e})
  BY FS_AddElement
<1>2. PICK h : Totals(h, LineEffects(J, w), SUBSET J) /\ EntriesBalance(J, w) = h[J]
  BY EntriesIsTotal
<1>3. PICK g : /\ Totals(g, LineEffects(J \cup {e}, w), SUBSET (J \cup {e}))
               /\ EntriesBalance(J \cup {e}, w) = g[J \cup {e}]
  BY <1>1, EntriesIsTotal
<1>4. \A y \in J : LineEffects(J \cup {e}, w)[y] = LineEffects(J, w)[y]
  BY DEF LineEffects
<1>5. \A y \in J \cup {e} : LineEffects(J \cup {e}, w)[y] \in Int
  BY DEF LineEffects
<1>6. g[J \cup {e}] = LineEffects(J \cup {e}, w)[e] + h[J] /\ h[J] \in Int
  BY <1>2, <1>3, <1>4, <1>5, TotalsGrow
<1>7. LineEffects(J \cup {e}, w)[e] = LineEffect(e, w) /\ LineEffect(e, w) \in Int
  BY DEF LineEffects
<1> QED
  BY <1>2, <1>3, <1>6, <1>7

LEMMA NothingBalances ==
  ASSUME NEW w
  PROVE  EventsBalance({}, w) = 0 /\ EntriesBalance({}, w) = 0
<1>1. PICK g : Totals(g, Changes({}, w), SUBSET {}) /\ EventsBalance({}, w) = g[{}]
  BY EventsIsTotal, FS_EmptySet
<1>2. PICK h : Totals(h, LineEffects({}, w), SUBSET {}) /\ EntriesBalance({}, w) = h[{}]
  BY EntriesIsTotal, FS_EmptySet
<1> QED
  BY <1>1, <1>2 DEF Totals, Total

-----------------------------------------------------------------------------
(* The journal, so far, is what the recorded events make of it. *)

RecordedEvents == {m \in Events : Recorded(m)}

FromEvents ==
  \A e \in journal :
    Balanced(e.lines) /\ \E m \in Events : e.eventId = m.id /\ e.lines = LinesFor(m)

BooksInv ==
  /\ IsFiniteSet(journal) /\ IsFiniteSet(RecordedEvents)
  /\ FromEvents
  /\ \A w \in Wallets : EntriesBalance(journal, w) = EventsBalance(RecordedEvents, w)

LEMMA InitBooks == Init => BooksInv
<1> SUFFICES ASSUME Init PROVE BooksInv
  OBVIOUS
<1>1. journal = {} /\ RecordedEvents = {}
  BY DEF Init, RecordedEvents, Recorded
<1> QED
  BY <1>1, FS_EmptySet, NothingBalances DEF BooksInv, FromEvents

(* The COMMIT of c: one more entry, for one more event. *)
LEMMA CommitBooks ==
  ASSUME TypeInv, OnceInv, BooksInv, NEW c \in Consumers, pc[c] = "commit",
         journal' = journal \cup {Entry(c)}, Balanced(inserted[c])
  PROVE  BooksInv'
<1> DEFINE m == Message(c)
           e == Entry(c)
<1>1. m \in Events
  BY DEF TypeInv, InHand, Posting, Events, Message
<1>2. ~Recorded(m) /\ e.eventId = m.id /\ e.lines = LinesFor(m)
  BY DEF OnceInv, PostingAlone, Posting, Entry, TypeInv, InHand
<1>3. Balanced(e.lines)
  BY DEF Entry
<1> HIDE DEF m, e
<1>4. e \notin journal /\ m \notin RecordedEvents /\ RecordedEvents \subseteq Events
  BY <1>2 DEF Recorded, RecordedEvents
<1>5. RecordedEvents' = RecordedEvents \cup {m}
  <2>1. \A n \in Events : Recorded(n)' <=> Recorded(n) \/ n.id = m.id
    BY <1>2 DEF Recorded, e
  <2>2. \A n \in Events : n.id = m.id <=> n = m
    BY <1>1, EventsAssumption
  <2> QED
    BY <1>1, <2>1, <2>2 DEF RecordedEvents
<1>6. IsFiniteSet(journal') /\ IsFiniteSet(RecordedEvents')
  BY <1>5, FS_AddElement DEF BooksInv, e
<1>7. FromEvents'
  BY <1>1, <1>2, <1>3 DEF BooksInv, FromEvents, e
<1>8. ASSUME NEW w \in Wallets
      PROVE  EntriesBalance(journal', w) = EventsBalance(RecordedEvents', w)
  <2>1. LineEffect(e, w) = Change(m, w) /\ Change(m, w) \in Int
    BY <1>1, <1>2, EntryMovesTheSame
  <2>2. \A f \in journal : LineEffect(f, w) \in Int
    BY EntryMovesTheSame DEF BooksInv, FromEvents
  <2>3. EntriesBalance(journal \cup {e}, w) = EntriesBalance(journal, w) + LineEffect(e, w)
    BY <1>4, <2>1, <2>2, EntriesBalanceGrows DEF BooksInv
  <2>4. EventsBalance(RecordedEvents \cup {m}, w) = EventsBalance(RecordedEvents, w) + Change(m, w)
    BY <1>1, <1>4, EventsBalanceGrows DEF BooksInv
  <2>5. EntriesBalance(journal, w) = EventsBalance(RecordedEvents, w)
    BY DEF BooksInv
  <2>6. journal' = journal \cup {e}
    BY DEF e
  <2> QED
    BY <1>5, <2>1, <2>3, <2>4, <2>5, <2>6
<1> QED
  BY <1>6, <1>7, <1>8 DEF BooksInv

LEMMA BooksStep == TypeInv /\ OnceInv /\ BooksInv /\ [Next]_vars => BooksInv'
<1> SUFFICES ASSUME TypeInv, OnceInv, BooksInv, [Next]_vars PROVE BooksInv'
  OBVIOUS
<1>1. CASE journal' = journal
  <2>1. RecordedEvents' = RecordedEvents
    BY <1>1 DEF RecordedEvents, Recorded
  <2> QED
    BY <1>1, <2>1 DEF BooksInv, FromEvents
<1> QED
  BY <1>1, CommitBooks, NextCases, StepJournal

LEMMA BooksBalance == TypeInv /\ BehindInv /\ BooksInv => Reconciles
<1> SUFFICES ASSUME TypeInv, BehindInv, BooksInv PROVE Reconciles
  OBVIOUS
<1>1. EntriesWhole
  <2> SUFFICES ASSUME NEW e \in journal PROVE Cardinality(e.lines) = 2 /\ Balanced(e.lines)
    BY DEF EntriesWhole
  <2>1. PICK m \in Events : e.lines = LinesFor(m)
    BY DEF BooksInv, FromEvents
  <2>2. \E x, y : x # y /\ e.lines = {x, y}
    <3>1. \A a, b, n : [account |-> a, direction |-> "DEBIT", amount |-> n]
                         # [account |-> b, direction |-> "CREDIT", amount |-> n]
      OBVIOUS
    <3> QED
      BY <2>1, <3>1 DEF LinesFor
  <2>3. PICK x, y : x # y /\ e.lines = {x} \cup {y}
    BY <2>2
  <2>4. IsFiniteSet({x}) /\ Cardinality({x}) = 1
    BY FS_Singleton
  <2>5. Cardinality({x} \cup {y}) = Cardinality({x}) + 1
    BY <2>3, <2>4, FS_AddElement
  <2>6. Cardinality(e.lines) = 2
    BY <2>3, <2>4, <2>5
  <2>7. Balanced(e.lines)
    BY DEF BooksInv, FromEvents
  <2> QED
    BY <2>6, <2>7
<1>2. ASSUME \A l \in Lanes : committed[l] = Len(Log[l]), NEW w \in Wallets
      PROVE  JournalBalance(w) = WalletBalance(w)
  <2>1. RecordedEvents = Events
    <3> SUFFICES ASSUME NEW m \in Events PROVE Recorded(m)
      BY DEF RecordedEvents
    <3>1. PICK l \in Lanes : \E n \in 1..Len(Log[l]) : m = Log[l][n] /\ m.form = "valid"
      BY DEF Events
    <3> QED
      BY <1>2, <3>1 DEF BehindInv, AllDone, Done
  <2>2. JournalBalance(w) = EntriesBalance(journal, w)
    BY DEF JournalBalance, EntriesBalance, LineEffect
  <2>3. WalletBalance(w) = EventsBalance(Events, w)
    BY DEF WalletBalance, EventsBalance, Change
  <2> QED
    BY <2>1, <2>2, <2>3 DEF BooksInv
<1> QED
  BY <1>1, <1>2 DEF Reconciles

(* reconcile.sql finds nothing: every entry has both of its lines and balances, and when
   every offset has reached the end, each wallet's account is what the wallet's events
   add up to, however often and in whatever order they were delivered.                  *)
THEOREM LedgerReconciles == Spec => []Reconciles
  BY BooksBalance, InitType, TypeStep, InitOnce, OnceStep, InitBehind, BehindStep,
     InitBooks, BooksStep, PTL DEF Spec
==============================================================================
