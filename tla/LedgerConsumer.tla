---------------------------- MODULE LedgerConsumer ---------------------------
(***************************************************************************)
(* The ledger service: consumer threads of the group "ledger" read the     *)
(* partitions (lanes) of transfers.completed and wallet.deposited, turn    *)
(* each event into balanced journal lines (LedgerListener) and record it   *)
(* once (JournalService), with the error handling of KafkaErrorConfig.     *)
(***************************************************************************)
EXTENDS ConsumerGroup, FiniteSets, FiniteSetsExt

CONSTANTS
  Wallets,     \* wallet ids
  NoLane,      \* no message in hand
  MaxFaults    \* bound: failures, crashes and rebalances in a behaviour

(* A message: form says what parse, require and amount make of it, and whether
   its transactionId is a uuid. Messages with one id are duplicates.          *)
ASSUME LedgerAssumption ==
  /\ MaxFaults \in Nat
  /\ \A l \in Lanes : \A n \in 1..Len(Log[l]) :
       Log[l][n].form \in {"valid", "malformed", "badReference"}

(* The events that the partitions hold. *)
Events == {m \in UNION {{Log[l][n] : n \in 1..Len(Log[l])} : l \in Lanes} : m.form = "valid"}

(* Every message of an event is a copy of one outbox row, so that duplicates are equal;
   a deposit comes from outside and no wallet has the id of the cash account.           *)
ASSUME EventsAssumption ==
  /\ "external:cash" \notin Wallets
  /\ \A m \in Events :
       /\ m.amount \in Nat
       /\ m.topic = "transfers.completed" \/ m.from \notin Wallets
       /\ \A n \in Events : m.id = n.id => m = n

VARIABLES
  pc,         \* consumer -> statement it runs next
  lane,       \* consumer -> lane of the message in hand
  inserted,   \* consumer -> journal lines its open transaction has inserted
  journal,    \* committed journal entries with their lines
  dlq,        \* messages, as <<lane, offset>>, sent to the .dlq topics
  faults      \* number of faults so far

vars == <<group, position, pc, lane, inserted, journal, dlq, faults>>

Init ==
  /\ GroupInit
  /\ pc = [c \in Consumers |-> "idle"]
  /\ lane = [c \in Consumers |-> NoLane]
  /\ inserted = [c \in Consumers |-> {}]
  /\ journal = {}
  /\ dlq = {}
  /\ faults = 0

Fault == faults < MaxFaults /\ faults' = faults + 1

Offset(c) == position[c][lane[c]] + 1
Message(c) == Log[lane[c]][Offset(c)]

-----------------------------------------------------------------------------
(* The consumer group. *)

Rebalance(l, c) ==
  /\ GiveAway(l, c)
  /\ Fault
  /\ UNCHANGED <<pc, lane, inserted, journal, dlq>>

(* Between records the container polls. *)
Poll(c, l) ==
  /\ pc[c] = "idle"
  /\ Learn(c, l)
  /\ UNCHANGED <<pc, lane, inserted, journal, dlq, faults>>

(* The container commits the offset of what its listener has returned from. *)
CommitOffset(c, l) ==
  /\ CommitPosition(c, l)
  /\ UNCHANGED <<pc, lane, inserted, journal, dlq, faults>>

(* The message in hand is dealt with, or will be fetched again: no transaction is open. *)
PutDown(c) ==
  /\ pc' = [pc EXCEPT ![c] = "idle"]
  /\ lane' = [lane EXCEPT ![c] = NoLane]
  /\ inserted' = [inserted EXCEPT ![c] = {}]

(* The pod dies and is started again; its open transaction rolls back. *)
Crash(c) ==
  /\ Fault
  /\ PutDown(c)
  /\ Forget(c)
  /\ UNCHANGED <<journal, dlq>>

-----------------------------------------------------------------------------
(* One record: onEvent, post, and the error handler. *)

(* The listener, or the recoverer, returns: on to the next record. *)
Advance(c) ==
  /\ PutDown(c)
  /\ position' = [position EXCEPT ![c][lane[c]] = @ + 1]

(* post or the recoverer throws, and the error handler retries: the record is
   handled again after the backoff.                                            *)
HandleAgain(c) == PutDown(c) /\ UNCHANGED position

Continue(c, label) ==
  /\ pc' = [pc EXCEPT ![c] = label]
  /\ UNCHANGED <<lane, position>>

(* parse, require and amount find nothing to throw InvalidEventException for. *)
WellFormed(m) == m.form # "malformed"

(* onEvent up to journal.post. *)
OnEvent(c, l) ==
  /\ pc[c] = "idle"
  /\ HasNext(c, l)
  /\ lane' = [lane EXCEPT ![c] = l]
  /\ pc' = [pc EXCEPT ![c] =
              IF WellFormed(Log[l][position[c][l] + 1]) THEN "insertEntry" ELSE "recover"]
  /\ UNCHANGED <<group, position, inserted, journal, dlq, faults>>

(* A mutant: InvalidEventException is retried like any other exception. *)
RetryInvalid(c) ==
  /\ pc[c] = "recover"
  /\ HandleAgain(c)
  /\ UNCHANGED <<group, journal, dlq, faults>>

(* DeadLetterPublishingRecoverer: the message goes to <topic>.dlq. *)
Recover(c) ==
  /\ pc[c] = "recover"
  /\ dlq' = dlq \cup {<<lane[c], Offset(c)>>}
  /\ Advance(c)
  /\ UNCHANGED <<group, journal, faults>>

(* A mutant: a SELECT for the event id, without the UNIQUE constraint to back it. *)
NoOneElseInserts(c) == TRUE

(* No other open transaction has inserted this event_id: ON CONFLICT waits for it. *)
NoConflictPending(c) ==
  \A d \in Consumers \ {c} :
    pc[d] \in {"insertLines", "commit"} => Message(d).id # Message(c).id

Recorded(m) == \E e \in journal : e.eventId = m.id

(* A mutant: debit and credit of a transfer are exchanged. *)
SwappedLines(m) ==
  {[account |-> m.to, direction |-> "DEBIT", amount |-> m.amount],
   [account |-> m.from, direction |-> "CREDIT", amount |-> m.amount]}

(* linesFor *)
LinesFor(m) ==
  IF m.topic = "transfers.completed"
    THEN {[account |-> m.from, direction |-> "DEBIT", amount |-> m.amount],
          [account |-> m.to, direction |-> "CREDIT", amount |-> m.amount]}
    ELSE {[account |-> "external:cash", direction |-> "DEBIT", amount |-> m.amount],
          [account |-> m.to, direction |-> "CREDIT", amount |-> m.amount]}

Entry(c) == [eventId |-> Message(c).id, offset |-> <<c, lane[c], Offset(c)>>,
             lines |-> inserted[c]]

(* A mutant: post is not @Transactional, so that the entry is committed before its lines. *)
InsertEntryAlone(c) ==
  /\ pc[c] = "insertEntry"
  /\ NoConflictPending(c)
  /\ IF Message(c).form = "badReference" THEN HandleAgain(c) /\ journal' = journal
     ELSE IF Recorded(Message(c)) THEN Advance(c) /\ journal' = journal
     ELSE /\ Continue(c, "insertLines")
          /\ journal' = journal \cup {Entry(c)}
          /\ UNCHANGED inserted
  /\ UNCHANGED <<group, dlq, faults>>

(* INSERT ... ON CONFLICT (event_id) DO NOTHING. A recorded event is skipped; the
   cast of a reference that is no uuid fails, which is retried like any error.    *)
InsertEntry(c) ==
  /\ pc[c] = "insertEntry"
  /\ NoConflictPending(c)
  /\ IF Message(c).form = "badReference" THEN HandleAgain(c)
     ELSE IF Recorded(Message(c)) THEN Advance(c)
     ELSE Continue(c, "insertLines") /\ UNCHANGED inserted
  /\ UNCHANGED <<group, journal, dlq, faults>>

(* The INSERT of one more line; the order of the lines makes no difference. *)
InsertLines(c) ==
  /\ pc[c] = "insertLines"
  /\ \E x \in LinesFor(Message(c)) \ inserted[c] :
       inserted' = [inserted EXCEPT ![c] = @ \cup {x}]
  /\ Continue(c, IF inserted'[c] = LinesFor(Message(c)) THEN "commit" ELSE "insertLines")
  /\ UNCHANGED <<group, journal, dlq, faults>>

SumOf(lines, direction) ==
  MapThenSumSet(LAMBDA x : x.amount, {x \in lines : x.direction = direction})

(* check_entry_balanced, which runs at COMMIT. *)
Balanced(lines) == SumOf(lines, "DEBIT") = SumOf(lines, "CREDIT")

(* The COMMIT of post; the trigger's exception is retried like any other. *)
CommitPost(c) ==
  /\ pc[c] = "commit"
  /\ IF Balanced(inserted[c])
       THEN Advance(c) /\ journal' = journal \cup {Entry(c)}
       ELSE HandleAgain(c) /\ journal' = journal
  /\ UNCHANGED <<group, dlq, faults>>

(* The COMMIT takes effect but post throws: the record will be handled again. *)
CommitPostLost(c) ==
  /\ pc[c] = "commit"
  /\ Balanced(inserted[c])
  /\ Fault
  /\ journal' = journal \cup {Entry(c)}
  /\ HandleAgain(c)
  /\ UNCHANGED <<group, dlq>>

(* A mutant: the error handler gives up and moves on. *)
FailSkips(c) ==
  /\ pc[c] # "idle"
  /\ Fault
  /\ Advance(c)
  /\ UNCHANGED <<group, journal, dlq>>

(* PostgreSQL, or the DLQ's broker, fails: the transaction rolls back, the error
   handler backs off and the same record is handled again.                       *)
Fail(c) ==
  /\ pc[c] # "idle"
  /\ Fault
  /\ HandleAgain(c)
  /\ UNCHANGED <<group, journal, dlq>>

Handle(c) ==
  \/ \E l \in Lanes : Poll(c, l) \/ OnEvent(c, l)
  \/ Recover(c) \/ InsertEntry(c) \/ InsertLines(c) \/ CommitPost(c)

Next ==
  \/ \E c \in Consumers : Handle(c) \/ CommitPostLost(c) \/ Fail(c) \/ Crash(c)
  \/ \E c \in Consumers, l \in Lanes : CommitOffset(c, l) \/ Rebalance(l, c)

Spec == Init /\ [][Next]_vars

(* Threads keep polling and handling records, and commit what they have handled;
   faults, being counted, come to an end.                                         *)
Fairness ==
  /\ \A c \in Consumers : WF_vars(Handle(c))
  /\ \A c \in Consumers, l \in Lanes : WF_vars(CommitOffset(c, l))

FairSpec == Spec /\ Fairness

-----------------------------------------------------------------------------
(* Offsets stay within their partitions and every consumer is somewhere in a record. *)
TypeOK ==
  /\ \A l \in Lanes : committed[l] \in 0..Len(Log[l])
  /\ assigned \in [Lanes -> Consumers]
  /\ generation \in [Lanes -> 0..MaxFaults]
  /\ claim \in [Consumers -> [Lanes -> -1..MaxFaults]]
  /\ \A c \in Consumers, l \in Lanes : position[c][l] \in 0..Len(Log[l])
  /\ pc \in [Consumers -> {"idle", "recover", "insertEntry", "insertLines", "commit"}]
  /\ lane \in [Consumers -> Lanes \cup {NoLane}]
  /\ inserted \in [Consumers -> SUBSET UNION {LinesFor(m) : m \in Events}]
  /\ dlq \subseteq {<<l, n>> : l \in Lanes, n \in 1..Max({Len(Log[k]) : k \in Lanes})}
  /\ faults \in 0..MaxFaults

(* Redelivery, zombies and two lanes with the same event notwithstanding, one event
   has at most one journal entry.                                                   *)
RecordedOnce == \A e, f \in journal : e.eventId = f.eventId => e = f

(* An entry is whole: a crash or an error between the INSERTs of post never leaves an
   entry that has only some of its lines, so debits equal credits.                   *)
EntriesWhole ==
  \A e \in journal : Cardinality(e.lines) = 2 /\ Balanced(e.lines)

(* "The offset is not committed, so nothing is lost": a committed offset has only
   recorded events and dead-lettered bad messages behind it, and a real transfer
   never ends up in the dead-letter topic.                                         *)
NothingSkipped ==
  /\ \A l \in Lanes : \A n \in 1..committed[l] :
       IF Log[l][n].form = "valid" THEN Recorded(Log[l][n]) ELSE <<l, n>> \in dlq
  /\ \A d \in dlq : Log[d[1]][d[2]].form # "valid"

(* account_balances: credits minus debits of a wallet's account. *)
JournalBalance(w) ==
  MapThenSumSet(
    LAMBDA e : SumOf({x \in e.lines : x.account = w}, "CREDIT")
             - SumOf({x \in e.lines : x.account = w}, "DEBIT"),
    journal)

(* What the wallet service's balances are when its events are these. *)
WalletBalance(w) ==
  MapThenSumSet(
    LAMBDA m : (IF m.to = w THEN m.amount ELSE 0) - (IF m.from = w THEN m.amount ELSE 0),
    Events)

(* reconcile.sql: every entry is whole, and once consumer lag is zero, the ledger and the
   wallets agree.                                                                        *)
Reconciles ==
  /\ EntriesWhole
  /\ (\A l \in Lanes : committed[l] = Len(Log[l])) =>
       \A w \in Wallets : JournalBalance(w) = WalletBalance(w)

(* Consumer lag reaches zero: no message, however it fails, blocks its partition. *)
LagReachesZero == <>[](\A l \in Lanes : committed[l] = Len(Log[l]))
==============================================================================
