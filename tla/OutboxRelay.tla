----------------------------- MODULE OutboxRelay -----------------------------
(***************************************************************************)
(* The outbox relay of the wallet pods: publishBatch locks unsent rows,    *)
(* hands them to the Kafka writer, marks them sent and commits; the loop   *)
(* repeats that until Stop; housekeeping deletes old sent rows.            *)
(*                                                                         *)
(* The kafka-go writer splits a batch by topic partition (a lane) and      *)
(* writes each lane from a queue of its own, in order. WriteMessages waits *)
(* for the lanes' answers or for its own 15s timeout; what it has queued   *)
(* may still be written after that timeout.                                *)
(***************************************************************************)
EXTENDS Integers, Sequences, FiniteSets

CONSTANTS
  Pods,        \* wallet pods, each running one relay
  Rows,        \* outbox ids
  KeyOf,       \* row -> message_key, a wallet
  LaneOf,      \* row -> the topic partition the hash of its key selects
  BatchSize,   \* OUTBOX_BATCH_SIZE
  MaxFaults    \* bound: how often something may fail in a behaviour

Lanes == {LaneOf[i] : i \in Rows}

ASSUME RelayAssumption ==
  /\ Rows \subseteq Nat /\ IsFiniteSet(Rows)
  /\ DOMAIN KeyOf = Rows /\ DOMAIN LaneOf = Rows
  /\ BatchSize \in Nat \ {0} /\ MaxFaults \in Nat

VARIABLES
  status,     \* row -> none, pending (published_at IS NULL), published, deleted
  log,        \* lane -> the rows in that topic partition, oldest first
  pc,         \* pod -> where its loop is
  batch,      \* pod -> the rows of the batch it works on
  txOpen,     \* pod -> its database transaction, with its row locks, is alive
  queue,      \* pod -> lane -> what its Kafka writer has still to write
  awaited,    \* pod -> lanes WriteMessages waits for
  writeErr,   \* pod -> some lane has given up in this WriteMessages
  stopping,   \* pod -> Stop was called
  faults      \* history: how often something has failed so far

vars == <<status, log, pc, batch, txOpen, queue, awaited, writeErr, stopping, faults>>

Status == {"none", "pending", "published", "deleted"}

(* idle: between batches; fetched: rows locked; writing: in WriteMessages;
   mark: about to UPDATE and COMMIT; stopped: the loop has returned.          *)
PC == {"idle", "fetched", "writing", "mark", "stopped"}

Init ==
  /\ status = [i \in Rows |-> "none"]
  /\ log = [l \in Lanes |-> <<>>]
  /\ pc = [p \in Pods |-> "idle"]
  /\ batch = [p \in Pods |-> {}]
  /\ txOpen = [p \in Pods |-> FALSE]
  /\ queue = [p \in Pods |-> [l \in Lanes |-> <<>>]]
  /\ awaited = [p \in Pods |-> {}]
  /\ writeErr = [p \in Pods |-> FALSE]
  /\ stopping = [p \in Pods |-> FALSE]
  /\ faults = 0

Fault == faults < MaxFaults /\ faults' = faults + 1

(* A money transaction commits its outbox row. Those of one wallet commit in the
   order of their ids (WalletStore!OutboxOrderPerWallet); others in any order.   *)
Insert(i) ==
  /\ status[i] = "none"
  /\ \A j \in Rows : j < i /\ KeyOf[j] = KeyOf[i] => status[j] # "none"
  /\ status' = [status EXCEPT ![i] = "pending"]
  /\ UNCHANGED <<log, pc, batch, txOpen, queue, awaited, writeErr, stopping, faults>>

-----------------------------------------------------------------------------
Locked == UNION {batch[p] : p \in {q \in Pods : txOpen[q]}}

(* Rows that FOR UPDATE SKIP LOCKED may return. *)
Free == {i \in Rows : status[i] = "pending"} \ Locked

(* A mutant: no ORDER BY, any rows up to the limit. *)
Unordered(S) == {T \in SUBSET S : T # {} /\ Cardinality(T) <= BatchSize}

(* How many rows of S come before row i in ORDER BY id. *)
Rank(S, i) == Cardinality({j \in S : j < i})

(* ORDER BY id LIMIT $1: the only set the query may return. *)
FirstOf(S) == {{i \in S : Rank(S, i) < BatchSize}}

(* The SELECT of publishBatch. An empty result is committed and slept on. *)
Fetch(p) ==
  /\ pc[p] = "idle"
  /\ ~stopping[p]
  /\ Free # {}
  /\ \E rows \in FirstOf(Free) : batch' = [batch EXCEPT ![p] = rows]
  /\ txOpen' = [txOpen EXCEPT ![p] = TRUE]
  /\ pc' = [pc EXCEPT ![p] = "fetched"]
  /\ UNCHANGED <<status, log, queue, awaited, writeErr, stopping, faults>>

(* The rows of S as the query lists them. *)
InOrder(S) == [n \in 1..Cardinality(S) |-> CHOOSE i \in S : Rank(S, i) = n - 1]

(* The part of a batch that goes to lane l, in the order of the batch. *)
MessagesFor(p, l) == InOrder({i \in batch[p] : LaneOf[i] = l})

(* WriteMessages queues one write per lane of the batch. *)
WriteMessages(p) ==
  /\ pc[p] = "fetched"
  /\ LET lanes == {LaneOf[i] : i \in batch[p]} IN
       /\ awaited' = [awaited EXCEPT ![p] = lanes]
       /\ queue' = [queue EXCEPT ![p] = [l \in Lanes |->
            IF l \in lanes THEN Append(queue[p][l], MessagesFor(p, l)) ELSE queue[p][l]]]
  /\ writeErr' = [writeErr EXCEPT ![p] = FALSE]
  /\ pc' = [pc EXCEPT ![p] = "writing"]
  /\ UNCHANGED <<status, log, batch, txOpen, stopping, faults>>

(* Lane l of p's writer is done with its oldest write; if that one belongs to the
   WriteMessages in progress, its caller need not wait for it any more.         *)
Dequeue(p, l) ==
  /\ queue' = [queue EXCEPT ![p][l] = Tail(@)]
  /\ awaited' = [awaited EXCEPT ![p] = IF Len(queue[p][l]) = 1 THEN @ \ {l} ELSE @]

(* The brokers append the write and the writer gets their acknowledgement. *)
Produce(p, l) ==
  /\ queue[p][l] # <<>>
  /\ log' = [log EXCEPT ![l] = @ \o Head(queue[p][l])]
  /\ Dequeue(p, l)
  /\ UNCHANGED <<status, pc, batch, txOpen, writeErr, stopping, faults>>

(* The brokers append the write, the acknowledgement is lost: it will be retried. *)
ProduceUnacknowledged(p, l) ==
  /\ queue[p][l] # <<>>
  /\ Fault
  /\ log' = [log EXCEPT ![l] = @ \o Head(queue[p][l])]
  /\ UNCHANGED <<status, pc, batch, txOpen, queue, awaited, writeErr, stopping>>

(* The writer has used up its attempts for the write. *)
GiveUp(p, l) ==
  /\ queue[p][l] # <<>>
  /\ Fault
  /\ Dequeue(p, l)
  /\ writeErr' = [writeErr EXCEPT ![p] = @ \/ (l \in awaited[p] /\ Len(queue[p][l]) = 1)]
  /\ UNCHANGED <<status, log, pc, batch, txOpen, stopping>>

-----------------------------------------------------------------------------
(* publishBatch returns: its transaction is over and the rows are unlocked. *)
Return(p) ==
  /\ pc' = [pc EXCEPT ![p] = "idle"]
  /\ batch' = [batch EXCEPT ![p] = {}]
  /\ txOpen' = [txOpen EXCEPT ![p] = FALSE]
  /\ awaited' = [awaited EXCEPT ![p] = {}]
  /\ writeErr' = [writeErr EXCEPT ![p] = FALSE]

(* A mutant: a failed batch is kept, as if the deferred Rollback were missing. *)
WrittenNoRollback(p) ==
  /\ pc[p] = "writing"
  /\ awaited[p] = {}
  /\ pc' = [pc EXCEPT ![p] = IF writeErr[p] THEN "idle" ELSE "mark"]
  /\ UNCHANGED <<status, log, batch, txOpen, queue, awaited, writeErr, stopping, faults>>

(* WriteMessages has every lane's answer: go on to the UPDATE, or roll back. *)
Written(p) ==
  /\ pc[p] = "writing"
  /\ awaited[p] = {}
  /\ IF writeErr[p]
       THEN Return(p)
       ELSE /\ pc' = [pc EXCEPT ![p] = "mark"]
            /\ UNCHANGED <<batch, txOpen, awaited, writeErr>>
  /\ UNCHANGED <<status, log, queue, stopping, faults>>

(* writeCtx expires; the queued writes stay in the writer's lanes. *)
WriteTimeout(p) ==
  /\ pc[p] = "writing"
  /\ awaited[p] # {}
  /\ Fault
  /\ Return(p)
  /\ UNCHANGED <<status, log, queue, stopping>>

MarkPublished(p) ==
  status' = [i \in Rows |-> IF i \in batch[p] THEN "published" ELSE status[i]]

(* UPDATE ... SET published_at and COMMIT; an error if the transaction is gone. *)
Mark(p) ==
  /\ pc[p] = "mark"
  /\ IF txOpen[p] THEN MarkPublished(p) ELSE status' = status
  /\ Return(p)
  /\ UNCHANGED <<log, queue, stopping, faults>>

(* The UPDATE or the COMMIT fails, or takes effect without the pod learning it. *)
MarkFails(p) ==
  /\ pc[p] = "mark"
  /\ Fault
  /\ status' = status \/ (txOpen[p] /\ MarkPublished(p))
  /\ Return(p)
  /\ UNCHANGED <<log, queue, stopping>>

(* PostgreSQL drops the pod's connection: the transaction rolls back and its rows
   are unlocked while the pod is still busy with the batch.                      *)
LoseTransaction(p) ==
  /\ txOpen[p]
  /\ Fault
  /\ txOpen' = [txOpen EXCEPT ![p] = FALSE]
  /\ UNCHANGED <<status, log, pc, batch, queue, awaited, writeErr, stopping>>

(* The pod is killed and started again: what its writer had queued is gone. *)
Crash(p) ==
  /\ Fault
  /\ Return(p)
  /\ queue' = [queue EXCEPT ![p] = [l \in Lanes |-> <<>>]]
  /\ stopping' = [stopping EXCEPT ![p] = FALSE]
  /\ UNCHANGED <<status, log>>

(* A mutant: the batch runs under the loop's context, so that Stop cancels it. *)
StopCutsBatch(p) ==
  /\ pc[p] # "stopped"
  /\ ~stopping[p]
  /\ stopping' = [stopping EXCEPT ![p] = TRUE]
  /\ Return(p)
  /\ UNCHANGED <<status, log, queue, faults>>

(* SIGTERM, up to relay.Stop's cancel: the loop will not start another batch. *)
Stop(p) ==
  /\ pc[p] # "stopped"
  /\ ~stopping[p]
  /\ stopping' = [stopping EXCEPT ![p] = TRUE]
  /\ UNCHANGED <<status, log, pc, batch, txOpen, queue, awaited, writeErr, faults>>

(* The loop returns, then writer.Close lets the queued writes end. *)
Stopped(p) ==
  /\ pc[p] = "idle"
  /\ stopping[p]
  /\ \A l \in Lanes : queue[p][l] = <<>>
  /\ pc' = [pc EXCEPT ![p] = "stopped"]
  /\ UNCHANGED <<status, log, batch, txOpen, queue, awaited, writeErr, stopping, faults>>

(* Another pod takes the place of the stopped one. *)
Start(p) ==
  /\ pc[p] = "stopped"
  /\ pc' = [pc EXCEPT ![p] = "idle"]
  /\ stopping' = [stopping EXCEPT ![p] = FALSE]
  /\ UNCHANGED <<status, log, batch, txOpen, queue, awaited, writeErr, faults>>

(* A mutant: the DELETE forgets published_at IS NOT NULL. *)
CleanupAnyAge(i) ==
  /\ status[i] \in {"pending", "published"}
  /\ i \notin Locked
  /\ status' = [status EXCEPT ![i] = "deleted"]
  /\ UNCHANGED <<log, pc, batch, txOpen, queue, awaited, writeErr, stopping, faults>>

(* housekeeping's DELETE, for a row that was published OUTBOX_RETENTION ago. *)
Cleanup(i) ==
  /\ status[i] = "published"
  /\ status' = [status EXCEPT ![i] = "deleted"]
  /\ UNCHANGED <<log, pc, batch, txOpen, queue, awaited, writeErr, stopping, faults>>

Next ==
  \/ \E i \in Rows : Insert(i) \/ Cleanup(i)
  \/ \E p \in Pods : \/ Fetch(p) \/ WriteMessages(p) \/ Written(p) \/ WriteTimeout(p)
                     \/ Mark(p) \/ MarkFails(p) \/ LoseTransaction(p) \/ Crash(p)
                     \/ Stop(p) \/ Stopped(p) \/ Start(p)
  \/ \E p \in Pods, l \in Lanes : Produce(p, l) \/ ProduceUnacknowledged(p, l) \/ GiveUp(p, l)

Spec == Init /\ [][Next]_vars

(* A pod keeps running its loop and a stopped pod is replaced; a writer keeps
   writing. Faults may happen but, as each is counted, do not go on for ever;
   the loop is not stopped again and again before it can take a batch.         *)
Fairness ==
  /\ \A p \in Pods :
       /\ SF_vars(Fetch(p))
       /\ WF_vars(WriteMessages(p)) /\ WF_vars(Written(p)) /\ WF_vars(Mark(p))
       /\ WF_vars(Stopped(p)) /\ WF_vars(Start(p))
  /\ \A p \in Pods, l \in Lanes : WF_vars(Produce(p, l))

FairSpec == Spec /\ Fairness

-----------------------------------------------------------------------------
(* Rows, the partitions' logs and the relays keep their types. *)
TypeOK ==
  /\ status \in [Rows -> Status]
  /\ log \in [Lanes -> Seq(Rows)]
  /\ pc \in [Pods -> PC]
  /\ batch \in [Pods -> SUBSET Rows]
  /\ txOpen \in [Pods -> BOOLEAN]
  /\ queue \in [Pods -> [Lanes -> Seq(Seq(Rows))]]
  /\ awaited \in [Pods -> SUBSET Lanes]
  /\ writeErr \in [Pods -> BOOLEAN]
  /\ stopping \in [Pods -> BOOLEAN]
  /\ faults \in 0..MaxFaults

Sent(i) == \E n \in 1..Len(log[LaneOf[i]]) : log[LaneOf[i]][n] = i

(* No event is lost: a row that is marked sent, or deleted, is in Kafka, whatever
   fails between the SELECT, the partial writes, the UPDATE and the COMMIT.       *)
PublishedIsSent == \A i \in Rows : status[i] \in {"published", "deleted"} => Sent(i)

(* Events are sent twice only because something failed: neither several pods
   polling at once nor a graceful Stop in the middle of a batch resends one.      *)
ResentOnlyAfterFault ==
  faults = 0 =>
    \A l \in Lanes : \A m, n \in 1..Len(log[l]) : log[l][m] = log[l][n] => m = n

(* Consumers see the events of one wallet, within a topic, in the order in which
   they happened: before an event first appears, every earlier one has.           *)
OrderPerKey ==
  \A l \in Lanes : \A n \in 1..Len(log[l]) :
    \A i \in Rows :
      LaneOf[i] = l /\ KeyOf[i] = KeyOf[log[l][n]] /\ i < log[l][n] =>
        \E m \in 1..(n - 1) : log[l][m] = i

(* Every recorded event gets to Kafka and is marked, across outages, crashes,
   timeouts and restarts.                                                         *)
EventuallyPublished ==
  \A i \in Rows : status[i] = "pending" ~> status[i] \in {"published", "deleted"}
==============================================================================
