----------------------------- MODULE FraudWorker -----------------------------
(***************************************************************************)
(* The fraud service's Kafka side: pods of the group "fraud" fetch batches *)
(* of transfers, evaluate the rules, send the alerts that have no dedupe   *)
(* key yet, set the key, and commit.                                       *)
(*                                                                         *)
(* commit() without arguments commits, for every lane of the consumer, the *)
(* position of what getmany has returned. An exception that handle raises  *)
(* is caught and retried; one from getmany, commit or to_dlq ends the      *)
(* background task.                                                        *)
(***************************************************************************)
EXTENDS ConsumerGroup, FiniteSets, SequencesExt

CONSTANTS
  MaxFaults,      \* bound: crashes, stops and calls whose failure ends the task
  MaxRetried,     \* bound: calls whose failure is retried
  MaxRebalances   \* bound

Records == UNION {{<<l, n>> : n \in 1..Len(Log[l])} : l \in Lanes}
MessageAt(r) == Log[r[1]][r[2]]
Valid(r) == MessageAt(r).form = "valid"

(* A message: form says what parse makes of it, large whether large_amount, which only
   valid ones get to, flags it.                                                       *)
ASSUME FraudAssumption ==
  /\ MaxFaults \in Nat /\ MaxRetried \in Nat /\ MaxRebalances \in Nat
  /\ IsFiniteSet(Records)
  /\ \A r \in Records :
       /\ MessageAt(r).form \in {"valid", "malformed"}
       /\ MessageAt(r).large \in BOOLEAN
       /\ MessageAt(r).large => Valid(r)

(* The copies of an event have its wallet for their key, and so are in one partition. *)
ASSUME KeyAssumption ==
  \A r, q \in Records :
    Valid(r) /\ Valid(q) /\ MessageAt(r).id = MessageAt(q).id => r[1] = q[1]

VARIABLES
  task,       \* pod -> its background task: connecting, running, ended or dead
  started,    \* pod -> the flag behind the kafka-consumer readiness check
  stopping,   \* pod -> stop was called
  pc,         \* pod -> where run() is
  batch,      \* pod -> records <<lane, offset>> it has fetched and not handled
  out,        \* pod -> rules whose alerts it has still to raise for the first of these
  alerts,     \* history: <<event, rule>> -> how often it is in fraud.alerts
  alerted,    \* Redis: dedupe keys <<event, rule>>
  handled,    \* history: records that handle_with_retry has returned True for
  dlq,        \* records sent to the .dlq topic
  faults, retried, rebalances

worker == <<task, started, stopping>>
counters == <<faults, retried, rebalances>>
vars == <<group, position, worker, pc, batch, out, alerts, alerted, handled, dlq, counters>>

Rules == {"LARGE_AMOUNT", "VELOCITY"}
Events == {MessageAt(r).id : r \in Records}

Init ==
  /\ GroupInit
  /\ task = [c \in Consumers |-> "connecting"]
  /\ started = [c \in Consumers |-> FALSE]
  /\ stopping = [c \in Consumers |-> FALSE]
  /\ pc = [c \in Consumers |-> "idle"]
  /\ batch = [c \in Consumers |-> <<>>]
  /\ out = [c \in Consumers |-> <<>>]
  /\ alerts = [a \in Events \X Rules |-> 0]
  /\ alerted = {}
  /\ handled = {}
  /\ dlq = {}
  /\ faults = 0 /\ retried = 0 /\ rebalances = 0

Fault == faults < MaxFaults /\ faults' = faults + 1 /\ UNCHANGED <<retried, rebalances>>
Retried == retried < MaxRetried /\ retried' = retried + 1 /\ UNCHANGED <<faults, rebalances>>

Record(c) == Head(batch[c])
Event(c) == MessageAt(Record(c)).id
At(c, label) == task[c] = "running" /\ pc[c] = label

Goto(c, label, rules) ==
  /\ pc' = [pc EXCEPT ![c] = label]
  /\ out' = [out EXCEPT ![c] = rules]

Rebalance(l, c) ==
  /\ GiveAway(l, c)
  /\ rebalances < MaxRebalances /\ rebalances' = rebalances + 1
  /\ UNCHANGED <<worker, pc, batch, out, alerts, alerted, handled, dlq, faults, retried>>

-----------------------------------------------------------------------------
(* connect_and_run, run *)

(* Attempts that fail are repeated; this one succeeds. *)
Connect(c) ==
  /\ task[c] = "connecting"
  /\ IF stopping[c] THEN task' = [task EXCEPT ![c] = "ended"] /\ started' = started
                    ELSE /\ task' = [task EXCEPT ![c] = "running"]
                         /\ started' = [started EXCEPT ![c] = TRUE]
  /\ UNCHANGED <<group, position, stopping, pc, batch, out, alerts, alerted, handled, dlq, counters>>

(* The consumer's coordinator works in the background, whatever the task is doing. *)
Poll(c, l) ==
  /\ task[c] \in {"running", "dead"}
  /\ Learn(c, l)
  /\ UNCHANGED <<worker, pc, batch, out, alerts, alerted, handled, dlq, counters>>

(* The records that take c from its positions to those of upTo. *)
Fetched(c, upTo) == {r \in Records : position[c][r[1]] < r[2] /\ r[2] <= upTo[r[1]]}

(* The orders in which getmany hands out the records of S: those of one lane after those of
   another, each lane's by offset.                                                       *)
Batches(S) ==
  {s \in [1..Cardinality(S) -> S] :
     /\ \A r \in S : Contains(s, r)
     /\ \A i, j \in DOMAIN s : i < j /\ s[i][1] = s[j][1] =>
          s[i][2] < s[j][2] /\ \A k \in i..j : s[k][1] = s[i][1]}

(* getmany: some of what there is in the lanes of c. *)
GetMany(c) ==
  /\ At(c, "idle") /\ ~stopping[c]
  /\ \E upTo \in [Lanes -> UNION {0..Len(Log[l]) : l \in Lanes}] :
       /\ \A l \in Lanes :
            upTo[l] \in position[c][l]..(IF HasNext(c, l) THEN Len(Log[l]) ELSE position[c][l])
       /\ Fetched(c, upTo) # {}
       /\ \E s \in Batches(Fetched(c, upTo)) : batch' = [batch EXCEPT ![c] = s]
       /\ position' = [position EXCEPT ![c] = upTo]
  /\ Goto(c, "handle", <<>>)
  /\ UNCHANGED <<group, worker, alerts, alerted, handled, dlq, counters>>

(* while not self.stopping, seen between two batches only: the task ends, stop closes the
   consumer, and the process is replaced by a new one.                                  *)
End(c) ==
  /\ task[c] = "running" /\ pc[c] = "idle" /\ stopping[c]
  /\ task' = [task EXCEPT ![c] = "ended"]
  /\ UNCHANGED <<group, position, started, stopping, pc, batch, out, alerts, alerted, handled, dlq, counters>>

-----------------------------------------------------------------------------
(* handle_with_retry, handle *)

(* parse, and evaluate: large_amount depends on the event only, velocity on what else
   Redis knows when it is asked (FraudVelocity).                                     *)
Handle(c) ==
  /\ At(c, "handle")
  /\ IF ~Valid(Record(c)) THEN Goto(c, "dlq", <<>>)
     ELSE \E velocity \in BOOLEAN :
            Goto(c, "alert", (IF MessageAt(Record(c)).large THEN <<"LARGE_AMOUNT">> ELSE <<>>)
                             \o (IF velocity THEN <<"VELOCITY">> ELSE <<>>))
  /\ UNCHANGED <<group, position, worker, batch, alerts, alerted, handled, dlq, counters>>

(* handle_with_retry returns True. *)
Return(c) ==
  /\ Goto(c, "commit", <<>>)
  /\ handled' = handled \cup {Record(c)}

(* A mutant: EXISTS is not asked. *)
AlertNoDedupe(c) ==
  /\ At(c, "alert")
  /\ IF out[c] = <<>> THEN Return(c) ELSE Goto(c, "send", out[c]) /\ handled' = handled
  /\ UNCHANGED <<group, position, worker, batch, alerts, alerted, dlq, counters>>

(* EXISTS of the dedupe key, for the next alert. *)
Alert(c) ==
  /\ At(c, "alert")
  /\ IF out[c] = <<>> THEN Return(c)
     ELSE /\ IF <<Event(c), Head(out[c])>> \in alerted
               THEN Goto(c, "alert", Tail(out[c]))
               ELSE Goto(c, "send", out[c])
          /\ handled' = handled
  /\ UNCHANGED <<group, position, worker, batch, alerts, alerted, dlq, counters>>

SendAlert(c) ==
  /\ At(c, "send")
  /\ alerts' = [alerts EXCEPT ![<<Event(c), Head(out[c])>>] = @ + 1]
  /\ Goto(c, "setKey", out[c])
  /\ UNCHANGED <<group, position, worker, batch, alerted, handled, dlq, counters>>

SetKey(c) ==
  /\ At(c, "setKey")
  /\ alerted' = alerted \cup {<<Event(c), Head(out[c])>>}
  /\ Goto(c, "alert", Tail(out[c]))
  /\ UNCHANGED <<group, position, worker, batch, alerts, handled, dlq, counters>>

(* A mutant: handle_with_retry gives up. *)
HandleFailsOnce(c) ==
  /\ At(c, "handle") \/ At(c, "alert") \/ At(c, "send") \/ At(c, "setKey")
  /\ Retried
  /\ Return(c)
  /\ UNCHANGED <<group, position, worker, batch, alerts, alerted, dlq>>

(* Redis or the producer fails inside handle, the call having taken effect or not: the
   whole message is handled again, unless the pod is stopping, which ends the task.   *)
HandleFails(c) ==
  /\ Retried
  /\ \/ (At(c, "handle") \/ At(c, "alert")) /\ UNCHANGED <<alerts, alerted>>
     \/ /\ At(c, "send") /\ alerted' = alerted
        /\ alerts' \in {alerts, [alerts EXCEPT ![<<Event(c), Head(out[c])>>] = @ + 1]}
     \/ /\ At(c, "setKey") /\ alerts' = alerts
        /\ alerted' \in {alerted, alerted \cup {<<Event(c), Head(out[c])>>}}
  /\ IF stopping[c]
       THEN task' = [task EXCEPT ![c] = "ended"] /\ UNCHANGED <<pc, out>>
       ELSE task' = task /\ Goto(c, "handle", <<>>)
  /\ UNCHANGED <<group, position, started, stopping, batch, handled, dlq>>

(* to_dlq *)
ToDlq(c) ==
  /\ At(c, "dlq")
  /\ dlq' = dlq \cup {Record(c)}
  /\ Return(c)
  /\ UNCHANGED <<group, position, worker, batch, alerts, alerted, counters>>

(* A mutant: one message of a batch is handled, and getmany is called again. *)
CommitDropsRest(c) ==
  /\ At(c, "commit")
  /\ committed' = [l \in Lanes |-> IF MayCommit(c, l) THEN position[c][l] ELSE committed[l]]
  /\ batch' = [batch EXCEPT ![c] = <<>>]
  /\ Goto(c, "idle", <<>>)
  /\ UNCHANGED <<assigned, generation, claim, position, worker, alerts, alerted, handled, dlq, counters>>

(* commit(): the position of every lane that is still the consumer's. *)
Commit(c) ==
  /\ At(c, "commit")
  /\ committed' = [l \in Lanes |-> IF MayCommit(c, l) THEN position[c][l] ELSE committed[l]]
  /\ batch' = [batch EXCEPT ![c] = Tail(@)]
  /\ Goto(c, IF Len(batch[c]) = 1 THEN "idle" ELSE "handle", <<>>)
  /\ UNCHANGED <<assigned, generation, claim, position, worker, alerts, alerted, handled, dlq, counters>>

(* getmany, to_dlq or commit raises: nothing catches it. *)
TaskDies(c) ==
  /\ At(c, "idle") \/ At(c, "dlq") \/ At(c, "commit")
  /\ Fault
  /\ task' = [task EXCEPT ![c] = "dead"]
  /\ UNCHANGED <<group, position, started, stopping, pc, batch, out, alerts, alerted, handled, dlq>>

-----------------------------------------------------------------------------
(* SIGTERM: the shutdown half of lifespan calls stop. *)
Stop(c) ==
  /\ ~stopping[c]
  /\ Fault
  /\ stopping' = [stopping EXCEPT ![c] = TRUE]
  /\ UNCHANGED <<group, position, task, started, pc, batch, out, alerts, alerted, handled, dlq>>

(* A new process in the place of one that has stopped, or of one that crashes now. *)
Restart(c) ==
  /\ \/ task[c] = "ended" /\ UNCHANGED counters
     \/ Fault
  /\ task' = [task EXCEPT ![c] = "connecting"]
  /\ started' = [started EXCEPT ![c] = FALSE]
  /\ stopping' = [stopping EXCEPT ![c] = FALSE]
  /\ batch' = [batch EXCEPT ![c] = <<>>]
  /\ Goto(c, "idle", <<>>)
  /\ Forget(c)
  /\ UNCHANGED <<alerts, alerted, handled, dlq>>

Run(c) ==
  \/ Connect(c) \/ GetMany(c) \/ End(c) \/ Handle(c) \/ Alert(c) \/ SendAlert(c) \/ SetKey(c)
  \/ ToDlq(c) \/ Commit(c)

Next ==
  \/ \E c \in Consumers :
       \/ Run(c) \/ HandleFails(c) \/ TaskDies(c) \/ Stop(c) \/ Restart(c)
       \/ \E l \in Lanes : Poll(c, l) \/ Rebalance(l, c)

Spec == Init /\ [][Next]_vars

-----------------------------------------------------------------------------
(* An alert is raised again only because something failed or moved in between: a retry,
   a crash, or a zombie that is at the same event.                                     *)
RaisedAgainOnlyAfterFault ==
  \A a \in Events \X Rules : alerts[a] <= 1 + retried + faults + rebalances

(* "Redis outage loses nothing": a large transfer that the worker is done with has been
   alerted, however often handle was begun again, by this pod or by the next.          *)
LargeIsAlerted ==
  \A r \in handled : MessageAt(r).large => alerts[<<MessageAt(r).id, "LARGE_AMOUNT">>] > 0

(* Between the first commit of a batch and the last, committed offsets are ahead of what
   has been handled; but the rest is in the pod's hands, and only a crash, a stop or a
   rebalance in that time (or an exception that ends the task) skips it.               *)
SkippedOnlyAfterFault ==
  faults = 0 /\ rebalances = 0 =>
    \A r \in Records : r[2] <= committed[r[1]] =>
      r \in handled \/ \E c \in Consumers : task[c] = "running" /\ Contains(batch[c], r)
==============================================================================
