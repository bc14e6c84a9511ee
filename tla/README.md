# wallet-ledger in TLA+

Specifications, model checks and machine-checked proofs for the wallet-ledger
system: a wallet service that moves money in PostgreSQL and records events in an
outbox, a relay that publishes them to Kafka, and the services that consume them.
Paths below are relative to the repository (`src/`).

## 1. Inventory

| Component | State | Operations | Interacts with |
|---|---|---|---|
| wallet store and gRPC handlers (`services/wallet/store.go`, `server.go`, `db/migrations/V2__wallet.sql`) | tables `wallets`, `transactions`, `outbox`; per call: the rows it has read, its attempt | CreateWallet, Deposit, Transfer (with `withRetries`), GetWallet, GetTransaction | called by the gateway over gRPC; PostgreSQL; its outbox rows are read by the relay |
| outbox relay (`services/wallet/outbox.go`, `main.go`) | per pod: loop, open batch, Kafka writer queues | publishBatch, Stop, housekeeping | `outbox` table, Kafka topics `transfers.completed` and `wallet.deposited` |
| ledger (`services/ledger`, `V3__ledger.sql`) | `journal_entries`, `journal_lines`; group offsets; dead-letter topics | onEvent, post, error handler | consumes both topics, group `ledger` |
| reconciliation (`scripts/reconcile.sql`) | none | compares wallets with the journal | wallet and ledger schemas |
| notification (`services/notification/src/index.js`) | per pod: sockets, `consuming`, `stopping`; Redis `notif:seen:*` | handle, fan-out, heartbeat, startConsumer, shutdown | consumes three topics, Redis pub/sub, WebSockets |
| fraud (`services/fraud/app`) | per pod: consumer, `started`, `stopping`; Redis `fraud:velocity:*`, `fraud:alerted:*` | run, handle_with_retry, handle, rules, stop | consumes `transfers.completed`, produces `fraud.alerts` |
| gateway (`services/gateway`) | `auth.users`; Redis `rl:*` counters | register, login, getMyWallet, deposit, transfer, getTransfer, limit | clients; wallet gRPC |
| platform (`internal/platform`, `ops.js`) | draining flag, checks | readyz, BeginShutdown | every service |

What makes each correct, and what is hard about it:

* **Wallet store.** Money moves at most once per (user, idempotency key), balances
  are what the transactions add up to, no event without money and no money without
  event, no deadlock, truthful answers. Hard: several pods interleave between the
  reads, the versioned UPDATEs, the INSERTs and the COMMIT; COMMIT answers get lost;
  retries are limited; columns have widths.
* **Relay.** No event is lost, every event is sent in the end, a wallet's events
  stay in order. Hard: batches succeed in part, time out while still queued, crash
  between Kafka and COMMIT; several pods poll at once.
* **Ledger.** Each event recorded once and whole, nothing skipped, only bad messages
  dead-lettered, agreement with the wallets, no message that blocks a partition.
  Hard: resends, redelivery, rebalances with two consumers on one record, crashes
  between two INSERTs, errors that look temporary and are not.
* **Notification.** Every open WebSocket of an addressed user gets the event, on
  whichever pod; nothing is published twice, lost or dead-lettered wrongly. Hard: the
  dedupe key and the PUBLISHes are separate calls, any of which may fail or be sent
  again; partitions move; shutdown meets a consumer that is still connecting.
* **Fraud.** No large transfer goes unnoticed, alerts are raised once, the velocity
  window counts the real rate. Hard: one `commit()` for a batch, a background task that
  can end on its own, a window in event time that expires in Redis's time.
* **Gateway.** One account per email, one wallet per account though the two are written
  by two services, statuses that are true of the money, one shared budget per client.
  Hard: calls that are given up still take effect; several pods, each with its clock.
* **Shutdown.** Nothing refused, nothing cut, gone before SIGKILL. Hard: four clocks.

## 2. Modules

| Module | Models | Kind |
|---|---|---|
| `WalletTypes` | calls, rows, events, answers, validation | shared definitions |
| `AtomicWallet` | what the wallet service promises: each call one atomic step | abstract specification |
| `WalletStore` | the wallet service, one action per SQL statement | detailed specification |
| `WalletStoreProofs` | theorems about `WalletStore` | proofs |
| `OutboxRelay` | relay pods, Kafka writer queues, partitions | specification |
| `ConsumerGroup` | Kafka's consumer group: rebalances, generations, offset commits | shared definitions |
| `LedgerConsumer` | listener, journal, error handler; extends `ConsumerGroup` | specification |
| `Notification` | handle, Redis fan-out, WebSockets; extends `ConsumerGroup` | specification |
| `Pod` | what the shutdowns of all pods share: stages, forced exit, grace period | shared definitions |
| `NotificationPod` | startConsumer, heartbeat, readiness flag, shutdown of one pod; extends `Pod` | specification |
| `FraudWorker` | the fraud worker's task; extends `ConsumerGroup` | specification |
| `FraudVelocity` | the velocity rule's sorted set | specification |
| `Gateway` | the HTTP API over an instance of `AtomicWallet` | composition |
| `RateLimiter` | the fixed-window limiter on several pods | specification |
| `PodShutdown` | readiness and staged shutdown of a gateway or wallet pod; extends `Pod` | specification |
| `RelayProofs`, `LedgerProofs`, `NotificationProofs`, `FraudProofs`, `GatewayProofs`, `PodProofs` | theorems about `OutboxRelay`; `LedgerConsumer`; `Notification`; `FraudWorker` and `FraudVelocity`; `Gateway` and `RateLimiter`; `PodShutdown` and `NotificationPod` | proofs |
| `SumProofs` | lemmas about sums over finite sets | proofs |
| `MCWalletStore`, `MCOutboxRelay`, `MCLedgerConsumer`, `MCGateway`, `MCNotification`, `MCFraud`, `MCPods` | instances for TLC | model checking |

`MCGateway` (`Gateway`, `RateLimiter`), `MCFraud` (`FraudWorker`, `FraudVelocity`) and `MCPods`
(`PodShutdown`, `NotificationPod`) each hold two specifications that share no state. An
initial choice says which of the two is explored, while the other rests.

### WalletStore

`owner`, `balance`, `version`, `txns`, `outbox` are the committed tables. `pc`, `own`,
`peer`, `attempt`, `rowId` are the locals of a call running in some pod; which pod
does not matter, since pods share nothing but the database. Each action is one
statement with everything the Go code does before the next one:

`Arrive` (handler, `validateMoney`, BEGIN) – `FindByKey` – `ReadFrom` – `ReadTo` and
the checks – `UpdateFirst`, `UpdateSecond` (`applyDelta`, in wallet id order) –
`InsertTx` – `InsertOutbox` – `Commit` | `CommitLost`; `Abort` is any statement that
fails for another reason; `Backoff` is the end of `withRetries`' loop body.

PostgreSQL at READ COMMITTED is modelled by what the code depends on. Uncommitted
writes are invisible. A row updated by an open transaction is in its `Held` set, and
an UPDATE of it waits and then judges the committed row (`ApplyDelta`). An INSERT
under a key that an open transaction has inserted waits; one under a committed key
raises 23505. CHECKs and column widths are `Representable`. The outbox sequence is
not rolled back. `ON CONFLICT DO UPDATE` in `CreateWallet` waits for the row's lock.
Uuids are abstract; their text order is the order of the wallet ids. A transaction id
is the pair of request and attempt, as every INSERT draws a fresh uuid. Currency is
the column's default, since no code writes another one.

Answers keep the error classes of `toStatus`; "Failed" stands for the ones after
which the caller cannot know what happened (deadline, internal error, killed pod).

### OutboxRelay

A *lane* is a topic partition. `Fetch` is the SELECT ... SKIP LOCKED, `WriteMessages`
queues the batch's messages per lane, `Produce`, `ProduceUnacknowledged` and `GiveUp`
are the writer's lanes (kafka-go, external), `Written` and `WriteTimeout` end
WriteMessages, `Mark`/`MarkFails` are UPDATE and COMMIT. `LoseTransaction` drops the
database connection in the middle of a batch, so that its rows are unlocked while
the pod still works on them. `Stop`/`Stopped`/`Start` are the graceful replacement of
a pod, `Crash` the other one. `Insert` takes rows of one wallet in id order, which is
what `WalletStore!OutboxOrderPerWallet` shows.

### ConsumerGroup and LedgerConsumer

`ConsumerGroup` is what all three consumers need of Kafka. `Log` holds the messages of
each partition (a *lane*). `GiveAway` moves a lane while its old consumer may be in the
middle of a message; that one goes on until it polls (`Learn`), but only the current
generation commits offsets (`MayCommit`). `Forget` is a restarted process.

In `LedgerConsumer` `form` says what `parse`, `require` and `amount` make of a message.
`OnEvent`, `InsertEntry`, `InsertLines` (one line at a time, into `inserted`) and `CommitPost`
are the listener and `post`; `Fail` and `CommitPostLost` are errors, after which the error
handler seeks back (`HandleAgain`) and the open transaction, if any, is rolled back
(`PutDown`); `Recover` publishes to the DLQ.

### Notification and NotificationPod

`Notification` has `handle` in the steps between its awaits: `Handle` (parsing, with the
three ways it can end: fine, InvalidEvent or SyntaxError, TypeError), `SetSeen`, one
`Publish` per addressed user, `CallWebhook` (which catches everything), `SendDlq`; and
`RedisFails`, `SendDlqFails`, `Rethrow` for what is thrown on. A failed call may have
taken effect; `SetSeenResent` and the second disjunct of `Publish` are commands that
ioredis repeats after a reconnect. A PUBLISH reaches the pods that are subscribed at
that moment (`inbox`), and `Push` delivers it to the sockets that are open at that one.

`NotificationPod` is the same process from the outside, with its real times in seconds.
`Connected`, `ConnectFails`, `ConnectAgain` are startConsumer with its doubling backoff;
`ConsumerCrash` and `GroupJoin` the two events that set `consuming`; `Shutdown`,
`CloseSockets`, `ServerClosed`, `Disconnect`, `Disconnected`, `NodeExit` the awaits of
shutdown, against `NodeForceExit`. A silent client answers no ping and no close frame, so
that its socket stays in `server.close`'s way until ws gives up after its 30 seconds.

kafkajs has request timeouts (30s by default) and retries of its own, which the code does
not set. So the model bounds its calls only where Kafka answers all of them: connecting and
joining the group then end within `ConnectTime`, and fetch, message in hand, LeaveGroup and
the clients' disconnects within `LeaveTime`. When Kafka is away (`kafkaUp`, which also
stands for a group that no other member holds up) at any moment of an attempt or of the
shutdown, that attempt, or the shutdown's disconnecting, is `hindered`: it may take any
time and fail, even though Kafka is back. Redis's `quit` is taken to be quick (ioredis
answers it at once when it is not connected).

### FraudWorker and FraudVelocity

In `FraudWorker`, `GetMany` fetches records of any of the pod's lanes (`Fetched`), lane
after lane (`Batches`), and moves `position` past all of them; `Commit`, after each record, commits `position`, as
`commit()` without arguments does. `Handle`, `Alert`, `SendAlert`, `SetKey` are handle;
`HandleFails` is the `except Exception` of handle_with_retry; `TaskDies` is an exception
where nothing catches it. `End`, `Stop`, `Restart` are the loop's condition, SIGTERM and a
new process. Which transfers the velocity rule flags is left open here, since
`FraudVelocity` answers it: `Check` is the rule's MULTI (ZADD, ZREMRANGEBYSCORE, ZCOUNT,
PEXPIRE), over transfers that are delivered in any order, late or again.

### Gateway and RateLimiter

An HTTP request passes `Receive` (routes, requireAuth, limiter) and its handler. The
wallet service is `W == INSTANCE AtomicWallet`, the specification that `WalletStore` is
shown to implement, so the wallet's interleavings need not be repeated. A CreateWallet
call (`rpc`) or a money call (`call`, `reply`) that the gateway has given up
(`CreateWalletFails`, `MoneyTimeout`, `NoAnswer`) can still take effect. `HttpStatusFor`
composes with `GrpcCodes` (the wallet's toStatus). A token is its user from `Issue` to
`TokenExpires`; a password hash is the password it was made from, compared by
`CheckPassword`; an email is a spelling and what trimming and lower-casing make of it.

In `RateLimiter` a window is counted by the clock of the pod, an expiry by Redis's.
`Arrive` fixes the key, `Limit` is the pipeline and the answer, `FailOpen` a pipeline that
fails, counted or not.

### Pod and PodShutdown

`kind` chooses between the programs; `phase` is where `main` is. Time is in
seconds and urgent: `GoTick` and `NodeTick` do not pass a moment at which
something is due. `Route` is Kubernetes acting on `Readyz` within `Lag`; requests in flight and the relay's batch have
a remaining time, or hang.

## 3. Runs

| Run | Shows |
|---|---|
| `wallet_contention` | no lost update, locked rows as read, outbox and money agree, outbox ids in wallet order, no circular wait, "contention" only when others progressed; every call is answered |
| `wallet_keys` | one key moves money once, replays and rejections tell the truth, `WalletStore` implements `AtomicWallet` |
| `relay_pods` | marked rows are in Kafka; no resend without a fault, whatever stops |
| `relay_single` | one pod keeps a wallet's order, and publishes everything in the end |
| `relay_order` | expected violation: two pods do not keep that order (finding 1) |
| `ledger_resent` | recorded once, whole, nothing skipped, only bad messages in the DLQ, reconciles, lag reaches zero |
| `ledger_bad_reference` | expected violation: a transactionId that is no uuid blocks its partition (finding 2) |
| `gateway` | sign-up: one account, one wallet, no wallet without account, and every account gets its wallet in the end; money: 4xx means nothing moved, 201 means moved once; limiter: budgets hold over all pods, nobody pays for another |
| `notification` | published once, only bad messages in the DLQ, nothing committed unseen; every open socket of an addressed user gets the event, unless a message without a value stands before it |
| `notification_no_value` | expected violation: a message without a value is not dead-lettered and blocks its partition (finding 3) |
| `fraud` | no alert raised again and no transfer skipped without a fault, every large transfer alerted that is done with; the velocity window never counts too many, and is exact for a prompt transfer |
| `pod_shutdown` | gateway, wallet and notification pods: nothing refused, nothing cut, nothing left running, gone in time, forced only by a silent client or an absent Kafka; the notification consumer starts in the end |

**Bounds.** Wallets: two wallets and four requests are enough for transfers in both
directions plus the deposits that fund them (a cycle needs two rows; a retry that
loses again needs two winners), and `MaxRetries = 2` lets a call lose once, win later,
or give up. Each request has two of the four calls to choose from (`MayCall`), so that
each call can be made twice and three transfers can meet. `BigintMax = IntMax = 3` put both column limits within reach. The keys
run uses three requests: one key needs two, and a third that differs. It starts with
one of two wallets missing. Relay: three rows, two of one wallet in one lane, batches
of two, so that a batch spans lanes and a wallet spans batches; `MaxFaults` bounds
the failures of a behaviour (2, and 3 for one pod). Ledger: a resent event and a
transfer behind a bad message, two threads, two faults (a rebalance and a failure, two
crashes, ...). Notification: one transfer between two users, resent and between bad
messages, a deposit behind the one that has no value, in one partition; two pods with one
user on both; a fault, a repeated command and a rebalance. The violation needs no fault.
Fraud: a resent event around a malformed message, in batches of which a commit covers
more than it should. Velocity: a window of two ticks, and a clock long
enough for an expiry. Gateway: two requests over one email suffice for sign-ups that
race, and `Again` lets each slot send any number of them; two faults. Money has two calls (an
original and a retry, or one that differs) and one fault, deadlines not counted.
Limiter: a window of three ticks with a key that lives five, clock skew and delay of
one, a budget of one and two requests, over two windows. Shutdown: the code's defaults
in seconds, two requests (one may hang), one outage. Three times are assumptions of ours, as
the code sets no limit: a relay batch takes up to 16 seconds (its Kafka timeout, and one for
SQL that has none of its own), connecting to a Kafka that answers up to 10, disconnecting up
to 9 (a fetch's 5, a webhook's 3, and one more). Relay pods are interchangeable, as are
fraud pods: `relay_pods`, `relay_order` and `fraud`, which check invariants only, use
symmetry.

**Deadlock.** TLC's check is on for the wallet and the relay: a finished wallet model can
still run CreateWallet, the relay can still stop and start. It is off where the system
may stop: a consumer whose finite log has been read, clients that have sent what they
had to, a clock at its bound, a pod that has exited.

**Fairness.** `WalletStore`: weak fairness of `Step(r)`, i.e. PostgreSQL and the pod
keep executing a call that has arrived; nothing makes clients call or statements
fail. `OutboxRelay`: weak fairness of each step of the loop and of the writer, and
strong fairness of `Fetch`, since graceful stops may interrupt a pod's polling, though
not always before it can take a batch (a stopped pod is replaced). `LedgerConsumer`:
weak fairness of a thread's own steps and of offset commits. `Notification`: the same,
for the subscriber too. `NotificationPod`: weak fairness of the clock, of
`main`'s next step and of kafkajs rejoining the group; Kafka comes
back, clients that are not silent answer. `Gateway`: weak fairness of handlers and of the
wallet; strong fairness of getting the user's logins and GET /wallets/me past the limiter
(`KeepsCalling`), i.e. he keeps calling and is not told 429 for ever, as budgets are per
minute. `FraudWorker`, `PodShutdown` and the limiter are checked for safety only; that a pod
is gone in time is a bound on its clock (`NeverKilled`). No fairness makes a fault
happen, and `MaxFaults` makes every outage end, as the retry loops assume.

Every property is accompanied by a mutant: an operator (marked "A mutant" where it
stands) that changes the model as a plausible bug would, under which TLC refutes the
property.

## 4. Proofs

The theorems hold for every value of the constants that the named `ASSUME`s admit: any
number of requests, pods, consumers, messages, faults and retries, any column widths and
timeouts. Every safety property of a passing run is proved, and so is the refinement
`Atomic`. In general the property itself is not inductive; the list says what the
inductive invariant adds, and why.

**The wallet** (`WalletStoreProofs`)

* `TypeCorrect` (`TypeOK`). COMMIT writes balance + delta, which an UPDATE checked several
  steps earlier. `TypeInv` adds what each program counter implies for the locals
  (`Shapes`), that no two open transactions hold one row (`LocksExclusive`), and that what
  an UPDATE found representable still is (`WritesFit`), which holds as only the holder of
  a row can commit a change of it (`CommitSparesLocked`).
* `KeyMovesMoneyOnce` (`MoneyMovesOnce`). `KeyInv` adds `KeysExclusive`: of the requests
  past the unique index none shares its key with another or with a committed transaction.
* `ChecksHoldAtCommit` (`LockedRowsAsRead`). `ReadInv` adds that a row once read is never
  newer than the table and is equal to it if the version is (`ReadsWere`), and that a
  locked row still has the version read (`LockedMatch`).
* `LocksNeverCycle` (`NoLockCycle`) follows from `TypeInv`: of the requests that wait, the
  one that holds the largest wallet id waits for none of them, and one that waits for a
  key waits for a request that has all its locks.
* `ErrorsMoveNothing` (`RejectedMovesNothing`), `RepliesAgree` (`IdempotentReplies`).
  `AnswerInv` adds that an unanswered request has no transaction (`Unmoved`) and that a
  success names one that does what was asked (`Truthful`).
* `EventsMatchMoney` (`OutboxAgreesWithTransactions`), `OutboxFollowsWallet`
  (`OutboxOrderPerWallet`). `OutboxInv` adds that sequence numbers in use differ
  (`RowIdsFresh`) and that one which is about to be committed is behind all rows of its
  wallet (`RowsInOrder`), as the wallet's row is locked when it is drawn.
* `StoreIsAtomic` (`Atomic`): `Init` maps to an initial state of `AtomicWallet`, and each
  step, under the invariants above, to a step or to a stutter. Only `Arrive`, an answer
  and COMMIT are visible; a COMMIT whose answer is lost is an abstract step as well. Of the
  refusals, `Justified` constrains InsufficientFunds and Contention little: the balance may
  have been another when it was read.
* `BalancesAddUp` (`BalancesMatchTransactions`): only COMMIT moves a balance, by what the
  transaction it adds contributes to the sum.
* `ContentionIsProgress` (`ContentionMeansProgress`). `ProgressInv` charges every lost
  attempt to a rival's transaction of its own: those behind the attempts that are over
  are at least `attempt - 1`, and each version by which a row has grown since it was read
  is one more. The property itself also counts rivals from before the call.

**The relay** (`RelayProofs`)

* `NoEventIsLost` (`PublishedIsSent`). `SentInv` adds what WriteMessages owes to
  publishBatch (`Waits`): while no lane has failed, a row of the batch is in Kafka or in
  the last write of a lane that is still awaited, however many older writes, left there by
  a timeout, are queued before it.
* `NothingSentTwice` (`ResentOnlyAfterFault`). `OnceInv` adds, for behaviours without a
  fault, that batches are disjoint, hold their locks, and that a row in Kafka is marked or
  in a batch about to mark it (`Clean`).
* `OnePodKeepsOrder` (`OrderPerKey`), from the hypothesis `OnePod`: everything queued, of
  this batch and of older ones that timed out, follows what Kafka lacks of its wallet
  (`Ordered`). Finding 1 shows that the hypothesis is needed.

**The consumers** (`LedgerProofs`, `NotificationProofs`)

* `EventsRecordedOnce` (`RecordedOnce`): of two consumers past the unique index none has
  the other's event or a recorded one (`PostingAlone`).
* `OffsetsLoseNothing` (`NothingSkipped`), `OffsetsIgnoreNothing` (`NothingIgnored`).
  `BehindInv` extends the property from committed offsets to positions, also those of
  consumers that have lost their partition and do not know it yet.
* `LedgerReconciles` (`Reconciles`). `BooksInv`: the journal balance of a wallet is, at
  every moment, what the events recorded so far add up to, and `TypeInv`: a transaction
  that is about to be committed has inserted all its lines (`InHand`). At lag zero these are
  all events, by `NothingSkipped`.
* `MessagesPublishedOnce` (`PublishedOnce`): the events in hand of two publishing pods
  differ, since the dedupe key was set by one of them only (`Apart`), and what a pod has
  still to publish nobody has published (`Fresh`).

**Fraud** (`FraudProofs`)

* `LargeTransfersAreAlerted` (`LargeIsAlerted`). `LargeInv` follows the alert of a large
  transfer from evaluate to handle's return: it is among those to raise until it is sent
  or its dedupe key is found, and a key stands for an alert that was sent. So it is never
  lost, wherever handle is interrupted and begun again.
* `AlertsAreRaisedOnce` (`RaisedAgainOnlyAfterFault`). The bound on what has been sent is not
  inductive: it says nothing of the pods that have found no key and are about to send.
  `OnceInv` counts these in. `Around` are the pods that have a message of the event's
  partition, or may yet get one; `MaySend` those of them that may still send the alert
  though nothing fails. Alerts sent and pods that may send are together at most one
  more than the retries, faults and rebalances. A send moves a pod from the second to the
  first, a key leaves in `MaySend` only the pods that had asked for it before, and what
  brings a pod back is counted: a retry, a new process, or a rebalance, the only step by
  which `Around` grows.
* `CommitSkipsNothingAlone` (`SkippedOnlyAfterFault`). `CalmInv`, for behaviours without a
  fault or a rebalance: a lane has one consumer, whose position no committed offset is
  ahead of, and who has handled, or holds in its batch, everything up to that position.
* `CountsNothingExtra` (`NeverOvercounts`), `CountsExactly` (`ExactWhenPrompt`).
  `VelocityInv` ties the sorted set to the transfers: a score is the transfer's own time,
  or the time it was checked at (`Scores`), and what is no longer in the set was a window
  behind another transfer, or two windows behind Redis's time (`Left`).

**The gateway** (`GatewayProofs`)

* `OneOfEach` (`OneAccountOneWallet`), `RefusalIsFinal` (`RefusedMovesNothing`),
  `CreatedIsDone` (`CreatedMeansMovedOnce`). `GatewayInv` says how the wallet's answers
  relate to its transactions (`MoneyInv`), that a user named to CreateWallet has an
  account and keeps it (`Placed`), and what a status implies about the answer it was made
  from (`Truthful`). It survives calls that take effect after they were given up, since
  accounts, wallets and answers are never taken back (`Growing`).
* `LimitHolds` (`WithinLimit`), `LimitIsOwn` (`RefusedForOwnUse`). `LimiterInv`: a request
  reaches Redis at most `MaxSkew` before and `MaxDelay` after its window (`OnTime`), a
  counter lives at least that long (`LivesOn`, by `SlackAssumption`), and so counts what
  was let through and only what was received (`Counted`).

**Shutdown** (`PodProofs`, over all three programs)

* `PodEndsInTime` (`NeverKilled`): the timer that SIGTERM arms bounds the time since, in every
  phase of every program (`Timed`).
* `NoRequestRefused` (`NothingRefused`), `NoWorkCut` (`NothingCut`). `GoInv`: in the delay
  a pod is routed to only while its endpoint is stale (`Unrouted`), and the remaining time
  of requests and then of the batch fits into the timeouts (`WorkEnds`).
* `NoConsumerLeft` (`NothingLeftRunning`). `LeftInv` adds that startConsumer has returned
  from the moment shutdown begins to disconnect.
* `OnlyOthersForce` (`ForcedByOthersOnly`), from the hypothesis `PatientClose`: ws waits
  longer for a close frame (30s) than the forced exit waits for the shutdown (20s). Of a
  shutdown that nothing has hindered, `HeldUp` bounds the time at which it gets to each of
  its awaits: startConsumer ends with the attempt or the sleep that SIGTERM met (`Prompt`),
  and disconnecting fits into the rest. `Marked` keeps `hindered` TRUE while Kafka is away.

**Sums.** Balances are folds over finite sets. `SumProofs` shows what such a fold does
when an element is added, from a well-founded induction of its own over sets of naturals,
since induction theorems that take an operator are not usable in these proofs.

**Assumptions.** Null values are not values. Limits, timeouts and budgets are numbers.
`IdsAssumption`: wallet ids are ordered and there is a largest one (there are finitely
many wallets). `CallsAssumption`: a transfer names a recipient, a deposit none.
`OwnerAssumption` and `TablesAssumption`: the tables start with at most one wallet per
user, and none without an account. `EventsAssumption`: messages of one event are copies of
one outbox row, a deposit comes from no wallet, no wallet is called `external:cash`.
`KeyAssumption`: the copies of an event are in one partition, as its key is the wallet
(`services/wallet/main.go:42`). `FraudAssumption`: finitely many messages, of which only
valid ones are large (parse comes first). `AddressAssumption`: an event is addressed to at least one user, to each once (sender and
recipient of a transfer differ). `LimiterAssumption`: finitely many requests.
`SlackAssumption`, `PodAssumption`, `ShutdownAssumption`, `NodeAssumption`: relations
between timeouts that the code's defaults satisfy, with the three assumed times above.
`NodeAssumption` wants the longest of delay, backoff and an attempt that Kafka answers,
together with `LeaveTime`, to end before the timer (10 + 9 against 25); of attempts that
Kafka does not answer it says nothing. TLC evaluates each of them on the runs.

**Only model-checked.** `EveryCallAnswered`, `EventuallyPublished`, `LagReachesZero`,
`EveryUserGetsWallet`, `EveryoneIsTold` and `EventuallyConsuming` are liveness under
fairness, which the proof system does not reason about.

## 5. Findings

1. `services/wallet/main.go:42` says that events stay in order per wallet, and
   `outbox.go:16` that several pods may run the relay. With two pods a wallet's later
   row can be published first: SKIP LOCKED skips the earlier one while another pod
   holds it (`relay_order`). One pod keeps the order (`relay_single`).
2. `docs/HANDOVER.md:24` says that malformed messages go to the DLQ. A message whose
   `transactionId` is a string but not a uuid fails in the INSERT's cast, which is not
   an `InvalidEventException`, and is retried for ever (`ledger_bad_reference`).
3. The same line, for the notification service: a message without a value (a tombstone)
   raises a TypeError at `index.js:165`, neither InvalidEvent nor SyntaxError, which lines
   179-184 throw on. kafkajs delivers it again for ever; it is not dead-lettered, and the
   events behind it are not published (`notification_no_value`). The relay writes no such
   message. `EveryoneIsTold` excepts the events behind one, in the run `e2`.

**Observations.** Behaviours that the models contain, and that the properties have to
allow for; they are not runs of their own.

* `docs/HANDOVER.md:18`, "replayed requests return the original transaction": a repetition
  that has passed findByKey before the original's COMMIT, and reads the balance after it,
  is refused for insufficient funds. No money moves twice, and a later repetition does
  get the original. (`IdempotentReplies` is about the answers that claim success.)
* `services/notification/src/index.js:180`, the event is not lost as the offset is not
  committed: the dedupe key is set first, so the retry after a failed PUBLISH takes the
  event for a duplicate. Hence `NothingIgnored` says "begun to publish", and
  `EveryoneIsTold` excepts behaviours with a fault: none of the properties excludes this
  loss.
* `docs/HANDOVER.md:25`, every service exits cleanly: a WebSocket client that no longer
  answers holds server.close past the forced exit, and a Kafka that does not answer holds
  up `await consumerStarted` or consumer.disconnect just so. `ForcedByOthersOnly` says that
  nothing else does.
* `services/fraud/app/worker.py:6`, an offset is committed only after its message is
  handled: `commit()` after the first message of a batch commits the batch.
  `SkippedOnlyAfterFault` says what is left of the promise; it exempts a crash, stop or
  rebalance in the middle of a batch, which is when the code does skip messages.
* An exception out of getmany, commit or to_dlq ends the fraud worker's task while the pod
  goes on reporting ready (`TaskDies`).
* `services/fraud/app/rules.py:26`, a consumer that catches up measures the real rate: the
  set expires by Redis's clock, so after an outage of two windows the rate is measured too
  low. Hence the second premise of `ExactWhenPrompt`.

## 6. Not modelled, and the plan

Left out for good, as none of it decides what happens to money or events: JSON and
protobuf encoding, request ids, metrics, logging, environment variables, the jwt and
bcrypt computations, generated gRPC code (translated from `wallet.proto` by protoc, and
the greater part of the Go lines), one-shot scripts.

Left out of components that are modelled:

* `notif:seen` expires after an hour and `fraud:alerted` after a day; the models keep the
  keys, so that duplicates that come later than this are not covered.
* kafkajs crashes that it does not restart from end the process (`index.js:225`), which
  is then a `Crash`; a group that has never committed starts at the end of its topics
  (`fromBeginning: false`), whereas `Log` begins where the group does.
* `index.js` handles SIGTERM only once it has subscribed to Redis. Before that, node being
  the container's PID 1, the signal is ignored, and the pod runs on until SIGKILL.
* aiokafka's producer is not idempotent: a send that it repeats by itself may leave an alert
  twice in the topic. `SendAlert` is one record per send.
* The balancer is taken to overwrite X-Forwarded-For, whose first element `httpx.go:83` uses:
  `ClientIP` is the client's own. `WithinLimit` and `RefusedForOwnUse` rest on this.
* The gateway's gRPC connections are long-lived (`walletclient.go:18-20`), so Kubernetes's
  routing does not stop calls on them as `PodShutdown!Arrive` has it; the GOAWAY of
  GracefulStop does, which turns no call away.
* A relay pod's row locks are released at the moment it crashes or loses its connection,
  though PostgreSQL may notice later, and a lane's share of a batch is one write.
* `ApplyDelta` waits for a row's lock also where the committed version already differs.
* `FraudVelocity` has one clock for wallet, Redis and worker.
* gRPC's choice of a wallet pod: pods share nothing but the database.

Next: a composition of `AtomicWallet`, the relay's at-least-once delivery and the ledger,
in which reconciliation is stated on the wallets themselves.
