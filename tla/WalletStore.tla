----------------------------- MODULE WalletStore -----------------------------
(***************************************************************************)
(* The wallet service as it runs: any number of pods execute Deposit,      *)
(* Transfer and CreateWallet against one PostgreSQL at READ COMMITTED. One *)
(* step is one SQL statement, so requests interleave between the SELECTs,  *)
(* the versioned UPDATEs, the INSERTs and the COMMIT of a transaction.     *)
(*                                                                         *)
(* owner, balance, version, txns and outbox are the committed tables. What *)
(* a transaction has written is invisible to others until it commits; what *)
(* others notice are its row locks (Held) and its unique-index entry.      *)
(***************************************************************************)
EXTENDS WalletTypes

CONSTANTS
  InitialOwner, \* wallets opened before the observation starts, all empty
  BigintMax,    \* the largest balance_cents (bigint)
  IntMax,       \* the largest version (integer)
  NoRow         \* no wallet row read

ASSUME OwnerAssumption ==
  /\ InitialOwner \in [WalletIds -> Users \cup {NoUser}]
  /\ \A v, w \in WalletIds :
       InitialOwner[v] = InitialOwner[w] /\ InitialOwner[v] # NoUser => v = w

Row == [id: WalletIds, balance: 0..BigintMax, version: 0..IntMax]

ASSUME LimitsAssumption ==
  BigintMax \in Nat /\ IntMax \in Nat /\ NoRow \notin Row

VARIABLES
  owner,      \* wallets.user_id (NoUser: no such row)
  balance,    \* wallets.balance_cents
  version,    \* wallets.version
  txns,       \* wallet.transactions
  outbox,     \* wallet.outbox
  outboxSeq,  \* the sequence of outbox.id; it is not rolled back
  call,       \* request -> its call, or NoCall
  pc,         \* request -> the statement it runs next
  attempt,    \* request -> withRetries' counter
  own,        \* request -> the caller's wallet as read ("w", "from")
  peer,       \* request -> the recipient's wallet as read ("to")
  rowId,      \* request -> the id of its uncommitted outbox row
  reply       \* request -> the answer

tables == <<owner, balance, version, txns, outbox>>
vars == <<owner, balance, version, txns, outbox, outboxSeq,
          call, pc, attempt, own, peer, rowId, reply>>

InTransaction == {"find", "readFrom", "readTo", "update1", "update2",
                  "insertTx", "insertOutbox", "commit"}
PC == {"idle", "backoff", "done"} \cup InTransaction

(* An outbox row. ver is a history field: the version of wallet key that the
   transaction of this row made.                                             *)
OutboxRow == [id: Nat \ {0}, topic: {"transfers.completed", "wallet.deposited"},
              key: WalletIds, event: Event, ver: 0..IntMax]

-----------------------------------------------------------------------------
(* The two applyDelta calls of a request. *)

IsTransfer(r) == call[r].kind = "TRANSFER"

(* A mutant: lock the sender first. *)
SenderFirst(r) == FALSE

(* to.ID < from.ID: the recipient's row is updated first. *)
RecipientFirst(r) == IsTransfer(r) /\ peer[r].id < own[r].id

First(r)  == IF RecipientFirst(r) THEN peer[r] ELSE own[r]
Second(r) == IF RecipientFirst(r) THEN own[r] ELSE peer[r]

FirstDelta(r) ==
  IF IsTransfer(r) /\ ~RecipientFirst(r) THEN -call[r].amount ELSE call[r].amount

(* A mutant: the second delta keeps its sign when the rows are swapped. *)
UnswappedDelta(r) == call[r].amount

SecondDelta(r) == IF RecipientFirst(r) THEN -call[r].amount ELSE call[r].amount

(* Wallets whose rows r's open transaction has updated, hence locked. *)
Touched(r) == IF IsTransfer(r) THEN {own[r].id, peer[r].id} ELSE {own[r].id}

(* A mutant: the lock ends with the UPDATE instead of the transaction. *)
HeldDuringUpdates(r) == IF pc[r] = "update2" THEN {First(r).id} ELSE {}

Held(r) ==
  IF pc[r] = "update2" THEN {First(r).id}
  ELSE IF pc[r] \in {"insertTx", "insertOutbox", "commit"} THEN Touched(r)
  ELSE {}

(* A mutant: the UPDATE does not look at the version. *)
AnyVersion(row) == TRUE

(* WHERE ... version = $3 *)
VersionMatches(row) == version[row.id] = row.version

(* A mutant: neither the CHECK nor the column widths stop the UPDATE. *)
AnyResult(row, delta) == TRUE

(* The UPDATE's result passes CHECK (balance_cents >= 0) and fits its types. *)
Representable(row, delta) ==
  /\ balance[row.id] + delta \in 0..BigintMax
  /\ version[row.id] + 1 <= IntMax

-----------------------------------------------------------------------------
(* Ends of a transaction and of a request. *)

(* What a rollback, or a commit, leaves of the transaction's private state. *)
Forget(r) ==
  /\ own' = [own EXCEPT ![r] = NoRow]
  /\ peer' = [peer EXCEPT ![r] = NoRow]
  /\ rowId' = [rowId EXCEPT ![r] = 0]

Answer(r, code, tx) ==
  /\ pc' = [pc EXCEPT ![r] = "done"]
  /\ reply' = [reply EXCEPT ![r] = [code |-> code, tx |-> tx]]

(* The transaction rolls back, or commits nothing, and the caller is answered. *)
Finish(r, code, tx) ==
  /\ Answer(r, code, tx)
  /\ Forget(r)
  /\ UNCHANGED <<tables, outboxSeq, call, attempt>>

(* errVersionConflict or 23505: rollback, then wait before the next attempt. *)
Retry(r) ==
  /\ pc' = [pc EXCEPT ![r] = "backoff"]
  /\ Forget(r)
  /\ UNCHANGED <<tables, outboxSeq, call, attempt, reply>>

Goto(r, label) ==
  /\ pc' = [pc EXCEPT ![r] = label]
  /\ UNCHANGED <<tables, call, attempt, reply>>

-----------------------------------------------------------------------------
Init ==
  /\ owner = InitialOwner
  /\ balance = [w \in WalletIds |-> 0]
  /\ version = [w \in WalletIds |-> 0]
  /\ txns = {}
  /\ outbox = {}
  /\ outboxSeq = 0
  /\ call = [r \in Requests |-> NoCall]
  /\ pc = [r \in Requests |-> "idle"]
  /\ attempt = [r \in Requests |-> 0]
  /\ own = [r \in Requests |-> NoRow]
  /\ peer = [r \in Requests |-> NoRow]
  /\ rowId = [r \in Requests |-> 0]
  /\ reply = [r \in Requests |-> NoReply]

(* CreateWallet: one INSERT ... ON CONFLICT (user_id) DO UPDATE. For a user
   who has a wallet it rewrites user_id with itself, once the row is unlocked. *)
CreateWallet(u) ==
  \/ /\ \A w \in WalletIds : owner[w] # u
     /\ \E w \in WalletIds :
          /\ owner[w] = NoUser
          /\ owner' = [owner EXCEPT ![w] = u]
     /\ UNCHANGED <<balance, version, txns, outbox, outboxSeq,
                    call, pc, attempt, own, peer, rowId, reply>>
  \/ /\ \E w \in WalletIds :
          owner[w] = u /\ \A r \in Requests : w \notin Held(r)
     /\ UNCHANGED vars

(* The Deposit and Transfer handlers up to withRetries' first BEGIN. *)
Arrive(r, c) ==
  /\ pc[r] = "idle"
  /\ call' = [call EXCEPT ![r] = c]
  /\ IF ValidMoney(c)
       THEN /\ pc' = [pc EXCEPT ![r] = "find"]
            /\ attempt' = [attempt EXCEPT ![r] = 1]
            /\ reply' = reply
       ELSE /\ Answer(r, "InvalidArgument", NoTxn)
            /\ attempt' = attempt
  /\ UNCHANGED <<tables, outboxSeq, own, peer, rowId>>

(* findByKey, and what its result decides. *)
FindByKey(r) ==
  /\ pc[r] = "find"
  /\ \/ \E t \in txns :
          /\ SameKey(t, call[r])
          /\ IF SameRequest(t, call[r])
               THEN Finish(r, "replayed", t.id)
               ELSE Finish(r, "IdempotencyConflict", NoTxn)
     \/ /\ \A t \in txns : ~SameKey(t, call[r])
        /\ Goto(r, "readFrom")
        /\ UNCHANGED <<outboxSeq, own, peer, rowId>>

ReadRow(w) == [id |-> w, balance |-> balance[w], version |-> version[w]]

(* SELECT ... WHERE user_id = $1 *)
ReadFrom(r) ==
  /\ pc[r] = "readFrom"
  /\ \/ \E w \in WalletIds :
          /\ owner[w] = call[r].user
          /\ own' = [own EXCEPT ![r] = ReadRow(w)]
          /\ Goto(r, IF IsTransfer(r) THEN "readTo" ELSE "update1")
          /\ UNCHANGED <<outboxSeq, peer, rowId>>
     \/ /\ \A w \in WalletIds : owner[w] # call[r].user
        /\ Finish(r, "NotFound", NoTxn)

(* Every row of wallets keeps the column's default. *)
Currency(w) == "USD"

(* The checks of a transfer, in their order, on the rows it has read. *)
Objection(from, to, amount) ==
  IF from.id = to.id THEN "SameWallet"
  ELSE IF Currency(from.id) # Currency(to.id) THEN "CurrencyMismatch"
  ELSE IF from.balance < amount THEN "InsufficientFunds"
  ELSE "none"

(* SELECT ... WHERE id = $1, and the checks that follow it. *)
ReadTo(r) ==
  LET w == call[r].to IN
  /\ pc[r] = "readTo"
  /\ IF owner[w] = NoUser
       THEN Finish(r, "NotFound", NoTxn)
       ELSE LET objection == Objection(own[r], ReadRow(w), call[r].amount) IN
            IF objection = "none"
              THEN /\ peer' = [peer EXCEPT ![r] = ReadRow(w)]
                   /\ Goto(r, "update1")
                   /\ UNCHANGED <<outboxSeq, own, rowId>>
              ELSE Finish(r, objection, NoTxn)

-----------------------------------------------------------------------------
Unlocked(r, w) == \A s \in Requests \ {r} : w \notin Held(s)

(* A mutant: the UPDATE gives up at once on a locked row (as NOWAIT would). *)
ApplyDeltaNoWait(r, row, delta, label) ==
  IF Unlocked(r, row.id) /\ VersionMatches(row)
    THEN IF Representable(row, delta)
           THEN Goto(r, label) /\ UNCHANGED <<outboxSeq, own, peer, rowId>>
           ELSE Finish(r, "Failed", NoTxn)
    ELSE Retry(r)

(* applyDelta waits for the row's lock, then judges the row as committed. *)
ApplyDelta(r, row, delta, label) ==
  /\ Unlocked(r, row.id)
  /\ IF VersionMatches(row)
       THEN IF Representable(row, delta)
              THEN Goto(r, label) /\ UNCHANGED <<outboxSeq, own, peer, rowId>>
              ELSE Finish(r, "Failed", NoTxn)
       ELSE Retry(r)

UpdateFirst(r) ==
  /\ pc[r] = "update1"
  /\ ApplyDelta(r, First(r), FirstDelta(r), IF IsTransfer(r) THEN "update2" ELSE "insertTx")

UpdateSecond(r) ==
  /\ pc[r] = "update2"
  /\ ApplyDelta(r, Second(r), SecondDelta(r), "insertTx")

(* A mutant: there is no UNIQUE (user_id, idempotency_key). *)
NoUnique(c) == FALSE

(* UNIQUE (user_id, idempotency_key) already has an entry. *)
KeyTaken(c) == \E t \in txns : SameKey(t, c)

(* INSERT INTO transactions: waits for an uncommitted entry under the same key,
   and raises 23505 for a committed one.                                      *)
InsertTx(r) ==
  /\ pc[r] = "insertTx"
  /\ \A s \in Requests \ {r} :
       pc[s] \in {"insertOutbox", "commit"} => ~SameKey(call[s], call[r])
  /\ IF KeyTaken(call[r])
       THEN Retry(r)
       ELSE Goto(r, "insertOutbox") /\ UNCHANGED <<outboxSeq, own, peer, rowId>>

NewTxn(r) ==
  [id |-> <<r, attempt[r]>>, user |-> call[r].user, kind |-> call[r].kind,
   from |-> IF IsTransfer(r) THEN own[r].id ELSE NoWallet,
   to |-> IF IsTransfer(r) THEN peer[r].id ELSE own[r].id,
   amount |-> call[r].amount, key |-> call[r].key]

NewOutboxRow(r) ==
  [id |-> rowId[r],
   topic |-> IF IsTransfer(r) THEN "transfers.completed" ELSE "wallet.deposited",
   key |-> own[r].id, event |-> EventOf(NewTxn(r)), ver |-> version[own[r].id] + 1]

(* A mutant: the outbox row is written outside of the transaction. *)
InsertOutboxAutocommit(r) ==
  /\ pc[r] = "insertOutbox"
  /\ outboxSeq' = outboxSeq + 1
  /\ rowId' = [rowId EXCEPT ![r] = outboxSeq + 1]
  /\ outbox' = outbox \cup {[NewOutboxRow(r) EXCEPT !.id = outboxSeq + 1]}
  /\ pc' = [pc EXCEPT ![r] = "commit"]
  /\ UNCHANGED <<owner, balance, version, txns, call, attempt, own, peer, reply>>

(* insertOutbox: the row takes the next id of the sequence. *)
InsertOutbox(r) ==
  /\ pc[r] = "insertOutbox"
  /\ outboxSeq' = outboxSeq + 1
  /\ rowId' = [rowId EXCEPT ![r] = outboxSeq + 1]
  /\ Goto(r, "commit")
  /\ UNCHANGED <<own, peer>>

-----------------------------------------------------------------------------
(* COMMIT makes the UPDATEs and the INSERTs visible and releases the locks. *)
CommitEffects(r) ==
  /\ balance' = [w \in WalletIds |->
                   IF w \in Touched(r)
                     THEN balance[w] + (IF w = First(r).id THEN FirstDelta(r) ELSE SecondDelta(r))
                     ELSE balance[w]]
  /\ version' = [w \in WalletIds |->
                   IF w \in Touched(r) THEN version[w] + 1 ELSE version[w]]
  /\ txns' = txns \cup {NewTxn(r)}
  /\ outbox' = outbox \cup {NewOutboxRow(r)}
  /\ Forget(r)
  /\ UNCHANGED <<owner, outboxSeq, call, attempt>>

Commit(r) ==
  /\ pc[r] = "commit"
  /\ CommitEffects(r)
  /\ Answer(r, "ok", <<r, attempt[r]>>)

(* A mutant: withRetries takes a lost COMMIT answer for a conflict. *)
CommitLostRetried(r) ==
  /\ pc[r] = "commit"
  /\ CommitEffects(r)
  /\ pc' = [pc EXCEPT ![r] = "backoff"]
  /\ reply' = reply

(* The COMMIT takes effect but its answer does not arrive (connection lost,
   deadline, pod killed): withRetries does not retry, the caller sees an error. *)
CommitLost(r) ==
  /\ pc[r] = "commit"
  /\ CommitEffects(r)
  /\ Answer(r, "Failed", NoTxn)

(* Any statement, the COMMIT or the backoff may fail: deadline, cancelled call,
   lost connection, killed pod. PostgreSQL rolls back.                        *)
Abort(r) ==
  /\ pc[r] \in InTransaction \cup {"backoff"}
  /\ Finish(r, "Failed", NoTxn)

(* The end of withRetries' loop body: the wait is over. *)
Backoff(r) ==
  /\ pc[r] = "backoff"
  /\ IF attempt[r] < MaxRetries
       THEN /\ attempt' = [attempt EXCEPT ![r] = @ + 1]
            /\ pc' = [pc EXCEPT ![r] = "find"]
            /\ reply' = reply
       ELSE /\ Answer(r, "Contention", NoTxn)
            /\ attempt' = attempt
  /\ UNCHANGED <<tables, outboxSeq, call, own, peer, rowId>>

(* What a request does by itself once it has arrived. *)
Step(r) ==
  \/ FindByKey(r)
  \/ ReadFrom(r)
  \/ ReadTo(r)
  \/ UpdateFirst(r)
  \/ UpdateSecond(r)
  \/ InsertTx(r)
  \/ InsertOutbox(r)
  \/ Commit(r)
  \/ Backoff(r)

Next ==
  \/ \E u \in Users : CreateWallet(u)
  \/ \E r \in Requests, c \in Calls : Arrive(r, c)
  \/ \E r \in Requests : Step(r) \/ CommitLost(r) \/ Abort(r)

Spec == Init /\ [][Next]_vars

(* PostgreSQL and the pods keep running the statements of a request that has
   arrived; clients need not call, and nothing need fail.                     *)
Fairness == \A r \in Requests : WF_vars(Step(r))

-----------------------------------------------------------------------------
(* Every column and every local variable of Deposit and Transfer keeps its type:
   no committed balance is negative or beyond bigint, no version beyond integer. *)
TypeOK ==
  /\ owner \in [WalletIds -> Users \cup {NoUser}]
  /\ balance \in [WalletIds -> 0..BigintMax]
  /\ version \in [WalletIds -> 0..IntMax]
  /\ txns \subseteq Txn
  /\ outbox \subseteq OutboxRow
  /\ outboxSeq \in Nat
  /\ call \in [Requests -> Calls \cup {NoCall}]
  /\ pc \in [Requests -> PC]
  /\ attempt \in [Requests -> 0..MaxRetries]
  /\ own \in [Requests -> Row \cup {NoRow}]
  /\ peer \in [Requests -> Row \cup {NoRow}]
  /\ rowId \in [Requests -> Nat]
  /\ reply \in [Requests -> Reply]

(* One (user, idempotency key) moves money at most once, however many requests
   carry it, on whichever pods, and whatever errors their callers were shown.  *)
MoneyMovesOnce == \A t, u \in txns : SameKey(t, u) => t = u

(* A wallet's balance is what its committed transactions add up to: no update is
   lost between a read and a versioned UPDATE, and a transfer conserves money.  *)
BalancesMatchTransactions == \A w \in WalletIds : balance[w] = NetOf(txns, w)

(* Successful answers under one key are about one transaction and one request:
   a replay never hands out the result of a request that asked something else. *)
IdempotentReplies ==
  \A r, s \in Requests :
    /\ reply[r].code \in Success
    /\ reply[s].code \in Success
    /\ SameKey(call[r], call[s])
    => /\ reply[r].tx = reply[s].tx
       /\ call[r] = call[s]

(* A business error is a promise: the request that got it has moved no money, not
   even in one of the earlier attempts that withRetries made for it.            *)
RejectedMovesNothing ==
  \A r \in Requests :
    reply[r].code \in Rejection => \A t \in txns : t.id[1] # r

(* "Money moved" and "event recorded" never disagree: the outbox holds one event
   for each committed transaction, and no other.                               *)
OutboxAgreesWithTransactions ==
  /\ {row.event : row \in outbox} = {EventOf(t) : t \in txns}
  /\ \A x, y \in outbox : x.id = y.id \/ x.event = y.event => x = y

(* While a request has a wallet's row locked, the row is still as the request read
   it: the checks of Transfer, made on that read, hold when the money moves.     *)
LockedRowsAsRead ==
  \A r \in Requests :
    /\ own[r] # NoRow /\ own[r].id \in Held(r) => own[r] = ReadRow(own[r].id)
    /\ peer[r] # NoRow /\ peer[r].id \in Held(r) => peer[r] = ReadRow(peer[r].id)

(* Outbox ids of one message key follow the order in which that wallet changed,
   although a sequence hands them out before, and not in the order of, COMMITs.  *)
OutboxOrderPerWallet ==
  \A x, y \in outbox : x.key = y.key /\ x.ver < y.ver => x.id < y.id

WaitsFor(r, s) ==
  \/ pc[r] = "update1" /\ First(r).id \in Held(s)
  \/ pc[r] = "update2" /\ Second(r).id \in Held(s)
  \/ /\ pc[r] = "insertTx"
     /\ pc[s] \in {"insertOutbox", "commit"}
     /\ SameKey(call[s], call[r])

(* Requests never wait for each other in a circle: rows are updated by wallet id. *)
NoLockCycle ==
  \A S \in (SUBSET Requests) \ {{}} :
    \E r \in S : \A s \in S \ {r} : ~WaitsFor(r, s)

(* Committed transactions of other requests that changed a wallet r reads. *)
Rivals(r) ==
  {t \in txns : t.id[1] # r /\
     \E w \in {t.from, t.to} \ {NoWallet} : owner[w] = call[r].user \/ w = call[r].to}

(* "Too much contention" is told only when the commits of others that touched the request's
   wallets are at least as many as its attempts: withRetries does not give up where nobody
   gets on. (A commit from before the request came counts as well.)                       *)
ContentionMeansProgress ==
  \A r \in Requests :
    reply[r].code = "Contention" => Cardinality(Rivals(r)) >= MaxRetries

(* Every call that arrives is answered: lock waits and retries come to an end. *)
EveryCallAnswered == \A r \in Requests : pc[r] # "idle" ~> pc[r] = "done"

-----------------------------------------------------------------------------
AW == INSTANCE AtomicWallet WITH events <- {row.event : row \in outbox}

(* Statement by statement, with conflicts, rollbacks, retries and lost answers, the
   store does what AtomicWallet does in one step per call.                       *)
Atomic == AW!Spec
==============================================================================
