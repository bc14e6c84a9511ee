----------------------------- MODULE WalletTypes -----------------------------
(***************************************************************************)
(* The data of the wallet service, shared by its abstract specification    *)
(* (AtomicWallet) and its detailed one (WalletStore): the money calls a    *)
(* client may make, the rows of wallet.transactions and the events that    *)
(* the ledger, fraud and notification services read.                       *)
(***************************************************************************)
EXTENDS Integers, FiniteSets, FiniteSetsExt

CONSTANTS
  Requests,     \* money RPCs (Deposit, Transfer) that reach some wallet pod
  Users,        \* user ids
  WalletIds,    \* wallet uuids; their text order is the order of Nat
  Keys,         \* idempotency keys
  Calls,        \* the calls a client may make (a subset of Call)
  MaxRetries,   \* OPTIMISTIC_LOCK_RETRIES: attempts that one call may make
  NoUser,       \* "no row": the wallet does not exist
  NoWallet,     \* SQL NULL / Go "" for a wallet id
  NoCall,       \* the request has not been made
  BadKey        \* a key of illegal length (empty, or over 200 characters)

Kind == {"DEPOSIT", "TRANSFER"}

(* DepositRequest and TransferRequest; a deposit names no recipient. *)
Call == [kind: Kind, user: Users, to: WalletIds \cup {NoWallet},
         amount: Int, key: Keys \cup {BadKey}]

(* A uuid is a number of 128 bits, so that one wallet id is the largest. *)
ASSUME IdsAssumption ==
  /\ WalletIds \subseteq Nat
  /\ WalletIds # {} => \E v \in WalletIds : \A w \in WalletIds : w <= v
  /\ NoWallet \notin WalletIds
  /\ NoUser \notin Users
  /\ BadKey \notin Keys

ASSUME RetriesAssumption == MaxRetries \in Nat \ {0}

ASSUME CallsAssumption ==
  /\ Calls \subseteq Call
  /\ NoCall \notin Call
  /\ \A c \in Calls : IF c.kind = "TRANSFER" THEN c.to \in WalletIds ELSE c.to = NoWallet

-----------------------------------------------------------------------------
(* The uuid of one INSERT: no two attempts, of one request or of two, share it. *)
TxnId == Requests \X (1..MaxRetries)

(* A row of wallet.transactions, status being always COMPLETED. *)
Txn == [id: TxnId, user: Users, kind: Kind, from: WalletIds \cup {NoWallet},
        to: WalletIds, amount: Nat, key: Keys]

NoTxn == <<>>

(* depositEvent and transferEvent: what the consumers learn of a transaction. *)
Event == [eventId: TxnId, kind: Kind, from: WalletIds \cup {NoWallet},
          to: WalletIds, amount: Nat]

EventOf(t) == [eventId |-> t.id, kind |-> t.kind, from |-> t.from,
               to |-> t.to, amount |-> t.amount]

(* validateMoney: what the server refuses before it touches the database. *)
ValidMoney(c) == c.amount > 0 /\ c.key # BadKey

SameKey(t, c) == t.user = c.user /\ t.key = c.key

SameRequestAnyAmount(t, c) ==
  t.kind = c.kind /\ (c.kind = "TRANSFER" => t.to = c.to)

(* Is t, found under c's key, the result of the very same request? *)
SameRequest(t, c) ==
  /\ t.kind = c.kind
  /\ t.amount = c.amount
  /\ c.kind = "TRANSFER" => t.to = c.to

-----------------------------------------------------------------------------
(* Answers. "ok" executed the call, "replayed" returned an earlier result. *)
Success == {"ok", "replayed"}

(* Business errors: the caller is told that this call moved nothing. *)
Rejection == {"InvalidArgument", "NotFound", "SameWallet", "CurrencyMismatch",
              "InsufficientFunds", "IdempotencyConflict", "Contention"}

(* "Failed" stands for DeadlineExceeded, Internal and Unavailable: the caller
   cannot tell whether the money moved.                                      *)
Code == {"none", "Failed"} \cup Success \cup Rejection

Reply == [code: Code, tx: TxnId \cup {NoTxn}]

NoReply == [code |-> "none", tx |-> NoTxn]

-----------------------------------------------------------------------------
(* What transaction t adds to wallet w. *)
Effect(t, w) == (IF w = t.to THEN t.amount ELSE 0)
              - (IF w = t.from THEN t.amount ELSE 0)

(* The balance that a set of transactions gives wallet w. *)
NetOf(T, w) == MapThenSumSet(LAMBDA t : Effect(t, w), T)
==============================================================================
