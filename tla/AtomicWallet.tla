---------------------------- MODULE AtomicWallet -----------------------------
(***************************************************************************)
(* What the wallet service promises its callers and its event consumers,   *)
(* without saying how: a money call takes effect in one atomic step, which *)
(* changes the balances, records the transaction and records its event, at *)
(* most once per (user, idempotency key); an answer tells the truth about  *)
(* that step.                                                              *)
(***************************************************************************)
EXTENDS WalletTypes

CONSTANT InitialOwner   \* the wallets there are when the observation starts

VARIABLES
  owner,     \* wallet id -> user, or NoUser
  balance,   \* wallet id -> cents
  txns,      \* executed transactions
  events,    \* recorded events
  call,      \* request -> the call it carries, or NoCall
  reply      \* request -> what the caller was told

vars == <<owner, balance, txns, events, call, reply>>

Init ==
  /\ owner = InitialOwner
  /\ balance = [w \in WalletIds |-> 0]
  /\ txns = {}
  /\ events = {}
  /\ call = [r \in Requests |-> NoCall]
  /\ reply = [r \in Requests |-> NoReply]

Pending(r) == call[r] # NoCall /\ reply[r] = NoReply

Answer(r, code, tx) == reply' = [reply EXCEPT ![r] = [code |-> code, tx |-> tx]]

(* A user without a wallet gets an unused one. *)
Open(u, w) ==
  /\ owner[w] = NoUser
  /\ \A v \in WalletIds : owner[v] # u
  /\ owner' = [owner EXCEPT ![w] = u]
  /\ UNCHANGED <<balance, txns, events, call, reply>>

Submit(r, c) ==
  /\ call[r] = NoCall
  /\ call' = [call EXCEPT ![r] = c]
  /\ IF ValidMoney(c) THEN reply' = reply
                      ELSE Answer(r, "InvalidArgument", NoTxn)
  /\ UNCHANGED <<owner, balance, txns, events>>

(* The transaction that r's n-th attempt makes on wallet w of its user. *)
Made(r, n, w) ==
  [id |-> <<r, n>>, user |-> call[r].user, kind |-> call[r].kind,
   from |-> IF call[r].kind = "DEPOSIT" THEN NoWallet ELSE w,
   to |-> IF call[r].kind = "DEPOSIT" THEN w ELSE call[r].to,
   amount |-> call[r].amount, key |-> call[r].key]

(* The call moves its money; the caller learns so, or loses the answer. *)
Execute(r, n, w) ==
  LET t == Made(r, n, w) IN
  /\ Pending(r)
  /\ owner[w] = call[r].user
  /\ \A x \in txns : ~SameKey(x, call[r])
  /\ t.kind = "TRANSFER" =>
       /\ owner[t.to] # NoUser
       /\ t.to # t.from
       /\ balance[t.from] >= t.amount
  /\ balance' = [v \in WalletIds |-> balance[v] + Effect(t, v)]
  /\ txns' = txns \cup {t}
  /\ events' = events \cup {EventOf(t)}
  /\ Answer(r, "ok", t.id) \/ Answer(r, "Failed", NoTxn)
  /\ UNCHANGED <<owner, call>>

(* The caller gets the result of an earlier execution of the same request. *)
Replay(r, t) ==
  /\ Pending(r)
  /\ SameKey(t, call[r])
  /\ SameRequest(t, call[r])
  /\ Answer(r, "replayed", t.id)
  /\ UNCHANGED <<owner, balance, txns, events, call>>

(* What must be true for the caller to be told so. An InsufficientFunds or
   Contention answer reports a past state of the wallet, an earlier read.    *)
Justified(c, code) ==
  /\ code \notin {"InvalidArgument", "CurrencyMismatch"}
  /\ code = "IdempotencyConflict" => \E t \in txns : SameKey(t, c) /\ ~SameRequest(t, c)
  /\ code = "NotFound" =>
       \/ \A w \in WalletIds : owner[w] # c.user
       \/ c.kind = "TRANSFER" /\ owner[c.to] = NoUser
  /\ code = "SameWallet" => c.kind = "TRANSFER" /\ owner[c.to] = c.user
  /\ code = "InsufficientFunds" => c.kind = "TRANSFER"

(* The caller gets an error and the call has not moved, nor will move, money. *)
Refuse(r, code) ==
  /\ Pending(r)
  /\ Justified(call[r], code)
  /\ Answer(r, code, NoTxn)
  /\ UNCHANGED <<owner, balance, txns, events, call>>

Next ==
  \/ \E u \in Users, w \in WalletIds : Open(u, w)
  \/ \E r \in Requests, c \in Calls : Submit(r, c)
  \/ \E r \in Requests, n \in 1..MaxRetries, w \in WalletIds : Execute(r, n, w)
  \/ \E r \in Requests : \E t \in txns : Replay(r, t)
  \/ \E r \in Requests, code \in Rejection \cup {"Failed"} : Refuse(r, code)

Spec == Init /\ [][Next]_vars
==============================================================================
