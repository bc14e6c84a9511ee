------------------------------- MODULE Gateway -------------------------------
(***************************************************************************)
(* The gateway's HTTP API in front of the wallet service: sign-up, login,  *)
(* the self-healing GET /wallets/me, deposits, transfers and GET           *)
(* /transfers/{id}, on any number of gateway pods.                         *)
(*                                                                         *)
(* The wallet service is AtomicWallet: an HTTP request h makes at most one *)
(* money call, which has the same name. A gateway that stops waiting for a *)
(* call (deadline, killed pod, client gone) does not stop the call: it may *)
(* still take effect afterwards.                                           *)
(*                                                                         *)
(* Rate limits are the subject of RateLimiter: here every request that     *)
(* passes a limiter may be told 429. A token is its user, from login until *)
(* it expires.                                                             *)
(***************************************************************************)
EXTENDS WalletTypes

CONSTANTS
  InitialOwner,   \* wallets opened before the observation starts
  InitialHash,    \* user -> password of the users registered before it
  Spellings,      \* what clients type as their email
  Normalised,     \* spelling -> the user it stands for (trimmed, lower case), or NoUser
  Passwords,      \* passwords of legal length
  NoPassword,     \* no row in auth.users; as an input: a password of illegal length
  NoKey,          \* no Idempotency-Key header
  Messages,       \* the HTTP requests clients may send
  MaxFaults       \* bound: failed calls, unanswered calls and expired tokens in a behaviour

AccountOps == {"register", "login"}
WalletOps == {"getMyWallet", "deposit", "transfer", "getTransfer"}

(* body: the JSON decodes; tx: the {id} of the path. A wallet or transaction id
   that is no uuid is NoWallet or NoTxn.                                       *)
Message == [op: AccountOps \cup WalletOps \cup {"other"}, email: Spellings, password: Passwords \cup {NoPassword},
            token: Users \cup {NoUser}, body: BOOLEAN, key: Keys \cup {NoKey, BadKey},
            amount: Int, to: WalletIds \cup {NoWallet}, tx: TxnId \cup {NoTxn}]

ASSUME GatewayAssumption ==
  /\ Messages \subseteq Message
  /\ Normalised \in [Spellings -> Users \cup {NoUser}]
  /\ InitialHash \in [Users -> Passwords \cup {NoPassword}]
  /\ NoPassword \notin Passwords /\ NoKey \notin Keys \cup {BadKey}
  /\ MaxFaults \in Nat

(* Tables as the services leave them: UNIQUE (user_id), and no wallet without an account. *)
ASSUME TablesAssumption ==
  /\ InitialOwner \in [WalletIds -> Users \cup {NoUser}]
  /\ \A v, w \in WalletIds : InitialOwner[v] = InitialOwner[w] /\ InitialOwner[v] # NoUser => v = w
  /\ \A w \in WalletIds : InitialOwner[w] # NoUser => InitialHash[InitialOwner[w]] # NoPassword

VARIABLES
  owner, balance, txns, events, call, reply,   \* the wallet service
  hash,     \* auth.users: user -> password_hash, NoPassword if there is no row
  tokens,   \* users with an unexpired token
  msg,      \* HTTP request -> its message
  pc,       \* HTTP request -> where its handler is
  rpc,      \* HTTP request -> its CreateWallet call
  status,   \* HTTP request -> answered status code (0: none)
  wallet,   \* HTTP request -> the wallet id CreateWallet returned, or NoWallet
  told,     \* history: user -> wallet ids that answers have named
  faults    \* failures so far

walletVars == <<owner, balance, txns, events, call, reply>>
vars == <<walletVars, hash, tokens, msg, pc, rpc, status, wallet, told, faults>>

W == INSTANCE AtomicWallet

NoMessage == <<>>

Init ==
  /\ W!Init
  /\ hash = InitialHash
  /\ tokens = {}
  /\ msg = [h \in Requests |-> NoMessage]
  /\ pc = [h \in Requests |-> "idle"]
  /\ rpc = [h \in Requests |-> "none"]
  /\ status = [h \in Requests |-> 0]
  /\ wallet = [h \in Requests |-> NoWallet]
  /\ told = [u \in Users |-> {w \in WalletIds : InitialOwner[w] = u}]
  /\ faults = 0

Fault == faults < MaxFaults /\ faults' = faults + 1

-----------------------------------------------------------------------------
(* Answers. *)

(* The user a request acts for: the token's, or the email's. *)
UserOf(m) == IF m.op \in AccountOps THEN Normalised[m.email] ELSE m.token

Answer(h, code) ==
  /\ pc' = [pc EXCEPT ![h] = "done"]
  /\ status' = [status EXCEPT ![h] = code]

(* toWalletJSON, and register's walletId: the answer names a wallet. *)
AnswerWallet(h, code, w) ==
  /\ Answer(h, code)
  /\ told' = [told EXCEPT ![UserOf(msg[h])] = @ \cup {w}]

(* toStatus: the gRPC codes that a reply of the wallet may carry. *)
GrpcCodes(code) ==
  CASE code = "NotFound" -> {"NotFound"}
    [] code = "InsufficientFunds" -> {"FailedPrecondition"}
    [] code \in {"InvalidArgument", "SameWallet", "CurrencyMismatch"} -> {"InvalidArgument"}
    [] code = "IdempotencyConflict" -> {"AlreadyExists"}
    [] code = "Contention" -> {"Aborted"}
    [] code = "Failed" -> {"DeadlineExceeded", "Internal", "Unavailable"}

(* A mutant: a lost answer is reported like a conflict, for the client to retry. *)
HttpStatusTimeoutAsConflict(code) ==
  CASE code = "InvalidArgument" -> 400
    [] code = "NotFound" -> 404
    [] code \in {"AlreadyExists", "Aborted", "DeadlineExceeded"} -> 409
    [] code = "FailedPrecondition" -> 422
    [] OTHER -> 500

(* A mutant: a key that was used before counts as done. *)
HttpStatusExistsAsDone(code) ==
  CASE code = "InvalidArgument" -> 400
    [] code = "NotFound" -> 404
    [] code = "AlreadyExists" -> 201
    [] code = "Aborted" -> 409
    [] code = "FailedPrecondition" -> 422
    [] OTHER -> 504

(* httpStatusFor *)
HttpStatusFor(code) ==
  CASE code = "InvalidArgument" -> 400
    [] code = "NotFound" -> 404
    [] code \in {"AlreadyExists", "Aborted"} -> 409
    [] code = "FailedPrecondition" -> 422
    [] code = "Unavailable" -> 503
    [] code = "DeadlineExceeded" -> 504
    [] OTHER -> 500

(* What a call that failed for no reason of its own becomes. *)
ServerErrors == {HttpStatusFor(code) : code \in GrpcCodes("Failed")}

-----------------------------------------------------------------------------
(* Routes and their wrappers. *)

(* requireAuth *)
LoggedIn(m) == m.token \in tokens

(* What the wrappers of its route make of a request: 0 (go on) or a final answer. *)
Gate(m) ==
  IF m.op = "other" THEN {404}
  ELSE IF m.op \in WalletOps /\ ~LoggedIn(m) THEN {401}
  ELSE {0, 429}

Receive(h, m) ==
  /\ pc[h] = "idle"
  /\ msg' = [msg EXCEPT ![h] = m]
  /\ \E code \in Gate(m) :
       IF code = 0 THEN pc' = [pc EXCEPT ![h] = "handler"] /\ status' = status
                   ELSE Answer(h, code)
  /\ UNCHANGED <<walletVars, hash, tokens, rpc, wallet, told, faults>>

(* The client has read the answer of an account request and may send another. *)
Again(h) ==
  /\ pc[h] = "done"
  /\ call[h] = NoCall
  /\ rpc[h] # "sent"
  /\ msg' = [msg EXCEPT ![h] = NoMessage]
  /\ pc' = [pc EXCEPT ![h] = "idle"]
  /\ rpc' = [rpc EXCEPT ![h] = "none"]
  /\ status' = [status EXCEPT ![h] = 0]
  /\ wallet' = [wallet EXCEPT ![h] = NoWallet]
  /\ UNCHANGED <<walletVars, hash, tokens, told, faults>>

(* JWT_TTL has passed. It is long compared with a call, so this is as rare as a fault. *)
TokenExpires(u) ==
  /\ u \in tokens
  /\ Fault
  /\ tokens' = tokens \ {u}
  /\ UNCHANGED <<walletVars, hash, msg, pc, rpc, status, wallet, told>>

InHandler(h, op) == pc[h] = "handler" /\ msg[h].op = op

-----------------------------------------------------------------------------
(* Accounts. *)

ValidCredentials(m) == m.body /\ Normalised[m.email] # NoUser /\ m.password # NoPassword

(* The handler goes on to call CreateWallet. *)
CallCreateWallet(h) ==
  /\ pc' = [pc EXCEPT ![h] = "createWallet"]
  /\ rpc' = [rpc EXCEPT ![h] = "sent"]

(* register up to CreateWallet: UNIQUE (email) decides between two sign-ups. *)
Register(h) ==
  LET u == Normalised[msg[h].email] IN
  /\ InHandler(h, "register")
  /\ IF ~ValidCredentials(msg[h]) THEN Answer(h, 400) /\ UNCHANGED <<hash, rpc>>
     ELSE IF hash[u] # NoPassword THEN Answer(h, 409) /\ UNCHANGED <<hash, rpc>>
     ELSE /\ hash' = [hash EXCEPT ![u] = msg[h].password]
          /\ CallCreateWallet(h)
          /\ status' = status
  /\ UNCHANGED <<walletVars, tokens, msg, wallet, told, faults>>

(* The INSERT fails, or takes effect without the gateway learning it. *)
RegisterFails(h) ==
  LET u == Normalised[msg[h].email] IN
  /\ InHandler(h, "register")
  /\ ValidCredentials(msg[h])
  /\ Fault
  /\ hash' = hash \/ (hash[u] = NoPassword /\ hash' = [hash EXCEPT ![u] = msg[h].password])
  /\ Answer(h, 500)
  /\ UNCHANGED <<walletVars, tokens, msg, rpc, wallet, told>>

CheckPassword(u, password) == hash[u] # NoPassword /\ hash[u] = password

(* issue: a token that counts until TokenExpires. *)
Issue(u) == tokens' = tokens \cup {u}

Login(h) ==
  LET m == msg[h]
      u == Normalised[m.email] IN
  /\ InHandler(h, "login")
  /\ IF ~m.body THEN Answer(h, 400) /\ tokens' = tokens
     ELSE IF u = NoUser \/ ~CheckPassword(u, m.password) THEN Answer(h, 401) /\ tokens' = tokens
     ELSE Answer(h, 200) /\ Issue(u)
  /\ UNCHANGED <<walletVars, hash, msg, rpc, wallet, told, faults>>

-----------------------------------------------------------------------------
(* CreateWallet, called by register and by getMyWallet. *)

WalletsOf(u) == {w \in WalletIds : owner[w] = u}

(* A mutant: the INSERT has no ON CONFLICT (user_id), nor a UNIQUE to need it. *)
CreateWalletTwice(h) ==
  /\ rpc[h] = "sent"
  /\ rpc' = [rpc EXCEPT ![h] = "ok"]
  /\ \E w \in WalletIds :
       /\ owner[w] = NoUser
       /\ owner' = [owner EXCEPT ![w] = UserOf(msg[h])]
       /\ wallet' = [wallet EXCEPT ![h] = w]
  /\ UNCHANGED <<balance, txns, events, call, reply, hash, tokens, msg, pc, status, told, faults>>

(* The wallet service executes the call, whether or not it is still waited for:
   the user's wallet, opened now if there is none.                             *)
CreateWallet(h) ==
  /\ rpc[h] = "sent"
  /\ rpc' = [rpc EXCEPT ![h] = "ok"]
  /\ \E w \in WalletIds :
       /\ \/ w \in WalletsOf(UserOf(msg[h])) /\ UNCHANGED walletVars
          \/ W!Open(UserOf(msg[h]), w)
       /\ wallet' = [wallet EXCEPT ![h] = w]
  /\ UNCHANGED <<hash, tokens, msg, pc, status, told, faults>>

(* The answer of CreateWallet arrives. *)
WalletCreated(h) ==
  /\ pc[h] = "createWallet"
  /\ rpc[h] = "ok"
  /\ AnswerWallet(h, IF msg[h].op = "register" THEN 201 ELSE 200, wallet[h])
  /\ UNCHANGED <<walletVars, hash, tokens, msg, rpc, wallet, faults>>

(* CreateWallet fails or its deadline passes. register answers all the same, with
   no wallet id. The call may be lost, done, or still on its way.                *)
CreateWalletFails(h) ==
  /\ pc[h] = "createWallet"
  /\ Fault
  /\ rpc' \in {rpc, [rpc EXCEPT ![h] = "failed"]}
  /\ IF msg[h].op = "register"
       THEN Answer(h, 201)
       ELSE \E code \in ServerErrors : Answer(h, code)
  /\ UNCHANGED <<walletVars, hash, tokens, msg, wallet, told>>

(* A mutant: no self-healing. *)
GetMyWalletOnly(h) ==
  /\ InHandler(h, "getMyWallet")
  /\ IF WalletsOf(msg[h].token) # {}
       THEN \E w \in WalletsOf(msg[h].token) : AnswerWallet(h, 200, w)
       ELSE Answer(h, 404) /\ told' = told
  /\ UNCHANGED <<walletVars, hash, tokens, msg, rpc, wallet, faults>>

(* getMyWallet: GetWallet, and CreateWallet if that finds nothing. *)
GetMyWallet(h) ==
  /\ InHandler(h, "getMyWallet")
  /\ \/ /\ \E w \in WalletsOf(msg[h].token) : AnswerWallet(h, 200, w)
        /\ rpc' = rpc
     \/ /\ WalletsOf(msg[h].token) = {}
        /\ CallCreateWallet(h)
        /\ UNCHANGED <<status, told>>
  /\ UNCHANGED <<walletVars, hash, tokens, msg, wallet, faults>>

-----------------------------------------------------------------------------
(* Money. *)

CallOf(m) == [kind |-> IF m.op = "deposit" THEN "DEPOSIT" ELSE "TRANSFER",
              user |-> m.token, to |-> m.to, amount |-> m.amount, key |-> m.key]

(* parseUUID; bad stands for the ids that are no uuids. *)
IsUuid(id, bad) == id # bad

(* Refused before the store is asked: by the handler here, or by parseUUID there. *)
BadMoneyRequest(m) == m.key = NoKey \/ ~m.body \/ (m.op = "transfer" /\ ~IsUuid(m.to, NoWallet))

(* deposit and transfer up to the wallet's answer. *)
CallMoney(h) ==
  /\ InHandler(h, "deposit") \/ InHandler(h, "transfer")
  /\ IF BadMoneyRequest(msg[h])
       THEN Answer(h, 400) /\ UNCHANGED walletVars
       ELSE /\ W!Submit(h, CallOf(msg[h]))
            /\ pc' = [pc EXCEPT ![h] = "money"]
            /\ status' = status
  /\ UNCHANGED <<hash, tokens, msg, rpc, wallet, told, faults>>

(* The wallet's answer arrives: 201, or walletError. *)
MoneyAnswered(h) ==
  /\ pc[h] = "money"
  /\ reply[h] # NoReply
  /\ IF reply[h].code \in Success
       THEN Answer(h, 201)
       ELSE \E code \in GrpcCodes(reply[h].code) : Answer(h, HttpStatusFor(code))
  /\ UNCHANGED <<walletVars, hash, tokens, msg, rpc, wallet, told, faults>>

(* callCtx's deadline passes while the wallet is still at it. *)
MoneyTimeout(h) ==
  /\ pc[h] = "money"
  /\ Answer(h, HttpStatusFor("DeadlineExceeded"))
  /\ UNCHANGED <<walletVars, hash, tokens, msg, rpc, wallet, told, faults>>

(* WHERE t.id = $1 AND (from_wallet_id or to_wallet_id is the user's) *)
Sees(u, t) == t.from \in WalletsOf(u) \/ t.to \in WalletsOf(u)

(* GetTransaction finds something. *)
Found(u, id) == \E t \in txns : t.id = id /\ Sees(u, t)

GetTransfer(h) ==
  LET m == msg[h] IN
  /\ InHandler(h, "getTransfer")
  /\ IF ~IsUuid(m.tx, NoTxn) THEN Answer(h, 400)
     ELSE IF Found(m.token, m.tx) THEN Answer(h, 200)
     ELSE Answer(h, 404)
  /\ UNCHANGED <<walletVars, hash, tokens, msg, rpc, wallet, told, faults>>

(* Any handler: a call to PostgreSQL or to the wallet fails before it does anything. *)
CallFails(h) ==
  /\ pc[h] = "handler"
  /\ msg[h].op # "register"
  /\ Fault
  /\ \E code \in IF msg[h].op = "login" THEN {500} ELSE ServerErrors : Answer(h, code)
  /\ UNCHANGED <<walletVars, hash, tokens, msg, rpc, wallet, told>>

(* The pod is killed or the client hangs up: no answer. A CreateWallet that has
   not been sent yet never will be.                                            *)
NoAnswer(h) ==
  /\ pc[h] \in {"handler", "createWallet", "money"}
  /\ Fault
  /\ rpc' \in {rpc, [rpc EXCEPT ![h] = IF @ = "sent" THEN "failed" ELSE @]}
  /\ Answer(h, 0)
  /\ UNCHANGED <<walletVars, hash, tokens, msg, wallet, told>>

-----------------------------------------------------------------------------
(* The wallet service works on the money calls it has. *)
WalletStep ==
  /\ \/ \E h \in Requests, w \in WalletIds : W!Execute(h, 1, w)
     \/ \E h \in Requests : \E t \in txns : W!Replay(h, t)
     \/ \E h \in Requests, code \in Rejection \cup {"Failed"} : W!Refuse(h, code)
  /\ UNCHANGED <<hash, tokens, msg, pc, rpc, status, wallet, told, faults>>

Handle(h) ==
  \/ Register(h) \/ Login(h) \/ WalletCreated(h) \/ GetMyWallet(h)
  \/ CallMoney(h) \/ MoneyAnswered(h) \/ GetTransfer(h)

(* What the gateway's pods, the wallet service and the clients do with the requests. *)
Serve ==
  \/ \E h \in Requests :
       \/ Handle(h) \/ CreateWallet(h) \/ Again(h)
       \/ RegisterFails(h) \/ CreateWalletFails(h) \/ MoneyTimeout(h) \/ CallFails(h) \/ NoAnswer(h)
  \/ WalletStep
  \/ \E u \in Users : TokenExpires(u)

Next ==
  \/ \E h \in Requests, m \in Messages : Receive(h, m)
  \/ Serve

Spec == Init /\ [][Next]_vars

(* A request with message m gets past the limiter. *)
Admit(m) == \E h \in Requests : Receive(h, m) /\ pc'[h] = "handler"

(* Handlers and the wallet service go on by themselves, and clients read their answers. *)
Progress == \A h \in Requests : WF_vars(Handle(h)) /\ WF_vars(CreateWallet(h)) /\ WF_vars(Again(h))

-----------------------------------------------------------------------------
(* All the wallet ids a user is ever told are the same one, and it is his. *)
OneWallet == \A u \in Users : \A w \in told[u] : WalletsOf(u) = {w}

(* Only registered users get wallets. *)
WalletsHaveUsers == \A w \in WalletIds : owner[w] # NoUser => hash[owner[w]] # NoPassword

(* Whoever was told 201 has the account: a second sign-up for the same email, however
   spelled and however close to the first, does not take it over.                     *)
SignUpKeepsPassword ==
  \A h \in Requests :
    status[h] = 201 /\ msg[h].op = "register" => hash[UserOf(msg[h])] = msg[h].password

(* Two sign-ups, a sign-up that is repaired, late CreateWallet calls: one account per
   email and one wallet per account, though auth.users and wallet.wallets are written by
   two services that share no transaction.                                              *)
OneAccountOneWallet == OneWallet /\ WalletsHaveUsers /\ SignUpKeepsPassword

(* A 4xx answer to a deposit or transfer is final: that request has moved nothing, and
   will not move anything after the answer either.                                   *)
RefusedMovesNothing ==
  \A h \in Requests :
    status[h] \in 400..499 => \A t \in txns : t.id[1] # h

(* 201 to a deposit or transfer: its user's money has moved as this request said, once
   for its key, whichever of the client's retries did it.                             *)
CreatedMeansMovedOnce ==
  \A h \in Requests :
    status[h] = 201 /\ call[h] # NoCall =>
      Cardinality({t \in txns : SameKey(t, call[h])}) = 1
      /\ \E t \in txns : SameKey(t, call[h]) /\ SameRequest(t, call[h])

(* A registered user who keeps calling gets a wallet, even if the CreateWallet of his
   sign-up failed and the sign-up itself went unanswered.                             *)
EveryUserGetsWallet ==
  \A u \in Users : hash[u] # NoPassword ~> told[u] # {}
==============================================================================
