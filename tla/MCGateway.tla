------------------------------ MODULE MCGateway ------------------------------
(***************************************************************************)
(* The gateway for TLC: its API and its rate limiter. The API's model      *)
(* leaves the limiter's verdict open, so that the two share no state, and  *)
(* each is explored while the other rests. Of the API, sign-up and money   *)
(* are explored one at a time as well. Ann and Bob have accounts and       *)
(* wallets; Cy signs up.                                                   *)
(***************************************************************************)
EXTENDS Gateway, RateLimiter, TLC

CONSTANTS Ann, Bob, Cy, ann, cy, CY, nobody, p1, p2, k1, k2, h1, h2,
          q1, q2, pod1, pod2, c1, c2

VARIABLE scenario   \* what is explored

SpellingOf == (ann :> Ann) @@ (cy :> Cy) @@ (CY :> Cy) @@ (nobody :> NoUser)
AnnAndBob == [w \in WalletIds |-> IF w = 1 THEN Ann ELSE IF w = 2 THEN Bob ELSE NoUser]
BothHash == [u \in Users |-> IF u = Cy THEN NoPassword ELSE p1]

Plain == [op |-> "other", email |-> nobody, password |-> NoPassword, token |-> NoUser, body |-> TRUE,
          key |-> NoKey, amount |-> 0, to |-> NoWallet, tx |-> NoTxn]

register(e, p) == [Plain EXCEPT !.op = "register", !.email = e, !.password = p]
login(e, p) == [Plain EXCEPT !.op = "login", !.email = e, !.password = p]
getMyWallet(u) == [Plain EXCEPT !.op = "getMyWallet", !.token = u]
deposit(u, n, k) == [Plain EXCEPT !.op = "deposit", !.token = u, !.amount = n, !.key = k]
transfer(u, w, n, k) == [Plain EXCEPT !.op = "transfer", !.token = u, !.to = w, !.amount = n, !.key = k]
getTransfer(u, t) == [Plain EXCEPT !.op = "getTransfer", !.token = u, !.tx = t]
Garbled(m) == [m EXCEPT !.body = FALSE]

(* What a client who wants a wallet sends until he has one. *)
RepairMessages == {login(CY, p1), login(cy, p2), getMyWallet(Cy)}

(* One email in two spellings and with two passwords, an address that is none, a body that
   is no JSON, a request without a token and one without a route.                         *)
AccountMessages ==
  RepairMessages \cup {register(cy, p1), register(CY, p2), register(nobody, p1), Garbled(login(cy, p1)),
                       getMyWallet(NoUser), Plain}

(* Ann logs in, retries under one key, with the same amount and with another, and looks up
   whatever the requests may have made.                                               *)
MoneyMessages ==
  {login(ann, p1), deposit(Ann, 2, k1), deposit(Ann, 1, k1),
   transfer(Ann, 2, 2, k2), transfer(Ann, NoWallet, 1, k2),
   deposit(Ann, 2, NoKey), deposit(Ann, 2, BadKey), Garbled(deposit(Ann, 2, k1)), getTransfer(Ann, NoTxn)} \cup
  {getTransfer(Ann, <<h, 1>>) : h \in Requests}

AllMessages == AccountMessages \cup MoneyMessages

Limits == [auth |-> 1, user |-> 1]

SentIn(s) == CASE s = "accounts" -> AccountMessages [] s = "money" -> MoneyMessages [] s = "limits" -> {}

(* Among money calls deadlines pass without being counted as faults. *)
FaultsIn(s) == IF s = "accounts" THEN MaxFaults ELSE 1

GatewayInit ==
  /\ Init /\ LimiterInit
  /\ scenario \in {"accounts", "money", "limits"}
  /\ scenario # "limits" => ~trustProxy /\ skew = [p \in Pods |-> 0]

GatewayNext ==
  /\ \/ /\ (\E h \in Requests : \E m \in SentIn(scenario) : Receive(h, m)) \/ Serve
        /\ scenario # "limits"
        /\ faults' <= FaultsIn(scenario)
        /\ UNCHANGED limiterVars
     \/ scenario = "limits" /\ LimiterNext /\ UNCHANGED vars
  /\ UNCHANGED scenario

(* Cy keeps calling, and the limiter does not refuse him for ever. *)
KeepsCalling == \A m \in RepairMessages : SF_vars(scenario = "accounts" /\ Admit(m))

GatewaySpec ==
  GatewayInit /\ [][GatewayNext]_<<vars, limiterVars, scenario>> /\ Progress /\ KeepsCalling
==============================================================================
