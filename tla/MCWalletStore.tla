---------------------------- MODULE MCWalletStore ----------------------------
(***************************************************************************)
(* Instances of WalletStore for TLC: the calls that clients make.          *)
(***************************************************************************)
EXTENDS WalletStore, TLC

CONSTANTS Ann, Bob, k1, k2, r1, r2, r3, r4

deposit(u, n, k) == [kind |-> "DEPOSIT", user |-> u, to |-> NoWallet, amount |-> n, key |-> k]
transfer(u, w, n, k) == [kind |-> "TRANSFER", user |-> u, to |-> w, amount |-> n, key |-> k]

AnnAndBob == (1 :> Ann) @@ (2 :> Bob)
OnlyAnn == (1 :> NoUser) @@ (2 :> Ann)

(* Contention: both wallets are funded and money flows both ways at once. *)
ContentionCalls ==
  {deposit(Ann, 3, k1), deposit(Bob, 1, k1), transfer(Ann, 2, 2, k2), transfer(Bob, 1, 1, k2)}

(* Idempotency: one key for requests that differ in kind, amount or recipient, a
   bad amount and a bad key, and wallets that do not exist yet.                  *)
KeyCalls ==
  {deposit(Ann, 2, k1), deposit(Ann, 1, k1), transfer(Ann, 1, 2, k1), transfer(Ann, 1, 2, k2),
   transfer(Ann, 2, 2, k2), deposit(Ann, 0, k1), deposit(Ann, 1, BadKey), deposit(Bob, 1, k1)}

(* Which of these a request may make: each call can be made twice, and three transfers
   can meet. This takes the place of symmetry, which is unsound for a temporal property. *)
MayCall ==
  (r1 :> {deposit(Ann, 3, k1), deposit(Bob, 1, k1)}) @@
  (r2 :> {deposit(Bob, 1, k1), transfer(Ann, 2, 2, k2)}) @@
  (r3 :> {transfer(Ann, 2, 2, k2), transfer(Bob, 1, 1, k2)}) @@
  (r4 :> {transfer(Bob, 1, 1, k2), deposit(Ann, 3, k1)})

ContentionNext ==
  \/ \E u \in Users : CreateWallet(u)
  \/ \E r \in Requests : \E q \in MayCall[r] : Arrive(r, q)
  \/ \E r \in Requests : Step(r) \/ CommitLost(r) \/ Abort(r)

FairContention == Init /\ [][ContentionNext]_vars /\ Fairness
==============================================================================
