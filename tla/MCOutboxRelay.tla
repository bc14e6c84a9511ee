---------------------------- MODULE MCOutboxRelay ----------------------------
(* Instances of OutboxRelay: three rows of two wallets, in two topic partitions. *)
EXTENDS OutboxRelay, TLC

CONSTANTS p1, p2, wallet1, wallet2, transfers, deposits

RowKey == (1 :> wallet1) @@ (2 :> wallet1) @@ (3 :> wallet2)
RowLane == (1 :> transfers) @@ (2 :> transfers) @@ (3 :> deposits)

Symmetric == Permutations(Pods)
==============================================================================
