--------------------------- MODULE MCLedgerConsumer --------------------------
(* Instances of LedgerConsumer: what the two topics hold. *)
EXTENDS LedgerConsumer, TLC

CONSTANTS c1, c2, e1, e2, e3, wallet1, wallet2

transferOf(id, f, t, n) ==
  [id |-> id, topic |-> "transfers.completed", from |-> f, to |-> t, amount |-> n, form |-> "valid"]
depositOf(id, t, n) ==
  [id |-> id, topic |-> "wallet.deposited", from |-> "", to |-> t, amount |-> n, form |-> "valid"]
garbage(form) ==
  [id |-> form, topic |-> "transfers.completed", from |-> "", to |-> "", amount |-> 0, form |-> form]

(* A deposit, resent by the relay; a transfer behind a malformed message. *)
Resent ==
  [deposited |-> <<depositOf(e1, wallet1, 3), depositOf(e1, wallet1, 3)>>,
   completed |-> <<garbage("malformed"), transferOf(e2, wallet1, wallet2, 2)>>]

(* A message with every field, whose transactionId is not a uuid. *)
BadReference ==
  [completed |-> <<transferOf(e2, wallet1, wallet2, 2), garbage("badReference"),
                   transferOf(e3, wallet2, wallet1, 1)>>]
==============================================================================
