---------------------------- MODULE MCNotification ---------------------------
(* An instance of Notification: what the topic holds and who is connected. *)
EXTENDS Notification, TLC

CONSTANTS pod1, pod2, Ann, Bob, e1, e2

valid(e) == [id |-> e, form |-> "valid"]
bad(form) == [id |-> form, form |-> form]

(* e1 is a transfer from Ann to Bob, e2 a deposit of Bob's. *)
Addressed == (e1 :> <<Ann, Bob>>) @@ (e2 :> <<Bob>>)

(* Bob is connected to both pods, Ann to none. *)
OnBothPods == Consumers \X {Bob}

(* The transfer, sent twice by the relay, behind a malformed message and before one that
   has no value, which stands in front of the other event.                              *)
Mixed == [completed |-> <<bad("malformed"), valid(e1), valid(e1), bad("null"), valid(e2)>>]

(* The message without a value comes first. *)
NoValueFirst == [completed |-> <<bad("null"), valid(e1), bad("malformed")>>]
==============================================================================
