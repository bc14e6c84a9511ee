-------------------------- MODULE WalletStoreProofs --------------------------
(***************************************************************************)
(* Theorems about WalletStore, for any requests, users, wallets, keys,     *)
(* calls, retry limit and column widths: types, idempotency keys and       *)
(* locks. What a request has read of a wallet is still true while it holds *)
(* the wallet's row, and requests do not wait for each other in a circle.  *)
(*                                                                         *)
(* Then what callers and consumers may conclude: answers tell the truth    *)
(* about the money, the outbox about the transactions, every step is one   *)
(* of the abstract wallet (AtomicWallet) or invisible to callers, no       *)
(* update is lost, and contention means progress.                          *)
(***************************************************************************)
EXTENDS WalletStore, SumProofs, TLAPS

Locking == {"update2", "insertTx", "insertOutbox", "commit"}
Located == {"readTo", "update1"} \cup Locking
Checked == {"update1"} \cup Locking

(* What a request's program counter says about its local variables. *)
Shape(r) ==
  /\ pc[r] = "idle" => call[r] = NoCall
  /\ pc[r] # "idle" => call[r] \in Calls
  /\ pc[r] \in InTransaction \cup {"backoff"} =>
       ValidMoney(call[r]) /\ attempt[r] \in 1..MaxRetries
  /\ pc[r] \in {"readTo", "update2"} => IsTransfer(r)
  /\ pc[r] \in Located => own[r] \in Row
  /\ pc[r] \in Checked /\ IsTransfer(r) =>
       peer[r] \in Row /\ peer[r].id = call[r].to /\ peer[r].id # own[r].id
  /\ pc[r] = "commit" => rowId[r] # 0

Shapes == \A r \in Requests : Shape(r)

(* Two open transactions never hold the same row. *)
LocksExclusive ==
  \A r, s \in Requests : r # s => Held(r) \cap Held(s) = {}

(* What an UPDATE has found representable stays so until the COMMIT. *)
WritesFit ==
  \A r \in Requests :
    /\ pc[r] \in Locking => Representable(First(r), FirstDelta(r))
    /\ pc[r] \in Locking \ {"update2"} /\ IsTransfer(r) =>
         Representable(Second(r), SecondDelta(r))

(* Only one open transaction has an entry under a key, and no committed one. *)
KeysExclusive ==
  \A r \in Requests : pc[r] \in {"insertOutbox", "commit"} =>
    /\ ~KeyTaken(call[r])
    /\ \A s \in Requests \ {r} :
         pc[s] \in {"insertOutbox", "commit"} => ~SameKey(call[s], call[r])

TypeInv == TypeOK /\ Shapes /\ LocksExclusive /\ WritesFit

LEMMA InitType == Init => TypeInv
  BY IdsAssumption, CallsAssumption, RetriesAssumption, OwnerAssumption, LimitsAssumption
  DEF Init, TypeInv, TypeOK, Shapes, Shape, LocksExclusive, WritesFit, Held, PC, InTransaction,
      Locking, Located, Checked, Reply, NoReply, NoTxn, Code

-----------------------------------------------------------------------------
(* Frames: a step of one request leaves the local variables of the others. *)

Others(r) ==
  \A s \in Requests \ {r} :
    /\ pc'[s] = pc[s] /\ call'[s] = call[s] /\ attempt'[s] = attempt[s]
    /\ own'[s] = own[s] /\ peer'[s] = peer[s] /\ rowId'[s] = rowId[s]
    /\ reply'[s] = reply[s]

LEMMA OthersKeep ==
  ASSUME NEW r \in Requests, Others(r), NEW s \in Requests \ {r}
  PROVE  /\ Held(s)' = Held(s) /\ First(s)' = First(s) /\ Second(s)' = Second(s)
         /\ FirstDelta(s)' = FirstDelta(s) /\ SecondDelta(s)' = SecondDelta(s)
         /\ Touched(s)' = Touched(s) /\ IsTransfer(s)' = IsTransfer(s)
         /\ Shape(s)' = Shape(s)
  BY DEF Others, Held, First, Second, FirstDelta, SecondDelta, Touched, IsTransfer,
         RecipientFirst, Shape

LEMMA ShapesStep ==
  ASSUME NEW r \in Requests, Others(r), Shapes, Shape(r)'
  PROVE  Shapes'
  BY OthersKeep DEF Shapes

(* r releases rows, or takes one that nobody holds. *)
LEMMA LocksStep ==
  ASSUME NEW r \in Requests, Others(r), LocksExclusive, NEW w, Unlocked(r, w),
         Held(r)' \subseteq Held(r) \cup {w}
  PROVE  LocksExclusive'
  BY OthersKeep DEF LocksExclusive, Unlocked

LEMMA LocksRelease ==
  ASSUME NEW r \in Requests, Others(r), LocksExclusive, Held(r)' \subseteq Held(r)
  PROVE  LocksExclusive'
  BY OthersKeep DEF LocksExclusive

LEMMA WritesStep ==
  ASSUME NEW r \in Requests, Others(r), UNCHANGED <<balance, version>>, WritesFit,
         pc'[r] \in Locking => Representable(First(r), FirstDelta(r))',
         pc'[r] \in Locking \ {"update2"} /\ IsTransfer(r)' =>
           Representable(Second(r), SecondDelta(r))'
  PROVE  WritesFit'
<1> SUFFICES ASSUME NEW s \in Requests
             PROVE  /\ pc'[s] \in Locking => Representable(First(s), FirstDelta(s))'
                    /\ pc'[s] \in Locking \ {"update2"} /\ IsTransfer(s)' =>
                         Representable(Second(s), SecondDelta(s))'
  BY DEF WritesFit
<1>1. CASE s = r
  BY <1>1
<1>2. CASE s # r
  <2>1. /\ First(s)' = First(s) /\ Second(s)' = Second(s) /\ pc'[s] = pc[s]
        /\ FirstDelta(s)' = FirstDelta(s) /\ SecondDelta(s)' = SecondDelta(s)
        /\ IsTransfer(s)' = IsTransfer(s)
    BY <1>2, OthersKeep DEF Others
  <2> QED
    BY <2>1 DEF WritesFit, Representable
<1> QED
  BY <1>1, <1>2

-----------------------------------------------------------------------------
(* The ways a statement can end. *)

Busy == InTransaction \cup {"backoff"}

LEMMA FinishKeeps ==
  ASSUME TypeInv, NEW r \in Requests, pc[r] \in Busy,
         NEW code \in Code, NEW tx \in TxnId \cup {NoTxn}, Finish(r, code, tx)
  PROVE  TypeInv'
<1> USE DEF TypeInv
<1>1. TypeOK'
  BY DEF TypeOK, Finish, Answer, Forget, tables, PC, Reply
<1>2. Others(r)
  BY DEF TypeOK, Finish, Answer, Forget, Others
<1>3. pc'[r] = "done" /\ call'[r] = call[r]
  BY DEF TypeOK, Finish, Answer
<1>4. Shapes'
  <2>1. Shape(r)'
    BY <1>3 DEF Shapes, Shape, InTransaction, Located, Checked, Locking, Busy
  <2> QED
    BY <1>2, <2>1, ShapesStep
<1>5. LocksExclusive'
  BY <1>2, <1>3, LocksRelease DEF Held
<1>6. WritesFit'
  BY <1>2, <1>3, WritesStep DEF Finish, tables, Locking
<1> QED
  BY <1>1, <1>4, <1>5, <1>6

LEMMA RetryKeeps ==
  ASSUME TypeInv, NEW r \in Requests, pc[r] \in InTransaction, Retry(r)
  PROVE  TypeInv'
<1> USE DEF TypeInv
<1>1. TypeOK'
  BY DEF TypeOK, Retry, Forget, tables, PC
<1>2. Others(r)
  BY DEF TypeOK, Retry, Forget, Others
<1>3. pc'[r] = "backoff" /\ call'[r] = call[r] /\ attempt'[r] = attempt[r]
  BY DEF TypeOK, Retry
<1>4. Shapes'
  <2>1. Shape(r)'
    BY <1>3 DEF Shapes, Shape, InTransaction, Located, Checked, Locking
  <2> QED
    BY <1>2, <2>1, ShapesStep
<1>5. LocksExclusive'
  BY <1>2, <1>3, LocksRelease DEF Held
<1>6. WritesFit'
  BY <1>2, <1>3, WritesStep DEF Retry, tables, Locking
<1> QED
  BY <1>1, <1>4, <1>5, <1>6

(* A statement that succeeds and takes no lock. *)
LEMMA GotoKeeps ==
  ASSUME TypeInv, NEW r \in Requests, NEW label \in PC, Goto(r, label),
         outboxSeq' \in Nat, Others(r),
         own' \in [Requests -> Row \cup {NoRow}], peer' \in [Requests -> Row \cup {NoRow}],
         rowId' \in [Requests -> Nat], Shape(r)', Held(r)' \subseteq Held(r),
         label \in Locking =>
           Representable(First(r), FirstDelta(r))' /\ label # "update2" /\
             (IsTransfer(r)' => Representable(Second(r), SecondDelta(r))')
  PROVE  TypeInv'
<1> USE DEF TypeInv
<1>1. TypeOK'
  BY DEF TypeOK, Goto, tables
<1>2. pc'[r] = label
  BY DEF TypeOK, Goto
<1>3. Shapes' /\ LocksExclusive'
  BY ShapesStep, LocksRelease
<1>4. WritesFit'
  BY <1>2, WritesStep DEF Goto, tables
<1> QED
  BY <1>1, <1>3, <1>4

-----------------------------------------------------------------------------
(* One lemma per action. *)

LEMMA LocalsFrozen ==
  ASSUME Shapes, LocksExclusive, WritesFit,
         UNCHANGED <<balance, version, call, pc, attempt, own, peer, rowId, reply>>
  PROVE  Shapes' /\ LocksExclusive' /\ WritesFit'
<1>1. ASSUME NEW s \in Requests
      PROVE  /\ Held(s)' = Held(s) /\ First(s)' = First(s) /\ Second(s)' = Second(s)
             /\ FirstDelta(s)' = FirstDelta(s) /\ SecondDelta(s)' = SecondDelta(s)
             /\ IsTransfer(s)' = IsTransfer(s) /\ Shape(s)' = Shape(s)
  BY DEF Held, First, Second, FirstDelta, SecondDelta, Touched, IsTransfer, RecipientFirst, Shape
<1>2. Shapes' /\ LocksExclusive'
  BY <1>1 DEF Shapes, LocksExclusive
<1>3. WritesFit'
  BY <1>1 DEF WritesFit, Representable
<1> QED
  BY <1>2, <1>3

LEMMA CreateWalletKeeps ==
  ASSUME TypeInv, NEW u \in Users, CreateWallet(u)
  PROVE  TypeInv'
<1>1. /\ owner' \in [WalletIds -> Users \cup {NoUser}]
      /\ UNCHANGED <<balance, version, txns, outbox, outboxSeq,
                     call, pc, attempt, own, peer, rowId, reply>>
  BY DEF CreateWallet, vars, TypeInv, TypeOK
<1>2. TypeOK'
  BY <1>1 DEF TypeInv, TypeOK
<1> QED
  BY <1>1, <1>2, LocalsFrozen DEF TypeInv

LEMMA ArriveKeeps ==
  ASSUME TypeInv, NEW r \in Requests, NEW c \in Calls, Arrive(r, c)
  PROVE  TypeInv'
<1> USE DEF TypeInv
<1>1. TypeOK'
  <2>1. [code |-> "InvalidArgument", tx |-> NoTxn] \in Reply
    BY DEF Reply, Code, Rejection
  <2> QED
    BY <2>1, RetriesAssumption DEF TypeOK, Arrive, Answer, tables, PC, InTransaction
<1>2. Others(r)
  BY DEF TypeOK, Arrive, Answer, Others
<1>3. call'[r] = c /\ pc'[r] \in {"find", "done"} /\
      (pc'[r] = "find" => ValidMoney(c) /\ attempt'[r] \in 1..MaxRetries)
  BY RetriesAssumption DEF TypeOK, Arrive, Answer
<1>4. Shapes'
  <2>1. Shape(r)'
    BY <1>3 DEF Shape, InTransaction, Located, Checked, Locking
  <2> QED
    BY <1>2, <2>1, ShapesStep
<1>5. LocksExclusive'
  BY <1>2, <1>3, LocksRelease DEF Held
<1>6. WritesFit'
  BY <1>2, <1>3, WritesStep DEF Arrive, tables, Locking
<1> QED
  BY <1>1, <1>4, <1>5, <1>6

LEMMA FindByKeyKeeps ==
  ASSUME TypeInv, NEW r \in Requests, FindByKey(r)
  PROVE  TypeInv'
<1>1. ASSUME NEW t \in txns, Finish(r, "replayed", t.id) PROVE TypeInv'
  BY <1>1, FinishKeeps DEF FindByKey, Busy, InTransaction, TypeInv, TypeOK, Txn, Code, Success
<1>2. ASSUME Finish(r, "IdempotencyConflict", NoTxn) PROVE TypeInv'
  BY <1>2, FinishKeeps DEF FindByKey, Busy, InTransaction, Code, Rejection
<1>3. ASSUME Goto(r, "readFrom"), UNCHANGED <<outboxSeq, own, peer, rowId>> PROVE TypeInv'
  <2>1. Others(r)
    BY <1>3 DEF Goto, Others, TypeInv, TypeOK
  <2>2. pc'[r] = "readFrom" /\ call'[r] = call[r] /\ attempt'[r] = attempt[r]
    BY <1>3 DEF Goto, TypeInv, TypeOK
  <2>3. Shape(r)' /\ Held(r)' \subseteq Held(r)
    BY <2>2 DEF FindByKey, TypeInv, Shapes, Shape, Held, InTransaction, Located, Checked, Locking
  <2> QED
    BY <1>3, <2>1, <2>3, GotoKeeps DEF TypeInv, TypeOK, PC, InTransaction, Locking
<1> QED
  BY <1>1, <1>2, <1>3 DEF FindByKey

LEMMA ReadRowType == TypeOK => \A w \in WalletIds : ReadRow(w) \in Row
  BY DEF TypeOK, ReadRow, Row

LEMMA ReadFromKeeps ==
  ASSUME TypeInv, NEW r \in Requests, ReadFrom(r)
  PROVE  TypeInv'
<1>1. ASSUME Finish(r, "NotFound", NoTxn) PROVE TypeInv'
  BY <1>1, FinishKeeps DEF ReadFrom, Busy, InTransaction, Code, Rejection
<1>2. ASSUME NEW w \in WalletIds, own' = [own EXCEPT ![r] = ReadRow(w)],
             Goto(r, IF IsTransfer(r) THEN "readTo" ELSE "update1"),
             UNCHANGED <<outboxSeq, peer, rowId>>
      PROVE  TypeInv'
  <2>1. Others(r)
    BY <1>2 DEF Goto, Others, TypeInv, TypeOK
  <2>2. /\ pc'[r] = IF IsTransfer(r) THEN "readTo" ELSE "update1"
        /\ call'[r] = call[r] /\ attempt'[r] = attempt[r] /\ own'[r] \in Row
        /\ own' \in [Requests -> Row \cup {NoRow}]
    BY <1>2, ReadRowType DEF Goto, TypeInv, TypeOK
  <2>3. Shape(r)' /\ Held(r)' \subseteq Held(r)
    BY <2>2 DEF ReadFrom, TypeInv, Shapes, Shape, Held, InTransaction, Located, Checked, Locking,
         IsTransfer
  <2> QED
    BY <1>2, <2>1, <2>2, <2>3, GotoKeeps DEF TypeInv, TypeOK, PC, InTransaction, Locking
<1> QED
  BY <1>1, <1>2 DEF ReadFrom

LEMMA ReadToKeeps ==
  ASSUME TypeInv, NEW r \in Requests, ReadTo(r)
  PROVE  TypeInv'
<1> DEFINE w == call[r].to
           objection == Objection(own[r], ReadRow(w), call[r].amount)
<1>1. ASSUME NEW code \in {"NotFound", "SameWallet", "CurrencyMismatch", "InsufficientFunds"},
             Finish(r, code, NoTxn)
      PROVE  TypeInv'
  BY <1>1, FinishKeeps DEF ReadTo, Busy, InTransaction, Code, Rejection
<1>2. ASSUME objection = "none", peer' = [peer EXCEPT ![r] = ReadRow(w)],
             Goto(r, "update1"), UNCHANGED <<outboxSeq, own, rowId>>
      PROVE  TypeInv'
  <2>1. Others(r)
    BY <1>2 DEF Goto, Others, TypeInv, TypeOK
  <2>2. w \in WalletIds
    BY CallsAssumption DEF ReadTo, TypeInv, Shapes, Shape, IsTransfer
  <2>3. /\ pc'[r] = "update1" /\ own'[r] = own[r]
        /\ call'[r] = call[r] /\ attempt'[r] = attempt[r] /\ peer'[r] = ReadRow(w)
        /\ peer' \in [Requests -> Row \cup {NoRow}]
    BY <1>2, <2>2, ReadRowType DEF Goto, TypeInv, TypeOK
  <2>4. ReadRow(w).id = w /\ ReadRow(w) \in Row /\ own[r].id # w
    BY <1>2, <2>2, ReadRowType DEF ReadRow, Objection, TypeInv
  <2>5. Shape(r)' /\ Held(r)' \subseteq Held(r)
    BY <2>3, <2>4 DEF ReadTo, TypeInv, Shapes, Shape, Held, InTransaction, Located, Checked, Locking,
         IsTransfer
  <2> QED
    BY <1>2, <2>1, <2>3, <2>5, GotoKeeps DEF TypeInv, TypeOK, PC, InTransaction, Locking
<1> QED
  BY <1>1, <1>2 DEF ReadTo, Objection

(* An UPDATE that matched its row: the row is locked and the result fits. *)
LEMMA UpdateGoes ==
  ASSUME TypeInv, NEW r \in Requests, NEW label \in {"update2", "insertTx"}, NEW w,
         Goto(r, label), UNCHANGED <<outboxSeq, own, peer, rowId>>, Unlocked(r, w),
         pc[r] \in {"update1", "update2"}, label = "update2" => IsTransfer(r),
         Held(r)' \subseteq Held(r) \cup {w},
         Representable(First(r), FirstDelta(r)),
         label = "insertTx" /\ IsTransfer(r) => Representable(Second(r), SecondDelta(r))
  PROVE  TypeInv'
<1> USE DEF TypeInv
<1>1. TypeOK'
  BY DEF TypeOK, Goto, tables, PC, InTransaction
<1>2. Others(r)
  BY DEF TypeOK, Goto, Others
<1>3. /\ pc'[r] = label /\ call' = call /\ attempt' = attempt /\ own' = own /\ peer' = peer
      /\ UNCHANGED <<balance, version>>
  BY DEF TypeOK, Goto, tables
<1>4. Shapes'
  <2>1. Shape(r)'
    BY <1>3 DEF Shapes, Shape, InTransaction, Located, Checked, Locking, IsTransfer
  <2> QED
    BY <1>2, <2>1, ShapesStep
<1>5. LocksExclusive'
  BY <1>2, LocksStep
<1>6. WritesFit'
  <2>1. /\ First(r)' = First(r) /\ Second(r)' = Second(r) /\ IsTransfer(r)' = IsTransfer(r)
        /\ FirstDelta(r)' = FirstDelta(r) /\ SecondDelta(r)' = SecondDelta(r)
    BY <1>3 DEF First, Second, FirstDelta, SecondDelta, RecipientFirst, IsTransfer
  <2>2. /\ Representable(First(r), FirstDelta(r))'
        /\ label = "insertTx" /\ IsTransfer(r) => Representable(Second(r), SecondDelta(r))'
    BY <2>1, <1>3 DEF Representable
  <2> QED
    BY <1>2, <1>3, <2>1, <2>2, WritesStep
<1> QED
  BY <1>1, <1>4, <1>5, <1>6

LEMMA UpdateFirstKeeps ==
  ASSUME TypeInv, NEW r \in Requests, UpdateFirst(r)
  PROVE  TypeInv'
<1> DEFINE label == IF IsTransfer(r) THEN "update2" ELSE "insertTx"
<1>1. ASSUME Finish(r, "Failed", NoTxn) PROVE TypeInv'
  BY <1>1, FinishKeeps DEF UpdateFirst, Busy, InTransaction, Code
<1>2. ASSUME Retry(r) PROVE TypeInv'
  BY <1>2, RetryKeeps DEF UpdateFirst, InTransaction
<1>3. ASSUME Unlocked(r, First(r).id), Representable(First(r), FirstDelta(r)), Goto(r, label),
             UNCHANGED <<outboxSeq, own, peer, rowId>>
      PROVE  TypeInv'
  <2>1. pc'[r] = label /\ own' = own /\ peer' = peer /\ call' = call
    BY <1>3 DEF Goto, TypeInv, TypeOK
  <2>2. Held(r)' \subseteq Held(r) \cup {First(r).id}
    BY <2>1 DEF UpdateFirst, Held, First, Touched, RecipientFirst, IsTransfer
  <2>3. label \in {"update2", "insertTx"} /\ (label = "update2" <=> IsTransfer(r))
    OBVIOUS
  <2> HIDE DEF label
  <2> QED
    BY <1>3, <2>2, <2>3, UpdateGoes DEF UpdateFirst
<1> QED
  BY <1>1, <1>2, <1>3 DEF UpdateFirst, ApplyDelta

LEMMA UpdateSecondKeeps ==
  ASSUME TypeInv, NEW r \in Requests, UpdateSecond(r)
  PROVE  TypeInv'
<1>1. ASSUME Finish(r, "Failed", NoTxn) PROVE TypeInv'
  BY <1>1, FinishKeeps DEF UpdateSecond, Busy, InTransaction, Code
<1>2. ASSUME Retry(r) PROVE TypeInv'
  BY <1>2, RetryKeeps DEF UpdateSecond, InTransaction
<1>3. ASSUME Unlocked(r, Second(r).id), Representable(Second(r), SecondDelta(r)),
             Goto(r, "insertTx"), UNCHANGED <<outboxSeq, own, peer, rowId>>
      PROVE  TypeInv'
  <2>1. pc'[r] = "insertTx" /\ own' = own /\ peer' = peer /\ call' = call
    BY <1>3 DEF Goto, TypeInv, TypeOK
  <2>2. Held(r)' \subseteq Held(r) \cup {Second(r).id}
    BY <2>1 DEF UpdateSecond, Held, First, Second, Touched, RecipientFirst, IsTransfer
  <2>3. Representable(First(r), FirstDelta(r))
    BY DEF UpdateSecond, TypeInv, WritesFit, Locking
  <2> QED
    BY <1>3, <2>2, <2>3, UpdateGoes DEF UpdateSecond
<1> QED
  BY <1>1, <1>2, <1>3 DEF UpdateSecond, ApplyDelta

(* The INSERTs: r moves on with the locks it has. *)
LEMMA InsertGoes ==
  ASSUME TypeInv, NEW r \in Requests, NEW label \in {"insertOutbox", "commit"},
         pc[r] \in {"insertTx", "insertOutbox"}, Goto(r, label), UNCHANGED <<own, peer>>,
         outboxSeq' \in Nat, rowId' \in [Requests -> Nat],
         \A s \in Requests \ {r} : rowId'[s] = rowId[s],
         label = "commit" => rowId'[r] # 0
  PROVE  TypeInv'
<1>1. Others(r)
  BY DEF Goto, Others, TypeInv, TypeOK
<1>2. /\ pc'[r] = label /\ call' = call /\ attempt' = attempt /\ own' = own /\ peer' = peer
      /\ UNCHANGED <<balance, version>>
  BY DEF TypeInv, TypeOK, Goto, tables
<1>3. Shape(r)'
  BY <1>2 DEF TypeInv, Shapes, Shape, InTransaction, Located, Checked, Locking, IsTransfer
<1>4. Held(r)' \subseteq Held(r)
  BY <1>2 DEF Held, Touched, IsTransfer
<1>5. Representable(First(r), FirstDelta(r))' /\
      (IsTransfer(r)' => Representable(Second(r), SecondDelta(r))')
  <2>1. /\ First(r)' = First(r) /\ Second(r)' = Second(r) /\ IsTransfer(r)' = IsTransfer(r)
        /\ FirstDelta(r)' = FirstDelta(r) /\ SecondDelta(r)' = SecondDelta(r)
    BY <1>2 DEF First, Second, FirstDelta, SecondDelta, RecipientFirst, IsTransfer
  <2>2. Representable(First(r), FirstDelta(r)) /\
        (IsTransfer(r) => Representable(Second(r), SecondDelta(r)))
    BY DEF TypeInv, WritesFit, Locking
  <2> QED
    BY <1>2, <2>1, <2>2 DEF Representable
<1> QED
  BY <1>1, <1>2, <1>3, <1>4, <1>5, GotoKeeps DEF TypeInv, TypeOK, PC, InTransaction

LEMMA InsertTxKeeps ==
  ASSUME TypeInv, NEW r \in Requests, InsertTx(r)
  PROVE  TypeInv'
<1>1. ASSUME Retry(r) PROVE TypeInv'
  BY <1>1, RetryKeeps DEF InsertTx, InTransaction
<1>2. ASSUME Goto(r, "insertOutbox"), UNCHANGED <<outboxSeq, own, peer, rowId>> PROVE TypeInv'
  BY <1>2, InsertGoes DEF InsertTx, TypeInv, TypeOK
<1> QED
  BY <1>1, <1>2 DEF InsertTx

LEMMA InsertOutboxKeeps ==
  ASSUME TypeInv, NEW r \in Requests, InsertOutbox(r)
  PROVE  TypeInv'
<1>1. /\ outboxSeq' \in Nat /\ rowId' \in [Requests -> Nat] /\ rowId'[r] # 0
      /\ \A s \in Requests \ {r} : rowId'[s] = rowId[s]
  BY DEF InsertOutbox, TypeInv, TypeOK
<1> QED
  BY <1>1, InsertGoes DEF InsertOutbox

LEMMA AbortKeeps ==
  ASSUME TypeInv, NEW r \in Requests, Abort(r)
  PROVE  TypeInv'
  BY FinishKeeps DEF Abort, Busy, Code

LEMMA BackoffKeeps ==
  ASSUME TypeInv, NEW r \in Requests, Backoff(r)
  PROVE  TypeInv'
<1> USE DEF TypeInv
<1>1. TypeOK'
  <2>1. [code |-> "Contention", tx |-> NoTxn] \in Reply
    BY DEF Reply, Code, Rejection
  <2> QED
    BY <2>1, RetriesAssumption DEF TypeOK, Backoff, Answer, tables, PC, InTransaction
<1>2. Others(r)
  BY DEF TypeOK, Backoff, Answer, Others
<1>3. /\ pc'[r] \in {"find", "done"} /\ call'[r] = call[r]
      /\ pc'[r] = "find" => attempt'[r] \in 1..MaxRetries
  BY RetriesAssumption DEF TypeOK, Backoff, Answer
<1>4. Shapes'
  <2>1. Shape(r)'
    BY <1>3 DEF Backoff, Shapes, Shape, InTransaction, Located, Checked, Locking
  <2> QED
    BY <1>2, <2>1, ShapesStep
<1>5. LocksExclusive'
  BY <1>2, <1>3, LocksRelease DEF Held
<1>6. WritesFit'
  BY <1>2, <1>3, WritesStep DEF Backoff, tables, Locking
<1> QED
  BY <1>1, <1>4, <1>5, <1>6

-----------------------------------------------------------------------------
(* COMMIT. *)

LEMMA TouchedRows ==
  ASSUME TypeInv, NEW r \in Requests, pc[r] = "commit"
  PROVE  /\ Held(r) = Touched(r) /\ Touched(r) \subseteq WalletIds
         /\ Touched(r) = IF IsTransfer(r) THEN {First(r).id, Second(r).id} ELSE {First(r).id}
         /\ IsTransfer(r) => First(r).id # Second(r).id
  BY DEF TypeInv, Shapes, Shape, Located, Checked, Locking, Held, Touched, First, Second,
         RecipientFirst, Row

LEMMA NewRowsTyped ==
  ASSUME TypeInv, NEW r \in Requests, pc[r] = "commit"
  PROVE  NewTxn(r) \in Txn /\ NewOutboxRow(r) \in OutboxRow
<1> DEFINE c == call[r]
<1>1. c \in Call /\ ValidMoney(c) /\ attempt[r] \in 1..MaxRetries /\ own[r].id \in WalletIds
  BY CallsAssumption
  DEF TypeInv, Shapes, Shape, Located, Checked, Locking, InTransaction, Row
<1>2. c.user \in Users /\ c.kind \in Kind /\ c.amount \in Nat /\ c.key \in Keys
  BY <1>1 DEF Call, ValidMoney
<1>3. IsTransfer(r) => peer[r].id \in WalletIds
  BY DEF TypeInv, Shapes, Shape, Checked, Locking, Row
<1>4. <<r, attempt[r]>> \in TxnId
  BY <1>1 DEF TxnId
<1>5. NewTxn(r) \in Txn /\ EventOf(NewTxn(r)) \in Event
  BY <1>1, <1>2, <1>3, <1>4 DEF NewTxn, Txn, EventOf, Event
<1>6. version[own[r].id] + 1 \in 0..IntMax /\ rowId[r] \in Nat \ {0}
  <2>1. own[r].id \in {First(r).id, Second(r).id} /\ (~IsTransfer(r) => own[r] = First(r))
    BY DEF First, Second, RecipientFirst
  <2>2. version[own[r].id] + 1 <= IntMax
    BY <2>1 DEF TypeInv, WritesFit, Locking, Representable
  <2> QED
    BY <1>1, <2>2, LimitsAssumption DEF TypeInv, TypeOK, Shapes, Shape
<1> QED
  BY <1>1, <1>5, <1>6 DEF NewOutboxRow, OutboxRow

(* The rows that r's COMMIT writes fit their columns. *)
LEMMA CommitFits ==
  ASSUME TypeInv, NEW r \in Requests, pc[r] = "commit", CommitEffects(r)
  PROVE  balance' \in [WalletIds -> 0..BigintMax] /\ version' \in [WalletIds -> 0..IntMax]
<1> SUFFICES ASSUME NEW w \in WalletIds
             PROVE  balance'[w] \in 0..BigintMax /\ version'[w] \in 0..IntMax
  BY DEF CommitEffects
<1>1. Representable(First(r), FirstDelta(r)) /\
      (IsTransfer(r) => Representable(Second(r), SecondDelta(r)))
  BY DEF TypeInv, WritesFit, Locking
<1>2. CASE w \notin Touched(r)
  BY <1>2 DEF CommitEffects, TypeInv, TypeOK
<1>3. CASE w \in Touched(r) /\ w = First(r).id
  BY <1>1, <1>3, LimitsAssumption DEF CommitEffects, Representable, TypeInv, TypeOK
<1>4. CASE w \in Touched(r) /\ w # First(r).id
  <2>1. IsTransfer(r) /\ w = Second(r).id
    BY <1>4, TouchedRows
  <2> QED
    BY <1>1, <1>4, <2>1, LimitsAssumption DEF CommitEffects, Representable, TypeInv, TypeOK
<1> QED
  BY <1>2, <1>3, <1>4

(* The COMMIT of r changes no row that another open transaction has locked. *)
LEMMA CommitSparesLocked ==
  ASSUME TypeInv, NEW r \in Requests, pc[r] = "commit", CommitEffects(r),
         NEW s \in Requests \ {r}, NEW w \in Held(s) \cap WalletIds
  PROVE  balance'[w] = balance[w] /\ version'[w] = version[w]
<1>1. w \notin Touched(r)
  BY TouchedRows DEF TypeInv, LocksExclusive
<1> QED
  BY <1>1 DEF CommitEffects

LEMMA HeldRows ==
  ASSUME TypeInv, NEW s \in Requests
  PROVE  /\ pc[s] \in Locking => First(s).id \in Held(s) \cap WalletIds
         /\ pc[s] \in Locking \ {"update2"} /\ IsTransfer(s) =>
              Second(s).id \in Held(s) \cap WalletIds
  BY DEF TypeInv, Shapes, Shape, Located, Checked, Locking, Held, Touched, First, Second,
         RecipientFirst, Row

LEMMA CommitKeeps ==
  ASSUME TypeInv, NEW r \in Requests, pc[r] = "commit", CommitEffects(r),
         NEW code \in Code, NEW tx \in TxnId \cup {NoTxn}, Answer(r, code, tx)
  PROVE  TypeInv'
<1>1. TypeOK'
  <2>1. txns' \subseteq Txn /\ outbox' \subseteq OutboxRow
    BY NewRowsTyped DEF CommitEffects, TypeInv, TypeOK
  <2>2. reply' \in [Requests -> Reply] /\ pc' \in [Requests -> PC]
    BY DEF TypeInv, TypeOK, Answer, Reply, PC
  <2> QED
    BY <2>1, <2>2, CommitFits DEF CommitEffects, Forget, TypeInv, TypeOK
<1>2. Others(r)
  BY DEF TypeInv, TypeOK, CommitEffects, Forget, Answer, Others
<1>3. pc'[r] = "done" /\ call'[r] = call[r]
  BY DEF TypeInv, TypeOK, CommitEffects, Answer
<1>4. Shapes'
  <2>1. Shape(r)'
    BY <1>3 DEF TypeInv, Shapes, Shape, InTransaction, Located, Checked, Locking
  <2> QED
    BY <1>2, <2>1, ShapesStep DEF TypeInv
<1>5. LocksExclusive'
  BY <1>2, <1>3, LocksRelease DEF Held, TypeInv
<1>6. WritesFit'
  <2> SUFFICES ASSUME NEW s \in Requests
               PROVE  /\ pc'[s] \in Locking => Representable(First(s), FirstDelta(s))'
                      /\ pc'[s] \in Locking \ {"update2"} /\ IsTransfer(s)' =>
                           Representable(Second(s), SecondDelta(s))'
    BY DEF WritesFit
  <2>1. CASE s = r
    BY <1>3, <2>1 DEF Locking
  <2>2. CASE s # r
    <3>1. /\ First(s)' = First(s) /\ Second(s)' = Second(s) /\ pc'[s] = pc[s]
          /\ FirstDelta(s)' = FirstDelta(s) /\ SecondDelta(s)' = SecondDelta(s)
          /\ IsTransfer(s)' = IsTransfer(s)
      BY <1>2, <2>2, OthersKeep DEF Others
    <3>2. /\ pc[s] \in Locking =>
               /\ balance'[First(s).id] = balance[First(s).id]
               /\ version'[First(s).id] = version[First(s).id]
          /\ pc[s] \in Locking \ {"update2"} /\ IsTransfer(s) =>
               /\ balance'[Second(s).id] = balance[Second(s).id]
               /\ version'[Second(s).id] = version[Second(s).id]
      BY <2>2, HeldRows, CommitSparesLocked
    <3> QED
      BY <3>1, <3>2 DEF TypeInv, WritesFit, Representable
  <2> QED
    BY <2>1, <2>2
<1> QED
  BY <1>1, <1>4, <1>5, <1>6 DEF TypeInv

LEMMA NextType == TypeInv /\ [Next]_vars => TypeInv'
<1> SUFFICES ASSUME TypeInv, [Next]_vars PROVE TypeInv'
  OBVIOUS
<1>1. CASE UNCHANGED vars
  <2>1. TypeOK'
    BY <1>1 DEF vars, TypeInv, TypeOK
  <2> QED
    BY <1>1, <2>1, LocalsFrozen DEF vars, TypeInv
<1>2. ASSUME NEW u \in Users, CreateWallet(u) PROVE TypeInv'
  BY <1>2, CreateWalletKeeps
<1>3. ASSUME NEW r \in Requests, NEW c \in Calls, Arrive(r, c) PROVE TypeInv'
  BY <1>3, ArriveKeeps
<1>4. ASSUME NEW r \in Requests, Step(r) PROVE TypeInv'
  <2>1. CASE Commit(r)
    <3>1. <<r, attempt[r]>> \in TxnId
      BY <2>1 DEF Commit, TypeInv, Shapes, Shape, InTransaction, TxnId
    <3> QED
      BY <2>1, <3>1, CommitKeeps DEF Commit, Code, Success
  <2> QED
    BY <1>4, <2>1, FindByKeyKeeps, ReadFromKeeps, ReadToKeeps, UpdateFirstKeeps, UpdateSecondKeeps,
       InsertTxKeeps, InsertOutboxKeeps, BackoffKeeps
    DEF Step
<1>5. ASSUME NEW r \in Requests, CommitLost(r) PROVE TypeInv'
  BY <1>5, CommitKeeps DEF CommitLost, Code
<1>6. ASSUME NEW r \in Requests, Abort(r) PROVE TypeInv'
  BY <1>6, AbortKeeps
<1> QED
  BY <1>1, <1>2, <1>3, <1>4, <1>5, <1>6 DEF Next

(* Every behaviour of the store keeps its types: whatever the requests do and however
   their statements interleave, no wallet's committed balance becomes negative or too
   large for bigint, and no version too large for integer.                          *)
THEOREM TypeCorrect == Spec => []TypeOK
<1>1. TypeInv => TypeOK
  BY DEF TypeInv
<1> QED
  BY <1>1, InitType, NextType, PTL DEF Spec

-----------------------------------------------------------------------------
(* What kinds of step there are, for the invariants that follow. *)

RequestStep(r) == (\E c \in Calls : Arrive(r, c)) \/ Step(r) \/ CommitLost(r) \/ Abort(r)
Committing(r) == Commit(r) \/ CommitLost(r)

LEMMA NextCases ==
  ASSUME [Next]_vars
  PROVE  \/ UNCHANGED <<balance, version, txns, outbox, outboxSeq,
                        call, pc, attempt, own, peer, rowId, reply>>
         \/ \E r \in Requests : RequestStep(r)
  BY DEF Next, CreateWallet, vars, RequestStep

LEMMA StepOthers ==
  ASSUME TypeOK, NEW r \in Requests, RequestStep(r)
  PROVE  Others(r)
<1> USE DEF TypeOK, Others
<1>1. ASSUME NEW c \in Calls, Arrive(r, c) PROVE Others(r)
  BY <1>1 DEF Arrive, Answer
<1>2. ASSUME NEW code, NEW tx, Finish(r, code, tx) PROVE Others(r)
  BY <1>2 DEF Finish, Answer, Forget
<1>3. ASSUME Retry(r) PROVE Others(r)
  BY <1>3 DEF Retry, Forget
<1>4. ASSUME NEW label, Goto(r, label),
             \A s \in Requests \ {r} :
               own'[s] = own[s] /\ peer'[s] = peer[s] /\ rowId'[s] = rowId[s]
      PROVE  Others(r)
  BY <1>4 DEF Goto
<1> HIDE DEF Others
<1>5. CASE FindByKey(r)
  BY <1>5, <1>2, <1>4 DEF FindByKey
<1>6. CASE ReadFrom(r)
  BY <1>6, <1>2, <1>4 DEF ReadFrom
<1>7. CASE ReadTo(r)
  BY <1>7, <1>2, <1>4 DEF ReadTo
<1>8. ASSUME NEW row, NEW delta, NEW label, ApplyDelta(r, row, delta, label) PROVE Others(r)
  BY <1>8, <1>2, <1>3, <1>4 DEF ApplyDelta
<1>9. CASE InsertTx(r)
  BY <1>9, <1>3, <1>4 DEF InsertTx
<1>10. CASE InsertOutbox(r)
  BY <1>10, <1>4 DEF InsertOutbox
<1>11. CASE Commit(r) \/ CommitLost(r)
  BY <1>11 DEF Commit, CommitLost, CommitEffects, Forget, Answer, Others
<1>12. CASE Backoff(r)
  BY <1>12 DEF Backoff, Answer, Others
<1> QED
  BY <1>1, <1>2, <1>5, <1>6, <1>7, <1>8, <1>9, <1>10, <1>11, <1>12
  DEF RequestStep, Step, UpdateFirst, UpdateSecond, Abort

(* Only COMMIT writes the tables of money and events. *)
LEMMA OnlyCommitWrites ==
  ASSUME NEW r \in Requests, RequestStep(r), ~Committing(r)
  PROVE  UNCHANGED <<owner, balance, version, txns, outbox>>
<1> USE DEF tables
<1>1. ASSUME NEW code, NEW tx, Finish(r, code, tx)
      PROVE  UNCHANGED <<owner, balance, version, txns, outbox>>
  BY <1>1 DEF Finish
<1>2. ASSUME Retry(r) PROVE UNCHANGED <<owner, balance, version, txns, outbox>>
  BY <1>2 DEF Retry
<1>3. ASSUME NEW label, Goto(r, label) PROVE UNCHANGED <<owner, balance, version, txns, outbox>>
  BY <1>3 DEF Goto
<1>4. ASSUME NEW row, NEW delta, NEW label, ApplyDelta(r, row, delta, label)
      PROVE  UNCHANGED <<owner, balance, version, txns, outbox>>
  BY <1>4, <1>1, <1>2, <1>3 DEF ApplyDelta
<1>5. CASE \E c \in Calls : Arrive(r, c)
  BY <1>5 DEF Arrive
<1>6. CASE Backoff(r)
  BY <1>6 DEF Backoff
<1>7. CASE FindByKey(r) \/ ReadFrom(r) \/ ReadTo(r) \/ InsertTx(r) \/ InsertOutbox(r) \/ Abort(r)
  BY <1>7, <1>1, <1>2, <1>3 DEF FindByKey, ReadFrom, ReadTo, InsertTx, InsertOutbox, Abort
<1> QED
  BY <1>4, <1>5, <1>6, <1>7 DEF RequestStep, Step, Committing, UpdateFirst, UpdateSecond

(* A request's entry in the unique index comes from InsertTx and stays to the end. *)
Entered == {"insertOutbox", "commit"}

LEMMA EnterByInsertTx ==
  ASSUME TypeOK, NEW r \in Requests, RequestStep(r), pc'[r] \in Entered
  PROVE  /\ call'[r] = call[r]
         /\ pc[r] \in Entered \/ (InsertTx(r) /\ ~KeyTaken(call[r]))
<1> USE DEF TypeOK, Entered
<1>1. ASSUME NEW code, NEW tx, Finish(r, code, tx) PROVE FALSE
  BY <1>1 DEF Finish, Answer
<1>2. ASSUME Retry(r) PROVE FALSE
  BY <1>2 DEF Retry
<1>3. ASSUME NEW label, Goto(r, label) PROVE label \in Entered /\ call'[r] = call[r]
  BY <1>3 DEF Goto
<1> HIDE DEF TypeOK
<1>4. ASSUME NEW row, NEW delta, NEW label \in {"update2", "insertTx"}, ApplyDelta(r, row, delta, label)
      PROVE  FALSE
  BY <1>4, <1>1, <1>2, <1>3 DEF ApplyDelta
<1>5. ~(\E c \in Calls : Arrive(r, c)) /\ ~Backoff(r) /\ ~Committing(r)
  BY DEF Arrive, Answer, Backoff, Committing, Commit, CommitLost, TypeOK
<1>6. ~FindByKey(r) /\ ~ReadFrom(r) /\ ~ReadTo(r) /\ ~Abort(r)
  BY <1>1, <1>3 DEF FindByKey, ReadFrom, ReadTo, Abort
<1>7. ~UpdateFirst(r) /\ ~UpdateSecond(r)
  BY <1>4 DEF UpdateFirst, UpdateSecond
<1>8. InsertTx(r) \/ InsertOutbox(r)
  BY <1>5, <1>6, <1>7 DEF RequestStep, Step, Committing
<1> QED
  BY <1>8, <1>2, <1>3 DEF InsertTx, InsertOutbox

-----------------------------------------------------------------------------
KeyInv == MoneyMovesOnce /\ KeysExclusive

LEMMA KeyStep == TypeInv /\ KeyInv /\ [Next]_vars => KeyInv'
<1> SUFFICES ASSUME TypeInv, KeyInv, [Next]_vars PROVE KeyInv'
  OBVIOUS
<1> USE DEF KeyInv
<1>1. CASE UNCHANGED <<balance, version, txns, outbox, outboxSeq,
                       call, pc, attempt, own, peer, rowId, reply>>
  BY <1>1 DEF MoneyMovesOnce, KeysExclusive, KeyTaken
<1>2. ASSUME NEW r \in Requests, RequestStep(r), ~Committing(r) PROVE KeyInv'
  <2>1. txns' = txns /\ Others(r)
    BY <1>2, StepOthers, OnlyCommitWrites DEF TypeInv
  <2>2. MoneyMovesOnce'
    BY <2>1 DEF MoneyMovesOnce
  <2>3. KeysExclusive'
    <3>1. CASE pc'[r] \notin Entered
      BY <2>1, <3>1 DEF KeysExclusive, KeyTaken, Others, Entered
    <3>2. CASE pc'[r] \in Entered /\ pc[r] \in Entered
      <4>1. call'[r] = call[r]
        BY <1>2, <3>2, EnterByInsertTx DEF TypeInv
      <4> QED
        BY <2>1, <3>2, <4>1 DEF KeysExclusive, KeyTaken, Others, Entered
    <3>3. CASE pc'[r] \in Entered /\ InsertTx(r) /\ ~KeyTaken(call[r])
      <4>1. call'[r] = call[r]
        BY <1>2, <3>3, EnterByInsertTx DEF TypeInv
      <4>2. \A s \in Requests \ {r} : pc[s] \in Entered => ~SameKey(call[s], call[r])
        BY <3>3 DEF InsertTx, Entered
      <4> QED
        BY <2>1, <3>3, <4>1, <4>2 DEF KeysExclusive, KeyTaken, Others, Entered, SameKey
    <3> QED
      BY <1>2, <3>1, <3>2, <3>3, EnterByInsertTx DEF TypeInv
  <2> QED
    BY <2>2, <2>3
<1>3. ASSUME NEW r \in Requests, Committing(r) PROVE KeyInv'
  <2>1. /\ pc[r] = "commit" /\ pc'[r] = "done" /\ txns' = txns \cup {NewTxn(r)} /\ Others(r)
    BY <1>3, StepOthers
    DEF Committing, Commit, CommitLost, CommitEffects, Answer, TypeInv, TypeOK, RequestStep, Step
  <2>2. NewTxn(r).user = call[r].user /\ NewTxn(r).key = call[r].key
    BY DEF NewTxn
  <2>3. MoneyMovesOnce'
    BY <2>1, <2>2 DEF MoneyMovesOnce, KeysExclusive, KeyTaken, SameKey
  <2>4. KeysExclusive'
    BY <2>1, <2>2 DEF KeysExclusive, KeyTaken, SameKey, Others
  <2> QED
    BY <2>3, <2>4
<1> QED
  BY <1>1, <1>2, <1>3, NextCases DEF Committing

(* The store moves money at most once per (user, idempotency key), for any number of
   concurrent requests with that key, retries, lost answers and repeated calls.     *)
THEOREM KeyMovesMoneyOnce == Spec => []MoneyMovesOnce
<1>1. Init => KeyInv
  BY DEF Init, KeyInv, MoneyMovesOnce, KeysExclusive
<1>2. KeyInv => MoneyMovesOnce
  BY DEF KeyInv
<1> QED
  BY <1>1, <1>2, InitType, NextType, KeyStep, PTL DEF Spec

-----------------------------------------------------------------------------
ReadRows(r) == {own[r], peer[r]} \ {NoRow}

(* The recipient's row is only remembered by a transfer that has passed its checks. *)
PeersOfTransfers ==
  \A r \in Requests : peer[r] # NoRow => pc[r] \in Checked /\ IsTransfer(r)

(* What was read is not newer than the table, and true if the version is the same. *)
Was(row) ==
  /\ row.version <= version[row.id]
  /\ row.version = version[row.id] => row.balance = balance[row.id]

ReadsWere == \A r \in Requests : \A row \in ReadRows(r) : Was(row)

(* A locked row still has the version that was read. *)
LockedMatch ==
  \A r \in Requests : \A row \in ReadRows(r) : row.id \in Held(r) => VersionMatches(row)

ReadInv == PeersOfTransfers /\ ReadsWere /\ LockedMatch

LEMMA InitRead == Init => ReadInv
  BY DEF Init, ReadInv, PeersOfTransfers, ReadsWere, LockedMatch, ReadRows

LEMMA ReadInvImplies == TypeInv /\ ReadInv => LockedRowsAsRead
<1> SUFFICES ASSUME TypeInv, ReadInv, NEW r \in Requests, NEW row \in ReadRows(r),
                    row.id \in Held(r)
             PROVE  row = ReadRow(row.id)
  BY DEF LockedRowsAsRead, ReadRows
<1>1. row \in Row
  BY DEF TypeInv, TypeOK, ReadRows
<1>2. row.version = version[row.id] /\ row.balance = balance[row.id]
  BY DEF ReadInv, LockedMatch, ReadsWere, Was, VersionMatches
<1> QED
  BY <1>1, <1>2 DEF Row, ReadRow

-----------------------------------------------------------------------------
(* The step of r itself, seen from the rows it has read. *)
Reading(r) ==
  \A row \in ReadRows(r)' : row \in ReadRows(r) \/ \E w \in WalletIds : row = ReadRow(w)

Locks(r) ==
  \A row \in ReadRows(r)' :
    row.id \in Held(r)' => row \in ReadRows(r) /\ (row.id \in Held(r) \/ VersionMatches(row))

Peer(r) == peer'[r] # NoRow => pc'[r] \in Checked /\ IsTransfer(r)'

OwnStep(r) == Reading(r) /\ Locks(r) /\ Peer(r)

LEMMA EndsOwnStep ==
  ASSUME TypeInv, NEW r \in Requests, own'[r] = NoRow, peer'[r] = NoRow
  PROVE  OwnStep(r)
  BY DEF OwnStep, Reading, Locks, Peer, ReadRows

LEMMA FinishOwnStep ==
  ASSUME TypeInv, NEW r \in Requests, NEW code, NEW tx, Finish(r, code, tx) \/ Retry(r)
  PROVE  OwnStep(r)
<1>1. own'[r] = NoRow /\ peer'[r] = NoRow
  BY DEF Finish, Retry, Forget, TypeInv, TypeOK
<1> QED
  BY <1>1, EndsOwnStep

(* A step that reads and locks nothing, and leaves what r has read. *)
LEMMA QuietOwnStep ==
  ASSUME TypeInv, PeersOfTransfers, NEW r \in Requests,
         own'[r] = own[r], peer'[r] = peer[r], Held(r)' \subseteq Held(r),
         peer[r] # NoRow => pc'[r] \in Checked /\ call'[r] = call[r]
  PROVE  OwnStep(r)
  BY DEF OwnStep, Reading, Locks, Peer, ReadRows, PeersOfTransfers, IsTransfer

LEMMA UpdateOwnStep ==
  ASSUME TypeInv, PeersOfTransfers, NEW r \in Requests, NEW label \in {"update2", "insertTx"},
         pc[r] \in {"update1", "update2"},
         Goto(r, label), UNCHANGED <<outboxSeq, own, peer, rowId>>,
         \A row \in ReadRows(r) : row.id \in Held(r)' => row.id \in Held(r) \/ VersionMatches(row)
  PROVE  OwnStep(r)
<1>1. own'[r] = own[r] /\ peer'[r] = peer[r] /\ call'[r] = call[r] /\ pc'[r] = label
  BY DEF Goto, TypeInv, TypeOK
<1> QED
  BY <1>1 DEF OwnStep, Reading, Locks, Peer, ReadRows, PeersOfTransfers, IsTransfer, Checked, Locking

LEMMA UpdateFirstOwn ==
  ASSUME TypeInv, PeersOfTransfers, NEW r \in Requests, UpdateFirst(r)
  PROVE  OwnStep(r)
<1> DEFINE label == IF IsTransfer(r) THEN "update2" ELSE "insertTx"
<1>1. ASSUME VersionMatches(First(r)), Goto(r, label), UNCHANGED <<outboxSeq, own, peer, rowId>>
      PROVE  OwnStep(r)
  <2>1. pc'[r] = label /\ own' = own /\ peer' = peer /\ call' = call
    BY <1>1 DEF Goto, TypeInv, TypeOK
  <2>2. Held(r)' = {First(r).id}
    BY <2>1 DEF Held, First, Touched, RecipientFirst, IsTransfer
  <2>3. \A row \in ReadRows(r) : row.id = First(r).id => row = First(r)
    BY DEF UpdateFirst, ReadRows, First, RecipientFirst, PeersOfTransfers, TypeInv, Shapes, Shape,
           Checked
  <2>4. label \in {"update2", "insertTx"} /\ pc[r] = "update1"
    BY DEF UpdateFirst
  <2> HIDE DEF label
  <2> QED
    BY <1>1, <2>2, <2>3, <2>4, UpdateOwnStep
<1> QED
  BY <1>1, FinishOwnStep DEF UpdateFirst, ApplyDelta

LEMMA UpdateSecondOwn ==
  ASSUME TypeInv, PeersOfTransfers, NEW r \in Requests, UpdateSecond(r)
  PROVE  OwnStep(r)
<1>1. ASSUME VersionMatches(Second(r)), Goto(r, "insertTx"),
             UNCHANGED <<outboxSeq, own, peer, rowId>>
      PROVE  OwnStep(r)
  <2>1. \A row \in ReadRows(r) : row \in {First(r), Second(r)}
    BY DEF ReadRows, First, Second
  <2>2. First(r).id \in Held(r) /\ pc[r] = "update2"
    BY DEF UpdateSecond, Held
  <2> QED
    BY <1>1, <2>1, <2>2, UpdateOwnStep
<1> QED
  BY <1>1, FinishOwnStep DEF UpdateSecond, ApplyDelta

LEMMA ReadFromOwn ==
  ASSUME TypeInv, PeersOfTransfers, NEW r \in Requests, ReadFrom(r)
  PROVE  OwnStep(r)
<1>1. ASSUME NEW w \in WalletIds, own' = [own EXCEPT ![r] = ReadRow(w)],
             Goto(r, IF IsTransfer(r) THEN "readTo" ELSE "update1"),
             UNCHANGED <<outboxSeq, peer, rowId>>
      PROVE  OwnStep(r)
  <2>1. own'[r] = ReadRow(w) /\ peer'[r] = peer[r] /\ peer[r] = NoRow
    BY <1>1 DEF ReadFrom, TypeInv, TypeOK, PeersOfTransfers, Checked, Locking
  <2>2. Held(r)' = {}
    BY <1>1 DEF Goto, Held, TypeInv, TypeOK
  <2> QED
    BY <2>1, <2>2 DEF OwnStep, Reading, Locks, Peer, ReadRows
<1> QED
  BY <1>1, FinishOwnStep DEF ReadFrom

LEMMA ReadToOwn ==
  ASSUME TypeInv, PeersOfTransfers, NEW r \in Requests, ReadTo(r)
  PROVE  OwnStep(r)
<1>1. ASSUME peer' = [peer EXCEPT ![r] = ReadRow(call[r].to)], Goto(r, "update1"),
             UNCHANGED <<outboxSeq, own, rowId>>
      PROVE  OwnStep(r)
  <2>1. call[r].to \in WalletIds /\ IsTransfer(r)
    BY CallsAssumption DEF ReadTo, TypeInv, Shapes, Shape, IsTransfer
  <2>2. /\ own'[r] = own[r] /\ peer'[r] = ReadRow(call[r].to) /\ pc'[r] = "update1"
        /\ call' = call
    BY <1>1 DEF Goto, TypeInv, TypeOK
  <2>3. Held(r)' = {}
    BY <2>2 DEF Held
  <2> QED
    BY <2>1, <2>2, <2>3 DEF OwnStep, Reading, Locks, Peer, ReadRows, IsTransfer, Checked
<1> QED
  BY <1>1, FinishOwnStep DEF ReadTo

LEMMA InsertsOwn ==
  ASSUME TypeInv, PeersOfTransfers, NEW r \in Requests, InsertTx(r) \/ InsertOutbox(r)
  PROVE  OwnStep(r)
<1>1. ASSUME NEW label \in {"insertOutbox", "commit"}, Goto(r, label), UNCHANGED <<own, peer>>,
             pc[r] \in {"insertTx", "insertOutbox"}
      PROVE  OwnStep(r)
  <2>1. pc'[r] = label /\ own' = own /\ peer' = peer /\ call' = call
    BY <1>1 DEF Goto, TypeInv, TypeOK
  <2>2. Held(r)' \subseteq Held(r)
    BY <1>1, <2>1 DEF Held, Touched, IsTransfer
  <2> QED
    BY <2>1, <2>2, QuietOwnStep DEF Checked, Locking
<1> QED
  BY <1>1, FinishOwnStep DEF InsertTx, InsertOutbox

LEMMA RestOwn ==
  ASSUME TypeInv, PeersOfTransfers, NEW r \in Requests,
         (\E c \in Calls : Arrive(r, c)) \/ FindByKey(r) \/ Backoff(r) \/ Abort(r)
  PROVE  OwnStep(r)
<1>1. ASSUME own' = own, peer' = peer, pc[r] \in {"idle", "find", "backoff"},
             pc'[r] \in {"find", "readFrom", "done"}
      PROVE  OwnStep(r)
  <2>1. peer[r] = NoRow
    BY <1>1 DEF PeersOfTransfers, Checked, Locking
  <2>2. Held(r)' = {}
    BY <1>1 DEF Held
  <2> QED
    BY <1>1, <2>1, <2>2, QuietOwnStep
<1>2. CASE \E c \in Calls : Arrive(r, c)
  BY <1>1, <1>2 DEF Arrive, Answer, TypeInv, TypeOK
<1>3. CASE FindByKey(r)
  BY <1>1, <1>3, FinishOwnStep DEF FindByKey, Goto, TypeInv, TypeOK
<1>4. CASE Backoff(r)
  BY <1>1, <1>4 DEF Backoff, Answer, TypeInv, TypeOK
<1>5. CASE Abort(r)
  BY <1>5, FinishOwnStep DEF Abort
<1> QED
  BY <1>2, <1>3, <1>4, <1>5

LEMMA StepOwn ==
  ASSUME TypeInv, PeersOfTransfers, NEW r \in Requests, RequestStep(r)
  PROVE  OwnStep(r)
<1>1. CASE Committing(r)
  <2>1. own'[r] = NoRow /\ peer'[r] = NoRow
    BY <1>1 DEF Committing, Commit, CommitLost, CommitEffects, Forget, TypeInv, TypeOK
  <2> QED
    BY <2>1, EndsOwnStep
<1> QED
  BY <1>1, UpdateFirstOwn, UpdateSecondOwn, ReadFromOwn, ReadToOwn, InsertsOwn, RestOwn
  DEF RequestStep, Step, Committing

-----------------------------------------------------------------------------
(* A step of r, seen from a row that somebody has read. *)

LEMMA WasStays ==
  ASSUME TypeInv, NEW r \in Requests, RequestStep(r), NEW row \in Row, Was(row)
  PROVE  Was(row)'
<1>1. row.id \in WalletIds /\ row.version \in Nat
  BY LimitsAssumption DEF Row
<1>2. CASE ~Committing(r)
  BY <1>2, OnlyCommitWrites DEF Was
<1>3. CASE Committing(r)
  <2>1. version[row.id] \in Nat
    BY <1>1, LimitsAssumption DEF TypeInv, TypeOK
  <2>2. IF row.id \in Touched(r)
          THEN version'[row.id] = version[row.id] + 1
          ELSE version'[row.id] = version[row.id] /\ balance'[row.id] = balance[row.id]
    BY <1>1, <1>3 DEF Committing, Commit, CommitLost, CommitEffects
  <2> QED
    BY <1>1, <2>1, <2>2 DEF Was
<1> QED
  BY <1>2, <1>3

LEMMA WasRead ==
  ASSUME TypeInv, NEW w \in WalletIds
  PROVE  ReadRow(w) \in Row /\ Was(ReadRow(w))
<1>1. version[w] \in Nat
  BY LimitsAssumption DEF TypeInv, TypeOK
<1> QED
  BY <1>1, ReadRowType DEF ReadRow, Was, TypeInv

LEMMA ReadStep == TypeInv /\ ReadInv /\ [Next]_vars => ReadInv'
<1> SUFFICES ASSUME TypeInv, ReadInv, [Next]_vars PROVE ReadInv'
  OBVIOUS
<1>1. CASE UNCHANGED <<balance, version, txns, outbox, outboxSeq,
                       call, pc, attempt, own, peer, rowId, reply>>
  <2>1. \A r \in Requests : Held(r)' = Held(r)
    BY <1>1, LocalsFrozen DEF Held, First, Touched, RecipientFirst, IsTransfer
  <2> QED
    BY <1>1, <2>1 DEF ReadInv, PeersOfTransfers, ReadsWere, LockedMatch, ReadRows, Was,
                      VersionMatches, IsTransfer
<1>2. ASSUME NEW r \in Requests, RequestStep(r) PROVE ReadInv'
  <2>1. OwnStep(r) /\ Others(r)
    BY <1>2, StepOwn, StepOthers DEF ReadInv, TypeInv
  <2>2. \A s \in Requests \ {r} :
          /\ ReadRows(s)' = ReadRows(s) /\ Held(s)' = Held(s)
          /\ IsTransfer(s)' = IsTransfer(s)
    BY <2>1, OthersKeep DEF Others, ReadRows
  <2>3. \A s \in Requests : ReadRows(s) \subseteq Row
    BY DEF TypeInv, TypeOK, ReadRows
  <2>4. PeersOfTransfers'
    BY <2>1, <2>2 DEF OwnStep, Peer, Others, ReadInv, PeersOfTransfers
  <2>5. ReadsWere'
    <3> SUFFICES ASSUME NEW s \in Requests, NEW row \in ReadRows(s)' PROVE Was(row)'
      BY DEF ReadsWere
    <3>1. row \in ReadRows(s) \/ \E w \in WalletIds : row = ReadRow(w)
      BY <2>1, <2>2 DEF OwnStep, Reading
    <3>2. row \in Row /\ Was(row)
      BY <3>1, <2>3, WasRead DEF ReadInv, ReadsWere
    <3> QED
      BY <1>2, <3>2, WasStays
  <2>6. LockedMatch'
    <3> SUFFICES ASSUME NEW s \in Requests, NEW row \in ReadRows(s)', row.id \in Held(s)'
                 PROVE  VersionMatches(row)'
      BY DEF LockedMatch
    <3>1. row \in ReadRows(s) /\ row \in Row /\ VersionMatches(row)
      BY <2>1, <2>2, <2>3 DEF OwnStep, Locks, ReadInv, LockedMatch
    <3>2. CASE ~Committing(r)
      BY <1>2, <3>1, <3>2, OnlyCommitWrites DEF VersionMatches
    <3>3. CASE Committing(r)
      <4>1. pc[r] = "commit" /\ CommitEffects(r) /\ pc'[r] = "done"
        BY <3>3 DEF Committing, Commit, CommitLost, Answer, TypeInv, TypeOK
      <4>2. s # r
        BY <4>1 DEF Held
      <4>3. row.id \in Held(s) \cap WalletIds
        BY <2>2, <3>1, <4>2 DEF Row
      <4> QED
        BY <3>1, <4>1, <4>2, <4>3, CommitSparesLocked DEF VersionMatches
    <3> QED
      BY <3>2, <3>3
  <2> QED
    BY <2>4, <2>5, <2>6 DEF ReadInv
<1> QED
  BY <1>1, <1>2, NextCases

(* The rows that a deposit or transfer holds locked are, at every moment, as it read
   them before: the funds check of Transfer holds when the money moves, whatever other
   requests have committed in between.                                              *)
THEOREM ChecksHoldAtCommit == Spec => []LockedRowsAsRead
  BY InitType, NextType, InitRead, ReadStep, ReadInvImplies, PTL DEF Spec

-----------------------------------------------------------------------------
(* Rows are locked in the order of wallet ids: in a set of requests that all wait for
   rows, the one that holds the largest row waits for nobody in the set.             *)

LEMMA LargestWallet ==
  ASSUME NEW T, T \subseteq WalletIds, T # {}
  PROVE  \E x \in T : \A y \in T : y <= x
<1>1. PICK top \in WalletIds : \A w \in WalletIds : w <= top
  BY IdsAssumption
<1> DEFINE D == {top - w : w \in T}
<1>2. D \subseteq Nat /\ D # {}
  <2>1. \A w \in T : w \in Nat /\ top \in Nat /\ w <= top
    BY <1>1, IdsAssumption
  <2> QED
    BY <2>1
<1>3. PICK d \in D : \A e \in D : d <= e
  <2> HIDE DEF D
  <2> QED
    BY <1>2, LeastNatural
<1>4. PICK x \in T : d = top - x
  OBVIOUS
<1>5. ASSUME NEW y \in T PROVE y <= x
  <2>1. top - x <= top - y
    BY <1>3, <1>4
  <2> QED
    BY <2>1, IdsAssumption
<1> QED
  BY <1>5

LEMMA SecondIsLarger ==
  ASSUME TypeInv, NEW r \in Requests, pc[r] = "update2"
  PROVE  First(r).id \in WalletIds /\ Second(r).id \in WalletIds /\ First(r).id < Second(r).id
<1>1. /\ IsTransfer(r) /\ own[r].id \in WalletIds /\ peer[r].id \in WalletIds
      /\ own[r].id # peer[r].id
  BY DEF TypeInv, Shapes, Shape, Located, Checked, Locking, Row
<1>2. own[r].id \in Nat /\ peer[r].id \in Nat
  BY <1>1, IdsAssumption
<1> QED
  BY <1>1, <1>2 DEF First, Second, RecipientFirst

LEMMA LocksImplyNoCycle == TypeInv => NoLockCycle
<1> SUFFICES ASSUME TypeInv, NEW S \in SUBSET Requests, S # {}
             PROVE  \E r \in S : \A s \in S \ {r} : ~WaitsFor(r, s)
  BY DEF NoLockCycle
<1>1. CASE \E r \in S : pc[r] \notin {"update1", "update2", "insertTx"}
  BY <1>1 DEF WaitsFor
<1>2. CASE /\ \A r \in S : pc[r] \in {"update1", "update2", "insertTx"}
           /\ \E r \in S : pc[r] = "insertTx"
  BY <1>2 DEF WaitsFor
<1>3. CASE \A r \in S : pc[r] = "update1"
  BY <1>3 DEF WaitsFor, Held
<1>4. CASE /\ \A r \in S : pc[r] \in {"update1", "update2"}
           /\ \E r \in S : pc[r] = "update2"
  <2> DEFINE T == {First(r).id : r \in {q \in S : pc[q] = "update2"}}
  <2>1. T \subseteq WalletIds /\ T # {}
    BY <1>4, SecondIsLarger
  <2>2. PICK w \in T : \A v \in T : v <= w
    <3> HIDE DEF T
    <3> QED
      BY <2>1, LargestWallet
  <2>3. PICK r \in S : pc[r] = "update2" /\ First(r).id = w
    OBVIOUS
  <2>4. ASSUME NEW s \in S \ {r}, WaitsFor(r, s) PROVE FALSE
    <3>1. Second(r).id \in Held(s)
      BY <2>3, <2>4 DEF WaitsFor
    <3>2. pc[s] = "update2" /\ Second(r).id = First(s).id
      BY <1>4, <3>1 DEF Held
    <3>3. First(s).id <= First(r).id
      BY <2>2, <2>3, <3>2
    <3>4. First(r).id < Second(r).id /\ First(r).id \in Nat /\ First(s).id \in Nat
      BY <2>3, <3>2, SecondIsLarger, IdsAssumption
    <3> QED
      BY <3>2, <3>3, <3>4
  <2> QED
    BY <2>4
<1> QED
  BY <1>1, <1>2, <1>3, <1>4

(* However many deposits and transfers run at once, there is never a deadlock on wallet
   rows and unique-index entries that PostgreSQL would have to break.               *)
THEOREM LocksNeverCycle == Spec => []NoLockCycle
  BY InitType, NextType, LocksImplyNoCycle, PTL DEF Spec

-----------------------------------------------------------------------------
(* Answers. *)

(* The ways a request may be told an error without having moved money. *)
Refusal == Rejection \cup {"Failed"}

Told(r, code, tx) ==
  /\ pc'[r] = "done"
  /\ reply' = [reply EXCEPT ![r] = [code |-> code, tx |-> tx]]
  /\ UNCHANGED <<tables, call>>

(* What a step of r other than its arrival and its COMMIT may do that others see. *)
Outcome(r) ==
  \/ pc'[r] # "done" /\ UNCHANGED <<tables, call, reply>>
  \/ \E code \in Refusal : AW!Justified(call[r], code) /\ Told(r, code, NoTxn)
  \/ \E t \in txns :
       SameKey(t, call[r]) /\ SameRequest(t, call[r]) /\ Told(r, "replayed", t.id)

LEMMA GotoOutcome ==
  ASSUME TypeInv, NEW r \in Requests, NEW label, label # "done", Goto(r, label) \/ Retry(r)
  PROVE  Outcome(r)
  BY DEF Goto, Retry, Outcome, TypeInv, TypeOK

LEMMA FinishOutcome ==
  ASSUME TypeInv, NEW r \in Requests, NEW code \in Refusal, AW!Justified(call[r], code),
         Finish(r, code, NoTxn)
  PROVE  Outcome(r)
<1>1. Told(r, code, NoTxn)
  BY DEF Finish, Answer, Told, TypeInv, TypeOK
<1> QED
  BY <1>1 DEF Outcome

LEMMA FailedOutcome ==
  ASSUME TypeInv, NEW r \in Requests, Finish(r, "Failed", NoTxn)
  PROVE  Outcome(r)
<1>1. AW!Justified(call[r], "Failed") /\ "Failed" \in Refusal
  BY DEF AW!Justified, Refusal
<1> QED
  BY <1>1, FinishOutcome

(* A wallet that was read belongs to whom it was read for, and exists. *)
Owners(r) ==
  /\ pc[r] \in Located => owner[own[r].id] = call[r].user
  /\ pc[r] \in Checked /\ IsTransfer(r) => owner[peer[r].id] # NoUser

OwnersAsRead == \A r \in Requests : Owners(r)

LEMMA FindByKeyOutcome ==
  ASSUME TypeInv, NEW r \in Requests, FindByKey(r)
  PROVE  Outcome(r)
<1>1. ASSUME NEW t \in txns, SameKey(t, call[r]), SameRequest(t, call[r]),
             Finish(r, "replayed", t.id)
      PROVE  Outcome(r)
  <2>1. Told(r, "replayed", t.id)
    BY <1>1 DEF Finish, Answer, Told, TypeInv, TypeOK
  <2> QED
    BY <1>1, <2>1 DEF Outcome
<1>2. ASSUME NEW t \in txns, SameKey(t, call[r]), ~SameRequest(t, call[r]),
             Finish(r, "IdempotencyConflict", NoTxn)
      PROVE  Outcome(r)
  <2>1. /\ AW!Justified(call[r], "IdempotencyConflict")
        /\ "IdempotencyConflict" \in Refusal
    BY <1>2 DEF AW!Justified, AW!SameKey, AW!SameRequest, SameKey, SameRequest, Refusal, Rejection
  <2> QED
    BY <1>2, <2>1, FinishOutcome
<1> QED
  BY <1>1, <1>2, GotoOutcome DEF FindByKey

LEMMA ReadFromOutcome ==
  ASSUME TypeInv, NEW r \in Requests, ReadFrom(r)
  PROVE  Outcome(r)
<1>1. ASSUME \A w \in WalletIds : owner[w] # call[r].user, Finish(r, "NotFound", NoTxn)
      PROVE  Outcome(r)
  <2>1. AW!Justified(call[r], "NotFound") /\ "NotFound" \in Refusal
    BY <1>1 DEF AW!Justified, Refusal, Rejection
  <2> QED
    BY <1>1, <2>1, FinishOutcome
<1> QED
  BY <1>1, GotoOutcome DEF ReadFrom

LEMMA ReadToOutcome ==
  ASSUME TypeInv, OwnersAsRead, NEW r \in Requests, ReadTo(r)
  PROVE  Outcome(r)
<1> DEFINE w == call[r].to
           objection == Objection(own[r], ReadRow(w), call[r].amount)
<1>1. IsTransfer(r) /\ owner[own[r].id] = call[r].user
  BY DEF ReadTo, TypeInv, Shapes, Shape, OwnersAsRead, Owners, Located
<1>2. ASSUME owner[w] = NoUser, Finish(r, "NotFound", NoTxn) PROVE Outcome(r)
  <2>1. AW!Justified(call[r], "NotFound") /\ "NotFound" \in Refusal
    BY <1>1, <1>2 DEF AW!Justified, Refusal, Rejection, IsTransfer
  <2> QED
    BY <1>2, <2>1, FinishOutcome
<1>3. ASSUME objection # "none", Finish(r, objection, NoTxn) PROVE Outcome(r)
  <2>1. objection \in {"SameWallet", "InsufficientFunds"}
    BY <1>3 DEF Objection, Currency
  <2>2. objection = "SameWallet" => owner[w] = call[r].user
    BY <1>1 DEF Objection, Currency, ReadRow
  <2>3. AW!Justified(call[r], objection) /\ objection \in Refusal
    BY <1>1, <2>1, <2>2 DEF AW!Justified, Refusal, Rejection, IsTransfer
  <2> HIDE DEF objection
  <2> QED
    BY <1>3, <2>3, FinishOutcome
<1> QED
  BY <1>2, <1>3, GotoOutcome DEF ReadTo

LEMMA RestOutcome ==
  ASSUME TypeInv, NEW r \in Requests,
         UpdateFirst(r) \/ UpdateSecond(r) \/ InsertTx(r) \/ InsertOutbox(r) \/ Abort(r)
  PROVE  Outcome(r)
<1>1. ASSUME NEW row, NEW delta, NEW label \in {"update2", "insertTx"},
             ApplyDelta(r, row, delta, label)
      PROVE  Outcome(r)
  BY <1>1, GotoOutcome, FailedOutcome DEF ApplyDelta
<1>2. CASE UpdateFirst(r) \/ UpdateSecond(r)
  BY <1>1, <1>2 DEF UpdateFirst, UpdateSecond
<1> QED
  BY <1>2, GotoOutcome, FailedOutcome DEF InsertTx, InsertOutbox, Abort

LEMMA BackoffOutcome ==
  ASSUME TypeInv, NEW r \in Requests, Backoff(r)
  PROVE  Outcome(r)
<1>1. CASE attempt[r] < MaxRetries
  BY <1>1 DEF Backoff, Outcome, TypeInv, TypeOK
<1>2. CASE ~(attempt[r] < MaxRetries)
  <2>1. Told(r, "Contention", NoTxn)
    BY <1>2 DEF Backoff, Answer, Told, TypeInv, TypeOK
  <2>2. AW!Justified(call[r], "Contention") /\ "Contention" \in Refusal
    BY DEF AW!Justified, Refusal, Rejection
  <2> QED
    BY <2>1, <2>2 DEF Outcome
<1> QED
  BY <1>1, <1>2

LEMMA StepOutcome ==
  ASSUME TypeInv, OwnersAsRead, NEW r \in Requests, RequestStep(r)
  PROVE  Committing(r) \/ (\E c \in Calls : Arrive(r, c)) \/ Outcome(r)
  BY FindByKeyOutcome, ReadFromOutcome, ReadToOutcome, RestOutcome, BackoffOutcome
  DEF RequestStep, Step, Committing

-----------------------------------------------------------------------------
(* Wallets are never given away, so that owners stay as they were read. *)

LEMMA UnlocatedOwners ==
  ASSUME NEW r \in Requests, pc'[r] \notin Located
  PROVE  Owners(r)'
  BY DEF Owners, Located, Checked

LEMMA EndOwners ==
  ASSUME TypeInv, NEW r \in Requests,
         \/ Retry(r) \/ (\E code, tx : Finish(r, code, tx))
         \/ Committing(r) \/ Backoff(r) \/ FindByKey(r) \/ \E c \in Calls : Arrive(r, c)
  PROVE  Owners(r)'
<1>1. pc'[r] \in {"backoff", "done", "find", "readFrom"}
  BY DEF Retry, Finish, Committing, Commit, CommitLost, Backoff, FindByKey, Goto, Arrive, Answer,
         TypeInv, TypeOK
<1> QED
  BY <1>1, UnlocatedOwners DEF Located, Locking

LEMMA KeptOwners ==
  ASSUME TypeInv, OwnersAsRead, NEW r \in Requests, NEW label, Goto(r, label),
         UNCHANGED <<own, peer>>, pc[r] \in Checked
  PROVE  Owners(r)'
  BY DEF OwnersAsRead, Owners, Goto, tables, IsTransfer, Located, Checked

LEMMA ReadFromOwners ==
  ASSUME TypeInv, NEW r \in Requests, ReadFrom(r)
  PROVE  Owners(r)'
<1>1. ASSUME NEW w \in WalletIds, owner[w] = call[r].user, own' = [own EXCEPT ![r] = ReadRow(w)],
             Goto(r, IF IsTransfer(r) THEN "readTo" ELSE "update1")
      PROVE  Owners(r)'
  <2>1. /\ own'[r].id = w /\ owner' = owner /\ call' = call
        /\ pc'[r] \in Checked => ~IsTransfer(r)
    BY <1>1 DEF Goto, tables, ReadRow, TypeInv, TypeOK, Checked, Locking
  <2> QED
    BY <1>1, <2>1 DEF Owners, IsTransfer
<1> QED
  BY <1>1, EndOwners DEF ReadFrom

LEMMA ReadToOwners ==
  ASSUME TypeInv, OwnersAsRead, NEW r \in Requests, ReadTo(r)
  PROVE  Owners(r)'
<1>1. ASSUME owner[call[r].to] # NoUser, peer' = [peer EXCEPT ![r] = ReadRow(call[r].to)],
             Goto(r, "update1"), own' = own
      PROVE  Owners(r)'
  <2>1. owner[own[r].id] = call[r].user
    BY DEF ReadTo, OwnersAsRead, Owners, Located
  <2>2. peer'[r].id = call[r].to /\ owner' = owner /\ call' = call
    BY <1>1 DEF Goto, tables, ReadRow, TypeInv, TypeOK
  <2> QED
    BY <1>1, <2>1, <2>2 DEF Owners, IsTransfer
<1> QED
  BY <1>1, EndOwners DEF ReadTo

LEMMA StepOwners ==
  ASSUME TypeInv, OwnersAsRead, NEW r \in Requests, RequestStep(r)
  PROVE  Owners(r)'
<1>1. ASSUME NEW row, NEW delta, NEW label, ApplyDelta(r, row, delta, label), pc[r] \in Checked
      PROVE  Owners(r)'
  BY <1>1, EndOwners, KeptOwners DEF ApplyDelta
<1>2. CASE UpdateFirst(r) \/ UpdateSecond(r)
  BY <1>1, <1>2 DEF UpdateFirst, UpdateSecond, Checked, Locking
<1>3. CASE InsertTx(r) \/ InsertOutbox(r)
  BY <1>3, EndOwners, KeptOwners DEF InsertTx, InsertOutbox, Checked, Locking
<1>4. CASE Abort(r)
  BY <1>4, EndOwners DEF Abort
<1> QED
  BY <1>2, <1>3, <1>4, EndOwners, ReadFromOwners, ReadToOwners
  DEF RequestStep, Step, Committing

(* CreateWallet opens a wallet that nobody has. *)
LEMMA OwnersGrow ==
  ASSUME TypeInv, [Next]_vars
  PROVE  \A w \in WalletIds : owner[w] # NoUser => owner'[w] = owner[w]
<1>1. ASSUME NEW r \in Requests, RequestStep(r) PROVE owner' = owner
  BY <1>1, OnlyCommitWrites DEF Committing, Commit, CommitLost, CommitEffects
<1>2. ASSUME NEW u \in Users, CreateWallet(u)
      PROVE  \A w \in WalletIds : owner[w] # NoUser => owner'[w] = owner[w]
  BY <1>2 DEF CreateWallet, vars, TypeInv, TypeOK
<1>3. CASE UNCHANGED vars
  BY <1>3 DEF vars
<1> QED
  BY <1>1, <1>2, <1>3 DEF Next, RequestStep

LEMMA OwnersStep == TypeInv /\ OwnersAsRead /\ [Next]_vars => OwnersAsRead'
<1> SUFFICES ASSUME TypeInv, OwnersAsRead, [Next]_vars, NEW s \in Requests PROVE Owners(s)'
  BY DEF OwnersAsRead, Owners
<1>1. ASSUME pc'[s] = pc[s], call'[s] = call[s], own'[s] = own[s], peer'[s] = peer[s]
      PROVE  Owners(s)'
  <2>1. pc[s] \in Located => own[s].id \in WalletIds /\ owner[own[s].id] \in Users
    <3>1. pc[s] \in Located => call[s] \in Calls /\ own[s] \in Row
      BY DEF TypeInv, Shapes, Shape, Located, Locking
    <3> QED
      BY <3>1, CallsAssumption DEF OwnersAsRead, Owners, Call, Row
  <2>2. pc[s] \in Checked /\ IsTransfer(s) => peer[s].id \in WalletIds
    BY DEF TypeInv, Shapes, Shape, Row
  <2> QED
    BY <1>1, <2>1, <2>2, OwnersGrow, IdsAssumption DEF OwnersAsRead, Owners, IsTransfer
<1>2. ASSUME NEW r \in Requests, RequestStep(r) PROVE Owners(s)'
  <2>1. CASE s = r
    BY <1>2, <2>1, StepOwners
  <2>2. CASE s # r
    BY <1>1, <1>2, <2>2, StepOthers DEF Others, TypeInv
  <2> QED
    BY <2>1, <2>2
<1> QED
  BY <1>1, <1>2, NextCases

-----------------------------------------------------------------------------
(* A request that is not answered has moved no money, in none of its attempts. *)
Unmoved ==
  \A r \in Requests : pc[r] # "done" =>
    reply[r] = NoReply /\ \A t \in txns : t.id[1] # r

(* A success names a committed transaction that does what the caller asked for. *)
Truthful ==
  \A r \in Requests : reply[r].code \in Success =>
    \E t \in txns : t.id = reply[r].tx /\ SameKey(t, call[r]) /\ SameRequest(t, call[r])

AnswerInv == OwnersAsRead /\ Unmoved /\ Truthful /\ RejectedMovesNothing

LEMMA InitAnswer == Init => AnswerInv
  BY DEF Init, AnswerInv, OwnersAsRead, Owners, Unmoved, Truthful, RejectedMovesNothing,
         NoReply, Success, Rejection, Located, Checked, Locking

LEMMA StepUnanswered ==
  ASSUME NEW r \in Requests, RequestStep(r)
  PROVE  pc[r] # "done"
  BY DEF RequestStep, Arrive, Step, FindByKey, ReadFrom, ReadTo, UpdateFirst, UpdateSecond,
         InsertTx, InsertOutbox, Commit, Backoff, CommitLost, Abort, InTransaction

LEMMA OutcomeAnswers ==
  ASSUME TypeInv, AnswerInv, NEW r \in Requests, RequestStep(r), Others(r), Outcome(r)
  PROVE  Unmoved' /\ Truthful' /\ RejectedMovesNothing'
<1> USE DEF AnswerInv
<1>1. pc[r] # "done" /\ txns' = txns /\ call' = call
  BY StepUnanswered DEF Outcome, Told, tables
<1>2. CASE pc'[r] # "done" /\ reply' = reply
  BY <1>1, <1>2 DEF Unmoved, Truthful, RejectedMovesNothing, Others
<1>3. ASSUME pc'[r] = "done", reply'[r].code \in Refusal
      PROVE  Unmoved' /\ Truthful' /\ RejectedMovesNothing'
  <2>1. Unmoved'
    BY <1>1, <1>3 DEF Unmoved, Others
  <2>2. Truthful'
    BY <1>1, <1>3 DEF Truthful, Others, Refusal, Rejection, Success
  <2>3. RejectedMovesNothing'
    BY <1>1, <1>3 DEF RejectedMovesNothing, Others, Unmoved
  <2> QED
    BY <2>1, <2>2, <2>3
<1>4. ASSUME NEW t \in txns, SameKey(t, call[r]), SameRequest(t, call[r]), pc'[r] = "done",
             reply'[r] = [code |-> "replayed", tx |-> t.id]
      PROVE  Unmoved' /\ Truthful' /\ RejectedMovesNothing'
  <2>1. Unmoved'
    BY <1>1, <1>4 DEF Unmoved, Others
  <2>2. Truthful'
    BY <1>1, <1>4 DEF Truthful, Others
  <2>3. RejectedMovesNothing'
    BY <1>1, <1>4 DEF RejectedMovesNothing, Others, Rejection
  <2> QED
    BY <2>1, <2>2, <2>3
<1>5. ASSUME NEW code \in Refusal, Told(r, code, NoTxn)
      PROVE  Unmoved' /\ Truthful' /\ RejectedMovesNothing'
  <2>1. pc'[r] = "done" /\ reply'[r].code = code
    BY <1>5 DEF Told, TypeInv, TypeOK
  <2> QED
    BY <1>3, <1>5, <2>1
<1>6. ASSUME NEW t \in txns, SameKey(t, call[r]), SameRequest(t, call[r]),
             Told(r, "replayed", t.id)
      PROVE  Unmoved' /\ Truthful' /\ RejectedMovesNothing'
  <2>1. pc'[r] = "done" /\ reply'[r] = [code |-> "replayed", tx |-> t.id]
    BY <1>6 DEF Told, TypeInv, TypeOK
  <2> QED
    BY <1>4, <1>6, <2>1
<1> QED
  BY <1>2, <1>5, <1>6 DEF Outcome

LEMMA ArriveAnswers ==
  ASSUME TypeInv, AnswerInv, NEW r \in Requests, NEW c \in Calls, Arrive(r, c), Others(r)
  PROVE  Unmoved' /\ Truthful' /\ RejectedMovesNothing'
<1>1. /\ pc[r] = "idle" /\ txns' = txns
      /\ \/ pc'[r] = "find" /\ reply'[r] = reply[r]
         \/ pc'[r] = "done" /\ reply'[r] = [code |-> "InvalidArgument", tx |-> NoTxn]
  BY DEF Arrive, Answer, tables, TypeInv, TypeOK
<1>2. reply[r] = NoReply /\ \A t \in txns : t.id[1] # r
  BY <1>1 DEF AnswerInv, Unmoved
<1>3. Unmoved'
  BY <1>1, <1>2 DEF AnswerInv, Unmoved, Others
<1>4. Truthful'
  BY <1>1, <1>2 DEF AnswerInv, Truthful, Others, NoReply, Success
<1>5. RejectedMovesNothing'
  BY <1>1, <1>2 DEF AnswerInv, RejectedMovesNothing, Others
<1> QED
  BY <1>3, <1>4, <1>5

LEMMA NewTxnIsAsked ==
  ASSUME TypeInv, NEW r \in Requests, pc[r] = "commit"
  PROVE  /\ SameKey(NewTxn(r), call[r]) /\ SameRequest(NewTxn(r), call[r])
         /\ NewTxn(r).id = <<r, attempt[r]>>
  BY DEF NewTxn, SameKey, SameRequest, IsTransfer, TypeInv, Shapes, Shape, Checked, Locking

LEMMA CommitAnswers ==
  ASSUME TypeInv, AnswerInv, NEW r \in Requests, Committing(r), Others(r)
  PROVE  Unmoved' /\ Truthful' /\ RejectedMovesNothing'
<1>1. /\ pc[r] = "commit" /\ pc'[r] = "done" /\ txns' = txns \cup {NewTxn(r)} /\ call' = call
      /\ \/ reply'[r] = [code |-> "ok", tx |-> <<r, attempt[r]>>]
         \/ reply'[r] = [code |-> "Failed", tx |-> NoTxn]
  BY DEF Committing, Commit, CommitLost, CommitEffects, Answer, TypeInv, TypeOK
<1>2. /\ SameKey(NewTxn(r), call[r]) /\ SameRequest(NewTxn(r), call[r])
      /\ NewTxn(r).id = <<r, attempt[r]>>
  BY <1>1, NewTxnIsAsked
<1>3. Unmoved'
  BY <1>1, <1>2 DEF AnswerInv, Unmoved, Others
<1>4. Truthful'
  BY <1>1, <1>2 DEF AnswerInv, Truthful, Others, Success
<1>5. RejectedMovesNothing'
  BY <1>1, <1>2 DEF AnswerInv, RejectedMovesNothing, Others, Rejection
<1> QED
  BY <1>3, <1>4, <1>5

LEMMA AnswerStep == TypeInv /\ AnswerInv /\ [Next]_vars => AnswerInv'
<1> SUFFICES ASSUME TypeInv, AnswerInv, [Next]_vars PROVE AnswerInv'
  OBVIOUS
<1>1. OwnersAsRead'
  BY OwnersStep DEF AnswerInv
<1>2. CASE UNCHANGED <<balance, version, txns, outbox, outboxSeq,
                       call, pc, attempt, own, peer, rowId, reply>>
  BY <1>1, <1>2 DEF AnswerInv, Unmoved, Truthful, RejectedMovesNothing
<1>3. ASSUME NEW r \in Requests, RequestStep(r) PROVE AnswerInv'
  <2>1. Others(r)
    BY <1>3, StepOthers DEF TypeInv
  <2> QED
    BY <1>1, <1>3, <2>1, StepOutcome, OutcomeAnswers, ArriveAnswers, CommitAnswers DEF AnswerInv
<1> QED
  BY <1>2, <1>3, NextCases

(* A business error is a promise: whoever got one, no attempt of that request has moved
   money or ever will.                                                               *)
THEOREM ErrorsMoveNothing == Spec => []RejectedMovesNothing
<1>1. AnswerInv => RejectedMovesNothing
  BY DEF AnswerInv
<1> QED
  BY <1>1, InitType, NextType, InitAnswer, AnswerStep, PTL DEF Spec

LEMMA AnswerInvImplies == TypeInv /\ KeyInv /\ AnswerInv => IdempotentReplies
<1> SUFFICES ASSUME TypeInv, KeyInv, AnswerInv, NEW r \in Requests, NEW s \in Requests,
                    reply[r].code \in Success, reply[s].code \in Success,
                    SameKey(call[r], call[s])
             PROVE  reply[r].tx = reply[s].tx /\ call[r] = call[s]
  BY DEF IdempotentReplies
<1>1. PICK t \in txns : t.id = reply[r].tx /\ SameKey(t, call[r]) /\ SameRequest(t, call[r])
  BY DEF AnswerInv, Truthful
<1>2. PICK u \in txns : u.id = reply[s].tx /\ SameKey(u, call[s]) /\ SameRequest(u, call[s])
  BY DEF AnswerInv, Truthful
<1>3. t = u
  BY <1>1, <1>2 DEF KeyInv, MoneyMovesOnce, SameKey
<1>4. call[r] \in Calls /\ call[s] \in Calls
  <2>1. \A q \in Requests : reply[q].code \in Success => pc[q] = "done"
    BY DEF AnswerInv, Unmoved, NoReply, Success
  <2> QED
    BY <2>1 DEF TypeInv, Shapes, Shape
<1>5. call[r].kind = call[s].kind /\ call[r].amount = call[s].amount
      /\ (call[r].kind = "TRANSFER" => call[r].to = call[s].to)
  BY <1>1, <1>2, <1>3 DEF SameRequest
<1>6. call[r].to = call[s].to
  BY <1>4, <1>5, CallsAssumption
<1> QED
  BY <1>1, <1>2, <1>3, <1>4, <1>5, <1>6, CallsAssumption DEF Call, SameKey

(* Requests under one key that are answered with success have asked the same thing and
   are told of the same transaction, whichever of them moved the money.              *)
THEOREM RepliesAgree == Spec => []IdempotentReplies
<1>1. Init => KeyInv
  BY DEF Init, KeyInv, MoneyMovesOnce, KeysExclusive
<1> QED
  BY <1>1, InitType, NextType, KeyStep, InitAnswer, AnswerStep, AnswerInvImplies, PTL DEF Spec

-----------------------------------------------------------------------------
(* Outbox ids come from a sequence: an uncommitted row's id is no other row's. *)
RowIdsFresh ==
  /\ \A x \in outbox : x.id <= outboxSeq
  /\ \A r \in Requests : rowId[r] <= outboxSeq
  /\ \A r \in Requests : pc[r] = "commit" =>
       /\ \A x \in outbox : x.id # rowId[r]
       /\ \A s \in Requests \ {r} : pc[s] = "commit" => rowId[s] # rowId[r]

(* A row is behind the version of its wallet, and its id behind the id of a row that
   a transaction which has the wallet locked is about to commit.                    *)
RowsInOrder ==
  /\ \A x \in outbox : x.ver <= version[x.key]
  /\ \A r \in Requests : pc[r] = "commit" =>
       \A x \in outbox : x.key = own[r].id => x.id < rowId[r]

OutboxInv ==
  RowIdsFresh /\ RowsInOrder /\ OutboxAgreesWithTransactions /\ OutboxOrderPerWallet

LEMMA InitOutbox == Init => OutboxInv
  BY DEF Init, OutboxInv, RowIdsFresh, RowsInOrder, OutboxAgreesWithTransactions,
         OutboxOrderPerWallet

(* Row ids are handed out by InsertOutbox only. *)
LEMMA IdByInsertOutbox ==
  ASSUME TypeInv, NEW r \in Requests, RequestStep(r), ~InsertOutbox(r)
  PROVE  pc'[r] # "commit" /\ outboxSeq' = outboxSeq /\ rowId'[r] \in {0, rowId[r]}
<1> USE DEF TypeInv, TypeOK
<1>1. ASSUME NEW code, NEW tx, Finish(r, code, tx) \/ Retry(r)
      PROVE  pc'[r] # "commit" /\ outboxSeq' = outboxSeq /\ rowId'[r] = 0
  BY <1>1 DEF Finish, Retry, Answer, Forget
<1>2. ASSUME NEW label, label # "commit", Goto(r, label), UNCHANGED <<outboxSeq, rowId>>
      PROVE  pc'[r] # "commit" /\ outboxSeq' = outboxSeq /\ rowId'[r] = rowId[r]
  BY <1>2 DEF Goto
<1> HIDE DEF TypeInv, TypeOK
<1>3. ASSUME NEW row, NEW delta, NEW label, label # "commit", ApplyDelta(r, row, delta, label)
      PROVE  pc'[r] # "commit" /\ outboxSeq' = outboxSeq /\ rowId'[r] \in {0, rowId[r]}
  BY <1>1, <1>2, <1>3 DEF ApplyDelta
<1>4. CASE (\E c \in Calls : Arrive(r, c)) \/ Backoff(r)
  BY <1>4 DEF Arrive, Backoff, Answer, TypeInv, TypeOK
<1>5. CASE Committing(r)
  BY <1>5 DEF Committing, Commit, CommitLost, CommitEffects, Answer, Forget, TypeInv, TypeOK
<1>6. CASE FindByKey(r) \/ ReadFrom(r) \/ ReadTo(r) \/ InsertTx(r) \/ Abort(r)
  BY <1>6, <1>1, <1>2 DEF FindByKey, ReadFrom, ReadTo, InsertTx, Abort
<1>7. CASE UpdateFirst(r) \/ UpdateSecond(r)
  BY <1>7, <1>3 DEF UpdateFirst, UpdateSecond
<1> QED
  BY <1>4, <1>5, <1>6, <1>7 DEF RequestStep, Step, Committing

LEMMA OutboxQuiet ==
  ASSUME TypeInv, OutboxInv, NEW r \in Requests, RequestStep(r), Others(r),
         ~Committing(r), ~InsertOutbox(r)
  PROVE  OutboxInv'
<1>1. UNCHANGED <<version, txns, outbox, outboxSeq>> /\ pc'[r] # "commit"
      /\ rowId'[r] \in {0, rowId[r]}
  BY OnlyCommitWrites, IdByInsertOutbox
<1>2. RowIdsFresh'
  BY <1>1 DEF OutboxInv, RowIdsFresh, Others, TypeInv, TypeOK
<1>3. RowsInOrder'
  BY <1>1 DEF OutboxInv, RowsInOrder, Others
<1> QED
  BY <1>1, <1>2, <1>3 DEF OutboxInv, OutboxAgreesWithTransactions, OutboxOrderPerWallet

LEMMA OutboxInserted ==
  ASSUME TypeInv, OutboxInv, NEW r \in Requests, InsertOutbox(r), Others(r)
  PROVE  OutboxInv'
<1>1. /\ UNCHANGED <<version, txns, outbox>> /\ outboxSeq' = outboxSeq + 1
      /\ rowId'[r] = outboxSeq + 1 /\ own' = own /\ outboxSeq \in Nat
  BY DEF InsertOutbox, Goto, tables, TypeInv, TypeOK
<1>2. (\A x \in outbox : x.id \in Nat) /\ \A s \in Requests : rowId[s] \in Nat
  BY DEF TypeInv, TypeOK, OutboxRow
<1>3. RowIdsFresh'
  BY <1>1, <1>2 DEF OutboxInv, RowIdsFresh, Others
<1>4. RowsInOrder'
  BY <1>1, <1>2 DEF OutboxInv, RowIdsFresh, RowsInOrder, Others
<1> QED
  BY <1>1, <1>3, <1>4 DEF OutboxInv, OutboxAgreesWithTransactions, OutboxOrderPerWallet

(* What a COMMIT adds to the tables. *)
LEMMA CommitAdds ==
  ASSUME TypeInv, NEW r \in Requests, Committing(r)
  PROVE  /\ pc[r] = "commit" /\ pc'[r] = "done" /\ rowId'[r] = 0
         /\ txns' = txns \cup {NewTxn(r)} /\ outbox' = outbox \cup {NewOutboxRow(r)}
         /\ outboxSeq' = outboxSeq
         /\ \A w \in WalletIds :
              version'[w] = IF w \in Touched(r) THEN version[w] + 1 ELSE version[w]
  BY DEF Committing, Commit, CommitLost, CommitEffects, Forget, Answer, TypeInv, TypeOK

LEMMA CommitAgrees ==
  ASSUME TypeInv, Unmoved, RowIdsFresh, OutboxAgreesWithTransactions,
         NEW r \in Requests, Committing(r)
  PROVE  OutboxAgreesWithTransactions'
<1> DEFINE new == NewOutboxRow(r)
           T == NewTxn(r)
<1>1. /\ pc[r] = "commit" /\ txns' = txns \cup {T} /\ outbox' = outbox \cup {new}
  BY CommitAdds
<1>2. new.event = EventOf(T) /\ new.id = rowId[r] /\ T.id[1] = r
  BY DEF NewOutboxRow, NewTxn
<1> HIDE DEF new, T
<1>3. {row.event : row \in outbox'} = {EventOf(t) : t \in txns'}
  BY <1>1, <1>2 DEF OutboxAgreesWithTransactions
<1>4. ASSUME NEW x \in outbox PROVE x.id # new.id /\ x.event # new.event
  <2>1. PICK t \in txns : x.event = EventOf(t)
    BY DEF OutboxAgreesWithTransactions
  <2>2. t.id[1] # r
    BY <1>1 DEF Unmoved
  <2>3. EventOf(t) # EventOf(T)
    BY <1>2, <2>2 DEF EventOf
  <2> QED
    BY <1>1, <1>2, <2>1, <2>3 DEF RowIdsFresh
<1> QED
  BY <1>1, <1>3, <1>4 DEF OutboxAgreesWithTransactions

LEMMA CommitInOrder ==
  ASSUME TypeInv, OutboxInv, NEW r \in Requests, Committing(r), Others(r)
  PROVE  RowIdsFresh' /\ RowsInOrder' /\ OutboxOrderPerWallet'
<1> DEFINE new == NewOutboxRow(r)
<1>1. /\ pc[r] = "commit" /\ pc'[r] = "done" /\ outbox' = outbox \cup {new}
      /\ outboxSeq' = outboxSeq /\ rowId'[r] = 0
      /\ \A w \in WalletIds :
           version'[w] = IF w \in Touched(r) THEN version[w] + 1 ELSE version[w]
  BY CommitAdds
<1>2. new.id = rowId[r] /\ new.key = own[r].id /\ new.ver = version[own[r].id] + 1
  BY DEF NewOutboxRow
<1>3. own[r].id \in Touched(r) /\ own[r].id \in WalletIds
  BY <1>1, TouchedRows DEF Touched
<1> HIDE DEF new
<1>4. \A w \in WalletIds : version[w] \in Nat
  BY LimitsAssumption DEF TypeInv, TypeOK
<1>5. \A x \in outbox : x.id \in Nat /\ x.ver \in Nat /\ x.key \in WalletIds
  BY LimitsAssumption DEF TypeInv, TypeOK, OutboxRow
<1>6. \A s \in Requests : rowId[s] \in Nat
  BY DEF TypeInv, TypeOK
<1>7. \A s \in Requests \ {r} : pc[s] = "commit" => own[s].id # own[r].id
  BY <1>1, <1>3, TouchedRows DEF TypeInv, LocksExclusive, Touched
<1>8. RowIdsFresh'
  BY <1>1, <1>2, <1>6 DEF OutboxInv, RowIdsFresh, Others, TypeInv, TypeOK
<1>9. RowsInOrder'
  BY <1>1, <1>2, <1>3, <1>4, <1>5, <1>7 DEF OutboxInv, RowsInOrder, Others
<1>10. OutboxOrderPerWallet'
  BY <1>1, <1>2, <1>3, <1>4, <1>5 DEF OutboxInv, RowsInOrder, OutboxOrderPerWallet
<1> QED
  BY <1>8, <1>9, <1>10

LEMMA OutboxStep == TypeInv /\ AnswerInv /\ OutboxInv /\ [Next]_vars => OutboxInv'
<1> SUFFICES ASSUME TypeInv, AnswerInv, OutboxInv, [Next]_vars PROVE OutboxInv'
  OBVIOUS
<1>1. CASE UNCHANGED <<balance, version, txns, outbox, outboxSeq,
                       call, pc, attempt, own, peer, rowId, reply>>
  BY <1>1 DEF OutboxInv, RowIdsFresh, RowsInOrder, OutboxAgreesWithTransactions,
              OutboxOrderPerWallet
<1>2. ASSUME NEW r \in Requests, RequestStep(r) PROVE OutboxInv'
  <2>1. Others(r)
    BY <1>2, StepOthers DEF TypeInv
  <2>2. CASE Committing(r)
    BY <2>1, <2>2, CommitAgrees, CommitInOrder DEF OutboxInv, AnswerInv
  <2> QED
    BY <1>2, <2>1, <2>2, OutboxQuiet, OutboxInserted
<1> QED
  BY <1>1, <1>2, NextCases

(* "Money moved" and "event recorded" never disagree, for any interleaving of money
   transactions, rollbacks and lost answers.                                        *)
THEOREM EventsMatchMoney == Spec => []OutboxAgreesWithTransactions
<1>1. OutboxInv => OutboxAgreesWithTransactions
  BY DEF OutboxInv
<1> QED
  BY <1>1, InitType, NextType, InitAnswer, AnswerStep, InitOutbox, OutboxStep, PTL DEF Spec

(* The ids of one wallet's outbox rows follow the changes of the wallet: the row lock is
   taken before the sequence is read and kept until the COMMIT, so that the sequence's
   gaps and its independence of COMMITs do not matter within a key.                  *)
THEOREM OutboxFollowsWallet == Spec => []OutboxOrderPerWallet
<1>1. OutboxInv => OutboxOrderPerWallet
  BY DEF OutboxInv
<1> QED
  BY <1>1, InitType, NextType, InitAnswer, AnswerStep, InitOutbox, OutboxStep, PTL DEF Spec

-----------------------------------------------------------------------------
(* The store implements AtomicWallet. *)

LEMMA InitRefines == Init => AW!Init
  BY DEF Init, AW!Init, NoReply, AW!NoReply, NoTxn, AW!NoTxn

AbstractStep == AW!Next \/ UNCHANGED AW!vars

LEMMA CreateWalletRefines ==
  ASSUME TypeInv, NEW u \in Users, CreateWallet(u)
  PROVE  AbstractStep
<1>1. CASE UNCHANGED vars
  BY <1>1 DEF vars, AbstractStep, AW!vars
<1>2. CASE ~UNCHANGED vars
  <2>1. PICK w \in WalletIds : owner[w] = NoUser /\ owner' = [owner EXCEPT ![w] = u]
    BY <1>2 DEF CreateWallet
  <2>2. AW!Open(u, w)
    BY <1>2, <2>1 DEF CreateWallet, AW!Open
  <2> QED
    BY <2>2 DEF AbstractStep, AW!Next
<1> QED
  BY <1>1, <1>2

LEMMA ArriveRefines ==
  ASSUME TypeInv, NEW r \in Requests, NEW c \in Calls, Arrive(r, c)
  PROVE  AbstractStep
<1>1. call[r] = NoCall
  BY DEF Arrive, TypeInv, Shapes, Shape
<1>2. AW!Submit(r, c)
  BY <1>1 DEF Arrive, Answer, tables, AW!Submit, AW!ValidMoney, ValidMoney, AW!Answer, NoTxn,
              AW!NoTxn
<1> QED
  BY <1>2 DEF AbstractStep, AW!Next

LEMMA PendingWhileRunning ==
  ASSUME TypeInv, AnswerInv, NEW r \in Requests, pc[r] \notin {"idle", "done"}
  PROVE  AW!Pending(r)
<1>1. call[r] \in Calls /\ reply[r] = NoReply
  BY DEF AnswerInv, Unmoved, TypeInv, Shapes, Shape
<1> QED
  BY <1>1, CallsAssumption DEF AW!Pending, NoReply, AW!NoReply, NoTxn, AW!NoTxn

LEMMA OutcomeRefines ==
  ASSUME TypeInv, AnswerInv, NEW r \in Requests, pc[r] \notin {"idle", "done"}, Outcome(r)
  PROVE  AbstractStep
<1>1. CASE UNCHANGED <<tables, call, reply>>
  BY <1>1 DEF tables, AbstractStep, AW!vars
<1>2. ASSUME NEW code \in Refusal, AW!Justified(call[r], code), Told(r, code, NoTxn)
      PROVE  AbstractStep
  <2>1. AW!Refuse(r, code)
    BY <1>2, PendingWhileRunning DEF AW!Refuse, Told, tables, AW!Answer, NoTxn, AW!NoTxn
  <2> QED
    BY <2>1 DEF AbstractStep, AW!Next, Refusal, Rejection, AW!Rejection
<1>3. ASSUME NEW t \in txns, SameKey(t, call[r]), SameRequest(t, call[r]),
             Told(r, "replayed", t.id)
      PROVE  AbstractStep
  <2>1. AW!Replay(r, t)
    BY <1>3, PendingWhileRunning
    DEF AW!Replay, Told, tables, AW!Answer, SameKey, AW!SameKey, SameRequest, AW!SameRequest
  <2> QED
    BY <2>1 DEF AbstractStep, AW!Next
<1> QED
  BY <1>1, <1>2, <1>3 DEF Outcome

-----------------------------------------------------------------------------
(* COMMIT. The two applyDelta calls, whichever wallet comes first, are the effect of
   the transaction that is recorded.                                                *)

LEMMA CommitMoves ==
  ASSUME TypeInv, NEW r \in Requests, Committing(r)
  PROVE  balance' = [w \in WalletIds |-> balance[w] + Effect(NewTxn(r), w)]
<1>1. pc[r] = "commit" /\ CommitEffects(r)
  BY DEF Committing, Commit, CommitLost
<1>2. /\ NewTxn(r).amount = call[r].amount /\ call[r].amount \in Int
      /\ NewTxn(r).from = IF IsTransfer(r) THEN own[r].id ELSE NoWallet
      /\ NewTxn(r).to = IF IsTransfer(r) THEN peer[r].id ELSE own[r].id
  BY <1>1, CallsAssumption DEF NewTxn, TypeInv, Shapes, Shape, Call
<1>3. IsTransfer(r) => own[r].id # peer[r].id
  BY <1>1 DEF TypeInv, Shapes, Shape, Checked, Locking
<1>4. ASSUME NEW w \in WalletIds PROVE balance'[w] = balance[w] + Effect(NewTxn(r), w)
  <2>1. balance[w] \in Int /\ w # NoWallet
    BY LimitsAssumption, IdsAssumption DEF TypeInv, TypeOK
  <2>2. balance'[w] = IF w \in Touched(r)
          THEN balance[w] + (IF w = First(r).id THEN FirstDelta(r) ELSE SecondDelta(r))
          ELSE balance[w]
    BY <1>1 DEF CommitEffects
  <2>3. CASE ~IsTransfer(r)
    BY <1>2, <2>1, <2>2, <2>3 DEF Effect, Touched, First, FirstDelta, RecipientFirst
  <2>4. CASE IsTransfer(r) /\ RecipientFirst(r)
    BY <1>2, <1>3, <2>1, <2>2, <2>4 DEF Effect, Touched, First, FirstDelta, SecondDelta
  <2>5. CASE IsTransfer(r) /\ ~RecipientFirst(r)
    BY <1>2, <1>3, <2>1, <2>2, <2>5 DEF Effect, Touched, First, FirstDelta, SecondDelta
  <2> QED
    BY <2>3, <2>4, <2>5
<1>5. balance' = [w \in WalletIds |-> balance'[w]]
  BY <1>1 DEF CommitEffects
<1> QED
  BY <1>4, <1>5

(* The sender's wallet still has the money: its UPDATE was representable. *)
LEMMA SenderHasMoney ==
  ASSUME TypeInv, NEW r \in Requests, pc[r] = "commit", IsTransfer(r)
  PROVE  balance[own[r].id] >= call[r].amount
<1>1. call[r].amount \in Int /\ own[r].id \in WalletIds
  BY CallsAssumption DEF TypeInv, Shapes, Shape, Call, Located, Locking, Row
<1>2. balance[own[r].id] \in Int
  BY <1>1, LimitsAssumption DEF TypeInv, TypeOK
<1>3. Representable(own[r], -call[r].amount)
  BY DEF TypeInv, WritesFit, Locking, First, Second, FirstDelta, SecondDelta, RecipientFirst
<1> QED
  BY <1>1, <1>2, <1>3, LimitsAssumption DEF Representable

LEMMA CommitRefines ==
  ASSUME TypeInv, KeyInv, AnswerInv, NEW r \in Requests, Committing(r)
  PROVE  AbstractStep
<1>1. pc[r] = "commit" /\ CommitEffects(r)
  BY DEF Committing, Commit, CommitLost
<1>2. /\ call[r].kind \in Kind
      /\ \E n \in 1..MaxRetries, w \in WalletIds : n = attempt[r] /\ w = own[r].id
  BY <1>1, CallsAssumption DEF TypeInv, Shapes, Shape, InTransaction, Located, Locking, Row, Call
<1> PICK n \in 1..MaxRetries, w \in WalletIds : n = attempt[r] /\ w = own[r].id
  BY <1>2
<1> DEFINE t == AW!Made(r, n, w)
<1>3. IsTransfer(r) => peer[r].id = call[r].to /\ peer[r].id # w
  BY <1>1 DEF TypeInv, Shapes, Shape, Checked, Locking
<1>4. t = NewTxn(r)
  BY <1>2, <1>3 DEF AW!Made, NewTxn, IsTransfer, Kind
<1>5. AW!Pending(r)
  BY <1>1, PendingWhileRunning
<1>6. owner[w] = call[r].user /\ (IsTransfer(r) => owner[peer[r].id] # NoUser)
  BY <1>1 DEF AnswerInv, OwnersAsRead, Owners, Located, Checked, Locking
<1>7. \A x \in txns : ~AW!SameKey(x, call[r])
  BY <1>1 DEF KeyInv, KeysExclusive, KeyTaken, SameKey, AW!SameKey
<1>8. t.kind = "TRANSFER" => owner[t.to] # NoUser /\ t.to # t.from /\ balance[t.from] >= t.amount
  BY <1>1, <1>3, <1>6, SenderHasMoney DEF AW!Made, IsTransfer
<1>9. balance' = [v \in WalletIds |-> balance[v] + AW!Effect(t, v)]
  BY <1>4, CommitMoves DEF Effect, AW!Effect
<1>10. /\ txns' = txns \cup {t}
       /\ {row.event : row \in outbox'} = {row.event : row \in outbox} \cup {AW!EventOf(t)}
  <2>1. outbox' = outbox \cup {NewOutboxRow(r)} /\ NewOutboxRow(r).event = AW!EventOf(t)
    BY <1>1, <1>4 DEF CommitEffects, NewOutboxRow, EventOf, AW!EventOf
  <2> QED
    BY <1>1, <1>4, <2>1 DEF CommitEffects
<1>11. /\ AW!Answer(r, "ok", t.id) \/ AW!Answer(r, "Failed", AW!NoTxn)
       /\ UNCHANGED <<owner, call>>
  <2>1. t.id = <<r, attempt[r]>>
    BY <1>4 DEF NewTxn
  <2> HIDE DEF t
  <2> QED
    BY <1>1, <2>1 DEF Committing, Commit, CommitLost, CommitEffects, Answer, AW!Answer, NoTxn,
                      AW!NoTxn
<1>12. AW!Execute(r, n, w)
  <2> HIDE DEF t
  <2> QED
    BY <1>5, <1>6, <1>7, <1>8, <1>9, <1>10, <1>11 DEF AW!Execute, t
<1> QED
  BY <1>12 DEF AbstractStep, AW!Next

LEMMA StepRefines ==
  TypeInv /\ KeyInv /\ AnswerInv /\ [Next]_vars => [AW!Next]_(AW!vars)
<1> SUFFICES ASSUME TypeInv, KeyInv, AnswerInv, [Next]_vars PROVE AbstractStep
  BY DEF AbstractStep
<1>1. CASE UNCHANGED vars
  BY <1>1 DEF vars, AbstractStep, AW!vars
<1>2. ASSUME NEW u \in Users, CreateWallet(u) PROVE AbstractStep
  BY <1>2, CreateWalletRefines
<1>3. ASSUME NEW r \in Requests, RequestStep(r) PROVE AbstractStep
  <2>1. CASE \E c \in Calls : Arrive(r, c)
    BY <2>1, ArriveRefines
  <2>2. CASE Committing(r)
    BY <2>2, CommitRefines
  <2>3. CASE Outcome(r) /\ ~\E c \in Calls : Arrive(r, c)
    <3>1. pc[r] \notin {"idle", "done"}
      BY <1>3, <2>3
      DEF RequestStep, Step, FindByKey, ReadFrom, ReadTo, UpdateFirst, UpdateSecond,
          InsertTx, InsertOutbox, Commit, Backoff, CommitLost, Abort, InTransaction
    <3> QED
      BY <2>3, <3>1, OutcomeRefines
  <2> QED
    BY <1>3, <2>1, <2>2, <2>3, StepOutcome DEF AnswerInv
<1> QED
  BY <1>1, <1>2, <1>3 DEF Next, RequestStep

(* Statement by statement, with conflicts, rollbacks, retries and lost answers, Deposit,
   Transfer and CreateWallet do what AtomicWallet does in one step per call: whoever only
   sees the tables and the answers cannot tell the two apart.                          *)
THEOREM StoreIsAtomic == Spec => Atomic
<1>1. Init => KeyInv
  BY DEF Init, KeyInv, MoneyMovesOnce, KeysExclusive
<1> QED
  BY <1>1, InitType, NextType, KeyStep, InitAnswer, AnswerStep, InitRefines, StepRefines, PTL
  DEF Spec, Atomic, AW!Spec

-----------------------------------------------------------------------------
(* Balances. NetOf is a fold over the committed transactions. *)

Effects(T, w) == [t \in T |-> Effect(t, w)]
LEMMA NetIsTotal ==
  ASSUME NEW T, IsFiniteSet(T), NEW w
  PROVE  \E g : Totals(g, Effects(T, w), SUBSET T) /\ NetOf(T, w) = g[T]
<1> DEFINE Def(g) == [s \in SUBSET T |-> IF s = {} THEN 0 ELSE
                LET x == CHOOSE x \in s : TRUE IN Effect(x, w) + g[s \ {x}]]
           iter == CHOOSE g : g = Def(g)
<1>1. NetOf(T, w) = iter[T]
  BY DEF NetOf, MapThenSumSet, MapThenFoldSet
<1>2. \A g : Totals(g, Effects(T, w), SUBSET T) <=> g = Def(g)
  <2>1. \A s \in SUBSET T : s # {} => Pick(s) \in T
    BY DEF Pick
  <2> QED
   BY <2>1 DEF Totals, Total, Pick, Effects
<1>3. \E g : g = Def(g)
  <2> HIDE DEF Def
  <2>1. PICK g : Totals(g, Effects(T, w), SUBSET T)
    BY TotalsExist
  <2> QED
    BY <1>2, <2>1
<1>4. iter = Def(iter)
  BY <1>3
<1> QED
  BY <1>1, <1>2, <1>4

LEMMA NetGrows ==
  ASSUME NEW T, IsFiniteSet(T), T \subseteq Txn, NEW t \in Txn, t \notin T, NEW w
  PROVE  NetOf(T \cup {t}, w) = NetOf(T, w) + Effect(t, w) /\ NetOf(T, w) \in Int
<1>1. IsFiniteSet(T \cup {t})
  BY FS_AddElement
<1>2. PICK h : Totals(h, Effects(T, w), SUBSET T) /\ NetOf(T, w) = h[T]
  BY NetIsTotal
<1>3. PICK g : /\ Totals(g, Effects(T \cup {t}, w), SUBSET (T \cup {t}))
               /\ NetOf(T \cup {t}, w) = g[T \cup {t}]
  BY <1>1, NetIsTotal
<1>4. \A y \in T : Effects(T \cup {t}, w)[y] = Effects(T, w)[y]
  BY DEF Effects
<1>5. \A y \in T \cup {t} : Effects(T \cup {t}, w)[y] \in Int
  BY DEF Effects, Effect, Txn
<1>6. g[T \cup {t}] = Effects(T \cup {t}, w)[t] + h[T] /\ h[T] \in Int
  BY <1>2, <1>3, <1>4, <1>5, TotalsGrow
<1>7. Effects(T \cup {t}, w)[t] = Effect(t, w) /\ Effect(t, w) \in Int
  BY <1>5 DEF Effects
<1> QED
  BY <1>2, <1>3, <1>6, <1>7

LEMMA NetOfNothing == ASSUME NEW w PROVE NetOf({}, w) = 0
<1>1. PICK g : Totals(g, Effects({}, w), SUBSET {}) /\ NetOf({}, w) = g[{}]
  BY NetIsTotal, FS_EmptySet
<1> QED
  BY <1>1 DEF Totals, Total

BalanceInv == IsFiniteSet(txns) /\ BalancesMatchTransactions

LEMMA InitBalance == Init => BalanceInv
  BY NetOfNothing, FS_EmptySet DEF Init, BalanceInv, BalancesMatchTransactions

LEMMA BalanceStep == TypeInv /\ AnswerInv /\ BalanceInv /\ [Next]_vars => BalanceInv'
<1> SUFFICES ASSUME TypeInv, AnswerInv, BalanceInv, [Next]_vars PROVE BalanceInv'
  OBVIOUS
<1>1. CASE UNCHANGED <<balance, txns>>
  BY <1>1 DEF BalanceInv, BalancesMatchTransactions
<1>2. ASSUME NEW r \in Requests, Committing(r) PROVE BalanceInv'
  <2> DEFINE t == NewTxn(r)
  <2>1. /\ pc[r] = "commit" /\ txns' = txns \cup {t}
        /\ \A w \in WalletIds : balance'[w] = balance[w] + Effect(t, w)
    BY <1>2, CommitAdds, CommitMoves
  <2>2. t \in Txn /\ txns \subseteq Txn
    BY <2>1, NewRowsTyped DEF TypeInv, TypeOK
  <2>3. t \notin txns
    <3>1. t.id[1] = r
      BY DEF NewTxn
    <3> HIDE DEF t
    <3> QED
      BY <2>1, <3>1 DEF AnswerInv, Unmoved
  <2> HIDE DEF t
  <2>4. \A w \in WalletIds : NetOf(txns \cup {t}, w) = NetOf(txns, w) + Effect(t, w)
    BY <2>2, <2>3, NetGrows DEF BalanceInv
  <2>5. IsFiniteSet(txns')
    BY <2>1, FS_AddElement DEF BalanceInv
  <2> QED
    BY <2>1, <2>4, <2>5 DEF BalanceInv, BalancesMatchTransactions
<1> QED
  BY <1>1, <1>2, NextCases, OnlyCommitWrites

(* No update is lost and no money appears or vanishes: every wallet's balance is at all
   times the sum of its committed transactions, for any number of them.             *)
THEOREM BalancesAddUp == Spec => []BalancesMatchTransactions
<1>1. BalanceInv => BalancesMatchTransactions
  BY DEF BalanceInv
<1> QED
  BY <1>1, InitType, NextType, InitAnswer, AnswerStep, InitBalance, BalanceStep, PTL DEF Spec

-----------------------------------------------------------------------------
(* Contention. A retry has a reason that can be counted: since the attempt began, some
   other request has committed a transaction on a wallet that this request reads.     *)

Seen(r) == Cardinality(Rivals(r))

Progress(r) ==
  /\ pc[r] \in Busy => Seen(r) >= attempt[r] - 1
  /\ pc[r] \in Located => Seen(r) >= attempt[r] - 1 + (version[own[r].id] - own[r].version)
  /\ pc[r] \in Checked /\ IsTransfer(r) =>
       Seen(r) >= attempt[r] - 1 + (version[peer[r].id] - peer[r].version)
  /\ pc[r] \in InTransaction \ {"find"} /\ KeyTaken(call[r]) => Seen(r) >= attempt[r]
  /\ pc[r] = "backoff" => Seen(r) >= attempt[r]
  /\ reply[r].code = "Contention" => Seen(r) >= MaxRetries

ProgressInv == \A r \in Requests : Progress(r)

StoreInv == TypeInv /\ ReadInv /\ AnswerInv /\ BalanceInv

LEMMA InitProgress == Init => ProgressInv
  BY DEF Init, ProgressInv, Progress, Busy, InTransaction, Located, Checked, Locking, NoReply

LEMMA TxnsGrow ==
  ASSUME [Next]_vars
  PROVE  txns \subseteq txns'
<1>1. ASSUME NEW r \in Requests, RequestStep(r) PROVE txns \subseteq txns'
  BY <1>1, OnlyCommitWrites DEF Committing, Commit, CommitLost, CommitEffects
<1> QED
  BY <1>1, NextCases

LEMMA SeenType ==
  ASSUME StoreInv, NEW r \in Requests
  PROVE  IsFiniteSet(Rivals(r)) /\ Seen(r) \in Nat
<1>1. Rivals(r) \in SUBSET txns /\ IsFiniteSet(txns)
  BY DEF Rivals, StoreInv, BalanceInv
<1>2. IsFiniteSet(Rivals(r))
  BY <1>1, FS_Subset
<1> QED
  BY <1>2, FS_CardinalityType DEF Seen

LEMMA RivalsGrow ==
  ASSUME TypeInv, [Next]_vars, NEW r \in Requests, call[r] \in Calls, call'[r] = call[r]
  PROVE  Rivals(r) \subseteq Rivals(r)'
<1>1. call[r].user \in Users /\ call[r].user # NoUser
  BY CallsAssumption, IdsAssumption DEF Call
<1>2. ASSUME NEW t \in Rivals(r) PROVE t \in Rivals(r)'
  <2>1. PICK w \in {t.from, t.to} \ {NoWallet} : owner[w] = call[r].user \/ w = call[r].to
    BY DEF Rivals
  <2>2. t \in txns' /\ t.id[1] # r /\ w \in WalletIds
    BY <2>1, TxnsGrow DEF Rivals, TypeInv, TypeOK, Txn
  <2>3. owner'[w] = call[r].user \/ w = call[r].to
    BY <1>1, <2>1, <2>2, OwnersGrow
  <2> QED
    BY <2>1, <2>2, <2>3 DEF Rivals
<1> QED
  BY <1>2

LEMMA SeenTypeNext ==
  ASSUME StoreInv', NEW r \in Requests
  PROVE  IsFiniteSet(Rivals(r)') /\ Seen(r)' \in Nat
<1>1. Rivals(r)' \in SUBSET txns' /\ IsFiniteSet(txns')
  BY DEF Rivals, StoreInv, BalanceInv
<1>2. IsFiniteSet(Rivals(r)')
  BY <1>1, FS_Subset
<1> QED
  BY <1>2, FS_CardinalityType DEF Seen

LEMMA SeenGrows ==
  ASSUME StoreInv, StoreInv', [Next]_vars, NEW r \in Requests, call[r] \in Calls,
         call'[r] = call[r]
  PROVE  Seen(r)' \in Nat /\ Seen(r) \in Nat /\ Seen(r)' >= Seen(r)
<1>1. IsFiniteSet(Rivals(r)') /\ Seen(r)' \in Nat /\ Seen(r) \in Nat
  BY SeenType, SeenTypeNext
<1>2. Rivals(r) \in SUBSET Rivals(r)'
  BY RivalsGrow DEF StoreInv
<1>3. Cardinality(Rivals(r)) <= Cardinality(Rivals(r)')
  BY <1>1, <1>2, FS_Subset
<1> QED
  BY <1>1, <1>3 DEF Seen

(* The COMMIT of another request on a wallet that r reads is one more rival. *)
LEMMA RivalAdded ==
  ASSUME StoreInv, StoreInv', [Next]_vars, NEW r \in Requests, call[r] \in Calls,
         call'[r] = call[r], NEW s \in Requests, s # r, Committing(s),
         NEW w \in Touched(s), owner[w] = call[r].user \/ w = call[r].to
  PROVE  Seen(r)' >= Seen(r) + 1
<1> DEFINE t == NewTxn(s)
<1>1. pc[s] = "commit" /\ txns' = txns \cup {t} /\ owner' = owner
  BY CommitAdds DEF StoreInv, Committing, Commit, CommitLost, CommitEffects
<1>2. t.id[1] = s /\ {t.from, t.to} \ {NoWallet} = Touched(s)
  <2>1. own[s].id # NoWallet /\ (IsTransfer(s) => peer[s].id # NoWallet)
    BY <1>1, TouchedRows, IdsAssumption DEF StoreInv, Touched
  <2> QED
    BY <2>1 DEF NewTxn, Touched
<1> HIDE DEF t
<1>3. t \in Rivals(r)'
  BY <1>1, <1>2 DEF Rivals
<1>4. t \notin Rivals(r)
  BY <1>1, <1>2 DEF Rivals, StoreInv, AnswerInv, Unmoved
<1>5. IsFiniteSet(Rivals(r)) /\ IsFiniteSet(Rivals(r)') /\ Seen(r) \in Nat /\ Seen(r)' \in Nat
  BY SeenType, SeenTypeNext
<1>6. Rivals(r) \cup {t} \in SUBSET Rivals(r)'
  BY <1>3, RivalsGrow DEF StoreInv
<1>7. Cardinality(Rivals(r) \cup {t}) = Cardinality(Rivals(r)) + 1
  BY <1>4, <1>5, FS_AddElement
<1>8. Cardinality(Rivals(r) \cup {t}) <= Cardinality(Rivals(r)')
  BY <1>5, <1>6, FS_Subset
<1> QED
  BY <1>5, <1>7, <1>8 DEF Seen

(* A step of another request, or of CreateWallet, seen from r. *)
LEMMA ProgressOthers ==
  ASSUME StoreInv, StoreInv', [Next]_vars, NEW r \in Requests, Progress(r),
         pc'[r] = pc[r], call'[r] = call[r], attempt'[r] = attempt[r],
         own'[r] = own[r], peer'[r] = peer[r], reply'[r] = reply[r],
         \/ UNCHANGED <<version, txns>>
         \/ \E s \in Requests \ {r} : Committing(s)
  PROVE  Progress(r)'
<1>1. CASE pc[r] = "idle"
  <2>1. reply[r].code # "Contention"
    BY <1>1 DEF StoreInv, AnswerInv, Unmoved, NoReply
  <2> QED
    BY <1>1, <2>1 DEF Progress, Busy, InTransaction, Located, Checked, Locking
<1>2. CASE pc[r] # "idle"
  <2>1. call[r] \in Calls
    BY <1>2 DEF StoreInv, TypeInv, Shapes, Shape
  <2>2. Seen(r) \in Nat /\ Seen(r)' \in Nat /\ Seen(r)' >= Seen(r)
    BY <2>1, SeenGrows
  <2>3. /\ attempt[r] \in Nat /\ MaxRetries \in Nat /\ IsTransfer(r)' = IsTransfer(r)
        /\ pc[r] \in Located => own[r] \in Row /\ own[r].id \in WalletIds
        /\ pc[r] \in Checked /\ IsTransfer(r) =>
             peer[r] \in Row /\ peer[r].id \in WalletIds /\ peer[r].id = call[r].to
    BY RetriesAssumption DEF StoreInv, TypeInv, TypeOK, Shapes, Shape, IsTransfer, Row
  <2>4. \A w \in WalletIds : version[w] \in Nat
    BY LimitsAssumption DEF StoreInv, TypeInv, TypeOK
  <2>5. \A row \in Row : row.version \in Nat
    BY LimitsAssumption DEF Row
  <2>6. CASE UNCHANGED <<version, txns>>
    <3>1. KeyTaken(call[r])' = KeyTaken(call[r])
      BY <2>6 DEF KeyTaken
    <3>2. pc[r] \in Located => Seen(r)' >= attempt[r] - 1 + (version[own[r].id] - own[r].version)
      BY <2>2, <2>3, <2>4, <2>5 DEF Progress
    <3>3. pc[r] \in Checked /\ IsTransfer(r) =>
            Seen(r)' >= attempt[r] - 1 + (version[peer[r].id] - peer[r].version)
      BY <2>2, <2>3, <2>4, <2>5 DEF Progress
    <3> QED
      BY <2>2, <2>3, <2>6, <3>1, <3>2, <3>3 DEF Progress
  <2>7. ASSUME NEW s \in Requests \ {r}, Committing(s) PROVE Progress(r)'
    <3>1. /\ pc[s] = "commit" /\ txns' = txns \cup {NewTxn(s)}
          /\ \A w \in WalletIds :
               version'[w] = IF w \in Touched(s) THEN version[w] + 1 ELSE version[w]
      BY <2>7, CommitAdds DEF StoreInv
    <3>2. \A w \in Touched(s) :
            owner[w] = call[r].user \/ w = call[r].to => Seen(r)' >= Seen(r) + 1
      BY <2>1, <2>7, RivalAdded
    <3>3. pc[r] \in Located => Seen(r)' >= attempt[r] - 1 + (version'[own[r].id] - own[r].version)
      <4>1. pc[r] \in Located => owner[own[r].id] = call[r].user
        BY DEF StoreInv, AnswerInv, OwnersAsRead, Owners
      <4> QED
        BY <2>2, <2>3, <2>4, <2>5, <3>1, <3>2, <4>1 DEF Progress
    <3>4. pc[r] \in Checked /\ IsTransfer(r) =>
            Seen(r)' >= attempt[r] - 1 + (version'[peer[r].id] - peer[r].version)
      BY <2>2, <2>3, <2>4, <2>5, <3>1, <3>2 DEF Progress
    <3>5. pc[r] \in InTransaction \ {"find"} /\ KeyTaken(call[r])' => Seen(r)' >= attempt[r]
      <4>1. SUFFICES ASSUME pc[r] \in InTransaction \ {"find"}, KeyTaken(call[r])',
                            ~KeyTaken(call[r])
                     PROVE  Seen(r)' >= attempt[r]
        BY <2>2, <2>3 DEF Progress
      <4>2. SameKey(NewTxn(s), call[r])
        BY <3>1, <4>1 DEF KeyTaken
      <4>3. own[s].id \in Touched(s) /\ owner[own[s].id] = call[r].user
        BY <3>1, <4>2 DEF Touched, SameKey, NewTxn, StoreInv, AnswerInv, OwnersAsRead, Owners,
                          Located, Locking
      <4> QED
        BY <2>2, <2>3, <3>2, <4>1, <4>3 DEF Progress, Busy
    <3> QED
      BY <2>2, <2>3, <3>3, <3>4, <3>5 DEF Progress
  <2> QED
    BY <2>6, <2>7
<1> QED
  BY <1>1, <1>2

(* What r counts does not change with a step of r that commits nothing. *)
LEMMA SeenStays ==
  ASSUME NEW r \in Requests, call'[r] = call[r], UNCHANGED <<owner, version, txns>>
  PROVE  /\ Seen(r)' = Seen(r) /\ KeyTaken(call[r])' = KeyTaken(call[r])
         /\ IsTransfer(r)' = IsTransfer(r)
  BY DEF Seen, Rivals, KeyTaken, IsTransfer

LEMMA AttemptsType ==
  ASSUME StoreInv, NEW r \in Requests
  PROVE  /\ attempt[r] \in Nat /\ Seen(r) \in Nat
         /\ reply[r].code = "Contention" => pc[r] = "done"
         /\ pc[r] \in Located => own[r] \in ReadRows(r) /\ own[r] \in Row
         /\ pc[r] \in Checked /\ IsTransfer(r) => peer[r] \in ReadRows(r) /\ peer[r] \in Row
         /\ \A w \in WalletIds : version[w] \in Nat
         /\ \A row \in Row : row.id \in WalletIds /\ row.version \in Nat
<1>1. attempt[r] \in Nat /\ Seen(r) \in Nat
  BY RetriesAssumption, SeenType DEF StoreInv, TypeInv, TypeOK
<1>2. reply[r].code = "Contention" => pc[r] = "done"
  BY DEF StoreInv, AnswerInv, Unmoved, NoReply
<1>3. (\A w \in WalletIds : version[w] \in Nat) /\
      (\A row \in Row : row.id \in WalletIds /\ row.version \in Nat)
  BY LimitsAssumption DEF StoreInv, TypeInv, TypeOK, Row
<1>4. /\ pc[r] \in Located => own[r] \in ReadRows(r) /\ own[r] \in Row
      /\ pc[r] \in Checked /\ IsTransfer(r) => peer[r] \in ReadRows(r) /\ peer[r] \in Row
  BY LimitsAssumption DEF StoreInv, TypeInv, Shapes, Shape, ReadRows
<1> QED
  BY <1>1, <1>2, <1>3, <1>4

LEMMA FinishProgress ==
  ASSUME StoreInv, NEW r \in Requests, NEW code, code # "Contention", NEW tx, Finish(r, code, tx)
  PROVE  Progress(r)'
<1>1. pc'[r] = "done" /\ reply'[r].code = code
  BY DEF Finish, Answer, StoreInv, TypeInv, TypeOK
<1> QED
  BY <1>1 DEF Progress, Busy, InTransaction, Located, Checked, Locking

LEMMA RetryProgress ==
  ASSUME StoreInv, NEW r \in Requests, Retry(r), pc[r] # "done", Seen(r) >= attempt[r]
  PROVE  Progress(r)'
<1>1. /\ pc'[r] = "backoff" /\ reply'[r] = reply[r] /\ attempt'[r] = attempt[r]
      /\ call'[r] = call[r] /\ UNCHANGED <<owner, version, txns>>
  BY DEF Retry, tables, StoreInv, TypeInv, TypeOK
<1>2. Seen(r)' = Seen(r)
  BY <1>1, SeenStays
<1> QED
  BY <1>1, <1>2, AttemptsType DEF Progress, Busy, InTransaction, Located, Checked, Locking

LEMMA GotoProgress ==
  ASSUME StoreInv, NEW r \in Requests, Progress(r), NEW label \in Checked, Goto(r, label),
         UNCHANGED <<own, peer>>, pc[r] \in Checked
  PROVE  Progress(r)'
<1>1. /\ pc'[r] = label /\ reply'[r] = reply[r] /\ attempt'[r] = attempt[r]
      /\ call'[r] = call[r] /\ UNCHANGED <<owner, version, txns>>
  BY DEF Goto, tables, StoreInv, TypeInv, TypeOK
<1>2. /\ Seen(r)' = Seen(r) /\ KeyTaken(call[r])' = KeyTaken(call[r])
      /\ IsTransfer(r)' = IsTransfer(r)
  BY <1>1, SeenStays
<1>3. pc[r] \in InTransaction \ {"find"} /\ pc[r] \in Located /\ pc[r] \in Busy /\ pc[r] # "done"
  BY DEF Checked, Located, Locking, InTransaction, Busy
<1>4. label \in InTransaction \ {"find"} /\ label \in Located /\ label \in Busy /\ label # "backoff"
  BY DEF Checked, Located, Locking, InTransaction, Busy
<1> QED
  BY <1>1, <1>2, <1>3, <1>4 DEF Progress

(* A version that no longer matches has been raised since it was read. *)
LEMMA UpdateProgress ==
  ASSUME StoreInv, NEW r \in Requests, Progress(r), UpdateFirst(r) \/ UpdateSecond(r)
  PROVE  Progress(r)'
<1>1. pc[r] \in Checked /\ pc[r] \in Located /\ pc[r] # "done"
  BY DEF UpdateFirst, UpdateSecond, Checked, Located, Locking
<1>2. \E row, delta : \E label \in Checked :
        ApplyDelta(r, row, delta, label) /\ (row = own[r] \/ (IsTransfer(r) /\ row = peer[r]))
  <2>1. CASE UpdateFirst(r)
    <3>1. First(r) = own[r] \/ (IsTransfer(r) /\ First(r) = peer[r])
      BY DEF First, RecipientFirst
    <3>2. (IF IsTransfer(r) THEN "update2" ELSE "insertTx") \in Checked
      BY DEF Checked, Locking
    <3> QED
      BY <2>1, <3>1, <3>2 DEF UpdateFirst
  <2>2. CASE UpdateSecond(r)
    <3>1. Second(r) = own[r] \/ (IsTransfer(r) /\ Second(r) = peer[r])
      BY <2>2 DEF Second, UpdateSecond, StoreInv, TypeInv, Shapes, Shape
    <3>2. "insertTx" \in Checked
      BY DEF Checked, Locking
    <3> QED
      BY <2>2, <3>1, <3>2 DEF UpdateSecond
  <2> QED
    BY <2>1, <2>2
<1> PICK row, delta :
      \E label \in Checked :
        ApplyDelta(r, row, delta, label) /\ (row = own[r] \/ (IsTransfer(r) /\ row = peer[r]))
  BY <1>2
<1>3. row \in ReadRows(r) /\ row \in Row /\ Seen(r) >= attempt[r] - 1 + (version[row.id] - row.version)
  BY <1>1, <1>2, AttemptsType DEF Progress
<1>4. ASSUME ~VersionMatches(row) PROVE Seen(r) >= attempt[r]
  <2>1. version[row.id] \in Nat /\ row.version \in Nat /\ attempt[r] \in Nat /\ Seen(r) \in Nat
    BY <1>3, AttemptsType
  <2>2. row.version <= version[row.id] /\ row.version # version[row.id]
    BY <1>3, <1>4 DEF StoreInv, ReadInv, ReadsWere, Was, VersionMatches
  <2> QED
    BY <1>3, <2>1, <2>2
<1> QED
  BY <1>1, <1>2, <1>4, RetryProgress, GotoProgress, FinishProgress DEF ApplyDelta

LEMMA InsertProgress ==
  ASSUME StoreInv, NEW r \in Requests, Progress(r), InsertTx(r) \/ InsertOutbox(r)
  PROVE  Progress(r)'
<1>1. pc[r] \in Checked /\ pc[r] \in InTransaction \ {"find"} /\ pc[r] # "done"
  BY DEF InsertTx, InsertOutbox, Checked, Locking, InTransaction
<1>2. "insertOutbox" \in Checked /\ "commit" \in Checked
  BY DEF Checked, Locking
<1>3. KeyTaken(call[r]) => Seen(r) >= attempt[r]
  BY <1>1 DEF Progress
<1> QED
  BY <1>1, <1>2, <1>3, RetryProgress, GotoProgress DEF InsertTx, InsertOutbox

LEMMA FindProgress ==
  ASSUME StoreInv, NEW r \in Requests, Progress(r), FindByKey(r)
  PROVE  Progress(r)'
<1>1. ASSUME \A t \in txns : ~SameKey(t, call[r]), Goto(r, "readFrom") PROVE Progress(r)'
  <2>1. /\ pc'[r] = "readFrom" /\ reply'[r] = reply[r] /\ attempt'[r] = attempt[r]
        /\ call'[r] = call[r] /\ UNCHANGED <<owner, version, txns>>
    BY <1>1 DEF Goto, tables, StoreInv, TypeInv, TypeOK
  <2>2. Seen(r)' = Seen(r) /\ ~KeyTaken(call[r])'
    BY <1>1, <2>1, SeenStays DEF KeyTaken
  <2>3. pc[r] = "find" /\ pc[r] \in Busy
    BY DEF FindByKey, Busy, InTransaction
  <2> QED
    BY <2>1, <2>2, <2>3, AttemptsType
    DEF Progress, Busy, InTransaction, Located, Checked, Locking
<1> QED
  BY <1>1, FinishProgress DEF FindByKey

(* What has just been read is as new as the table. *)
LEMMA ReadProgress ==
  ASSUME StoreInv, NEW r \in Requests, Progress(r), ReadFrom(r) \/ ReadTo(r)
  PROVE  Progress(r)'
<1>1. /\ pc[r] \in Busy /\ pc[r] \in InTransaction \ {"find"} /\ pc[r] # "done"
      /\ attempt[r] \in Nat /\ Seen(r) \in Nat /\ reply[r].code # "Contention"
      /\ \A w \in WalletIds : version[w] \in Nat
  BY AttemptsType DEF ReadFrom, ReadTo, Busy, InTransaction
<1>2. ASSUME NEW label \in {"readTo", "update1"}, Goto(r, label)
      PROVE  /\ pc'[r] = label /\ reply'[r] = reply[r] /\ attempt'[r] = attempt[r]
             /\ call'[r] = call[r] /\ version' = version
             /\ Seen(r)' = Seen(r) /\ KeyTaken(call[r])' = KeyTaken(call[r])
             /\ IsTransfer(r)' = IsTransfer(r)
  <2>1. /\ pc'[r] = label /\ reply'[r] = reply[r] /\ attempt'[r] = attempt[r]
        /\ call'[r] = call[r] /\ UNCHANGED <<owner, version, txns>>
    BY <1>2 DEF Goto, tables, StoreInv, TypeInv, TypeOK
  <2> QED
    BY <2>1, SeenStays
<1>3. ASSUME NEW w \in WalletIds, own' = [own EXCEPT ![r] = ReadRow(w)],
             Goto(r, IF IsTransfer(r) THEN "readTo" ELSE "update1")
      PROVE  Progress(r)'
  <2>1. own'[r].id = w /\ own'[r].version = version[w]
    BY <1>3 DEF ReadRow, StoreInv, TypeInv, TypeOK
  <2>2. Seen(r) >= attempt[r] - 1 + (version[w] - version[w])
    BY <1>1 DEF Progress
  <2>3. ~(pc'[r] \in Checked /\ IsTransfer(r)') /\ pc'[r] # "backoff"
    BY <1>2, <1>3 DEF Checked, Locking
  <2> QED
    BY <1>1, <1>2, <1>3, <2>1, <2>2, <2>3 DEF Progress
<1>4. ASSUME call[r].to \in WalletIds, peer' = [peer EXCEPT ![r] = ReadRow(call[r].to)],
             own' = own, Goto(r, "update1"), pc[r] = "readTo"
      PROVE  Progress(r)'
  <2>1. peer'[r].id = call[r].to /\ peer'[r].version = version[call[r].to]
    BY <1>4 DEF ReadRow, StoreInv, TypeInv, TypeOK
  <2>2. Seen(r) >= attempt[r] - 1 + (version[call[r].to] - version[call[r].to])
    BY <1>1, <1>4 DEF Progress
  <2>3. pc[r] \in Located
    BY <1>4 DEF Located
  <2> QED
    BY <1>1, <1>2, <1>4, <2>1, <2>2, <2>3 DEF Progress
<1>5. ReadTo(r) => call[r].to \in WalletIds
  <2>1. ReadTo(r) => call[r] \in Calls /\ IsTransfer(r)
    BY DEF ReadTo, StoreInv, TypeInv, Shapes, Shape
  <2> QED
    BY <2>1, CallsAssumption DEF IsTransfer
<1>6. \A from, to, amount : Objection(from, to, amount) # "Contention"
  BY DEF Objection
<1> QED
  BY <1>3, <1>4, <1>5, <1>6, FinishProgress DEF ReadFrom, ReadTo

LEMMA BackoffProgress ==
  ASSUME StoreInv, NEW r \in Requests, Progress(r), Backoff(r)
  PROVE  Progress(r)'
<1>1. /\ pc[r] = "backoff" /\ call'[r] = call[r] /\ UNCHANGED <<owner, version, txns>>
      /\ reply[r].code # "Contention"
  BY AttemptsType DEF Backoff, tables
<1>2. Seen(r)' = Seen(r) /\ Seen(r) >= attempt[r]
  BY <1>1, SeenStays DEF Progress
<1>3. attempt[r] \in Nat /\ Seen(r) \in Nat /\ MaxRetries \in Nat
  BY AttemptsType, RetriesAssumption
<1>4. \/ /\ pc'[r] = "find" /\ attempt'[r] = attempt[r] + 1 /\ reply'[r] = reply[r]
      \/ /\ pc'[r] = "done" /\ attempt[r] >= MaxRetries
  BY <1>3 DEF Backoff, Answer, StoreInv, TypeInv, TypeOK
<1> QED
  BY <1>1, <1>2, <1>3, <1>4 DEF Progress, Busy, InTransaction, Located, Checked, Locking

LEMMA EndProgress ==
  ASSUME StoreInv, StoreInv', NEW r \in Requests,
         Committing(r) \/ \E c \in Calls : Arrive(r, c)
  PROVE  Progress(r)'
<1>1. /\ reply'[r].code # "Contention"
      /\ pc'[r] = "done" \/ (pc'[r] = "find" /\ attempt'[r] = 1)
  BY AttemptsType
  DEF Committing, Commit, CommitLost, CommitEffects, Arrive, Answer, StoreInv, TypeInv, TypeOK
<1>2. Seen(r)' \in Nat
  BY SeenTypeNext
<1> QED
  BY <1>1, <1>2 DEF Progress, Busy, InTransaction, Located, Checked, Locking

LEMMA ProgressStep == StoreInv /\ StoreInv' /\ ProgressInv /\ [Next]_vars => ProgressInv'
<1> SUFFICES ASSUME StoreInv, StoreInv', ProgressInv, [Next]_vars, NEW r \in Requests
             PROVE  Progress(r)'
  BY DEF ProgressInv, Progress
<1>1. Progress(r)
  BY DEF ProgressInv
<1>2. CASE RequestStep(r)
  <2>1. CASE Abort(r)
    BY <2>1, FinishProgress DEF Abort
  <2> QED
    BY <1>1, <1>2, <2>1, FindProgress, ReadProgress, UpdateProgress, InsertProgress,
       BackoffProgress, EndProgress DEF RequestStep, Step, Committing
<1>3. ASSUME NEW s \in Requests \ {r}, RequestStep(s) PROVE Progress(r)'
  <2>1. Others(s)
    BY <1>3, StepOthers DEF StoreInv, TypeInv
  <2>2. UNCHANGED <<version, txns>> \/ Committing(s)
    BY <1>3, OnlyCommitWrites
  <2> QED
    BY <1>1, <1>3, <2>1, <2>2, ProgressOthers DEF Others
<1>4. CASE UNCHANGED <<balance, version, txns, outbox, outboxSeq,
                       call, pc, attempt, own, peer, rowId, reply>>
  BY <1>1, <1>4, ProgressOthers
<1> QED
  BY <1>2, <1>3, <1>4, NextCases

(* "Too much contention" is only told to a request whose wallets have seen as many COMMITs
   of others as it made attempts. The invariant behind it is stronger: it charges each
   attempt to a COMMIT of its own that made the row newer than that attempt had read it.   *)
THEOREM ContentionIsProgress == Spec => []ContentionMeansProgress
<1>1. ProgressInv => ContentionMeansProgress
  BY DEF ProgressInv, Progress, ContentionMeansProgress, Seen
<1>2. Init => StoreInv
  BY InitType, InitRead, InitAnswer, InitBalance DEF StoreInv
<1>3. StoreInv /\ [Next]_vars => StoreInv'
  BY NextType, ReadStep, AnswerStep, BalanceStep DEF StoreInv
<1> QED
  BY <1>1, <1>2, <1>3, InitProgress, ProgressStep, PTL DEF Spec
==============================================================================
