CONSTANTS
  r1 = r1  r2 = r2  r3 = r3  r4 = r4
  Ann = Ann  Bob = Bob
  k1 = k1  k2 = k2
  Requests = {r1, r2, r3}
  Users = {Ann, Bob}
  WalletIds = {1, 2}
  Keys = {k1, k2}
  Calls <- KeyCalls
  InitialOwner <- OnlyAnn
  MaxRetries = 2
  BigintMax = 3
  IntMax = 3
  NoUser = NoUser  NoWallet = NoWallet  NoCall = NoCall  BadKey = BadKey  NoRow = NoRow
SPECIFICATION Spec
INVARIANTS
  MoneyMovesOnce
  IdempotentReplies
  RejectedMovesNothing
PROPERTIES
  Atomic
