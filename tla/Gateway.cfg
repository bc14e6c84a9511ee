CONSTANTS
  h1 = h1  h2 = h2
  Ann = Ann  Bob = Bob  Cy = Cy
  ann = ann  cy = cy  CY = CY  nobody = nobody
  p1 = p1  p2 = p2
  k1 = k1  k2 = k2
  q1 = q1  q2 = q2
  pod1 = pod1  pod2 = pod2
  c1 = c1  c2 = c2
  Requests = {h1, h2}
  Users = {Ann, Bob, Cy}
  WalletIds = {1, 2, 3, 4}
  Keys = {k1, k2}
  Calls = {}
  InitialOwner <- AnnAndBob
  InitialHash <- BothHash
  Spellings = {ann, cy, CY, nobody}
  Normalised <- SpellingOf
  Passwords = {p1, p2}
  Messages <- AllMessages
  MaxFaults = 2
  MaxRetries = 1
  NoUser = NoUser  NoWallet = NoWallet  NoCall = NoCall  BadKey = BadKey
  NoPassword = NoPassword  NoKey = NoKey
  Hits = {q1, q2}
  Pods = {pod1, pod2}
  Clients = {c1, c2}
  Balancer = Balancer
  NoHeader = NoHeader
  PerMinute <- Limits
  Minute = 3
  Ttl = 5
  MaxSkew = 1
  MaxDelay = 1
  MaxClock = 4
  MaxRedisFaults = 1
CHECK_DEADLOCK FALSE
SPECIFICATION GatewaySpec
INVARIANTS
  OneAccountOneWallet
  RefusedMovesNothing
  CreatedMeansMovedOnce
  WithinLimit
  RefusedForOwnUse
PROPERTIES
  EveryUserGetsWallet
