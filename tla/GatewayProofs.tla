---------------------------- MODULE GatewayProofs -----------------------------
(***************************************************************************)
(* Proofs about the gateway: its rate limiter and its HTTP API.            *)
(***************************************************************************)
EXTENDS Gateway, RateLimiter, FiniteSetTheorems, TLAPS

(***************************************************************************)
(* The rate limiter. The counter of a key does not expire as long as a     *)
(* request for it may still arrive, so that it counts all of them: this is *)
(* where the slack of the EXPIRE is needed.                                *)
(***************************************************************************)

(* A quotient is the number of whole divisors that fit. *)
LEMMA Quotient ==
  ASSUME NEW n \in Nat, NEW m \in Nat \ {0}
  PROVE  /\ n \div m \in Nat
         /\ (n \div m) * m <= n
         /\ n < (n \div m) * m + m
  OBVIOUS

LEMMA LessProduct ==
  ASSUME NEW i \in Nat, NEW j \in Nat, NEW m \in Nat \ {0}, i < j
  PROVE  i * m + m <= j * m
  OBVIOUS

LEMMA QuotientGrows ==
  ASSUME NEW m \in Nat \ {0}, NEW n \in Nat, NEW k \in Nat, n <= k
  PROVE  n \div m \in 0..(k \div m)
<1>1. n \div m \in Nat /\ k \div m \in Nat
  BY Quotient
<1>2. SUFFICES ASSUME k \div m < n \div m PROVE FALSE
  BY <1>1
<1> DEFINE i == k \div m
           j == n \div m
<1>3. i * m + m <= j * m
  BY <1>1, <1>2, LessProduct
<1>4. j * m <= n /\ k < i * m + m
  BY Quotient
<1>5. j * m \in Nat /\ i * m + m \in Nat
  BY <1>1
<1> QED BY <1>3, <1>4, <1>5

AtRedis(r) == req[r].at = "redis"

(* The requests counted on budget b that are on their way to Redis. *)
Coming(b) == {r \in Hits : AtRedis(r) /\ req[r].budget = b}

LimiterTypes ==
  /\ skew \in [Pods -> 0..MaxSkew]
  /\ clock \in 0..MaxClock
  /\ count \in [Key -> Nat]
  /\ until \in [Key -> Nat]
  /\ req \in [Hits -> {NotSent, [at |-> "done"]} \cup
                      [at: {"redis"}, key: Budget, budget: Budget, since: Nat]]
  /\ tried \in [Budget -> Nat]
  /\ admitted \in [Budget -> Nat]
  /\ open \in [Budget -> Nat]
  /\ refused \in [Budget -> Nat]

WindowStart(b) == b[3] * Minute

(* A request is counted on its own budget, and not long after that window. *)
OnTime(r) ==
  AtRedis(r) =>
    /\ req[r].key = req[r].budget
    /\ req[r].since <= clock
    /\ clock <= req[r].since + MaxDelay
    /\ WindowStart(req[r].budget) <= req[r].since + MaxSkew
    /\ req[r].since < WindowStart(req[r].budget) + Minute

(* A counter lives until no request for it can arrive any more. *)
LivesOn(b) == count[b] > 0 => until[b] >= WindowStart(b) + Minute + MaxDelay

(* The counter counts every request let through, and only requests received. *)
Counted(b) ==
  /\ admitted[b] <= count[b]
  /\ count[b] + Cardinality(Coming(b)) <= tried[b]

LimiterInv ==
  /\ LimiterTypes
  /\ \A r \in Hits : OnTime(r)
  /\ \A b \in Budget : LivesOn(b) /\ Counted(b)
  /\ WithinLimit
  /\ RefusedForOwnUse

LEMMA BudgetIsKey == Budget \subseteq Key
  BY DEF Budget, Key

LEMMA BudgetParts ==
  ASSUME NEW b \in Budget
  PROVE  /\ b[1] \in Buckets /\ PerMinute[b[1]] \in Nat
         /\ b[3] \in Nat /\ WindowStart(b) \in Nat
<1>1. b[1] \in Buckets /\ b[3] \in Windows
  BY DEF Budget
<1>2. b[3] \in Nat
  BY <1>1, LimiterAssumption DEF Windows
<1>3. WindowStart(b) \in Nat
  BY <1>2, LimiterAssumption DEF WindowStart
<1> QED BY <1>1, <1>2, <1>3, LimiterAssumption

LEMMA ComingFinite ==
  ASSUME NEW b
  PROVE  IsFiniteSet(Coming(b)) /\ Cardinality(Coming(b)) \in Nat
<1>1. IsFiniteSet(Coming(b))
  BY LimiterAssumption, FS_Subset DEF Coming
<1> QED BY <1>1, FS_CardinalityType

LEMMA LimiterInitInv == LimiterInit => LimiterInv
<1> SUFFICES ASSUME LimiterInit PROVE LimiterInv
  OBVIOUS
<1>1. LimiterTypes
  BY LimiterAssumption DEF LimiterInit, LimiterTypes
<1>2. \A r \in Hits : ~AtRedis(r)
  BY DEF LimiterInit, AtRedis, NotSent
<1>3. \A r \in Hits : OnTime(r)
  BY <1>2 DEF OnTime
<1>4. ASSUME NEW b \in Budget
      PROVE  /\ LivesOn(b) /\ Counted(b)
             /\ admitted[b] <= PerMinute[b[1]]
             /\ ~(refused[b] > 0)
  <2>1. b \in Key /\ PerMinute[b[1]] \in Nat
    BY BudgetIsKey, BudgetParts
  <2>2. Coming(b) = {}
    BY <1>2 DEF Coming
  <2>3. Cardinality(Coming(b)) = 0
    BY <2>2, FS_EmptySet
  <2> QED BY <2>1, <2>3 DEF LimiterInit, LivesOn, Counted
<1> QED BY <1>1, <1>3, <1>4 DEF LimiterInv, WithinLimit, RefusedForOwnUse

LEMMA ArriveReads ==
  ASSUME LimiterInv, NEW r \in Hits, NEW p \in Pods, NEW b \in Buckets, NEW c \in Clients,
         Arrive(r, p, b, c)
  PROVE  \E d \in Budget :
           /\ d[3] = Window(clock + skew[p])
           /\ req' = [req EXCEPT ![r] = [at |-> "redis", key |-> d, budget |-> d, since |-> clock]]
           /\ tried' = [tried EXCEPT ![d] = @ + 1]
<1> DEFINE now == clock + skew[p]
           d == <<b, c, Window(now)>>
<1>1. now \in Nat /\ now <= MaxClock + MaxSkew /\ MaxClock + MaxSkew \in Nat
  BY LimiterAssumption DEF LimiterInv, LimiterTypes
<1>2. Window(now) \in Windows
  <2> HIDE DEF now
  <2> QED BY <1>1, LimiterAssumption, QuotientGrows DEF Window, Windows
<1>3. d \in Budget /\ d[3] = Window(now)
  <2> HIDE DEF now
  <2> QED BY <1>2 DEF Budget
<1>4. PICK forwarded \in IF trustProxy THEN {c} ELSE Clients \cup {NoHeader} :
        LET remote == IF trustProxy THEN Balancer ELSE c
            key == IF b = "auth" THEN ClientIP(trustProxy, remote, forwarded) ELSE c
        IN req' = [req EXCEPT ![r] = [at |-> "redis", key |-> <<b, key, Window(now)>>,
                                      budget |-> d, since |-> clock]]
  BY DEF Arrive
<1>5. ClientIP(trustProxy, IF trustProxy THEN Balancer ELSE c, forwarded) = c
  BY LimiterAssumption DEF ClientIP
<1>6. req' = [req EXCEPT ![r] = [at |-> "redis", key |-> d, budget |-> d, since |-> clock]]
  <2> HIDE DEF now
  <2> QED BY <1>4, <1>5
<1>7. req'[r].budget = d
  <2> HIDE DEF d
  <2> QED BY <1>6 DEF LimiterInv, LimiterTypes
<1>8. tried' = [tried EXCEPT ![d] = @ + 1]
  <2> HIDE DEF d
  <2> QED BY <1>7 DEF Arrive, Bump
<1> QED BY <1>3, <1>6, <1>8

LEMMA ArriveLimits ==
  ASSUME LimiterInv, NEW r \in Hits, NEW p \in Pods, NEW b \in Buckets, NEW c \in Clients,
         Arrive(r, p, b, c)
  PROVE  LimiterInv'
<1>1. PICK d \in Budget :
        /\ d[3] = Window(clock + skew[p])
        /\ req' = [req EXCEPT ![r] = [at |-> "redis", key |-> d, budget |-> d, since |-> clock]]
        /\ tried' = [tried EXCEPT ![d] = @ + 1]
  BY ArriveReads
<1>2. UNCHANGED <<skew, clock, count, until, admitted, open, refused>>
  BY DEF Arrive
<1>3. ~AtRedis(r)
  BY DEF Arrive, AtRedis, NotSent
<1>4. LimiterTypes'
  <2>1. req' \in [Hits -> {NotSent, [at |-> "done"]} \cup
                          [at: {"redis"}, key: Budget, budget: Budget, since: Nat]]
    BY <1>1, LimiterAssumption DEF LimiterInv, LimiterTypes
  <2> QED BY <1>1, <1>2, <2>1 DEF LimiterInv, LimiterTypes
<1>5. \A q \in Hits : OnTime(q)'
  <2>1. WindowStart(d) <= clock + MaxSkew /\ clock < WindowStart(d) + Minute
    <3>1. clock \in Nat /\ skew[p] \in Nat /\ skew[p] <= MaxSkew
      BY LimiterAssumption DEF LimiterInv, LimiterTypes
    <3>2. PICK now \in Nat : now = clock + skew[p]
      BY <3>1
    <3>3. (now \div Minute) * Minute <= now /\ now < (now \div Minute) * Minute + Minute
      BY Quotient, LimiterAssumption
    <3>4. WindowStart(d) = (now \div Minute) * Minute
      BY <1>1, <3>2 DEF WindowStart, Window
    <3>5. WindowStart(d) <= now /\ now < WindowStart(d) + Minute
      BY <3>3, <3>4
    <3> QED BY <3>1, <3>2, <3>5, BudgetParts, LimiterAssumption
  <2>2. OnTime(r)'
    BY <1>1, <1>2, <2>1, LimiterAssumption DEF OnTime, LimiterInv, LimiterTypes, WindowStart
  <2>3. ASSUME NEW q \in Hits, q # r PROVE OnTime(q)'
    <3>1. req'[q] = req[q]
      BY <1>1, <2>3 DEF LimiterInv, LimiterTypes
    <3> QED BY <1>2, <3>1 DEF OnTime, LimiterInv, AtRedis, WindowStart
  <2> QED BY <2>2, <2>3
<1>6. ASSUME NEW e \in Budget PROVE LivesOn(e)' /\ Counted(e)'
  <2>1. LivesOn(e) /\ Counted(e) /\ count[e] \in Nat /\ tried[e] \in Nat
    BY BudgetIsKey DEF LimiterInv, LimiterTypes
  <2>2. LivesOn(e)'
    BY <1>2, <2>1 DEF LivesOn, WindowStart
  <2>3. CASE e = d
    <3>1. Coming(e)' = Coming(e) \cup {r} /\ r \notin Coming(e)
      BY <1>1, <1>3, <2>3 DEF Coming, AtRedis, LimiterInv, LimiterTypes
    <3>2. Cardinality(Coming(e)') = Cardinality(Coming(e)) + 1
      BY <3>1, ComingFinite, FS_AddElement
    <3>3. tried'[e] = tried[e] + 1
      BY <1>1, <2>3 DEF LimiterInv, LimiterTypes
    <3>4. Cardinality(Coming(e)) \in Nat
      BY ComingFinite
    <3> QED BY <1>2, <2>1, <2>2, <3>2, <3>3, <3>4 DEF Counted
  <2>4. CASE e # d
    <3>1. Coming(e)' = Coming(e)
      BY <1>1, <1>3, <2>4 DEF Coming, AtRedis, LimiterInv, LimiterTypes
    <3>3. tried'[e] = tried[e]
      BY <1>1, <2>4 DEF LimiterInv, LimiterTypes
    <3> QED BY <1>2, <2>1, <2>2, <3>1, <3>3 DEF Counted
  <2> QED BY <2>3, <2>4
<1>7. WithinLimit'
  BY <1>2 DEF LimiterInv, WithinLimit
<1>8. RefusedForOwnUse'
  <2> SUFFICES ASSUME NEW e \in Budget, refused[e] > 0 PROVE tried'[e] > PerMinute[e[1]]
    BY <1>2 DEF RefusedForOwnUse
  <2>1. tried[e] > PerMinute[e[1]] /\ tried[e] \in Nat /\ PerMinute[e[1]] \in Nat
    BY BudgetParts DEF LimiterInv, LimiterTypes, RefusedForOwnUse
  <2>2. tried'[e] \in {tried[e], tried[e] + 1}
    BY <1>1 DEF LimiterInv, LimiterTypes
  <2> QED BY <2>1, <2>2
<1> QED BY <1>4, <1>5, <1>6, <1>7, <1>8 DEF LimiterInv

(* Redis counts a request on its budget, and keeps the counter for long enough. *)
LEMMA IncrCounts ==
  ASSUME LimiterInv, NEW r \in Hits, AtRedis(r), Incr(req[r].key)
  PROVE  \E d \in Budget :
           /\ d = req[r].budget /\ d = req[r].key
           /\ count' = [count EXCEPT ![d] = @ + 1]
           /\ until' \in [Key -> Nat]
           /\ \A e \in Budget : e # d => until'[e] = until[e]
           /\ LivesOn(d)'
<1>1. PICK d : d = req[r].budget
  OBVIOUS
<1>2. d \in Budget /\ req[r].key = d /\ req[r].since \in Nat /\ clock \in Nat
  BY <1>1, LimiterAssumption DEF LimiterInv, LimiterTypes, OnTime, AtRedis, NotSent
<1>3. d \in Key /\ WindowStart(d) \in Nat /\ count[d] \in Nat /\ until[d] \in Nat
  BY <1>2, BudgetIsKey, BudgetParts DEF LimiterInv, LimiterTypes
<1>4. /\ req[r].since <= clock /\ clock <= req[r].since + MaxDelay
      /\ WindowStart(d) <= req[r].since + MaxSkew
      /\ req[r].since < WindowStart(d) + Minute
  BY <1>1 DEF LimiterInv, OnTime
<1>5. LivesOn(d)
  BY <1>2 DEF LimiterInv
<1>6. Counter(d) = count[d]
  BY <1>2, <1>3, <1>4, <1>5, LimiterAssumption DEF Counter, LivesOn
<1>7. /\ count' = [count EXCEPT ![d] = @ + 1]
      /\ until' = [until EXCEPT ![d] = clock + Ttl]
  BY <1>2, <1>6 DEF Incr
<1>8. until' \in [Key -> Nat]
  BY <1>2, <1>3, <1>7, LimiterAssumption DEF LimiterInv, LimiterTypes
<1>9. until'[d] = clock + Ttl
  BY <1>3, <1>7 DEF LimiterInv, LimiterTypes
<1>10. clock + Ttl >= WindowStart(d) + Minute + MaxDelay
  BY <1>2, <1>3, <1>4, LimiterAssumption, SlackAssumption
<1>11. until'[d] >= WindowStart(d) + Minute + MaxDelay
  BY <1>9, <1>10
<1>12. (count'[d] > 0 => until'[d] >= WindowStart(d) + Minute + MaxDelay)
  BY <1>11
<1>13. \A e \in Budget : e # d => until'[e] = until[e]
  BY <1>7, BudgetIsKey DEF LimiterInv, LimiterTypes
<1>14. LivesOn(d)'
  BY <1>12 DEF LivesOn, WindowStart
<1> QED BY <1>1, <1>2, <1>7, <1>8, <1>13, <1>14

(* A request that leaves Redis is no longer on its way. *)
LEMMA FinishComing ==
  ASSUME LimiterInv, NEW r \in Hits, AtRedis(r), Finish(r)
  PROVE  /\ req' \in [Hits -> {NotSent, [at |-> "done"]} \cup
                             [at: {"redis"}, key: Budget, budget: Budget, since: Nat]]
         /\ ~AtRedis(r)'
         /\ \A q \in Hits : q # r => req'[q] = req[q]
         /\ \A e \in Budget : e # req[r].budget => Coming(e)' = Coming(e)
         /\ Cardinality(Coming(req[r].budget)) >= 1
         /\ \A d \in Budget : d = req[r].budget =>
              Cardinality(Coming(d)') = Cardinality(Coming(d)) - 1
<1>1. req' = [req EXCEPT ![r] = [at |-> "done"]]
  BY DEF Finish
<1>2. req' \in [Hits -> {NotSent, [at |-> "done"]} \cup
                       [at: {"redis"}, key: Budget, budget: Budget, since: Nat]]
  BY <1>1 DEF LimiterInv, LimiterTypes
<1>3. /\ ~AtRedis(r)'
      /\ \A q \in Hits : q # r => req'[q] = req[q]
  BY <1>1 DEF LimiterInv, LimiterTypes, AtRedis
<1>4. \A e \in Budget : e # req[r].budget => Coming(e)' = Coming(e)
  BY <1>3 DEF Coming, AtRedis
<1>5. r \in Coming(req[r].budget)
  BY DEF Coming
<1>6. Cardinality(Coming(req[r].budget)) >= 1
  <2>1. PICK n : n = Cardinality(Coming(req[r].budget)) /\ n \in Nat
    BY ComingFinite
  <2>2. n # 0
    BY <1>5, <2>1, ComingFinite, FS_EmptySet
  <2> QED BY <2>1, <2>2
<1>7. ASSUME NEW d \in Budget, d = req[r].budget
      PROVE  Cardinality(Coming(d)') = Cardinality(Coming(d)) - 1
  <2>1. Coming(d)' = Coming(d) \ {r}
    BY <1>3 DEF Coming, AtRedis
  <2> QED BY <1>5, <1>7, <2>1, ComingFinite, FS_RemoveElement, ZenonT(30)
<1> QED BY <1>2, <1>3, <1>4, <1>6, <1>7

LEMMA FinishOnTime ==
  ASSUME LimiterInv, NEW r \in Hits, AtRedis(r), Finish(r), clock' = clock
  PROVE  \A q \in Hits : OnTime(q)'
<1> SUFFICES ASSUME NEW q \in Hits PROVE OnTime(q)'
  OBVIOUS
<1>1. CASE q = r
  BY <1>1, FinishComing DEF OnTime, AtRedis
<1>2. CASE q # r
  <2>1. req'[q] = req[q]
    BY <1>2, FinishComing
  <2> QED BY <2>1 DEF OnTime, LimiterInv, AtRedis, WindowStart
<1> QED BY <1>1, <1>2

(* Whatever becomes of a request, the counters still say enough. *)
LEMMA IncrCounted ==
  ASSUME LimiterInv, NEW r \in Hits, AtRedis(r), Incr(req[r].key), Finish(r),
         tried' = tried, clock' = clock, NEW e \in Budget
  PROVE  /\ LivesOn(e)'
         /\ count'[e] = (IF e = req[r].budget THEN count[e] + 1 ELSE count[e])
         /\ count'[e] + Cardinality(Coming(e)') <= tried'[e]
<1>1. PICK d \in Budget :
        /\ d = req[r].budget
        /\ count' = [count EXCEPT ![d] = @ + 1]
        /\ \A f \in Budget : f # d => until'[f] = until[f]
        /\ LivesOn(d)'
  BY IncrCounts
<1>2. /\ count[e] \in Nat /\ tried[e] \in Nat /\ Cardinality(Coming(e)) \in Nat
      /\ count[e] + Cardinality(Coming(e)) <= tried[e] /\ LivesOn(e)
  BY BudgetIsKey, ComingFinite DEF LimiterInv, LimiterTypes, Counted
<1>3. CASE e = d
  <2>1. count'[e] = count[e] + 1
    BY <1>1, <1>3, BudgetIsKey DEF LimiterInv, LimiterTypes
  <2>2. Cardinality(Coming(e)') = Cardinality(Coming(e)) - 1
    BY <1>1, <1>3, FinishComing
  <2> QED BY <1>1, <1>2, <1>3, <2>1, <2>2
<1>4. CASE e # d
  <2>1. count'[e] = count[e] /\ until'[e] = until[e]
    BY <1>1, <1>4, BudgetIsKey DEF LimiterInv, LimiterTypes
  <2>2. Coming(e)' = Coming(e)
    BY <1>1, <1>4, FinishComing
  <2>3. LivesOn(e)'
    BY <1>2, <2>1 DEF LivesOn, WindowStart
  <2> QED BY <1>1, <1>2, <1>4, <2>1, <2>2, <2>3
<1> QED BY <1>3, <1>4

LEMMA IncrTypes ==
  ASSUME LimiterInv, NEW r \in Hits, AtRedis(r), Incr(req[r].key)
  PROVE  count' \in [Key -> Nat] /\ until' \in [Key -> Nat]
<1>1. PICK d \in Budget : count' = [count EXCEPT ![d] = @ + 1] /\ until' \in [Key -> Nat]
  BY IncrCounts
<1> QED BY <1>1, BudgetIsKey DEF LimiterInv, LimiterTypes

LEMMA LimitLimits ==
  ASSUME LimiterInv, NEW r \in Hits, Limit(r)
  PROVE  LimiterInv'
<1>1. /\ AtRedis(r) /\ Incr(req[r].key) /\ Finish(r)
      /\ UNCHANGED <<skew, clock, tried, open>>
  BY DEF Limit, AtRedis
<1>2. PICK d \in Budget : d = req[r].budget /\ d = req[r].key
  BY <1>1, IncrCounts
<1>3. PerMinute[d[1]] \in Nat /\ count[d] \in Nat /\ tried[d] \in Nat
  BY BudgetParts, BudgetIsKey DEF LimiterInv, LimiterTypes
<1>4. count'[d] = count[d] + 1
  BY <1>1, <1>2, IncrCounted
<1>5. \/ /\ count[d] + 1 > PerMinute[d[1]]
         /\ refused' = [refused EXCEPT ![d] = @ + 1] /\ admitted' = admitted
      \/ /\ count[d] + 1 <= PerMinute[d[1]]
         /\ admitted' = [admitted EXCEPT ![d] = @ + 1] /\ refused' = refused
  <2>1. count'[d] > PerMinute[d[1]] \/ count[d] + 1 <= PerMinute[d[1]]
    BY <1>3, <1>4
  <2> QED BY <1>2, <1>3, <1>4, <2>1 DEF Limit, Bump
<1>6. LimiterTypes'
  <2>1. admitted' \in [Budget -> Nat] /\ refused' \in [Budget -> Nat]
    BY <1>5 DEF LimiterInv, LimiterTypes
  <2> QED BY <1>1, <2>1, IncrTypes, FinishComing DEF LimiterInv, LimiterTypes
<1>7. \A q \in Hits : OnTime(q)'
  BY <1>1, FinishOnTime
<1>8. ASSUME NEW e \in Budget
      PROVE  /\ LivesOn(e)' /\ Counted(e)'
             /\ admitted'[e] <= PerMinute[e[1]]
             /\ refused'[e] > 0 => tried'[e] > PerMinute[e[1]]
  <2>1. /\ LivesOn(e)'
        /\ count'[e] = (IF e = d THEN count[e] + 1 ELSE count[e])
        /\ count'[e] + Cardinality(Coming(e)') <= tried'[e]
    BY <1>1, <1>2, IncrCounted
  <2>2. /\ admitted[e] \in Nat /\ count[e] \in Nat /\ refused[e] \in Nat /\ tried[e] \in Nat
        /\ PerMinute[e[1]] \in Nat
        /\ admitted[e] <= count[e] /\ admitted[e] <= PerMinute[e[1]]
        /\ refused[e] > 0 => tried[e] > PerMinute[e[1]]
    BY BudgetIsKey, BudgetParts
    DEF LimiterInv, LimiterTypes, Counted, WithinLimit, RefusedForOwnUse
  <2>3. CASE e = d
    <3>1. count[d] + Cardinality(Coming(d)) <= tried[d]
      BY DEF LimiterInv, Counted
    <3>2. Cardinality(Coming(d)) >= 1 /\ Cardinality(Coming(d)) \in Nat
      BY <1>1, <1>2, FinishComing, ComingFinite
    <3>3. count[d] + 1 <= tried[d]
      BY <1>3, <3>1, <3>2
    <3>4. CASE count[d] + 1 > PerMinute[d[1]] /\ admitted' = admitted
      <4>1. tried'[e] > PerMinute[e[1]]
        BY <1>1, <1>3, <2>3, <3>3, <3>4
      <4> QED BY <2>1, <2>2, <2>3, <3>4, <4>1 DEF Counted
    <3>5. CASE /\ count[d] + 1 <= PerMinute[d[1]]
               /\ admitted' = [admitted EXCEPT ![d] = @ + 1] /\ refused' = refused
      <4>1. admitted'[e] = admitted[e] + 1
        BY <2>3, <3>5 DEF LimiterInv, LimiterTypes
      <4> QED BY <1>1, <2>1, <2>2, <2>3, <3>5, <4>1 DEF Counted
    <3> QED BY <1>5, <3>4, <3>5
  <2>4. CASE e # d
    <3>1. admitted'[e] = admitted[e] /\ refused'[e] = refused[e]
      BY <1>5, <2>4 DEF LimiterInv, LimiterTypes
    <3> QED BY <1>1, <2>1, <2>2, <2>4, <3>1 DEF Counted
  <2> QED BY <2>3, <2>4
<1> QED BY <1>6, <1>7, <1>8 DEF LimiterInv, WithinLimit, RefusedForOwnUse

LEMMA FailOpenLimits ==
  ASSUME LimiterInv, NEW r \in Hits, FailOpen(r)
  PROVE  LimiterInv'
<1>1. /\ AtRedis(r) /\ Finish(r) /\ (Incr(req[r].key) \/ UNCHANGED <<count, until>>)
      /\ UNCHANGED <<skew, clock, tried, admitted, refused>>
  BY DEF FailOpen, AtRedis
<1>2. req[r].budget \in Budget
  BY <1>1 DEF AtRedis, LimiterInv, LimiterTypes, NotSent
<1>3. LimiterTypes'
  <2>1. open' \in [Budget -> Nat]
    BY <1>2 DEF FailOpen, Bump, LimiterInv, LimiterTypes
  <2>2. count' \in [Key -> Nat] /\ until' \in [Key -> Nat]
    BY <1>1, IncrTypes DEF LimiterInv, LimiterTypes
  <2> QED BY <1>1, <2>1, <2>2, FinishComing DEF LimiterInv, LimiterTypes
<1>4. \A q \in Hits : OnTime(q)'
  BY <1>1, FinishOnTime
<1>5. ASSUME NEW e \in Budget PROVE LivesOn(e)' /\ Counted(e)'
  <2>1. /\ admitted[e] \in Nat /\ count[e] \in Nat /\ tried[e] \in Nat
        /\ admitted[e] <= count[e] /\ LivesOn(e)
        /\ count[e] + Cardinality(Coming(e)) <= tried[e]
    BY BudgetIsKey DEF LimiterInv, LimiterTypes, Counted
  <2>2. CASE Incr(req[r].key)
    <3>1. LivesOn(e)' /\ count'[e] >= count[e] /\ count'[e] + Cardinality(Coming(e)') <= tried'[e]
      BY <1>1, <2>1, <2>2, IncrCounted
    <3>2. count'[e] \in Nat
      BY <1>3, BudgetIsKey DEF LimiterTypes
    <3> QED BY <1>1, <2>1, <3>1, <3>2 DEF Counted
  <2>3. CASE UNCHANGED <<count, until>>
    <3>1. Cardinality(Coming(e)') <= Cardinality(Coming(e))
      <4>1. CASE e = req[r].budget
        BY <1>1, <4>1, FinishComing, ComingFinite
      <4>2. CASE e # req[r].budget
        BY <1>1, <4>2, FinishComing, ComingFinite
      <4> QED BY <4>1, <4>2
    <3>2. Cardinality(Coming(e)) \in Nat
      BY ComingFinite
    <3>3. Cardinality(Coming(e)') \in Nat
      <4>1. Coming(e)' \subseteq Hits
        BY DEF Coming
      <4> QED BY <4>1, LimiterAssumption, FS_Subset, FS_CardinalityType
    <3>4. count'[e] + Cardinality(Coming(e)') <= tried'[e]
      BY <1>1, <2>1, <2>3, <3>1, <3>2, <3>3
    <3> QED BY <1>1, <2>1, <2>3, <3>4 DEF LivesOn, Counted, WindowStart
  <2> QED BY <1>1, <2>2, <2>3
<1>6. WithinLimit' /\ RefusedForOwnUse'
  BY <1>1 DEF LimiterInv, WithinLimit, RefusedForOwnUse
<1> QED BY <1>3, <1>4, <1>5, <1>6 DEF LimiterInv

LEMMA TickLimits ==
  ASSUME LimiterInv, Tick
  PROVE  LimiterInv'
<1>1. /\ clock < MaxClock /\ clock' = clock + 1
      /\ UNCHANGED <<skew, count, until, req, tried, admitted, open, refused>>
  BY DEF Tick, history
<1>2. LimiterTypes'
  BY <1>1, LimiterAssumption DEF LimiterInv, LimiterTypes
<1>3. ASSUME NEW r \in Hits PROVE OnTime(r)'
  <2>1. AtRedis(r) => clock < req[r].since + MaxDelay /\ req[r].since \in Nat
    BY DEF Tick, AtRedis, LimiterInv, LimiterTypes, NotSent
  <2>2. OnTime(r) /\ clock \in Nat
    BY LimiterAssumption DEF LimiterInv, LimiterTypes
  <2> QED BY <1>1, <2>1, <2>2, LimiterAssumption DEF OnTime, AtRedis, WindowStart
<1>4. ASSUME NEW b \in Budget PROVE LivesOn(b)' /\ Counted(b)'
  <2>1. Coming(b)' = Coming(b)
    BY <1>1 DEF Coming, AtRedis
  <2> QED BY <1>1, <2>1 DEF LimiterInv, LivesOn, Counted, WindowStart
<1>5. WithinLimit' /\ RefusedForOwnUse'
  BY <1>1 DEF LimiterInv, WithinLimit, RefusedForOwnUse
<1> QED BY <1>2, <1>3, <1>4, <1>5 DEF LimiterInv

LEMMA LimiterStep == LimiterInv /\ [LimiterNext]_limiterVars => LimiterInv'
<1> SUFFICES ASSUME LimiterInv, [LimiterNext]_limiterVars PROVE LimiterInv'
  OBVIOUS
<1>1. CASE LimiterNext
  BY <1>1, ArriveLimits, LimitLimits, FailOpenLimits, TickLimits DEF LimiterNext
<1>2. CASE UNCHANGED limiterVars
  BY <1>2 DEF limiterVars, history, LimiterInv, LimiterTypes, OnTime, AtRedis, WindowStart,
              LivesOn, Counted, Coming, WithinLimit, RefusedForOwnUse
<1> QED BY <1>1, <1>2

(* Over all pods together a client gets its requests of a window and no more: the limit
   holds whatever the pods' clocks say, as long as EXPIRE outlives the window by the skew
   and by the time a request takes to reach Redis.                                       *)
THEOREM LimitHolds == LimiterSpec => []WithinLimit
<1>1. LimiterInv => WithinLimit
  BY DEF LimiterInv
<1> QED BY LimiterInitInv, LimiterStep, <1>1, PTL DEF LimiterSpec

(* A client is told 429 only for the requests it sent itself. *)
THEOREM LimitIsOwn == LimiterSpec => []RefusedForOwnUse
<1>1. LimiterInv => RefusedForOwnUse
  BY DEF LimiterInv
<1> QED BY LimiterInitInv, LimiterStep, <1>1, PTL DEF LimiterSpec

(***************************************************************************)
(* The HTTP API.                                                           *)
(***************************************************************************)

LEMMA FailureStatus ==
  \A code \in {"DeadlineExceeded", "Internal", "Unavailable"} :
    HttpStatusFor(code) \in {500, 503, 504}
  BY DEF HttpStatusFor

LEMMA ErrorStatus ==
  \A code \in {"NotFound", "FailedPrecondition", "InvalidArgument", "AlreadyExists", "Aborted"} :
    HttpStatusFor(code) \in {400, 404, 409, 422}
  BY DEF HttpStatusFor

LEMMA ReplyCodes ==
  ASSUME NEW code, NEW grpc \in GrpcCodes(code)
  PROVE  /\ code \in Rejection =>
              grpc \in {"NotFound", "FailedPrecondition", "InvalidArgument", "AlreadyExists", "Aborted"}
         /\ code = "Failed" => grpc \in {"DeadlineExceeded", "Internal", "Unavailable"}
  BY DEF GrpcCodes, Rejection

MoneyOps == {"deposit", "transfer"}

(* What the wallet service has answered. *)
Answered == [code: Code \ {"none"}, tx: TxnId \cup {NoTxn}]

MoneyInv ==
  /\ call \in [Requests -> Call \cup {NoCall}]
  /\ reply \in [Requests -> {NoReply} \cup Answered]
  /\ \A h \in Requests : call[h] = NoCall => reply[h] = NoReply
  /\ \A t \in txns : t.id \in TxnId /\ reply[t.id[1]].code \in {"ok", "Failed"}
  /\ \A s, t \in txns : s.user = t.user /\ s.key = t.key => s = t
  /\ \A h \in Requests : reply[h].code \in Success =>
       \E t \in txns : SameKey(t, call[h]) /\ SameRequest(t, call[h])

HandlerTypes ==
  /\ msg \in [Requests -> Messages \cup {NoMessage}]
  /\ pc \in [Requests -> {"idle", "handler", "createWallet", "money", "done"}]
  /\ rpc \in [Requests -> {"none", "sent", "ok", "failed"}]
  /\ status \in [Requests -> Nat]
  /\ wallet \in [Requests -> WalletIds \cup {NoWallet}]

HasAccount(u) == u \in Users /\ hash[u] # NoPassword

(* The two databases and what users were told of them. *)
TablesInv ==
  /\ owner \in [WalletIds -> Users \cup {NoUser}]
  /\ hash \in [Users -> Passwords \cup {NoPassword}]
  /\ told \in [Users -> SUBSET WalletIds]
  /\ \A u \in tokens : HasAccount(u)
  /\ \A v, w \in WalletIds : owner[v] = owner[w] /\ owner[v] # NoUser => v = w
  /\ \A u \in Users : \A w \in told[u] : owner[w] = u
  /\ WalletsHaveUsers

(* The CreateWallet call of a request is for an account that is there, and stays there. *)
CreatesForAccount(h) ==
  /\ msg[h].op \in {"register", "getMyWallet"}
  /\ HasAccount(UserOf(msg[h]))
  /\ msg[h].op = "register" => hash[UserOf(msg[h])] = msg[h].password

(* Where a request is, and what it has left behind. *)
Placed(h) ==
  /\ pc[h] # "idle" => msg[h] \in Messages
  /\ pc[h] # "done" => status[h] = 0
  /\ pc[h] \notin {"idle", "done"} /\ msg[h].op \in WalletOps => HasAccount(msg[h].token)
  /\ rpc[h] # "none" => pc[h] \in {"createWallet", "done"} /\ CreatesForAccount(h)
  /\ pc[h] = "createWallet" => rpc[h] # "none"
  /\ rpc[h] = "ok" => wallet[h] \in WalletIds /\ owner[wallet[h]] = UserOf(msg[h])
  /\ call[h] # NoCall => pc[h] \in {"money", "done"} /\ msg[h].op \in MoneyOps
  /\ pc[h] = "money" => call[h] # NoCall

(* What a status tells about the request. *)
Truthful(h) ==
  /\ status[h] = 201 /\ msg[h].op = "register" => rpc[h] # "none"
  /\ status[h] = 201 /\ call[h] # NoCall => reply[h].code \in Success
  /\ status[h] \in 400..499 /\ call[h] # NoCall => reply[h].code \in Rejection

GatewayInv ==
  /\ MoneyInv /\ HandlerTypes /\ TablesInv
  /\ \A h \in Requests : Placed(h) /\ Truthful(h)

LEMMA GatewayInvImplies ==
  GatewayInv => OneAccountOneWallet /\ RefusedMovesNothing /\ CreatedMeansMovedOnce
<1> SUFFICES ASSUME GatewayInv
             PROVE  OneAccountOneWallet /\ RefusedMovesNothing /\ CreatedMeansMovedOnce
  OBVIOUS
<1>1. OneWallet
  <2> SUFFICES ASSUME NEW u \in Users, NEW w \in told[u] PROVE WalletsOf(u) = {w}
    BY DEF OneWallet
  <2>1. w \in WalletIds /\ owner[w] = u /\ u # NoUser
    BY IdsAssumption DEF GatewayInv, TablesInv
  <2>2. \A v \in WalletIds : owner[v] = u => v = w
    BY <2>1 DEF GatewayInv, TablesInv
  <2> QED BY <2>1, <2>2 DEF WalletsOf
<1>2. SignUpKeepsPassword
  BY DEF GatewayInv, Placed, Truthful, SignUpKeepsPassword, CreatesForAccount
<1>3. WalletsHaveUsers
  BY DEF GatewayInv, TablesInv
<1>4. RefusedMovesNothing
  <2> SUFFICES ASSUME NEW h \in Requests, status[h] \in 400..499, NEW t \in txns, t.id[1] = h
               PROVE  FALSE
    BY DEF RefusedMovesNothing
  <2>1. reply[h].code \in {"ok", "Failed"}
    BY DEF GatewayInv, MoneyInv
  <2>2. call[h] # NoCall
    BY <2>1 DEF GatewayInv, MoneyInv, NoReply
  <2>3. reply[h].code \in Rejection
    BY <2>2 DEF GatewayInv, Truthful
  <2> QED BY <2>1, <2>3 DEF Rejection
<1>5. CreatedMeansMovedOnce
  <2> SUFFICES ASSUME NEW h \in Requests, status[h] = 201, call[h] # NoCall
               PROVE  /\ Cardinality({t \in txns : SameKey(t, call[h])}) = 1
                      /\ \E t \in txns : SameKey(t, call[h]) /\ SameRequest(t, call[h])
    BY DEF CreatedMeansMovedOnce
  <2>1. reply[h].code \in Success
    BY DEF GatewayInv, Truthful
  <2>2. PICK t \in txns : SameKey(t, call[h]) /\ SameRequest(t, call[h])
    BY <2>1 DEF GatewayInv, MoneyInv
  <2>3. {x \in txns : SameKey(x, call[h])} = {t}
    <3>1. \A x \in txns : SameKey(x, call[h]) => x = t
      BY <2>2 DEF GatewayInv, MoneyInv, SameKey
    <3> QED BY <2>2, <3>1
  <2>4. Cardinality({x \in txns : SameKey(x, call[h])}) = 1
    <3>1. Cardinality({t}) = 1
      BY FS_Singleton
    <3> QED BY <2>3, <3>1
  <2> QED BY <2>2, <2>4
<1> QED BY <1>1, <1>2, <1>3, <1>4, <1>5 DEF OneAccountOneWallet

LEMMA InitGateway == Init => GatewayInv
<1> SUFFICES ASSUME Init PROVE GatewayInv
  OBVIOUS
<1>1. MoneyInv
  <2>1. \A h \in Requests : call[h] = NoCall /\ reply[h] = NoReply /\ reply[h].code \notin Success
    BY DEF Init, W!Init, NoReply, W!NoReply, NoTxn, W!NoTxn, Success
  <2>2. txns = {} /\ reply \in [Requests -> {NoReply}] /\ call \in [Requests -> {NoCall}]
    BY DEF Init, W!Init, NoReply, W!NoReply, NoTxn, W!NoTxn
  <2> QED BY <2>1, <2>2 DEF MoneyInv
<1>2. HandlerTypes
  BY DEF Init, HandlerTypes
<1>3. TablesInv
  BY GatewayAssumption, TablesAssumption DEF Init, W!Init, TablesInv, HasAccount, WalletsHaveUsers
<1>4. ASSUME NEW h \in Requests PROVE Placed(h) /\ Truthful(h)
  BY DEF Init, W!Init, Placed, Truthful
<1> QED BY <1>1, <1>2, <1>3, <1>4 DEF GatewayInv

(***************************************************************************)
(* What the wallet service does.                                           *)
(***************************************************************************)

(* What no step takes back: accounts, wallets and answers of the wallet service. *)
Growing ==
  /\ \A u \in Users : hash[u] # NoPassword => hash'[u] = hash[u]
  /\ \A w \in WalletIds : owner[w] # NoUser => owner'[w] = owner[w]
  /\ \A h \in Requests : reply[h] # NoReply => reply'[h] = reply[h]

(* The answer of a pending call. *)
Replied(h, code, tx) ==
  /\ call[h] # NoCall /\ reply[h] = NoReply
  /\ reply' = [reply EXCEPT ![h] = [code |-> code, tx |-> tx]]
  /\ UNCHANGED <<owner, call>>

LEMMA ExecuteEffect ==
  ASSUME NEW h \in Requests, NEW w \in WalletIds, W!Execute(h, 1, w)
  PROVE  \E t :
           /\ t.id = <<h, 1>> /\ t.user = call[h].user /\ t.key = call[h].key
           /\ SameKey(t, call[h]) /\ SameRequest(t, call[h])
           /\ \A x \in txns : ~SameKey(x, call[h])
           /\ txns' = txns \cup {t}
           /\ Replied(h, "ok", <<h, 1>>) \/ Replied(h, "Failed", NoTxn)
<1> DEFINE t == W!Made(h, 1, w)
<1>1. /\ t.id = <<h, 1>> /\ t.user = call[h].user /\ t.key = call[h].key
      /\ t.kind = call[h].kind /\ t.amount = call[h].amount
      /\ call[h].kind = "TRANSFER" => t.to = call[h].to
  BY DEF W!Made
<1>2. /\ txns' = txns \cup {t}
      /\ \A x \in txns : ~SameKey(x, call[h])
      /\ Replied(h, "ok", t.id) \/ Replied(h, "Failed", NoTxn)
  <2> HIDE DEF t
  <2>1. /\ W!Pending(h)
        /\ \A x \in txns : ~W!SameKey(x, call[h])
        /\ txns' = txns \cup {t}
        /\ W!Answer(h, "ok", t.id) \/ W!Answer(h, "Failed", W!NoTxn)
        /\ UNCHANGED <<owner, call>>
    BY DEF W!Execute, t
  <2> QED BY <2>1 DEF W!Pending, W!SameKey, SameKey, W!Answer, Replied, W!NoReply, NoReply,
                      W!NoTxn, NoTxn
<1> HIDE DEF t
<1> QED BY <1>1, <1>2 DEF SameKey, SameRequest

LEMMA ReplayEffect ==
  ASSUME NEW h \in Requests, NEW t \in txns, W!Replay(h, t)
  PROVE  /\ SameKey(t, call[h]) /\ SameRequest(t, call[h])
         /\ Replied(h, "replayed", t.id)
         /\ txns' = txns
  BY DEF W!Replay, W!Pending, W!SameKey, SameKey, W!SameRequest, SameRequest, W!Answer, Replied,
         W!NoReply, NoReply, W!NoTxn, NoTxn

LEMMA RefuseEffect ==
  ASSUME NEW h \in Requests, NEW code, W!Refuse(h, code)
  PROVE  Replied(h, code, NoTxn) /\ txns' = txns
  BY DEF W!Refuse, W!Pending, W!Answer, Replied, W!NoReply, NoReply, W!NoTxn, NoTxn

(* An answer changes nothing but the reply of its call. *)
LEMMA RepliedKeeps ==
  ASSUME MoneyInv, NEW h \in Requests, NEW code \in Code \ {"none"}, NEW tx \in TxnId \cup {NoTxn},
         Replied(h, code, tx)
  PROVE  /\ reply' \in [Requests -> {NoReply} \cup Answered]
         /\ reply'[h].code = code
         /\ \A g \in Requests : g # h => reply'[g] = reply[g]
         /\ \A g \in Requests : reply[g] # NoReply => reply'[g] = reply[g]
         /\ \A g \in Requests : call'[g] = NoCall => reply'[g] = NoReply
         /\ \A t \in txns : t.id[1] # h
         /\ call' \in [Requests -> Call \cup {NoCall}]
<1>1. reply' = [reply EXCEPT ![h] = [code |-> code, tx |-> tx]]
  BY DEF Replied
<1>2. [code |-> code, tx |-> tx] \in Answered
  BY DEF Answered
<1>3. reply' \in [Requests -> {NoReply} \cup Answered]
  BY <1>1, <1>2 DEF MoneyInv
<1>4. /\ reply'[h] = [code |-> code, tx |-> tx]
      /\ \A g \in Requests : g # h => reply'[g] = reply[g]
  BY <1>1 DEF MoneyInv
<1>5. \A g \in Requests : reply[g] # NoReply => reply'[g] = reply[g]
  BY <1>4 DEF Replied
<1>6. \A g \in Requests : call'[g] = NoCall => reply'[g] = NoReply
  BY <1>4 DEF MoneyInv, Replied
<1>7. ASSUME NEW t \in txns PROVE t.id[1] # h
  BY DEF MoneyInv, Replied, NoReply
<1> QED BY <1>3, <1>4, <1>5, <1>6, <1>7 DEF MoneyInv, Replied

LEMMA ExecuteMoney ==
  ASSUME MoneyInv, NEW h \in Requests, NEW w \in WalletIds, W!Execute(h, 1, w)
  PROVE  MoneyInv' /\ UNCHANGED <<owner, call>>
         /\ \A g \in Requests : reply[g] # NoReply => reply'[g] = reply[g]
<1>1. PICK t :
        /\ t.id = <<h, 1>> /\ t.user = call[h].user /\ t.key = call[h].key
        /\ SameKey(t, call[h]) /\ SameRequest(t, call[h])
        /\ \A x \in txns : ~SameKey(x, call[h])
        /\ txns' = txns \cup {t}
        /\ Replied(h, "ok", <<h, 1>>) \/ Replied(h, "Failed", NoTxn)
  BY ExecuteEffect
<1>2. <<h, 1>> \in TxnId
  BY RetriesAssumption DEF TxnId
<1>3. PICK code \in {"ok", "Failed"}, tx \in TxnId \cup {NoTxn} : Replied(h, code, tx)
  BY <1>1, <1>2
<1>4. code \in Code \ {"none"}
  BY DEF Code, Success
<1>5. UNCHANGED <<owner, call>>
  BY <1>3 DEF Replied
<1>6. /\ reply' \in [Requests -> {NoReply} \cup Answered]
      /\ reply'[h].code = code
      /\ \A g \in Requests : g # h => reply'[g] = reply[g]
      /\ \A g \in Requests : reply[g] # NoReply => reply'[g] = reply[g]
      /\ \A g \in Requests : call'[g] = NoCall => reply'[g] = NoReply
      /\ \A x \in txns : x.id[1] # h
      /\ call' \in [Requests -> Call \cup {NoCall}]
  BY <1>3, <1>4, RepliedKeeps
<1>7. ASSUME NEW x \in txns' PROVE x.id \in TxnId /\ reply'[x.id[1]].code \in {"ok", "Failed"}
  <2>1. CASE x = t
    BY <1>1, <1>2, <1>6, <2>1
  <2>2. CASE x \in txns
    <3>1. x.id \in TxnId /\ x.id[1] \in Requests /\ x.id[1] # h
      BY <1>6, <2>2 DEF MoneyInv, TxnId
    <3> QED BY <1>6, <2>2, <3>1 DEF MoneyInv
  <2> QED BY <1>1, <2>1, <2>2
<1>8. ASSUME NEW x \in txns', NEW y \in txns', x.user = y.user, x.key = y.key PROVE x = y
  BY <1>1, <1>8 DEF MoneyInv, SameKey
<1>9. ASSUME NEW g \in Requests, reply'[g].code \in Success
      PROVE  \E x \in txns' : SameKey(x, call'[g]) /\ SameRequest(x, call'[g])
  <2>1. CASE g = h
    BY <1>1, <1>5, <2>1
  <2>2. CASE g # h
    <3>1. PICK x \in txns : SameKey(x, call[g]) /\ SameRequest(x, call[g])
      BY <1>6, <1>9, <2>2 DEF MoneyInv
    <3> QED BY <1>1, <1>5, <3>1
  <2> QED BY <2>1, <2>2
<1>10. MoneyInv'
  BY <1>6, <1>7, <1>8, <1>9 DEF MoneyInv
<1> QED BY <1>5, <1>6, <1>10

LEMMA AnswerMoney ==
  ASSUME MoneyInv, NEW h \in Requests, NEW code \in Code \ {"none"}, NEW tx \in TxnId \cup {NoTxn},
         Replied(h, code, tx), txns' = txns,
         code \in Success => \E t \in txns : SameKey(t, call[h]) /\ SameRequest(t, call[h])
  PROVE  MoneyInv'
<1>1. UNCHANGED call
  BY DEF Replied
<1>2. /\ reply' \in [Requests -> {NoReply} \cup Answered]
      /\ reply'[h].code = code
      /\ \A g \in Requests : g # h => reply'[g] = reply[g]
      /\ \A g \in Requests : call'[g] = NoCall => reply'[g] = NoReply
      /\ \A x \in txns : x.id[1] # h
      /\ call' \in [Requests -> Call \cup {NoCall}]
  BY RepliedKeeps
<1>3. ASSUME NEW x \in txns' PROVE x.id \in TxnId /\ reply'[x.id[1]].code \in {"ok", "Failed"}
  <2>1. x.id \in TxnId /\ x.id[1] \in Requests /\ x.id[1] # h
    BY <1>2 DEF MoneyInv, TxnId
  <2> QED BY <1>2, <2>1 DEF MoneyInv
<1>4. ASSUME NEW g \in Requests, reply'[g].code \in Success
      PROVE  \E x \in txns' : SameKey(x, call'[g]) /\ SameRequest(x, call'[g])
  <2>1. CASE g = h
    BY <1>1, <1>2, <1>4, <2>1
  <2>2. CASE g # h
    <3>1. PICK x \in txns : SameKey(x, call[g]) /\ SameRequest(x, call[g])
      BY <1>2, <1>4, <2>2 DEF MoneyInv
    <3> QED BY <1>1, <3>1
  <2> QED BY <2>1, <2>2
<1>5. \A x, y \in txns' : x.user = y.user /\ x.key = y.key => x = y
  BY DEF MoneyInv
<1> QED BY <1>2, <1>3, <1>4, <1>5 DEF MoneyInv

LEMMA WalletStepMoney ==
  ASSUME MoneyInv, WalletStep
  PROVE  /\ MoneyInv' /\ UNCHANGED <<owner, call>>
         /\ \A g \in Requests : reply[g] # NoReply => reply'[g] = reply[g]
<1>1. CASE \E h \in Requests, w \in WalletIds : W!Execute(h, 1, w)
  BY <1>1, ExecuteMoney
<1>2. ASSUME NEW h \in Requests, NEW t \in txns, W!Replay(h, t)
      PROVE  /\ MoneyInv' /\ UNCHANGED <<owner, call>>
             /\ \A g \in Requests : reply[g] # NoReply => reply'[g] = reply[g]
  <2>1. /\ SameKey(t, call[h]) /\ SameRequest(t, call[h])
        /\ Replied(h, "replayed", t.id) /\ txns' = txns
    BY <1>2, ReplayEffect
  <2>2. "replayed" \in Code \ {"none"} /\ t.id \in TxnId \cup {NoTxn}
    BY DEF Code, Success, MoneyInv
  <2>3. MoneyInv'
    BY <2>1, <2>2, AnswerMoney
  <2>4. \A g \in Requests : reply[g] # NoReply => reply'[g] = reply[g]
    BY <2>1, <2>2, RepliedKeeps
  <2> QED BY <2>1, <2>3, <2>4 DEF Replied
<1>3. ASSUME NEW h \in Requests, NEW code \in Rejection \cup {"Failed"}, W!Refuse(h, code)
      PROVE  /\ MoneyInv' /\ UNCHANGED <<owner, call>>
             /\ \A g \in Requests : reply[g] # NoReply => reply'[g] = reply[g]
  <2>1. Replied(h, code, NoTxn) /\ txns' = txns
    BY <1>3, RefuseEffect
  <2>2. code \in Code \ {"none"} /\ code \notin Success
    BY DEF Code, Success, Rejection
  <2>3. MoneyInv'
    BY <2>1, <2>2, AnswerMoney
  <2>4. \A g \in Requests : reply[g] # NoReply => reply'[g] = reply[g]
    BY <2>1, <2>2, RepliedKeeps
  <2> QED BY <2>1, <2>3, <2>4 DEF Replied
<1> QED BY <1>1, <1>2, <1>3 DEF WalletStep

(* The gateway sends the money call of h. *)
LEMMA SubmitMoney ==
  ASSUME MoneyInv, NEW h \in Requests, NEW c \in Call, W!Submit(h, c)
  PROVE  /\ MoneyInv'
         /\ owner' = owner /\ call[h] = NoCall /\ call'[h] # NoCall
         /\ \A g \in Requests : g # h => call'[g] = call[g]
         /\ \A g \in Requests : reply[g] # NoReply => reply'[g] = reply[g]
<1>1. /\ call[h] = NoCall /\ call' = [call EXCEPT ![h] = c]
      /\ \/ reply' = reply
         \/ reply' = [reply EXCEPT ![h] = [code |-> "InvalidArgument", tx |-> NoTxn]]
      /\ UNCHANGED <<owner, txns>>
  BY DEF W!Submit, W!Answer, W!NoTxn, NoTxn
<1>2. reply[h] = NoReply /\ c # NoCall
  BY <1>1, CallsAssumption DEF MoneyInv
<1>3. call' \in [Requests -> Call \cup {NoCall}] /\ call'[h] # NoCall
  BY <1>1, <1>2 DEF MoneyInv
<1>4. \A g \in Requests : g # h => call'[g] = call[g] /\ reply'[g] = reply[g]
  BY <1>1 DEF MoneyInv
<1>5. [code |-> "InvalidArgument", tx |-> NoTxn] \in Answered
  BY DEF Answered, Code, Rejection
<1>6. reply' \in [Requests -> {NoReply} \cup Answered]
  BY <1>1, <1>5 DEF MoneyInv
<1>7. reply'[h].code \notin Success
  BY <1>1, <1>2 DEF MoneyInv, NoReply, Success
<1>8. ASSUME NEW x \in txns PROVE x.id \in TxnId /\ reply'[x.id[1]].code \in {"ok", "Failed"}
  <2>1. x.id \in TxnId /\ x.id[1] \in Requests /\ x.id[1] # h
    BY <1>2 DEF MoneyInv, TxnId, NoReply
  <2> QED BY <1>4, <2>1 DEF MoneyInv
<1>9. ASSUME NEW g \in Requests, reply'[g].code \in Success
      PROVE  \E x \in txns : SameKey(x, call'[g]) /\ SameRequest(x, call'[g])
  <2>1. g # h
    BY <1>7, <1>9
  <2> QED BY <1>4, <1>9, <2>1 DEF MoneyInv
<1>10. \A g \in Requests : call'[g] = NoCall => reply'[g] = NoReply
  BY <1>3, <1>4 DEF MoneyInv
<1>11. \A x, y \in txns' : x.user = y.user /\ x.key = y.key => x = y
  BY <1>1 DEF MoneyInv
<1>12. MoneyInv'
  BY <1>1, <1>3, <1>6, <1>8, <1>9, <1>10, <1>11 DEF MoneyInv
<1> QED BY <1>1, <1>2, <1>3, <1>4, <1>12

(***************************************************************************)
(* What the steps of one request leave alone.                              *)
(***************************************************************************)

KeptAt(g) ==
  /\ msg'[g] = msg[g] /\ pc'[g] = pc[g] /\ rpc'[g] = rpc[g]
  /\ status'[g] = status[g] /\ wallet'[g] = wallet[g] /\ call'[g] = call[g]

LEMMA AccountsStay ==
  ASSUME Growing, NEW u, HasAccount(u)
  PROVE  HasAccount(u)' /\ hash'[u] = hash[u]
  BY DEF Growing, HasAccount

LEMMA CreatesStays ==
  ASSUME Growing, NEW h, CreatesForAccount(h), msg'[h] = msg[h]
  PROVE  CreatesForAccount(h)'
<1>1. PICK u : u = UserOf(msg[h])
  OBVIOUS
<1>2. HasAccount(u)' /\ hash'[u] = hash[u]
  BY <1>1, AccountsStay DEF CreatesForAccount
<1>3. UserOf(msg'[h]) = u
  BY <1>1
<1> QED BY <1>1, <1>2, <1>3 DEF CreatesForAccount, HasAccount

LEMMA OwnersStay ==
  ASSUME GatewayInv, Growing, NEW h \in Requests, rpc[h] = "ok"
  PROVE  wallet[h] \in WalletIds /\ owner'[wallet[h]] = UserOf(msg[h])
<1>1. wallet[h] \in WalletIds /\ owner[wallet[h]] = UserOf(msg[h]) /\ CreatesForAccount(h)
  BY DEF GatewayInv, Placed
<1>2. UserOf(msg[h]) # NoUser
  BY <1>1, IdsAssumption DEF CreatesForAccount, HasAccount
<1> QED BY <1>1, <1>2 DEF Growing

LEMMA RepliesStay ==
  ASSUME Growing, NEW h \in Requests
  PROVE  /\ reply[h].code \in Success => reply'[h].code \in Success
         /\ reply[h].code \in Rejection => reply'[h].code \in Rejection
<1>1. NoReply.code \notin Success \cup Rejection
  BY DEF NoReply, Success, Rejection
<1> QED BY <1>1 DEF Growing

LEMMA KeptPlaced ==
  ASSUME GatewayInv, Growing, NEW g \in Requests, KeptAt(g)
  PROVE  Placed(g)' /\ Truthful(g)'
<1>1. Placed(g) /\ Truthful(g)
  BY DEF GatewayInv
<1>2. HasAccount(msg[g].token) => HasAccount(msg[g].token)'
  <2>1. PICK u : u = msg[g].token
    OBVIOUS
  <2>2. msg'[g].token = u
    BY <2>1 DEF KeptAt
  <2>3. HasAccount(u) => HasAccount(u)'
    BY AccountsStay
  <2> QED BY <2>1, <2>2, <2>3 DEF HasAccount
<1>3. CreatesForAccount(g) => CreatesForAccount(g)'
  BY CreatesStays DEF KeptAt
<1>4. rpc[g] = "ok" => wallet[g] \in WalletIds /\ owner'[wallet[g]] = UserOf(msg[g])
  BY OwnersStay
<1>5. Placed(g)'
  BY <1>1, <1>2, <1>3, <1>4 DEF Placed, KeptAt, UserOf
<1>6. Truthful(g)'
  BY <1>1, RepliesStay DEF Truthful, KeptAt
<1> QED BY <1>5, <1>6

LEMMA SameTables ==
  ASSUME TablesInv, UNCHANGED <<owner, hash, told, tokens>>
  PROVE  TablesInv'
  BY DEF TablesInv, HasAccount, WalletsHaveUsers

LEMMA SameMoney ==
  ASSUME MoneyInv, UNCHANGED <<txns, call, reply>>
  PROVE  MoneyInv'
  BY DEF MoneyInv

LEMMA RequestStep ==
  ASSUME GatewayInv, Growing, MoneyInv', HandlerTypes', TablesInv',
         NEW h \in Requests, \A g \in Requests : g # h => KeptAt(g),
         Placed(h)', Truthful(h)'
  PROVE  GatewayInv'
<1>1. ASSUME NEW g \in Requests PROVE Placed(g)' /\ Truthful(g)'
  BY KeptPlaced
<1> QED BY <1>1 DEF GatewayInv

(* An answer is recorded, and the CreateWallet call may be given up. *)
LEMMA AnswerStep ==
  ASSUME GatewayInv, Growing, MoneyInv', TablesInv', NEW h \in Requests,
         pc[h] \in {"handler", "createWallet", "money"},
         NEW code \in Nat, Answer(h, code), UNCHANGED <<msg, wallet, call>>,
         \/ rpc' = rpc
         \/ rpc' = [rpc EXCEPT ![h] = "failed"] /\ rpc[h] # "none",
         code = 201 /\ msg[h].op = "register" => rpc[h] # "none",
         code = 201 /\ call[h] # NoCall => reply[h].code \in Success,
         code \in 400..499 /\ call[h] # NoCall => reply[h].code \in Rejection
  PROVE  GatewayInv'
<1>1. /\ pc' = [pc EXCEPT ![h] = "done"]
      /\ status' = [status EXCEPT ![h] = code]
  BY DEF Answer
<1>2. HandlerTypes'
  BY <1>1 DEF GatewayInv, HandlerTypes
<1>3. \A g \in Requests : g # h => KeptAt(g)
  BY <1>1 DEF GatewayInv, HandlerTypes, KeptAt
<1>4. /\ pc'[h] = "done" /\ status'[h] = code /\ (rpc'[h] # "none" <=> rpc[h] # "none")
      /\ rpc'[h] = "ok" => rpc[h] = "ok"
  BY <1>1 DEF GatewayInv, HandlerTypes
<1>5. Placed(h)
  BY DEF GatewayInv
<1>6. CreatesForAccount(h) => CreatesForAccount(h)'
  BY CreatesStays
<1>7. rpc[h] = "ok" => wallet[h] \in WalletIds /\ owner'[wallet[h]] = UserOf(msg[h])
  BY OwnersStay
<1>8. Placed(h)'
  BY <1>4, <1>5, <1>6, <1>7 DEF Placed, UserOf
<1>9. Truthful(h)'
  BY <1>4, RepliesStay DEF Truthful
<1> QED BY <1>2, <1>3, <1>8, <1>9, RequestStep

LEMMA NotFinished ==
  ASSUME GatewayInv, NEW h \in Requests, pc[h] = "handler"
  PROVE  /\ msg[h] \in Messages /\ msg[h] \in Message
         /\ rpc[h] = "none" /\ call[h] = NoCall /\ status[h] = 0
         /\ msg[h].op \in WalletOps => HasAccount(msg[h].token)
  BY GatewayAssumption DEF GatewayInv, Placed

LEMMA NothingTaken ==
  ASSUME UNCHANGED <<hash, owner, reply>>
  PROVE  Growing
  BY DEF Growing

LEMMA ServerErrorCodes ==
  \A code \in ServerErrors : code \in Nat /\ code # 201 /\ code \notin 400..499
<1> SUFFICES ASSUME NEW code \in ServerErrors
             PROVE  code \in Nat /\ code # 201 /\ code \notin 400..499
  OBVIOUS
<1>1. PICK grpc \in GrpcCodes("Failed") : code = HttpStatusFor(grpc)
  BY DEF ServerErrors
<1>2. grpc \in {"DeadlineExceeded", "Internal", "Unavailable"}
  BY ReplyCodes
<1>3. code \in {500, 503, 504}
  BY <1>1, <1>2, FailureStatus
<1> QED BY <1>3

LEMMA ReceiveStep ==
  ASSUME GatewayInv, NEW h \in Requests, NEW m \in Messages, Receive(h, m)
  PROVE  GatewayInv'
<1>1. /\ pc[h] = "idle" /\ msg' = [msg EXCEPT ![h] = m]
      /\ UNCHANGED <<owner, balance, txns, events, call, reply, hash, tokens, rpc, wallet, told>>
  BY DEF Receive, walletVars
<1>2. PICK code \in Gate(m) :
        IF code = 0 THEN pc' = [pc EXCEPT ![h] = "handler"] /\ status' = status
                    ELSE Answer(h, code)
  BY DEF Receive
<1>3. /\ code \in {0, 401, 404, 429}
      /\ code = 0 /\ m.op \in WalletOps => m.token \in tokens
  BY DEF Gate, LoggedIn
<1>4. MoneyInv' /\ TablesInv' /\ Growing
  BY <1>1, SameMoney, SameTables, NothingTaken DEF GatewayInv
<1>5. /\ HandlerTypes'
      /\ \A g \in Requests : g # h => KeptAt(g)
      /\ msg'[h] = m
      /\ \/ pc'[h] = "handler" /\ code = 0 /\ status'[h] = status[h]
         \/ pc'[h] = "done" /\ status'[h] = code /\ code # 0
  <2>1. CASE code = 0
    BY <1>1, <1>2, <2>1 DEF GatewayInv, HandlerTypes, KeptAt
  <2>2. CASE code # 0
    <3>1. /\ pc' = [pc EXCEPT ![h] = "done"]
          /\ status' = [status EXCEPT ![h] = code] /\ code \in Nat
      BY <1>2, <1>3, <2>2 DEF Answer
    <3> QED BY <1>1, <2>2, <3>1 DEF GatewayInv, HandlerTypes, KeptAt
  <2> QED BY <2>1, <2>2
<1>6. rpc[h] = "none" /\ call[h] = NoCall /\ status[h] = 0
  BY <1>1 DEF GatewayInv, Placed
<1>7. code = 0 /\ m.op \in WalletOps => HasAccount(m.token)'
  BY <1>1, <1>3 DEF GatewayInv, TablesInv, HasAccount
<1>8. Placed(h)'
  BY <1>1, <1>5, <1>6, <1>7 DEF Placed, HasAccount
<1>9. Truthful(h)'
  BY <1>1, <1>3, <1>5, <1>6 DEF Truthful
<1> QED BY <1>4, <1>5, <1>8, <1>9, RequestStep

LEMMA AgainStep ==
  ASSUME GatewayInv, NEW h \in Requests, Again(h)
  PROVE  GatewayInv'
<1>1. /\ call[h] = NoCall
      /\ msg' = [msg EXCEPT ![h] = NoMessage]
      /\ pc' = [pc EXCEPT ![h] = "idle"]
      /\ rpc' = [rpc EXCEPT ![h] = "none"]
      /\ status' = [status EXCEPT ![h] = 0]
      /\ wallet' = [wallet EXCEPT ![h] = NoWallet]
      /\ UNCHANGED <<owner, txns, call, reply, hash, tokens, told>>
  BY DEF Again, walletVars
<1>2. MoneyInv' /\ TablesInv' /\ Growing
  BY <1>1, SameMoney, SameTables, NothingTaken DEF GatewayInv
<1>3. HandlerTypes' /\ \A g \in Requests : g # h => KeptAt(g)
  BY <1>1 DEF GatewayInv, HandlerTypes, KeptAt
<1>4. pc'[h] = "idle" /\ rpc'[h] = "none" /\ status'[h] = 0 /\ call'[h] = NoCall
  BY <1>1 DEF GatewayInv, HandlerTypes
<1>5. Placed(h)' /\ Truthful(h)'
  BY <1>4 DEF Placed, Truthful
<1> QED BY <1>2, <1>3, <1>5, RequestStep

(* UNIQUE (email): a password is set where there was none. *)
LEMMA SetPassword ==
  ASSUME TablesInv, NEW u \in Users, NEW p \in Passwords, hash[u] = NoPassword,
         hash' = [hash EXCEPT ![u] = p], UNCHANGED <<owner, told, tokens, reply>>
  PROVE  TablesInv' /\ Growing /\ HasAccount(u)' /\ hash'[u] = p
<1>1. hash' \in [Users -> Passwords \cup {NoPassword}]
  BY DEF TablesInv
<1>2. hash'[u] = p /\ p # NoPassword
  BY GatewayAssumption DEF TablesInv
<1>3. \A v \in Users : v # u => hash'[v] = hash[v]
  BY DEF TablesInv
<1>4. Growing
  BY <1>3 DEF Growing
<1>5. \A v : HasAccount(v) => HasAccount(v)'
  BY <1>4, AccountsStay
<1>6. WalletsHaveUsers'
  <2> SUFFICES ASSUME NEW w \in WalletIds, owner[w] # NoUser PROVE hash'[owner[w]] # NoPassword
    BY DEF WalletsHaveUsers
  <2>1. HasAccount(owner[w])
    BY DEF TablesInv, HasAccount, WalletsHaveUsers
  <2> QED BY <1>3, <2>1 DEF HasAccount
<1>7. TablesInv'
  BY <1>1, <1>5, <1>6 DEF TablesInv
<1> QED BY <1>2, <1>4, <1>7 DEF HasAccount

LEMMA TellWallet ==
  ASSUME TablesInv, UNCHANGED <<owner, hash, tokens>>,
         told' \in [Users -> SUBSET WalletIds],
         \A v \in Users : \A x \in told'[v] : x \in told[v] \/ owner[x] = v
  PROVE  TablesInv'
<1>1. \A v \in Users : \A x \in told'[v] : owner'[x] = v
  BY DEF TablesInv
<1> QED BY <1>1 DEF TablesInv, HasAccount, WalletsHaveUsers

LEMMA CredentialsUser ==
  ASSUME NEW m \in Message, ValidCredentials(m)
  PROVE  Normalised[m.email] \in Users /\ m.password \in Passwords
<1>1. m.email \in Spellings /\ m.password \in Passwords \cup {NoPassword}
  BY DEF Message
<1> QED BY <1>1, GatewayAssumption DEF ValidCredentials

LEMMA RegisterStep ==
  ASSUME GatewayInv, NEW h \in Requests, Register(h)
  PROVE  GatewayInv'
<1>1. /\ pc[h] = "handler" /\ msg[h].op = "register"
      /\ UNCHANGED <<owner, txns, call, reply, tokens, msg, wallet, told>>
  BY DEF Register, InHandler, walletVars
<1>2. MoneyInv'
  BY <1>1, SameMoney DEF GatewayInv
<1>3. msg[h] \in Message /\ rpc[h] = "none" /\ call[h] = NoCall /\ status[h] = 0
  BY <1>1, NotFinished
<1>4. ASSUME NEW code \in {400, 409}, Answer(h, code), UNCHANGED <<hash, rpc>>
      PROVE  GatewayInv'
  <2>1. TablesInv' /\ Growing
    BY <1>1, <1>4, SameTables, NothingTaken DEF GatewayInv
  <2>2. code \in Nat /\ code # 201
    BY <1>4
  <2> QED BY <1>1, <1>2, <1>3, <1>4, <2>1, <2>2, AnswerStep
<1>5. PICK u : u = Normalised[msg[h].email]
  OBVIOUS
<1>6. ASSUME ValidCredentials(msg[h]), hash[u] = NoPassword,
             hash' = [hash EXCEPT ![u] = msg[h].password],
             CallCreateWallet(h), status' = status
      PROVE  GatewayInv'
  <2>1. u \in Users /\ msg[h].password \in Passwords
    BY <1>3, <1>5, <1>6, CredentialsUser
  <2>2. TablesInv' /\ Growing /\ HasAccount(u)' /\ hash'[u] = msg[h].password
    BY <1>1, <1>6, <2>1, SetPassword DEF GatewayInv
  <2>3. /\ pc' = [pc EXCEPT ![h] = "createWallet"]
        /\ rpc' = [rpc EXCEPT ![h] = "sent"]
    BY <1>6 DEF CallCreateWallet
  <2>4. HandlerTypes' /\ \A g \in Requests : g # h => KeptAt(g)
    BY <1>1, <1>6, <2>3 DEF GatewayInv, HandlerTypes, KeptAt
  <2>5. pc'[h] = "createWallet" /\ rpc'[h] = "sent"
    BY <2>3 DEF GatewayInv, HandlerTypes
  <2>6. UserOf(msg[h]) = u
    BY <1>1, <1>5 DEF UserOf, AccountOps
  <2>7. CreatesForAccount(h)'
    BY <1>1, <2>2, <2>6 DEF CreatesForAccount, HasAccount
  <2>8. Placed(h)
    BY DEF GatewayInv
  <2>9. Placed(h)'
    BY <1>1, <1>3, <1>6, <2>5, <2>7, <2>8 DEF Placed, WalletOps
  <2>10. Truthful(h)'
    BY <1>1, <1>3, <1>6, <2>5 DEF Truthful
  <2> QED BY <1>2, <2>2, <2>4, <2>9, <2>10, RequestStep
<1> QED BY <1>4, <1>5, <1>6 DEF Register

LEMMA RegisterFailsStep ==
  ASSUME GatewayInv, NEW h \in Requests, RegisterFails(h)
  PROVE  GatewayInv'
<1>1. /\ pc[h] = "handler" /\ ValidCredentials(msg[h]) /\ Answer(h, 500)
      /\ UNCHANGED <<owner, txns, call, reply, tokens, msg, rpc, wallet, told>>
  BY DEF RegisterFails, InHandler, walletVars
<1>2. MoneyInv'
  BY <1>1, SameMoney DEF GatewayInv
<1>3. PICK u : u = Normalised[msg[h].email]
  OBVIOUS
<1>4. u \in Users /\ msg[h].password \in Passwords
  BY <1>1, <1>3, NotFinished, CredentialsUser
<1>5. hash' = hash \/ (hash[u] = NoPassword /\ hash' = [hash EXCEPT ![u] = msg[h].password])
  BY <1>3 DEF RegisterFails
<1>6. TablesInv' /\ Growing
  <2>1. CASE hash' = hash
    BY <1>1, <2>1, SameTables, NothingTaken DEF GatewayInv
  <2>2. CASE hash[u] = NoPassword /\ hash' = [hash EXCEPT ![u] = msg[h].password]
    BY <1>1, <1>4, <2>2, SetPassword DEF GatewayInv
  <2> QED BY <1>5, <2>1, <2>2
<1> QED BY <1>1, <1>2, <1>6, AnswerStep

LEMMA LoginStep ==
  ASSUME GatewayInv, NEW h \in Requests, Login(h)
  PROVE  GatewayInv'
<1>1. /\ pc[h] = "handler" /\ msg[h].op = "login"
      /\ UNCHANGED <<owner, txns, call, reply, hash, msg, rpc, wallet, told>>
  BY DEF Login, InHandler, walletVars
<1>2. MoneyInv' /\ Growing
  BY <1>1, SameMoney, NothingTaken DEF GatewayInv
<1>3. msg[h] \in Message /\ rpc[h] = "none" /\ call[h] = NoCall
  BY <1>1, NotFinished
<1>4. Normalised[msg[h].email] \in Users \cup {NoUser}
  BY <1>3, GatewayAssumption DEF Message
<1>5. PICK code \in {200, 400, 401} : Answer(h, code)
  BY DEF Login
<1>6. TablesInv'
  <2>1. tokens' = tokens \/ \E u \in Users : tokens' = tokens \cup {u} /\ hash[u] # NoPassword
    BY <1>4 DEF Login, Issue, CheckPassword
  <2>2. \A u \in tokens' : HasAccount(u)'
    BY <1>1, <2>1 DEF GatewayInv, TablesInv, HasAccount
  <2> QED BY <1>1, <2>2 DEF GatewayInv, TablesInv, WalletsHaveUsers
<1>7. code \in Nat /\ code # 201
  OBVIOUS
<1> QED BY <1>1, <1>2, <1>3, <1>5, <1>6, <1>7, AnswerStep

LEMMA TokenExpiresStep ==
  ASSUME GatewayInv, NEW u \in Users, TokenExpires(u)
  PROVE  GatewayInv'
<1>1. /\ tokens' = tokens \ {u}
      /\ UNCHANGED <<owner, txns, call, reply, hash, msg, pc, rpc, status, wallet, told>>
  BY DEF TokenExpires, walletVars
<1>2. MoneyInv' /\ Growing
  BY <1>1, SameMoney, NothingTaken DEF GatewayInv
<1>3. TablesInv'
  BY <1>1 DEF GatewayInv, TablesInv, HasAccount, WalletsHaveUsers
<1>4. HandlerTypes'
  BY <1>1 DEF GatewayInv, HandlerTypes
<1>5. ASSUME NEW g \in Requests PROVE Placed(g)' /\ Truthful(g)'
  BY <1>1, <1>2, KeptPlaced DEF KeptAt
<1> QED BY <1>2, <1>3, <1>4, <1>5 DEF GatewayInv

(* UNIQUE (user_id): a wallet is opened for a user who has none. *)
LEMMA OpenTables ==
  ASSUME TablesInv, NEW u, HasAccount(u), NEW w \in WalletIds, W!Open(u, w),
         UNCHANGED <<hash, told, tokens>>
  PROVE  /\ TablesInv' /\ Growing /\ owner'[w] = u
         /\ UNCHANGED <<txns, call, reply>>
<1>1. /\ owner[w] = NoUser /\ \A v \in WalletIds : owner[v] # u
      /\ owner' = [owner EXCEPT ![w] = u]
      /\ UNCHANGED <<txns, call, reply>>
  BY DEF W!Open
<1>2. u \in Users /\ u # NoUser /\ hash[u] # NoPassword
  BY IdsAssumption DEF HasAccount
<1>3. owner' \in [WalletIds -> Users \cup {NoUser}] /\ owner'[w] = u
  BY <1>1, <1>2 DEF TablesInv
<1>4. \A v \in WalletIds : v # w => owner'[v] = owner[v]
  BY <1>1 DEF TablesInv
<1>5. Growing
  BY <1>1, <1>4 DEF Growing
<1>6. \A v, x \in WalletIds : owner'[v] = owner'[x] /\ owner'[v] # NoUser => v = x
  BY <1>1, <1>3, <1>4 DEF TablesInv
<1>7. \A y \in Users : \A v \in told[y] : owner'[v] = y
  BY <1>1, <1>4, IdsAssumption DEF TablesInv
<1>8. \A v \in WalletIds : owner'[v] # NoUser => hash[owner'[v]] # NoPassword
  BY <1>2, <1>3, <1>4 DEF TablesInv, WalletsHaveUsers
<1>9. TablesInv'
  BY <1>3, <1>6, <1>7, <1>8 DEF TablesInv, HasAccount, WalletsHaveUsers
<1> QED BY <1>1, <1>3, <1>5, <1>9

LEMMA CreateWalletStep ==
  ASSUME GatewayInv, NEW h \in Requests, CreateWallet(h)
  PROVE  GatewayInv'
<1>1. /\ rpc[h] = "sent" /\ rpc' = [rpc EXCEPT ![h] = "ok"]
      /\ UNCHANGED <<hash, tokens, msg, pc, status, told>>
  BY DEF CreateWallet
<1>2. PICK w \in WalletIds :
        /\ \/ w \in WalletsOf(UserOf(msg[h])) /\ UNCHANGED walletVars
           \/ W!Open(UserOf(msg[h]), w)
        /\ wallet' = [wallet EXCEPT ![h] = w]
  BY DEF CreateWallet
<1>3. Placed(h) /\ CreatesForAccount(h) /\ Truthful(h)
  BY <1>1 DEF GatewayInv, Placed
<1>4. PICK u : u = UserOf(msg[h])
  OBVIOUS
<1>5. HasAccount(u)
  BY <1>3, <1>4 DEF CreatesForAccount
<1>6. /\ TablesInv' /\ Growing /\ owner'[w] = u
      /\ UNCHANGED <<txns, call, reply>>
  <2>1. CASE w \in WalletsOf(u) /\ UNCHANGED walletVars
    <3>1. owner[w] = u /\ UNCHANGED <<owner, txns, call, reply>>
      BY <2>1 DEF WalletsOf, walletVars
    <3> QED BY <1>1, <3>1, SameTables, NothingTaken DEF GatewayInv
  <2>2. CASE W!Open(u, w)
    BY <1>1, <1>5, <2>2, OpenTables DEF GatewayInv
  <2> QED BY <1>2, <1>4, <2>1, <2>2
<1>7. MoneyInv'
  BY <1>6, SameMoney DEF GatewayInv
<1>8. HandlerTypes' /\ \A g \in Requests : g # h => KeptAt(g)
  BY <1>1, <1>2, <1>6 DEF GatewayInv, HandlerTypes, KeptAt
<1>9. rpc'[h] = "ok" /\ wallet'[h] = w
  BY <1>1, <1>2 DEF GatewayInv, HandlerTypes
<1>10. CreatesForAccount(h)'
  BY <1>1, <1>3, <1>6, CreatesStays
<1>11. HasAccount(msg[h].token) => HasAccount(msg[h].token)'
  BY <1>1 DEF HasAccount
<1>12. Placed(h)'
  <2>1. pc[h] \in {"createWallet", "done"}
    BY <1>1, <1>3 DEF Placed
  <2>2. UserOf(msg[h])' = u
    BY <1>1, <1>4 DEF UserOf
  <2> QED BY <1>1, <1>3, <1>4, <1>6, <1>9, <1>10, <1>11, <2>1, <2>2 DEF Placed
<1>13. Truthful(h)'
  BY <1>1, <1>3, <1>6, <1>9 DEF Truthful
<1> QED BY <1>6, <1>7, <1>8, <1>12, <1>13, RequestStep

LEMMA WalletCreatedStep ==
  ASSUME GatewayInv, NEW h \in Requests, WalletCreated(h)
  PROVE  GatewayInv'
<1>1. /\ pc[h] = "createWallet" /\ rpc[h] = "ok"
      /\ UNCHANGED <<owner, txns, call, reply, hash, tokens, msg, rpc, wallet>>
  BY DEF WalletCreated, walletVars
<1>2. PICK code \in {200, 201} :
        /\ Answer(h, code)
        /\ told' = [told EXCEPT ![UserOf(msg[h])] = @ \cup {wallet[h]}]
  BY DEF WalletCreated, AnswerWallet
<1>3. /\ wallet[h] \in WalletIds /\ owner[wallet[h]] = UserOf(msg[h])
      /\ UserOf(msg[h]) \in Users /\ call[h] = NoCall
  BY <1>1 DEF GatewayInv, Placed, CreatesForAccount, HasAccount
<1>4. TablesInv'
  <2>1. /\ told' \in [Users -> SUBSET WalletIds]
        /\ \A v \in Users : \A x \in told'[v] : x \in told[v] \/ owner[x] = v
    BY <1>2, <1>3 DEF GatewayInv, TablesInv
  <2> QED BY <1>1, <2>1, TellWallet DEF GatewayInv
<1>5. MoneyInv' /\ Growing
  BY <1>1, SameMoney, NothingTaken DEF GatewayInv
<1>6. code \in Nat
  OBVIOUS
<1> QED BY <1>1, <1>2, <1>3, <1>4, <1>5, <1>6, AnswerStep

LEMMA CreateWalletFailsStep ==
  ASSUME GatewayInv, NEW h \in Requests, CreateWalletFails(h)
  PROVE  GatewayInv'
<1>1. /\ pc[h] = "createWallet"
      /\ rpc' = rpc \/ rpc' = [rpc EXCEPT ![h] = "failed"]
      /\ UNCHANGED <<owner, txns, call, reply, hash, tokens, msg, wallet, told>>
  BY DEF CreateWalletFails, walletVars
<1>2. rpc[h] # "none" /\ call[h] = NoCall
  BY <1>1 DEF GatewayInv, Placed
<1>3. PICK code \in ServerErrors \cup {201} : Answer(h, code)
  BY DEF CreateWalletFails
<1>4. code \in Nat
  BY ServerErrorCodes
<1>5. MoneyInv' /\ TablesInv' /\ Growing
  BY <1>1, SameMoney, SameTables, NothingTaken DEF GatewayInv
<1> QED BY <1>1, <1>2, <1>3, <1>4, <1>5, AnswerStep

LEMMA GetMyWalletStep ==
  ASSUME GatewayInv, NEW h \in Requests, GetMyWallet(h)
  PROVE  GatewayInv'
<1>1. /\ pc[h] = "handler" /\ msg[h].op = "getMyWallet"
      /\ UNCHANGED <<owner, txns, call, reply, hash, tokens, msg, wallet>>
  BY DEF GetMyWallet, InHandler, walletVars
<1>2. /\ msg[h] \in Messages /\ rpc[h] = "none" /\ call[h] = NoCall /\ status[h] = 0
      /\ HasAccount(msg[h].token)
  BY <1>1, NotFinished DEF WalletOps
<1>3. UserOf(msg[h]) = msg[h].token
  BY <1>1 DEF UserOf, AccountOps
<1>4. MoneyInv' /\ Growing
  BY <1>1, SameMoney, NothingTaken DEF GatewayInv
<1>5. ASSUME NEW w \in WalletsOf(msg[h].token), AnswerWallet(h, 200, w), rpc' = rpc
      PROVE  GatewayInv'
  <2>1. /\ Answer(h, 200)
        /\ told' = [told EXCEPT ![UserOf(msg[h])] = @ \cup {w}]
    BY <1>5 DEF AnswerWallet
  <2>2. w \in WalletIds /\ owner[w] = UserOf(msg[h]) /\ UserOf(msg[h]) \in Users
    BY <1>2, <1>3 DEF WalletsOf, HasAccount
  <2>3. TablesInv'
    <3>1. /\ told' \in [Users -> SUBSET WalletIds]
          /\ \A v \in Users : \A x \in told'[v] : x \in told[v] \/ owner[x] = v
      BY <2>1, <2>2 DEF GatewayInv, TablesInv
    <3> QED BY <1>1, <3>1, TellWallet DEF GatewayInv
  <2>4. /\ 200 \in Nat /\ 200 # 201 /\ 200 \notin 400..499
        /\ pc[h] \in {"handler", "createWallet", "money"}
    BY <1>1
  <2> QED BY <1>1, <1>4, <1>5, <2>1, <2>3, <2>4, AnswerStep
<1>6. ASSUME CallCreateWallet(h), UNCHANGED <<status, told>>
      PROVE  GatewayInv'
  <2>1. /\ pc' = [pc EXCEPT ![h] = "createWallet"]
        /\ rpc' = [rpc EXCEPT ![h] = "sent"]
    BY <1>6 DEF CallCreateWallet
  <2>2. HandlerTypes' /\ \A g \in Requests : g # h => KeptAt(g)
    BY <1>1, <1>6, <2>1 DEF GatewayInv, HandlerTypes, KeptAt
  <2>3. pc'[h] = "createWallet" /\ rpc'[h] = "sent"
    BY <2>1 DEF GatewayInv, HandlerTypes
  <2>4. CreatesForAccount(h)
    BY <1>1, <1>2, <1>3 DEF CreatesForAccount
  <2>5. CreatesForAccount(h)'
    BY <1>1, <1>4, <2>4, CreatesStays
  <2>6. HasAccount(msg[h].token)'
    BY <1>1, <1>2 DEF HasAccount
  <2>7. Placed(h)' /\ Truthful(h)'
    BY <1>1, <1>2, <1>6, <2>3, <2>5, <2>6 DEF Placed, Truthful
  <2>8. TablesInv'
    BY <1>1, <1>6, SameTables DEF GatewayInv
  <2> QED BY <1>4, <2>2, <2>7, <2>8, RequestStep
<1> QED BY <1>5, <1>6 DEF GetMyWallet

LEMMA CallIsCall ==
  ASSUME NEW m \in Message, m.token \in Users, ~BadMoneyRequest(m)
  PROVE  CallOf(m) \in Call
<1>1. /\ m.to \in WalletIds \cup {NoWallet} /\ m.amount \in Int
      /\ m.key \in Keys \cup {NoKey, BadKey}
  BY DEF Message
<1>2. m.key \in Keys \cup {BadKey}
  BY <1>1 DEF BadMoneyRequest
<1> QED BY <1>1, <1>2 DEF CallOf, Call, Kind

LEMMA CallMoneyStep ==
  ASSUME GatewayInv, NEW h \in Requests, CallMoney(h)
  PROVE  GatewayInv'
<1>1. /\ pc[h] = "handler" /\ msg[h].op \in MoneyOps
      /\ UNCHANGED <<hash, tokens, msg, rpc, wallet, told>>
  BY DEF CallMoney, InHandler, MoneyOps
<1>2. /\ msg[h] \in Messages /\ msg[h] \in Message
      /\ rpc[h] = "none" /\ call[h] = NoCall /\ status[h] = 0
      /\ HasAccount(msg[h].token)
  BY <1>1, NotFinished DEF WalletOps, MoneyOps
<1>3. ASSUME Answer(h, 400), UNCHANGED walletVars
      PROVE  GatewayInv'
  <2>1. UNCHANGED <<owner, txns, call, reply>>
    BY <1>3 DEF walletVars
  <2>2. MoneyInv' /\ TablesInv' /\ Growing
    BY <1>1, <2>1, SameMoney, SameTables, NothingTaken DEF GatewayInv
  <2> QED BY <1>1, <1>2, <1>3, <2>1, <2>2, AnswerStep
<1>4. ASSUME ~BadMoneyRequest(msg[h]), W!Submit(h, CallOf(msg[h])),
             pc' = [pc EXCEPT ![h] = "money"], status' = status
      PROVE  GatewayInv'
  <2>1. CallOf(msg[h]) \in Call
    BY <1>2, <1>4, CallIsCall DEF HasAccount
  <2>2. /\ MoneyInv' /\ owner' = owner /\ call'[h] # NoCall
        /\ \A g \in Requests : g # h => call'[g] = call[g]
        /\ \A g \in Requests : reply[g] # NoReply => reply'[g] = reply[g]
    BY <1>4, <2>1, SubmitMoney DEF GatewayInv
  <2>3. TablesInv' /\ Growing
    BY <1>1, <2>2, SameTables DEF GatewayInv, Growing
  <2>4. HandlerTypes' /\ \A g \in Requests : g # h => KeptAt(g)
    BY <1>1, <1>4, <2>2 DEF GatewayInv, HandlerTypes, KeptAt
  <2>5. pc'[h] = "money"
    BY <1>4 DEF GatewayInv, HandlerTypes
  <2>6. HasAccount(msg[h].token)'
    BY <1>1, <1>2 DEF HasAccount
  <2>7. Placed(h)' /\ Truthful(h)'
    BY <1>1, <1>2, <1>4, <2>2, <2>5, <2>6 DEF Placed, Truthful
  <2> QED BY <2>2, <2>3, <2>4, <2>7, RequestStep
<1> QED BY <1>3, <1>4 DEF CallMoney

(* An answer that leaves both databases alone. *)
LEMMA PlainAnswerStep ==
  ASSUME GatewayInv, NEW h \in Requests,
         pc[h] \in {"handler", "createWallet", "money"},
         NEW code \in Nat, Answer(h, code),
         UNCHANGED <<owner, txns, call, reply, hash, tokens, msg, wallet, told>>,
         \/ rpc' = rpc
         \/ rpc' = [rpc EXCEPT ![h] = "failed"] /\ rpc[h] # "none",
         code = 201 /\ msg[h].op = "register" => rpc[h] # "none",
         code = 201 /\ call[h] # NoCall => reply[h].code \in Success,
         code \in 400..499 /\ call[h] # NoCall => reply[h].code \in Rejection
  PROVE  GatewayInv'
<1>1. MoneyInv' /\ TablesInv' /\ Growing
  BY SameMoney, SameTables, NothingTaken DEF GatewayInv
<1> QED BY <1>1, AnswerStep

LEMMA MoneyAnsweredStep ==
  ASSUME GatewayInv, NEW h \in Requests, MoneyAnswered(h)
  PROVE  GatewayInv'
<1>1. /\ pc[h] = "money" /\ reply[h] # NoReply
      /\ UNCHANGED <<owner, txns, call, reply, hash, tokens, msg, rpc, wallet, told>>
  BY DEF MoneyAnswered, walletVars
<1>2. msg[h].op # "register"
  BY <1>1 DEF GatewayInv, Placed, MoneyOps
<1>3. CASE reply[h].code \in Success
  <2>1. Answer(h, 201)
    BY <1>3 DEF MoneyAnswered
  <2>2. 201 \in Nat /\ 201 \notin 400..499
    OBVIOUS
  <2> QED BY <1>1, <1>2, <1>3, <2>1, <2>2, PlainAnswerStep
<1>4. CASE reply[h].code \notin Success
  <2>1. PICK grpc \in GrpcCodes(reply[h].code) : Answer(h, HttpStatusFor(grpc))
    BY <1>4 DEF MoneyAnswered
  <2>2. reply[h].code \in Rejection \cup {"Failed"}
    BY <1>1, <1>4 DEF GatewayInv, MoneyInv, Answered, Code
  <2>3. CASE reply[h].code \in Rejection
    <3>1. HttpStatusFor(grpc) \in {400, 404, 409, 422}
      BY <2>3, ReplyCodes, ErrorStatus
    <3>2. HttpStatusFor(grpc) \in Nat /\ HttpStatusFor(grpc) # 201
      BY <3>1
    <3> QED BY <1>1, <2>1, <2>3, <3>2, PlainAnswerStep
  <2>4. CASE reply[h].code = "Failed"
    <3>1. HttpStatusFor(grpc) \in {500, 503, 504}
      BY <2>4, ReplyCodes, FailureStatus
    <3>2. /\ HttpStatusFor(grpc) \in Nat /\ HttpStatusFor(grpc) # 201
          /\ HttpStatusFor(grpc) \notin 400..499
      BY <3>1
    <3> QED BY <1>1, <2>1, <3>2, PlainAnswerStep
  <2> QED BY <2>2, <2>3, <2>4
<1> QED BY <1>3, <1>4

LEMMA MoneyTimeoutStep ==
  ASSUME GatewayInv, NEW h \in Requests, MoneyTimeout(h)
  PROVE  GatewayInv'
<1>1. /\ pc[h] = "money" /\ Answer(h, HttpStatusFor("DeadlineExceeded"))
      /\ UNCHANGED <<owner, txns, call, reply, hash, tokens, msg, rpc, wallet, told>>
  BY DEF MoneyTimeout, walletVars
<1>2. PICK code \in {500, 503, 504} : code = HttpStatusFor("DeadlineExceeded")
  BY FailureStatus
<1>3. code \in Nat /\ code # 201 /\ code \notin 400..499
  OBVIOUS
<1> QED BY <1>1, <1>2, <1>3, PlainAnswerStep

LEMMA GetTransferStep ==
  ASSUME GatewayInv, NEW h \in Requests, GetTransfer(h)
  PROVE  GatewayInv'
<1>1. /\ pc[h] = "handler"
      /\ UNCHANGED <<owner, txns, call, reply, hash, tokens, msg, rpc, wallet, told>>
  BY DEF GetTransfer, InHandler, walletVars
<1>2. PICK code \in {200, 400, 404} : Answer(h, code)
  BY DEF GetTransfer
<1>3. code \in Nat /\ code # 201 /\ call[h] = NoCall
  BY <1>1, NotFinished
<1> QED BY <1>1, <1>2, <1>3, PlainAnswerStep

LEMMA CallFailsStep ==
  ASSUME GatewayInv, NEW h \in Requests, CallFails(h)
  PROVE  GatewayInv'
<1>1. /\ pc[h] = "handler"
      /\ UNCHANGED <<owner, txns, call, reply, hash, tokens, msg, rpc, wallet, told>>
  BY DEF CallFails, walletVars
<1>2. PICK code \in ServerErrors \cup {500} : Answer(h, code)
  BY DEF CallFails
<1>3. code \in Nat /\ code # 201 /\ call[h] = NoCall
  BY <1>1, NotFinished, ServerErrorCodes
<1> QED BY <1>1, <1>2, <1>3, PlainAnswerStep

LEMMA NoAnswerStep ==
  ASSUME GatewayInv, NEW h \in Requests, NoAnswer(h)
  PROVE  GatewayInv'
<1>1. /\ pc[h] \in {"handler", "createWallet", "money"} /\ Answer(h, 0)
      /\ UNCHANGED <<owner, txns, call, reply, hash, tokens, msg, wallet, told>>
  BY DEF NoAnswer, walletVars
<1>2. \/ rpc' = rpc
      \/ rpc' = [rpc EXCEPT ![h] = "failed"] /\ rpc[h] # "none"
  <2>1. CASE rpc[h] = "sent"
    BY <2>1 DEF NoAnswer
  <2>2. CASE rpc[h] # "sent"
    BY <2>2 DEF NoAnswer, GatewayInv, HandlerTypes
  <2> QED BY <2>1, <2>2
<1>3. 0 \in Nat /\ 0 # 201 /\ 0 \notin 400..499
  OBVIOUS
<1> QED BY <1>1, <1>2, <1>3, PlainAnswerStep

LEMMA WalletStepStep ==
  ASSUME GatewayInv, WalletStep
  PROVE  GatewayInv'
<1>1. UNCHANGED <<hash, tokens, msg, pc, rpc, status, wallet, told>>
  BY DEF WalletStep
<1>2. /\ MoneyInv' /\ UNCHANGED <<owner, call>>
      /\ \A g \in Requests : reply[g] # NoReply => reply'[g] = reply[g]
  BY WalletStepMoney DEF GatewayInv
<1>3. TablesInv' /\ Growing
  BY <1>1, <1>2, SameTables DEF GatewayInv, Growing
<1>4. HandlerTypes'
  BY <1>1 DEF GatewayInv, HandlerTypes
<1>5. ASSUME NEW g \in Requests PROVE Placed(g)' /\ Truthful(g)'
  BY <1>1, <1>2, <1>3, KeptPlaced DEF KeptAt
<1> QED BY <1>2, <1>3, <1>4, <1>5 DEF GatewayInv

LEMMA GatewayStep == GatewayInv /\ [Next]_vars => GatewayInv'
<1> SUFFICES ASSUME GatewayInv, [Next]_vars PROVE GatewayInv'
  OBVIOUS
<1>1. ASSUME NEW h \in Requests, Handle(h) PROVE GatewayInv'
  BY <1>1, RegisterStep, LoginStep, WalletCreatedStep, GetMyWalletStep, CallMoneyStep,
     MoneyAnsweredStep, GetTransferStep DEF Handle
<1>2. CASE Serve
  BY <1>1, <1>2, CreateWalletStep, AgainStep, RegisterFailsStep, CreateWalletFailsStep,
     MoneyTimeoutStep, CallFailsStep, NoAnswerStep, WalletStepStep, TokenExpiresStep DEF Serve
<1>3. CASE \E h \in Requests, m \in Messages : Receive(h, m)
  BY <1>3, ReceiveStep
<1>4. CASE UNCHANGED vars
  <2>1. UNCHANGED <<owner, txns, call, reply, hash, tokens, msg, pc, rpc, status, wallet, told>>
    BY <1>4 DEF vars, walletVars
  <2>2. MoneyInv' /\ TablesInv' /\ Growing
    BY <2>1, SameMoney, SameTables, NothingTaken DEF GatewayInv
  <2>3. HandlerTypes'
    BY <2>1 DEF GatewayInv, HandlerTypes
  <2>4. ASSUME NEW g \in Requests PROVE Placed(g)' /\ Truthful(g)'
    BY <2>1, <2>2, KeptPlaced DEF KeptAt
  <2> QED BY <2>2, <2>3, <2>4 DEF GatewayInv
<1> QED BY <1>2, <1>3, <1>4 DEF Next

(* Sign-ups that race, sign-ups that are repaired and late CreateWallet calls leave one
   account per email and one wallet per account, in two databases without a common
   transaction.                                                                        *)
THEOREM OneOfEach == Spec => []OneAccountOneWallet
  BY InitGateway, GatewayStep, GatewayInvImplies, PTL DEF Spec

(* A 4xx answer to a money request is final: no transaction is its own, ever after. *)
THEOREM RefusalIsFinal == Spec => []RefusedMovesNothing
  BY InitGateway, GatewayStep, GatewayInvImplies, PTL DEF Spec

(* 201 to a money request: the money has moved as it said, once for its key. *)
THEOREM CreatedIsDone == Spec => []CreatedMeansMovedOnce
  BY InitGateway, GatewayStep, GatewayInvImplies, PTL DEF Spec
==============================================================================
