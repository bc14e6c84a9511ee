----------------------------- MODULE RateLimiter -----------------------------
(***************************************************************************)
(* The gateway's rate limiter: a fixed-window counter per bucket, client   *)
(* and minute, kept in Redis and shared by pods whose clocks disagree.     *)
(*                                                                         *)
(* Time is a count of ticks. A request reads its pod's clock once; the     *)
(* INCR and EXPIRE run together in Redis some time later, by Redis's own   *)
(* clock.                                                                  *)
(***************************************************************************)
EXTENDS Integers, FiniteSets

CONSTANTS
  Hits,      \* HTTP requests, each sent at most once
  Pods,          \* gateway pods
  Clients,       \* addresses (bucket "auth") and user ids (bucket "user")
  Balancer,      \* the load balancer's address
  NoHeader,      \* no X-Forwarded-For
  PerMinute,     \* bucket -> requests per window
  Minute,        \* length of a window, in ticks
  Ttl,           \* what EXPIRE sets: 70s when Minute is 60s
  MaxSkew,       \* by how much a pod's clock may be ahead
  MaxDelay,      \* how long a request may take to reach Redis (the 200ms deadline)
  MaxClock,      \* bound: ticks observed
  MaxRedisFaults      \* bound: pipelines that fail

Buckets == DOMAIN PerMinute
Windows == 0..((MaxClock + MaxSkew) \div Minute)

(* What counts as one client's use of a bucket in one window. *)
Budget == Buckets \X Clients \X Windows

ASSUME LimiterAssumption ==
  /\ IsFiniteSet(Hits)
  /\ Minute \in Nat \ {0} /\ Ttl \in Nat /\ MaxSkew \in Nat /\ MaxDelay \in Nat
  /\ MaxClock \in Nat /\ MaxRedisFaults \in Nat
  /\ \A b \in Buckets : PerMinute[b] \in Nat
  /\ Balancer \notin Clients /\ NoHeader \notin Clients

(* A key must outlive its window on every pod: 60s and 10s of slack. *)
ASSUME SlackAssumption == Ttl >= Minute + MaxSkew + MaxDelay

VARIABLES
  trustProxy,  \* TRUST_PROXY: the pods are behind the balancer
  skew,        \* pod -> how far its clock is ahead
  clock,       \* the time, by Redis's clock
  count,       \* Redis: key -> counter
  until,       \* Redis: key -> when it expires
  req,         \* request -> where it is, and what it read
  redisFaults,
  tried, admitted, open, refused   \* history: budget -> requests received, let through,
                                   \* let through without Redis, refused

history == <<tried, admitted, open, refused>>
limiterVars == <<trustProxy, skew, clock, count, until, req, redisFaults, history>>

NotSent == [at |-> "client"]

(* Redis keys: bucket, what keyFn returned, window. *)
Key == Buckets \X (Clients \cup {Balancer}) \X Windows

LimiterInit ==
  /\ trustProxy \in BOOLEAN
  /\ skew \in [Pods -> 0..MaxSkew]
  /\ clock = 0
  /\ count = [k \in Key |-> 0]
  /\ until = [k \in Key |-> 0]
  /\ req = [r \in Hits |-> NotSent]
  /\ redisFaults = 0
  /\ tried = [b \in Budget |-> 0]
  /\ admitted = [b \in Budget |-> 0]
  /\ open = [b \in Budget |-> 0]
  /\ refused = [b \in Budget |-> 0]

Bump(f, b) == [f EXCEPT ![b] = @ + 1]

-----------------------------------------------------------------------------
(* A mutant: TRUST_PROXY is not looked at. *)
RemoteOnly(trusted, remote, forwarded) == remote

(* clientIP, by a deployment's TRUST_PROXY. *)
ClientIP(trusted, remote, forwarded) ==
  IF trusted /\ forwarded # NoHeader THEN forwarded ELSE remote

(* One window per minute of the pod's clock. *)
Window(now) == now \div Minute

(* A client reaches pod p: directly (and may then send any X-Forwarded-For), or through
   the balancer, which sets the header. byUser is the token's user.                    *)
Arrive(r, p, b, c) ==
  /\ req[r] = NotSent
  /\ \E forwarded \in IF trustProxy THEN {c} ELSE Clients \cup {NoHeader} :
       LET remote == IF trustProxy THEN Balancer ELSE c
           now == clock + skew[p]
           key == IF b = "auth" THEN ClientIP(trustProxy, remote, forwarded) ELSE c
       IN req' = [req EXCEPT ![r] = [at |-> "redis", key |-> <<b, key, Window(now)>>,
                                     budget |-> <<b, c, Window(now)>>, since |-> clock]]
  /\ tried' = Bump(tried, req'[r].budget)
  /\ UNCHANGED <<trustProxy, skew, clock, count, until, redisFaults, admitted, open, refused>>

Counter(k) == IF until[k] > clock THEN count[k] ELSE 0

(* A mutant: the key lives as long as the window. *)
IncrForMinute(k) ==
  /\ count' = [count EXCEPT ![k] = Counter(k) + 1]
  /\ until' = [until EXCEPT ![k] = clock + Minute]

(* MULTI, INCR, EXPIRE, EXEC *)
Incr(k) ==
  /\ count' = [count EXCEPT ![k] = Counter(k) + 1]
  /\ until' = [until EXCEPT ![k] = clock + Ttl]

Finish(r) == req' = [req EXCEPT ![r] = [at |-> "done"]]

(* The pipeline answers: next, or 429. *)
Limit(r) ==
  /\ req[r].at = "redis"
  /\ Incr(req[r].key)
  /\ IF count'[req[r].key] > PerMinute[req[r].key[1]]
       THEN refused' = Bump(refused, req[r].budget) /\ admitted' = admitted
       ELSE admitted' = Bump(admitted, req[r].budget) /\ refused' = refused
  /\ Finish(r)
  /\ UNCHANGED <<trustProxy, skew, clock, redisFaults, tried, open>>

(* The pipeline fails or answers too late, having counted or not: fail open. *)
FailOpen(r) ==
  /\ req[r].at = "redis"
  /\ redisFaults < MaxRedisFaults
  /\ redisFaults' = redisFaults + 1
  /\ Incr(req[r].key) \/ UNCHANGED <<count, until>>
  /\ open' = Bump(open, req[r].budget)
  /\ Finish(r)
  /\ UNCHANGED <<trustProxy, skew, clock, tried, admitted, refused>>

(* Time passes, but not past the deadline of a request on its way to Redis. *)
Tick ==
  /\ clock < MaxClock
  /\ \A r \in Hits : req[r].at = "redis" => clock < req[r].since + MaxDelay
  /\ clock' = clock + 1
  /\ UNCHANGED <<trustProxy, skew, count, until, req, redisFaults, history>>

LimiterNext ==
  \/ \E r \in Hits, p \in Pods, b \in Buckets, c \in Clients : Arrive(r, p, b, c)
  \/ \E r \in Hits : Limit(r) \/ FailOpen(r)
  \/ Tick

LimiterSpec == LimiterInit /\ [][LimiterNext]_limiterVars

-----------------------------------------------------------------------------
(* Over all pods together a client gets its PerMinute requests in a window and no more,
   unless Redis failed: no counter expires while some pod is still in its window, and no
   header that a client makes up gets it a second budget.                               *)
WithinLimit == \A b \in Budget : admitted[b] <= PerMinute[b[1]]

(* A client is refused only for what it sent itself, to this bucket and in this window:
   not for its neighbours behind the same balancer, for its other bucket or for an earlier
   minute.                                                                               *)
RefusedForOwnUse == \A b \in Budget : refused[b] > 0 => tried[b] > PerMinute[b[1]]
==============================================================================
