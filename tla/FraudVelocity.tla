---------------------------- MODULE FraudVelocity ----------------------------
(***************************************************************************)
(* The velocity rule of the fraud service: how many transfers one wallet   *)
(* has sent in the window that ends with a given transfer, counted in a    *)
(* Redis sorted set that is trimmed by the transfers' own times but        *)
(* expires by Redis's clock.                                               *)
(*                                                                         *)
(* Kafka may deliver transfers late, again, and in another order.          *)
(***************************************************************************)
EXTENDS Naturals, Sequences, FiniteSets, Functions

CONSTANTS
  WindowMs,        \* WINDOW_MS, in ticks
  MaxTransfers,    \* bound
  NoTime,          \* transfers whose occurredAt cannot be parsed
  MaxRedelivered,  \* bound: deliveries of a transfer that has been checked before
  MaxClock         \* bound

Transfers == 1..MaxTransfers   \* in the order in which the wallet sends them

ASSUME VelocityAssumption ==
  /\ WindowMs \in Nat \ {0} /\ MaxTransfers \in Nat
  /\ MaxRedelivered \in Nat /\ MaxClock \in Nat
  /\ NoTime \subseteq Transfers

VARIABLES
  clock,
  occurredAt,   \* the times of the transfers sent so far
  zset,         \* Redis: the wallet's sorted set, member -> score
  expireAt,     \* Redis: when it expires
  redelivered,
  scored,       \* history: transfer that has been checked -> the time it last had
  last          \* history: the last check

velocityVars == <<clock, occurredAt, zset, expireAt, redelivered, scored, last>>

Empty == [e \in {} |-> 0]
Sent == 1..Len(occurredAt)

NoCheck == [event |-> 0, time |-> 0, clock |-> 0, count |-> 0, before |-> Empty]

VelocityInit ==
  /\ clock = 0
  /\ occurredAt = <<>>
  /\ zset = Empty /\ expireAt = 0
  /\ redelivered = 0
  /\ scored = Empty
  /\ last = NoCheck

Send ==
  /\ Len(occurredAt) < MaxTransfers
  /\ occurredAt' = Append(occurredAt, clock)
  /\ UNCHANGED <<clock, zset, expireAt, redelivered, scored, last>>

Tick ==
  /\ clock < MaxClock
  /\ clock' = clock + 1
  /\ UNCHANGED <<occurredAt, zset, expireAt, redelivered, scored, last>>

-----------------------------------------------------------------------------
(* event_time_ms *)
EventTime(e) == IF e \in NoTime THEN clock ELSE occurredAt[e]

With(z, e, time) == [f \in DOMAIN z \cup {e} |-> IF f = e THEN time ELSE z[f]]

InWindow(t, time) == t + WindowMs > time /\ t <= time

(* zremrangebyscore 0 .. time - WINDOW_MS *)
Trim(z, time) == Restrict(z, {e \in DOMAIN z : z[e] + WindowMs > time})

(* A mutant: zcard. *)
CountAll(z, time) == Cardinality(DOMAIN z)

(* zcount time - WINDOW_MS .. time *)
Count(z, time) == Cardinality({e \in DOMAIN z : z[e] + WindowMs >= time /\ z[e] <= time})

(* A mutant: the set lives as long as the window. *)
ExpiryAfterWindow == clock + WindowMs

(* pexpire *)
Expiry == clock + 2 * WindowMs

(* The transaction of velocity, for transfer e. *)
Check(e) ==
  LET time == EventTime(e)
      kept == Trim(With(IF clock < expireAt THEN zset ELSE Empty, e, time), time)
  IN /\ e \in Sent
     /\ IF e \in DOMAIN scored
          THEN redelivered < MaxRedelivered /\ redelivered' = redelivered + 1
          ELSE redelivered' = redelivered
     /\ zset' = kept
     /\ expireAt' = Expiry
     /\ last' = [event |-> e, time |-> time, clock |-> clock, count |-> Count(kept, time),
                 before |-> scored]
     /\ scored' = With(scored, e, time)
     /\ UNCHANGED <<clock, occurredAt>>

VelocityNext == Send \/ Tick \/ \E e \in Sent : Check(e)

VelocitySpec == VelocityInit /\ [][VelocityNext]_velocityVars

-----------------------------------------------------------------------------
Checked == last.event # 0

(* No order of deliveries makes the rule count what is not there: a transfer twice, one
   that left the window, or one that came later than the transfer it looks at.
   A transfer without a time of its own can be anywhere.                               *)
NeverOvercounts ==
  Checked =>
    last.count <= Cardinality({e \in Sent : e \in NoTime \/ InWindow(occurredAt[e], last.time)})

(* A transfer that is not older than those checked before it, and that is checked within
   a window's time, is given the exact number of transfers seen in its window: late and
   repeated deliveries in between have neither trimmed nor outlived what it needs.       *)
ExactWhenPrompt ==
  /\ Checked
  /\ last.clock <= last.time + WindowMs
  /\ \A e \in DOMAIN last.before : last.before[e] <= last.time
  => last.count = Cardinality({e \in DOMAIN scored : InWindow(scored[e], last.time)})

==============================================================================
