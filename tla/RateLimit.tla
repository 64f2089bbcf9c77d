------------------------------ MODULE RateLimit ------------------------------
(***************************************************************************)
(* The rate limits of src/internal/api/ratelimit.go: a token bucket per    *)
(* client address, swept when idle, behind the rule that says which        *)
(* address a request comes from.  allow looks at the clock before it waits *)
(* for the limiter's mutex (ratelimit.go:139-141), so requests may be      *)
(* served in another order than their times, and the filling of a bucket   *)
(* may go back in time.                                                    *)
(*                                                                         *)
(* Time and tokens are whole numbers: a request costs Window units and a   *)
(* unit of time brings Burst of them, which is burst/window tokens.  Log   *)
(* lines, counters and the Retry-After hint are left out.                  *)
(***************************************************************************)
EXTENDS Integers

CONSTANTS Addresses,  \* of peers, and those forwarding headers name
          Trusted,    \* the proxies whose forwarding headers are believed
          NoClaim,    \* a request without a forwarding header
          Burst, Window,
          EvictTTL,   \* 10 windows in the code
          Callers,    \* requests under way at a time
          MaxWait,    \* the longest any waits for the mutex
          MaxTime     \* bound on the clock

ASSUME BurstAssumption == Burst \in Nat
ASSUME WindowAssumption == Window \in Nat
ASSUME MaxTimeAssumption == MaxTime \in Nat
ASSUME ClaimAssumption == NoClaim \notin Addresses
\* 10 windows are enough as long as nobody waits for four and a half.
ASSUME EvictAssumption ==
  MaxWait \in Nat /\ EvictTTL \in Nat /\ EvictTTL >= Window + 2 * MaxWait

Full     == Burst * Window
NoBucket == [tokens |-> -1 - Burst * MaxWait, lastFill |-> 0]
Buckets  == [tokens : -Burst * MaxWait..Full, lastFill : 0..MaxTime]
Nobody   == [address |-> NoClaim, from |-> 0, count |-> 0]
NoCall   == [peer |-> NoClaim, key |-> NoClaim, now |-> 0]

VARIABLES
  clock,
  call,       \* call[q]: who waits for the mutex, with what it read before
  bucket,     \* bucket[k]: a member of Buckets, or NoBucket
  lastSweep,
  watch       \* (history) an observer of one peer: whom, since when, and how
              \* many requests made since got through

limiter == <<clock, call, bucket, lastSweep, watch>>

\* The first call sweeps: lastSweep is Go's zero time.
RateInit ==
  /\ clock = 0
  /\ call = [q \in Callers |-> NoCall]
  /\ bucket = [k \in Addresses |-> NoBucket]
  /\ lastSweep = -EvictTTL
  /\ watch = Nobody

\* clientIP: a header counts only when the peer is trusted to have set it.
ClientIP(peer, claim) ==
  IF peer \in Trusted /\ claim # NoClaim THEN claim ELSE peer

\* A request arrives and looks at the clock.
ReadClock(q, peer, claim) ==
  /\ call[q] = NoCall
  /\ call' = [call EXCEPT ![q] =
                [peer |-> peer, key |-> ClientIP(peer, claim), now |-> clock]]
  /\ UNCHANGED <<clock, bucket, lastSweep, watch>>

\* faulty variant: a bucket is dropped as soon as a sweep finds it idle
Idle_Now(k, now) == now > bucket[k].lastFill
Idle(k, now)     == now - bucket[k].lastFill > EvictTTL

SweepDue(now) == now - lastSweep >= EvictTTL
Swept(k, now) == IF SweepDue(now) /\ Idle(k, now) THEN NoBucket ELSE bucket[k]

\* What bucket b holds at a time; a new one is full.
Filled(b, now) ==
  LET t == b.tokens + Burst * (now - b.lastFill)
  IN  IF b = NoBucket \/ t > Full THEN Full ELSE t

\* It has the mutex, and keeps it until it has its answer.
Allow(q) ==
  LET k   == call[q].key
      now == call[q].now
      t   == Filled(Swept(k, now), now)
      ok  == t >= Window
  IN  /\ call[q] # NoCall
      /\ call' = [call EXCEPT ![q] = NoCall]
      /\ bucket' = [a \in Addresses |->
                      IF a = k THEN [tokens |-> IF ok THEN t - Window ELSE t,
                                     lastFill |-> now]
                      ELSE Swept(a, now)]
      /\ lastSweep' = IF SweepDue(now) THEN now ELSE lastSweep
      /\ watch' = IF ok /\ call[q].peer = watch.address /\ now >= watch.from
                  THEN [watch EXCEPT !.count = @ + 1] ELSE watch
      /\ UNCHANGED clock

Tick ==
  /\ clock < MaxTime
  /\ \A q \in Callers : call[q] # NoCall => clock - call[q].now < MaxWait
  /\ clock' = clock + 1
  /\ UNCHANGED <<call, bucket, lastSweep, watch>>

\* An observer starts counting, once, at any moment.
Watch(a) ==
  /\ watch = Nobody
  /\ watch' = [address |-> a, from |-> clock, count |-> 0]
  /\ UNCHANGED <<clock, call, bucket, lastSweep>>

RateNext ==
  \/ Tick
  \/ \E a \in Addresses \ Trusted : Watch(a)
  \/ \E q \in Callers :
       \/ Allow(q)
       \/ \E peer \in Addresses, claim \in Addresses \cup {NoClaim} :
            ReadClock(q, peer, claim)

RateSpec == RateInit /\ [][RateNext]_limiter
-----------------------------------------------------------------------------
Calls == [peer : Addresses, key : Addresses, now : 0..MaxTime]

\* A bucket never lacks more than what flowed in while its last user waited.
RateTypeOK ==
  /\ clock \in 0..MaxTime
  /\ call \in [Callers -> Calls \cup {NoCall}]
  /\ \A q \in Callers :
       call[q] # NoCall =>
         /\ call[q].now <= clock /\ clock - call[q].now <= MaxWait
         /\ call[q].peer \notin Trusted => call[q].key = call[q].peer
  /\ bucket \in [Addresses -> Buckets \cup {NoBucket}]
  /\ \A k \in Addresses :
       bucket[k] # NoBucket =>
         /\ bucket[k].lastFill <= clock
         /\ bucket[k].tokens + Burst * (clock - bucket[k].lastFill) >= 0
  /\ watch = Nobody \/
       watch \in [address : Addresses \ Trusted, from : 0..clock, count : Nat]

\* Of the requests a peer that is no proxy of ours makes from any moment on, no
\* more than a burst and burst per window since get through, whatever headers
\* it sends, whoever else uses its bucket, in whatever order the requests get
\* the mutex, and though idle buckets are dropped (ratelimit.go:112-116, 65-71).
RateHeld ==
  watch.count * Window <= Full + Burst * (clock - watch.from)

\* What makes it inductive: what the watched peer has had and what its bucket
\* holds are within the same bound at the bucket's own time, and a bucket that
\* has been dropped would have been full for all who are still waiting.
RateInv ==
  watch.count > 0 =>
    LET held == bucket[watch.address]
    IN  IF held = NoBucket
        THEN watch.count * Window <= Burst * (clock - MaxWait - watch.from)
        ELSE watch.count * Window + held.tokens
               <= Full + Burst * (held.lastFill - watch.from)
=============================================================================
