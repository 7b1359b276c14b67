----------------------------- MODULE BatchCheck -----------------------------
(***************************************************************************)
(* The Redis side of the limiter: the keyspace and the scripts that run on *)
(* it, each one atomic.                                                    *)
(*   batch_check.lua   two phases: every rule is tried without writing,    *)
(*                     and only if all pass is the quota of all taken      *)
(*   release_conc.lua  gives a concurrency slot back                       *)
(*   token_ledger.lua  op reserve charges a token budget                   *)
(* A script reads Redis's own clock, now; the keys were built by a gateway *)
(* from its own clock, the parameter t.                                    *)
(*                                                                         *)
(* counters  fixed windows and token ledgers: value and time of expiry     *)
(* slides    sliding windows: sorted sets, member -> time of admission     *)
(* buckets   token buckets: tokens, time of the last write, expiry         *)
(* conc      concurrency slots: sorted sets, member -> deadline            *)
(* Sorted sets are given no expiry of their own: Redis drops them (window  *)
(* + 1s, ttl + 60s after the last write) when every member is already out  *)
(* of the range the script counts.                                         *)
(***************************************************************************)
EXTENDS RateRules

CONSTANTS
  ReqIds,       \* request identifiers
  ReqId,        \* ReqId[q]: the X-Request-Id of q, or the one generated for it
  MaxTime,      \* bound on now
  MaxSkew,      \* bound on how far a gateway's clock is ahead of Redis's
  Grace         \* the 60 s added to the expiry of a counter and a bucket

ASSUME ReqIdAssumption == IsFiniteSet(ReqIds) /\ ReqId \in [Requests -> ReqIds]
ASSUME TimeAssumption == MaxTime \in Nat /\ MaxSkew \in Nat /\ Grace \in Nat
\* A fixed and a sliding rule with the same dimensions and window would use one
\* key as a string and as a sorted set; the script then fails with WRONGTYPE.
ASSUME NoTypeClash ==
  \A i \in Of("fixed"), j \in Of("sliding") :
     Rules[i].dims # Rules[j].dims \/ Rules[i].win # Rules[j].win

VARIABLES now, counters, slides, buckets, conc

redisVars == <<now, counters, slides, buckets, conc>>

Absent == -1
NoCounter == [n |-> 0, exp |-> 0]
NoBucket == [tok |-> 0, ts |-> 0, exp |-> 0]
EmptyZSet == [m \in ReqIds |-> Absent]

\* The keys the rules of an algorithm can be given within the bounds.
KeysOf(a) == {Key(i, q, t) : i \in Of(a), q \in Requests, t \in 0 .. (MaxTime + MaxSkew)}
FixedKeys == KeysOf("fixed")
CounterKeys == FixedKeys \cup KeysOf("token")
SlideKeys == KeysOf("sliding")
BucketKeys == KeysOf("tb")
ConcKeys == KeysOf("conc")

RedisTypeOK ==
  /\ now \in 0 .. MaxTime
  /\ counters \in [CounterKeys -> [n : Nat, exp : Nat]]
  /\ slides \in [SlideKeys -> [ReqIds -> Nat \cup {Absent}]]
  /\ buckets \in [BucketKeys -> [tok : Nat, ts : Nat, exp : Nat]]
  /\ conc \in [ConcKeys -> [ReqIds -> Nat \cup {Absent}]]

RedisInit ==
  /\ now = 0
  /\ counters = [k \in CounterKeys |-> NoCounter]
  /\ slides = [k \in SlideKeys |-> EmptyZSet]
  /\ buckets = [k \in BucketKeys |-> NoBucket]
  /\ conc = [k \in ConcKeys |-> EmptyZSet]
-----------------------------------------------------------------------------
\* Mutant: the cut is one tick too late.
SweepEager(z, cut) == [m \in ReqIds |-> IF z[m] <= cut + 1 THEN Absent ELSE z[m]]

\* ZREMRANGEBYSCORE z 0 cut, and ZCARD z.
Sweep(z, cut) == [m \in ReqIds |-> IF z[m] <= cut THEN Absent ELSE z[m]]
Members(z) == {m \in ReqIds : z[m] # Absent}
Card(z) == Cardinality(Members(z))

\* Mutant: the refill is not capped by burst.
RefilledUncapped(r, k) ==
  IF buckets[k].exp = 0 THEN r.burst * Unit
  ELSE buckets[k].tok + (now - buckets[k].ts) * TokenBucketRate(r)

\* Tokens in the bucket of key k once it is refilled up to now.
Refilled(r, k) ==
  LET full == r.burst * Unit
      t == buckets[k].tok + (now - buckets[k].ts) * TokenBucketRate(r)
  IN IF buckets[k].exp = 0 THEN full
     ELSE IF now = buckets[k].ts THEN buckets[k].tok
     ELSE IF t > full THEN full ELSE t

\* Phase 1: rule r rejects on key k.
Exceeded(r, k) ==
  \/ r.alg = "fixed" /\ counters[k].n + 1 > r.limit
  \/ r.alg = "sliding" /\ Card(Sweep(slides[k], now - r.win)) + 1 > r.limit
  \/ r.alg = "tb" /\ Refilled(r, k) < Unit
  \/ r.alg = "conc" /\ Card(Sweep(conc[k], now)) + 1 > r.limit
  \/ r.alg = "token" /\ counters[k].n >= r.limit

Rejects(i, q, t) == Exceeded(Rules[i], Key(i, q, t))

FirstReject(i, q, t) == Rejects(i, q, t) /\ \A j \in RuleIds : j < i => ~Rejects(j, q, t)

\* The time to wait that the rejection of rule i returns.
RetryAfter(i, q, t) ==
  LET r == Rules[i]
      k == Key(i, q, t)
  IN CASE r.alg \in {"fixed", "token"} -> counters[k].exp - now
       [] r.alg = "sliding" ->
            LET z == Sweep(slides[k], now - r.win)
                oldest == CHOOSE s \in {z[m] : m \in Members(z)} :
                             \A m \in Members(z) : s <= z[m]
            IN oldest + r.win - now
       [] r.alg = "tb" -> CeilDiv(Unit - Refilled(r, k), TokenBucketRate(r))
       [] r.alg = "conc" -> r.ttl

\* The rules of algorithm a that request q counts under key k, and the one of
\* them that is written last.
Hits(a, k, q, t) == {i \in Of(a) : Key(i, q, t) = k}
LastHit(a, k, q, t) == CHOOSE i \in Hits(a, k, q, t) : \A j \in Hits(a, k, q, t) : j <= i

\* Mutant: the expiry leaves out the 60 s.
CommitFixedNoGrace(q, t) ==
  counters' = [k \in CounterKeys |->
    IF Hits("fixed", k, q, t) = {} THEN counters[k]
    ELSE [n |-> counters[k].n + Cardinality(Hits("fixed", k, q, t)),
          exp |-> IF counters[k].n = 0 THEN now + k.win ELSE counters[k].exp]]

\* Phase 2 on a fixed window: INCRBY, and EXPIRE if the counter was zero.
CommitFixed(q, t) ==
  counters' = [k \in CounterKeys |->
    IF Hits("fixed", k, q, t) = {} THEN counters[k]
    ELSE [n |-> counters[k].n + Cardinality(Hits("fixed", k, q, t)),
          exp |-> IF counters[k].n = 0 THEN now + k.win + Grace ELSE counters[k].exp]]

\* Phase 2 on a sliding window: ZADD; on a bucket: HSET what is left of it; on
\* concurrency: ZADD the deadline.
CommitSliding(q, t) ==
  slides' = [k \in SlideKeys |->
    IF Hits("sliding", k, q, t) = {} THEN slides[k]
    ELSE [Sweep(slides[k], now - k.win) EXCEPT ![ReqId[q]] = now]]

CommitBuckets(q, t) ==
  buckets' = [k \in BucketKeys |->
    IF Hits("tb", k, q, t) = {} THEN buckets[k]
    ELSE LET r == Rules[LastHit("tb", k, q, t)] IN
         [tok |-> Refilled(r, k) - Unit, ts |-> now,
          exp |-> now + CeilDiv(r.burst * Unit, TokenBucketRate(r)) + Grace]]

\* Mutant: the slot ends one tick before its timeout.
CommitConcShort(q, t) ==
  conc' = [k \in ConcKeys |->
    IF Hits("conc", k, q, t) = {} THEN conc[k]
    ELSE [Sweep(conc[k], now) EXCEPT ![ReqId[q]] = now + Rules[LastHit("conc", k, q, t)].ttl - 1]]

CommitConc(q, t) ==
  conc' = [k \in ConcKeys |->
    IF Hits("conc", k, q, t) = {} THEN conc[k]
    ELSE [Sweep(conc[k], now) EXCEPT ![ReqId[q]] = now + Rules[LastHit("conc", k, q, t)].ttl]]

\* batch_check.lua, all rules pass.  A token rule is only read.
BatchPass(q, t) ==
  /\ \A i \in RuleIds : ~Rejects(i, q, t)
  /\ CommitFixed(q, t)
  /\ CommitSliding(q, t)
  /\ CommitBuckets(q, t)
  /\ CommitConc(q, t)
  /\ UNCHANGED now

\* Mutant: the rules before the one that rejects have been charged.
BatchRejectCharges(i, q, t) ==
  /\ FirstReject(i, q, t)
  /\ counters' = [k \in CounterKeys |->
       IF \E j \in Hits("fixed", k, q, t) : j < i
       THEN [n |-> counters[k].n + 1, exp |-> now + k.win + Grace] ELSE counters[k]]
  /\ UNCHANGED <<now, slides, buckets, conc>>

\* batch_check.lua, rule i is the first to reject: only the sorted sets of the
\* rules tried so far are swept.
BatchReject(i, q, t) ==
  /\ FirstReject(i, q, t)
  /\ slides' = [k \in SlideKeys |->
       IF \E j \in Hits("sliding", k, q, t) : j <= i
       THEN Sweep(slides[k], now - k.win) ELSE slides[k]]
  /\ conc' = [k \in ConcKeys |->
       IF \E j \in Hits("conc", k, q, t) : j <= i
       THEN Sweep(conc[k], now) ELSE conc[k]]
  /\ UNCHANGED <<now, counters, buckets>>

\* Mutant: DEL in place of ZREM.
ReleaseAll(q) ==
  /\ conc' = [k \in ConcKeys |-> IF Hits("conc", k, q, 0) = {} THEN conc[k] ELSE EmptyZSet]
  /\ UNCHANGED <<now, counters, slides, buckets>>

\* release_conc.lua: ZREM the request from every key it holds.
ReleaseConc(q) ==
  /\ conc' = [k \in ConcKeys |->
       IF Hits("conc", k, q, 0) = {} THEN conc[k]
       ELSE [conc[k] EXCEPT ![ReqId[q]] = Absent]]
  /\ UNCHANGED <<now, counters, slides, buckets>>

\* token_ledger.lua op reserve, once for each token rule: INCRBY d, and EXPIRE
\* when the ledger had been zero (used == delta).
LedgerReserve(q, t, d) ==
  /\ counters' = [k \in CounterKeys |->
       IF Hits("token", k, q, t) = {} THEN counters[k]
       ELSE [n |-> counters[k].n + d * Cardinality(Hits("token", k, q, t)),
             exp |-> IF counters[k].n = 0 THEN now + k.win + Grace ELSE counters[k].exp]]
  /\ UNCHANGED <<now, slides, buckets, conc>>

\* Time passes and Redis removes the keys whose expiry lies in the past.
RedisTick ==
  /\ now < MaxTime
  /\ now' = now + 1
  /\ counters' = [k \in CounterKeys |->
       IF counters[k].exp < now' THEN NoCounter ELSE counters[k]]
  /\ buckets' = [k \in BucketKeys |->
       IF buckets[k].exp < now' THEN NoBucket ELSE buckets[k]]
  /\ UNCHANGED <<slides, conc>>
=============================================================================
