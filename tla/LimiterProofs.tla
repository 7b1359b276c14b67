---------------------------- MODULE LimiterProofs ----------------------------
(***************************************************************************)
(* The limiter, for every set of rules, requests and instances, and every  *)
(* skew, delay and number of resends that the assumptions allow: types,    *)
(* the quota of fixed windows and the exactness of their counters, the     *)
(* slots of concurrency rules, the local quotas of degraded instances,     *)
(* sliding windows, token buckets, and the negative cache.                 *)
(***************************************************************************)
EXTENDS Limiter, Sums

\* A non-empty set of rule numbers has a greatest one (the rule whose
\* write the script does last).
LEMMA GreatestMember ==
  ASSUME NEW n \in Nat, NEW S \in SUBSET (1 .. n), S # {}
  PROVE  \E x \in S : \A y \in S : y <= x
<1> DEFINE T == {n - s : s \in S}
<1>1. T \in SUBSET Nat /\ T # {}
  <2>1. \A s \in S : n - s \in Nat
    OBVIOUS
  <2>2. T \subseteq Nat
    BY <2>1
  <2>3. PICK s \in S : TRUE
    OBVIOUS
  <2>4. n - s \in T
    OBVIOUS
  <2> QED
    BY <2>2, <2>4
<1>2. PICK d \in T : \A e \in T : d <= e
  <2> HIDE DEF T
  <2> QED BY <1>1, LeastMember
<1>3. PICK x \in S : d = n - x
  OBVIOUS
<1>4. ASSUME NEW y \in S PROVE y <= x
  <2>1. n - x <= n - y
    BY <1>2, <1>3
  <2> QED
    BY <2>1
<1> QED
  BY <1>4

\* A window holds the times from its boundary on, for its length (WindowBoundary).
LEMMA WindowHolds ==
  ASSUME NEW t \in Nat, NEW win \in Nat \ {0}, NEW natural \in BOOLEAN
  PROVE  LET b == WindowBoundary(t, win, natural) IN
           b \in Int /\ b <= t /\ t < b + win
<1>1. ASSUME NEW a \in Nat
      PROVE  /\ a \div win \in Int
             /\ (a \div win) * win \in Int
             /\ (a \div win) * win <= a /\ a < (a \div win) * win + win
  OBVIOUS
<1>2. CASE natural
  BY <1>1, <1>2, TzAssumption, t + TzOffset \in Nat DEF WindowBoundary
<1>3. CASE ~natural
  BY <1>1, <1>3 DEF WindowBoundary
<1> QED
  BY <1>2, <1>3

\* Facts about the rules.
LEMMA RuleFacts ==
  /\ Len(Rules) \in Nat /\ RuleIds = 1 .. Len(Rules)
  /\ IsFiniteSet(RuleIds)
  /\ \A i \in RuleIds : Rules[i] \in Rule
<1>1. Len(Rules) \in Nat /\ RuleIds = 1 .. Len(Rules)
  BY RulesAssumption DEF RuleIds
<1> QED
  BY <1>1, FS_Interval, RulesAssumption DEF RuleIds

\* The rules a request counts under a key are finitely many; if there are any,
\* LastHit is one of them.
LEMMA HitsFacts ==
  ASSUME NEW a, NEW k, NEW q, NEW t
  PROVE  /\ Hits(a, k, q, t) \subseteq RuleIds
         /\ IsFiniteSet(Hits(a, k, q, t))
         /\ Cardinality(Hits(a, k, q, t)) \in Nat
         /\ Hits(a, k, q, t) # {} =>
              /\ Cardinality(Hits(a, k, q, t)) >= 1
              /\ LastHit(a, k, q, t) \in Hits(a, k, q, t)
<1>1. Hits(a, k, q, t) \subseteq RuleIds
  BY DEF Hits, Of
<1>2. IsFiniteSet(Hits(a, k, q, t)) /\ Cardinality(Hits(a, k, q, t)) \in Nat
  BY <1>1, RuleFacts, FS_Subset, FS_CardinalityType
<1>3. ASSUME Hits(a, k, q, t) # {}
      PROVE  Cardinality(Hits(a, k, q, t)) >= 1
  BY <1>2, <1>3, FS_EmptySet
<1>4. ASSUME Hits(a, k, q, t) # {}
      PROVE  LastHit(a, k, q, t) \in Hits(a, k, q, t)
  <2>1. \E x \in Hits(a, k, q, t) : \A y \in Hits(a, k, q, t) : y <= x
    BY <1>1, <1>4, RuleFacts, GreatestMember
  <2> QED
    BY <2>1 DEF LastHit
<1> QED
  BY <1>1, <1>2, <1>3, <1>4

\* The refill rate of a bucket is positive, its contents and expiry are numbers.
LEMMA BucketFacts ==
  ASSUME RedisTypeOK, NEW i \in Of("tb"), NEW k \in BucketKeys
  PROVE  /\ TokenBucketRate(Rules[i]) \in Nat \ {0}
         /\ Refilled(Rules[i], k) \in Int
         /\ \A x \in Int : CeilDiv(x, TokenBucketRate(Rules[i])) \in Int
         /\ CeilDiv(Rules[i].burst * Unit, TokenBucketRate(Rules[i])) \in Nat
<1> DEFINE r == Rules[i]
           c == r.limit * Unit
<1>1. r \in Rule /\ r.alg = "tb" /\ i \in RuleIds
  BY RuleFacts DEF Of
<1>2. r.limit \in Nat \ {0} /\ r.win \in Nat \ {0} /\ r.burst \in Nat \ {0}
  BY <1>1 DEF Rule
<1>3. Unit \in Nat \ {0} /\ c \in Nat /\ c >= r.win
  BY <1>1, <1>2, UnitAssumption
<1>4. TokenBucketRate(r) \in Nat \ {0}
  <2>1. ASSUME NEW x \in Nat, NEW y \in Nat \ {0}, x >= y
        PROVE  x \div y \in Nat \ {0}
    BY <2>1
  <2> QED
    BY <1>2, <1>3, <2>1 DEF TokenBucketRate
<1>5. ASSUME NEW x \in Int, NEW y \in Nat \ {0}
      PROVE  CeilDiv(x, y) \in Int /\ (x \in Nat => CeilDiv(x, y) \in Nat)
  BY DEF CeilDiv
<1>6. r.burst * Unit \in Nat
  BY <1>2, <1>3
<1>7. Refilled(r, k) \in Int
  <2>1. now \in Int /\ buckets[k].tok \in Int /\ buckets[k].ts \in Int
    BY DEF RedisTypeOK
  <2>2. (now - buckets[k].ts) * TokenBucketRate(r) \in Int
    BY <1>4, <2>1
  <2> QED
    BY <1>6, <2>1, <2>2 DEF Refilled
<1> QED
  BY <1>4, <1>5, <1>6, <1>7

ZSet == [ReqIds -> Nat \cup {Absent}]

\* Sweeping a sorted set, and writing an entry of it, leaves a sorted set.
LEMMA ZSetFacts ==
  ASSUME NEW z \in ZSet, NEW cut, NEW m
  PROVE  /\ Sweep(z, cut) \in ZSet
         /\ \A s \in Nat \cup {Absent} : [z EXCEPT ![m] = s] \in ZSet
         /\ \A s \in Nat \cup {Absent} : [Sweep(z, cut) EXCEPT ![m] = s] \in ZSet
<1>1. Sweep(z, cut) \in ZSet
  BY DEF Sweep, ZSet, Absent
<1> QED
  BY <1>1 DEF ZSet

\* Adding to counters leaves counters.
LEMMA CounterFacts ==
  ASSUME RedisTypeOK, NEW a, NEW q, NEW t, NEW d \in Nat, NEW k \in CounterKeys,
         k.win \in Nat
  PROVE  LET c == Cardinality(Hits(a, k, q, t)) IN
         /\ [n |-> counters[k].n + d * c,
             exp |-> IF counters[k].n = 0 THEN now + k.win + Grace ELSE counters[k].exp]
              \in [n : Nat, exp : Nat]
         /\ [n |-> counters[k].n + c,
             exp |-> IF counters[k].n = 0 THEN now + k.win + Grace ELSE counters[k].exp]
              \in [n : Nat, exp : Nat]
<1> DEFINE c == Cardinality(Hits(a, k, q, t))
<1>1. c \in Nat
  BY HitsFacts
<1>2. d * c \in Nat
  BY <1>1
<1>3. now \in Nat /\ Grace \in Nat /\ counters[k].n \in Nat /\ counters[k].exp \in Nat
  BY TimeAssumption DEF RedisTypeOK
<1> QED
  BY <1>1, <1>2, <1>3

\* What the keys of counters look like (RateKey, TokenLedgerKey).
LEMMA KeyFacts ==
  ASSUME NEW q, NEW t
  PROVE  /\ \A i \in Of("fixed") :
              /\ Key(i, q, t).kind = "rl" /\ Key(i, q, t).win = Rules[i].win
              /\ Key(i, q, t).b = WindowBoundary(t, Rules[i].win, Rules[i].natural)
         /\ \A i \in Of("token") :
              Key(i, q, t).kind = "tk" /\ Key(i, q, t).win = Rules[i].win
<1>1. ASSUME NEW i \in Of("fixed")
      PROVE  Key(i, q, t) = RateKey(Rules[i], q, t)
  BY DEF Of, Key
<1>2. ASSUME NEW i \in Of("token")
      PROVE  Key(i, q, t) = TokenLedgerKey(Rules[i], q, t)
  BY DEF Of, Key
<1> QED
  BY <1>1, <1>2 DEF RateKey, TokenLedgerKey

\* The window length in the key of a counter is a number.
LEMMA CounterKeyWindow ==
  ASSUME NEW k \in CounterKeys
  PROVE  k.win \in Nat
<1>1. PICK i \in Of("fixed") \cup Of("token"), q \in Requests, t \in 0 .. (MaxTime + MaxSkew) :
        k = Key(i, q, t)
  BY DEF CounterKeys, FixedKeys, KeysOf
<1>2. k.win = Rules[i].win
  BY <1>1, KeyFacts
<1>3. Rules[i].win \in Nat
  BY RuleFacts DEF Of, Rule
<1> QED
  BY <1>2, <1>3
-----------------------------------------------------------------------------
(***************************************************************************)
(* The scripts leave a well-formed keyspace.                               *)
(***************************************************************************)
\* batch_check.lua, all rules pass: a bucket is left with no less than zero tokens,
\* since the rule that writes it last has found one in it.
LEMMA BatchPassType ==
  ASSUME RedisTypeOK, NEW q \in Requests, NEW t, BatchPass(q, t)
  PROVE  RedisTypeOK'
<1> USE DEF BatchPass
<1>1. counters' \in [CounterKeys -> [n : Nat, exp : Nat]]
  <2>1. \A k \in CounterKeys : counters[k] \in [n : Nat, exp : Nat]
    BY DEF RedisTypeOK
  <2> QED
    BY <2>1, CounterFacts, CounterKeyWindow, 0 \in Nat DEF CommitFixed
<1>2. now \in Nat
  BY TimeAssumption DEF RedisTypeOK
<1>3. slides' \in [SlideKeys -> ZSet]
  <2>1. \A k \in SlideKeys : slides[k] \in ZSet
    BY DEF RedisTypeOK, ZSet
  <2> QED
    BY <1>2, <2>1, ZSetFacts DEF CommitSliding
<1>4. buckets' \in [BucketKeys -> [tok : Nat, ts : Nat, exp : Nat]]
  <2>1. \A k \in BucketKeys : buckets[k] \in [tok : Nat, ts : Nat, exp : Nat]
    BY DEF RedisTypeOK
  <2>2. ASSUME NEW k \in BucketKeys, Hits("tb", k, q, t) # {}
        PROVE  LET r == Rules[LastHit("tb", k, q, t)] IN
               /\ Refilled(r, k) - Unit \in Nat
               /\ now + CeilDiv(r.burst * Unit, TokenBucketRate(r)) + Grace \in Nat
    <3> DEFINE i == LastHit("tb", k, q, t)
    <3>1. i \in Of("tb") /\ i \in RuleIds /\ Key(i, q, t) = k
      <4>1. i \in Hits("tb", k, q, t)
        BY <2>2, HitsFacts
      <4> QED
        BY <4>1 DEF Hits, Of
    <3>2. Rules[i].alg = "tb" /\ ~Exceeded(Rules[i], k)
      BY <3>1 DEF Rejects, Of
    <3>3. Refilled(Rules[i], k) \in Int /\ Unit \in Nat
          /\ CeilDiv(Rules[i].burst * Unit, TokenBucketRate(Rules[i])) \in Nat
      BY <3>1, BucketFacts, UnitAssumption
    <3>4. ~(Refilled(Rules[i], k) < Unit)
      BY <3>2 DEF Exceeded
    <3> HIDE DEF i
    <3>5. Refilled(Rules[i], k) - Unit \in Nat
      BY <3>3, <3>4
    <3>6. now + CeilDiv(Rules[i].burst * Unit, TokenBucketRate(Rules[i])) + Grace \in Nat
      BY <1>2, <3>3, TimeAssumption
    <3> QED
      BY <3>5, <3>6 DEF i
  <2> QED
    BY <1>2, <2>1, <2>2 DEF CommitBuckets
<1>5. conc' \in [ConcKeys -> ZSet]
  <2>1. \A k \in ConcKeys : conc[k] \in ZSet
    BY DEF RedisTypeOK, ZSet
  <2>2. ASSUME NEW k \in ConcKeys, Hits("conc", k, q, t) # {}
        PROVE  now + Rules[LastHit("conc", k, q, t)].ttl \in Nat
    <3>1. LastHit("conc", k, q, t) \in RuleIds
      BY <2>2, HitsFacts
    <3>2. Rules[LastHit("conc", k, q, t)].ttl \in Nat
      BY <3>1, RuleFacts DEF Rule
    <3> QED
      BY <1>2, <3>2
  <2> QED
    BY <2>1, <2>2, ZSetFacts DEF CommitConc
<1> QED
  BY <1>1, <1>3, <1>4, <1>5 DEF RedisTypeOK, ZSet

\* batch_check.lua, a rule rejects.
LEMMA BatchRejectType ==
  ASSUME RedisTypeOK, NEW i, NEW q, NEW t, BatchReject(i, q, t)
  PROVE  RedisTypeOK'
<1>1. slides' \in [SlideKeys -> ZSet]
  <2>1. \A k \in SlideKeys : slides[k] \in ZSet
    BY DEF RedisTypeOK, ZSet
  <2> QED
    BY <2>1, ZSetFacts DEF BatchReject
<1>2. conc' \in [ConcKeys -> ZSet]
  <2>1. \A k \in ConcKeys : conc[k] \in ZSet
    BY DEF RedisTypeOK, ZSet
  <2> QED
    BY <2>1, ZSetFacts DEF BatchReject
<1> QED
  BY <1>1, <1>2 DEF RedisTypeOK, ZSet, BatchReject

\* release_conc.lua.
LEMMA ReleaseConcType ==
  ASSUME RedisTypeOK, NEW q, ReleaseConc(q)
  PROVE  RedisTypeOK'
<1>1. \A k \in ConcKeys : conc[k] \in ZSet
  BY DEF RedisTypeOK, ZSet
<1>2. conc' \in [ConcKeys -> ZSet]
  BY <1>1, ZSetFacts DEF ReleaseConc
<1> QED
  BY <1>2 DEF RedisTypeOK, ZSet, ReleaseConc

\* token_ledger.lua, op reserve.
LEMMA LedgerReserveType ==
  ASSUME RedisTypeOK, NEW q, NEW t, NEW d \in Nat, LedgerReserve(q, t, d)
  PROVE  RedisTypeOK'
<1>1. \A k \in CounterKeys : counters[k] \in [n : Nat, exp : Nat]
  BY DEF RedisTypeOK
<1>2. counters' \in [CounterKeys -> [n : Nat, exp : Nat]]
  BY <1>1, CounterFacts, CounterKeyWindow DEF LedgerReserve
<1> QED
  BY <1>2 DEF RedisTypeOK, LedgerReserve

\* Expiry of keys.
LEMMA RedisTickType ==
  ASSUME RedisTypeOK, RedisTick
  PROVE  RedisTypeOK'
<1>1. now' \in 0 .. MaxTime
  BY TimeAssumption DEF RedisTypeOK, RedisTick
<1>2. counters' \in [CounterKeys -> [n : Nat, exp : Nat]]
  BY DEF RedisTypeOK, RedisTick, NoCounter
<1>3. buckets' \in [BucketKeys -> [tok : Nat, ts : Nat, exp : Nat]]
  BY DEF RedisTypeOK, RedisTick, NoBucket
<1> QED
  BY <1>1, <1>2, <1>3 DEF RedisTypeOK, RedisTick

\* What a rejection tells the gateway to wait is a number.
LEMMA RetryAfterType ==
  ASSUME RedisTypeOK, NEW q \in Requests, NEW t \in 0 .. (MaxTime + MaxSkew),
         NEW i \in RuleIds, Rejects(i, q, t)
  PROVE  RetryAfter(i, q, t) \in Int
<1> DEFINE r == Rules[i]
           k == Key(i, q, t)
<1>1. r \in Rule /\ now \in Int
  BY RuleFacts DEF RedisTypeOK
<1>2. r.win \in Nat /\ r.ttl \in Nat /\ r.limit \in Nat \ {0} /\ r.alg \in Algorithms
  BY <1>1 DEF Rule
<1>3. i \in Of(r.alg) /\ k \in KeysOf(r.alg)
  BY DEF Of, KeysOf
<1>4. CASE r.alg \in {"fixed", "token"}
  <2>1. k \in CounterKeys
    BY <1>3, <1>4 DEF CounterKeys, FixedKeys
  <2>2. counters[k].exp \in Int
    BY <2>1 DEF RedisTypeOK
  <2>3. RetryAfter(i, q, t) = counters[k].exp - now
    BY <1>4 DEF RetryAfter
  <2> QED
    BY <1>1, <2>2, <2>3
<1>5. CASE r.alg = "sliding"
  <2> DEFINE z == Sweep(slides[k], now - r.win)
             S == {z[m] : m \in Members(z)}
             oldest == CHOOSE s \in S : \A m \in Members(z) : s <= z[m]
  <2>1. z \in ZSet
    BY <1>3, <1>5, ZSetFacts DEF RedisTypeOK, ZSet, SlideKeys
  <2>2. Card(z) + 1 > r.limit
    BY <1>5 DEF Rejects, Exceeded
  <2>3. IsFiniteSet(Members(z)) /\ Cardinality(Members(z)) \in Nat
    BY ReqIdAssumption, FS_Subset, FS_CardinalityType DEF Members
  <2>4. Members(z) # {}
    BY <1>2, <2>2, <2>3, FS_EmptySet DEF Card
  <2>5. S \in SUBSET Nat /\ S # {}
    BY <2>1, <2>4 DEF Members, ZSet
  <2>6. \E s \in S : \A u \in S : s <= u
    <3> HIDE DEF S
    <3> QED BY <2>5, LeastMember
  <2>7. \E s \in S : \A m \in Members(z) : s <= z[m]
    BY <2>6
  <2>8. oldest \in Nat
    <3>1. oldest \in S
      BY <2>7
    <3> HIDE DEF S, oldest
    <3> QED BY <2>5, <3>1
  <2>9. RetryAfter(i, q, t) = oldest + r.win - now
    BY <1>5 DEF RetryAfter
  <2> HIDE DEF oldest
  <2> QED
    BY <1>1, <1>2, <2>8, <2>9
<1>6. CASE r.alg = "tb"
  <2>1. i \in Of("tb") /\ k \in BucketKeys
    BY <1>3, <1>6 DEF BucketKeys
  <2>2. Unit - Refilled(r, k) \in Int
    BY <2>1, BucketFacts, UnitAssumption
  <2>3. CeilDiv(Unit - Refilled(r, k), TokenBucketRate(r)) \in Int
    BY <2>1, <2>2, BucketFacts
  <2> QED
    BY <1>6, <2>3 DEF RetryAfter
<1>7. CASE r.alg = "conc"
  BY <1>2, <1>7 DEF RetryAfter
<1> QED
  BY <1>2, <1>4, <1>5, <1>6, <1>7 DEF Algorithms
-----------------------------------------------------------------------------
(***************************************************************************)
(* Type correctness.                                                       *)
(***************************************************************************)
\* The clock of an instance gives a time within the bounds of the keys.
LEMMA ClockType ==
  ASSUME RedisTypeOK, NEW i \in Instances
  PROVE  Clock(i) \in 0 .. (MaxTime + MaxSkew)
<1>1. Skew[i] \in 0 .. MaxSkew
  BY SkewAssumption
<1> QED
  BY <1>1, TimeAssumption DEF RedisTypeOK, Clock

\* Taking local quotas leaves quotas.
LEMMA TakeQuotasType ==
  ASSUME TypeOK, NEW j \in Nat, NEW q \in Requests, NEW t, TakeQuotas(j, q, t)
  PROVE  quota' \in [Instances -> [QuotaKeys -> [n : Nat, reset : Int]]]
<1> DEFINE i == call[q].inst
           Entry == [n : Nat, reset : Int]
<1>1. i \in Instances /\ \A k \in QuotaKeys : quota[i][k] \in Entry
  BY DEF TypeOK
<1>2. Clock(i) \in Int
  BY <1>1, ClockType DEF TypeOK
<1>3. ASSUME NEW k \in QuotaKeys, QuotaHits(j, k, q, t) # {}
      PROVE  LET hits == QuotaHits(j, k, q, t)
                 h == CHOOSE x \in hits : \A y \in hits : x <= y
             IN [QuotaEntry(i, k, QuotaWindow(h)) EXCEPT !.n = @ + Cardinality(hits)] \in Entry
  <2> DEFINE hits == QuotaHits(j, k, q, t)
             h == CHOOSE x \in hits : \A y \in hits : x <= y
  <2>1. hits \subseteq RuleIds
    BY DEF QuotaHits, LocalQuotaRules, Of
  <2>2. Cardinality(hits) \in Nat
    BY <2>1, RuleFacts, FS_Subset, FS_CardinalityType
  <2>3. hits \in SUBSET Nat /\ hits # {}
    BY <1>3, <2>1, RuleFacts
  <2>4. \E x \in hits : \A y \in hits : x <= y
    <3> HIDE DEF hits
    <3> QED BY <2>3, LeastMember
  <2>5. h \in RuleIds
    <3>1. h \in hits
      BY <2>4
    <3> HIDE DEF h
    <3> QED BY <2>1, <3>1
  <2> HIDE DEF h, hits
  <2>6. QuotaWindow(h) \in Nat
    BY <2>5, RuleFacts DEF QuotaWindow, Rule
  <2>7. QuotaEntry(i, k, QuotaWindow(h)) \in Entry
    BY <1>1, <1>2, <2>6 DEF QuotaEntry
  <2>8. [QuotaEntry(i, k, QuotaWindow(h)) EXCEPT !.n = @ + Cardinality(hits)] \in Entry
    BY <2>2, <2>7
  <2> QED
    BY <2>8 DEF h, hits
<1>4. [k \in QuotaKeys |->
         LET hits == QuotaHits(j, k, q, t) IN
         IF hits = {} THEN quota[i][k]
         ELSE LET h == CHOOSE x \in hits : \A y \in hits : x <= y
                  e == QuotaEntry(i, k, QuotaWindow(h))
              IN [e EXCEPT !.n = @ + Cardinality(hits)]] \in [QuotaKeys -> Entry]
  BY <1>1, <1>3
<1> QED
  BY <1>4 DEF TakeQuotas, TypeOK

\* The initial states are well formed.
LEMMA InitType == Init => TypeOK
<1> SUFFICES ASSUME Init PROVE TypeOK
  OBVIOUS
<1>1. RedisTypeOK
  BY TimeAssumption
  DEF Init, RedisInit, RedisTypeOK, NoCounter, NoBucket, EmptyZSet, Absent
<1>2. call \in [Requests -> [inst : Instances, ts : 0 .. (MaxTime + MaxSkew)]]
  BY TimeAssumption DEF Init
<1>3. neg \in [Instances -> [AllKeys -> Int]]
      /\ quota \in [Instances -> [QuotaKeys -> [n : Nat, reset : Int]]]
  BY DEF Init, NoQuota, Absent
<1>4. reply \in [Requests -> [ok : BOOLEAN, idx : {0} \cup RuleIds, retry : Int]]
  BY DEF Init, None
<1> QED
  BY <1>1, <1>2, <1>3, <1>4, BoundsAssumption DEF Init, TypeOK, PCs, Absent

\* The end of a script call leaves well-formed call state.
LEMMA EndCallType ==
  ASSUME TypeOK, NEW q \in Requests, EndCall(q)
  PROVE  /\ tries' \in [Requests -> 0 .. MaxRetries]
         /\ reply' \in [Requests -> [ok : BOOLEAN, idx : {0} \cup RuleIds, retry : Int]]
BY BoundsAssumption DEF TypeOK, EndCall, None

\* Every step of the gateways and of Redis leaves a well-formed state.
LEMMA NextType == TypeOK /\ [Next]_vars => TypeOK'
<1> SUFFICES ASSUME TypeOK, [Next]_vars PROVE TypeOK'
  OBVIOUS
<1> DEFINE Reply == [ok : BOOLEAN, idx : {0} \cup RuleIds, retry : Int]
<1>1. ASSUME NEW q \in Requests, Check(q) PROVE TypeOK'
  <2>1. Clock(call[q].inst) \in 0 .. (MaxTime + MaxSkew)
    BY ClockType DEF TypeOK
  <2>2. call' \in [Requests -> [inst : Instances, ts : 0 .. (MaxTime + MaxSkew)]]
    <3>1. call' = [call EXCEPT ![q].ts = Clock(call[q].inst)]
      BY <1>1, Zenon DEF Check
    <3>2. call \in [Requests -> [inst : Instances, ts : 0 .. (MaxTime + MaxSkew)]]
      BY Zenon DEF TypeOK
    <3> QED
      BY <2>1, <3>1, <3>2
  <2>3. pc' \in [Requests -> PCs] /\ flight' \in [Requests -> SUBSET (0 .. MaxRetries)]
    <3>1. \/ pc' = [pc EXCEPT ![q] = "over"] /\ flight' = flight
          \/ pc' = [pc EXCEPT ![q] = "wait"] /\ flight' = [flight EXCEPT ![q] = {0}]
      BY <1>1 DEF Check
    <3>2. 0 \in 0 .. MaxRetries
      BY BoundsAssumption
    <3>3. CASE pc' = [pc EXCEPT ![q] = "over"] /\ flight' = flight
      BY <3>3 DEF TypeOK, PCs
    <3>4. CASE pc' = [pc EXCEPT ![q] = "wait"] /\ flight' = [flight EXCEPT ![q] = {0}]
      BY <3>2, <3>4 DEF TypeOK, PCs
    <3> QED
      BY <3>1, <3>3, <3>4
  <2>4. RedisTypeOK'
    BY <1>1 DEF Check, TypeOK, RedisTypeOK, redisVars
  <2> QED
    BY <1>1, <2>2, <2>3, <2>4 DEF Check, TypeOK
<1>2. ASSUME NEW q \in Requests, NEW a \in 0 .. MaxRetries, ExecPass(q, a) PROVE TypeOK'
  <2>1. RedisTypeOK'
    BY <1>2, BatchPassType DEF ExecPass, TypeOK
  <2>2. reply' \in [Requests -> Reply]
    BY <1>2 DEF ExecPass, Answer, TypeOK, Passed
  <2>3. passes' \in [Requests -> Nat] /\ passAt' \in [Requests -> Int]
    BY <1>2 DEF ExecPass, TypeOK, RedisTypeOK
  <2>4. flight' \in [Requests -> SUBSET (0 .. MaxRetries)]
    BY <1>2 DEF ExecPass, Answer, TypeOK
  <2> QED
    BY <1>2, <2>1, <2>2, <2>3, <2>4 DEF ExecPass, Answer, TypeOK
<1>3. ASSUME NEW q \in Requests, NEW a \in 0 .. MaxRetries, NEW i \in RuleIds,
             ExecReject(q, a, i)
      PROVE  TypeOK'
  <2>1. RedisTypeOK'
    BY <1>3, BatchRejectType DEF ExecReject, TypeOK
  <2>2. RetryAfter(i, q, call[q].ts) \in Int
    BY <1>3, RetryAfterType DEF ExecReject, BatchReject, FirstReject, TypeOK
  <2>3. reply' \in [Requests -> Reply]
    BY <1>3, <2>2 DEF ExecReject, Answer, TypeOK
  <2>4. flight' \in [Requests -> SUBSET (0 .. MaxRetries)]
    BY <1>3 DEF ExecReject, Answer, TypeOK
  <2> QED
    BY <1>3, <2>1, <2>3, <2>4 DEF ExecReject, Answer, TypeOK
<1>4. ASSUME NEW q \in Requests, NEW a \in 0 .. MaxRetries, LoseCommand(q, a) PROVE TypeOK'
  BY <1>4 DEF LoseCommand, TypeOK, RedisTypeOK, redisVars
<1>5. ASSUME NEW q \in Requests, Resend(q) PROVE TypeOK'
  <2>1. tries[q] + 1 \in 0 .. MaxRetries
    BY <1>5, BoundsAssumption DEF Resend, TypeOK
  <2>2. tries' \in [Requests -> 0 .. MaxRetries]
        /\ flight' \in [Requests -> SUBSET (0 .. MaxRetries)]
    BY <1>5, <2>1 DEF Resend, TypeOK
  <2>3. reply' \in [Requests -> Reply]
    BY <1>5 DEF Resend, TypeOK, None
  <2> QED
    BY <1>5, <2>2, <2>3 DEF Resend, TypeOK, RedisTypeOK, redisVars
<1>6. ASSUME NEW q \in Requests, Decide(q) PROVE TypeOK'
  <2>1. BlockUntil(q) \in Int
    BY TimeAssumption DEF BlockUntil, TypeOK
  <2>2. neg' \in [Instances -> [AllKeys -> Int]]
    <3>1. \/ neg' = neg
          \/ \E k : neg' = [neg EXCEPT ![call[q].inst][k] = BlockUntil(q)]
      BY <1>6 DEF Decide
    <3>2. ASSUME NEW k
          PROVE  [neg EXCEPT ![call[q].inst][k] = BlockUntil(q)] \in [Instances -> [AllKeys -> Int]]
      BY <2>1 DEF TypeOK
    <3>3. neg \in [Instances -> [AllKeys -> Int]]
      BY DEF TypeOK
    <3> QED
      <4>1. CASE neg' = neg
        BY <3>3, <4>1
      <4>2. CASE \E k : neg' = [neg EXCEPT ![call[q].inst][k] = BlockUntil(q)]
        <5>1. PICK k : neg' = [neg EXCEPT ![call[q].inst][k] = BlockUntil(q)]
          BY <4>2
        <5> QED
          BY <3>2, <5>1, ZenonT(60)
      <4> QED
        BY <3>1, <4>1, <4>2
  <2>3. pc' \in [Requests -> PCs]
    BY <1>6 DEF Decide, TypeOK, PCs
  <2> QED
    BY <1>6, <2>2, <2>3, EndCallType DEF Decide, TypeOK, RedisTypeOK, redisVars
<1>7. ASSUME NEW q \in Requests, FailClose(q) PROVE TypeOK'
  <2>1. pc' \in [Requests -> PCs]
    BY <1>7 DEF FailClose, TypeOK, PCs
  <2> QED
    BY <1>7, <2>1, EndCallType DEF FailClose, TypeOK, RedisTypeOK, redisVars
<1>8. ASSUME NEW q \in Requests, DegradeAllow(q) PROVE TypeOK'
  <2>1. Len(Rules) + 1 \in Nat
    BY RuleFacts
  <2>2. quota' \in [Instances -> [QuotaKeys -> [n : Nat, reset : Int]]]
    BY <1>8, <2>1, TakeQuotasType DEF DegradeAllow
  <2>3. pc' \in [Requests -> PCs]
    BY <1>8 DEF DegradeAllow, TypeOK, PCs
  <2> QED
    BY <1>8, <2>2, <2>3, EndCallType DEF DegradeAllow, TypeOK, RedisTypeOK, redisVars
<1>9. ASSUME NEW q \in Requests, NEW j \in LocalQuotaRules, DegradeReject(q, j) PROVE TypeOK'
  <2>1. j \in Nat
    BY RuleFacts DEF LocalQuotaRules, Of
  <2>2. quota' \in [Instances -> [QuotaKeys -> [n : Nat, reset : Int]]]
    BY <1>9, <2>1, TakeQuotasType DEF DegradeReject
  <2>3. pc' \in [Requests -> PCs]
    BY <1>9 DEF DegradeReject, TypeOK, PCs
  <2> QED
    BY <1>9, <2>2, <2>3, EndCallType DEF DegradeReject, TypeOK, RedisTypeOK, redisVars
<1>10. ASSUME NEW q \in Requests, NEW d \in 1 .. MaxDelta, TokenReserve(q, d) PROVE TypeOK'
  <2>1. RedisTypeOK'
    BY <1>10, LedgerReserveType DEF TokenReserve, TypeOK
  <2>2. spent' \in [Requests -> 0 .. MaxReserves]
    BY <1>10, BoundsAssumption DEF TokenReserve, TypeOK
  <2> QED
    BY <1>10, <2>1, <2>2 DEF TokenReserve, TypeOK
<1>11. ASSUME NEW q \in Requests, Finish(q) PROVE TypeOK'
  BY <1>11 DEF Finish, TypeOK, PCs, RedisTypeOK, redisVars
<1>12. ASSUME NEW q \in Requests, ReleaseExec(q) PROVE TypeOK'
  <2>1. RedisTypeOK'
    BY <1>12, ReleaseConcType DEF ReleaseExec, TypeOK
  <2> QED
    BY <1>12, <2>1 DEF ReleaseExec, TypeOK, PCs
<1>13. ASSUME NEW q \in Requests, ReleaseLost(q) PROVE TypeOK'
  BY <1>13 DEF ReleaseLost, TypeOK, PCs, RedisTypeOK, redisVars
<1>14. ASSUME NEW i \in Instances, Crash(i) PROVE TypeOK'
  <2>1. neg' \in [Instances -> [AllKeys -> Int]]
        /\ quota' \in [Instances -> [QuotaKeys -> [n : Nat, reset : Int]]]
    BY <1>14 DEF Crash, TypeOK, NoQuota, Absent
  <2>2. pc' \in [Requests -> PCs] /\ tries' \in [Requests -> 0 .. MaxRetries]
    BY <1>14, BoundsAssumption DEF Crash, TypeOK, PCs
  <2>3. reply' \in [Requests -> Reply]
    BY <1>14 DEF Crash, TypeOK, None
  <2> QED
    BY <1>14, <2>1, <2>2, <2>3 DEF Crash, TypeOK, RedisTypeOK, redisVars
<1>15. CASE Tick
  BY <1>15, RedisTickType DEF Tick, TypeOK, gwVars
<1>16. CASE UNCHANGED vars
  BY <1>16 DEF TypeOK, RedisTypeOK, vars, redisVars, gwVars
<1> QED
  BY <1>1, <1>2, <1>3, <1>4, <1>5, <1>6, <1>7, <1>8, <1>9, <1>10, <1>11, <1>12,
     <1>13, <1>14, <1>15, <1>16
  DEF Next

\* Every state of the limiter is well formed (limiter.go, batch_check.lua): among
\* other things no token bucket and no counter is ever left negative.
THEOREM TypeCorrect == Spec => []TypeOK
<1>1. Init => TypeOK
  BY InitType
<1>2. TypeOK /\ [Next]_vars => TypeOK'
  BY NextType
<1> QED
  BY <1>1, <1>2, PTL DEF Spec
-----------------------------------------------------------------------------
(***************************************************************************)
(* The quota of a fixed window: QuotaInv is inductive.                     *)
(***************************************************************************)
\* Every step keeps the commands on their way within MaxDelay of their Check: time
\* waits for them (Tick), and the client resends only in time (Resend).
LEMMA CallTimesStep == TypeOK /\ CallTimes /\ [Next]_vars => CallTimes'
<1> SUFFICES ASSUME TypeOK, CallTimes, [Next]_vars PROVE CallTimes'
  OBVIOUS
<1>0. ASSUME NEW q \in Requests
      PROVE  /\ now \in Nat /\ MaxDelay \in Nat
             /\ call[q].ts \in Nat /\ call[q].inst \in Instances
             /\ Skew[call[q].inst] \in Nat
  BY SkewAssumption, BoundsAssumption, TimeAssumption DEF TypeOK, RedisTypeOK
<1>1. ASSUME NEW q \in Requests, Check(q) PROVE CallTimes'
  <2>1. now' = now /\ passes' = passes /\ pc'[q] # "new"
    BY <1>1 DEF Check, redisVars, TypeOK
  <2>2. call'[q].ts = now + Skew[call[q].inst] /\ call'[q].inst = call[q].inst
    BY <1>1 DEF Check, Clock, TypeOK
  <2>3. Sent(q)' = now
    BY <1>0, <2>2 DEF Sent
  <2>4. ASSUME NEW x \in Requests, x # q
        PROVE  pc'[x] = pc[x] /\ call'[x] = call[x] /\ flight'[x] = flight[x]
    BY <1>1, <2>4 DEF Check, TypeOK
  <2> QED
    BY <1>0, <2>1, <2>3, <2>4 DEF CallTimes, Sent
<1>2. ASSUME NEW q \in Requests, NEW a \in 0 .. MaxRetries, ExecPass(q, a) PROVE CallTimes'
  <2>1. now' = now /\ pc' = pc /\ call' = call /\ flight[q] # {} /\ pc[q] # "new"
    BY <1>2 DEF ExecPass, Answer, BatchPass, CallTimes
  <2>2. ASSUME NEW x \in Requests
        PROVE  (flight'[x] # {} => flight[x] # {}) /\ (x # q => passes'[x] = passes[x])
    BY <1>2 DEF ExecPass, Answer, TypeOK
  <2> QED
    BY <2>1, <2>2 DEF CallTimes, Sent
<1>3. ASSUME NEW q \in Requests, NEW a \in 0 .. MaxRetries, NEW i \in RuleIds,
             ExecReject(q, a, i)
      PROVE  CallTimes'
  <2>1. now' = now /\ pc' = pc /\ call' = call /\ passes' = passes
    BY <1>3 DEF ExecReject, Answer, BatchReject
  <2>2. ASSUME NEW x \in Requests PROVE flight'[x] # {} => flight[x] # {}
    BY <1>3 DEF ExecReject, Answer, TypeOK
  <2> QED
    BY <2>1, <2>2 DEF CallTimes, Sent
<1>4. ASSUME NEW q \in Requests, NEW a \in 0 .. MaxRetries, LoseCommand(q, a) PROVE CallTimes'
  <2>1. now' = now /\ pc' = pc /\ call' = call /\ passes' = passes
    BY <1>4 DEF LoseCommand, redisVars
  <2>2. ASSUME NEW x \in Requests PROVE flight'[x] # {} => flight[x] # {}
    BY <1>4 DEF LoseCommand, TypeOK
  <2> QED
    BY <2>1, <2>2 DEF CallTimes, Sent
<1>5. ASSUME NEW q \in Requests, Resend(q) PROVE CallTimes'
  <2>1. /\ now' = now /\ pc' = pc /\ call' = call /\ passes' = passes
        /\ pc[q] = "wait" /\ now <= Sent(q) + MaxDelay
    BY <1>5 DEF Resend, redisVars
  <2>2. ASSUME NEW x \in Requests, x # q PROVE flight'[x] = flight[x]
    BY <1>5, <2>2 DEF Resend, TypeOK
  <2> QED
    BY <2>1, <2>2 DEF CallTimes, Sent
<1>6. ASSUME /\ now' = now /\ call' = call /\ flight' = flight /\ passes' = passes
             /\ \A x \in Requests : pc'[x] = "new" <=> pc[x] = "new"
      PROVE  CallTimes'
  BY <1>6 DEF CallTimes, Sent
<1>7. ASSUME NEW q \in Requests, EndCall(q), NEW v,
             pc' = [pc EXCEPT ![q] = v], v # "new"
      PROVE  \A x \in Requests : pc'[x] = "new" <=> pc[x] = "new"
  BY <1>7 DEF EndCall, TypeOK
<1>8. ASSUME NEW q \in Requests, Decide(q) PROVE CallTimes'
  <2>1. \E v \in {"serve", "over"} : pc' = [pc EXCEPT ![q] = v]
    BY <1>8 DEF Decide
  <2> QED
    BY <1>6, <1>7, <1>8, <2>1 DEF Decide, redisVars
<1>9. ASSUME NEW q \in Requests, FailClose(q) PROVE CallTimes'
  BY <1>6, <1>7, <1>9 DEF FailClose, redisVars
<1>10. ASSUME NEW q \in Requests, DegradeAllow(q) PROVE CallTimes'
  BY <1>6, <1>7, <1>10 DEF DegradeAllow, redisVars
<1>11. ASSUME NEW q \in Requests, NEW j \in LocalQuotaRules, DegradeReject(q, j) PROVE CallTimes'
  BY <1>6, <1>7, <1>11 DEF DegradeReject, redisVars
<1>12. ASSUME NEW q \in Requests, NEW d \in 1 .. MaxDelta, TokenReserve(q, d) PROVE CallTimes'
  BY <1>6, <1>12 DEF TokenReserve, LedgerReserve
<1>13. ASSUME NEW q \in Requests, Finish(q) \/ ReleaseExec(q) \/ ReleaseLost(q) PROVE CallTimes'
  <2>1. now' = now /\ call' = call /\ flight' = flight /\ passes' = passes
    BY <1>13 DEF Finish, ReleaseExec, ReleaseConc, ReleaseLost, redisVars
  <2>2. \A x \in Requests : pc'[x] = "new" <=> pc[x] = "new"
    BY <1>13 DEF Finish, ReleaseExec, ReleaseLost, TypeOK
  <2> QED
    BY <1>6, <2>1, <2>2
<1>14. ASSUME NEW i \in Instances, Crash(i) PROVE CallTimes'
  <2>1. \A x \in Requests : pc'[x] = "new" <=> pc[x] = "new"
    BY <1>14 DEF Crash, TypeOK
  <2> QED
    BY <1>6, <1>14, <2>1 DEF Crash, redisVars
<1>15. CASE Tick
  <2>1. now' = now + 1 /\ pc' = pc /\ call' = call /\ flight' = flight /\ passes' = passes
    BY <1>15 DEF Tick, RedisTick, gwVars
  <2>2. \A q \in Requests : flight[q] # {} => now < Sent(q) + MaxDelay
    BY <1>15 DEF Tick
  <2> QED
    BY <1>0, <2>1, <2>2 DEF CallTimes, Sent
<1>16. CASE UNCHANGED vars
  BY <1>16 DEF CallTimes, Sent, vars, redisVars, gwVars
<1> QED
  BY <1>1, <1>2, <1>3, <1>4, <1>5, <1>8, <1>9, <1>10, <1>11, <1>12, <1>13, <1>14,
     <1>15, <1>16
  DEF Next

\* Every step keeps what the gateway takes for a pass a pass: only the execution of
\* a script that passes writes such a reply (ExecPass, Decide).
LEMMA PassKnownStep == TypeOK /\ PassKnown /\ [Next]_vars => PassKnown'
<1> SUFFICES ASSUME TypeOK, PassKnown, [Next]_vars PROVE PassKnown'
  OBVIOUS
<1>1. ASSUME NEW q \in Requests, Check(q) PROVE PassKnown'
  <2>1. reply' = reply /\ passes' = passes
    BY <1>1 DEF Check
  <2>2. \A x \in Requests : pc'[x] \in {"serve", "release"} => pc[x] \in {"serve", "release"}
    BY <1>1 DEF Check, TypeOK
  <2> QED
    BY <2>1, <2>2 DEF PassKnown
<1>2. ASSUME NEW q \in Requests, NEW a \in 0 .. MaxRetries, ExecPass(q, a) PROVE PassKnown'
  <2>1. pc' = pc /\ passes'[q] > 0
    BY <1>2 DEF ExecPass, Answer, TypeOK
  <2>2. ASSUME NEW x \in Requests, x # q
        PROVE  reply'[x] = reply[x] /\ passes'[x] = passes[x]
    BY <1>2, <2>2 DEF ExecPass, Answer, TypeOK
  <2> QED
    BY <2>1, <2>2 DEF PassKnown
<1>3. ASSUME NEW q \in Requests, NEW a \in 0 .. MaxRetries, NEW i \in RuleIds,
             ExecReject(q, a, i)
      PROVE  PassKnown'
  <2>1. pc' = pc /\ passes' = passes
    BY <1>3 DEF ExecReject, Answer
  <2>2. ASSUME NEW x \in Requests PROVE reply'[x].ok => reply[x].ok
    BY <1>3 DEF ExecReject, Answer, TypeOK
  <2> QED
    BY <2>1, <2>2 DEF PassKnown
<1>4. ASSUME NEW q \in Requests, NEW a \in 0 .. MaxRetries, LoseCommand(q, a) PROVE PassKnown'
  BY <1>4 DEF LoseCommand, PassKnown
<1>5. ASSUME NEW q \in Requests, Resend(q) PROVE PassKnown'
  BY <1>5 DEF Resend, PassKnown, TypeOK, None
<1>6. ASSUME NEW q \in Requests, EndCall(q), passes' = passes, NEW v,
             pc' = [pc EXCEPT ![q] = v],
             v \in {"serve", "release"} => reply[q].ok
      PROVE  PassKnown'
  BY <1>6 DEF EndCall, PassKnown, TypeOK, None
<1>7. ASSUME NEW q \in Requests, Decide(q) PROVE PassKnown'
  <2>1. CASE reply[q].ok
    BY <1>6, <1>7, <2>1 DEF Decide
  <2>2. CASE ~reply[q].ok
    <3>1. pc' = [pc EXCEPT ![q] = "over"] /\ EndCall(q) /\ passes' = passes
      BY <1>7, <2>2 DEF Decide
    <3> QED
      BY <1>6, <3>1
  <2> QED
    BY <2>1, <2>2
<1>8. ASSUME NEW q \in Requests, FailClose(q) PROVE PassKnown'
  BY <1>6, <1>8 DEF FailClose
<1>9. ASSUME NEW q \in Requests, DegradeAllow(q) PROVE PassKnown'
  BY <1>6, <1>9 DEF DegradeAllow
<1>10. ASSUME NEW q \in Requests, NEW j \in LocalQuotaRules, DegradeReject(q, j) PROVE PassKnown'
  BY <1>6, <1>10 DEF DegradeReject
<1>11. ASSUME NEW q \in Requests, NEW d \in 1 .. MaxDelta, TokenReserve(q, d) PROVE PassKnown'
  BY <1>11 DEF TokenReserve, PassKnown
<1>12. ASSUME NEW q \in Requests, Finish(q) PROVE PassKnown'
  BY <1>12 DEF Finish, PassKnown, TypeOK
<1>13. ASSUME NEW q \in Requests, ReleaseExec(q) \/ ReleaseLost(q) PROVE PassKnown'
  BY <1>13 DEF ReleaseExec, ReleaseLost, PassKnown, TypeOK
<1>14. ASSUME NEW i \in Instances, Crash(i) PROVE PassKnown'
  BY <1>14 DEF Crash, PassKnown, TypeOK, None
<1>15. CASE Tick
  BY <1>15 DEF Tick, gwVars, PassKnown
<1>16. CASE UNCHANGED vars
  BY <1>16 DEF vars, gwVars, PassKnown
<1> QED
  BY <1>1, <1>2, <1>3, <1>4, <1>5, <1>7, <1>8, <1>9, <1>10, <1>11, <1>12, <1>13,
     <1>14, <1>15, <1>16
  DEF Next

\* The requests whose script has passed under key k of rule i.
Passers(i, k) == {q \in Requests : passes[q] > 0 /\ CallKey(i, q) = k}

\* They are finitely many.
LEMMA PassersFinite ==
  ASSUME NEW i, NEW k
  PROVE  IsFiniteSet(Passers(i, k)) /\ Cardinality(Passers(i, k)) \in Nat
BY RequestsAssumption, FS_Subset, FS_CardinalityType DEF Passers

\* A step leaves the passers alone when nobody new passes and those who have
\* passed keep their call.
LEMMA PassersSame ==
  ASSUME \A q \in Requests : /\ passes'[q] > 0 <=> passes[q] > 0
                             /\ passes[q] > 0 => call'[q] = call[q],
         NEW i, NEW k
  PROVE  Passers(i, k)' = Passers(i, k)
BY DEF Passers, CallKey

\* A call that Redis executes: the window of its key is not dead, and a counter it
\* starts outlives that window (GraceCovers).
LEMMA CallInTime ==
  ASSUME TypeOK, CallTimes, NEW q \in Requests, flight[q] # {}, NEW j \in Of("fixed")
  PROVE  LET k == CallKey(j, q) IN
         /\ k.b \in Int /\ k.win \in Nat
         /\ ~Dead(k)
         /\ now + k.win + Grace >= k.b + k.win + MaxDelay
<1> DEFINE k == CallKey(j, q)
           ts == call[q].ts
           skew == Skew[call[q].inst]
<1>1. /\ now \in Nat /\ MaxDelay \in Nat /\ MaxSkew \in Nat /\ Grace \in Nat
      /\ ts \in Nat /\ skew \in Nat /\ skew <= MaxSkew /\ MaxSkew + MaxDelay <= Grace
  BY SkewAssumption, BoundsAssumption, TimeAssumption, GraceCovers DEF TypeOK, RedisTypeOK
<1>2. Sent(q) = ts - skew
  BY DEF Sent
<1>3. Sent(q) <= now /\ now <= Sent(q) + MaxDelay
  BY DEF CallTimes
<1>4. Rules[j].win \in Nat \ {0} /\ Rules[j].natural \in BOOLEAN
  BY RuleFacts DEF Of, Rule
<1>5. k.win = Rules[j].win /\ k.b = WindowBoundary(ts, Rules[j].win, Rules[j].natural)
  BY KeyFacts DEF CallKey
<1>6. k.b \in Int /\ k.b <= ts /\ ts < k.b + k.win
  BY <1>1, <1>4, <1>5, WindowHolds
<1> HIDE DEF k, ts, skew
<1>7. now < k.b + k.win + MaxDelay /\ now + k.win + Grace >= k.b + k.win + MaxDelay
  BY <1>1, <1>2, <1>3, <1>4, <1>5, <1>6
<1> QED
  BY <1>1, <1>4, <1>5, <1>6, <1>7 DEF k, Dead

\* What of QuotaInv is about counters, in terms of Passers.
Ledger ==
  /\ CounterLives
  /\ \A i \in Of("fixed"), k \in FixedKeys :
       /\ Dead(k) \/ Cardinality(Passers(i, k)) <= counters[k].n
       /\ Cardinality(Passers(i, k)) <= Rules[i].limit

\* Ledger is these three parts of QuotaInv, for Redis admits whom the gateway serves.
LEMMA LedgerIsQuota ==
  ASSUME PassKnown
  PROVE  Ledger <=> CounterLives /\ Counted /\ QuotaBound
<1>1. ASSUME NEW i, NEW k
      PROVE  {q \in Requests : Admitted(q) /\ CallKey(i, q) = k} = Passers(i, k)
  BY DEF PassKnown, Admitted, Passers
<1> QED
  BY <1>1 DEF Ledger, Counted, QuotaBound, Passers

\* Steps that change no counter of a fixed window, admit nobody and take no time.
LEMMA LedgerQuiet ==
  ASSUME Ledger, now' = now,
         \A k \in FixedKeys : counters'[k] = counters[k],
         \A q \in Requests : /\ passes'[q] > 0 <=> passes[q] > 0
                             /\ passes[q] > 0 => call'[q] = call[q]
  PROVE  Ledger'
<1>1. \A i, k : Passers(i, k)' = Passers(i, k)
  BY PassersSame
<1> QED
  BY <1>1 DEF Ledger, CounterLives, Dead

\* An admission is counted, and is within the limit since the script checked.
LEMMA LedgerPass ==
  ASSUME TypeOK, CallTimes, Ledger,
         NEW q \in Requests, NEW a \in 0 .. MaxRetries, ExecPass(q, a)
  PROVE  Ledger'
<1>1. /\ now' = now /\ call' = call /\ flight[q] # {}
      /\ CommitFixed(q, call[q].ts)
      /\ \A i \in RuleIds : ~Rejects(i, q, call[q].ts)
  BY DEF ExecPass, Answer, BatchPass
<1>2. \A i \in Of("fixed") : i \in RuleIds /\ Rules[i].alg = "fixed" /\ Rules[i].limit \in Nat
  BY RuleFacts DEF Of, Rule
<1>3. FixedKeys \subseteq CounterKeys
  BY DEF CounterKeys
<1>4. \A k \in FixedKeys : counters[k].n \in Nat /\ counters[k].exp \in Nat
  BY <1>3 DEF TypeOK, RedisTypeOK
<1>5. ASSUME NEW k \in FixedKeys, Hits("fixed", k, q, call[q].ts) = {}
      PROVE  counters'[k] = counters[k]
  BY <1>1, <1>3, <1>5 DEF CommitFixed
<1>6. ASSUME NEW k \in FixedKeys, Hits("fixed", k, q, call[q].ts) # {}
      PROVE  /\ counters'[k].n >= counters[k].n + 1
             /\ counters'[k].n \in Nat
             /\ counters'[k].exp = IF counters[k].n = 0 THEN now + k.win + Grace
                                                        ELSE counters[k].exp
  <2>1. Cardinality(Hits("fixed", k, q, call[q].ts)) \in Nat
        /\ Cardinality(Hits("fixed", k, q, call[q].ts)) >= 1
    BY <1>6, HitsFacts
  <2>2. counters'[k] = [n |-> counters[k].n + Cardinality(Hits("fixed", k, q, call[q].ts)),
                        exp |-> IF counters[k].n = 0 THEN now + k.win + Grace
                                                     ELSE counters[k].exp]
    BY <1>1, <1>3, <1>6 DEF CommitFixed
  <2> QED
    BY <1>4, <2>1, <2>2
<1>7. ASSUME NEW k, Hits("fixed", k, q, call[q].ts) # {}
      PROVE  ~Dead(k) /\ now + k.win + Grace >= k.b + k.win + MaxDelay
  <2>1. PICK j \in Of("fixed") : k = CallKey(j, q)
    BY <1>7 DEF Hits, CallKey
  <2> QED
    BY <1>1, <2>1, CallInTime
<1>8. CounterLives'
  <2> SUFFICES ASSUME NEW k \in FixedKeys, counters'[k].n > 0
               PROVE  counters'[k].exp >= k.b + k.win + MaxDelay
    BY DEF CounterLives
  <2>1. CASE Hits("fixed", k, q, call[q].ts) = {}
    BY <1>5, <2>1 DEF Ledger, CounterLives
  <2>2. CASE Hits("fixed", k, q, call[q].ts) # {}
    <3>1. CASE counters[k].n = 0
      BY <1>6, <1>7, <2>2, <3>1
    <3>2. CASE counters[k].n > 0
      BY <1>4, <1>6, <2>2, <3>2 DEF Ledger, CounterLives
    <3> QED
      BY <1>4, <3>1, <3>2
  <2> QED
    BY <2>1, <2>2
<1>9. ASSUME NEW i \in Of("fixed"), NEW k \in FixedKeys
      PROVE  /\ Dead(k)' \/ Cardinality(Passers(i, k))' <= counters'[k].n
             /\ Cardinality(Passers(i, k))' <= Rules[i].limit
  <2>0. Dead(k)' <=> Dead(k)
    BY <1>1 DEF Dead
  <2>1. passes' = [passes EXCEPT ![q] = @ + 1] /\ passes \in [Requests -> Nat]
    BY DEF ExecPass, TypeOK
  <2>2. Cardinality(Passers(i, k)) \in Nat /\ IsFiniteSet(Passers(i, k))
    BY PassersFinite
  <2>3. CASE CallKey(i, q) = k
    <3>1. Hits("fixed", k, q, call[q].ts) # {}
      BY <2>3 DEF Hits, CallKey
    <3>2. Passers(i, k)' = Passers(i, k) \cup {q}
      BY <1>1, <2>1, <2>3 DEF Passers, CallKey
    <3>3. Cardinality(Passers(i, k)') <= Cardinality(Passers(i, k)) + 1
          /\ Cardinality(Passers(i, k)') \in Nat
      <4> DEFINE P == Passers(i, k)
      <4>1. Cardinality(P \cup {q}) = IF q \in P THEN Cardinality(P) ELSE Cardinality(P) + 1
        BY <2>2, FS_AddElement, ZenonT(60)
      <4> HIDE DEF P
      <4>2. Cardinality(P \cup {q}) <= Cardinality(P) + 1 /\ Cardinality(P \cup {q}) \in Nat
        BY <2>2, <4>1 DEF P
      <4> QED
        BY <3>2, <4>2, Zenon DEF P
    <3>4. Cardinality(Passers(i, k)) <= counters[k].n
      BY <1>7, <3>1 DEF Ledger
    <3>5. ~Exceeded(Rules[i], k)
      BY <1>1, <1>2, <2>3 DEF Rejects, CallKey
    <3>6. ~(counters[k].n + 1 > Rules[i].limit)
      BY <1>2, <3>5 DEF Exceeded
    <3> QED
      BY <1>2, <1>4, <1>6, <2>2, <3>1, <3>3, <3>4, <3>6
  <2>4. CASE CallKey(i, q) # k
    <3>1. Passers(i, k)' = Passers(i, k)
      BY <1>1, <2>1, <2>4 DEF Passers, CallKey
    <3>2. counters'[k].n >= counters[k].n /\ counters'[k].n \in Nat
      BY <1>4, <1>5, <1>6
    <3> QED
      BY <1>4, <2>0, <2>2, <3>1, <3>2 DEF Ledger
  <2> QED
    BY <2>3, <2>4
<1> QED
  BY <1>8, <1>9 DEF Ledger

\* Time passes: a counter that expires belongs to a dead window.
LEMMA LedgerTick ==
  ASSUME TypeOK, Ledger, Tick
  PROVE  Ledger'
<1>1. now' = now + 1 /\ passes' = passes /\ call' = call
  BY DEF Tick, RedisTick, gwVars
<1>2. \A i, k : Passers(i, k)' = Passers(i, k)
  BY <1>1, PassersSame
<1>3. ASSUME NEW k \in FixedKeys
      PROVE  /\ k.b \in Int /\ k.win \in Int /\ now \in Int /\ MaxDelay \in Int
             /\ counters[k].n \in Nat /\ counters[k].exp \in Nat
             /\ counters'[k] = IF counters[k].exp < now' THEN NoCounter ELSE counters[k]
  <2>1. k \in CounterKeys
    BY DEF CounterKeys
  <2>2. PICK i \in Of("fixed"), q \in Requests, t \in 0 .. (MaxTime + MaxSkew) : k = Key(i, q, t)
    BY DEF FixedKeys, KeysOf
  <2>3. Rules[i].win \in Nat \ {0} /\ Rules[i].natural \in BOOLEAN /\ t \in Nat
    BY RuleFacts, TimeAssumption DEF Of, Rule
  <2>4. k.b \in Int /\ k.win \in Int
    BY <2>2, <2>3, KeyFacts, WindowHolds
  <2>5. counters'[k] = IF counters[k].exp < now' THEN NoCounter ELSE counters[k]
    BY <2>1 DEF Tick, RedisTick
  <2> QED
    BY <2>1, <2>4, <2>5, BoundsAssumption DEF TypeOK, RedisTypeOK
<1>4. CounterLives'
  BY <1>3 DEF Ledger, CounterLives, NoCounter
<1>5. ASSUME NEW i \in Of("fixed"), NEW k \in FixedKeys
      PROVE  Dead(k)' \/ Cardinality(Passers(i, k)) <= counters'[k].n
  <2>1. CASE Dead(k)
    BY <1>1, <1>3, <2>1 DEF Dead
  <2>2. CASE ~Dead(k) /\ counters[k].n = 0
    BY <1>3, <2>2 DEF Ledger, NoCounter
  <2>3. CASE ~Dead(k) /\ counters[k].n > 0 /\ counters[k].exp < now'
    BY <1>1, <1>3, <2>3 DEF Ledger, CounterLives, Dead
  <2>4. CASE ~Dead(k) /\ ~(counters[k].exp < now')
    BY <1>3, <2>4 DEF Ledger
  <2> QED
    BY <1>3, <2>1, <2>2, <2>3, <2>4
<1> QED
  BY <1>2, <1>4, <1>5 DEF Ledger

\* Every step keeps the counters of fixed windows and the limits: admissions and
\* time are the lemmas above, and no other step writes such a counter.
LEMMA LedgerStep == TypeOK /\ CallTimes /\ Ledger /\ [Next]_vars => Ledger'
<1> SUFFICES ASSUME TypeOK, CallTimes, Ledger, [Next]_vars PROVE Ledger'
  OBVIOUS
<1>0. ASSUME now' = now, counters' = counters, call' = call, passes' = passes
      PROVE  Ledger'
  BY <1>0, LedgerQuiet
<1>1. ASSUME NEW q \in Requests, Check(q) PROVE Ledger'
  <2>1. now' = now /\ counters' = counters /\ passes' = passes /\ passes[q] = 0
    BY <1>1 DEF Check, redisVars, CallTimes
  <2>2. \A x \in Requests : x # q => call'[x] = call[x]
    BY <1>1 DEF Check, TypeOK
  <2> QED
    BY <2>1, <2>2, LedgerQuiet
<1>2. ASSUME NEW q \in Requests, NEW a \in 0 .. MaxRetries, ExecPass(q, a) PROVE Ledger'
  BY <1>2, LedgerPass
<1>3. ASSUME NEW q \in Requests, NEW a \in 0 .. MaxRetries, NEW i \in RuleIds,
             ExecReject(q, a, i)
      PROVE  Ledger'
  BY <1>0, <1>3 DEF ExecReject, Answer, BatchReject
<1>4. ASSUME NEW q \in Requests, NEW a \in 0 .. MaxRetries, LoseCommand(q, a) PROVE Ledger'
  BY <1>0, <1>4 DEF LoseCommand, redisVars
<1>5. ASSUME NEW q \in Requests, Resend(q) PROVE Ledger'
  BY <1>0, <1>5 DEF Resend, redisVars
<1>6. ASSUME NEW q \in Requests, Decide(q) \/ FailClose(q) \/ DegradeAllow(q) PROVE Ledger'
  BY <1>0, <1>6 DEF Decide, FailClose, DegradeAllow, redisVars
<1>7. ASSUME NEW q \in Requests, NEW j \in LocalQuotaRules, DegradeReject(q, j) PROVE Ledger'
  BY <1>0, <1>7 DEF DegradeReject, redisVars
<1>8. ASSUME NEW q \in Requests, NEW d \in 1 .. MaxDelta, TokenReserve(q, d) PROVE Ledger'
  <2> DEFINE t == Clock(call[q].inst)
  <2>1. LedgerReserve(q, t, d) /\ now' = now /\ call' = call /\ passes' = passes
    BY <1>8 DEF TokenReserve, LedgerReserve
  <2>2. ASSUME NEW k \in FixedKeys PROVE counters'[k] = counters[k]
    <3>1. k.kind = "rl"
      BY KeyFacts DEF FixedKeys, KeysOf
    <3>2. Hits("token", k, q, t) = {}
      BY <3>1, KeyFacts DEF Hits
    <3>3. k \in CounterKeys
      BY DEF CounterKeys
    <3> QED
      BY <2>1, <3>2, <3>3 DEF LedgerReserve
  <2> QED
    BY <2>1, <2>2, LedgerQuiet
<1>9. ASSUME NEW q \in Requests, Finish(q) \/ ReleaseExec(q) \/ ReleaseLost(q) PROVE Ledger'
  BY <1>0, <1>9 DEF Finish, ReleaseExec, ReleaseConc, ReleaseLost, redisVars
<1>10. ASSUME NEW i \in Instances, Crash(i) PROVE Ledger'
  BY <1>0, <1>10 DEF Crash, redisVars
<1>11. CASE Tick
  BY <1>11, LedgerTick
<1>12. CASE UNCHANGED vars
  BY <1>0, <1>12 DEF vars, redisVars, gwVars
<1> QED
  BY <1>1, <1>2, <1>3, <1>4, <1>5, <1>6, <1>7, <1>8, <1>9, <1>10, <1>11, <1>12
  DEF Next

\* The initial states satisfy the invariant.
LEMMA QuotaInit == Init => QuotaInv
<1> SUFFICES ASSUME Init PROVE QuotaInv
  OBVIOUS
<1>1. TypeOK
  BY InitType
<1>2. CallTimes /\ PassKnown
  BY DEF Init, CallTimes, PassKnown, None
<1>3. Ledger
  <2>1. \A i, k : Passers(i, k) = {}
    BY DEF Init, Passers
  <2>2. \A k \in FixedKeys : counters[k].n = 0
    BY DEF Init, RedisInit, CounterKeys, NoCounter
  <2>3. \A i \in Of("fixed") : Rules[i].limit \in Nat
    BY RuleFacts DEF Of, Rule
  <2>4. \A i, k : Cardinality(Passers(i, k)) = 0
    BY <2>1, FS_EmptySet
  <2>5. CounterLives
    BY <2>2 DEF CounterLives
  <2> QED
    BY <2>2, <2>3, <2>4, <2>5 DEF Ledger
<1> QED
  BY <1>1, <1>2, <1>3, LedgerIsQuota DEF QuotaInv

\* Every step preserves the invariant.
LEMMA QuotaNext == QuotaInv /\ [Next]_vars => QuotaInv'
<1> SUFFICES ASSUME QuotaInv, [Next]_vars PROVE QuotaInv'
  OBVIOUS
<1>1. TypeOK' /\ CallTimes' /\ PassKnown'
  BY NextType, CallTimesStep, PassKnownStep DEF QuotaInv
<1>2. Ledger
  BY LedgerIsQuota DEF QuotaInv
<1>3. Ledger'
  BY <1>2, LedgerStep DEF QuotaInv
<1>4. PassKnown' => (Ledger' <=> CounterLives' /\ Counted' /\ QuotaBound')
  <2>1. ASSUME PassKnown', NEW i, NEW k
        PROVE  {q \in Requests : Admitted(q) /\ CallKey(i, q) = k}' = Passers(i, k)'
    BY <2>1 DEF PassKnown, Admitted, Passers
  <2> QED
    BY <2>1 DEF Ledger, Counted, QuotaBound, Passers
<1> QED
  BY <1>1, <1>3, <1>4 DEF QuotaInv

\* No fixed window admits more than its limit, whatever the number of instances
\* and requests, however far their clocks differ (within MaxSkew) and however
\* commands are delayed (within MaxDelay), lost, resent or executed after the
\* gateway gave up, as long as MaxSkew + MaxDelay is within the 60 s of grace.
THEOREM QuotaHolds == Spec => []QuotaBound
<1>1. Init => QuotaInv
  BY QuotaInit
<1>2. QuotaInv /\ [Next]_vars => QuotaInv'
  BY QuotaNext
<1>3. QuotaInv => QuotaBound
  BY DEF QuotaInv
<1> QED
  BY <1>1, <1>2, <1>3, PTL DEF Spec
-----------------------------------------------------------------------------
\* No two requests have the same X-Request-Id: clients send none or unique ones.
DistinctIds == \A p, q \in Requests : ReqId[p] = ReqId[q] => p = q

\* Concurrency rules with the same dimensions share their sorted set, and the last of
\* them sets the deadline: they have one timeout.
OneTimeout ==
  \A i, j \in Of("conc") : Rules[i].dims = Rules[j].dims => Rules[i].ttl = Rules[j].ttl

\* A set that maps one-to-one into a finite one is no larger.
LEMMA InjectionBound ==
  ASSUME NEW S, NEW T, IsFiniteSet(T), NEW f \in [S -> T],
         \A x, y \in S : f[x] = f[y] => x = y
  PROVE  IsFiniteSet(S) /\ Cardinality(S) <= Cardinality(T)
<1>1. f \in Injection(S, T)
  BY DEF Injection, IsInjective
<1> QED
  BY <1>1, FS_Injection

\* The steps there are.
LEMMA NextCases ==
  ASSUME Next
  PROVE  \/ \E q \in Requests, a \in 0 .. MaxRetries : ExecPass(q, a)
         \/ \E q \in Requests, a \in 0 .. MaxRetries, i \in RuleIds : ExecReject(q, a, i)
         \/ \E q \in Requests : ReleaseExec(q)
         \/ Tick
         \/ \E q \in Requests :
              \/ Check(q) \/ Resend(q) \/ Decide(q) \/ FailClose(q) \/ DegradeAllow(q)
              \/ Finish(q) \/ ReleaseLost(q)
              \/ \E a \in 0 .. MaxRetries : LoseCommand(q, a)
              \/ \E j \in LocalQuotaRules : DegradeReject(q, j)
              \/ \E d \in 1 .. MaxDelta : TokenReserve(q, d)
         \/ \E i \in Instances : Crash(i)
BY DEF Next
-----------------------------------------------------------------------------
(***************************************************************************)
(* Concurrency slots.                                                      *)
(***************************************************************************)
\* A reply that passes is the one of a script that passed, and only a request that
\* waits has one; ...
Answers ==
  \A q \in Requests :
    (reply[q].ok => reply[q] = Passed) /\ (pc[q] # "wait" => reply[q] = None)

\* ... a request within its timeout has the deadline its admission gave it; ...
SlotTimes ==
  \A q \in Requests, i \in Of("conc") :
    Holding(q) /\ now < passAt[q] + Rules[i].ttl
      => conc[CallKey(i, q)][ReqId[q]] = passAt[q] + Rules[i].ttl

\* ... and a sorted set has no more live members than any of its rules allows.
Live(k) == {m \in ReqIds : conc[k][m] > now}
SlotsCounted ==
  \A i \in Of("conc"), k \in ConcKeys :
    DOMAIN k.vals = Rules[i].dims => Cardinality(Live(k)) <= Rules[i].limit

\* The key of a concurrency rule is that of the rule's dimensions.
LEMMA ConcKeyFacts ==
  ASSUME NEW i \in Of("conc"), NEW q \in Requests, NEW t
  PROVE  /\ i \in RuleIds /\ Rules[i].alg = "conc"
         /\ Rules[i].ttl \in Nat \ {0} /\ Rules[i].limit \in Nat \ {0}
         /\ Key(i, q, t) = ConcurrencyKey(Rules[i], q)
         /\ Key(i, q, t) \in ConcKeys
         /\ DOMAIN Key(i, q, t).vals = Rules[i].dims
<1>1. i \in RuleIds /\ Rules[i].alg = "conc"
  BY DEF Of
<1>2. Rules[i].ttl \in Nat \ {0} /\ Rules[i].limit \in Nat \ {0}
  BY <1>1, RuleFacts DEF Rule
<1>3. \A u : Key(i, q, u) = ConcurrencyKey(Rules[i], q)
  BY <1>1 DEF Key
<1>4. 0 \in 0 .. (MaxTime + MaxSkew)
  BY TimeAssumption
<1>5. Key(i, q, 0) \in ConcKeys
  BY <1>4 DEF ConcKeys, KeysOf
<1>6. DOMAIN ConcurrencyKey(Rules[i], q).vals = Rules[i].dims
  BY DEF ConcurrencyKey, DimVals
<1> QED
  BY <1>1, <1>2, <1>3, <1>5, <1>6

\* Two rules that have a key in common have the keys of every request in common.
LEMMA ConcKeyShared ==
  ASSUME NEW i \in Of("conc"), NEW j \in Of("conc"), Rules[i].dims = Rules[j].dims,
         NEW q \in Requests, NEW t
  PROVE  Key(i, q, t) = Key(j, q, t)
BY ConcKeyFacts DEF ConcurrencyKey, DimVals

\* Every step keeps Answers.
LEMMA AnswersStep == TypeOK /\ Answers /\ [Next]_vars => Answers'
<1> SUFFICES ASSUME TypeOK, Answers, [Next]_vars PROVE Answers'
  OBVIOUS
<1> USE DEF TypeOK
<1>1. ASSUME NEW q \in Requests, NEW a \in 0 .. MaxRetries, NEW r, Answer(q, a, r),
             r.ok => r = Passed
      PROVE  Answers'
  BY <1>1 DEF Answer, Answers
<1>2. ASSUME NEW q \in Requests, NEW a \in 0 .. MaxRetries, ExecPass(q, a) PROVE Answers'
  BY <1>1, <1>2 DEF ExecPass
<1>3. ASSUME NEW q \in Requests, NEW a \in 0 .. MaxRetries, NEW i \in RuleIds,
             ExecReject(q, a, i)
      PROVE  Answers'
  BY <1>1, <1>3 DEF ExecReject
<1>4. ASSUME NEW q \in Requests, NEW x, pc' = [pc EXCEPT ![q] = x], EndCall(q)
      PROVE  Answers'
  BY <1>4 DEF EndCall, Answers, None
<1>5. ASSUME NEW q \in Requests, Check(q) PROVE Answers'
  BY <1>5 DEF Check, Answers
<1>6. ASSUME NEW q \in Requests, Resend(q) PROVE Answers'
  BY <1>6 DEF Resend, Answers, None
<1>7. ASSUME NEW q \in Requests, Decide(q) PROVE Answers'
  <2>1. \E x : pc' = [pc EXCEPT ![q] = x]
    BY <1>7 DEF Decide
  <2> QED
    BY <1>4, <1>7, <2>1 DEF Decide
<1>8. ASSUME NEW q \in Requests, NEW j \in LocalQuotaRules,
             FailClose(q) \/ DegradeAllow(q) \/ DegradeReject(q, j)
      PROVE  Answers'
  BY <1>4, <1>8 DEF FailClose, DegradeAllow, DegradeReject
<1>9. ASSUME NEW q \in Requests, FailClose(q) \/ DegradeAllow(q) PROVE Answers'
  BY <1>4, <1>9 DEF FailClose, DegradeAllow
<1>10. ASSUME NEW q \in Requests, Finish(q) \/ ReleaseLost(q) \/ ReleaseExec(q) PROVE Answers'
  BY <1>10 DEF Finish, ReleaseLost, ReleaseExec, Answers
<1>11. ASSUME pc' = pc, reply' = reply PROVE Answers'
  BY <1>11 DEF Answers
<1>12. ASSUME NEW q \in Requests, NEW a \in 0 .. MaxRetries, LoseCommand(q, a) PROVE Answers'
  BY <1>11, <1>12 DEF LoseCommand
<1>13. ASSUME NEW q \in Requests, NEW d \in 1 .. MaxDelta, TokenReserve(q, d) PROVE Answers'
  BY <1>11, <1>13 DEF TokenReserve
<1>14. ASSUME NEW i \in Instances, Crash(i) PROVE Answers'
  BY <1>14 DEF Crash, Answers, None
<1>15. CASE Tick
  BY <1>11, <1>15 DEF Tick, gwVars
<1>16. CASE UNCHANGED vars
  BY <1>11, <1>16 DEF vars, gwVars
<1> HIDE DEF TypeOK
<1> QED
  BY <1>2, <1>3, <1>5, <1>6, <1>7, <1>8, <1>9, <1>10, <1>12, <1>13, <1>14, <1>15, <1>16,
     NextCases

\* A step by which nobody comes to hold a slot, and that leaves a request the one it
\* has as long as its deadline lies ahead.
Keeps(p) ==
  /\ Holding(p)' => Holding(p)
  /\ Holding(p)' => call'[p] = call[p] /\ passAt'[p] = passAt[p]
  /\ \A k \in ConcKeys :
       conc[k][ReqId[p]] > now' => conc'[k][ReqId[p]] = conc[k][ReqId[p]]

\* Such a step keeps the deadline of the slot.
LEMMA SlotKept ==
  ASSUME TypeOK, SlotTimes, NEW p \in Requests, Keeps(p), now' \in {now, now + 1},
         NEW i \in Of("conc"), Holding(p)', now' < passAt'[p] + Rules[i].ttl
  PROVE  conc'[CallKey(i, p)'][ReqId[p]] = passAt'[p] + Rules[i].ttl
<1>1. Holding(p) /\ call'[p] = call[p] /\ passAt'[p] = passAt[p]
  BY DEF Keeps
<1>2. CallKey(i, p)' = CallKey(i, p) /\ CallKey(i, p) \in ConcKeys /\ Rules[i].ttl \in Nat
  BY <1>1, ConcKeyFacts DEF CallKey
<1>3. now \in Int /\ passAt[p] \in Int
  BY DEF TypeOK, RedisTypeOK
<1>4. now' < passAt[p] + Rules[i].ttl /\ now < passAt[p] + Rules[i].ttl
  BY <1>1, <1>2, <1>3
<1>5. conc[CallKey(i, p)][ReqId[p]] = passAt[p] + Rules[i].ttl
  BY <1>1, <1>4 DEF SlotTimes
<1>6. conc[CallKey(i, p)][ReqId[p]] > now'
  BY <1>2, <1>3, <1>4, <1>5
<1> QED
  BY <1>1, <1>2, <1>5, <1>6 DEF Keeps

\* What sweeping up to now does to a slot: nothing, if its deadline lies ahead.
LEMMA SweepKeeps ==
  ASSUME NEW z \in ZSet, NEW cut, NEW m \in ReqIds, ~(z[m] <= cut)
  PROVE  Sweep(z, cut)[m] = z[m]
BY DEF Sweep

\* A pass writes its own slot and sweeps those past their deadline.
LEMMA PassKeeps ==
  ASSUME TypeOK, DistinctIds, NEW q \in Requests, NEW a \in 0 .. MaxRetries, ExecPass(q, a),
         NEW p \in Requests, p # q
  PROVE  Keeps(p) /\ now' = now
<1>1. /\ now' = now /\ call' = call /\ pc' = pc /\ reply'[p] = reply[p]
      /\ passAt'[p] = passAt[p] /\ CommitConc(q, call[q].ts)
  BY DEF ExecPass, Answer, BatchPass, TypeOK
<1>2. Holding(p)' <=> Holding(p)
  BY <1>1 DEF Holding
<1>3. ASSUME NEW k \in ConcKeys, conc[k][ReqId[p]] > now'
      PROVE  conc'[k][ReqId[p]] = conc[k][ReqId[p]]
  <2>1. conc[k] \in ZSet /\ now \in Int /\ ReqId[p] \in ReqIds /\ ReqId[q] \in ReqIds
        /\ ReqId[p] # ReqId[q]
    BY ReqIdAssumption DEF TypeOK, RedisTypeOK, ZSet, DistinctIds
  <2>2. ~(conc[k][ReqId[p]] <= now)
    <3>1. conc[k][ReqId[p]] \in Int
      BY <2>1 DEF ZSet, Absent
    <3> QED
      BY <1>1, <1>3, <2>1, <3>1
  <2>3. Sweep(conc[k], now)[ReqId[p]] = conc[k][ReqId[p]]
    BY <2>1, <2>2, SweepKeeps
  <2>4. Sweep(conc[k], now) \in ZSet
    BY <2>1, ZSetFacts
  <2>5. \A d : [Sweep(conc[k], now) EXCEPT ![ReqId[q]] = d][ReqId[p]] = conc[k][ReqId[p]]
    BY <2>1, <2>3, <2>4 DEF ZSet
  <2> QED
    BY <1>1, <2>5 DEF CommitConc
<1> QED
  BY <1>1, <1>2, <1>3 DEF Keeps

\* The pass itself gets the deadline of its rule.
LEMMA PassGetsSlot ==
  ASSUME TypeOK, OneTimeout, NEW q \in Requests, NEW a \in 0 .. MaxRetries, ExecPass(q, a),
         NEW i \in Of("conc")
  PROVE  conc'[CallKey(i, q)'][ReqId[q]] = passAt'[q] + Rules[i].ttl
<1> DEFINE t == call[q].ts
           k == Key(i, q, t)
<1>1. CallKey(i, q)' = k /\ passAt'[q] = now /\ CommitConc(q, t)
  BY DEF ExecPass, Answer, BatchPass, TypeOK, CallKey
<1>2. k \in ConcKeys /\ DOMAIN k.vals = Rules[i].dims /\ i \in Hits("conc", k, q, t)
  BY ConcKeyFacts DEF Hits
<1>3. LastHit("conc", k, q, t) \in Hits("conc", k, q, t)
  BY <1>2, HitsFacts
<1>4. PICK j \in Of("conc") : j = LastHit("conc", k, q, t) /\ Key(j, q, t) = k
  BY <1>3 DEF Hits
<1>5. Rules[j].dims = Rules[i].dims
  BY <1>2, <1>4, ConcKeyFacts
<1>6. Rules[j].ttl = Rules[i].ttl
  BY <1>4, <1>5 DEF OneTimeout
<1>7. conc'[k] = [Sweep(conc[k], now) EXCEPT ![ReqId[q]] = now + Rules[j].ttl]
  BY <1>1, <1>2, <1>4 DEF CommitConc
<1>8. Sweep(conc[k], now) \in ZSet /\ ReqId[q] \in ReqIds
  BY <1>2, ZSetFacts, ReqIdAssumption DEF TypeOK, RedisTypeOK, ZSet
<1>9. conc'[k][ReqId[q]] = now + Rules[j].ttl
  BY <1>7, <1>8 DEF ZSet
<1> QED
  BY <1>1, <1>6, <1>9

\* A rejection sweeps slots past their deadline, no others.
LEMMA RejectKeeps ==
  ASSUME TypeOK, NEW q \in Requests, NEW a \in 0 .. MaxRetries, NEW i \in RuleIds,
         ExecReject(q, a, i), NEW p \in Requests
  PROVE  Keeps(p) /\ now' = now
<1>1. /\ now' = now /\ call' = call /\ pc' = pc /\ passAt' = passAt
      /\ BatchReject(i, q, call[q].ts)
  BY DEF ExecReject, Answer, BatchReject
<1>2. reply'[p] = reply[p] \/ reply'[p].ok = FALSE
  BY DEF ExecReject, Answer, TypeOK
<1>3. Holding(p)' => Holding(p)
  BY <1>1, <1>2 DEF Holding, Passed
<1>4. ASSUME NEW k \in ConcKeys, conc[k][ReqId[p]] > now'
      PROVE  conc'[k][ReqId[p]] = conc[k][ReqId[p]]
  <2>1. conc[k] \in ZSet /\ now \in Int /\ ReqId[p] \in ReqIds
    BY ReqIdAssumption DEF TypeOK, RedisTypeOK, ZSet
  <2>2. ~(conc[k][ReqId[p]] <= now)
    <3>1. conc[k][ReqId[p]] \in Int
      BY <2>1 DEF ZSet, Absent
    <3> QED
      BY <1>1, <1>4, <2>1, <3>1
  <2>3. Sweep(conc[k], now)[ReqId[p]] = conc[k][ReqId[p]]
    BY <2>1, <2>2, SweepKeeps
  <2>4. conc'[k] = conc[k] \/ conc'[k] = Sweep(conc[k], now)
    BY <1>1 DEF BatchReject
  <2> QED
    BY <2>3, <2>4
<1> QED
  BY <1>1, <1>3, <1>4 DEF Keeps

\* A release takes the slot of its own request only.
LEMMA ReleaseKeeps ==
  ASSUME TypeOK, DistinctIds, NEW q \in Requests, ReleaseExec(q), NEW p \in Requests, p # q
  PROVE  Keeps(p) /\ now' = now
<1>1. /\ now' = now /\ call' = call /\ pc'[p] = pc[p] /\ passAt' = passAt /\ reply' = reply
      /\ ReleaseConc(q)
  BY DEF ReleaseExec, ReleaseConc, TypeOK
<1>2. ReqId[p] # ReqId[q] /\ ReqId[p] \in ReqIds
  BY ReqIdAssumption DEF DistinctIds
<1>3. ASSUME NEW k \in ConcKeys PROVE conc'[k][ReqId[p]] = conc[k][ReqId[p]]
  <2>1. conc[k] \in ZSet
    BY DEF TypeOK, RedisTypeOK, ZSet
  <2>2. conc'[k] = conc[k] \/ conc'[k] = [conc[k] EXCEPT ![ReqId[q]] = Absent]
    BY <1>1 DEF ReleaseConc
  <2> QED
    BY <1>2, <2>1, <2>2 DEF ZSet
<1> QED
  BY <1>1, <1>3 DEF Keeps, Holding

\* The steps that write no slot give none: who holds one afterwards held it before,
\* with the call it had made.
LEMMA OtherKeeps ==
  ASSUME TypeOK, Answers, [Next]_vars, NEW p \in Requests
  PROVE  \/ \E q \in Requests, a \in 0 .. MaxRetries : ExecPass(q, a)
         \/ \E q \in Requests, a \in 0 .. MaxRetries, i \in RuleIds : ExecReject(q, a, i)
         \/ \E q \in Requests : ReleaseExec(q)
         \/ /\ Keeps(p) /\ now' \in {now, now + 1}
            /\ conc' = conc
            /\ passAt' = passAt
<1>0. ASSUME conc' = conc, passAt' = passAt,
             Holding(p)' => Holding(p), Holding(p)' => call'[p] = call[p]
      PROVE  Keeps(p)
  BY <1>0 DEF Keeps
<1>1. ASSUME NEW q \in Requests, Check(q)
      PROVE  Keeps(p) /\ now' = now /\ conc' = conc /\ passAt' = passAt
  <2>1. conc' = conc /\ passAt' = passAt /\ now' = now /\ reply' = reply
    BY <1>1 DEF Check, redisVars
  <2>2. CASE p # q
    <3>1. pc'[p] = pc[p] /\ call'[p] = call[p]
      BY <1>1, <2>2 DEF Check, TypeOK
    <3> QED
      BY <1>0, <2>1, <3>1 DEF Holding
  <2>3. CASE p = q
    <3>1. pc'[p] \in {"wait", "over"} /\ reply[p] = None
      BY <1>1, <2>3 DEF Check, TypeOK, Answers
    <3>2. ~Holding(p)'
      BY <2>1, <3>1 DEF Holding, None, Passed
    <3> QED
      BY <1>0, <2>1, <3>2
  <2> QED
    BY <2>1, <2>2, <2>3
<1>2. ASSUME NEW q \in Requests,
             \/ Resend(q) \/ Decide(q) \/ FailClose(q) \/ DegradeAllow(q) \/ Finish(q)
             \/ ReleaseLost(q)
             \/ \E a \in 0 .. MaxRetries : LoseCommand(q, a)
             \/ \E j \in LocalQuotaRules : DegradeReject(q, j)
      PROVE  Keeps(p) /\ now' = now /\ conc' = conc /\ passAt' = passAt
  <2>1. conc' = conc /\ passAt' = passAt /\ now' = now /\ call' = call
    BY <1>2 DEF Resend, Decide, FailClose, DegradeAllow, DegradeReject, Finish, ReleaseLost,
                LoseCommand, redisVars
  <2>2. CASE p # q
    <3>1. pc'[p] = pc[p] /\ reply'[p] = reply[p]
      BY <1>2, <2>2 DEF Resend, Decide, FailClose, DegradeAllow, DegradeReject, Finish,
                        ReleaseLost, LoseCommand, EndCall, TypeOK
    <3> QED
      BY <1>0, <2>1, <3>1 DEF Holding
  <2>3. CASE p = q
    <3>1. Resend(q) => pc'[q] = "wait" /\ reply'[q] = None
      BY DEF Resend, TypeOK
    <3>2. Decide(q) => (pc'[q] = "serve" /\ pc[q] = "wait" /\ reply[q] = Passed) \/ pc'[q] = "over"
      BY DEF Decide, EndCall, TypeOK, Answers
    <3>3. FailClose(q) \/ ReleaseLost(q) \/ (\E j \in LocalQuotaRules : DegradeReject(q, j))
            => pc'[q] = "over"
      BY DEF FailClose, ReleaseLost, DegradeReject, TypeOK
    <3>4. DegradeAllow(q) => pc'[q] = "degraded"
      BY DEF DegradeAllow, TypeOK
    <3>5. (\E a \in 0 .. MaxRetries : LoseCommand(q, a)) => pc'[q] = pc[q] /\ reply'[q] = reply[q]
      BY DEF LoseCommand
    <3>6. Finish(q) => pc'[q] \in {"release", "over"} /\ (pc'[q] = "release" => pc[q] = "serve")
      BY DEF Finish, TypeOK
    <3>7. Holding(q)' => Holding(q)
      BY <1>2, <3>1, <3>2, <3>3, <3>4, <3>5, <3>6 DEF Holding, None, Passed
    <3> QED
      BY <1>0, <2>1, <2>3, <3>7
  <2> QED
    BY <2>1, <2>2, <2>3
<1>3. ASSUME NEW q \in Requests, NEW d \in 1 .. MaxDelta, TokenReserve(q, d)
      PROVE  Keeps(p) /\ now' = now /\ conc' = conc /\ passAt' = passAt
  BY <1>0, <1>3 DEF TokenReserve, LedgerReserve, Holding
<1>4. ASSUME NEW i \in Instances, Crash(i)
      PROVE  Keeps(p) /\ now' = now /\ conc' = conc /\ passAt' = passAt
  <2>1. conc' = conc /\ passAt' = passAt /\ now' = now /\ call' = call
    BY <1>4 DEF Crash, redisVars
  <2>2. pc'[p] = "over" \/ (pc'[p] = pc[p] /\ reply'[p] = reply[p])
    BY <1>4 DEF Crash
  <2> QED
    BY <1>0, <2>1, <2>2 DEF Holding
<1>5. ASSUME Tick \/ UNCHANGED vars
      PROVE  Keeps(p) /\ now' \in {now, now + 1} /\ conc' = conc /\ passAt' = passAt
  BY <1>0, <1>5 DEF Tick, RedisTick, vars, redisVars, gwVars, Holding
<1>6. CASE UNCHANGED vars
  BY <1>5, <1>6
<1> QED
  BY <1>1, <1>2, <1>3, <1>4, <1>5, <1>6, NextCases

SlotInv == TypeOK /\ Answers /\ SlotTimes

\* Every step keeps the deadlines of those who hold a slot.
LEMMA SlotInvStep ==
  ASSUME DistinctIds, OneTimeout
  PROVE  SlotInv /\ [Next]_vars => SlotInv'
<1> SUFFICES ASSUME SlotInv, [Next]_vars PROVE SlotInv'
  OBVIOUS
<1>0. TypeOK /\ Answers /\ SlotTimes
  BY DEF SlotInv
<1>1. TypeOK' /\ Answers'
  BY <1>0, NextType, AnswersStep
<1>2. ASSUME NEW p \in Requests, NEW i \in Of("conc"), Holding(p)',
             now' < passAt'[p] + Rules[i].ttl
      PROVE  conc'[CallKey(i, p)'][ReqId[p]] = passAt'[p] + Rules[i].ttl
  <2>1. ASSUME NEW q \in Requests, NEW a \in 0 .. MaxRetries, ExecPass(q, a)
        PROVE  conc'[CallKey(i, p)'][ReqId[p]] = passAt'[p] + Rules[i].ttl
    <3>1. CASE p = q
      BY <1>0, <2>1, <3>1, PassGetsSlot
    <3>2. CASE p # q
      <4>1. Keeps(p) /\ now' = now
        BY <1>0, <2>1, <3>2, PassKeeps
      <4> QED
        BY <1>0, <1>2, <4>1, SlotKept
    <3> QED
      BY <3>1, <3>2
  <2>2. ASSUME NEW q \in Requests, NEW a \in 0 .. MaxRetries, NEW j \in RuleIds,
               ExecReject(q, a, j)
        PROVE  conc'[CallKey(i, p)'][ReqId[p]] = passAt'[p] + Rules[i].ttl
    <3>1. Keeps(p) /\ now' = now
      BY <1>0, <2>2, RejectKeeps
    <3> QED
      BY <1>0, <1>2, <3>1, SlotKept
  <2>3. ASSUME NEW q \in Requests, ReleaseExec(q)
        PROVE  conc'[CallKey(i, p)'][ReqId[p]] = passAt'[p] + Rules[i].ttl
    <3>1. p # q
      <4>1. pc'[q] = "over"
        BY <1>0, <2>3 DEF ReleaseExec, TypeOK
      <4> QED
        BY <1>2, <4>1 DEF Holding
    <3>2. Keeps(p) /\ now' = now
      BY <1>0, <2>3, <3>1, ReleaseKeeps
    <3> QED
      BY <1>0, <1>2, <3>2, SlotKept
  <2>4. ASSUME Keeps(p), now' \in {now, now + 1}
        PROVE  conc'[CallKey(i, p)'][ReqId[p]] = passAt'[p] + Rules[i].ttl
    BY <1>0, <1>2, <2>4, SlotKept
  <2> QED
    BY <1>0, <2>1, <2>2, <2>3, <2>4, OtherKeeps
<1>3. SlotTimes'
  BY <1>2 DEF SlotTimes
<1> QED
  BY <1>1, <1>3 DEF SlotInv

\* Initially nobody holds a slot.
LEMMA SlotInvInit == Init => SlotInv
<1> SUFFICES ASSUME Init PROVE SlotInv
  OBVIOUS
<1>1. TypeOK
  BY InitType
<1>2. Answers /\ SlotTimes
  BY DEF Init, Answers, SlotTimes, Holding, None, Passed
<1> QED
  BY <1>1, <1>2 DEF SlotInv

\* Whoever holds a slot is found in the sorted set till its timeout.
LEMMA SlotInvOwn == SlotInv => OwnSlot
<1> SUFFICES ASSUME SlotInv, NEW q \in Requests, NEW i \in Of("conc"), Holding(q),
                    now < passAt[q] + Rules[i].ttl
             PROVE  conc[CallKey(i, q)][ReqId[q]] > now
  BY DEF OwnSlot
<1>1. conc[CallKey(i, q)][ReqId[q]] = passAt[q] + Rules[i].ttl
  BY DEF SlotInv, SlotTimes
<1>2. now \in Int /\ passAt[q] \in Int
  BY DEF SlotInv, TypeOK, RedisTypeOK
<1>3. Rules[i].ttl \in Int
  BY ConcKeyFacts
<1> QED
  BY <1>1, <1>2, <1>3

\* A request that holds a slot within its timeout has it in Redis, whatever sweeps,
\* releases and admissions of others come in between, provided that requests have
\* their own X-Request-Id and rules that share a sorted set one timeout.
THEOREM SlotsStay == DistinctIds /\ OneTimeout => (Spec => []OwnSlot)
<1> SUFFICES ASSUME DistinctIds, OneTimeout PROVE Spec => []OwnSlot
  OBVIOUS
<1>1. Init => SlotInv
  BY SlotInvInit
<1>2. SlotInv /\ [Next]_vars => SlotInv'
  BY SlotInvStep
<1>3. SlotInv => OwnSlot
  BY SlotInvOwn
<1> QED
  BY <1>1, <1>2, <1>3, PTL DEF Spec

\* The live members of a sorted set are finitely many.
LEMMA LiveFinite ==
  ASSUME NEW k
  PROVE  Live(k) \subseteq ReqIds /\ IsFiniteSet(Live(k)) /\ Cardinality(Live(k)) \in Nat
BY ReqIdAssumption, FS_Subset, FS_CardinalityType DEF Live

\* A pass takes one slot at most, and the script has counted those taken.
LEMMA PassCounted ==
  ASSUME TypeOK, SlotsCounted, NEW q \in Requests, NEW a \in 0 .. MaxRetries, ExecPass(q, a)
  PROVE  SlotsCounted'
<1> SUFFICES ASSUME NEW i \in Of("conc"), NEW k \in ConcKeys, DOMAIN k.vals = Rules[i].dims
             PROVE  Cardinality(Live(k)') <= Rules[i].limit
  BY DEF SlotsCounted
<1> DEFINE t == call[q].ts
           z == Sweep(conc[k], now)
<1>1. now' = now /\ CommitConc(q, t) /\ \A j \in RuleIds : ~Rejects(j, q, t)
  BY DEF ExecPass, Answer, BatchPass
<1>2. CASE Hits("conc", k, q, t) = {}
  <2>1. conc'[k] = conc[k]
    BY <1>1, <1>2 DEF CommitConc
  <2>2. Live(k)' = Live(k)
    BY <1>1, <2>1 DEF Live
  <2> QED
    BY <2>2 DEF SlotsCounted
<1>3. CASE Hits("conc", k, q, t) # {}
  <2>1. PICK j \in Of("conc") : Key(j, q, t) = k
    BY <1>3 DEF Hits
  <2>2. Rules[i].dims = Rules[j].dims
    BY <2>1, ConcKeyFacts
  <2>3. Key(i, q, t) = k /\ i \in RuleIds /\ Rules[i].alg = "conc" /\ Rules[i].limit \in Nat
    BY <2>1, <2>2, ConcKeyShared, ConcKeyFacts
  <2>4. ~Exceeded(Rules[i], k)
    BY <1>1, <2>3 DEF Rejects
  <2>5. ~(Card(z) + 1 > Rules[i].limit)
    BY <2>3, <2>4 DEF Exceeded
  <2>6. conc[k] \in ZSet /\ now \in Nat /\ ReqId[q] \in ReqIds
    BY ReqIdAssumption DEF TypeOK, RedisTypeOK, ZSet
  <2>7. z \in ZSet
    BY <2>6, ZSetFacts
  <2>8. conc'[k] = [z EXCEPT ![ReqId[q]] = now + Rules[LastHit("conc", k, q, t)].ttl]
    BY <1>1, <1>3 DEF CommitConc
  <2>9. Live(k)' \subseteq Members(z) \cup {ReqId[q]}
    <3> SUFFICES ASSUME NEW m \in ReqIds, conc'[k][m] > now, m # ReqId[q]
                 PROVE  z[m] # Absent
      BY <1>1 DEF Live, Members
    <3>1. z[m] > now
      BY <2>7, <2>8 DEF ZSet
    <3> QED
      BY <2>6, <3>1 DEF Absent
  <2>10. IsFiniteSet(Members(z)) /\ Cardinality(Members(z)) \in Nat
    BY ReqIdAssumption, FS_Subset, FS_CardinalityType DEF Members
  <2> HIDE DEF z
  <2>11. /\ IsFiniteSet(Members(z) \cup {ReqId[q]})
         /\ Cardinality(Members(z) \cup {ReqId[q]})
              = IF ReqId[q] \in Members(z) THEN Cardinality(Members(z))
                                           ELSE Cardinality(Members(z)) + 1
    BY <2>10, FS_AddElement
  <2>12. Cardinality(Members(z) \cup {ReqId[q]}) <= Cardinality(Members(z)) + 1
         /\ Cardinality(Members(z) \cup {ReqId[q]}) \in Nat
    BY <2>10, <2>11
  <2>13. /\ Cardinality(Live(k)') <= Cardinality(Members(z) \cup {ReqId[q]})
         /\ Cardinality(Live(k)') \in Nat
    BY <2>9, <2>11, FS_Subset, FS_CardinalityType
  <2>14. Cardinality(Members(z)) + 1 <= Rules[i].limit
    BY <2>3, <2>5, <2>10 DEF Card
  <2> QED
    BY <2>3, <2>10, <2>12, <2>13, <2>14
<1> QED
  BY <1>2, <1>3

\* No other step brings a member to life.
LEMMA OtherCounted ==
  ASSUME TypeOK, SlotsCounted, Answers, [Next]_vars,
         ~\E q \in Requests, a \in 0 .. MaxRetries : ExecPass(q, a)
  PROVE  SlotsCounted'
<1>1. ASSUME NEW q \in Requests, NEW a \in 0 .. MaxRetries, NEW j \in RuleIds,
             ExecReject(q, a, j), NEW k \in ConcKeys
      PROVE  Live(k)' \subseteq Live(k)
  <2>1. now' = now /\ (conc'[k] = conc[k] \/ conc'[k] = Sweep(conc[k], now))
    BY <1>1 DEF ExecReject, BatchReject
  <2>2. \A m \in ReqIds : ~(Absent > now)
    BY DEF Absent, TypeOK, RedisTypeOK
  <2>3. \A m \in ReqIds : Sweep(conc[k], now)[m] \in {conc[k][m], Absent}
    BY DEF Sweep
  <2> QED
    BY <2>1, <2>2, <2>3 DEF Live
<1>2. ASSUME NEW q \in Requests, ReleaseExec(q), NEW k \in ConcKeys
      PROVE  Live(k)' \subseteq Live(k)
  <2>1. now' = now
        /\ (conc'[k] = conc[k] \/ conc'[k] = [conc[k] EXCEPT ![ReqId[q]] = Absent])
    BY <1>2 DEF ReleaseExec, ReleaseConc
  <2>2. ~(Absent > now)
    BY DEF Absent, TypeOK, RedisTypeOK
  <2>3. conc[k] \in ZSet
    BY DEF TypeOK, RedisTypeOK, ZSet
  <2> QED
    BY <2>1, <2>2, <2>3 DEF Live, ZSet
<1>3. ASSUME conc' = conc, now' \in {now, now + 1}, NEW k \in ConcKeys
      PROVE  Live(k)' \subseteq Live(k)
  <2>1. now \in Int /\ \A m \in ReqIds : conc[k][m] \in Int
    BY DEF TypeOK, RedisTypeOK, Absent
  <2> QED
    BY <1>3, <2>1 DEF Live
<1>4. ASSUME NEW k \in ConcKeys PROVE Live(k)' \subseteq Live(k)
  <2>1. PICK p : p \in Requests \/ Requests = {}
    OBVIOUS
  <2>2. CASE Requests = {}
    <3>1. KeysOf("conc") = {}
      BY <2>2 DEF KeysOf
    <3> QED
      BY <1>4, <3>1 DEF ConcKeys
  <2>3. CASE p \in Requests
    BY <1>1, <1>2, <1>3, <2>3, OtherKeeps
  <2> QED
    BY <2>1, <2>2, <2>3
<1> SUFFICES ASSUME NEW i \in Of("conc"), NEW k \in ConcKeys, DOMAIN k.vals = Rules[i].dims
             PROVE  Cardinality(Live(k)') <= Rules[i].limit
  BY DEF SlotsCounted
<1>5. Cardinality(Live(k)) <= Rules[i].limit /\ Rules[i].limit \in Nat
  BY ConcKeyFacts, RuleFacts DEF SlotsCounted, Of, Rule
<1>6. Cardinality(Live(k)') <= Cardinality(Live(k)) /\ Cardinality(Live(k)') \in Nat
  BY <1>4, LiveFinite, FS_Subset, FS_CardinalityType
<1> QED
  BY <1>5, <1>6, LiveFinite

\* The holders of slots of a key within their timeout are live members of its sorted
\* set, each under its own identifier.
LEMMA HoldersAreLive ==
  ASSUME DistinctIds, SlotInv, SlotsCounted
  PROVE  ConcBound
<1> SUFFICES ASSUME NEW i \in Of("conc"), NEW k \in ConcKeys
             PROVE  Cardinality({q \in Requests : /\ Holding(q) /\ CallKey(i, q) = k
                                                  /\ now < passAt[q] + Rules[i].ttl})
                      <= Rules[i].limit
  BY DEF ConcBound
<1> DEFINE H == {q \in Requests : /\ Holding(q) /\ CallKey(i, q) = k
                                  /\ now < passAt[q] + Rules[i].ttl}
           f == [q \in H |-> ReqId[q]]
<1>1. Rules[i].limit \in Nat
  BY RuleFacts DEF Of, Rule
<1>2. CASE H = {}
  BY <1>1, <1>2, FS_EmptySet
<1>3. CASE H # {}
  <2>1. PICK q \in H : TRUE
    BY <1>3
  <2>2. DOMAIN k.vals = Rules[i].dims
    BY <2>1, ConcKeyFacts DEF CallKey
  <2>3. Cardinality(Live(k)) <= Rules[i].limit
    BY <2>2 DEF SlotsCounted
  <2>4. \A p \in H : ReqId[p] \in Live(k)
    BY SlotInvOwn, ReqIdAssumption DEF OwnSlot, Live
  <2>5. \A x, y \in H : f[x] = f[y] => x = y
    BY DEF DistinctIds
  <2>5a. f \in [H -> Live(k)]
    BY <2>4
  <2>6. IsFiniteSet(H) /\ Cardinality(H) \in Nat
    BY RequestsAssumption, FS_Subset, FS_CardinalityType
  <2> HIDE DEF H, f
  <2>7. Cardinality(H) <= Cardinality(Live(k))
    BY <2>5, <2>5a, LiveFinite, InjectionBound
  <2>8. Cardinality(H) <= Rules[i].limit
    BY <1>1, <2>3, <2>6, <2>7, LiveFinite
  <2> QED
    BY <2>8 DEF H
<1> QED
  BY <1>2, <1>3

\* Concurrency limits hold across instances, crashes, lost releases and resends: no
\* more than max_concurrent requests within their timeout hold a slot of one key.
THEOREM ConcurrencyHolds == DistinctIds /\ OneTimeout => (Spec => []ConcBound)
<1> SUFFICES ASSUME DistinctIds, OneTimeout PROVE Spec => []ConcBound
  OBVIOUS
<1> DEFINE Inv == SlotInv /\ SlotsCounted
<1>1. Init => Inv
  <2> SUFFICES ASSUME Init PROVE SlotsCounted
    BY SlotInvInit
  <2>1. \A k \in ConcKeys : Live(k) = {}
    BY DEF Init, RedisInit, EmptyZSet, Absent, Live
  <2>2. \A i \in Of("conc") : Rules[i].limit \in Nat
    BY RuleFacts DEF Of, Rule
  <2> QED
    BY <2>1, <2>2, FS_EmptySet DEF SlotsCounted
<1>2. Inv /\ [Next]_vars => Inv'
  <2> SUFFICES ASSUME SlotInv, SlotsCounted, [Next]_vars PROVE SlotsCounted'
    BY SlotInvStep
  <2> QED
    BY PassCounted, OtherCounted DEF SlotInv
<1>3. Inv => ConcBound
  BY HoldersAreLive
<1> HIDE DEF Inv
<1> QED
  BY <1>1, <1>2, <1>3, PTL DEF Spec
-----------------------------------------------------------------------------
(***************************************************************************)
(* The exactness of fixed windows.                                         *)
(***************************************************************************)
\* Steps other than admissions and time write no counter of a fixed window, admit
\* nobody and leave the admitted the call they made.
LEMMA FixedQuiet ==
  ASSUME TypeOK, CallTimes, [Next]_vars
  PROVE  \/ \E q \in Requests, a \in 0 .. MaxRetries : ExecPass(q, a)
         \/ Tick
         \/ /\ now' = now /\ passes' = passes /\ passAt' = passAt
            /\ \A k \in FixedKeys : counters'[k] = counters[k]
            /\ \A q \in Requests : passes[q] > 0 => call'[q] = call[q]
<1> DEFINE Quiet == /\ now' = now /\ passes' = passes /\ passAt' = passAt
                    /\ \A k \in FixedKeys : counters'[k] = counters[k]
                    /\ \A q \in Requests : passes[q] > 0 => call'[q] = call[q]
<1>0. ASSUME now' = now, passes' = passes, passAt' = passAt, counters' = counters, call' = call
      PROVE  Quiet
  BY <1>0
<1>1. ASSUME NEW q \in Requests, Check(q) PROVE Quiet
  <2>1. now' = now /\ counters' = counters /\ passes' = passes /\ passAt' = passAt
        /\ passes[q] = 0
    BY <1>1 DEF Check, redisVars, CallTimes
  <2>2. \A x \in Requests : x # q => call'[x] = call[x]
    BY <1>1 DEF Check, TypeOK
  <2> QED
    BY <2>1, <2>2
<1>2. ASSUME NEW q \in Requests, NEW a \in 0 .. MaxRetries, NEW i \in RuleIds,
             ExecReject(q, a, i)
      PROVE  Quiet
  BY <1>0, <1>2 DEF ExecReject, Answer, BatchReject
<1>3. ASSUME NEW q \in Requests,
             \/ Resend(q) \/ Decide(q) \/ FailClose(q) \/ DegradeAllow(q) \/ Finish(q)
             \/ ReleaseLost(q)
             \/ \E a \in 0 .. MaxRetries : LoseCommand(q, a)
             \/ \E j \in LocalQuotaRules : DegradeReject(q, j)
      PROVE  Quiet
  BY <1>0, <1>3 DEF Resend, Decide, FailClose, DegradeAllow, DegradeReject, Finish,
                    ReleaseLost, LoseCommand, redisVars
<1>3a. ASSUME NEW q \in Requests, ReleaseExec(q) PROVE Quiet
  BY <1>0, <1>3a DEF ReleaseExec, ReleaseConc
<1>4. ASSUME NEW q \in Requests, NEW d \in 1 .. MaxDelta, TokenReserve(q, d) PROVE Quiet
  <2> DEFINE t == Clock(call[q].inst)
  <2>1. LedgerReserve(q, t, d) /\ now' = now /\ call' = call /\ passes' = passes
        /\ passAt' = passAt
    BY <1>4 DEF TokenReserve, LedgerReserve
  <2>2. ASSUME NEW k \in FixedKeys PROVE counters'[k] = counters[k]
    <3>1. k.kind = "rl"
      BY KeyFacts DEF FixedKeys, KeysOf
    <3>2. Hits("token", k, q, t) = {}
      BY <3>1, KeyFacts DEF Hits
    <3>3. k \in CounterKeys
      BY DEF CounterKeys
    <3> QED
      BY <2>1, <3>2, <3>3 DEF LedgerReserve
  <2> QED
    BY <2>1, <2>2
<1>5. ASSUME NEW i \in Instances, Crash(i) PROVE Quiet
  BY <1>0, <1>5 DEF Crash, redisVars
<1>6. ASSUME UNCHANGED vars PROVE Quiet
  BY <1>0, <1>6 DEF vars, redisVars, gwVars
<1> HIDE DEF Quiet
<1>7. \/ \E q \in Requests, a \in 0 .. MaxRetries : ExecPass(q, a)
      \/ Tick \/ Quiet
  BY <1>1, <1>2, <1>3, <1>3a, <1>4, <1>5, <1>6, NextCases
<1> QED
  BY <1>7 DEF Quiet

\* The executions of a call, those done and those on their way, are no more than the
\* attempts the Redis client makes.
Attempts ==
  \A q \in Requests :
    /\ passes[q] + Cardinality(flight[q]) <= MaxRetries + 1
    /\ pc[q] = "wait" => passes[q] + Cardinality(flight[q]) <= tries[q] + 1

\* Attempts on their way are finitely many.
LEMMA FlightFinite ==
  ASSUME TypeOK, NEW q \in Requests
  PROVE  IsFiniteSet(flight[q]) /\ Cardinality(flight[q]) \in Nat /\ passes[q] \in Nat
         /\ tries[q] \in Nat /\ tries[q] <= MaxRetries /\ MaxRetries \in Nat
<1>1. MaxRetries \in Nat
  BY BoundsAssumption
<1>2. flight[q] \subseteq 0 .. MaxRetries /\ passes[q] \in Nat /\ tries[q] \in 0 .. MaxRetries
  BY DEF TypeOK
<1>3. IsFiniteSet(0 .. MaxRetries)
  BY <1>1, FS_Interval
<1> QED
  BY <1>1, <1>2, <1>3, FS_Subset, FS_CardinalityType

\* An attempt that leaves the flight makes room for its pass.
LEMMA FlightLess ==
  ASSUME TypeOK, NEW q \in Requests, NEW a \in flight[q]
  PROVE  Cardinality(flight[q] \ {a}) = Cardinality(flight[q]) - 1
BY FlightFinite, FS_RemoveElement

\* Every step keeps it.
LEMMA AttemptsStep == TypeOK /\ CallTimes /\ Attempts /\ [Next]_vars => Attempts'
<1> SUFFICES ASSUME TypeOK, CallTimes, Attempts, [Next]_vars, NEW p \in Requests
             PROVE  /\ passes'[p] + Cardinality(flight'[p]) <= MaxRetries + 1
                    /\ pc'[p] = "wait" => passes'[p] + Cardinality(flight'[p]) <= tries'[p] + 1
  BY DEF Attempts
<1> DEFINE Goal == /\ passes'[p] + Cardinality(flight'[p]) <= MaxRetries + 1
                   /\ pc'[p] = "wait" => passes'[p] + Cardinality(flight'[p]) <= tries'[p] + 1
<1>a. /\ passes[p] + Cardinality(flight[p]) <= MaxRetries + 1
      /\ pc[p] = "wait" => passes[p] + Cardinality(flight[p]) <= tries[p] + 1
  BY DEF Attempts
<1>0. ASSUME passes'[p] = passes[p], flight'[p] = flight[p],
             pc'[p] = "wait" => pc[p] = "wait" /\ tries'[p] = tries[p]
      PROVE  Goal
  BY <1>a, <1>0
<1>1. ASSUME NEW q \in Requests, Check(q) PROVE Goal
  <2>1. CASE p # q
    BY <1>0, <1>1, <2>1 DEF Check, TypeOK
  <2>2. CASE p = q
    <3>1. /\ passes'[p] = 0 /\ tries'[p] = tries[p]
          /\ \/ flight'[p] = {0}
             \/ flight'[p] = {} /\ pc'[p] = "over"
      BY <1>1, <2>2 DEF Check, TypeOK, CallTimes
    <3>2. Cardinality({0}) = 1 /\ Cardinality({}) = 0
      BY FS_Singleton, FS_EmptySet
    <3>3. Cardinality(flight'[p]) \in {0, 1} /\ (pc'[p] = "wait" => Cardinality(flight'[p]) = 1)
      BY <3>1, <3>2
    <3> HIDE DEF Goal
    <3>4. passes'[p] + Cardinality(flight'[p]) <= MaxRetries + 1
      BY <3>1, <3>3, FlightFinite
    <3>5. passes'[p] + Cardinality(flight'[p]) <= tries'[p] + 1
      BY <3>1, <3>3, FlightFinite
    <3> QED
      BY <3>4, <3>5 DEF Goal
  <2> QED
    BY <2>1, <2>2
<1>2. ASSUME NEW q \in Requests, NEW a \in flight[q], pc' = pc, tries' = tries,
             flight' = [flight EXCEPT ![q] = @ \ {a}],
             \/ passes' = passes
             \/ passes' = [passes EXCEPT ![q] = @ + 1]
      PROVE  Goal
  <2>1. CASE p # q
    <3>1. passes'[p] = passes[p] /\ flight'[p] = flight[p]
      BY <1>2, <2>1 DEF TypeOK
    <3> QED
      BY <1>0, <1>2, <3>1
  <2>2. CASE p = q
    <3>1. flight'[p] = flight[p] \ {a} /\ a \in flight[p]
          /\ (passes'[p] = passes[p] \/ passes'[p] = passes[p] + 1)
      BY <1>2, <2>2 DEF TypeOK
    <3>2. Cardinality(flight'[p]) = Cardinality(flight[p]) - 1
      BY <3>1, FlightLess
    <3>3. pc'[p] = pc[p] /\ tries'[p] = tries[p]
      BY <1>2
    <3> QED
      BY <1>a, <3>1, <3>2, <3>3, FlightFinite
  <2> QED
    BY <2>1, <2>2
<1>3. ASSUME NEW q \in Requests, NEW a \in 0 .. MaxRetries,
             \/ ExecPass(q, a) \/ LoseCommand(q, a)
             \/ \E i \in RuleIds : ExecReject(q, a, i)
      PROVE  Goal
  <2>1. a \in flight[q] /\ pc' = pc /\ tries' = tries
        /\ flight' = [flight EXCEPT ![q] = @ \ {a}]
        /\ (passes' = passes \/ passes' = [passes EXCEPT ![q] = @ + 1])
    BY <1>3 DEF ExecPass, LoseCommand, ExecReject, Answer
  <2> QED
    BY <1>2, <2>1
<1>4. ASSUME NEW q \in Requests, Resend(q) PROVE Goal
  <2>1. CASE p # q
    BY <1>0, <1>4, <2>1 DEF Resend, TypeOK
  <2>2. CASE p = q
    <3>1. /\ passes'[p] = passes[p] /\ tries'[p] = tries[p] + 1 /\ tries[p] < MaxRetries
          /\ pc[p] = "wait"
          /\ flight'[p] = flight[p] \cup {tries[p] + 1}
      BY <1>4, <2>2 DEF Resend, TypeOK
    <3>2. Cardinality(flight'[p]) \in {Cardinality(flight[p]), Cardinality(flight[p]) + 1}
      <4>1. IsFiniteSet(flight[p])
        BY FlightFinite
      <4>2. Cardinality(flight[p] \cup {tries[p] + 1})
              = IF tries[p] + 1 \in flight[p] THEN Cardinality(flight[p])
                                             ELSE Cardinality(flight[p]) + 1
        BY <4>1, FS_AddElement
      <4> QED
        BY <3>1, <4>2
    <3> QED
      BY <1>a, <3>1, <3>2, FlightFinite
  <2> QED
    BY <2>1, <2>2
<1>5. ASSUME NEW q \in Requests,
             \/ Decide(q) \/ FailClose(q) \/ DegradeAllow(q) \/ Finish(q)
             \/ ReleaseLost(q) \/ ReleaseExec(q)
             \/ \E j \in LocalQuotaRules : DegradeReject(q, j)
      PROVE  Goal
  <2>1. passes' = passes /\ flight' = flight
    BY <1>5 DEF Decide, FailClose, DegradeAllow, DegradeReject, Finish, ReleaseLost, ReleaseExec
  <2>2. p # q => pc'[p] = pc[p] /\ tries'[p] = tries[p]
    BY <1>5 DEF Decide, FailClose, DegradeAllow, DegradeReject, Finish, ReleaseLost,
                ReleaseExec, EndCall, TypeOK
  <2>3. pc'[q] # "wait"
    BY <1>5 DEF Decide, FailClose, DegradeAllow, DegradeReject, Finish, ReleaseLost,
                ReleaseExec, TypeOK
  <2> QED
    BY <1>0, <2>1, <2>2, <2>3
<1>6. ASSUME NEW q \in Requests, NEW d \in 1 .. MaxDelta, TokenReserve(q, d) PROVE Goal
  BY <1>0, <1>6 DEF TokenReserve
<1>7. ASSUME NEW i \in Instances, Crash(i) PROVE Goal
  BY <1>0, <1>7 DEF Crash
<1>8. ASSUME Tick PROVE Goal
  BY <1>0, <1>8 DEF Tick, gwVars
<1>9. ASSUME UNCHANGED vars PROVE Goal
  BY <1>0, <1>9 DEF vars, gwVars
<1> HIDE DEF Goal
<1>10. ASSUME Next PROVE Goal
  BY <1>1, <1>3, <1>4, <1>5, <1>6, <1>7, <1>8, <1>10 DEF Next
<1> QED
  BY <1>9, <1>10 DEF Goal

\* The charges of a key: a rule of an execution that passed.
Charges(k) == {e \in Requests \X (1 .. (MaxRetries + 1)) \X Of("fixed") :
                 e[2] <= passes[e[1]] /\ CallKey(e[3], e[1]) = k}

\* A counter is the number of its charges, or has expired with its window over.
Exact == \A k \in FixedKeys :
           \/ counters[k].n = Cardinality(Charges(k))
           \/ Dead(k) /\ counters[k].n = 0

\* Charges are finitely many.
LEMMA ChargesFinite ==
  ASSUME NEW k
  PROVE  IsFiniteSet(Charges(k)) /\ Cardinality(Charges(k)) \in Nat
<1> DEFINE A == 1 .. (MaxRetries + 1)
           T == Requests \X A \X Of("fixed")
           N == (Requests \X A) \X Of("fixed")
           f == [e \in T |-> <<<<e[1], e[2]>>, e[3]>>]
<1>1. IsFiniteSet(A)
  BY BoundsAssumption, FS_Interval
<1>2. IsFiniteSet(Of("fixed"))
  BY RuleFacts, FS_Subset DEF Of
<1>3. IsFiniteSet(N)
  <2> HIDE DEF A
  <2>1. IsFiniteSet(Requests \X A)
    BY <1>1, RequestsAssumption, FS_Product
  <2> QED
    BY <1>2, <2>1, FS_Product
<1>4. f \in [T -> N]
  OBVIOUS
<1>5. \A x, y \in T : f[x] = f[y] => x = y
  OBVIOUS
<1> HIDE DEF f, N
<1>6. IsFiniteSet(T)
  BY <1>3, <1>4, <1>5, InjectionBound
<1>7. Charges(k) \subseteq T
  BY DEF Charges
<1> HIDE DEF T
<1> QED
  BY <1>6, <1>7, FS_Subset, FS_CardinalityType

\* The charges stay when nobody passes and those who have passed keep their call.
LEMMA ChargesSame ==
  ASSUME TypeOK, passes' = passes,
         \A q \in Requests : passes[q] > 0 => call'[q] = call[q], NEW k
  PROVE  Charges(k)' = Charges(k)
<1>1. ASSUME NEW e \in Requests \X (1 .. (MaxRetries + 1)) \X Of("fixed"),
             e[2] <= passes[e[1]]
      PROVE  CallKey(e[3], e[1])' = CallKey(e[3], e[1])
  <2>1. e[1] \in Requests /\ e[2] \in 1 .. (MaxRetries + 1) /\ passes[e[1]] \in Nat
    BY DEF TypeOK
  <2>2. passes[e[1]] > 0
    BY <1>1, <2>1, BoundsAssumption
  <2>3. call'[e[1]] = call[e[1]]
    BY <2>1, <2>2
  <2> QED
    BY <2>3 DEF CallKey
<1> QED
  BY <1>1 DEF Charges

\* A pass adds a charge for each of its rules with the key.
LEMMA ChargesPass ==
  ASSUME TypeOK, Attempts, NEW q \in Requests, NEW a \in 0 .. MaxRetries, ExecPass(q, a), NEW k
  PROVE  Cardinality(Charges(k)')
           = Cardinality(Charges(k)) + Cardinality(Hits("fixed", k, q, call[q].ts))
<1> DEFINE H == Hits("fixed", k, q, call[q].ts)
           n == passes[q] + 1
           New == {<<q, n, j>> : j \in H}
           f == [j \in H |-> <<q, n, j>>]
           g == [e \in New |-> e[3]]
<1>1. /\ a \in flight[q] /\ call' = call
      /\ passes' = [passes EXCEPT ![q] = @ + 1]
  BY DEF ExecPass, Answer
<1>2. n \in 1 .. (MaxRetries + 1) /\ passes[q] \in Nat
  <2>1. Cardinality(flight[q]) >= 1
    <3>1. Cardinality(flight[q]) # 0
      BY <1>1, FlightFinite, FS_EmptySet
    <3> QED
      BY <3>1, FlightFinite
  <2>2. passes[q] + Cardinality(flight[q]) <= MaxRetries + 1
    BY DEF Attempts
  <2> QED
    BY <2>1, <2>2, FlightFinite
<1>3. H \subseteq Of("fixed") /\ \A j \in Of("fixed") : j \in H <=> CallKey(j, q) = k
  BY DEF Hits, CallKey
<1>4. passes'[q] = n /\ \A x \in Requests : x # q => passes'[x] = passes[x]
  BY <1>1 DEF TypeOK
<1>5. \A j, x : CallKey(j, x)' = CallKey(j, x)
  BY <1>1 DEF CallKey
<1> HIDE DEF H, n
<1>6. Charges(k)' = Charges(k) \cup New
  <2>1. ASSUME NEW e \in Requests \X (1 .. (MaxRetries + 1)) \X Of("fixed")
        PROVE  e \in Charges(k)' <=> e \in Charges(k) \cup New
    <3>1. e[1] \in Requests /\ e[2] \in Int /\ e[3] \in Of("fixed") /\ e = <<e[1], e[2], e[3]>>
      BY BoundsAssumption
    <3>2. e \in Charges(k)' <=> e[2] <= passes'[e[1]] /\ CallKey(e[3], e[1]) = k
      BY <1>5 DEF Charges
    <3>3. e \in Charges(k) <=> e[2] <= passes[e[1]] /\ CallKey(e[3], e[1]) = k
      BY DEF Charges
    <3>4. e \in New <=> e[1] = q /\ e[2] = n /\ e[3] \in H
      BY <3>1
    <3>5. e[1] = q => (e[2] <= passes'[e[1]] <=> e[2] <= passes[e[1]] \/ e[2] = n)
      BY <1>2, <1>4, <3>1 DEF n
    <3> HIDE DEF New
    <3>6. CASE e[1] = q
      BY <1>3, <3>1, <3>2, <3>3, <3>4, <3>5, <3>6
    <3>7. CASE e[1] # q
      BY <1>4, <3>1, <3>2, <3>3, <3>4, <3>7
    <3> QED
      BY <3>6, <3>7
  <2>2. New \subseteq Requests \X (1 .. (MaxRetries + 1)) \X Of("fixed")
    BY <1>2, <1>3
  <2>3. Charges(k)' \subseteq Requests \X (1 .. (MaxRetries + 1)) \X Of("fixed")
        /\ Charges(k) \subseteq Requests \X (1 .. (MaxRetries + 1)) \X Of("fixed")
    BY DEF Charges
  <2> HIDE DEF New
  <2> QED
    BY <2>1, <2>2, <2>3
<1>7. Charges(k) \cap New = {}
  <2>1. ASSUME NEW e \in New, e \in Charges(k) PROVE FALSE
    <3>1. e[1] = q /\ e[2] = n
      OBVIOUS
    <3>2. n <= passes[q]
      BY <2>1, <3>1 DEF Charges
    <3> QED
      BY <1>2, <3>2 DEF n
  <2> QED
    BY <2>1
<1>8. IsFiniteSet(H) /\ Cardinality(H) \in Nat
  BY HitsFacts DEF H
<1>9. IsFiniteSet(New) /\ Cardinality(New) <= Cardinality(H)
  <2>1. g \in [New -> H]
    OBVIOUS
  <2>2. \A x, y \in New : g[x] = g[y] => x = y
    OBVIOUS
  <2> HIDE DEF g, New
  <2> QED
    BY <1>8, <2>1, <2>2, InjectionBound
<1>10. Cardinality(H) <= Cardinality(New)
  <2>1. f \in [H -> New]
    OBVIOUS
  <2>2. \A x, y \in H : f[x] = f[y] => x = y
    OBVIOUS
  <2> HIDE DEF f, New
  <2> QED
    BY <1>9, <2>1, <2>2, InjectionBound
<1> HIDE DEF New
<1>11. Cardinality(New) = Cardinality(H)
  <2>1. Cardinality(New) \in Nat
    BY <1>9, FS_CardinalityType
  <2> QED
    BY <1>8, <1>9, <1>10, <2>1
<1>12. Cardinality(Charges(k) \cup New) = Cardinality(Charges(k)) + Cardinality(New)
  <2>1. Cardinality(Charges(k) \cup New)
          = Cardinality(Charges(k)) + Cardinality(New) - Cardinality(Charges(k) \cap New)
    BY <1>9, ChargesFinite, FS_Union
  <2>2. Cardinality(Charges(k) \cap New) = 0
    BY <1>7, FS_EmptySet
  <2> QED
    BY <1>8, <1>11, <2>1, <2>2, ChargesFinite
<1> QED
  BY <1>6, <1>11, <1>12 DEF H

ExactInv == QuotaInv /\ Attempts /\ Exact

\* A pass is charged once for each of its rules.
LEMMA ExactPass ==
  ASSUME ExactInv, NEW q \in Requests, NEW a \in 0 .. MaxRetries, ExecPass(q, a)
  PROVE  Exact'
<1> DEFINE t == call[q].ts
<1>1. now' = now /\ flight[q] # {} /\ CommitFixed(q, t)
  BY DEF ExecPass, Answer, BatchPass
<1> SUFFICES ASSUME NEW k \in FixedKeys
             PROVE  \/ counters'[k].n = Cardinality(Charges(k)')
                    \/ Dead(k)' /\ counters'[k].n = 0
  BY DEF Exact
<1>2. Cardinality(Charges(k)') = Cardinality(Charges(k)) + Cardinality(Hits("fixed", k, q, t))
  BY ChargesPass DEF ExactInv, QuotaInv
<1>3. Dead(k)' <=> Dead(k)
  BY <1>1 DEF Dead
<1>4. k \in CounterKeys
  BY DEF CounterKeys
<1>5. CASE Hits("fixed", k, q, t) = {}
  <2>1. counters'[k] = counters[k]
    BY <1>1, <1>4, <1>5 DEF CommitFixed
  <2>2. Cardinality(Charges(k)') = Cardinality(Charges(k))
    BY <1>2, <1>5, FS_EmptySet, ChargesFinite
  <2> QED
    BY <1>3, <2>1, <2>2 DEF ExactInv, Exact
<1>6. CASE Hits("fixed", k, q, t) # {}
  <2>1. PICK j \in Of("fixed") : k = CallKey(j, q)
    BY <1>6 DEF Hits, CallKey
  <2>2. ~Dead(k)
    BY <1>1, <2>1, CallInTime DEF ExactInv, QuotaInv
  <2>3. counters[k].n = Cardinality(Charges(k))
    BY <2>2 DEF ExactInv, Exact
  <2>4. counters'[k].n = counters[k].n + Cardinality(Hits("fixed", k, q, t))
    BY <1>1, <1>4, <1>6 DEF CommitFixed
  <2> QED
    BY <1>2, <2>3, <2>4
<1> QED
  BY <1>5, <1>6

\* A counter that expires belongs to a window that is over.
LEMMA ExactTick ==
  ASSUME ExactInv, Tick
  PROVE  Exact'
<1>1. now' = now + 1 /\ passes' = passes /\ call' = call
  BY DEF Tick, RedisTick, gwVars
<1>2. \A k : Charges(k)' = Charges(k)
  BY <1>1, ChargesSame DEF ExactInv, QuotaInv
<1> SUFFICES ASSUME NEW k \in FixedKeys
             PROVE  \/ counters'[k].n = Cardinality(Charges(k))
                    \/ Dead(k)' /\ counters'[k].n = 0
  BY <1>2 DEF Exact
<1>3. k \in CounterKeys
  BY DEF CounterKeys
<1>4. PICK i \in Of("fixed"), q \in Requests, t \in 0 .. (MaxTime + MaxSkew) : k = Key(i, q, t)
  BY DEF FixedKeys, KeysOf
<1>5. Rules[i].win \in Nat \ {0} /\ Rules[i].natural \in BOOLEAN /\ t \in Nat
  BY RuleFacts, TimeAssumption DEF Of, Rule
<1>6. k.b \in Int /\ k.win \in Int
  BY <1>4, <1>5, KeyFacts, WindowHolds
<1>7. now \in Int /\ MaxDelay \in Int /\ counters[k].n \in Nat /\ counters[k].exp \in Nat
  BY <1>3, BoundsAssumption DEF ExactInv, QuotaInv, TypeOK, RedisTypeOK
<1>8. Dead(k) => Dead(k)'
  BY <1>1, <1>6, <1>7 DEF Dead
<1>9. counters'[k] = IF counters[k].exp < now' THEN NoCounter ELSE counters[k]
  BY <1>3 DEF Tick, RedisTick
<1>10. counters[k].n > 0 /\ counters[k].exp < now' => Dead(k)'
  BY <1>1, <1>6, <1>7 DEF ExactInv, QuotaInv, CounterLives, Dead
<1>11. CASE counters[k].exp < now'
  <2>1. counters'[k].n = 0
    BY <1>9, <1>11 DEF NoCounter
  <2> QED
    BY <1>7, <1>8, <1>10, <1>11, <2>1 DEF ExactInv, Exact
<1>12. CASE ~(counters[k].exp < now')
  <2>1. counters'[k] = counters[k]
    BY <1>9, <1>12
  <2> QED
    BY <1>8, <2>1 DEF ExactInv, Exact
<1> QED
  BY <1>11, <1>12

\* Every step keeps the counters exact.
LEMMA ExactInvStep == ExactInv /\ [Next]_vars => ExactInv'
<1> SUFFICES ASSUME ExactInv, [Next]_vars PROVE ExactInv'
  OBVIOUS
<1>1. QuotaInv'
  BY QuotaNext DEF ExactInv
<1>2. Attempts'
  BY AttemptsStep DEF ExactInv, QuotaInv
<1>3. ASSUME now' = now, passes' = passes, \A k \in FixedKeys : counters'[k] = counters[k],
             \A q \in Requests : passes[q] > 0 => call'[q] = call[q]
      PROVE  Exact'
  <2>1. \A k : Charges(k)' = Charges(k)
    BY <1>3, ChargesSame DEF ExactInv, QuotaInv
  <2> QED
    BY <1>3, <2>1 DEF ExactInv, Exact, Dead
<1>4. Exact'
  BY <1>3, ExactPass, ExactTick, FixedQuiet DEF ExactInv, QuotaInv
<1> QED
  BY <1>1, <1>2, <1>4 DEF ExactInv

\* A live counter of a fixed window is the number of executions that passed, one for
\* each rule they counted: neither a rejection nor a request the gateway gave up on
\* uses quota, and a resent call that runs twice is charged twice.
THEOREM ChargedExactly == Spec => []CounterExact
<1>1. Init => ExactInv
  <2> SUFFICES ASSUME Init PROVE Attempts /\ Exact
    BY QuotaInit DEF ExactInv
  <2>1. Attempts
    BY FS_EmptySet, BoundsAssumption DEF Init, Attempts
  <2>2. ASSUME NEW k PROVE Charges(k) = {}
    BY BoundsAssumption DEF Init, Charges
  <2>3. \A k \in FixedKeys : counters[k].n = 0
    BY DEF Init, RedisInit, CounterKeys, NoCounter
  <2> QED
    BY <2>1, <2>2, <2>3, FS_EmptySet DEF Exact
<1>2. ExactInv /\ [Next]_vars => ExactInv'
  BY ExactInvStep
<1>3. ExactInv => CounterExact
  <2> SUFFICES ASSUME ExactInv, NEW k \in FixedKeys, counters[k].n > 0
               PROVE  counters[k].n = Cardinality(Charges(k))
    BY DEF CounterExact, Charges
  <2>1. counters[k].n # 0
    BY DEF ExactInv, QuotaInv, TypeOK, RedisTypeOK, CounterKeys
  <2> QED
    BY <2>1 DEF ExactInv, Exact
<1> QED
  BY <1>1, <1>2, <1>3, PTL DEF Spec
-----------------------------------------------------------------------------
(***************************************************************************)
(* Local quotas of degraded instances.                                     *)
(***************************************************************************)
\* The gateways do not underestimate how many they are.
AllKnown == Cardinality(Instances) <= InstCount

\* Rules that share a local quota have one limit.
OneLimit ==
  \A g, h \in LocalQuotaRules :
    /\ Rules[g].alg = Rules[h].alg /\ Rules[g].dims = Rules[h].dims
    /\ Rules[g].alg = "conc" \/ Rules[g].win = Rules[h].win
    => Rules[g].limit = Rules[h].limit

\* No instance has given out more of a key than its share of the limit.
SharesKept ==
  \A i \in Instances, r \in LocalQuotaRules, q \in Requests, t \in 0 .. (MaxTime + MaxSkew) :
    quota[i][QuotaKey(r, q, t)].n <= LocalQuota(Rules[r])

\* Facts about the rules with a local quota.
LEMMA QuotaRuleFacts ==
  ASSUME NEW r \in LocalQuotaRules
  PROVE  /\ r \in RuleIds /\ r \in Nat /\ r <= Len(Rules)
         /\ Rules[r].limit \in Nat \ {0}
         /\ Rules[r].alg \in {"token", "conc"}
         /\ LocalQuota(Rules[r]) \in Nat \ {0}
<1>1. r \in RuleIds /\ Rules[r].alg \in {"token", "conc"} /\ Rules[r].limit \in Nat \ {0}
  BY RuleFacts DEF LocalQuotaRules, Of, Rule
<1>2. r \in Nat /\ r <= Len(Rules)
  BY <1>1, RuleFacts
<1>3. ASSUME NEW x \in Nat \ {0}, NEW y \in Nat \ {0}
      PROVE  x \div y \in Nat
  OBVIOUS
<1>4. LocalQuota(Rules[r]) \in Nat \ {0}
  BY <1>1, <1>3, InstancesAssumption DEF LocalQuota
<1> QED
  BY <1>1, <1>2, <1>4

\* Rules with a local quota in common have one share.
LEMMA QuotaKeyShared ==
  ASSUME OneLimit, NEW g \in LocalQuotaRules, NEW h \in LocalQuotaRules,
         NEW p, NEW q, NEW t, NEW u, QuotaKey(g, p, t) = QuotaKey(h, q, u)
  PROVE  LocalQuota(Rules[g]) = LocalQuota(Rules[h])
<1> DEFINE K(i, x, v) == QuotaKey(i, x, v)
<1>1. ASSUME NEW i \in LocalQuotaRules, NEW x, NEW v
      PROVE  /\ DOMAIN K(i, x, v).vals = Rules[i].dims
             /\ Rules[i].alg = "conc" => K(i, x, v).kind = "deg"
             /\ Rules[i].alg = "token" => K(i, x, v).kind = "rl" /\ K(i, x, v).win = Rules[i].win
  BY QuotaRuleFacts DEF QuotaKey, ConcurrencyKey, RateKey, DimVals
<1> HIDE DEF K
<1>2. K(g, p, t) = K(h, q, u)
  BY DEF K
<1>3. Rules[g].dims = Rules[h].dims
  BY <1>1, <1>2
<1>4. Rules[g].alg = Rules[h].alg /\ (Rules[g].alg = "conc" \/ Rules[g].win = Rules[h].win)
  <2>1. Rules[g].alg \in {"token", "conc"} /\ Rules[h].alg \in {"token", "conc"}
    BY QuotaRuleFacts
  <2>2. CASE Rules[g].alg = "conc"
    <3>1. K(h, q, u).kind = "deg"
      BY <1>1, <1>2, <2>2
    <3>2. Rules[h].alg # "token"
      BY <1>1, <3>1
    <3> QED
      BY <2>1, <2>2, <3>2
  <2>3. CASE Rules[g].alg = "token"
    <3>1. K(h, q, u).kind = "rl" /\ K(h, q, u).win = Rules[g].win
      BY <1>1, <1>2, <2>3
    <3>2. Rules[h].alg # "conc"
      BY <1>1, <3>1
    <3> QED
      BY <1>1, <2>1, <2>3, <3>1, <3>2
  <2> QED
    BY <2>1, <2>2, <2>3
<1>5. Rules[g].limit = Rules[h].limit
  BY <1>3, <1>4 DEF OneLimit
<1> QED
  BY <1>5 DEF LocalQuota

\* The rules counted before rule j, if the last of them had room for one more.
LEMMA TakenWithinShare ==
  ASSUME TypeOK, OneLimit, SharesKept, NEW q \in Requests, NEW j \in Int, NEW t,
         TakeQuotas(j, q, t),
         \A h \in LocalQuotaRules : h < j => ~QuotaSpent(h, q, t)
  PROVE  SharesKept'
<1> DEFINE me == call[q].inst
<1> SUFFICES ASSUME NEW i \in Instances, NEW r \in LocalQuotaRules, NEW p \in Requests,
                    NEW u \in 0 .. (MaxTime + MaxSkew)
             PROVE  quota'[i][QuotaKey(r, p, u)].n <= LocalQuota(Rules[r])
  BY DEF SharesKept
<1> DEFINE k == QuotaKey(r, p, u)
           H == QuotaHits(j, k, q, t)
<1>0. /\ k \in QuotaKeys /\ me \in Instances
      /\ quota \in [Instances -> [QuotaKeys -> [n : Nat, reset : Int]]]
  <2>1. k \in QuotaKeys
    BY DEF QuotaKeys
  <2> QED
    BY <2>1 DEF TypeOK
<1>1. CASE i # me
  <2>1. quota'[i] = quota[i]
    BY <1>0, <1>1 DEF TakeQuotas
  <2> QED
    BY <2>1 DEF SharesKept
<1>2. CASE i = me /\ H = {}
  <2>1. quota'[i][k] = quota[i][k]
    BY <1>0, <1>2 DEF TakeQuotas
  <2> QED
    BY <2>1 DEF SharesKept
<1>3. CASE i = me /\ H # {}
  <2>1. H \subseteq LocalQuotaRules /\ H \subseteq 1 .. Len(Rules) /\ Len(Rules) \in Nat
    BY QuotaRuleFacts, RuleFacts DEF QuotaHits
  <2>2. PICK h \in H : \A y \in H : y <= h
    <3> HIDE DEF H
    <3> QED
      BY <1>3, <2>1, GreatestMember
  <2>3. h \in LocalQuotaRules /\ h < j /\ QuotaKey(h, q, t) = k /\ h \in Int
    BY <2>1, QuotaRuleFacts DEF QuotaHits
  <2>4. QuotaHits(h, k, q, t) = H \ {h}
    <3>1. ASSUME NEW y \in LocalQuotaRules
          PROVE  y \in QuotaHits(h, k, q, t) <=> y \in H \ {h}
      <4>1. y \in Int
        BY QuotaRuleFacts
      <4>2. y < h => y < j
        BY <2>3, <4>1
      <4>3. y \in H /\ y # h => y < h
        BY <2>2, <2>3, <4>1
      <4>4. y < h => y # h
        BY <2>3, <4>1
      <4> QED
        BY <4>2, <4>3, <4>4 DEF QuotaHits
    <3> QED
      BY <2>1, <3>1 DEF QuotaHits
  <2>5. IsFiniteSet(H) /\ Cardinality(H) \in Nat
    <3>1. IsFiniteSet(1 .. Len(Rules))
      BY <2>1, FS_Interval
    <3> HIDE DEF H
    <3> QED
      BY <2>1, <3>1, FS_Subset, FS_CardinalityType
  <2>6. Cardinality(H \ {h}) = Cardinality(H) - 1
    <3> HIDE DEF H
    <3> QED
      BY <2>5, FS_RemoveElement
  <2> DEFINE m == QuotaEntry(i, k, QuotaWindow(h)).n
             first == CHOOSE x \in H : \A y \in H : x <= y
  <2>7. m \in Nat /\ QuotaEntry(i, k, QuotaWindow(first)).n = m
    BY <1>0 DEF QuotaEntry
  <2>8. ~(m + Cardinality(H \ {h}) >= LocalQuota(Rules[h]))
    BY <1>3, <2>3, <2>4 DEF QuotaSpent
  <2>9. quota'[i][k].n = m + Cardinality(H)
    <3>1. quota'[i][k] = [QuotaEntry(i, k, QuotaWindow(first)) EXCEPT !.n = @ + Cardinality(H)]
      BY <1>0, <1>3 DEF TakeQuotas
    <3>2. \E s : QuotaEntry(i, k, QuotaWindow(first)) = [n |-> m, reset |-> s]
      <4>1. quota[i][k] = [n |-> quota[i][k].n, reset |-> quota[i][k].reset]
        BY <1>0
      <4> QED
        BY <2>7, <4>1 DEF QuotaEntry
    <3> HIDE DEF m, first, H
    <3> QED
      BY <3>1, <3>2
  <2>10. LocalQuota(Rules[r]) = LocalQuota(Rules[h]) /\ LocalQuota(Rules[h]) \in Nat
    BY <2>3, QuotaKeyShared, QuotaRuleFacts
  <2> HIDE DEF m, H
  <2>11. m + Cardinality(H) <= LocalQuota(Rules[r])
    BY <2>5, <2>6, <2>7, <2>8, <2>10
  <2> QED
    BY <2>9, <2>11
<1> QED
  BY <1>1, <1>2, <1>3

\* Every step keeps the shares; a crash forgets them.
LEMMA SharesStep == OneLimit /\ TypeOK /\ SharesKept /\ [Next]_vars => SharesKept'
<1> SUFFICES ASSUME OneLimit, TypeOK, SharesKept, [Next]_vars PROVE SharesKept'
  OBVIOUS
<1>1. ASSUME NEW q \in Requests, DegradeAllow(q) PROVE SharesKept'
  BY <1>1, TakenWithinShare, RuleFacts DEF DegradeAllow
<1>2. ASSUME NEW q \in Requests, NEW j \in LocalQuotaRules, DegradeReject(q, j)
      PROVE  SharesKept'
  BY <1>2, TakenWithinShare, QuotaRuleFacts DEF DegradeReject
<1>3. ASSUME NEW c \in Instances, Crash(c) PROVE SharesKept'
  <2> SUFFICES ASSUME NEW i \in Instances, NEW r \in LocalQuotaRules, NEW p \in Requests,
                      NEW u \in 0 .. (MaxTime + MaxSkew)
               PROVE  quota'[i][QuotaKey(r, p, u)].n <= LocalQuota(Rules[r])
    BY DEF SharesKept
  <2>1. QuotaKey(r, p, u) \in QuotaKeys
    BY DEF QuotaKeys
  <2>2. CASE i = c
    <3>1. quota'[i][QuotaKey(r, p, u)] = NoQuota
      BY <1>3, <2>1, <2>2 DEF Crash, TypeOK
    <3> QED
      BY <3>1, QuotaRuleFacts DEF NoQuota
  <2>3. CASE i # c
    <3>1. quota'[i] = quota[i]
      BY <1>3, <2>3 DEF Crash, TypeOK
    <3> QED
      BY <3>1 DEF SharesKept
  <2> QED
    BY <2>2, <2>3
<1>4. ASSUME quota' = quota PROVE SharesKept'
  BY <1>4 DEF SharesKept
<1>5. ASSUME NEW q \in Requests, NEW a \in 0 .. MaxRetries,
             ExecPass(q, a) \/ LoseCommand(q, a) \/ \E i \in RuleIds : ExecReject(q, a, i)
      PROVE  SharesKept'
  BY <1>4, <1>5 DEF ExecPass, LoseCommand, ExecReject, Answer
<1>6. ASSUME NEW q \in Requests,
             \/ Check(q) \/ Resend(q) \/ Decide(q) \/ FailClose(q) \/ Finish(q)
             \/ ReleaseLost(q) \/ ReleaseExec(q)
             \/ \E d \in 1 .. MaxDelta : TokenReserve(q, d)
      PROVE  SharesKept'
  BY <1>4, <1>6 DEF Check, Resend, Decide, FailClose, Finish, ReleaseLost, ReleaseExec,
                    TokenReserve
<1>7. CASE Tick
  BY <1>4, <1>7 DEF Tick, gwVars
<1>8. CASE UNCHANGED vars
  BY <1>4, <1>8 DEF vars, gwVars
<1> QED
  BY <1>1, <1>2, <1>3, <1>5, <1>6, <1>7, <1>8 DEF Next

\* The shares of all instances add up to no more than the limit.
LEMMA SharesAddUp ==
  ASSUME AllKnown, TypeOK, SharesKept
  PROVE  DegradedBound
<1> SUFFICES ASSUME NEW r \in LocalQuotaRules, NEW q \in Requests,
                    NEW t \in 0 .. (MaxTime + MaxSkew), Rules[r].limit >= InstCount
             PROVE  Cardinality({e \in Instances \X (1 .. Cardinality(Requests)) :
                                   e[2] <= quota[e[1]][QuotaKey(r, q, t)].n}) <= Rules[r].limit
  BY DEF DegradedBound
<1> DEFINE k == QuotaKey(r, q, t)
           E == {e \in Instances \X (1 .. Cardinality(Requests)) : e[2] <= quota[e[1]][k].n}
           L == LocalQuota(Rules[r])
           N == Cardinality(Instances)
<1>1. L \in Nat /\ N \in Nat /\ InstCount \in Nat \ {0} /\ Rules[r].limit \in Nat /\ N <= InstCount
  BY QuotaRuleFacts, InstancesAssumption, FS_CardinalityType DEF AllKnown
<1>2. L * InstCount <= Rules[r].limit
  <2>1. ASSUME NEW x \in Nat, NEW y \in Nat \ {0}, x >= y
        PROVE  ~(x \div y < 1) /\ (x \div y) * y <= x
    BY <2>1
  <2> QED
    BY <1>1, <2>1 DEF LocalQuota
<1>3. E \subseteq Instances \X (1 .. L)
  <2> SUFFICES ASSUME NEW e \in E PROVE e \in Instances \X (1 .. L)
    OBVIOUS
  <2>1. e[1] \in Instances /\ e[2] \in 1 .. Cardinality(Requests) /\ e = <<e[1], e[2]>>
        /\ e[2] <= quota[e[1]][k].n
    OBVIOUS
  <2>2. quota[e[1]][k].n <= L /\ quota[e[1]][k].n \in Nat
    <3>1. k \in QuotaKeys
      BY DEF QuotaKeys
    <3> QED
      BY <2>1, <3>1 DEF SharesKept, TypeOK
  <2>3. Cardinality(Requests) \in Nat
    BY RequestsAssumption, FS_CardinalityType
  <2> HIDE DEF k, L, E
  <2>4. e[2] \in 1 .. L
    BY <1>1, <2>1, <2>2, <2>3
  <2> QED
    BY <2>1, <2>4
<1> HIDE DEF E, L
<1>4. IsFiniteSet(1 .. L) /\ Cardinality(1 .. L) = L
  <2>1. IsFiniteSet(1 .. L) /\ Cardinality(1 .. L) = IF 1 > L THEN 0 ELSE L - 1 + 1
    <3>1. 1 \in Int /\ L \in Int
      BY <1>1
    <3> QED
      BY <3>1, FS_Interval
  <2> QED
    BY <1>1, <2>1
<1>5. IsFiniteSet(Instances \X (1 .. L)) /\ Cardinality(Instances \X (1 .. L)) = N * L
  BY <1>4, InstancesAssumption, FS_Product
<1>6. Cardinality(E) <= N * L /\ Cardinality(E) \in Nat
  BY <1>3, <1>5, FS_Subset, FS_CardinalityType
<1> HIDE DEF N
<1>7. N * L <= InstCount * L
  BY <1>1
<1>8. Cardinality(E) <= Rules[r].limit
  <2>1. InstCount * L = L * InstCount /\ N * L \in Nat /\ L * InstCount \in Nat
    BY <1>1
  <2> QED
    BY <1>1, <1>2, <1>6, <1>7, <2>1
<1> QED
  BY <1>8 DEF E

\* What degraded instances let through under one key is within the limit that Redis
\* would enforce, if they do not underestimate their number and rules that share a
\* quota have one limit.
THEOREM DegradedWithinLimit == AllKnown /\ OneLimit => (Spec => []DegradedBound)
<1> SUFFICES ASSUME AllKnown, OneLimit PROVE Spec => []DegradedBound
  OBVIOUS
<1> DEFINE Inv == TypeOK /\ SharesKept
<1>1. Init => Inv
  <2> SUFFICES ASSUME Init PROVE SharesKept
    BY InitType
  <2>1. \A i \in Instances, k \in QuotaKeys : quota[i][k].n = 0
    BY DEF Init, NoQuota
  <2> QED
    BY <2>1, QuotaRuleFacts DEF SharesKept, QuotaKeys
<1>2. Inv /\ [Next]_vars => Inv'
  BY NextType, SharesStep
<1>3. Inv => DegradedBound
  BY SharesAddUp
<1> HIDE DEF Inv
<1> QED
  BY <1>1, <1>2, <1>3, PTL DEF Spec
-----------------------------------------------------------------------------
(***************************************************************************)
(* Sliding windows.                                                        *)
(***************************************************************************)
\* A script passed at a time that is not in the future; ...
PassTimes == \A q \in Requests : passes[q] > 0 => 0 <= passAt[q] /\ passAt[q] <= now

\* ... and for the length of the window its sorted set holds that time.
SlideRecords ==
  \A q \in Requests, i \in Of("sliding") :
    passes[q] > 0 /\ now - Rules[i].win < passAt[q]
      => slides[CallKey(i, q)][ReqId[q]] = passAt[q]

\* The requests admitted under key k in the window that ends at t.
InWindow(i, k, t) ==
  {q \in Requests : /\ passes[q] > 0 /\ CallKey(i, q) = k
                    /\ t - Rules[i].win < passAt[q] /\ passAt[q] <= t}

\* The key of a sliding window.
LEMMA SlideKeyFacts ==
  ASSUME TypeOK, NEW i \in Of("sliding"), NEW q \in Requests
  PROVE  /\ i \in RuleIds /\ Rules[i].alg = "sliding"
         /\ Rules[i].win \in Nat \ {0} /\ Rules[i].limit \in Nat \ {0}
         /\ CallKey(i, q) \in SlideKeys /\ CallKey(i, q).win = Rules[i].win
<1>1. i \in RuleIds /\ Rules[i].alg = "sliding" /\ Rules[i].win \in Nat \ {0}
      /\ Rules[i].limit \in Nat \ {0}
  BY RuleFacts DEF Of, Rule
<1>2. CallKey(i, q) = RateKey(Rules[i], q, call[q].ts)
  BY <1>1 DEF CallKey, Key
<1>3. call[q].ts \in 0 .. (MaxTime + MaxSkew)
  BY DEF TypeOK
<1>4. CallKey(i, q) \in SlideKeys
  BY <1>3 DEF CallKey, SlideKeys, KeysOf
<1>5. CallKey(i, q).win = Rules[i].win
  BY <1>2 DEF RateKey
<1> QED
  BY <1>1, <1>4, <1>5

\* The entries of a window that are no older than it are kept by every step that does
\* not admit: rejections sweep the older ones.
LEMMA SlidesSwept ==
  ASSUME [Next]_vars, ~\E q \in Requests, a \in 0 .. MaxRetries : ExecPass(q, a),
         NEW k \in SlideKeys
  PROVE  slides'[k] = slides[k] \/ slides'[k] = Sweep(slides[k], now - k.win)
<1> DEFINE Goal == slides'[k] = slides[k] \/ slides'[k] = Sweep(slides[k], now - k.win)
<1>1. ASSUME NEW q \in Requests, NEW a \in 0 .. MaxRetries, NEW i \in RuleIds,
             ExecReject(q, a, i)
      PROVE  Goal
  BY <1>1 DEF ExecReject, BatchReject
<1>2. ASSUME NEW q \in Requests,
             \/ Check(q) \/ Resend(q) \/ Decide(q) \/ FailClose(q) \/ DegradeAllow(q)
             \/ Finish(q) \/ ReleaseLost(q)
             \/ \E a \in 0 .. MaxRetries : LoseCommand(q, a)
             \/ \E j \in LocalQuotaRules : DegradeReject(q, j)
             \/ \E d \in 1 .. MaxDelta : TokenReserve(q, d)
      PROVE  Goal
  BY <1>2 DEF Check, Resend, Decide, FailClose, DegradeAllow, DegradeReject, Finish,
              ReleaseLost, LoseCommand, TokenReserve, LedgerReserve, redisVars
<1>3. ASSUME NEW q \in Requests, ReleaseExec(q) PROVE Goal
  BY <1>3 DEF ReleaseExec, ReleaseConc
<1>4. ASSUME NEW i \in Instances, Crash(i) PROVE Goal
  BY <1>4 DEF Crash, redisVars
<1>5. ASSUME Tick \/ UNCHANGED vars PROVE Goal
  BY <1>5 DEF Tick, RedisTick, vars, redisVars
<1> HIDE DEF Goal
<1>6. Goal
  BY <1>1, <1>2, <1>3, <1>4, <1>5, NextCases
<1> QED
  BY <1>6 DEF Goal

\* An admission, and all that others do to a record of the window.
LEMMA RecordsStep ==
  ASSUME DistinctIds, TypeOK, CallTimes, PassTimes, SlideRecords, [Next]_vars
  PROVE  PassTimes' /\ SlideRecords'
<1>0. now \in Nat /\ passAt \in [Requests -> Int] /\ passes \in [Requests -> Nat]
  BY DEF TypeOK, RedisTypeOK
<1>1. ASSUME NEW q \in Requests, NEW a \in 0 .. MaxRetries, ExecPass(q, a)
      PROVE  PassTimes' /\ SlideRecords'
  <2>1. /\ now' = now /\ call' = call
        /\ passes' = [passes EXCEPT ![q] = @ + 1]
        /\ passAt' = [passAt EXCEPT ![q] = now]
        /\ CommitSliding(q, call[q].ts)
    BY <1>1 DEF ExecPass, Answer, BatchPass
  <2>2. passAt'[q] = now /\ \A p \in Requests : p # q => passAt'[p] = passAt[p] /\ passes'[p] = passes[p]
    BY <1>0, <2>1
  <2>3. PassTimes'
    BY <1>0, <2>1, <2>2 DEF PassTimes
  <2>4. ASSUME NEW p \in Requests, NEW i \in Of("sliding"), passes'[p] > 0,
               now' - Rules[i].win < passAt'[p]
        PROVE  slides'[CallKey(i, p)'][ReqId[p]] = passAt'[p]
    <3> DEFINE k == CallKey(i, p)
    <3>1. k \in SlideKeys /\ k.win = Rules[i].win /\ CallKey(i, p)' = k
          /\ Rules[i].win \in Nat
      BY <2>1, SlideKeyFacts DEF CallKey
    <3>2. slides[k] \in ZSet /\ ReqId[p] \in ReqIds /\ ReqId[q] \in ReqIds
      BY <3>1, ReqIdAssumption DEF TypeOK, RedisTypeOK, ZSet
    <3>3. Sweep(slides[k], now - k.win) \in ZSet
      BY <3>2, ZSetFacts
    <3>4. CASE p = q
      <4>1. i \in Hits("sliding", k, q, call[q].ts)
        BY <3>4 DEF Hits, CallKey
      <4>2. slides'[k] = [Sweep(slides[k], now - k.win) EXCEPT ![ReqId[q]] = now]
        BY <2>1, <3>1, <4>1 DEF CommitSliding
      <4>3. slides'[k][ReqId[q]] = now
        BY <3>2, <3>3, <4>2 DEF ZSet
      <4> QED
        BY <2>2, <3>1, <3>4, <4>3
    <3>5. CASE p # q
      <4>1. slides[k][ReqId[p]] = passAt[p] /\ passAt'[p] = passAt[p]
        BY <2>1, <2>2, <2>4, <3>5 DEF SlideRecords
      <4>2. ~(slides[k][ReqId[p]] <= now - k.win)
        <5>1. now - Rules[i].win < passAt[p] /\ passAt[p] \in Int
          BY <1>0, <2>1, <2>4, <4>1
        <5> HIDE DEF k
        <5> QED
          BY <1>0, <3>1, <4>1, <5>1
      <4>3. Sweep(slides[k], now - k.win)[ReqId[p]] = slides[k][ReqId[p]]
        BY <3>2, <4>2, SweepKeeps
      <4>4. ReqId[p] # ReqId[q]
        BY <3>5 DEF DistinctIds
      <4>5. slides'[k] \in {slides[k], [Sweep(slides[k], now - k.win) EXCEPT ![ReqId[q]] = now]}
        BY <2>1, <3>1 DEF CommitSliding
      <4>6. slides'[k][ReqId[p]] = slides[k][ReqId[p]]
        BY <3>2, <3>3, <4>3, <4>4, <4>5 DEF ZSet
      <4> QED
        BY <3>1, <4>1, <4>6
    <3> QED
      BY <3>4, <3>5
  <2>5. SlideRecords'
    BY <2>4 DEF SlideRecords
  <2> QED
    BY <2>3, <2>5
<1>2. ASSUME ~\E q \in Requests, a \in 0 .. MaxRetries : ExecPass(q, a)
      PROVE  PassTimes' /\ SlideRecords'
  <2>1. passes' = passes /\ passAt' = passAt /\ now' \in {now, now + 1}
        /\ \A q \in Requests : passes[q] > 0 => call'[q] = call[q]
    BY <1>2, FixedQuiet DEF Tick, RedisTick, gwVars
  <2>2. PassTimes'
    BY <1>0, <2>1 DEF PassTimes
  <2>3. ASSUME NEW p \in Requests, NEW i \in Of("sliding"), passes'[p] > 0,
               now' - Rules[i].win < passAt'[p]
        PROVE  slides'[CallKey(i, p)'][ReqId[p]] = passAt'[p]
    <3> DEFINE k == CallKey(i, p)
    <3>1. k \in SlideKeys /\ k.win = Rules[i].win /\ CallKey(i, p)' = k
          /\ Rules[i].win \in Nat
      BY <2>1, <2>3, SlideKeyFacts DEF CallKey
    <3>2. slides[k] \in ZSet /\ ReqId[p] \in ReqIds
      BY <3>1, ReqIdAssumption DEF TypeOK, RedisTypeOK, ZSet
    <3>3. now - Rules[i].win < passAt[p] /\ passAt[p] \in Int
      BY <1>0, <2>1, <2>3, <3>1
    <3>4. slides[k][ReqId[p]] = passAt[p]
      BY <2>1, <2>3, <3>3 DEF SlideRecords
    <3>5. ~(slides[k][ReqId[p]] <= now - k.win)
      <4> HIDE DEF k
      <4> QED
        BY <1>0, <3>1, <3>3, <3>4
    <3>6. Sweep(slides[k], now - k.win)[ReqId[p]] = slides[k][ReqId[p]]
      BY <3>2, <3>5, SweepKeeps
    <3>7. slides'[k][ReqId[p]] = slides[k][ReqId[p]]
      <4>1. slides'[k] = slides[k] \/ slides'[k] = Sweep(slides[k], now - k.win)
        BY <1>2, <3>1, SlidesSwept
      <4> QED
        BY <3>6, <4>1
    <3> QED
      BY <2>1, <3>1, <3>4, <3>7
  <2>4. SlideRecords'
    BY <2>3 DEF SlideRecords
  <2> QED
    BY <2>2, <2>4
<1> QED
  BY <1>1, <1>2

\* Those admitted in the window that ends now are members the script counts.
LEMMA WindowCounted ==
  ASSUME DistinctIds, TypeOK, PassTimes, SlideRecords,
         NEW i \in Of("sliding"), NEW k \in SlideKeys
  PROVE  /\ IsFiniteSet(InWindow(i, k, now)) /\ Cardinality(InWindow(i, k, now)) \in Nat
         /\ Card(Sweep(slides[k], now - Rules[i].win)) \in Nat
         /\ Cardinality(InWindow(i, k, now)) <= Card(Sweep(slides[k], now - Rules[i].win))
<1> DEFINE W == InWindow(i, k, now)
           z == Sweep(slides[k], now - Rules[i].win)
           f == [q \in W |-> ReqId[q]]
<1>1. IsFiniteSet(W) /\ Cardinality(W) \in Nat
  BY RequestsAssumption, FS_Subset, FS_CardinalityType DEF InWindow
<1>2. IsFiniteSet(Members(z)) /\ Cardinality(Members(z)) \in Nat
  BY ReqIdAssumption, FS_Subset, FS_CardinalityType DEF Members
<1>3. ASSUME NEW q \in W PROVE ReqId[q] \in Members(z)
  <2>1. q \in Requests /\ passes[q] > 0 /\ CallKey(i, q) = k /\ now - Rules[i].win < passAt[q]
    BY DEF InWindow
  <2>2. slides[k][ReqId[q]] = passAt[q] /\ 0 <= passAt[q]
    BY <2>1 DEF SlideRecords, PassTimes
  <2>3. slides[k] \in ZSet /\ ReqId[q] \in ReqIds
    BY <2>1, ReqIdAssumption DEF TypeOK, RedisTypeOK, ZSet
  <2>4. now \in Int /\ Rules[i].win \in Int /\ passAt[q] \in Int
    BY <2>1, SlideKeyFacts DEF TypeOK, RedisTypeOK
  <2>5. ~(slides[k][ReqId[q]] <= now - Rules[i].win)
    BY <2>1, <2>2, <2>4
  <2>6. z[ReqId[q]] = passAt[q]
    BY <2>2, <2>3, <2>5, SweepKeeps
  <2>7. passAt[q] # Absent
    BY <2>2, <2>4 DEF Absent
  <2> HIDE DEF z
  <2> QED
    BY <2>3, <2>6, <2>7 DEF Members
<1>4. f \in [W -> Members(z)]
  BY <1>3
<1>5. \A x, y \in W : f[x] = f[y] => x = y
  BY DEF DistinctIds, InWindow
<1> HIDE DEF f
<1>6. Cardinality(W) <= Cardinality(Members(z))
  BY <1>2, <1>4, <1>5, InjectionBound
<1> QED
  BY <1>1, <1>2, <1>6 DEF Card

SlideInv == /\ TypeOK /\ CallTimes /\ PassTimes /\ SlideRecords /\ SlidingKeyBound

\* In terms of InWindow.
LEMMA SlidingBoundIs ==
  SlidingKeyBound <=> \A i \in Of("sliding"), k \in SlideKeys, t \in 0 .. now :
                        Cardinality(InWindow(i, k, t)) <= Rules[i].limit
BY DEF SlidingKeyBound, InWindow

\* An admission enters the window that ends now, for which the script has checked.
LEMMA SlidingPass ==
  ASSUME DistinctIds, SlideInv, NEW q \in Requests, NEW a \in 0 .. MaxRetries, ExecPass(q, a),
         NEW i \in Of("sliding"), NEW k \in SlideKeys, NEW t \in 0 .. now
  PROVE  Cardinality(InWindow(i, k, t)') <= Rules[i].limit
<1> USE DEF SlideInv
<1>0. now \in Nat /\ passAt \in [Requests -> Int] /\ passes \in [Requests -> Nat]
      /\ Rules[i].limit \in Nat /\ t \in Int /\ t <= now
  BY SlideKeyFacts DEF TypeOK, RedisTypeOK
<1>1. /\ now' = now /\ call' = call
      /\ passes' = [passes EXCEPT ![q] = @ + 1]
      /\ passAt' = [passAt EXCEPT ![q] = now]
      /\ \A j \in RuleIds : ~Rejects(j, q, call[q].ts)
  BY DEF ExecPass, Answer, BatchPass
<1>2. passAt'[q] = now /\ \A p \in Requests : p # q => passAt'[p] = passAt[p] /\ passes'[p] = passes[p]
  BY <1>0, <1>1
<1>3. Cardinality(InWindow(i, k, t)) <= Rules[i].limit
  BY SlidingBoundIs
<1>4. IsFiniteSet(InWindow(i, k, t)) /\ Cardinality(InWindow(i, k, t)) \in Nat
  BY RequestsAssumption, FS_Subset, FS_CardinalityType DEF InWindow
<1>5. InWindow(i, k, t)' \subseteq InWindow(i, k, t) \cup {q}
  BY <1>1, <1>2 DEF InWindow, CallKey
<1>6. CASE q \notin InWindow(i, k, t)'
  <2>1. InWindow(i, k, t)' \subseteq InWindow(i, k, t)
    BY <1>5, <1>6
  <2>2. Cardinality(InWindow(i, k, t)') <= Cardinality(InWindow(i, k, t))
        /\ Cardinality(InWindow(i, k, t)') \in Nat
    BY <1>4, <2>1, FS_Subset, FS_CardinalityType
  <2> QED
    BY <1>0, <1>3, <1>4, <2>2
<1>7. CASE q \in InWindow(i, k, t)'
  <2>1. CallKey(i, q) = k /\ now <= t
    BY <1>1, <1>2, <1>7 DEF InWindow, CallKey
  <2>2. t = now
    BY <1>0, <2>1
  <2>3. i \in RuleIds /\ Rules[i].alg = "sliding"
    BY SlideKeyFacts
  <2>4. ~Exceeded(Rules[i], k)
    BY <1>1, <2>1, <2>3 DEF Rejects, CallKey
  <2>5. ~(Card(Sweep(slides[k], now - Rules[i].win)) + 1 > Rules[i].limit)
    BY <2>3, <2>4 DEF Exceeded
  <2> DEFINE W == InWindow(i, k, now)
  <2>6. IsFiniteSet(W) /\ Cardinality(W) \in Nat
        /\ Card(Sweep(slides[k], now - Rules[i].win)) \in Nat
        /\ Cardinality(W) <= Card(Sweep(slides[k], now - Rules[i].win))
    BY WindowCounted
  <2>7. Cardinality(W) + 1 <= Rules[i].limit
    BY <1>0, <2>5, <2>6
  <2>8. InWindow(i, k, t)' \subseteq W \cup {q}
    BY <1>5, <2>2
  <2> HIDE DEF W
  <2>9. IsFiniteSet(W \cup {q})
        /\ Cardinality(W \cup {q}) = IF q \in W THEN Cardinality(W) ELSE Cardinality(W) + 1
    BY <2>6, FS_AddElement
  <2>10. Cardinality(W \cup {q}) <= Cardinality(W) + 1 /\ Cardinality(W \cup {q}) \in Nat
    BY <2>6, <2>9
  <2>11. Cardinality(InWindow(i, k, t)') <= Cardinality(W \cup {q})
         /\ Cardinality(InWindow(i, k, t)') \in Nat
    BY <2>8, <2>9, FS_Subset, FS_CardinalityType
  <2> QED
    BY <1>0, <2>6, <2>7, <2>10, <2>11
<1> QED
  BY <1>6, <1>7

\* Other steps admit nobody, and the window that ends at the new time has nobody that
\* the one before it had not.
LEMMA SlidingOther ==
  ASSUME SlideInv, [Next]_vars, ~\E q \in Requests, a \in 0 .. MaxRetries : ExecPass(q, a),
         NEW i \in Of("sliding"), NEW k \in SlideKeys, NEW t \in 0 .. now'
  PROVE  Cardinality(InWindow(i, k, t)') <= Rules[i].limit
<1> USE DEF SlideInv
<1>1. passes' = passes /\ passAt' = passAt /\ now' \in {now, now + 1}
      /\ \A q \in Requests : passes[q] > 0 => call'[q] = call[q]
  BY FixedQuiet DEF Tick, RedisTick, gwVars
<1>2. now \in Nat /\ passAt \in [Requests -> Int] /\ t \in Int
  BY <1>1 DEF TypeOK, RedisTypeOK
<1>3. InWindow(i, k, t)' = InWindow(i, k, t)
  BY <1>1 DEF InWindow, CallKey
<1>4. CASE t <= now
  <2>1. t \in 0 .. now
    BY <1>1, <1>2, <1>4
  <2> QED
    BY <1>3, <2>1, SlidingBoundIs
<1>5. CASE ~(t <= now)
  <2>1. t = now + 1 /\ now \in 0 .. now
    BY <1>1, <1>2, <1>5
  <2>2. CASE InWindow(i, k, t) = {}
    <3>1. Rules[i].limit \in Nat
      BY RuleFacts DEF Of, Rule
    <3> QED
      BY <1>3, <2>2, <3>1, FS_EmptySet
  <2>3. CASE InWindow(i, k, t) # {}
    <3>1. Rules[i].win \in Nat /\ Rules[i].limit \in Nat
      BY RuleFacts DEF Of, Rule
    <3>2. InWindow(i, k, t) \subseteq InWindow(i, k, now)
      <4> SUFFICES ASSUME NEW p \in InWindow(i, k, t)
                   PROVE  p \in InWindow(i, k, now)
        OBVIOUS
      <4>1. p \in Requests /\ passes[p] > 0 /\ CallKey(i, p) = k /\ t - Rules[i].win < passAt[p]
        BY DEF InWindow
      <4>2. passAt[p] <= now /\ passAt[p] \in Int
        BY <1>2, <4>1 DEF PassTimes
      <4>3. now - Rules[i].win < passAt[p]
        BY <1>2, <2>1, <3>1, <4>1, <4>2
      <4> QED
        BY <4>1, <4>2, <4>3 DEF InWindow
    <3>3. Cardinality(InWindow(i, k, now)) <= Rules[i].limit
      BY <2>1, SlidingBoundIs
    <3>4. IsFiniteSet(InWindow(i, k, now)) /\ Cardinality(InWindow(i, k, now)) \in Nat
      BY RequestsAssumption, FS_Subset, FS_CardinalityType DEF InWindow
    <3>5. Cardinality(InWindow(i, k, t)) <= Cardinality(InWindow(i, k, now))
          /\ Cardinality(InWindow(i, k, t)) \in Nat
      BY <3>2, <3>4, FS_Subset, FS_CardinalityType
    <3>6. Cardinality(InWindow(i, k, t)) <= Rules[i].limit
      BY <3>1, <3>3, <3>4, <3>5
    <3> QED
      BY <1>3, <3>6
  <2> QED
    BY <2>2, <2>3
<1> QED
  BY <1>4, <1>5

\* A sliding window admits at most limit requests of one key in any stretch of its
\* length, whatever is resent, lost or executed late, when requests have their own
\* X-Request-Id.
THEOREM SlidingHolds == DistinctIds => (Spec => []SlidingKeyBound)
<1> SUFFICES ASSUME DistinctIds PROVE Spec => []SlidingKeyBound
  OBVIOUS
<1>1. Init => SlideInv
  <2> SUFFICES ASSUME Init PROVE PassTimes /\ SlideRecords /\ SlidingKeyBound
    BY QuotaInit DEF QuotaInv, SlideInv
  <2>1. \A q \in Requests : passes[q] = 0
    BY DEF Init
  <2>2. \A i \in Of("sliding") : Rules[i].limit \in Nat
    BY RuleFacts DEF Of, Rule
  <2>3. \A i, k, t : InWindow(i, k, t) = {}
    BY <2>1 DEF InWindow
  <2>4. SlidingKeyBound
    BY <2>2, <2>3, FS_EmptySet, SlidingBoundIs
  <2> QED
    BY <2>1, <2>4 DEF PassTimes, SlideRecords
<1>2. SlideInv /\ [Next]_vars => SlideInv'
  <2> SUFFICES ASSUME SlideInv, [Next]_vars PROVE SlideInv'
    OBVIOUS
  <2>1. TypeOK' /\ CallTimes'
    BY NextType, CallTimesStep DEF SlideInv
  <2>2. PassTimes' /\ SlideRecords'
    BY RecordsStep DEF SlideInv
  <2>3. ASSUME NEW i \in Of("sliding"), NEW k \in SlideKeys, NEW t \in 0 .. now'
        PROVE  Cardinality(InWindow(i, k, t)') <= Rules[i].limit
    <3>1. CASE \E q \in Requests, a \in 0 .. MaxRetries : ExecPass(q, a)
      <4>1. now' = now
        BY <3>1 DEF ExecPass, BatchPass
      <4> QED
        BY <3>1, <4>1, SlidingPass
    <3> QED
      BY <3>1, SlidingOther
  <2>4. SlidingKeyBound'
    BY <2>3 DEF SlidingKeyBound, InWindow
  <2> QED
    BY <2>1, <2>2, <2>4 DEF SlideInv
<1>3. SlideInv => SlidingKeyBound
  BY DEF SlideInv
<1> QED
  BY <1>1, <1>2, <1>3, PTL DEF Spec
-----------------------------------------------------------------------------
(***************************************************************************)
(* Token buckets.                                                          *)
(***************************************************************************)
\* A quotient rounded up covers its dividend.
LEMMA CeilCovers ==
  ASSUME NEW a \in Nat \ {0}, NEW b \in Nat \ {0}
  PROVE  /\ CeilDiv(a, b) \in Nat \ {0}
         /\ CeilDiv(a, b) * b >= a
<1> DEFINE d == (a + b - 1) \div b
<1>1. d \in Int /\ d * b <= a + b - 1 /\ a + b - 1 < d * b + b
  OBVIOUS
<1>2. d * b \in Int /\ d * b >= a
  BY <1>1
<1>3. d > 0
  <2>1. CASE d <= 0
    <3>1. d * b <= 0 * b
      BY <1>1, <2>1, TimesMonotone
    <3> QED
      BY <1>2, <3>1
  <2> QED
    BY <1>1, <2>1
<1> QED
  BY <1>1, <1>2, <1>3 DEF CeilDiv

\* Buckets of the same dimensions are one bucket: their rules agree on what it holds.
OneBucket ==
  \A i, j \in Of("tb") : Rules[i].dims = Rules[j].dims =>
    /\ Rules[i].burst = Rules[j].burst
    /\ TokenBucketRate(Rules[i]) = TokenBucketRate(Rules[j])

\* The requests last admitted under key k at s or later.
Since(i, k, s) == {q \in Requests : passes[q] > 0 /\ CallKey(i, q) = k /\ passAt[q] >= s}

Full(i) == Rules[i].burst * Unit
Rate(i) == TokenBucketRate(Rules[i])
FillTime(i) == CeilDiv(Full(i), Rate(i))

\* What a bucket says of those it admitted.  Those since s and the tokens left are
\* no more than a full bucket and what flowed in from s to its last write, after
\* which it admitted nobody; a bucket that expired has had the time to fill up.
Flow(i, k) ==
  IF buckets[k].exp = 0
  THEN \A s \in 0 .. now : Unit * Cardinality(Since(i, k, s)) <= (now - s) * Rate(i)
  ELSE /\ buckets[k].ts <= now /\ buckets[k].tok <= Full(i)
       /\ buckets[k].exp = buckets[k].ts + FillTime(i) + Grace
       /\ \A s \in 0 .. buckets[k].ts :
            Unit * Cardinality(Since(i, k, s)) + buckets[k].tok
              <= Full(i) + (buckets[k].ts - s) * Rate(i)
       /\ \A s \in 0 .. now : s > buckets[k].ts => Since(i, k, s) = {}

Flows == \A i \in Of("tb"), k \in BucketKeys : DOMAIN k.vals = Rules[i].dims => Flow(i, k)

\* Facts about the rules of token buckets.
LEMMA BucketRuleFacts ==
  ASSUME NEW i \in Of("tb")
  PROVE  /\ i \in RuleIds /\ Rules[i].alg = "tb"
         /\ Unit \in Nat \ {0} /\ Full(i) \in Nat \ {0} /\ Rate(i) \in Nat \ {0}
         /\ FillTime(i) \in Nat \ {0} /\ FillTime(i) * Rate(i) >= Full(i)
<1>1. i \in RuleIds /\ Rules[i].alg = "tb"
  BY DEF Of
<1>2. Rules[i].limit \in Nat \ {0} /\ Rules[i].win \in Nat \ {0} /\ Rules[i].burst \in Nat \ {0}
  BY <1>1, RuleFacts DEF Rule
<1>3. Unit \in Nat \ {0} /\ Rules[i].limit * Unit \in Nat /\ Rules[i].limit * Unit >= Rules[i].win
  BY <1>1, <1>2, UnitAssumption
<1>4. Rate(i) \in Nat \ {0}
  <2>1. ASSUME NEW x \in Nat, NEW y \in Nat \ {0}, x >= y
        PROVE  x \div y \in Nat \ {0}
    BY <2>1
  <2> QED
    BY <1>2, <1>3, <2>1 DEF Rate, TokenBucketRate
<1>5. Full(i) \in Nat \ {0}
  <2>1. ASSUME NEW x \in Nat \ {0}, NEW y \in Nat \ {0} PROVE x * y \in Nat \ {0}
    OBVIOUS
  <2> QED
    BY <1>2, <1>3, <2>1 DEF Full
<1>6. FillTime(i) \in Nat \ {0} /\ FillTime(i) * Rate(i) >= Full(i)
  BY <1>4, <1>5, CeilCovers DEF FillTime
<1> QED
  BY <1>1, <1>3, <1>4, <1>5, <1>6

\* The key of a bucket is that of its dimensions.
LEMMA BucketKeyFacts ==
  ASSUME NEW i \in Of("tb"), NEW q, NEW t
  PROVE  /\ Key(i, q, t) = TokenBucketKey(Rules[i], q)
         /\ DOMAIN Key(i, q, t).vals = Rules[i].dims
         /\ \A j \in Of("tb") : Rules[j].dims = Rules[i].dims => Key(j, q, t) = Key(i, q, t)
<1>1. \A j \in Of("tb") : Key(j, q, t) = TokenBucketKey(Rules[j], q)
  BY DEF Of, Key
<1> QED
  BY <1>1 DEF TokenBucketKey, DimVals

\* Admissions are finitely many.
LEMMA SinceFinite ==
  ASSUME NEW i, NEW k, NEW s
  PROVE  IsFiniteSet(Since(i, k, s)) /\ Cardinality(Since(i, k, s)) \in Nat
BY RequestsAssumption, FS_Subset, FS_CardinalityType DEF Since

\* A bucket within Flow refills to no more than is full, and than has flowed in.
LEMMA RefilledFacts ==
  ASSUME TypeOK, NEW i \in Of("tb"), NEW k \in BucketKeys, Flow(i, k)
  PROVE  /\ Refilled(Rules[i], k) \in Int /\ Refilled(Rules[i], k) <= Full(i)
         /\ buckets[k].exp # 0 =>
              Refilled(Rules[i], k) <= buckets[k].tok + (now - buckets[k].ts) * Rate(i)
<1> DEFINE b == buckets[k]
           x == (now - b.ts) * Rate(i)
<1>1. now \in Nat /\ b.tok \in Nat /\ b.ts \in Nat /\ b.exp \in Nat
  BY DEF TypeOK, RedisTypeOK
<1>2. Full(i) \in Nat /\ Rate(i) \in Nat
  BY BucketRuleFacts
<1>3. now - b.ts \in Int
  BY <1>1
<1>4. x \in Int
  BY <1>2, <1>3, Times
<1>5. now = b.ts => x = 0
  <2>1. now = b.ts => now - b.ts = 0
    BY <1>1
  <2>2. 0 * Rate(i) = 0
    BY <1>2
  <2> QED
    BY <2>1, <2>2
<1>6. Refilled(Rules[i], k) = IF b.exp = 0 THEN Full(i)
                              ELSE IF now = b.ts THEN b.tok
                              ELSE IF b.tok + x > Full(i) THEN Full(i) ELSE b.tok + x
  BY DEF Refilled, Full, Rate
<1>7. b.exp # 0 => b.tok <= Full(i)
  BY DEF Flow
<1> HIDE DEF b, x
<1>8. /\ Refilled(Rules[i], k) \in Int /\ Refilled(Rules[i], k) <= Full(i)
      /\ b.exp # 0 => Refilled(Rules[i], k) <= b.tok + x
  BY <1>1, <1>2, <1>4, <1>5, <1>6, <1>7
<1> QED
  BY <1>8 DEF b, x

\* An admission takes one token of what has flowed in.
LEMMA FlowPass ==
  ASSUME OneBucket, TypeOK, PassTimes, Flows,
         NEW q \in Requests, NEW a \in 0 .. MaxRetries, ExecPass(q, a)
  PROVE  Flows'
<1> DEFINE t == call[q].ts
<1>1. /\ now' = now /\ call' = call
      /\ passes' = [passes EXCEPT ![q] = @ + 1]
      /\ passAt' = [passAt EXCEPT ![q] = now]
      /\ CommitBuckets(q, t)
  BY DEF ExecPass, Answer, BatchPass
<1>0. now \in Nat /\ passAt \in [Requests -> Int] /\ passes \in [Requests -> Nat]
  BY DEF TypeOK, RedisTypeOK
<1>2. passAt'[q] = now
      /\ \A p \in Requests : p # q => passAt'[p] = passAt[p] /\ passes'[p] = passes[p]
  BY <1>0, <1>1
<1> SUFFICES ASSUME NEW i \in Of("tb"), NEW k \in BucketKeys, DOMAIN k.vals = Rules[i].dims
             PROVE  Flow(i, k)'
  BY DEF Flows
<1>3. Flow(i, k)
  BY DEF Flows
<1>4. \A s : Since(i, k, s)' \subseteq Since(i, k, s) \cup {q}
  BY <1>1, <1>2 DEF Since, CallKey
<1>5. CASE Hits("tb", k, q, t) = {}
  <2>1. buckets'[k] = buckets[k]
    BY <1>1, <1>5 DEF CommitBuckets
  <2>2. ASSUME NEW s PROVE Since(i, k, s)' \subseteq Since(i, k, s)
    <3>1. CallKey(i, q) # k
      BY <1>5 DEF Hits, CallKey
    <3>2. q \notin Since(i, k, s)'
      BY <1>1, <3>1 DEF Since, CallKey
    <3> QED
      BY <1>4, <3>2
  <2>3. ASSUME NEW s
        PROVE  Cardinality(Since(i, k, s)') \in Nat
               /\ Unit * Cardinality(Since(i, k, s)') <= Unit * Cardinality(Since(i, k, s))
               /\ Unit * Cardinality(Since(i, k, s)') \in Int
               /\ Unit * Cardinality(Since(i, k, s)) \in Int
    <3>1. Cardinality(Since(i, k, s)') <= Cardinality(Since(i, k, s))
          /\ Cardinality(Since(i, k, s)') \in Nat
      BY <2>2, SinceFinite, FS_Subset, FS_CardinalityType
    <3>2. Cardinality(Since(i, k, s)) \in Nat /\ Unit \in Nat
      BY SinceFinite, BucketRuleFacts
    <3> QED
      BY <3>1, <3>2, TimesMonotone, Times
  <2>4. buckets[k].ts \in Nat /\ buckets[k].tok \in Nat
    BY DEF TypeOK, RedisTypeOK
  <2>5. Rate(i) \in Nat /\ Full(i) \in Nat
    BY BucketRuleFacts
  <2>6. \A s \in Int : (now - s) * Rate(i) \in Int /\ (buckets[k].ts - s) * Rate(i) \in Int
    BY <1>0, <2>4, <2>5
  <2>7. CASE buckets[k].exp = 0
    <3> SUFFICES ASSUME NEW s \in 0 .. now
                 PROVE  Unit * Cardinality(Since(i, k, s)') <= (now - s) * Rate(i)
      BY <1>1, <2>1, <2>7 DEF Flow
    <3>1. Unit * Cardinality(Since(i, k, s)) <= (now - s) * Rate(i)
      BY <1>3, <2>7 DEF Flow
    <3> QED
      BY <1>0, <2>3, <2>6, <3>1
  <2>8. CASE buckets[k].exp # 0
    <3>1. ASSUME NEW s \in 0 .. buckets[k].ts
          PROVE  Unit * Cardinality(Since(i, k, s)') + buckets[k].tok
                   <= Full(i) + (buckets[k].ts - s) * Rate(i)
      <4>1. Unit * Cardinality(Since(i, k, s)) + buckets[k].tok
              <= Full(i) + (buckets[k].ts - s) * Rate(i)
        BY <1>3, <2>8 DEF Flow
      <4> QED
        BY <2>3, <2>4, <2>5, <2>6, <4>1
    <3>2. ASSUME NEW s \in 0 .. now, s > buckets[k].ts PROVE Since(i, k, s)' = {}
      <4>1. Since(i, k, s) = {}
        BY <1>3, <2>8, <3>2 DEF Flow
      <4> QED
        BY <2>2, <4>1
    <3>3. buckets[k].ts <= now /\ buckets[k].tok <= Full(i)
          /\ buckets[k].exp = buckets[k].ts + FillTime(i) + Grace
      BY <1>3, <2>8 DEF Flow
    <3> QED
      BY <1>1, <2>1, <2>8, <3>1, <3>2, <3>3 DEF Flow
  <2> QED
    BY <2>7, <2>8
<1>6. CASE Hits("tb", k, q, t) # {}
  <2> DEFINE j == LastHit("tb", k, q, t)
             R == Refilled(Rules[i], k)
  <2>1. j \in Of("tb") /\ Key(j, q, t) = k
    <3>1. j \in Hits("tb", k, q, t)
      BY <1>6, HitsFacts
    <3> QED
      BY <3>1 DEF Hits
  <2>2. Rules[j].dims = Rules[i].dims
    BY <2>1, BucketKeyFacts
  <2>3. Rules[j].burst = Rules[i].burst /\ TokenBucketRate(Rules[j]) = TokenBucketRate(Rules[i])
    BY <2>1, <2>2 DEF OneBucket
  <2>4. Refilled(Rules[j], k) = R
    BY <2>3 DEF Refilled
  <2>5. buckets'[k] = [tok |-> R - Unit, ts |-> now, exp |-> now + FillTime(i) + Grace]
    <3>1. buckets'[k] = [tok |-> Refilled(Rules[j], k) - Unit, ts |-> now,
                         exp |-> now + CeilDiv(Rules[j].burst * Unit, TokenBucketRate(Rules[j]))
                                   + Grace]
      BY <1>1, <1>6 DEF CommitBuckets
    <3> QED
      BY <2>3, <2>4, <3>1 DEF FillTime, Full, Rate
  <2>6. R \in Int /\ R <= Full(i)
        /\ (buckets[k].exp # 0 => R <= buckets[k].tok + (now - buckets[k].ts) * Rate(i))
    BY <1>3, RefilledFacts
  <2>7. Unit \in Nat \ {0} /\ Full(i) \in Nat /\ Rate(i) \in Nat /\ FillTime(i) \in Nat \ {0}
        /\ Grace \in Nat
    BY BucketRuleFacts, TimeAssumption
  <2>8. buckets[k].ts \in Nat /\ buckets[k].tok \in Nat /\ buckets[k].exp \in Nat
    BY DEF TypeOK, RedisTypeOK
  <2> HIDE DEF R, j
  <2>9. ASSUME NEW s
        PROVE  /\ Unit * Cardinality(Since(i, k, s)') \in Int
               /\ Unit * Cardinality(Since(i, k, s)) \in Int
               /\ Unit * Cardinality(Since(i, k, s)')
                    <= Unit * Cardinality(Since(i, k, s)) + Unit
    <3> DEFINE C == Since(i, k, s)
    <3>1. IsFiniteSet(C) /\ Cardinality(C) \in Nat
      BY SinceFinite
    <3>2. C' \subseteq C \cup {q}
      BY <1>4
    <3> HIDE DEF C
    <3>3. IsFiniteSet(C \cup {q})
          /\ Cardinality(C \cup {q}) = IF q \in C THEN Cardinality(C) ELSE Cardinality(C) + 1
      BY <3>1, FS_AddElement
    <3>4. Cardinality(C') <= Cardinality(C \cup {q}) /\ Cardinality(C') \in Nat
      BY <3>2, <3>3, FS_Subset, FS_CardinalityType
    <3>5. Cardinality(C') <= Cardinality(C) + 1
      BY <3>1, <3>3, <3>4
    <3>6. Unit * Cardinality(C') <= Unit * (Cardinality(C) + 1)
      BY <2>7, <3>1, <3>4, <3>5, TimesMonotone
    <3>7. Unit * (Cardinality(C) + 1) = Unit * Cardinality(C) + Unit
      BY <2>7, <3>1
    <3>8. Unit * Cardinality(C') \in Int /\ Unit * Cardinality(C) \in Int
      BY <2>7, <3>1, <3>4
    <3> QED
      BY <3>6, <3>7, <3>8 DEF C
  <2>10. \A s \in Int : /\ (now - s) * Rate(i) \in Int /\ (buckets[k].ts - s) * Rate(i) \in Int
                        /\ (now - buckets[k].ts) * Rate(i) \in Int
                        /\ (now - s) * Rate(i)
                             = (now - buckets[k].ts) * Rate(i) + (buckets[k].ts - s) * Rate(i)
    BY <1>0, <2>7, <2>8
  <2>11. ASSUME NEW s \in 0 .. now
         PROVE  Unit * Cardinality(Since(i, k, s)') + (R - Unit) <= Full(i) + (now - s) * Rate(i)
    <3>1. CASE buckets[k].exp = 0
      <4>1. Unit * Cardinality(Since(i, k, s)) <= (now - s) * Rate(i)
        BY <1>3, <3>1 DEF Flow
      <4> QED
        BY <1>0, <2>6, <2>7, <2>9, <2>10, <4>1
    <3>2. CASE buckets[k].exp # 0 /\ s <= buckets[k].ts
      <4>1. Unit * Cardinality(Since(i, k, s)) + buckets[k].tok
              <= Full(i) + (buckets[k].ts - s) * Rate(i)
        <5>1. s \in 0 .. buckets[k].ts
          BY <1>0, <2>8, <3>2
        <5> QED
          BY <1>3, <3>2, <5>1 DEF Flow
      <4>2. ASSUME NEW A \in Int, NEW B \in Int, NEW X \in Int, NEW Y \in Int, NEW Z \in Int,
                   NEW u \in Int, NEW tok \in Int, NEW full \in Int, NEW ref \in Int,
                   A <= B + u, B + tok <= full + Y, ref <= tok + X, Z = X + Y
            PROVE  A + (ref - u) <= full + Z
        BY <4>2
      <4>3. s \in Int /\ Unit \in Int /\ Full(i) \in Int /\ buckets[k].tok \in Int /\ R \in Int
        BY <1>0, <2>6, <2>7, <2>8
      <4>4. R <= buckets[k].tok + (now - buckets[k].ts) * Rate(i)
        BY <2>6, <3>2
      <4> QED
        BY <2>9, <2>10, <4>1, <4>2, <4>3, <4>4
    <3>3. CASE buckets[k].exp # 0 /\ ~(s <= buckets[k].ts)
      <4>1. Since(i, k, s) = {}
        <5>1. s > buckets[k].ts
          BY <1>0, <2>8, <3>3
        <5> QED
          BY <1>3, <3>3, <5>1 DEF Flow
      <4>2. Unit * Cardinality(Since(i, k, s)) = 0
        BY <2>7, <4>1, FS_EmptySet
      <4>3. (now - s) * Rate(i) \in Nat
        <5>1. now - s \in Nat
          BY <1>0
        <5> QED
          BY <2>7, <5>1
      <4> QED
        BY <1>0, <2>6, <2>7, <2>9, <4>2, <4>3
    <3> QED
      BY <3>1, <3>2, <3>3
  <2>12. ASSUME NEW s \in 0 .. now', s > now PROVE Since(i, k, s)' = {}
    BY <1>0, <1>1, <2>12
  <2>13. now + FillTime(i) + Grace # 0 /\ R - Unit <= Full(i)
    BY <1>0, <2>6, <2>7
  <2> QED
    BY <1>0, <1>1, <2>5, <2>11, <2>12, <2>13 DEF Flow
<1> QED
  BY <1>5, <1>6

\* Time passes: a bucket that expires has had the time to fill up.
LEMMA FlowTick ==
  ASSUME TypeOK, PassTimes, Flows, Tick
  PROVE  Flows'
<1>1. now' = now + 1 /\ passes' = passes /\ call' = call /\ passAt' = passAt
  BY DEF Tick, RedisTick, gwVars
<1>0. now \in Nat /\ passAt \in [Requests -> Int] /\ Grace \in Nat
  BY TimeAssumption DEF TypeOK, RedisTypeOK
<1> SUFFICES ASSUME NEW i \in Of("tb"), NEW k \in BucketKeys, DOMAIN k.vals = Rules[i].dims
             PROVE  Flow(i, k)'
  BY DEF Flows
<1>2. Flow(i, k)
  BY DEF Flows
<1>3. \A s : Since(i, k, s)' = Since(i, k, s)
  BY <1>1 DEF Since, CallKey
<1>4. Since(i, k, now + 1) = {}
  <2>1. ASSUME NEW p \in Requests, passes[p] > 0 PROVE ~(passAt[p] >= now + 1)
    BY <1>0, <2>1 DEF PassTimes
  <2> QED
    BY <2>1 DEF Since
<1>5. Rate(i) \in Nat /\ Full(i) \in Nat /\ FillTime(i) \in Nat \ {0} /\ Unit \in Nat
      /\ FillTime(i) * Rate(i) >= Full(i)
  BY BucketRuleFacts
<1>6. buckets[k].ts \in Nat /\ buckets[k].tok \in Nat /\ buckets[k].exp \in Nat
  BY DEF TypeOK, RedisTypeOK
<1>7. buckets'[k] = IF buckets[k].exp < now + 1 THEN NoBucket ELSE buckets[k]
  BY <1>1 DEF Tick, RedisTick
<1>8. \A s : Unit * Cardinality(Since(i, k, s)) \in Int
  BY <1>5, SinceFinite
<1>9. Unit * Cardinality(Since(i, k, now + 1)) = 0 /\ (now + 1 - (now + 1)) * Rate(i) = 0
  <2>1. now + 1 - (now + 1) = 0
    BY <1>0
  <2>2. 0 * Rate(i) = 0
    BY <1>5
  <2>3. Cardinality(Since(i, k, now + 1)) = 0
    BY <1>4, FS_EmptySet
  <2>4. Unit * 0 = 0
    BY <1>5
  <2> QED
    BY <2>1, <2>2, <2>3, <2>4
<1>10. CASE buckets[k].exp = 0
  <2>1. buckets'[k].exp = 0
    BY <1>0, <1>7, <1>10 DEF NoBucket
  <2> SUFFICES ASSUME NEW s \in 0 .. now'
               PROVE  Unit * Cardinality(Since(i, k, s)') <= (now' - s) * Rate(i)
    BY <2>1 DEF Flow
  <2> s \in 0 .. (now + 1)
    BY <1>1
  <2> SUFFICES Unit * Cardinality(Since(i, k, s)) <= (now + 1 - s) * Rate(i)
    <3>1. Since(i, k, s)' = Since(i, k, s)
      BY <1>3
    <3>2. now' - s = now + 1 - s
      BY <1>0, <1>1
    <3> QED
      BY <3>1, <3>2, Zenon
  <2>2. CASE s = now + 1
    BY <1>9, <2>2
  <2>3. CASE s # now + 1
    <3>1. s \in 0 .. now
      BY <1>0, <2>3
    <3>2. Unit * Cardinality(Since(i, k, s)) <= (now - s) * Rate(i)
      BY <1>2, <1>10, <3>1 DEF Flow
    <3>3. (now - s) * Rate(i) <= (now + 1 - s) * Rate(i)
      <4>1. now - s <= now + 1 - s /\ now - s \in Int /\ now + 1 - s \in Int
        BY <1>0, <3>1
      <4> QED
        BY <1>5, <4>1, TimesMonotone
    <3>4. (now - s) * Rate(i) \in Int /\ (now + 1 - s) * Rate(i) \in Int
      BY <1>0, <1>5, <3>1
    <3> QED
      BY <1>8, <3>2, <3>3, <3>4
  <2> QED
    BY <2>2, <2>3
<1>11. CASE buckets[k].exp # 0 /\ buckets[k].exp < now + 1
  <2>1. buckets'[k].exp = 0
    BY <1>7, <1>11 DEF NoBucket
  <2> SUFFICES ASSUME NEW s \in 0 .. now'
               PROVE  Unit * Cardinality(Since(i, k, s)') <= (now' - s) * Rate(i)
    BY <2>1 DEF Flow
  <2> s \in 0 .. (now + 1)
    BY <1>1
  <2> SUFFICES Unit * Cardinality(Since(i, k, s)) <= (now + 1 - s) * Rate(i)
    <3>1. Since(i, k, s)' = Since(i, k, s)
      BY <1>3
    <3>2. now' - s = now + 1 - s
      BY <1>0, <1>1
    <3> QED
      BY <3>1, <3>2, Zenon
  <2>2. buckets[k].exp = buckets[k].ts + FillTime(i) + Grace /\ buckets[k].ts <= now
    BY <1>2, <1>11 DEF Flow
  <2>3. FillTime(i) <= now + 1 - buckets[k].ts
    BY <1>0, <1>5, <1>6, <1>11, <2>2
  <2>4. Full(i) <= (now + 1 - buckets[k].ts) * Rate(i)
    <3>1. FillTime(i) * Rate(i) <= (now + 1 - buckets[k].ts) * Rate(i)
      BY <1>0, <1>5, <1>6, <2>3, TimesMonotone
    <3>2. FillTime(i) * Rate(i) \in Int /\ (now + 1 - buckets[k].ts) * Rate(i) \in Int
      BY <1>0, <1>5, <1>6
    <3> QED
      BY <1>5, <3>1, <3>2
  <2>5. s \in Int
    BY <1>0
  <2>6. /\ (now + 1 - s) * Rate(i) \in Int /\ (buckets[k].ts - s) * Rate(i) \in Int
        /\ (now + 1 - buckets[k].ts) * Rate(i) \in Int
        /\ (now + 1 - s) * Rate(i)
             = (now + 1 - buckets[k].ts) * Rate(i) + (buckets[k].ts - s) * Rate(i)
    BY <1>0, <1>5, <1>6, <2>5
  <2>7. CASE s <= buckets[k].ts
    <3>1. s \in 0 .. buckets[k].ts
      BY <1>0, <1>6, <2>7
    <3>2. Unit * Cardinality(Since(i, k, s)) + buckets[k].tok
            <= Full(i) + (buckets[k].ts - s) * Rate(i)
      BY <1>2, <1>11, <3>1 DEF Flow
    <3> QED
      BY <1>5, <1>6, <1>8, <2>4, <2>6, <3>2
  <2>8. CASE ~(s <= buckets[k].ts)
    <3>1. Since(i, k, s) = {}
      <4>1. CASE s = now + 1
        BY <1>4, <4>1
      <4>2. CASE s # now + 1
        <5>1. s \in 0 .. now /\ s > buckets[k].ts
          BY <1>0, <1>6, <2>8, <4>2
        <5> QED
          BY <1>2, <1>11, <5>1 DEF Flow
      <4> QED
        BY <4>1, <4>2
    <3>2. Unit * Cardinality(Since(i, k, s)) = 0
      BY <1>5, <3>1, FS_EmptySet
    <3>3. (now + 1 - s) * Rate(i) \in Nat
      <4>1. now + 1 - s \in Nat
        BY <1>0
      <4> QED
        BY <1>5, <4>1
    <3> QED
      BY <3>2, <3>3
  <2> QED
    BY <2>7, <2>8
<1>12. CASE buckets[k].exp # 0 /\ ~(buckets[k].exp < now + 1)
  <2>1. buckets'[k] = buckets[k]
    BY <1>7, <1>12
  <2>2. buckets[k].ts <= now + 1
    BY <1>0, <1>2, <1>6, <1>12 DEF Flow
  <2>3. ASSUME NEW s \in 0 .. (now + 1), s > buckets[k].ts PROVE Since(i, k, s) = {}
    <3>1. CASE s = now + 1
      BY <1>4, <3>1
    <3>2. CASE s # now + 1
      <4>1. s \in 0 .. now
        BY <1>0, <3>2
      <4> QED
        BY <1>2, <1>12, <2>3, <4>1 DEF Flow
    <3> QED
      BY <3>1, <3>2
  <2> QED
    BY <1>1, <1>2, <1>3, <1>12, <2>1, <2>2, <2>3 DEF Flow
<1> QED
  BY <1>10, <1>11, <1>12

\* Only admissions and time write a bucket.
LEMMA BucketQuiet ==
  ASSUME [Next]_vars
  PROVE  \/ \E q \in Requests, a \in 0 .. MaxRetries : ExecPass(q, a)
         \/ Tick
         \/ buckets' = buckets
<1>1. ASSUME NEW q \in Requests, NEW a \in 0 .. MaxRetries, NEW i \in RuleIds,
             ExecReject(q, a, i)
      PROVE  buckets' = buckets
  BY <1>1 DEF ExecReject, BatchReject
<1>2. ASSUME NEW q \in Requests,
             \/ Check(q) \/ Resend(q) \/ Decide(q) \/ FailClose(q) \/ DegradeAllow(q)
             \/ Finish(q) \/ ReleaseLost(q)
             \/ \E a \in 0 .. MaxRetries : LoseCommand(q, a)
             \/ \E j \in LocalQuotaRules : DegradeReject(q, j)
             \/ \E d \in 1 .. MaxDelta : TokenReserve(q, d)
      PROVE  buckets' = buckets
  BY <1>2 DEF Check, Resend, Decide, FailClose, DegradeAllow, DegradeReject, Finish,
              ReleaseLost, LoseCommand, TokenReserve, LedgerReserve, redisVars
<1>3. ASSUME NEW q \in Requests, ReleaseExec(q) PROVE buckets' = buckets
  BY <1>3 DEF ReleaseExec, ReleaseConc
<1>4. ASSUME NEW i \in Instances, Crash(i) PROVE buckets' = buckets
  BY <1>4 DEF Crash, redisVars
<1>5. ASSUME UNCHANGED vars PROVE buckets' = buckets
  BY <1>5 DEF vars, redisVars
<1> QED
  BY <1>1, <1>2, <1>3, <1>4, <1>5, NextCases

\* Times of admissions, by every step.
LEMMA PassTimesStep == TypeOK /\ CallTimes /\ PassTimes /\ [Next]_vars => PassTimes'
<1> SUFFICES ASSUME TypeOK, CallTimes, PassTimes, [Next]_vars PROVE PassTimes'
  OBVIOUS
<1>0. now \in Nat /\ passAt \in [Requests -> Int] /\ passes \in [Requests -> Nat]
  BY DEF TypeOK, RedisTypeOK
<1>1. ASSUME NEW q \in Requests, NEW a \in 0 .. MaxRetries, ExecPass(q, a) PROVE PassTimes'
  <2>1. /\ now' = now
        /\ passes' = [passes EXCEPT ![q] = @ + 1]
        /\ passAt' = [passAt EXCEPT ![q] = now]
    BY <1>1 DEF ExecPass, BatchPass
  <2> QED
    BY <1>0, <2>1 DEF PassTimes
<1>2. ASSUME passes' = passes, passAt' = passAt, now' \in {now, now + 1} PROVE PassTimes'
  BY <1>0, <1>2 DEF PassTimes
<1> QED
  BY <1>1, <1>2, FixedQuiet DEF Tick, RedisTick, gwVars

BucketInv == TypeOK /\ CallTimes /\ PassTimes /\ Flows

\* Every step keeps the flow of every bucket.
LEMMA BucketInvStep == OneBucket /\ BucketInv /\ [Next]_vars => BucketInv'
<1> SUFFICES ASSUME OneBucket, BucketInv, [Next]_vars PROVE BucketInv'
  OBVIOUS
<1>1. TypeOK' /\ CallTimes' /\ PassTimes'
  BY NextType, CallTimesStep, PassTimesStep DEF BucketInv
<1>2. ASSUME now' = now, passes' = passes, passAt' = passAt, buckets' = buckets,
             \A q \in Requests : passes[q] > 0 => call'[q] = call[q]
      PROVE  Flows'
  <2>1. ASSUME NEW i, NEW k, NEW s PROVE Since(i, k, s)' = Since(i, k, s)
    BY <1>2 DEF Since, CallKey
  <2>2. ASSUME NEW i \in Of("tb"), NEW k \in BucketKeys, DOMAIN k.vals = Rules[i].dims
        PROVE  Flow(i, k)'
    <3>1. Flow(i, k)
      BY <2>2 DEF BucketInv, Flows
    <3> QED
      BY <1>2, <2>1, <3>1 DEF Flow
  <2> QED
    BY <2>2 DEF Flows
<1>3. Flows'
  BY <1>2, FlowPass, FlowTick, FixedQuiet, BucketQuiet DEF BucketInv
<1> QED
  BY <1>1, <1>3 DEF BucketInv

\* The bound for a stretch that ends now.
BoundNow ==
  \A i \in Of("tb"), k \in BucketKeys, s \in 0 .. now :
    Unit * Cardinality(Since(i, k, s)) <= Full(i) + (now - s) * Rate(i)

\* It follows from the flow.
LEMMA FlowBounds == BucketInv => BoundNow
<1> SUFFICES ASSUME BucketInv, NEW i \in Of("tb"), NEW k \in BucketKeys, NEW s \in 0 .. now
             PROVE  Unit * Cardinality(Since(i, k, s)) <= Full(i) + (now - s) * Rate(i)
  BY DEF BoundNow
<1>0. now \in Nat /\ s \in Int /\ s <= now
  BY DEF BucketInv, TypeOK, RedisTypeOK
<1>1. Unit \in Nat /\ Full(i) \in Nat /\ Rate(i) \in Nat
  BY BucketRuleFacts
<1>2. buckets[k].ts \in Nat /\ buckets[k].tok \in Nat /\ buckets[k].exp \in Nat
  BY DEF BucketInv, TypeOK, RedisTypeOK
<1>3. (now - s) * Rate(i) \in Nat
  <2>1. now - s \in Nat
    BY <1>0
  <2> QED
    BY <1>1, <2>1
<1>4. Unit * Cardinality(Since(i, k, s)) \in Int
  BY <1>1, SinceFinite
<1>5. CASE Since(i, k, s) = {}
  <2>1. Unit * Cardinality(Since(i, k, s)) = 0
    BY <1>1, <1>5, FS_EmptySet
  <2> QED
    BY <1>1, <1>3, <2>1
<1>6. CASE Since(i, k, s) # {}
  <2>1. DOMAIN k.vals = Rules[i].dims
    <3>1. PICK q \in Requests : CallKey(i, q) = k
      BY <1>6 DEF Since
    <3> QED
      BY <3>1, BucketKeyFacts DEF CallKey
  <2>2. Flow(i, k)
    BY <2>1 DEF BucketInv, Flows
  <2>3. CASE buckets[k].exp = 0
    <3>1. Unit * Cardinality(Since(i, k, s)) <= (now - s) * Rate(i)
      BY <2>2, <2>3 DEF Flow
    <3> QED
      BY <1>1, <1>3, <1>4, <3>1
  <2>4. CASE buckets[k].exp # 0
    <3>1. s <= buckets[k].ts
      <4>1. CASE s > buckets[k].ts
        BY <1>6, <2>2, <2>4, <4>1 DEF Flow
      <4> QED
        BY <1>0, <1>2, <4>1
    <3>2. s \in 0 .. buckets[k].ts
      BY <1>0, <1>2, <3>1
    <3>3. Unit * Cardinality(Since(i, k, s)) + buckets[k].tok
            <= Full(i) + (buckets[k].ts - s) * Rate(i)
      BY <2>2, <2>4, <3>2 DEF Flow
    <3>4. (buckets[k].ts - s) * Rate(i) <= (now - s) * Rate(i)
      <4>1. buckets[k].ts <= now
        BY <2>2, <2>4 DEF Flow
      <4>2. buckets[k].ts - s <= now - s /\ buckets[k].ts - s \in Int /\ now - s \in Int
        BY <1>0, <1>2, <4>1
      <4> QED
        BY <1>1, <4>2, TimesMonotone
    <3>5. (buckets[k].ts - s) * Rate(i) \in Int
      BY <1>0, <1>1, <1>2
    <3> QED
      BY <1>1, <1>2, <1>3, <1>4, <3>3, <3>4, <3>5
  <2> QED
    BY <2>3, <2>4
<1> QED
  BY <1>5, <1>6

\* A stretch that is over gains no admission; one that ends now is BoundNow.
LEMMA BucketBoundStep ==
  ASSUME BucketInv, BucketInv', BoundNow', BucketBound, [Next]_vars
  PROVE  BucketBound'
<1> DEFINE Stretch(i, k, s, t) ==
             {q \in Requests : /\ passes[q] > 0 /\ CallKey(i, q) = k
                               /\ passAt[q] \in s .. t}
<1> SUFFICES ASSUME NEW i \in Of("tb"), NEW k \in BucketKeys,
                    NEW s \in 0 .. now', NEW t \in 0 .. now', s <= t
             PROVE  Unit * Cardinality(Stretch(i, k, s, t)') <= Full(i) + (t - s) * Rate(i)
  <2>2. \A j \in Of("tb") : Unit * Rules[j].burst = Full(j)
    <3>1. \A j \in Of("tb") : Unit \in Nat /\ Rules[j].burst \in Nat
      BY UnitAssumption, RuleFacts DEF Of, Rule
    <3> QED
      BY <3>1 DEF Full
  <2> QED
    BY <2>2 DEF BucketBound, Rate
<1>0. now \in Nat /\ now' \in Nat /\ s \in Int /\ t \in Int
      /\ passAt \in [Requests -> Int] /\ passes \in [Requests -> Nat]
  <2>1. now \in Nat /\ passAt \in [Requests -> Int] /\ passes \in [Requests -> Nat]
    BY DEF BucketInv, TypeOK, RedisTypeOK
  <2>2. now' \in {now, now + 1}
    BY FixedQuiet DEF BucketInv, ExecPass, BatchPass, Tick, RedisTick
  <2> QED
    BY <2>1, <2>2
<1>1. Unit \in Nat /\ Full(i) \in Nat /\ Rate(i) \in Nat
  BY BucketRuleFacts
<1>2. CASE t = now'
  <2>1. Stretch(i, k, s, t)' = Since(i, k, s)'
    <3>1. \A q \in Requests : passAt'[q] \in Int /\ (passes'[q] > 0 => passAt'[q] <= now')
      BY DEF BucketInv, TypeOK, PassTimes
    <3> QED
      BY <1>0, <1>2, <3>1 DEF Since
  <2>2. Unit * Cardinality(Since(i, k, s)') <= Full(i) + (now' - s) * Rate(i)
    BY DEF BoundNow
  <2> QED
    BY <1>2, <2>1, <2>2
<1>3. CASE t # now'
  <2>1. t < now'
    BY <1>0, <1>3
  <2>2. Stretch(i, k, s, t)' \subseteq Stretch(i, k, s, t) /\ t <= now
    <3>1. ASSUME NEW q \in Requests, NEW a \in 0 .. MaxRetries, ExecPass(q, a)
          PROVE  Stretch(i, k, s, t)' \subseteq Stretch(i, k, s, t) /\ t <= now
      <4>1. /\ now' = now /\ call' = call
            /\ passes' = [passes EXCEPT ![q] = @ + 1]
            /\ passAt' = [passAt EXCEPT ![q] = now]
        BY <3>1 DEF ExecPass, Answer, BatchPass
      <4>2. passAt'[q] \notin s .. t
        BY <1>0, <2>1, <4>1
      <4>3. \A p \in Requests : p # q => passAt'[p] = passAt[p] /\ passes'[p] = passes[p]
        BY <1>0, <4>1
      <4>4. Stretch(i, k, s, t)' \subseteq Stretch(i, k, s, t)
        BY <4>1, <4>2, <4>3 DEF CallKey
      <4> QED
        BY <1>0, <2>1, <4>1, <4>4
    <3>2. ASSUME passes' = passes, passAt' = passAt, now' \in {now, now + 1},
                 \A q \in Requests : passes[q] > 0 => call'[q] = call[q]
          PROVE  Stretch(i, k, s, t)' \subseteq Stretch(i, k, s, t) /\ t <= now
      <4>1. Stretch(i, k, s, t)' \subseteq Stretch(i, k, s, t)
        BY <3>2 DEF CallKey
      <4> QED
        BY <1>0, <2>1, <3>2, <4>1
    <3> HIDE DEF Stretch
    <3> QED
      BY <3>1, <3>2, FixedQuiet DEF BucketInv, Tick, RedisTick, gwVars
  <2>3. Unit * Cardinality(Stretch(i, k, s, t)) <= Full(i) + (t - s) * Rate(i)
    <3>1. s \in 0 .. now /\ t \in 0 .. now
      BY <1>0, <2>2
    <3>2. Unit * Rules[i].burst = Full(i)
      <4>1. Unit \in Nat /\ Rules[i].burst \in Nat
        BY UnitAssumption, RuleFacts DEF Of, Rule
      <4> QED
        BY <4>1 DEF Full
    <3> QED
      BY <3>1, <3>2 DEF BucketBound, Rate
  <2>4. IsFiniteSet(Stretch(i, k, s, t)) /\ Cardinality(Stretch(i, k, s, t)) \in Nat
    BY RequestsAssumption, FS_Subset, FS_CardinalityType
  <2> HIDE DEF Stretch
  <2>5. Cardinality(Stretch(i, k, s, t)') <= Cardinality(Stretch(i, k, s, t))
        /\ Cardinality(Stretch(i, k, s, t)') \in Nat
    BY <2>2, <2>4, FS_Subset, FS_CardinalityType
  <2>6. Unit * Cardinality(Stretch(i, k, s, t)') <= Unit * Cardinality(Stretch(i, k, s, t))
    BY <1>1, <2>4, <2>5, TimesMonotone
  <2>7. Unit * Cardinality(Stretch(i, k, s, t)') \in Int
        /\ Unit * Cardinality(Stretch(i, k, s, t)) \in Int /\ (t - s) * Rate(i) \in Int
    BY <1>0, <1>1, <2>4, <2>5
  <2> QED
    BY <1>1, <2>3, <2>6, <2>7
<1> QED
  BY <1>2, <1>3

\* In the beginning nothing has flowed.
LEMMA BucketInvInit ==
  ASSUME Init
  PROVE  BucketInv
<1>1. TypeOK /\ CallTimes
  BY QuotaInit DEF QuotaInv
<1>2. PassTimes /\ \A i, k, s : Since(i, k, s) = {}
  BY DEF Init, PassTimes, Since
<1>3. now = 0 /\ \A k \in BucketKeys : buckets[k].exp = 0
  BY DEF Init, RedisInit, NoBucket
<1>4. ASSUME NEW i \in Of("tb"), NEW k \in BucketKeys PROVE Flow(i, k)
  <2> SUFFICES ASSUME NEW s \in 0 .. now
               PROVE  Unit * Cardinality(Since(i, k, s)) <= (now - s) * Rate(i)
    BY <1>3 DEF Flow
  <2>1. Unit \in Nat /\ Rate(i) \in Nat /\ now - s = 0
    <3>0. now = 0 /\ s \in 0 .. 0
      BY <1>3
    <3>1. s = 0
      BY <3>0, SMT
    <3>2. now - s = 0
      BY <3>0, <3>1, SMT
    <3> QED
      BY <3>2, BucketRuleFacts
  <2>2. Cardinality(Since(i, k, s)) = 0
    BY <1>2, FS_EmptySet
  <2>3. Unit * 0 = 0 /\ 0 * Rate(i) = 0
    BY <2>1
  <2> QED
    BY <2>1, <2>2, <2>3
<1> QED
  BY <1>1, <1>2, <1>4 DEF BucketInv, Flows

\* A token bucket admits at most burst + rate * T requests in T ticks, its expiry and
\* re-creation included, if the rules that share it agree on burst and rate.
THEOREM BucketHolds == OneBucket => (Spec => []BucketBound)
<1> SUFFICES ASSUME OneBucket PROVE Spec => []BucketBound
  OBVIOUS
<1>1. Init => BucketInv /\ BucketBound
  <2> SUFFICES ASSUME Init PROVE BucketInv /\ BucketBound
    OBVIOUS
  <2>3. now = 0
    BY DEF Init, RedisInit
  <2>5. BucketInv
    BY BucketInvInit
  <2>6. ASSUME NEW i \in Of("tb"), NEW k \in BucketKeys, NEW s \in 0 .. now, NEW t \in 0 .. now
        PROVE  Unit * Cardinality({q \in Requests : /\ passes[q] > 0 /\ CallKey(i, q) = k
                                                    /\ passAt[q] \in s .. t})
                 <= Unit * Rules[i].burst + (t - s) * TokenBucketRate(Rules[i])
    <3>1. {q \in Requests : passes[q] > 0 /\ CallKey(i, q) = k /\ passAt[q] \in s .. t} = {}
      BY DEF Init
    <3>2. Cardinality({q \in Requests : /\ passes[q] > 0 /\ CallKey(i, q) = k
                                        /\ passAt[q] \in s .. t}) = 0
      BY <3>1, FS_EmptySet
    <3>3. Unit \in Nat /\ Rules[i].burst \in Nat /\ TokenBucketRate(Rules[i]) \in Nat /\ t - s = 0
      BY <2>3, BucketRuleFacts, RuleFacts DEF Of, Rule, Rate
    <3>4. Unit * 0 = 0 /\ 0 * TokenBucketRate(Rules[i]) = 0 /\ Unit * Rules[i].burst \in Nat
      BY <3>3
    <3> QED
      BY <3>2, <3>3, <3>4
  <2>7. BucketBound
    BY <2>6 DEF BucketBound
  <2> QED
    BY <2>5, <2>7
<1>2. BucketInv /\ [Next]_vars => BucketInv'
  BY BucketInvStep
<1>3. BucketInv => BoundNow
  BY FlowBounds
<1>4. BucketInv /\ BucketInv' /\ BoundNow' /\ BucketBound /\ [Next]_vars => BucketBound'
  BY BucketBoundStep DEF BucketInv
<1> QED
  BY <1>1, <1>2, <1>3, <1>4, PTL DEF Spec
-----------------------------------------------------------------------------
(***************************************************************************)
(* The negative cache.                                                     *)
(***************************************************************************)
\* Until Redis's time d, rule r rejects on key k, whatever is executed till then: a
\* counter at its limit that does not expire before; ...
FixedBar(r, k, d) ==
  now < d => counters[k].n + 1 > Rules[r].limit /\ counters[k].exp >= d

\* ... as many entries as the limit that do not leave the window before; ...
Fresh(k, c) == {m \in ReqIds : slides[k][m] # Absent /\ slides[k][m] >= c}
SlideBar(r, k, d) ==
  now < d => Cardinality(Fresh(k, d - Rules[r].win)) + 1 > Rules[r].limit

\* ... or a bucket that has not got a whole token before and does not expire.
BucketBar(r, k, d) ==
  now < d => /\ buckets[k].exp # 0 /\ d <= buckets[k].exp
             /\ buckets[k].tok + (d - 1 - buckets[k].ts) * Rate(r) < Unit

Barred(r, k, d) ==
  /\ Rules[r].alg = "fixed" => FixedBar(r, k, d)
  /\ Rules[r].alg = "sliding" => SlideBar(r, k, d)
  /\ Rules[r].alg = "tb" => BucketBar(r, k, d)

\* No entry of a sliding window lies in the future.
SlideTimes == \A k \in SlideKeys, m \in ReqIds : slides[k][m] <= now

\* A counter stays at its limit.
LEMMA FixedBarStep ==
  ASSUME TypeOK, CallTimes, [Next]_vars, NEW r \in Of("fixed"), NEW k \in FixedKeys,
         NEW d \in Int, FixedBar(r, k, d)
  PROVE  FixedBar(r, k, d)'
<1>1. k \in CounterKeys
  BY DEF CounterKeys
<1>2. counters[k].n \in Nat /\ counters[k].exp \in Nat /\ now \in Nat
  BY <1>1 DEF TypeOK, RedisTypeOK
<1>3. Rules[r].limit \in Nat \ {0}
  BY RuleFacts DEF Of, Rule
<1>4. ASSUME NEW q \in Requests, NEW a \in 0 .. MaxRetries, ExecPass(q, a)
      PROVE  FixedBar(r, k, d)'
  <2> DEFINE H == Hits("fixed", k, q, call[q].ts)
  <2>1. now' = now /\ CommitFixed(q, call[q].ts)
    BY <1>4 DEF ExecPass, BatchPass
  <2>2. CASE H = {}
    <3>1. counters'[k] = counters[k]
      BY <1>1, <2>1, <2>2 DEF CommitFixed
    <3> QED
      BY <2>1, <3>1 DEF FixedBar
  <2>3. CASE H # {}
    <3>1. Cardinality(H) \in Nat
      BY HitsFacts
    <3>2. counters'[k] = [n |-> counters[k].n + Cardinality(H),
                          exp |-> IF counters[k].n = 0 THEN now + k.win + Grace
                                                       ELSE counters[k].exp]
      BY <1>1, <2>1, <2>3 DEF CommitFixed
    <3> HIDE DEF H
    <3>3. counters'[k].n = counters[k].n + Cardinality(H)
          /\ (counters[k].n # 0 => counters'[k].exp = counters[k].exp)
      BY <3>2
    <3> QED
      BY <1>2, <1>3, <2>1, <3>1, <3>3 DEF FixedBar
  <2> QED
    BY <2>2, <2>3
<1>5. ASSUME Tick PROVE FixedBar(r, k, d)'
  <2>1. now' = now + 1
        /\ counters'[k] = IF counters[k].exp < now' THEN NoCounter ELSE counters[k]
    BY <1>1, <1>5 DEF Tick, RedisTick
  <2> QED
    BY <1>2, <1>3, <2>1 DEF FixedBar
<1>6. ASSUME now' = now, \A x \in FixedKeys : counters'[x] = counters[x]
      PROVE  FixedBar(r, k, d)'
  BY <1>6 DEF FixedBar
<1> QED
  BY <1>4, <1>5, <1>6, FixedQuiet

\* The entries of a sorted set that are at least c.
LEMMA FreshFinite ==
  ASSUME NEW k, NEW c
  PROVE  IsFiniteSet(Fresh(k, c)) /\ Cardinality(Fresh(k, c)) \in Nat
BY ReqIdAssumption, FS_Subset, FS_CardinalityType DEF Fresh

\* They stay within the window: a sweep takes older ones, an admission writes the time.
LEMMA SlideBarStep ==
  ASSUME TypeOK, CallTimes, SlideTimes, [Next]_vars, NEW r \in Of("sliding"),
         NEW k \in SlideKeys, k.win = Rules[r].win, NEW d \in Int, SlideBar(r, k, d)
  PROVE  SlideBar(r, k, d)'
<1> DEFINE c == d - Rules[r].win
<1>1. Rules[r].limit \in Nat \ {0} /\ Rules[r].win \in Nat
  BY RuleFacts DEF Of, Rule
<1>2. slides[k] \in ZSet /\ now \in Nat /\ c \in Int
  BY <1>1 DEF TypeOK, RedisTypeOK, ZSet
<1>3. \A m \in ReqIds : slides[k][m] \in Int /\ slides[k][m] <= now
  BY <1>2 DEF ZSet, Absent, SlideTimes
<1>4. now' \in {now, now + 1}
  BY FixedQuiet DEF ExecPass, BatchPass, Tick, RedisTick
<1>5. ASSUME now' < d, NEW m \in Fresh(k, c)
      PROVE  m \in Fresh(k, c)'
  <2>1. m \in ReqIds /\ slides[k][m] # Absent /\ slides[k][m] >= c
    BY DEF Fresh
  <2>2. ~(slides[k][m] <= now - k.win)
    BY <1>1, <1>2, <1>3, <1>4, <1>5, <2>1
  <2>3. Sweep(slides[k], now - k.win)[m] = slides[k][m]
    BY <1>2, <2>1, <2>2, SweepKeeps
  <2>4. Sweep(slides[k], now - k.win) \in ZSet
    BY <1>2, ZSetFacts
  <2>5. ASSUME NEW q \in Requests, NEW a \in 0 .. MaxRetries, ExecPass(q, a)
        PROVE  slides'[k][m] # Absent /\ slides'[k][m] >= c
    <3>1. slides'[k] = slides[k]
          \/ slides'[k] = [Sweep(slides[k], now - k.win) EXCEPT ![ReqId[q]] = now]
      BY <2>5 DEF ExecPass, BatchPass, CommitSliding
    <3>2. slides'[k][m] \in {slides[k][m], now}
      BY <2>1, <2>3, <2>4, <3>1 DEF ZSet
    <3>3. now # Absent /\ now >= c
      BY <1>2, <1>3, <2>1 DEF Absent
    <3> QED
      BY <2>1, <3>2, <3>3
  <2>6. ASSUME ~\E q \in Requests, a \in 0 .. MaxRetries : ExecPass(q, a)
        PROVE  slides'[k][m] # Absent /\ slides'[k][m] >= c
    <3>1. slides'[k] = slides[k] \/ slides'[k] = Sweep(slides[k], now - k.win)
      BY <2>6, SlidesSwept
    <3> QED
      BY <2>1, <2>3, <3>1
  <2> QED
    BY <2>1, <2>5, <2>6 DEF Fresh
<1>6. ASSUME now' < d
      PROVE  Cardinality(Fresh(k, c)') + 1 > Rules[r].limit
  <2>1. Fresh(k, c) \subseteq Fresh(k, c)'
    BY <1>5, <1>6
  <2>2. IsFiniteSet(Fresh(k, c)')
    BY ReqIdAssumption, FS_Subset DEF Fresh
  <2>3. Cardinality(Fresh(k, c)) <= Cardinality(Fresh(k, c)') /\ Cardinality(Fresh(k, c)') \in Nat
    BY <2>1, <2>2, FS_Subset, FS_CardinalityType
  <2>4. Cardinality(Fresh(k, c)) + 1 > Rules[r].limit
    BY <1>2, <1>4, <1>6 DEF SlideBar
  <2> HIDE DEF c
  <2> QED
    BY <1>1, <2>3, <2>4, FreshFinite
<1> QED
  BY <1>6 DEF SlideBar

\* A bucket without a whole token rejects.
LEMMA BucketBarRejects ==
  ASSUME TypeOK, NEW r \in Of("tb"), NEW k \in BucketKeys, NEW d \in Int,
         BucketBar(r, k, d), now < d, Flow(r, k)
  PROVE  Refilled(Rules[r], k) < Unit
<1>1. now \in Nat /\ buckets[k].tok \in Nat /\ buckets[k].ts \in Nat
  BY DEF TypeOK, RedisTypeOK
<1>2. Rate(r) \in Nat /\ Unit \in Nat
  BY BucketRuleFacts
<1>3. buckets[k].exp # 0 /\ buckets[k].tok + (d - 1 - buckets[k].ts) * Rate(r) < Unit
  BY DEF BucketBar
<1>4. Refilled(Rules[r], k) <= buckets[k].tok + (now - buckets[k].ts) * Rate(r)
      /\ Refilled(Rules[r], k) \in Int
  BY <1>3, RefilledFacts
<1>5. (now - buckets[k].ts) * Rate(r) <= (d - 1 - buckets[k].ts) * Rate(r)
  <2>1. /\ now - buckets[k].ts <= d - 1 - buckets[k].ts
        /\ now - buckets[k].ts \in Int /\ d - 1 - buckets[k].ts \in Int
    BY <1>1
  <2> QED
    BY <1>2, <2>1, TimesMonotone
<1>6. (now - buckets[k].ts) * Rate(r) \in Int /\ (d - 1 - buckets[k].ts) * Rate(r) \in Int
  BY <1>1, <1>2
<1> QED
  BY <1>1, <1>2, <1>3, <1>4, <1>5, <1>6

\* So nobody takes of it, and it does not expire.
LEMMA BucketBarStep ==
  ASSUME BucketInv, [Next]_vars, NEW r \in Of("tb"), NEW k \in BucketKeys,
         DOMAIN k.vals = Rules[r].dims, NEW d \in Int, BucketBar(r, k, d)
  PROVE  BucketBar(r, k, d)'
<1>1. now \in Nat /\ buckets[k].tok \in Nat /\ buckets[k].ts \in Nat /\ buckets[k].exp \in Nat
  BY DEF BucketInv, TypeOK, RedisTypeOK
<1>2. Flow(r, k)
  BY DEF BucketInv, Flows
<1>3. ASSUME NEW q \in Requests, NEW a \in 0 .. MaxRetries, ExecPass(q, a)
      PROVE  BucketBar(r, k, d)'
  <2> DEFINE t == call[q].ts
  <2>1. now' = now /\ CommitBuckets(q, t) /\ \A j \in RuleIds : ~Rejects(j, q, t)
    BY <1>3 DEF ExecPass, BatchPass
  <2>2. CASE now < d
    <3>1. Refilled(Rules[r], k) < Unit
      BY <1>2, <2>2, BucketBarRejects DEF BucketInv
    <3>2. Key(r, q, t) # k
      <4>1. r \in RuleIds /\ Rules[r].alg = "tb"
        BY BucketRuleFacts
      <4> QED
        BY <2>1, <3>1, <4>1 DEF Rejects, Exceeded
    <3>3. Hits("tb", k, q, t) = {}
      <4> SUFFICES ASSUME NEW j \in Of("tb"), Key(j, q, t) = k PROVE FALSE
        BY DEF Hits
      <4>1. Rules[j].dims = Rules[r].dims
        BY BucketKeyFacts
      <4>2. Key(r, q, t) = Key(j, q, t)
        BY <4>1, BucketKeyFacts
      <4> QED
        BY <3>2, <4>2
    <3>4. buckets'[k] = buckets[k]
      BY <2>1, <3>3 DEF CommitBuckets
    <3> QED
      BY <2>1, <3>4 DEF BucketBar
  <2>3. CASE ~(now < d)
    BY <2>1, <2>3 DEF BucketBar
  <2> QED
    BY <2>2, <2>3
<1>4. ASSUME Tick PROVE BucketBar(r, k, d)'
  <2>1. now' = now + 1
        /\ buckets'[k] = IF buckets[k].exp < now' THEN NoBucket ELSE buckets[k]
    BY <1>4 DEF Tick, RedisTick
  <2>2. CASE now' < d
    <3>1. now < d
      BY <1>1, <2>1, <2>2
    <3>2. buckets[k].exp # 0 /\ d <= buckets[k].exp
          /\ buckets[k].tok + (d - 1 - buckets[k].ts) * Rate(r) < Unit
      BY <3>1 DEF BucketBar
    <3>3. ~(buckets[k].exp < now')
      BY <1>1, <2>1, <2>2, <3>2
    <3>4. buckets'[k] = buckets[k]
      BY <2>1, <3>3
    <3> QED
      BY <3>2, <3>4 DEF BucketBar
  <2>3. CASE ~(now' < d)
    BY <2>3 DEF BucketBar
  <2> QED
    BY <2>2, <2>3
<1>5. ASSUME now' = now, buckets' = buckets PROVE BucketBar(r, k, d)'
  BY <1>5 DEF BucketBar
<1> QED
  BY <1>3, <1>4, <1>5, FixedQuiet, BucketQuiet DEF BucketInv

\* A command that is executed was sent before.
LEMMA SentBefore ==
  ASSUME TypeOK, CallTimes, NEW q \in Requests, flight[q] # {}
  PROVE  Sent(q) \in Int /\ Sent(q) <= now
<1>1. Sent(q) \in Int
  BY SkewAssumption DEF TypeOK, Sent
<1> QED
  BY <1>1 DEF CallTimes

\* The time a rejection tells to wait, counted from when the call was sent, is over
\* before the rule can admit again: a fixed window, ...
LEMMA FixedBarNew ==
  ASSUME TypeOK, CallTimes, NEW q \in Requests, NEW a \in 0 .. MaxRetries,
         NEW i \in Of("fixed"), ExecReject(q, a, i), NEW k, k = CallKey(i, q),
         NEW d, d = Sent(q) + RetryAfter(i, q, call[q].ts)
  PROVE  FixedBar(i, k, d)'
<1>1. /\ flight[q] # {} /\ now' = now /\ counters' = counters
      /\ Rejects(i, q, call[q].ts)
  BY DEF ExecReject, Answer, BatchReject, FirstReject
<1>2. Rules[i].alg = "fixed" /\ Rules[i].limit \in Nat
  BY RuleFacts DEF Of, Rule
<1>3. counters[k].n + 1 > Rules[i].limit
  BY <1>1, <1>2 DEF Rejects, Exceeded, CallKey
<1>4. RetryAfter(i, q, call[q].ts) = counters[k].exp - now
  BY <1>2 DEF RetryAfter, CallKey
<1>5. Sent(q) \in Int /\ Sent(q) <= now
  BY <1>1, SentBefore
<1>6. now \in Nat /\ counters[k].exp \in Nat
  <2>1. call[q].ts \in 0 .. (MaxTime + MaxSkew)
    BY DEF TypeOK
  <2>2. k \in CounterKeys
    BY <2>1 DEF CallKey, CounterKeys, FixedKeys, KeysOf
  <2> QED
    BY <2>2 DEF TypeOK, RedisTypeOK
<1>7. counters[k].exp >= d
  BY <1>4, <1>5, <1>6
<1> QED
  BY <1>1, <1>3, <1>7 DEF FixedBar

\* ... a sliding window, ...
LEMMA SlideBarNew ==
  ASSUME TypeOK, CallTimes, NEW q \in Requests, NEW a \in 0 .. MaxRetries,
         NEW i \in Of("sliding"), ExecReject(q, a, i), NEW k, k = CallKey(i, q),
         NEW d, d = Sent(q) + RetryAfter(i, q, call[q].ts)
  PROVE  SlideBar(i, k, d)'
<1> DEFINE w == Rules[i].win
           z == Sweep(slides[k], now - w)
           S == {z[m] : m \in Members(z)}
           oldest == CHOOSE s \in S : \A m \in Members(z) : s <= z[m]
<1>1. /\ flight[q] # {} /\ now' = now /\ BatchReject(i, q, call[q].ts)
      /\ Rejects(i, q, call[q].ts)
  BY DEF ExecReject, Answer, BatchReject, FirstReject
<1>2. /\ i \in RuleIds /\ Rules[i].alg = "sliding" /\ w \in Nat \ {0}
      /\ Rules[i].limit \in Nat \ {0} /\ k \in SlideKeys /\ k.win = w
  BY SlideKeyFacts
<1>3. slides[k] \in ZSet /\ now \in Nat
  BY <1>2 DEF TypeOK, RedisTypeOK, ZSet
<1>4. z \in ZSet
  BY <1>3, ZSetFacts
<1>5. Card(z) + 1 > Rules[i].limit
  BY <1>1, <1>2 DEF Rejects, Exceeded, CallKey
<1>6. IsFiniteSet(Members(z)) /\ Cardinality(Members(z)) \in Nat
  BY ReqIdAssumption, FS_Subset, FS_CardinalityType DEF Members
<1>7. Members(z) # {}
  BY <1>2, <1>5, <1>6, FS_EmptySet DEF Card
<1>8. S \in SUBSET Nat /\ S # {}
  BY <1>4, <1>7 DEF Members, ZSet
<1>9. \E s \in S : \A u \in S : s <= u
  <2> HIDE DEF S
  <2> QED BY <1>8, LeastMember
<1>10. \E s \in S : \A m \in Members(z) : s <= z[m]
  BY <1>9
<1>11. oldest \in S /\ \A m \in Members(z) : oldest <= z[m]
  BY <1>10
<1>12. oldest \in Nat
  <2> HIDE DEF S, oldest
  <2> QED BY <1>8, <1>11
<1>13. RetryAfter(i, q, call[q].ts) = oldest + w - now
  BY <1>2 DEF RetryAfter, CallKey
<1>14. slides'[k] = z
  <2>1. i \in Hits("sliding", k, q, call[q].ts) /\ i <= i
    BY <1>2, RuleFacts DEF Hits, CallKey
  <2> QED
    BY <1>1, <1>2, <2>1 DEF BatchReject
<1>15. Sent(q) \in Int /\ Sent(q) <= now
  BY <1>1, SentBefore
<1> HIDE DEF oldest, S
<1>16. d - w <= oldest /\ d - w \in Int
  BY <1>2, <1>3, <1>12, <1>13, <1>15
<1>17. Members(z) \subseteq Fresh(k, d - w)'
  <2> SUFFICES ASSUME NEW m \in Members(z) PROVE m \in Fresh(k, d - w)'
    OBVIOUS
  <2>1. m \in ReqIds /\ z[m] # Absent /\ oldest <= z[m]
    BY <1>11 DEF Members
  <2>2. z[m] \in Int
    BY <1>4, <2>1 DEF ZSet, Absent
  <2> HIDE DEF z
  <2>3. z[m] >= d - w
    BY <1>12, <1>16, <2>1, <2>2
  <2> QED
    BY <1>14, <2>1, <2>3 DEF Fresh
<1>18. IsFiniteSet(Fresh(k, d - w)')
  BY ReqIdAssumption, FS_Subset DEF Fresh
<1> HIDE DEF z, w
<1>19. Cardinality(Members(z)) <= Cardinality(Fresh(k, d - w)')
       /\ Cardinality(Fresh(k, d - w)') \in Nat
  BY <1>17, <1>18, FS_Subset, FS_CardinalityType
<1>20. Cardinality(Fresh(k, d - w)') + 1 > Rules[i].limit
  BY <1>2, <1>5, <1>6, <1>19 DEF Card
<1> QED
  BY <1>20 DEF SlideBar, w

\* ... or a bucket.
LEMMA BucketBarNew ==
  ASSUME BucketInv, NEW q \in Requests, NEW a \in 0 .. MaxRetries,
         NEW i \in Of("tb"), ExecReject(q, a, i), NEW k, k = CallKey(i, q),
         NEW d, d = Sent(q) + RetryAfter(i, q, call[q].ts)
  PROVE  BucketBar(i, k, d)'
<1> DEFINE b == buckets[k]
           R == Refilled(Rules[i], k)
           w == CeilDiv(Unit - R, Rate(i))
           x == (now - b.ts) * Rate(i)
<1>1. /\ flight[q] # {} /\ now' = now /\ buckets' = buckets
      /\ Rejects(i, q, call[q].ts)
  BY DEF ExecReject, Answer, BatchReject, FirstReject
<1>2. /\ i \in RuleIds /\ Rules[i].alg = "tb"
      /\ Unit \in Nat \ {0} /\ Full(i) \in Nat \ {0} /\ Rate(i) \in Nat \ {0}
      /\ FillTime(i) \in Nat \ {0} /\ FillTime(i) * Rate(i) >= Full(i)
  BY BucketRuleFacts
<1>3. k \in BucketKeys /\ DOMAIN k.vals = Rules[i].dims
  <2>1. call[q].ts \in 0 .. (MaxTime + MaxSkew)
    BY DEF BucketInv, TypeOK
  <2> QED
    BY <2>1, BucketKeyFacts DEF CallKey, BucketKeys, KeysOf
<1>4. Flow(i, k)
  BY <1>3 DEF BucketInv, Flows
<1>5. now \in Nat /\ b.tok \in Nat /\ b.ts \in Nat /\ b.exp \in Nat /\ Grace \in Nat
  BY <1>3, TimeAssumption DEF BucketInv, TypeOK, RedisTypeOK
<1>6. R < Unit /\ R \in Int
  <2>1. R < Unit
    BY <1>1, <1>2 DEF Rejects, Exceeded, CallKey
  <2>2. R \in Int
    BY <1>3, <1>4, RefilledFacts DEF BucketInv
  <2> QED
    BY <2>1, <2>2
<1>7. RetryAfter(i, q, call[q].ts) = w
  BY <1>2 DEF RetryAfter, CallKey, Rate
<1>8. Full(i) >= Unit
  <2>1. Rules[i].burst \in Nat \ {0}
    BY <1>2, RuleFacts DEF Rule
  <2>2. 1 * Unit <= Rules[i].burst * Unit
    BY <1>2, <2>1, TimesMonotone
  <2>3. 1 * Unit = Unit
    BY <1>2
  <2> QED
    BY <2>2, <2>3 DEF Full
<1>9. x \in Int /\ (now = b.ts => x = 0)
  <2>1. now - b.ts \in Int /\ (now = b.ts => now - b.ts = 0)
    BY <1>5
  <2>2. 0 * Rate(i) = 0
    BY <1>2
  <2> QED
    BY <1>2, <2>1, <2>2, Times
<1>10. b.exp # 0 /\ R = b.tok + x
  <2>1. R = IF b.exp = 0 THEN Full(i)
            ELSE IF now = b.ts THEN b.tok
            ELSE IF b.tok + x > Full(i) THEN Full(i) ELSE b.tok + x
    BY DEF Refilled, Full, Rate
  <2> HIDE DEF R, b, x
  <2> QED
    BY <1>2, <1>5, <1>6, <1>8, <1>9, <2>1
<1>11. w \in Int /\ (w - 1) * Rate(i) < Unit - R
  <2>1. ASSUME NEW y \in Int, NEW e \in Nat \ {0}
        PROVE  CeilDiv(y, e) \in Int /\ (CeilDiv(y, e) - 1) * e < y
    <3> DEFINE c == (y + e - 1) \div e
    <3>1. c \in Int /\ c * e <= y + e - 1
      OBVIOUS
    <3>2. (c - 1) * e = c * e - e /\ c * e \in Int
      BY <3>1
    <3> HIDE DEF c
    <3>3. (c - 1) * e < y
      BY <3>1, <3>2
    <3> QED
      BY <3>1, <3>3 DEF CeilDiv, c
  <2>2. Unit - R \in Int /\ Rate(i) \in Nat \ {0}
    BY <1>2, <1>6
  <2> HIDE DEF R
  <2> QED
    BY <2>1, <2>2
<1>12. Sent(q) \in Int /\ Sent(q) <= now
  BY <1>1, SentBefore DEF BucketInv
<1>13. d \in Int /\ d <= now + w
  BY <1>5, <1>7, <1>11, <1>12
<1> HIDE DEF w, R
<1>14. (d - 1 - b.ts) * Rate(i) <= (now - b.ts) * Rate(i) + (w - 1) * Rate(i)
  <2>1. d - 1 - b.ts <= (now - b.ts) + (w - 1)
    BY <1>5, <1>11, <1>13
  <2>2. d - 1 - b.ts \in Int /\ now - b.ts \in Int /\ w - 1 \in Int
    BY <1>5, <1>11, <1>13
  <2>3. (d - 1 - b.ts) * Rate(i) <= ((now - b.ts) + (w - 1)) * Rate(i)
    BY <1>2, <2>1, <2>2, TimesMonotone
  <2>4. ((now - b.ts) + (w - 1)) * Rate(i) = (now - b.ts) * Rate(i) + (w - 1) * Rate(i)
    BY <1>2, <2>2, Times
  <2> QED
    BY <2>3, <2>4
<1>15. (d - 1 - b.ts) * Rate(i) \in Int /\ (w - 1) * Rate(i) \in Int
  BY <1>2, <1>5, <1>11, <1>13
<1>16. b.tok + (d - 1 - b.ts) * Rate(i) < Unit
  BY <1>2, <1>5, <1>6, <1>9, <1>10, <1>11, <1>14, <1>15
<1>17. d <= b.exp
  <2>1. CASE FillTime(i) <= d - 1 - b.ts
    <3>1. FillTime(i) * Rate(i) <= (d - 1 - b.ts) * Rate(i)
      BY <1>2, <1>5, <1>13, <2>1, TimesMonotone
    <3>2. FillTime(i) * Rate(i) \in Int
      BY <1>2
    <3> QED
      BY <1>2, <1>5, <1>8, <1>15, <1>16, <3>1, <3>2
  <2>2. CASE ~(FillTime(i) <= d - 1 - b.ts)
    <3>1. b.exp = b.ts + FillTime(i) + Grace
      BY <1>4, <1>10 DEF Flow
    <3> QED
      BY <1>2, <1>5, <1>13, <2>2, <3>1
  <2> QED
    BY <2>1, <2>2
<1> QED
  BY <1>1, <1>10, <1>16, <1>17 DEF BucketBar

\* Rate rules that share a key agree on the limit: the negative cache knows only the key,
\* and a rejection by the stricter of two rules would block the other one too.
OneRate ==
  \A i, j \in RuleIds :
    /\ Rules[i].alg = Rules[j].alg /\ Rules[i].alg \in {"fixed", "sliding"}
    /\ Rules[i].dims = Rules[j].dims /\ Rules[i].win = Rules[j].win
    => Rules[i].limit = Rules[j].limit

\* k is a key of rule r.
KeyOf(r, k) == \E q \in Requests, t \in 0 .. (MaxTime + MaxSkew) : k = Key(r, q, t)

\* A rejection on its way to the gateway, ...
ReplyBarred ==
  \A q \in Requests :
    reply[q] # None /\ ~reply[q].ok =>
      /\ reply[q].idx \in RuleIds
      /\ Barred(reply[q].idx, CallKey(reply[q].idx, q), Sent(q) + reply[q].retry)

\* ... and one in the negative cache, bars every rule that has the key.
NegBarred ==
  \A i \in Instances, r \in RuleIds, k \in AllKeys :
    KeyOf(r, k) /\ neg[i][k] # Absent => Barred(r, k, neg[i][k] - Skew[i])

NegInv == BucketInv /\ Answers /\ SlideTimes /\ ReplyBarred /\ NegBarred

\* What a key tells of its rule.
LEMMA KeyOfFacts ==
  ASSUME NEW r \in RuleIds, NEW k, KeyOf(r, k)
  PROVE  /\ k \in AllKeys
         /\ Rules[r].alg = "fixed" => /\ r \in Of("fixed") /\ k \in FixedKeys
                                      /\ k.kind = "rl" /\ k.win = Rules[r].win
         /\ Rules[r].alg = "sliding" => /\ r \in Of("sliding") /\ k \in SlideKeys
                                        /\ k.kind = "rl" /\ k.win = Rules[r].win
         /\ Rules[r].alg = "tb" => r \in Of("tb") /\ k \in BucketKeys /\ k.kind = "tb"
         /\ Rules[r].alg = "conc" => k.kind = "cc"
         /\ Rules[r].alg = "token" => k.kind = "tk"
         /\ DOMAIN k.vals = Rules[r].dims
<1>1. PICK q \in Requests, t \in 0 .. (MaxTime + MaxSkew) : k = Key(r, q, t)
  BY DEF KeyOf
<1>2. Rules[r].alg \in {"fixed", "sliding", "tb", "conc", "token"} /\ r \in Of(Rules[r].alg)
  BY RuleFacts DEF Rule, Of, Algorithms
<1>3. k \in KeysOf(Rules[r].alg)
  BY <1>1, <1>2 DEF KeysOf
<1>4. CASE Rules[r].alg = "fixed"
  <2>1. k = RateKey(Rules[r], q, t)
    BY <1>1, <1>4 DEF Key
  <2> QED
    BY <1>2, <1>3, <1>4, <2>1 DEF RateKey, DimVals, AllKeys, FixedKeys, CounterKeys
<1>5. CASE Rules[r].alg = "sliding"
  <2>1. k = RateKey(Rules[r], q, t)
    BY <1>1, <1>5 DEF Key
  <2> QED
    BY <1>2, <1>3, <1>5, <2>1 DEF RateKey, DimVals, AllKeys, SlideKeys
<1>6. CASE Rules[r].alg = "tb"
  <2>1. k = TokenBucketKey(Rules[r], q)
    BY <1>1, <1>6 DEF Key
  <2> QED
    BY <1>2, <1>3, <1>6, <2>1 DEF TokenBucketKey, DimVals, AllKeys, BucketKeys
<1>7. CASE Rules[r].alg = "conc"
  <2>1. k = ConcurrencyKey(Rules[r], q)
    BY <1>1, <1>7 DEF Key
  <2> QED
    BY <1>2, <1>3, <1>7, <2>1 DEF ConcurrencyKey, DimVals, AllKeys, ConcKeys
<1>8. CASE Rules[r].alg = "token"
  <2>1. k = TokenLedgerKey(Rules[r], q, t)
    BY <1>1, <1>8 DEF Key
  <2> QED
    BY <1>2, <1>3, <1>8, <2>1 DEF TokenLedgerKey, DimVals, AllKeys, CounterKeys
<1> QED
  BY <1>2, <1>4, <1>5, <1>6, <1>7, <1>8

\* A call is made under keys of its rules.
LEMMA CallKeyOf ==
  ASSUME TypeOK, NEW r \in RuleIds, NEW q \in Requests
  PROVE  KeyOf(r, CallKey(r, q))
<1>1. call[q].ts \in 0 .. (MaxTime + MaxSkew)
  BY DEF TypeOK
<1> QED
  BY <1>1 DEF KeyOf, CallKey

\* A rule that is barred stays barred.
LEMMA BarredStep ==
  ASSUME BucketInv, SlideTimes, [Next]_vars, NEW r \in RuleIds, NEW k, KeyOf(r, k),
         NEW d \in Int, Barred(r, k, d)
  PROVE  Barred(r, k, d)'
<1>0. TypeOK /\ CallTimes
  BY DEF BucketInv
<1>1. ASSUME Rules[r].alg = "fixed" PROVE FixedBar(r, k, d)'
  BY <1>0, <1>1, KeyOfFacts, FixedBarStep DEF Barred
<1>2. ASSUME Rules[r].alg = "sliding" PROVE SlideBar(r, k, d)'
  BY <1>0, <1>2, KeyOfFacts, SlideBarStep DEF Barred
<1>3. ASSUME Rules[r].alg = "tb" PROVE BucketBar(r, k, d)'
  BY <1>3, KeyOfFacts, BucketBarStep DEF Barred
<1> QED
  BY <1>1, <1>2, <1>3 DEF Barred

\* A rejection bars its rule for the time it tells to wait.
LEMMA BarredNew ==
  ASSUME BucketInv, NEW q \in Requests, NEW a \in 0 .. MaxRetries, NEW i \in RuleIds,
         ExecReject(q, a, i), NEW k, k = CallKey(i, q),
         NEW d, d = Sent(q) + RetryAfter(i, q, call[q].ts)
  PROVE  Barred(i, k, d)'
<1>0. TypeOK /\ CallTimes
  BY DEF BucketInv
<1>1. ASSUME Rules[i].alg = "fixed" PROVE FixedBar(i, k, d)'
  BY <1>0, <1>1, FixedBarNew DEF Of
<1>2. ASSUME Rules[i].alg = "sliding" PROVE SlideBar(i, k, d)'
  BY <1>0, <1>2, SlideBarNew DEF Of
<1>3. ASSUME Rules[i].alg = "tb" PROVE BucketBar(i, k, d)'
  BY <1>3, BucketBarNew DEF Of
<1> QED
  BY <1>1, <1>2, <1>3 DEF Barred

\* The rules that share a key are barred together.
LEMMA BarredShared ==
  ASSUME OneRate, OneBucket, NEW r \in RuleIds, NEW s \in RuleIds, NEW k,
         KeyOf(r, k), KeyOf(s, k), NEW d, Barred(s, k, d)
  PROVE  Barred(r, k, d)
<1>1. Rules[r].dims = Rules[s].dims
  BY KeyOfFacts
<1>2. Rules[s].alg \in {"fixed", "sliding", "tb", "conc", "token"}
  BY RuleFacts DEF Rule, Algorithms
<1>3. ASSUME Rules[r].alg = "fixed" PROVE FixedBar(r, k, d)
  <2>1. Rules[s].alg \in {"fixed", "sliding"} /\ Rules[r].win = Rules[s].win
    BY <1>2, <1>3, KeyOfFacts
  <2>2. Rules[s].alg = "fixed"
    BY <1>1, <1>3, <2>1, NoTypeClash, KeyOfFacts
  <2>3. Rules[r].limit = Rules[s].limit
    BY <1>1, <1>3, <2>1, <2>2 DEF OneRate
  <2> QED
    BY <2>2, <2>3 DEF Barred, FixedBar
<1>4. ASSUME Rules[r].alg = "sliding" PROVE SlideBar(r, k, d)
  <2>1. Rules[s].alg \in {"fixed", "sliding"} /\ Rules[r].win = Rules[s].win
    BY <1>2, <1>4, KeyOfFacts
  <2>2. Rules[s].alg = "sliding"
    BY <1>1, <1>4, <2>1, NoTypeClash, KeyOfFacts
  <2>3. Rules[r].limit = Rules[s].limit
    BY <1>1, <1>4, <2>1, <2>2 DEF OneRate
  <2> QED
    BY <2>1, <2>2, <2>3 DEF Barred, SlideBar
<1>5. ASSUME Rules[r].alg = "tb" PROVE BucketBar(r, k, d)
  <2>1. Rules[s].alg = "tb" /\ r \in Of("tb") /\ s \in Of("tb")
    BY <1>2, <1>5, KeyOfFacts
  <2>2. Rate(r) = Rate(s)
    BY <1>1, <2>1 DEF OneBucket, Rate
  <2> QED
    BY <2>1, <2>2 DEF Barred, BucketBar
<1> QED
  BY <1>3, <1>4, <1>5 DEF Barred

\* While a rule is barred Redis rejects.
LEMMA BarredRejects ==
  ASSUME BucketInv, NEW r \in RuleIds, NEW k, KeyOf(r, k), NEW d \in Int,
         Barred(r, k, d), now < d, Rules[r].alg \in {"fixed", "sliding", "tb"}
  PROVE  Exceeded(Rules[r], k)
<1>1. CASE Rules[r].alg = "fixed"
  BY <1>1 DEF Barred, FixedBar, Exceeded
<1>2. CASE Rules[r].alg = "sliding"
  <2> DEFINE w == Rules[r].win
             z == Sweep(slides[k], now - w)
  <2>1. k \in SlideKeys /\ w \in Nat /\ Rules[r].limit \in Nat /\ now \in Nat
    BY <1>2, KeyOfFacts, RuleFacts DEF Rule, BucketInv, TypeOK, RedisTypeOK
  <2>2. slides[k] \in ZSet
    BY <2>1 DEF BucketInv, TypeOK, RedisTypeOK, ZSet
  <2>3. ASSUME NEW m \in Fresh(k, d - w) PROVE m \in Members(z)
    <3>1. m \in ReqIds /\ slides[k][m] # Absent /\ slides[k][m] >= d - w
      BY DEF Fresh
    <3>2. slides[k][m] \in Int
      BY <2>2, <3>1 DEF ZSet, Absent
    <3>3. ~(slides[k][m] <= now - w)
      BY <2>1, <3>1, <3>2
    <3>4. z[m] = slides[k][m]
      BY <2>2, <3>1, <3>3, SweepKeeps
    <3> QED
      BY <3>1, <3>4 DEF Members
  <2>4. Fresh(k, d - w) \subseteq Members(z)
    BY <2>3
  <2>5. IsFiniteSet(Members(z))
    BY ReqIdAssumption, FS_Subset DEF Members
  <2>6. Cardinality(Fresh(k, d - w)) <= Cardinality(Members(z))
        /\ Cardinality(Members(z)) \in Nat
    BY <2>4, <2>5, FS_Subset, FS_CardinalityType
  <2>7. Cardinality(Fresh(k, d - w)) + 1 > Rules[r].limit
    BY <1>2 DEF Barred, SlideBar
  <2>8. Cardinality(Fresh(k, d - w)) \in Nat
    BY FreshFinite
  <2>9. Cardinality(Members(z)) + 1 > Rules[r].limit
    <3> HIDE DEF z, w
    <3> QED BY <2>1, <2>6, <2>7, <2>8
  <2> QED
    BY <1>2, <2>9 DEF Exceeded, Card
<1>3. CASE Rules[r].alg = "tb"
  <2>1. r \in Of("tb") /\ k \in BucketKeys /\ BucketBar(r, k, d)
    BY <1>3, KeyOfFacts DEF Barred
  <2>2. Flow(r, k) /\ TypeOK
    BY <2>1, KeyOfFacts DEF BucketInv, Flows
  <2> QED
    BY <1>3, <2>1, <2>2, BucketBarRejects DEF Exceeded
<1> QED
  BY <1>1, <1>2, <1>3

\* Entries are written with the time of the day.
LEMMA SlideTimesStep ==
  ASSUME TypeOK, CallTimes, SlideTimes, [Next]_vars
  PROVE  SlideTimes'
<1> SUFFICES ASSUME NEW k \in SlideKeys, NEW m \in ReqIds PROVE slides'[k][m] <= now'
  BY DEF SlideTimes
<1>1. slides[k] \in ZSet /\ now \in Nat /\ slides[k][m] \in Int /\ slides[k][m] <= now
  BY DEF TypeOK, RedisTypeOK, ZSet, Absent, SlideTimes
<1>2. now' \in {now, now + 1}
  BY FixedQuiet DEF ExecPass, BatchPass, Tick, RedisTick
<1>3. Sweep(slides[k], now - k.win) \in ZSet
      /\ Sweep(slides[k], now - k.win)[m] \in {Absent, slides[k][m]}
  BY <1>1, ZSetFacts DEF Sweep
<1>4. slides'[k][m] \in {Absent, slides[k][m], now}
  <2>1. ASSUME NEW q \in Requests, NEW a \in 0 .. MaxRetries, ExecPass(q, a)
        PROVE  slides'[k][m] \in {Absent, slides[k][m], now}
    <3>1. slides'[k] = slides[k]
          \/ slides'[k] = [Sweep(slides[k], now - k.win) EXCEPT ![ReqId[q]] = now]
      BY <2>1 DEF ExecPass, BatchPass, CommitSliding
    <3> QED
      BY <1>3, <3>1 DEF ZSet
  <2>2. ASSUME ~\E q \in Requests, a \in 0 .. MaxRetries : ExecPass(q, a)
        PROVE  slides'[k][m] \in {Absent, slides[k][m], now}
    BY <1>3, <2>2, SlidesSwept
  <2> QED
    BY <2>1, <2>2
<1> QED
  BY <1>1, <1>2, <1>4 DEF Absent

\* What becomes of the replies, and of the calls they answer.
LEMMA ReplyChanges ==
  ASSUME TypeOK, Answers, [Next]_vars, NEW p \in Requests
  PROVE  \/ reply'[p] = None
         \/ reply'[p] = Passed
         \/ reply'[p] = reply[p] /\ call'[p] = call[p]
         \/ /\ call'[p] = call[p]
            /\ \E a \in 0 .. MaxRetries, i \in RuleIds :
                 /\ ExecReject(p, a, i)
                 /\ reply'[p] = [ok |-> FALSE, idx |-> i, retry |-> RetryAfter(i, p, call[p].ts)]
<1> DEFINE Goal == \/ reply'[p] = None
                   \/ reply'[p] = Passed
                   \/ reply'[p] = reply[p] /\ call'[p] = call[p]
                   \/ /\ call'[p] = call[p]
                      /\ \E a \in 0 .. MaxRetries, i \in RuleIds :
                           /\ ExecReject(p, a, i)
                           /\ reply'[p] = [ok |-> FALSE, idx |-> i,
                                           retry |-> RetryAfter(i, p, call[p].ts)]
<1>0. reply \in [Requests -> [ok : BOOLEAN, idx : {0} \cup RuleIds, retry : Int]]
      /\ call \in [Requests -> [inst : Instances, ts : 0 .. (MaxTime + MaxSkew)]]
  BY DEF TypeOK
<1>1. ASSUME NEW q \in Requests, NEW a \in 0 .. MaxRetries, ExecPass(q, a) PROVE Goal
  BY <1>0, <1>1 DEF ExecPass, Answer
<1>2. ASSUME NEW q \in Requests, NEW a \in 0 .. MaxRetries, NEW i \in RuleIds,
             ExecReject(q, a, i)
      PROVE  Goal
  <2> DEFINE r == [ok |-> FALSE, idx |-> i, retry |-> RetryAfter(i, q, call[q].ts)]
  <2>1. call' = call
        /\ reply' = [reply EXCEPT ![q] = IF pc[q] = "wait" /\ a = tries[q] THEN r ELSE @]
    BY <1>2 DEF ExecReject, Answer
  <2>2. p # q => reply'[p] = reply[p]
    BY <1>0, <2>1
  <2>3. reply'[q] \in {r, reply[q]}
    BY <1>0, <2>1
  <2>4. CASE p # q
    BY <2>1, <2>2, <2>4
  <2>5. CASE p = q
    BY <1>2, <2>1, <2>3, <2>5
  <2> QED
    BY <2>4, <2>5
<1>3. ASSUME NEW q \in Requests, Check(q) PROVE Goal
  <2>1. reply' = reply /\ pc[q] = "new" /\ (p # q => call'[p] = call[p])
    BY <1>0, <1>3 DEF Check
  <2>2. reply[q] = None
    BY <2>1 DEF Answers
  <2> QED
    BY <2>1, <2>2
<1>4. ASSUME NEW q \in Requests, EndCall(q), call' = call PROVE Goal
  BY <1>0, <1>4 DEF EndCall
<1>5. ASSUME NEW q \in Requests, Resend(q) PROVE Goal
  BY <1>0, <1>5 DEF Resend
<1>6. ASSUME NEW q \in Requests,
             \/ Decide(q) \/ FailClose(q) \/ DegradeAllow(q)
             \/ \E j \in LocalQuotaRules : DegradeReject(q, j)
      PROVE  Goal
  <2>1. EndCall(q) /\ call' = call
    BY <1>6 DEF Decide, FailClose, DegradeAllow, DegradeReject
  <2> QED
    BY <1>4, <2>1
<1>7. ASSUME NEW q \in Requests,
             \/ Finish(q) \/ ReleaseLost(q) \/ ReleaseExec(q)
             \/ \E a \in 0 .. MaxRetries : LoseCommand(q, a)
             \/ \E d \in 1 .. MaxDelta : TokenReserve(q, d)
      PROVE  Goal
  BY <1>7 DEF Finish, ReleaseLost, ReleaseExec, LoseCommand, TokenReserve
<1>8. ASSUME NEW i \in Instances, Crash(i) PROVE Goal
  BY <1>0, <1>8 DEF Crash
<1>9. ASSUME Tick \/ UNCHANGED vars PROVE Goal
  BY <1>9 DEF Tick, vars, gwVars
<1> HIDE DEF Goal
<1>10. Goal
  BY <1>1, <1>2, <1>3, <1>5, <1>6, <1>7, <1>8, <1>9, NextCases
<1> QED
  BY <1>10 DEF Goal

\* A rejection on its way bars its rule.
LEMMA ReplyBarredStep ==
  ASSUME BucketInv, Answers, SlideTimes, ReplyBarred, [Next]_vars
  PROVE  ReplyBarred'
<1>0. TypeOK
  BY DEF BucketInv
<1> SUFFICES ASSUME NEW p \in Requests, reply'[p] # None, ~reply'[p].ok
             PROVE  /\ reply'[p].idx \in RuleIds
                    /\ Barred(reply[p].idx, CallKey(reply[p].idx, p), Sent(p) + reply[p].retry)'
  BY DEF ReplyBarred
<1>1. ASSUME reply'[p] = reply[p], call'[p] = call[p]
      PROVE  /\ reply'[p].idx \in RuleIds
             /\ Barred(reply[p].idx, CallKey(reply[p].idx, p), Sent(p) + reply[p].retry)'
  <2>1. PICK i : i = reply[p].idx
    OBVIOUS
  <2>2. PICK k : k = CallKey(i, p)
    OBVIOUS
  <2>3. PICK d : d = Sent(p) + reply[p].retry
    OBVIOUS
  <2>4. i \in RuleIds /\ Barred(i, k, d)
    BY <1>1, <2>1, <2>2, <2>3 DEF ReplyBarred
  <2>5. d \in Int
    BY <1>0, <2>3, SkewAssumption DEF TypeOK, Sent
  <2>6. KeyOf(i, k)
    BY <1>0, <2>2, <2>4, CallKeyOf
  <2>7. Barred(i, k, d)'
    BY <2>4, <2>5, <2>6, BarredStep
  <2>8. i = reply'[p].idx /\ k = CallKey(i, p)' /\ d = (Sent(p) + reply[p].retry)'
    BY <1>1, <2>1, <2>2, <2>3 DEF CallKey, Sent
  <2> QED
    BY <2>4, <2>7, <2>8
<1>2. ASSUME NEW a \in 0 .. MaxRetries, NEW i \in RuleIds, ExecReject(p, a, i),
             reply'[p] = [ok |-> FALSE, idx |-> i, retry |-> RetryAfter(i, p, call[p].ts)],
             call'[p] = call[p]
      PROVE  /\ reply'[p].idx \in RuleIds
             /\ Barred(reply[p].idx, CallKey(reply[p].idx, p), Sent(p) + reply[p].retry)'
  <2>2. PICK k : k = CallKey(i, p)
    OBVIOUS
  <2>3. PICK d : d = Sent(p) + RetryAfter(i, p, call[p].ts)
    OBVIOUS
  <2>4. Barred(i, k, d)'
    BY <1>2, <2>2, <2>3, BarredNew
  <2>5. i = reply'[p].idx /\ k = CallKey(i, p)' /\ d = (Sent(p) + reply[p].retry)'
    BY <1>2, <2>2, <2>3 DEF CallKey, Sent
  <2> QED
    BY <2>4, <2>5
<1>3. reply'[p] # Passed
  BY DEF Passed
<1>4. \/ reply'[p] = reply[p] /\ call'[p] = call[p]
      \/ /\ call'[p] = call[p]
         /\ \E a \in 0 .. MaxRetries, i \in RuleIds :
              /\ ExecReject(p, a, i)
              /\ reply'[p] = [ok |-> FALSE, idx |-> i, retry |-> RetryAfter(i, p, call[p].ts)]
  BY <1>0, <1>3, ReplyChanges
<1> QED
  BY <1>1, <1>2, <1>4

\* A rejection in the negative cache bars every rule that has its key.
LEMMA NegBarredStep ==
  ASSUME OneRate, OneBucket, BucketInv, SlideTimes, ReplyBarred, NegBarred, [Next]_vars
  PROVE  NegBarred'
<1>0. TypeOK
  BY DEF BucketInv
<1>1. neg \in [Instances -> [AllKeys -> Int]] /\ Skew \in [Instances -> Int]
  BY <1>0, SkewAssumption DEF TypeOK
<1> SUFFICES ASSUME NEW i \in Instances, NEW r \in RuleIds, NEW k \in AllKeys, KeyOf(r, k),
                    neg'[i][k] # Absent
             PROVE  Barred(r, k, neg[i][k] - Skew[i])'
  BY DEF NegBarred, KeyOf
<1>2. PICK d : d = neg'[i][k] - Skew[i]
  OBVIOUS
<1>3. SUFFICES Barred(r, k, d)'
  BY <1>2
<1>4. ASSUME neg'[i][k] = neg[i][k] PROVE Barred(r, k, d)'
  <2>1. d \in Int /\ Barred(r, k, d)
    BY <1>1, <1>2, <1>4 DEF NegBarred
  <2> QED
    BY <2>1, BarredStep
<1>5. ASSUME NEW q \in Requests, Decide(q) PROVE Barred(r, k, d)'
  <2> DEFINE j == reply[q].idx
             h == CallKey(reply[q].idx, q)
             n == call[q].inst
  <2>1. \/ neg' = neg
        \/ /\ reply[q] # None /\ ~reply[q].ok
           /\ neg' = [neg EXCEPT ![n][h] = BlockUntil(q)]
    BY <1>5 DEF Decide
  <2>2. n \in Instances /\ reply[q].retry \in Int /\ call[q].ts \in Int
    BY <1>0 DEF TypeOK
  <2>3. ASSUME reply[q] # None, ~reply[q].ok, neg' = [neg EXCEPT ![n][h] = BlockUntil(q)],
               i = n, k = h
        PROVE  Barred(r, k, d)'
    <3>1. j \in RuleIds /\ Barred(j, h, Sent(q) + reply[q].retry)
      BY <2>3 DEF ReplyBarred
    <3>2. KeyOf(j, h)
      BY <1>0, <3>1, CallKeyOf
    <3>3. neg'[i][k] = BlockUntil(q)
      BY <1>1, <2>3
    <3>4. Skew[n] \in Int
      BY <1>1, <2>2
    <3>5. d = Sent(q) + reply[q].retry /\ d \in Int
      <4>1. d = (call[q].ts + reply[q].retry) - Skew[n]
        BY <1>2, <2>3, <3>3 DEF BlockUntil
      <4>2. Sent(q) = call[q].ts - Skew[n]
        BY DEF Sent
      <4> HIDE DEF n
      <4> QED
        BY <2>2, <3>4, <4>1, <4>2
    <3>6. Barred(j, k, d) /\ KeyOf(j, k)
      BY <2>3, <3>1, <3>2, <3>5
    <3>7. Barred(r, k, d)
      BY <3>1, <3>6, BarredShared
    <3> QED
      BY <3>5, <3>7, BarredStep
  <2>4. ASSUME neg' = [neg EXCEPT ![n][h] = BlockUntil(q)], ~(i = n /\ k = h)
        PROVE  neg'[i][k] = neg[i][k]
    BY <1>1, <2>4
  <2> QED
    BY <1>4, <2>1, <2>3, <2>4
<1>6. ASSUME NEW c \in Instances, Crash(c) PROVE Barred(r, k, d)'
  <2>1. neg' = [neg EXCEPT ![c] = [x \in AllKeys |-> Absent]]
    BY <1>6 DEF Crash
  <2>2. neg'[i][k] = neg[i][k]
    BY <1>1, <2>1
  <2> QED
    BY <1>4, <2>2
<1>7. ASSUME neg' = neg PROVE Barred(r, k, d)'
  BY <1>4, <1>7
<1>8. ASSUME NEW q \in Requests, NEW a \in 0 .. MaxRetries, ExecPass(q, a) PROVE neg' = neg
  BY <1>8 DEF ExecPass, Answer
<1>9. ASSUME NEW q \in Requests, NEW a \in 0 .. MaxRetries, NEW x \in RuleIds,
             ExecReject(q, a, x)
      PROVE  neg' = neg
  BY <1>9 DEF ExecReject, Answer
<1>10. ASSUME NEW q \in Requests,
              \/ Check(q) \/ Resend(q) \/ FailClose(q) \/ DegradeAllow(q)
              \/ Finish(q) \/ ReleaseLost(q) \/ ReleaseExec(q)
              \/ \E a \in 0 .. MaxRetries : LoseCommand(q, a)
              \/ \E j \in LocalQuotaRules : DegradeReject(q, j)
              \/ \E n \in 1 .. MaxDelta : TokenReserve(q, n)
       PROVE  neg' = neg
  BY <1>10 DEF Check, Resend, FailClose, DegradeAllow, DegradeReject, Finish, ReleaseLost,
               ReleaseExec, LoseCommand, TokenReserve
<1>11. ASSUME Tick \/ UNCHANGED vars PROVE neg' = neg
  BY <1>11 DEF Tick, vars, gwVars
<1> QED
  BY <1>5, <1>6, <1>7, <1>8, <1>9, <1>10, <1>11, NextCases

\* Rejecting from the negative cache is no stricter than asking Redis, if the rules that
\* share a key agree on what they allow.
THEOREM NegCacheHolds == OneRate /\ OneBucket => (Spec => []NegCacheSound)
<1> SUFFICES ASSUME OneRate, OneBucket PROVE Spec => []NegCacheSound
  OBVIOUS
<1>1. Init => NegInv
  <2> SUFFICES ASSUME Init PROVE NegInv
    OBVIOUS
  <2>1. BucketInv
    BY BucketInvInit
  <2>2. Answers /\ ReplyBarred
    BY DEF Init, Answers, ReplyBarred, None
  <2>3. SlideTimes
    BY DEF Init, RedisInit, SlideTimes, EmptyZSet, Absent
  <2>4. NegBarred
    BY DEF Init, NegBarred
  <2> QED
    BY <2>1, <2>2, <2>3, <2>4 DEF NegInv
<1>2. NegInv /\ [Next]_vars => NegInv'
  <2> SUFFICES ASSUME NegInv, [Next]_vars PROVE NegInv'
    OBVIOUS
  <2>1. BucketInv /\ Answers /\ SlideTimes /\ ReplyBarred /\ NegBarred /\ TypeOK /\ CallTimes
    BY DEF NegInv, BucketInv
  <2>2. BucketInv'
    BY <2>1, BucketInvStep
  <2>3. Answers'
    BY <2>1, AnswersStep
  <2>4. SlideTimes'
    BY <2>1, SlideTimesStep
  <2>5. ReplyBarred'
    BY <2>1, ReplyBarredStep
  <2>6. NegBarred'
    BY <2>1, NegBarredStep
  <2> QED
    BY <2>2, <2>3, <2>4, <2>5, <2>6 DEF NegInv
<1>3. NegInv => NegCacheSound
  <2> SUFFICES ASSUME NegInv, NEW i \in Instances, NEW r \in RuleIds, NEW q \in Requests,
                      NEW k, k = Key(r, q, Clock(i)),
                      Rules[r].alg \in {"fixed", "sliding", "tb"},
                      neg[i][k] # Absent, Clock(i) < neg[i][k]
               PROVE  Exceeded(Rules[r], k)
    BY DEF NegCacheSound
  <2>1. TypeOK /\ RedisTypeOK /\ BucketInv
    BY DEF NegInv, BucketInv, TypeOK
  <2>2. Clock(i) \in 0 .. (MaxTime + MaxSkew)
    BY <2>1, ClockType
  <2>3. KeyOf(r, k)
    BY <2>2 DEF KeyOf
  <2>4. k \in AllKeys
    BY <2>3, KeyOfFacts
  <2>5. neg[i][k] \in Int /\ Skew[i] \in Int /\ now \in Int
    BY <2>1, <2>4, SkewAssumption DEF TypeOK, RedisTypeOK
  <2>6. now < neg[i][k] - Skew[i] /\ neg[i][k] - Skew[i] \in Int
    BY <2>5 DEF Clock
  <2>7. Barred(r, k, neg[i][k] - Skew[i])
    BY <2>3, <2>4 DEF NegInv, NegBarred
  <2> QED
    BY <2>1, <2>3, <2>6, <2>7, BarredRejects
<1> QED
  BY <1>1, <1>2, <1>3, PTL DEF Spec
=============================================================================
