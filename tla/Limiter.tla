------------------------------ MODULE Limiter ------------------------------
(***************************************************************************)
(* Limiter.Check and Limiter.Release as the gateway instances run them     *)
(* (internal/limiter/limiter.go, local.go; ServeHTTP in proxy/handler.go), *)
(* composed with the Redis of BatchCheck.                                  *)
(*                                                                         *)
(* A request goes through the steps                                        *)
(*   Check        keys from the gateway's clock, local negative cache,     *)
(*                the script is sent                                       *)
(*   ExecPass,    Redis runs the script, some time later                   *)
(*   ExecReject                                                            *)
(*   Decide       the gateway reads the reply and serves or rejects        *)
(*   Finish, ReleaseExec, ReleaseLost   the deferred release               *)
(* while commands and replies can be lost, the Redis client retries        *)
(* (MaxRetries in newRedis), the gateway gives up and degrades, instances  *)
(* crash and restart, and the clocks of the instances differ.              *)
(*                                                                         *)
(* The circuit breaker is module Breaker; here its verdict after an error  *)
(* is any member of BreakerVerdicts.                                       *)
(***************************************************************************)
EXTENDS BatchCheck

CONSTANTS
  Instances,        \* gateway instances
  InstCount,        \* the number of instances the gateways believe in
  Skew,             \* Skew[i]: how far the clock of i is ahead of Redis's
  MaxDelay,         \* longest time between Check and the script's execution
  MaxRetries,       \* resends of one script call by the Redis client
  NegMax,           \* longest rejection kept in the negative cache (10 s)
  BreakerVerdicts,  \* possible answers of breaker.degraded() after an error
  MaxDelta,         \* bound on the tokens of one TokenReserve
  MaxReserves       \* bound on the TokenReserve calls of one request

ASSUME InstancesAssumption == IsFiniteSet(Instances) /\ InstCount \in Nat \ {0}
ASSUME SkewAssumption == Skew \in [Instances -> 0 .. MaxSkew]
ASSUME BoundsAssumption ==
  /\ MaxDelay \in Nat /\ MaxRetries \in Nat /\ NegMax \in Nat
  /\ MaxDelta \in Nat /\ MaxReserves \in Nat
  /\ BreakerVerdicts \subseteq BOOLEAN
\* The grace of an expiry outlasts clock skew and the delay of a call together.
ASSUME GraceCovers == MaxSkew + MaxDelay <= Grace

VARIABLES
  pc,       \* where each request is
  call,     \* call[q]: its instance, and that one's clock at Check
  tries,    \* resends so far
  flight,   \* attempts on their way to Redis, not yet executed
  reply,    \* the reply waiting for the gateway, or None
  neg,      \* negative cache: neg[i][k] is the local time k is blocked until
  quota,    \* local quotas of a degraded instance: count and time of reset
  spent,    \* TokenReserve calls so far
  passes,   \* history: executions of q's script that passed
  passAt    \* history: time of the last of them

gwVars == <<pc, call, tries, flight, reply, neg, quota, spent, passes, passAt>>
vars == <<redisVars, gwVars>>

\* "over": answered with a rejection, served to the end, or lost in a crash.
PCs == {"new", "wait", "serve", "degraded", "release", "over"}

\* The local clock of an instance.
Clock(i) == now + Skew[i]

None == [ok |-> FALSE, idx |-> 0, retry |-> 0]
Passed == [ok |-> TRUE, idx |-> 0, retry |-> 0]
AllKeys == CounterKeys \cup SlideKeys \cup BucketKeys \cup ConcKeys

\* Rules that fall back to a local quota (failModeOf); the others fail open.
LocalQuotaRules == Of("token") \cup Of("conc")

\* Mutant: every instance grants the whole limit.
LocalQuotaUndivided(r) == r.limit

\* The local quota of a rule: its share of the limit, at least 1 (localQuota).
LocalQuota(r) == IF r.limit \div InstCount < 1 THEN 1 ELSE r.limit \div InstCount

\* Key and window of rule i's local quota (degradeQuotaParams).  A concurrency
\* key gets a suffix, a token rule uses the key of a rate rule.
QuotaKey(i, q, t) ==
  IF Rules[i].alg = "conc" THEN [ConcurrencyKey(Rules[i], q) EXCEPT !.kind = "deg"]
                           ELSE RateKey(Rules[i], q, t)
QuotaWindow(i) == IF Rules[i].alg = "conc" THEN Rules[i].ttl ELSE Rules[i].win
QuotaKeys == {QuotaKey(i, q, t) : i \in LocalQuotaRules, q \in Requests,
                                  t \in 0 .. (MaxTime + MaxSkew)}
NoQuota == [n |-> 0, reset |-> Absent]

TypeOK ==
  /\ RedisTypeOK
  /\ pc \in [Requests -> PCs]
  /\ call \in [Requests -> [inst : Instances, ts : 0 .. (MaxTime + MaxSkew)]]
  /\ tries \in [Requests -> 0 .. MaxRetries]
  /\ flight \in [Requests -> SUBSET (0 .. MaxRetries)]
  /\ reply \in [Requests -> [ok : BOOLEAN, idx : {0} \cup RuleIds, retry : Int]]
  /\ neg \in [Instances -> [AllKeys -> Int]]
  /\ quota \in [Instances -> [QuotaKeys -> [n : Nat, reset : Int]]]
  /\ spent \in [Requests -> 0 .. MaxReserves]
  /\ passes \in [Requests -> Nat]
  /\ passAt \in [Requests -> Int]

Init ==
  /\ RedisInit
  /\ pc = [q \in Requests |-> "new"]
  /\ call \in [Requests -> [inst : Instances, ts : {0}]]
  /\ tries = [q \in Requests |-> 0]
  /\ flight = [q \in Requests |-> {}]
  /\ reply = [q \in Requests |-> None]
  /\ neg = [i \in Instances |-> [k \in AllKeys |-> Absent]]
  /\ quota = [i \in Instances |-> [k \in QuotaKeys |-> NoQuota]]
  /\ spent = [q \in Requests |-> 0]
  /\ passes = [q \in Requests |-> 0]
  /\ passAt = [q \in Requests |-> Absent]
-----------------------------------------------------------------------------
Blocked(i, k) == neg[i][k] # Absent /\ Clock(i) <= neg[i][k]

\* Redis's clock when q was checked.
Sent(q) == call[q].ts - Skew[call[q].inst]

\* The key of rule i in the call q made.
CallKey(i, q) == Key(i, q, call[q].ts)

\* Limiter.Check up to the script call: one clock reading for all keys, and an
\* immediate rejection if the negative cache holds one of them.
Check(q) ==
  LET i == call[q].inst IN
  /\ pc[q] = "new"
  /\ call' = [call EXCEPT ![q].ts = Clock(i)]
  /\ IF \E r \in RuleIds : Blocked(i, Key(r, q, Clock(i)))
     THEN /\ pc' = [pc EXCEPT ![q] = "over"]
          /\ UNCHANGED flight
     ELSE /\ pc' = [pc EXCEPT ![q] = "wait"]
          /\ flight' = [flight EXCEPT ![q] = {0}]
  /\ UNCHANGED <<redisVars, tries, reply, neg, quota, spent, passes, passAt>>

\* Attempt a of the call reaches Redis.  Its reply gets back to the gateway only
\* if the gateway still waits on the connection of that attempt.
Answer(q, a, r) ==
  /\ a \in flight[q]
  /\ flight' = [flight EXCEPT ![q] = @ \ {a}]
  /\ reply' = [reply EXCEPT ![q] = IF pc[q] = "wait" /\ a = tries[q] THEN r ELSE @]
  /\ UNCHANGED <<pc, call, tries, neg, quota, spent>>

ExecPass(q, a) ==
  /\ Answer(q, a, Passed)
  /\ BatchPass(q, call[q].ts)
  /\ passes' = [passes EXCEPT ![q] = @ + 1]
  /\ passAt' = [passAt EXCEPT ![q] = now]

ExecReject(q, a, i) ==
  /\ a \in flight[q]
  /\ BatchReject(i, q, call[q].ts)
  /\ Answer(q, a, [ok |-> FALSE, idx |-> i, retry |-> RetryAfter(i, q, call[q].ts)])
  /\ UNCHANGED <<passes, passAt>>

\* A command is lost before Redis executes it.
LoseCommand(q, a) ==
  /\ a \in flight[q]
  /\ flight' = [flight EXCEPT ![q] = @ \ {a}]
  /\ UNCHANGED <<redisVars, pc, call, tries, reply, neg, quota, spent, passes, passAt>>

\* Mutant: one resend too many.
ResendOneMore(q) ==
  /\ pc[q] = "wait" /\ tries[q] <= MaxRetries /\ now <= Sent(q) + MaxDelay
  /\ tries' = [tries EXCEPT ![q] = @ + 1]
  /\ flight' = [flight EXCEPT ![q] = @ \cup {tries[q] + 1}]
  /\ reply' = [reply EXCEPT ![q] = None]
  /\ UNCHANGED <<redisVars, pc, call, neg, quota, spent, passes, passAt>>

\* The connection breaks, with the command or its reply on it, and the Redis
\* client sends the script again while the call's context lives.
Resend(q) ==
  /\ pc[q] = "wait"
  /\ tries[q] < MaxRetries
  /\ now <= Sent(q) + MaxDelay
  /\ tries' = [tries EXCEPT ![q] = @ + 1]
  /\ flight' = [flight EXCEPT ![q] = @ \cup {tries[q] + 1}]
  /\ reply' = [reply EXCEPT ![q] = None]
  /\ UNCHANGED <<redisVars, pc, call, neg, quota, spent, passes, passAt>>

\* The Redis client returns to Check.
EndCall(q) ==
  /\ pc[q] = "wait"
  /\ tries' = [tries EXCEPT ![q] = 0]
  /\ reply' = [reply EXCEPT ![q] = None]

\* Until when a rejection is kept in the negative cache; the mutant counts from
\* the arrival of the reply.
BlockUntilLate(q) == Clock(call[q].inst) + reply[q].retry
BlockUntil(q) == call[q].ts + reply[q].retry

\* The reply arrives.  A short rejection enters the negative cache, counted from
\* the clock reading that precedes the call.
Decide(q) ==
  LET i == call[q].inst
      r == reply[q]
  IN
  /\ r # None
  /\ EndCall(q)
  /\ IF r.ok
     THEN /\ pc' = [pc EXCEPT ![q] = "serve"]
          /\ UNCHANGED neg
     ELSE /\ pc' = [pc EXCEPT ![q] = "over"]
          /\ neg' = IF 0 < r.retry /\ r.retry <= NegMax
                    THEN [neg EXCEPT ![i][CallKey(r.idx, q)] = BlockUntil(q)]
                    ELSE neg
  /\ UNCHANGED <<redisVars, call, flight, quota, spent, passes, passAt>>

\* The call fails and the breaker does not hold Redis for broken: fail close.
FailClose(q) ==
  /\ FALSE \in BreakerVerdicts
  /\ pc' = [pc EXCEPT ![q] = "over"]
  /\ EndCall(q)
  /\ UNCHANGED <<redisVars, call, flight, neg, quota, spent, passes, passAt>>

\* The quota entry of key k, renewed when it is missing or past its reset.
QuotaEntry(i, k, w) ==
  IF quota[i][k].reset = Absent \/ Clock(i) > quota[i][k].reset
  THEN [n |-> 0, reset |-> Clock(i) + w]
  ELSE quota[i][k]

\* The local-quota rules before rule j that share key k.
QuotaHits(j, k, q, t) == {h \in LocalQuotaRules : h < j /\ QuotaKey(h, q, t) = k}

\* allowQuota refuses rule j, once the rules before it have been counted.
QuotaSpent(j, q, t) ==
  LET i == call[q].inst
      k == QuotaKey(j, q, t)
      e == QuotaEntry(i, k, QuotaWindow(j))
  IN e.n + Cardinality(QuotaHits(j, k, q, t)) >= LocalQuota(Rules[j])

\* Count the local-quota rules before rule j.
TakeQuotas(j, q, t) ==
  LET i == call[q].inst IN
  quota' = [quota EXCEPT ![i] = [k \in QuotaKeys |->
    LET hits == QuotaHits(j, k, q, t) IN
    IF hits = {} THEN quota[i][k]
    ELSE LET h == CHOOSE x \in hits : \A y \in hits : x <= y
             e == QuotaEntry(i, k, QuotaWindow(h))
         IN [e EXCEPT !.n = @ + Cardinality(hits)]]]

\* The call fails with the breaker open and every local quota has room.
DegradeAllow(q) ==
  LET t == Clock(call[q].inst) IN
  /\ TRUE \in BreakerVerdicts
  /\ \A j \in LocalQuotaRules : ~QuotaSpent(j, q, t)
  /\ TakeQuotas(Len(Rules) + 1, q, t)
  /\ pc' = [pc EXCEPT ![q] = "degraded"]
  /\ EndCall(q)
  /\ UNCHANGED <<redisVars, call, flight, neg, spent, passes, passAt>>

\* The call fails with the breaker open and rule j has no local quota left; what
\* the rules before it took is not given back.
DegradeReject(q, j) ==
  LET t == Clock(call[q].inst) IN
  /\ TRUE \in BreakerVerdicts
  /\ QuotaSpent(j, q, t)
  /\ \A h \in LocalQuotaRules : h < j => ~QuotaSpent(h, q, t)
  /\ TakeQuotas(j, q, t)
  /\ pc' = [pc EXCEPT ![q] = "over"]
  /\ EndCall(q)
  /\ UNCHANGED <<redisVars, call, flight, neg, spent, passes, passAt>>

\* While it streams, a response charges d tokens, under the window of the moment.
TokenReserve(q, d) ==
  /\ pc[q] \in {"serve", "degraded"}
  /\ Of("token") # {}
  /\ spent[q] < MaxReserves
  /\ spent' = [spent EXCEPT ![q] = @ + 1]
  /\ LedgerReserve(q, Clock(call[q].inst), d)
  /\ UNCHANGED <<pc, call, tries, flight, reply, neg, quota, passes, passAt>>

\* The response ends, in whatever way: the deferred Release runs if a slot is held.
Finish(q) ==
  /\ pc[q] \in {"serve", "degraded"}
  /\ pc' = [pc EXCEPT ![q] = IF pc[q] = "serve" /\ Of("conc") # {}
                             THEN "release" ELSE "over"]
  /\ UNCHANGED <<redisVars, call, tries, flight, reply, neg, quota, spent, passes, passAt>>

ReleaseExec(q) ==
  /\ pc[q] = "release"
  /\ pc' = [pc EXCEPT ![q] = "over"]
  /\ ReleaseConc(q)
  /\ UNCHANGED <<call, tries, flight, reply, neg, quota, spent, passes, passAt>>

\* Release fails; the error is logged and the slot stays until its deadline.
ReleaseLost(q) ==
  /\ pc[q] = "release"
  /\ pc' = [pc EXCEPT ![q] = "over"]
  /\ UNCHANGED <<redisVars, call, tries, flight, reply, neg, quota, spent, passes, passAt>>

\* An instance dies and starts again with empty local state; what it has sent
\* is still on its way.
Crash(i) ==
  LET Victims == {q \in Requests : call[q].inst = i
                                     /\ pc[q] \in {"wait", "serve", "degraded", "release"}}
  IN
  /\ Victims # {}
  /\ pc' = [q \in Requests |-> IF q \in Victims THEN "over" ELSE pc[q]]
  /\ reply' = [q \in Requests |-> IF q \in Victims THEN None ELSE reply[q]]
  /\ tries' = [q \in Requests |-> IF q \in Victims THEN 0 ELSE tries[q]]
  /\ neg' = [neg EXCEPT ![i] = [k \in AllKeys |-> Absent]]
  /\ quota' = [quota EXCEPT ![i] = [k \in QuotaKeys |-> NoQuota]]
  /\ UNCHANGED <<redisVars, call, flight, spent, passes, passAt>>

\* A command is executed or lost within MaxDelay of its Check.
Tick ==
  /\ \A q \in Requests : flight[q] # {} => now < Sent(q) + MaxDelay
  /\ RedisTick
  /\ UNCHANGED gwVars

Next ==
  \/ \E q \in Requests :
       \/ Check(q)
       \/ \E a \in 0 .. MaxRetries :
            \/ ExecPass(q, a)
            \/ \E i \in RuleIds : ExecReject(q, a, i)
            \/ LoseCommand(q, a)
       \/ Resend(q)
       \/ Decide(q)
       \/ FailClose(q)
       \/ DegradeAllow(q)
       \/ \E j \in LocalQuotaRules : DegradeReject(q, j)
       \/ \E d \in 1 .. MaxDelta : TokenReserve(q, d)
       \/ Finish(q)
       \/ ReleaseExec(q)
       \/ ReleaseLost(q)
  \/ \E i \in Instances : Crash(i)
  \/ Tick

Spec == Init /\ [][Next]_vars
-----------------------------------------------------------------------------
(***************************************************************************)
(* Properties.                                                             *)
(***************************************************************************)
\* Redis let the request in: its script passed at least once.
Admitted(q) == passes[q] > 0 \/ pc[q] \in {"serve", "release"}

\* The fixed-window quota holds for the cluster: however requests interleave over
\* instances with skewed clocks, whatever is lost, resent or executed after the
\* gateway gave up, no more than limit requests are admitted under the key of one
\* window (limiter.go 251-254, batch_check.lua 70-78 and 163-168).
QuotaBound ==
  \A i \in Of("fixed"), k \in FixedKeys :
    Cardinality({q \in Requests : Admitted(q) /\ CallKey(i, q) = k}) <= Rules[i].limit

\* Why it holds.  A command on its way was sent at most MaxDelay ago; ...
CallTimes ==
  \A q \in Requests :
    /\ pc[q] = "new" => flight[q] = {} /\ passes[q] = 0
    /\ pc[q] # "new" => Sent(q) <= now
    /\ flight[q] # {} => now <= Sent(q) + MaxDelay

\* ... what the gateway takes for a pass is one; ...
PassKnown ==
  \A q \in Requests : reply[q].ok \/ pc[q] \in {"serve", "release"} => passes[q] > 0

\* ... a counter lives until no command can name its key any more; ...
Dead(k) == now >= k.b + k.win + MaxDelay
CounterLives ==
  \A k \in FixedKeys :
    counters[k].n > 0 => counters[k].exp >= k.b + k.win + MaxDelay

\* ... and till then it counts the admitted at least.
Counted ==
  \A i \in Of("fixed"), k \in FixedKeys :
    \/ Dead(k)
    \/ Cardinality({q \in Requests : passes[q] > 0 /\ CallKey(i, q) = k}) <= counters[k].n

\* The quota and the state it rests on, from Check to the expiry of the counter:
\* an invariant that every step preserves by itself (batch_check.lua 70-78,
\* 163-168; limiter.go 207-254, 282-285).
QuotaInv == TypeOK /\ CallTimes /\ PassKnown /\ CounterLives /\ Counted /\ QuotaBound

\* Only admissions are charged: a live fixed-window counter is the number of
\* executions that passed, so rejected and abandoned requests use no quota
\* (batch_check.lua 5-12) and a resent call that runs twice is charged twice.
CounterExact ==
  \A k \in FixedKeys : counters[k].n > 0 =>
    counters[k].n = Cardinality({e \in Requests \X (1 .. (MaxRetries + 1)) \X Of("fixed") :
                                   e[2] <= passes[e[1]] /\ CallKey(e[3], e[1]) = k})

\* A request holds a slot from the execution that admitted it to its release.
Holding(q) == pc[q] \in {"serve", "release"} \/ (pc[q] = "wait" /\ reply[q] = Passed)

\* No more than max_concurrent requests that are within their timeout hold a slot
\* of one concurrency key, across instances, crashes and lost releases
\* (batch_check.lua 124-137, release_conc.lua).
ConcBound ==
  \A i \in Of("conc"), k \in ConcKeys :
    Cardinality({q \in Requests : /\ Holding(q)
                                  /\ CallKey(i, q) = k
                                  /\ now < passAt[q] + Rules[i].ttl}) <= Rules[i].limit

\* A release removes the request's own slot and nobody else's: while a request
\* holds a slot within its timeout, the sorted set has it (batch_check.lua 126-129:
\* "ZREM(request_id) removes exactly, never decrements somebody else's count").
OwnSlot ==
  \A q \in Requests, i \in Of("conc") :
    Holding(q) /\ now < passAt[q] + Rules[i].ttl => conc[CallKey(i, q)][ReqId[q]] > now

\* A sliding window under one key admits at most limit requests in any stretch of
\* one window length, a resent call counted once (batch_check.lua 80-96).
SlidingKeyBound ==
  \A i \in Of("sliding"), k \in SlideKeys, t \in 0 .. now :
    Cardinality({q \in Requests : /\ passes[q] > 0 /\ CallKey(i, q) = k
                                  /\ t - Rules[i].win < passAt[q] /\ passAt[q] <= t})
      <= Rules[i].limit

\* What docs/rate_limit_gateway_spec.md:180 says of sliding_window, "no burst at
\* the boundary": requests with the same dimension values, in any stretch of one
\* window length, are at most limit.
NoBoundaryBurst ==
  \A i \in Of("sliding"), q0 \in Requests, t \in 0 .. now :
    Cardinality({q \in Requests : /\ passes[q] > 0
                                  /\ DimVals(Rules[i], q) = DimVals(Rules[i], q0)
                                  /\ t - Rules[i].win < passAt[q] /\ passAt[q] <= t})
      <= Rules[i].limit

\* A token bucket admits at most burst + rate * T requests in any stretch of T
\* ticks, its expiry and re-creation included (batch_check.lua 98-122, 174-177).
BucketBound ==
  \A i \in Of("tb"), k \in BucketKeys, s, t \in 0 .. now :
    s <= t =>
      Unit * Cardinality({q \in Requests : /\ passes[q] > 0 /\ CallKey(i, q) = k
                                           /\ passAt[q] \in s .. t})
        <= Unit * Rules[i].burst + (t - s) * TokenBucketRate(Rules[i])

\* Rejecting from the negative cache is no stricter than asking Redis: while an
\* instance blocks a key of a rate rule, Redis would reject it too
\* (limiter.go 257-265 and 319-324, local.go 36-51).
NegCacheSound ==
  \A i \in Instances, r \in RuleIds, q \in Requests :
    LET k == Key(r, q, Clock(i)) IN
    Rules[r].alg \in {"fixed", "sliding", "tb"} /\ neg[i][k] # Absent /\ Clock(i) < neg[i][k]
      => Exceeded(Rules[r], k)

\* The local quotas that degraded instances have given out under one key add up to
\* no more than the limit, when the limit is enough for one each; a request that a
\* later rule rejects has used the quota of the rules before it, and an instance
\* that crashed begins anew (limiter.go 89-108, 336-377, local.go 54-70).
DegradedBound ==
  \A r \in LocalQuotaRules, q \in Requests, t \in 0 .. (MaxTime + MaxSkew) :
    LET k == QuotaKey(r, q, t) IN
    Rules[r].limit >= InstCount =>
      Cardinality({e \in Instances \X (1 .. Cardinality(Requests)) :
                     e[2] <= quota[e[1]][k].n}) <= Rules[r].limit
=============================================================================
