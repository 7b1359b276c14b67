----------------------------- MODULE RateRules -----------------------------
(***************************************************************************)
(* The rules of one business line and the Redis keys they are counted      *)
(* under (internal/limiter/rule.go, internal/limiter/key.go).              *)
(*                                                                         *)
(* Time is a natural number of ticks.  A rule is a record with             *)
(*   alg      which branch of Limiter.Check it takes: "fixed", "sliding",  *)
(*            "tb" (token bucket), "conc" (concurrency) or "token" (a      *)
(*            token budget, counted in the ledger of TokenReserve)         *)
(*   dims     its dimensions, a set of names                               *)
(*   limit    limit, or max_concurrent when alg is "conc"                  *)
(*   win      window length;   natural: aligned to the business time zone  *)
(*   ttl      timeout of a concurrency slot;   burst: bucket capacity      *)
(* Every rule has every field; a field its algorithm does not read is      *)
(* arbitrary.  Rules holds the enabled rules, in the order they are listed.*)
(***************************************************************************)
EXTENDS Integers, Sequences, FiniteSets

CONSTANTS
  Rules,        \* the sequence of enabled rules
  Dims,         \* names of dimensions (biz, user, token, ip, ...)
  DimValues,    \* values a dimension can take
  Requests,     \* the requests of a behaviour
  Meta,         \* Meta[q][d]: the value of dimension d in request q
  TzOffset,     \* offset of the business time zone, in ticks
  Unit          \* token buckets count in 1/Unit of a token

Algorithms == {"fixed", "sliding", "tb", "conc", "token"}

Rule == [alg : Algorithms, dims : SUBSET Dims, limit : Nat \ {0},
         win : Nat \ {0}, natural : BOOLEAN, ttl : Nat \ {0}, burst : Nat \ {0}]

RuleIds == DOMAIN Rules

\* What Rule.Validate leaves of a rule: positive limits, windows and timeouts.
ASSUME RulesAssumption == Rules \in Seq(Rule) /\ Rules # <<>>
ASSUME MetaAssumption == Meta \in [Requests -> [Dims -> DimValues]]
ASSUME RequestsAssumption == IsFiniteSet(Requests)
ASSUME TzAssumption == TzOffset \in Nat
\* TokenBucketRate, limit / winSec a second, is a whole number of 1/Unit tokens
ASSUME UnitAssumption ==
  /\ Unit \in Nat \ {0}
  /\ \A i \in RuleIds : Rules[i].alg = "tb" =>
                          /\ Rules[i].limit * Unit >= Rules[i].win
                          /\ (Rules[i].limit * Unit) % Rules[i].win = 0

(***************************************************************************)
(* Start of the window that holds time t.  A natural window (d, w) is      *)
(* aligned to the business time zone, any other one to time 0.             *)
(***************************************************************************)
WindowBoundary(t, win, natural) ==
  IF natural THEN ((t + TzOffset) \div win) * win - TzOffset
             ELSE (t \div win) * win

\* The values of a rule's dimensions in a request (Meta.dimValues).
DimVals(r, q) == [d \in r.dims |-> Meta[q][d]]

\* The key of rule r for request q, built from the gateway's clock t.  No part
\* of a key names the rule: two rules with the same fields share the key.
RateKey(r, q, t) == [kind |-> "rl", vals |-> DimVals(r, q), win |-> r.win,
                     b |-> WindowBoundary(t, r.win, r.natural)]
TokenLedgerKey(r, q, t) == [kind |-> "tk", vals |-> DimVals(r, q), win |-> r.win,
                            b |-> WindowBoundary(t, r.win, r.natural)]
TokenBucketKey(r, q) == [kind |-> "tb", vals |-> DimVals(r, q), win |-> 0, b |-> 0]
ConcurrencyKey(r, q) == [kind |-> "cc", vals |-> DimVals(r, q), win |-> 0, b |-> 0]

\* The key Limiter.Check passes to the script for rule i of request q.
Key(i, q, t) ==
  CASE Rules[i].alg = "token"              -> TokenLedgerKey(Rules[i], q, t)
    [] Rules[i].alg = "conc"               -> ConcurrencyKey(Rules[i], q)
    [] Rules[i].alg = "tb"                 -> TokenBucketKey(Rules[i], q)
    [] Rules[i].alg \in {"sliding", "fixed"} -> RateKey(Rules[i], q, t)

\* The rules of one algorithm.
Of(a) == {i \in RuleIds : Rules[i].alg = a}

\* Refill of a token bucket rule per tick, in 1/Unit tokens.
TokenBucketRate(r) == (r.limit * Unit) \div r.win

CeilDiv(a, b) == (a + b - 1) \div b
=============================================================================
