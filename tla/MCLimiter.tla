------------------------------ MODULE MCLimiter ------------------------------
(***************************************************************************)
(* Small instances of Limiter for TLC.  Ticks stand for seconds scaled     *)
(* down: windows of 2 or 3 ticks, and for Grace, the 60 s of the code, the *)
(* least value the skew and the delay allow.                               *)
(***************************************************************************)
EXTENDS Limiter, TLC

CONSTANTS q1, q2, q3, i1, i2

R(alg, limit, win, ttl, burst) ==
  [alg |-> alg, dims |-> {"biz"}, limit |-> limit, win |-> win,
   natural |-> FALSE, ttl |-> ttl, burst |-> burst]

OneBiz == [q \in Requests |-> [d \in {"biz"} |-> "b"]]
OwnIds == [q \in Requests |-> q]
NoSkew == [i \in Instances |-> 0]
OneAhead == [i \in Instances |-> IF i = i1 THEN 0 ELSE 1]

\* Requests are interchangeable: every constant gives them all the same values.
RequestSymmetry == Permutations(Requests)
\* So are instances, where their clocks agree.
FullSymmetry == Permutations(Requests) \cup Permutations(Instances)

\* A rule of each kind that a fixed window meets in a batch.  The token rule comes
\* first, so a hole in the plans would hide the others; the window is natural, so
\* its boundary depends on the time zone.
QuotaRules == <<R("token", 1, 3, 1, 1), [R("fixed", 1, 2, 1, 1) EXCEPT !.natural = TRUE],
                R("conc", 1, 1, 2, 1)>>

\* The sliding window binds within one key, the bucket across its boundary.
RateKinds == <<R("sliding", 1, 3, 1, 1), R("tb", 1, 2, 1, 1)>>

SlidingRules == <<R("sliding", 2, 3, 1, 1)>>
DegradeRules == <<R("token", 2, 2, 1, 1), R("fixed", 1, 2, 1, 1), R("conc", 2, 1, 2, 1)>>
==============================================================================
