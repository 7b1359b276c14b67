---------------------------- MODULE BreakerProofs ----------------------------
(***************************************************************************)
(* The circuit breaker never misses a trip, for any number of goroutines,  *)
(* thresholds and window lengths.                                          *)
(***************************************************************************)
EXTENDS Breaker, TLAPS

\* The breaker starts in a well-formed state with empty statistics.
LEMMA InitInv == Init => TypeOK /\ NoMissedTrip
<1> SUFFICES ASSUME Init PROVE TypeOK /\ NoMissedTrip
  OBVIOUS
<1>1. TypeOK
  <2>1. failures \in Nat /\ successes \in Nat /\ winAge \in 0 .. (Window + 1)
        /\ coolLeft \in -1 .. Cooldown
    BY BreakerAssumption DEF Init
  <2>2. healthy \in BOOLEAN /\ verdict \in [Goroutines -> BOOLEAN]
    BY Zenon DEF Init
  <2>3. state \in States /\ seen \in [Goroutines -> States]
        /\ pc \in [Goroutines -> {"idle", "success", "degraded", "degradedOpen"}]
    BY DEF Init, States
  <2> QED
    BY <2>1, <2>2, <2>3 DEF TypeOK
<1>2. NoMissedTrip
  BY BreakerAssumption DEF Init, NoMissedTrip, Outage
<1> QED
  BY <1>1, <1>2

\* Every step leaves a well-formed breaker.
LEMMA NextType == TypeOK /\ [Next]_vars => TypeOK'
<1> SUFFICES ASSUME TypeOK, [Next]_vars PROVE TypeOK'
  OBVIOUS
<1> USE BreakerAssumption
<1>1. ASSUME NEW g \in Goroutines, OnSuccess(g) PROVE TypeOK'
  <2>1. CASE seen[g] = "closed"
    <3>1. failures' \in Nat /\ successes' \in Nat /\ winAge' \in 0 .. (Window + 1)
      BY <1>1, <2>1 DEF OnSuccess, TypeOK
    <3>2. pc' \in [Goroutines -> {"idle", "success", "degraded", "degradedOpen"}]
      BY <1>1 DEF OnSuccess, TypeOK
    <3> QED
      BY <1>1, <2>1, <3>1, <3>2 DEF OnSuccess, TypeOK
  <2>2. CASE seen[g] # "closed"
    <3>1. failures' \in Nat /\ successes' \in Nat /\ winAge' \in 0 .. (Window + 1)
      BY <1>1, <2>2 DEF OnSuccess
    <3>2. pc' \in [Goroutines -> {"idle", "success", "degraded", "degradedOpen"}]
      BY <1>1 DEF OnSuccess, TypeOK
    <3>3. state' \in States
      BY <1>1, <2>2 DEF OnSuccess, States
    <3> QED
      BY <1>1, <3>1, <3>2, <3>3 DEF OnSuccess, TypeOK
  <2> QED
    BY <2>1, <2>2
<1>2. ASSUME NEW g \in Goroutines, DegradedLoad(g) PROVE TypeOK'
  BY <1>2 DEF DegradedLoad, TypeOK, States, fields
<1>3. ASSUME NEW g \in Goroutines, DegradedOpen(g) PROVE TypeOK'
  BY <1>3 DEF DegradedOpen, TypeOK, States
<1>4. ASSUME NEW g \in Goroutines, OnSuccessLoad(g) PROVE TypeOK'
  BY <1>4 DEF OnSuccessLoad, TypeOK, States, fields
<1>5. ASSUME NEW g \in Goroutines, OnFailure(g) PROVE TypeOK'
  <2>1. CASE state = "halfopen"
    BY <1>5, <2>1 DEF OnFailure, OpenFor, TypeOK, States
  <2>2. CASE state # "halfopen"
    <3>1. failures' \in Nat /\ successes' \in Nat /\ winAge' \in 0 .. (Window + 1)
          /\ coolLeft' \in -1 .. Cooldown /\ state' \in States
      BY <1>5, <2>2 DEF OnFailure, OpenFor, TypeOK, States
    <3>2. pc' \in [Goroutines -> {"idle", "success", "degraded", "degradedOpen"}]
      BY <1>5 DEF OnFailure, TypeOK
    <3> QED
      BY <1>5, <3>1, <3>2 DEF OnFailure, TypeOK
  <2> QED
    BY <2>1, <2>2
<1>6. CASE Tick
  BY <1>6 DEF Tick, TypeOK, WindowOver
<1>7. CASE RedisFlips
  BY <1>7 DEF RedisFlips, TypeOK, fields
<1>8. CASE UNCHANGED vars
  BY <1>8 DEF TypeOK, vars, fields
<1> QED
  BY <1>1, <1>2, <1>3, <1>4, <1>5, <1>6, <1>7, <1>8 DEF Next, Step, Call

\* A success makes no outage of what was none; neither do empty statistics.
LEMMA OutageFacts ==
  /\ ~Outage(0, 0)
  /\ \A n, s \in Nat : ~Outage(n, n + s) => ~Outage(n, n + (s + 1))
<1>1. ~Outage(0, 0)
  BY BreakerAssumption DEF Outage
<1>2. ASSUME NEW n \in Nat, NEW s \in Nat, ~Outage(n, n + s)
      PROVE  ~Outage(n, n + (s + 1))
  <2>1. (n + (s + 1)) * RatioNum = (n + s) * RatioNum + RatioNum
    BY BreakerAssumption
  <2>2. n * RatioDen \in Int /\ (n + s) * RatioNum \in Int /\ RatioNum \in Nat
    BY BreakerAssumption
  <2> QED
    BY <1>2, <2>1, <2>2 DEF Outage
<1> QED
  BY <1>1, <1>2

\* Every step leaves statistics that amount to no outage: a success only lowers the
\* ratio, a failure that completes an outage resets them as it opens the breaker.
LEMMA NextTrip == TypeOK /\ NoMissedTrip /\ [Next]_vars => NoMissedTrip'
<1> SUFFICES ASSUME TypeOK, NoMissedTrip, [Next]_vars PROVE NoMissedTrip'
  OBVIOUS
<1>0. failures \in Nat /\ successes \in Nat /\ ~Outage(failures, failures + successes)
  BY DEF TypeOK, NoMissedTrip
<1>1. ASSUME failures' = failures, successes' = successes PROVE NoMissedTrip'
  BY <1>0, <1>1 DEF NoMissedTrip, Outage
<1>2. ASSUME failures' = 0, successes' = 0 PROVE NoMissedTrip'
  BY <1>2, OutageFacts, 0 + 0 = 0 DEF NoMissedTrip, Outage
<1>3. ASSUME NEW g \in Goroutines, OnSuccess(g) PROVE NoMissedTrip'
  <2>1. CASE seen[g] = "closed" /\ ~WindowOver
    <3>1. failures' = failures /\ successes' = successes + 1
      BY <1>3, <2>1 DEF OnSuccess
    <3>2. ~Outage(failures, failures + (successes + 1))
      BY <1>0, OutageFacts
    <3> QED
      BY <3>1, <3>2 DEF NoMissedTrip, Outage
  <2>2. CASE seen[g] # "closed" \/ WindowOver
    BY <1>2, <1>3, <2>2 DEF OnSuccess
  <2> QED
    BY <2>1, <2>2
<1>4. ASSUME NEW g \in Goroutines, OnFailure(g) PROVE NoMissedTrip'
  <2> DEFINE n == (IF WindowOver THEN 0 ELSE failures) + 1
             s == IF WindowOver THEN 0 ELSE successes
  <2>1. CASE state = "halfopen"
    BY <1>1, <1>4, <2>1 DEF OnFailure
  <2>2. CASE state # "halfopen" /\ Trips(n, s)
    BY <1>2, <1>4, <2>2 DEF OnFailure
  <2>3. CASE state # "halfopen" /\ ~Trips(n, s)
    <3>1. failures' = n /\ successes' = s
      BY <1>4, <2>3 DEF OnFailure
    <3> QED
      BY <2>3, <3>1 DEF Trips, NoMissedTrip, Outage
  <2> QED
    BY <2>1, <2>2, <2>3
<1>5. ASSUME NEW g \in Goroutines, DegradedLoad(g) \/ DegradedOpen(g) \/ OnSuccessLoad(g)
      PROVE  NoMissedTrip'
  BY <1>1, <1>5 DEF DegradedLoad, DegradedOpen, OnSuccessLoad, fields
<1>6. CASE Tick \/ RedisFlips \/ UNCHANGED vars
  BY <1>1, <1>6 DEF Tick, RedisFlips, vars, fields
<1> QED
  BY <1>3, <1>4, <1>5, <1>6 DEF Next, Step, Call

\* The breaker's fields stay well formed: a counter is never negative, a cooldown
\* never longer than configured (breaker.go 50-124).
THEOREM TypeCorrect == Spec => []TypeOK
<1> QED
  BY InitInv, NextType, PTL DEF Spec

\* The failure that completes an outage always opens the breaker (onFailure), for
\* any number of goroutines: no interleaving leaves statistics behind that amount
\* to an outage with the breaker not tripped by it.
THEOREM TripsInTime == Spec => []NoMissedTrip
<1>1. Init => TypeOK /\ NoMissedTrip
  BY InitInv
<1>2. (TypeOK /\ NoMissedTrip) /\ [Next]_vars => (TypeOK /\ NoMissedTrip)'
  BY NextType, NextTrip
<1> QED
  BY <1>1, <1>2, PTL DEF Spec
=============================================================================
