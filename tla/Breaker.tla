------------------------------- MODULE Breaker -------------------------------
(***************************************************************************)
(* The circuit breaker of one gateway instance (internal/limiter/breaker.go)*)
(* under the goroutines that serve its requests.  After each script call   *)
(* Limiter.Check runs onSuccess, or onFailure and then degraded().         *)
(*                                                                         *)
(* A critical section of mu is one step.  The reads of the atomic field    *)
(* state that onSuccess and degraded() make before they take mu are steps  *)
(* of their own: another goroutine can run in between.                     *)
(*                                                                         *)
(* Times are kept as distances to the present, so that time is unbounded:  *)
(* winAge is now - windowAt (it stops counting once past Window) and       *)
(* coolLeft is openUntil - now (it stops at -1, past the cooldown).        *)
(***************************************************************************)
EXTENDS Integers

CONSTANTS
  Goroutines,
  Threshold,          \* failures in a window that can trip the breaker (20)
  RatioNum, RatioDen, \* and the share of the calls they must be (0.5)
  Window, Cooldown,   \* 5 s and 2 s
  MaxCalls            \* bound on the calls that end within one window

ASSUME BreakerAssumption ==
  /\ Threshold \in Nat \ {0} /\ RatioNum \in Nat \ {0} /\ RatioDen \in Nat \ {0}
  /\ Window \in Nat /\ Cooldown \in Nat /\ MaxCalls \in Nat

VARIABLES
  state, failures, successes, winAge, coolLeft,  \* the fields of breaker
  pc,        \* what each goroutine does next
  seen,      \* the value of state it has read outside mu
  verdict,   \* what degraded() last returned to it
  healthy    \* whether Redis answers

fields == <<state, failures, successes, winAge, coolLeft>>
vars == <<fields, pc, seen, verdict, healthy>>

States == {"closed", "open", "halfopen"}

TypeOK ==
  /\ state \in States
  /\ failures \in Nat /\ successes \in Nat
  /\ winAge \in 0 .. (Window + 1)
  /\ coolLeft \in -1 .. Cooldown
  /\ pc \in [Goroutines -> {"idle", "success", "degraded", "degradedOpen"}]
  /\ seen \in [Goroutines -> States]
  /\ verdict \in [Goroutines -> BOOLEAN]
  /\ healthy \in BOOLEAN

Init ==
  /\ state = "closed"
  /\ failures = 0 /\ successes = 0 /\ winAge = 0 /\ coolLeft = -1
  /\ pc = [g \in Goroutines |-> "idle"]
  /\ seen = [g \in Goroutines |-> "closed"]
  /\ verdict = [g \in Goroutines |-> FALSE]
  /\ healthy \in BOOLEAN
-----------------------------------------------------------------------------
\* rollLocked: the statistics window is over.
WindowOver == winAge > Window

\* Bound: this many calls fit in a window.
MayCall(g) ==
  /\ pc[g] = "idle"
  /\ failures + successes < MaxCalls \/ WindowOver

\* A call succeeds; onSuccess reads state before it takes mu.
OnSuccessLoad(g) ==
  /\ MayCall(g)
  /\ healthy
  /\ pc' = [pc EXCEPT ![g] = "success"]
  /\ seen' = [seen EXCEPT ![g] = state]
  /\ UNCHANGED <<fields, verdict, healthy>>

\* Mutant: only a half-open breaker is closed.
OnSuccessProbeOnly(g) ==
  /\ pc[g] = "success"
  /\ pc' = [pc EXCEPT ![g] = "idle"]
  /\ state' = IF seen[g] = "halfopen" THEN "closed" ELSE state
  /\ failures' = 0 /\ successes' = 0 /\ winAge' = 0
  /\ UNCHANGED <<coolLeft, seen, verdict, healthy>>

\* onSuccess inside mu: count the success, or close the breaker if state was read
\* as open or half-open.
OnSuccess(g) ==
  /\ pc[g] = "success"
  /\ pc' = [pc EXCEPT ![g] = "idle"]
  /\ IF seen[g] = "closed"
     THEN /\ successes' = IF WindowOver THEN 0 ELSE successes + 1
          /\ failures' = IF WindowOver THEN 0 ELSE failures
          /\ winAge' = IF WindowOver THEN 0 ELSE winAge
          /\ UNCHANGED state
     ELSE /\ state' = "closed"
          /\ failures' = 0 /\ successes' = 0 /\ winAge' = 0
  /\ UNCHANGED <<coolLeft, seen, verdict, healthy>>

\* The window's failures, n of m calls, amount to an outage.
Outage(n, m) == n >= Threshold /\ n * RatioDen >= m * RatioNum

\* The trip of onFailure, and the cooldown it starts.  Mutants: the failure at
\* hand is not counted; the window is taken for the cooldown.
TripsLate(n, s) == Outage(n - 1, n - 1 + s)
Trips(n, s) == Outage(n, n + s)
OpenForWindow == Window
OpenFor == Cooldown

\* A call fails: onFailure.  A failed probe opens the breaker again; otherwise the
\* failure is counted, after the window was rolled, and may trip it.
OnFailure(g) ==
  LET n == (IF WindowOver THEN 0 ELSE failures) + 1
      s == IF WindowOver THEN 0 ELSE successes
  IN
  /\ MayCall(g)
  /\ ~healthy
  /\ pc' = [pc EXCEPT ![g] = "degraded"]
  /\ IF state = "halfopen"
     THEN /\ state' = "open"
          /\ coolLeft' = OpenFor
          /\ UNCHANGED <<failures, successes, winAge>>
     ELSE /\ winAge' = IF WindowOver THEN 0 ELSE winAge
          /\ IF Trips(n, s)
             THEN /\ state' = "open"
                  /\ coolLeft' = OpenFor
                  /\ failures' = 0 /\ successes' = 0
             ELSE /\ failures' = n /\ successes' = s
                  /\ UNCHANGED <<state, coolLeft>>
  /\ UNCHANGED <<seen, verdict, healthy>>

\* degraded() reads state: closed and half-open answer at once.
DegradedLoad(g) ==
  /\ pc[g] = "degraded"
  /\ seen' = [seen EXCEPT ![g] = state]
  /\ IF state = "open"
     THEN /\ pc' = [pc EXCEPT ![g] = "degradedOpen"]
          /\ UNCHANGED verdict
     ELSE /\ pc' = [pc EXCEPT ![g] = "idle"]
          /\ verdict' = [verdict EXCEPT ![g] = state = "halfopen"]
  /\ UNCHANGED <<fields, healthy>>

\* degraded() inside mu, having read open: past the cooldown the breaker becomes
\* half-open, whatever state holds by now.
DegradedOpen(g) ==
  /\ pc[g] = "degradedOpen"
  /\ pc' = [pc EXCEPT ![g] = "idle"]
  /\ verdict' = [verdict EXCEPT ![g] = TRUE]
  /\ state' = IF coolLeft < 0 THEN "halfopen" ELSE state
  /\ UNCHANGED <<failures, successes, winAge, coolLeft, seen, healthy>>

\* Environment: time passes; Redis fails and comes back.
Tick ==
  /\ winAge' = IF WindowOver THEN winAge ELSE winAge + 1
  /\ coolLeft' = IF coolLeft < 0 THEN coolLeft ELSE coolLeft - 1
  /\ UNCHANGED <<state, failures, successes, pc, seen, verdict, healthy>>

RedisFlips ==
  /\ healthy' = ~healthy
  /\ UNCHANGED <<fields, pc, seen, verdict>>

Step(g) == OnSuccess(g) \/ DegradedLoad(g) \/ DegradedOpen(g)
Call(g) == OnSuccessLoad(g) \/ OnFailure(g)

Next ==
  \/ \E g \in Goroutines : Step(g) \/ Call(g)
  \/ Tick
  \/ RedisFlips

Spec == Init /\ [][Next]_vars

\* Goroutines run, requests keep coming, time passes.
Fairness ==
  /\ \A g \in Goroutines : WF_vars(Step(g)) /\ WF_vars(Call(g))
  /\ WF_vars(Tick)

FairSpec == Spec /\ Fairness
-----------------------------------------------------------------------------
\* No trip is missed: the statistics in force never amount to an outage, so the
\* failure that completes one always opens the breaker (onFailure 106-117), in
\* spite of successes counted late and windows rolled by other goroutines.
NoMissedTrip == ~Outage(failures, failures + successes)

\* breaker.go 24: once Redis answers again, the first successful call closes the
\* breaker, and late transitions of degraded() do not keep it from staying closed.
Recovers == <>[]healthy => <>[](state = "closed")
=============================================================================
