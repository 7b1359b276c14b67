----------------------------- MODULE TokenLedger -----------------------------
(***************************************************************************)
(* A token budget: how responses are metered and charged while they stream *)
(* (sseSink in proxy/handler.go, copySSE in proxy/stream.go, Counter in    *)
(* meter/token.go, TokenReserve and TokenSettle in limiter/ledger.go) and  *)
(* the ledger in Redis they charge (scripts/token_ledger.lua).             *)
(*                                                                         *)
(* One token rule and one value of its dimensions: a ledger per window.    *)
(* Every call to Redis, that of the admission included, takes two steps:   *)
(* the gateway fixes the window from its clock, Redis executes later.      *)
(* Where Lossy, a call can fail instead: a failed admission is degraded, a *)
(* failed charge is ignored by the code.  Or its reply gets lost and the   *)
(* Redis client sends it once more.  Clocks agree here; module Limiter has *)
(* skewed ones.                                                            *)
(***************************************************************************)
EXTENDS Integers, FiniteSets, FiniteSetsExt

CONSTANTS
  Streams,         \* responses
  Limit,           \* the token budget of a window
  Win, Grace,      \* window length, and the 60 s added to a ledger's expiry
  BufNum, BufDen,  \* safety buffer on estimates, 1.2 by default
  MaxEst, MaxExact,\* bounds on the estimate and on the usage of one response
  MaxOpen,         \* a concurrency rule of the same batch: responses open at once
  MaxTime,         \* bound on now
  Lossy,           \* whether calls to Redis can fail
  MaxRetries,      \* resends of one call by the Redis client
  MaxLate          \* bound on the calls that are executed after they were given up

ASSUME LedgerAssumption ==
  /\ IsFiniteSet(Streams)
  /\ Limit \in Nat \ {0} /\ Win \in Nat \ {0} /\ Grace \in Nat
  /\ BufNum \in Nat \ {0} /\ BufDen \in Nat \ {0}
  /\ MaxEst \in Nat /\ MaxExact \in Nat /\ MaxOpen \in Nat /\ MaxTime \in Nat
  /\ MaxRetries \in Nat /\ MaxLate \in Nat
  /\ Lossy \in BOOLEAN

VARIABLES
  now,
  ledger,     \* ledger[w]: tokens charged to window w, and expiry; exp 0: no key
  pc,         \* where each response is
  how,        \* how it was admitted, "no" unless it was
  estimated, exact, flushed,  \* its Counter; exact is NoUsage until known
  op, tries,  \* its call on the way to Redis, and how often that was resent
  stray,      \* a call given up by the gateway that Redis has yet to execute
  late,       \* how many calls have been given up like that
  faulty      \* history: a call failed or was made twice

vars == <<now, ledger, pc, how, estimated, exact, flushed, op, tries, stray, late, faulty>>

Windows == 0 .. (MaxTime \div Win)
Window == now \div Win
NoUsage == -1
NoKey == [n |-> 0, exp |-> 0]
Call(name, amount) == [name |-> name, w |-> Window, amount |-> amount]
NoOp == [name |-> "none", w |-> 0, amount |-> 0]
Ops == [name : {"none", "admit", "reserve", "settle"}, w : Windows, amount : Int]

TypeOK ==
  /\ now \in 0 .. MaxTime
  /\ ledger \in [Windows -> [n : Nat, exp : Nat]]
  /\ pc \in [Streams ->
               {"new", "check", "open", "flush", "tail", "final", "settle", "over"}]
  /\ how \in [Streams -> {"no", "checked", "stale", "degraded"}]
  /\ estimated \in [Streams -> 0 .. MaxEst]
  /\ exact \in [Streams -> NoUsage .. MaxExact]
  /\ flushed \in [Streams -> Nat]
  /\ op \in [Streams -> Ops]
  /\ tries \in [Streams -> 0 .. MaxRetries]
  /\ stray \in Ops /\ late \in 0 .. MaxLate
  /\ faulty \in BOOLEAN

Init ==
  /\ now = 0
  /\ ledger = [w \in Windows |-> NoKey]
  /\ pc = [s \in Streams |-> "new"]
  /\ how = [s \in Streams |-> "no"]
  /\ estimated = [s \in Streams |-> 0]
  /\ exact = [s \in Streams |-> NoUsage]
  /\ flushed = [s \in Streams |-> 0]
  /\ op = [s \in Streams |-> NoOp]
  /\ tries = [s \in Streams |-> 0]
  /\ stray = NoOp /\ late = 0
  /\ faulty = FALSE
-----------------------------------------------------------------------------
Open == {s \in Streams : pc[s] \notin {"new", "check", "over"}}

\* The responses the concurrency rule counts.  The slot a failed call may have left
\* behind is left out: it only makes the rule stricter.
Holding == {s \in Open : how[s] # "degraded"}

\* Limiter.Check builds the keys of its batch, that of the ledger from the clock.
Check(s) ==
  /\ pc[s] = "new"
  /\ op' = [op EXCEPT ![s] = Call("admit", 0)]
  /\ pc' = [pc EXCEPT ![s] = "check"]
  /\ UNCHANGED <<now, ledger, how, estimated, exact, flushed, tries, stray, late, faulty>>

\* Mutant: a budget that is just used up still admits.
AdmitsOneMore(w) == ledger[w].n <= Limit

\* tkadmit in batch_check.lua: the budget of the window of its key is not used up yet.
Admits(w) == ledger[w].n < Limit

\* The call of the admission is over: s is served, in the way given, or answered 429.
Admitted(s, way) ==
  /\ how' = [how EXCEPT ![s] = way]
  /\ pc' = [pc EXCEPT ![s] = IF way = "no" THEN "over" ELSE "open"]
  /\ op' = [op EXCEPT ![s] = NoOp]
  /\ tries' = [tries EXCEPT ![s] = 0]

\* The connection breaks before the reply, and the Redis client makes the call again.
Resend(s) ==
  /\ Lossy
  /\ tries[s] < MaxRetries
  /\ tries' = [tries EXCEPT ![s] = @ + 1]
  /\ UNCHANGED <<op, pc, how>>

\* Redis executes the batch, which only looks at the ledger.  That may be the ledger of a
\* window that has ended since its key was built.
ExecAdmit(s) ==
  /\ op[s].name = "admit"
  /\ \/ Admitted(s, IF ~Admits(op[s].w) \/ Cardinality(Holding) >= MaxOpen THEN "no"
                    ELSE IF op[s].w = Window THEN "checked" ELSE "stale")
     \/ Resend(s)
  /\ UNCHANGED <<now, ledger, estimated, exact, flushed, stray, late, faulty>>

\* The call fails: the local fallback admits or refuses, and looks at no ledger.
CheckFails(s) ==
  /\ Lossy
  /\ op[s].name = "admit"
  /\ Admitted(s, "degraded") \/ Admitted(s, "no")
  /\ UNCHANGED <<now, ledger, estimated, exact, flushed, stray, late, faulty>>

\* A data line with content: its estimate is added.
OnData(s) ==
  /\ pc[s] = "open"
  /\ \E n \in 1 .. (MaxEst - estimated[s]) :
       estimated' = [estimated EXCEPT ![s] = @ + n]
  /\ UNCHANGED <<now, ledger, pc, how, exact, flushed, op, tries, stray, late, faulty>>

\* A data line with the usage the upstream counted.
OnUsage(s) ==
  /\ pc[s] = "open"
  /\ \E u \in 1 .. MaxExact : exact' = [exact EXCEPT ![s] = u]
  /\ UNCHANGED <<now, ledger, pc, how, estimated, flushed, op, tries, stray, late, faulty>>

\* The buffered estimate, and what of it has not been flushed (PendingFlush).
Buffered(s) == (estimated[s] * BufNum + BufDen - 1) \div BufDen
Pending(s) == IF Buffered(s) > flushed[s] THEN Buffered(s) - flushed[s] ELSE 0

\* The stream's goroutine calls TokenReserve for d tokens; they count as flushed
\* from now on, whatever becomes of the call.
BeginReserve(s, d, next) ==
  /\ flushed' = [flushed EXCEPT ![s] = @ + d]
  /\ op' = [op EXCEPT ![s] = Call("reserve", d)]
  /\ pc' = [pc EXCEPT ![s] = next]

OnFlushTick(s) ==
  /\ pc[s] = "open"
  /\ Pending(s) > 0
  /\ BeginReserve(s, Pending(s), "flush")
  /\ UNCHANGED <<now, ledger, how, estimated, exact, tries, stray, late, faulty>>

\* The stream ends: the unflushed tail is reserved first.
OnEnd(s) ==
  /\ pc[s] = "open"
  /\ IF Pending(s) > 0
     THEN BeginReserve(s, Pending(s), "tail")
     ELSE /\ pc' = [pc EXCEPT ![s] = "final"]
          /\ UNCHANGED <<flushed, op>>
  /\ UNCHANGED <<now, ledger, how, estimated, exact, tries, stray, late, faulty>>

\* copySSE: lines and flush ticks until the body ends or the client has gone.
CopySSE(s) == OnData(s) \/ OnUsage(s) \/ OnFlushTick(s) \/ OnEnd(s)

\* What is to be settled; the mutant forgets the safety buffer.
AdjustUnbuffered(s) == exact[s] - estimated[s]
Adjust(s) == exact[s] - flushed[s]

\* Then the difference to the exact usage is settled, if that is known.
Settle(s) ==
  /\ pc[s] = "final"
  /\ IF exact[s] # NoUsage /\ Adjust(s) # 0
     THEN /\ op' = [op EXCEPT ![s] = Call("settle", Adjust(s))]
          /\ pc' = [pc EXCEPT ![s] = "settle"]
     ELSE /\ pc' = [pc EXCEPT ![s] = "over"]
          /\ UNCHANGED op
  /\ UNCHANGED <<now, ledger, how, estimated, exact, flushed, tries, stray, late, faulty>>

\* A response that is not a stream: one reserve of its usage or estimate
\* (forwardJSONWithMetering).
JsonResponse(s) ==
  /\ pc[s] = "open"
  /\ estimated[s] = 0 /\ exact[s] = NoUsage
  /\ \E u \in 1 .. MaxExact : BeginReserve(s, u, "tail")
  /\ UNCHANGED <<now, ledger, how, estimated, exact, tries, stray, late, faulty>>

\* What follows the call a response is in.
Resume(s) == [pc EXCEPT ![s] = CASE pc[s] = "flush" -> "open"
                                 [] pc[s] = "tail" -> "final"
                                 [] pc[s] = "settle" -> "over"]

Return(s) ==
  /\ op' = [op EXCEPT ![s] = NoOp]
  /\ tries' = [tries EXCEPT ![s] = 0]
  /\ pc' = Resume(s)

\* After a charge the reply gets back; or the call, which is not idempotent, is resent.
Replied(s) ==
  \/ Return(s) /\ UNCHANGED faulty
  \/ Resend(s) /\ faulty' = TRUE

\* token_ledger.lua, op reserve.
ExecReserve(c) ==
  /\ c.name = "reserve"
  /\ ledger' = [ledger EXCEPT ![c.w] =
       [n |-> @.n + c.amount,
        exp |-> IF @.n = 0 THEN now + Win + Grace ELSE @.exp]]

\* A refund is cut off at zero; the mutant lets the ledger go negative.
NotClamped(used) == used
Clamp(used) == IF used < 0 THEN 0 ELSE used

\* token_ledger.lua, op settle: a missing ledger is created for a surcharge and
\* left alone for a refund; a refund below zero is cut off at zero.
ExecSettle(c) ==
  /\ c.name = "settle"
  /\ ledger' = [ledger EXCEPT ![c.w] =
       IF @.exp = 0
       THEN IF c.amount > 0 THEN [n |-> c.amount, exp |-> now + Win + Grace] ELSE @
       ELSE [n |-> Clamp(@.n + c.amount), exp |-> @.exp]]

\* Redis executes the charge of s.
Exec(s) ==
  /\ ExecReserve(op[s]) \/ ExecSettle(op[s])
  /\ Replied(s)
  /\ UNCHANGED <<now, how, estimated, exact, flushed, stray, late>>

\* A charge fails; the stream goes on as if it had not.  The call is lost, or is still on
\* its way when its context ends, after 2 s.
CallFails(s) ==
  /\ Lossy
  /\ op[s].name \in {"reserve", "settle"}
  /\ Return(s)
  /\ \/ UNCHANGED <<stray, late>>
     \/ stray = NoOp /\ late < MaxLate /\ stray' = op[s] /\ late' = late + 1
  /\ faulty' = TRUE
  /\ UNCHANGED <<now, ledger, how, estimated, exact, flushed>>

\* It gets there after all, when its response may be settled or over.
ExecLate ==
  /\ ExecReserve(stray) \/ ExecSettle(stray)
  /\ stray' = NoOp
  /\ UNCHANGED <<now, pc, how, estimated, exact, flushed, op, tries, late, faulty>>

Tick ==
  /\ now < MaxTime
  /\ now' = now + 1
  /\ ledger' = [w \in Windows |-> IF ledger[w].exp < now' THEN NoKey ELSE ledger[w]]
  /\ UNCHANGED <<pc, how, estimated, exact, flushed, op, tries, stray, late, faulty>>

Next ==
  \/ \E s \in Streams :
       \/ Check(s) \/ ExecAdmit(s) \/ CheckFails(s)
       \/ CopySSE(s) \/ Settle(s) \/ JsonResponse(s)
       \/ Exec(s) \/ CallFails(s)
  \/ ExecLate \/ Tick

Spec == Init /\ [][Next]_vars
-----------------------------------------------------------------------------
\* What response s has charged so far: what it flushed, less a reserve still on its
\* way, and after the settlement its exact usage.
Charged(s) ==
  IF pc[s] = "over" /\ exact[s] # NoUsage THEN exact[s]
  ELSE flushed[s] - (IF op[s].name = "reserve" THEN op[s].amount ELSE 0)

\* Within a window, and while all calls succeed, reserve and settle account for
\* every response exactly once, whatever the interleaving of their calls: the
\* ledger is the sum of what is charged, and of the exact usages once all is over
\* (token_ledger.lua 14-16).
LedgerBalanced ==
  ~faulty /\ Window = 0 => ledger[0].n = SumFunction([s \in Streams |-> Charged(s)])

\* The most one response can charge.
PerResponse == Max({(MaxEst * BufNum + BufDen - 1) \div BufDen, MaxExact})

\* The responses admitted without a look at the ledger they charge: degraded ones, and
\* those whose batch was executed when its window had ended.
Blind == {s \in Streams : how[s] \in {"stale", "degraded"}}

\* README.md:153, ledger.go 14-15: a window is overspent by at most what the responses that
\* the concurrency rule lets through at once can charge, for each time that their calls are
\* made.  That is so for responses that outlive their window and for refunds that reopen
\* the budget; every response admitted blindly adds its share, and every call that is
\* executed after it was given up adds one charge.
OvershootBound ==
  \A w \in Windows :
    ledger[w].n <= (Limit - 1)
      + ((MaxOpen + Cardinality(Blind)) * (MaxRetries + 1) + late) * PerResponse

\* What README.md:153 says without those additions: one window is overspent by no more than
\* the number of responses at once times what one of them consumes.  It does not hold: the
\* batch of an admission may be executed after the window of its key (limiter.go 203-285).
OvershootAsDocumented ==
  \A w \in Windows : ledger[w].n <= (Limit - 1) + MaxOpen * PerResponse
=============================================================================
