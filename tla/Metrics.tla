------------------------------- MODULE Metrics -------------------------------
(***************************************************************************)
(* The instruments of internal/obs (metrics.go, window.go) under the       *)
(* goroutines that serve requests and the one that renders /metrics.       *)
(*                                                                         *)
(* A request raises the gauge concurrency_in_flight, is counted by observe *)
(* in requests_total, request_duration_seconds and requests_per_minute,    *)
(* and lowers the gauge again.  All carry one label value; the cells of    *)
(* different label values have nothing in common.  A cell is created by    *)
(* the first goroutine that misses it, so it is named after its creator.   *)
(*                                                                         *)
(* Each atomic operation is a step.  A critical section of a vec's mutex   *)
(* is one step, but for the read lock that write holds while it reads the  *)
(* cells one by one: as long as it does, nobody can create a cell.         *)
(***************************************************************************)
EXTENDS Integers, FiniteSets, Functions

CONSTANTS
  Goroutines,
  None,            \* the label is not in the map
  Bounds,          \* number of finite bounds of the histogram
  windowBuckets,   \* slots of a ring window, one per second (60)
  Start,           \* Unix time at the start
  MaxTime,         \* bound on the clock
  MaxRequests,     \* bound on the requests
  MaxScrapes       \* bound on the scrapes

ASSUME MetricsAssumption ==
  /\ IsFiniteSet(Goroutines) /\ None \notin Goroutines
  /\ Bounds \in Nat /\ windowBuckets \in Nat \ {0}
  /\ Start \in Nat /\ Start >= windowBuckets
  /\ MaxTime \in Nat /\ Start <= MaxTime /\ MaxRequests \in Nat /\ MaxScrapes \in Nat

Vecs == {"conc", "req", "lat", "rpm"}
Ops == {"idle", "enter", "req", "lat", "rpm", "leave"}
Slots == 0 .. windowBuckets - 1
Seconds == 0 .. MaxTime

VARIABLES
  vals,                   \* the map of each vec: the cell of the label
  gauge, counter,         \* the cells of the gauge and of the counter
  bucket, total, sum,     \* the cells of the histogram
  counts, epochs,         \* the cells of the ring window
  op, pc, ptr,            \* what each goroutine does, its next step, its cell
  at, old,                \* its clock reading; the epoch it has loaded, or its bucket
  clock, requests,
  recorded, vanished,     \* history: additions of each second, and those made before
                          \* its slot was reset for it
  renewed,                \* history: the seconds whose slot was reset
  scrape,                 \* the renderer: its next step
  slot, now, reading,     \* sum(): the slot it is at, its clock, what it has added
  epochOK, stale,         \* the epoch is in the window; history: a slot was read
                          \* between its compare-and-swap and its reset
  inf, count, seen, scrapes

cells == <<gauge, counter, bucket, total, sum, counts, epochs>>
local == <<op, pc, ptr, at, old>>
history == <<recorded, vanished, renewed>>
renderer == <<scrape, slot, now, reading, epochOK, stale, inf, count, seen, scrapes>>
vars == <<vals, cells, local, clock, requests, history, renderer>>

Steps == {"look", "lock", "add", "total", "sum", "clock", "load", "cas", "zero"}
ScrapeSteps == {"idle", "bucket", "count", "clock", "epoch", "slot", "done"}

TypeOK ==
  /\ vals \in [Vecs -> Goroutines \cup {None}]
  /\ gauge \in [Goroutines -> Nat] /\ counter \in [Goroutines -> Nat]
  /\ bucket \in [Goroutines -> [0 .. Bounds -> Nat]]
  /\ total \in [Goroutines -> Nat] /\ sum \in [Goroutines -> Nat]
  /\ counts \in [Goroutines -> [Slots -> Nat]]
  /\ epochs \in [Goroutines -> [Slots -> Nat]]
  /\ op \in [Goroutines -> Ops] /\ pc \in [Goroutines -> Steps]
  /\ ptr \in [Goroutines -> Goroutines \cup {None}]
  /\ at \in [Goroutines -> Nat] /\ old \in [Goroutines -> Nat]
  /\ clock \in Nat /\ requests \in Nat
  /\ recorded \in [Seconds -> Nat] /\ vanished \in [Seconds -> Nat]
  /\ renewed \subseteq Seconds
  /\ scrape \in ScrapeSteps
  /\ slot \in Nat /\ (scrape = "bucket" => slot <= Bounds)
  /\ now \in Nat /\ reading \in Nat
  /\ epochOK \in BOOLEAN /\ stale \in BOOLEAN
  /\ inf \in Nat /\ count \in Nat /\ seen \in Nat /\ scrapes \in Nat

Init ==
  /\ vals = [v \in Vecs |-> None]
  /\ gauge = [g \in Goroutines |-> 0] /\ counter = [g \in Goroutines |-> 0]
  /\ bucket = [g \in Goroutines |-> [b \in 0 .. Bounds |-> 0]]
  /\ total = [g \in Goroutines |-> 0] /\ sum = [g \in Goroutines |-> 0]
  /\ counts = [g \in Goroutines |-> [i \in Slots |-> 0]]
  /\ epochs = [g \in Goroutines |-> [i \in Slots |-> 0]]
  /\ op = [g \in Goroutines |-> "idle"] /\ pc = [g \in Goroutines |-> "look"]
  /\ ptr = [g \in Goroutines |-> None]
  /\ at = [g \in Goroutines |-> 0] /\ old = [g \in Goroutines |-> 0]
  /\ clock = Start /\ requests = 0
  /\ recorded = [s \in Seconds |-> 0] /\ vanished = [s \in Seconds |-> 0] /\ renewed = {}
  /\ scrape = "idle" /\ slot = 0 /\ now = 0 /\ reading = 0
  /\ epochOK = FALSE /\ stale = FALSE
  /\ inf = 0 /\ count = 0 /\ seen = 0 /\ scrapes = 0
-----------------------------------------------------------------------------
VecOf(o) == CASE o \in {"enter", "leave"} -> "conc"
              [] OTHER -> o
FirstStep(o) == IF o = "rpm" THEN "clock" ELSE "add"

\* Goroutine g turns to instrument o; what it has read is out of scope.
Goto(g, o) ==
  /\ op' = [op EXCEPT ![g] = o]
  /\ pc' = [pc EXCEPT ![g] = "look"]
  /\ ptr' = [ptr EXCEPT ![g] = None]
  /\ at' = [at EXCEPT ![g] = 0]
  /\ old' = [old EXCEPT ![g] = 0]

Step(g, s) == pc' = [pc EXCEPT ![g] = s]

\* A request that holds a concurrency slot begins.
Begin(g) ==
  /\ op[g] = "idle" /\ requests < MaxRequests
  /\ Goto(g, "enter")
  /\ requests' = requests + 1
  /\ UNCHANGED <<vals, cells, clock, history, renderer>>

\* The look-up under the read lock.
Look(g) ==
  /\ op[g] # "idle" /\ pc[g] = "look"
  /\ IF vals[VecOf(op[g])] = None
     THEN Step(g, "lock") /\ UNCHANGED ptr
     ELSE /\ Step(g, FirstStep(op[g]))
          /\ ptr' = [ptr EXCEPT ![g] = vals[VecOf(op[g])]]
  /\ UNCHANGED <<vals, cells, op, at, old, clock, requests, history, renderer>>

\* write of vec v holds its read lock.
Rendering(v) == \/ v = "lat" /\ scrape \in {"bucket", "count"}
                \/ v = "rpm" /\ scrape \in {"clock", "epoch", "slot"}

\* Mutant: the map is not read again once the lock is held.
CreateBlindly(g) ==
  /\ op[g] # "idle" /\ pc[g] = "lock"
  /\ ~Rendering(VecOf(op[g]))
  /\ vals' = [vals EXCEPT ![VecOf(op[g])] = g]
  /\ ptr' = [ptr EXCEPT ![g] = g]
  /\ Step(g, FirstStep(op[g]))
  /\ UNCHANGED <<cells, op, at, old, clock, requests, history, renderer>>

\* The write lock: create the cell unless somebody has in between.
Create(g) ==
  LET v == VecOf(op[g])
      cell == IF vals[v] = None THEN g ELSE vals[v]
  IN
  /\ op[g] # "idle" /\ pc[g] = "lock"
  /\ ~Rendering(v)
  /\ vals' = [vals EXCEPT ![v] = cell]
  /\ ptr' = [ptr EXCEPT ![g] = cell]
  /\ Step(g, FirstStep(op[g]))
  /\ UNCHANGED <<cells, op, at, old, clock, requests, history, renderer>>

\* ConcInFlight.Add(1), and Add(-1) in the deferred function.
GaugeAfter(g, n) == IF op[g] = "enter" THEN n + 1 ELSE n - 1

GaugeAdd(g) ==
  /\ op[g] \in {"enter", "leave"} /\ pc[g] = "add"
  /\ gauge' = [gauge EXCEPT ![ptr[g]] = GaugeAfter(g, @)]
  /\ Goto(g, IF op[g] = "enter" THEN "req" ELSE "idle")
  /\ UNCHANGED <<vals, counter, bucket, total, sum, counts, epochs,
                 clock, requests, history, renderer>>

\* ReqTotal.Inc
CounterAdd(g) ==
  /\ op[g] = "req" /\ pc[g] = "add"
  /\ counter' = [counter EXCEPT ![ptr[g]] = @ + 1]
  /\ Goto(g, "lat")
  /\ UNCHANGED <<vals, gauge, bucket, total, sum, counts, epochs,
                 clock, requests, history, renderer>>

\* Latency.Observe of a duration that falls into bucket b: three additions.
ObserveBucket(g, b) ==
  /\ op[g] = "lat" /\ pc[g] = "add"
  /\ bucket' = [bucket EXCEPT ![ptr[g]][b] = @ + 1]
  /\ old' = [old EXCEPT ![g] = b]
  /\ Step(g, "total")
  /\ UNCHANGED <<vals, gauge, counter, total, sum, counts, epochs, op, ptr, at,
                 clock, requests, history, renderer>>

ObserveTotal(g) ==
  /\ pc[g] = "total"
  /\ total' = [total EXCEPT ![ptr[g]] = @ + 1]
  /\ Step(g, "sum")
  /\ UNCHANGED <<vals, gauge, counter, bucket, sum, counts, epochs, op, ptr, at, old,
                 clock, requests, history, renderer>>

\* The duration is kept in the bucket it fell into, of which sum takes the number.
ObserveSum(g) ==
  /\ pc[g] = "sum"
  /\ sum' = [sum EXCEPT ![ptr[g]] = @ + old[g]]
  /\ Goto(g, "rpm")
  /\ UNCHANGED <<vals, gauge, counter, bucket, total, counts, epochs,
                 clock, requests, history, renderer>>
-----------------------------------------------------------------------------
\* ringWindow.add

SlotOf(s) == s % windowBuckets

\* now := time.Now().Unix()
AddClock(g) ==
  /\ pc[g] = "clock"
  /\ at' = [at EXCEPT ![g] = clock]
  /\ Step(g, "load")
  /\ UNCHANGED <<vals, cells, op, ptr, old, clock, requests, history, renderer>>

\* old := epochs[i].Load(); old != now
AddLoad(g) ==
  LET e == epochs[ptr[g]][SlotOf(at[g])] IN
  /\ pc[g] = "load"
  /\ old' = [old EXCEPT ![g] = e]
  /\ Step(g, IF e = at[g] THEN "add" ELSE "cas")
  /\ UNCHANGED <<vals, cells, op, ptr, at, clock, requests, history, renderer>>

\* Mutant: the epoch is loaded in the argument of the compare-and-swap.
SwapsReloaded(g, e) == TRUE
Swaps(g, e) == e = old[g]

\* epochs[i].CompareAndSwap(old, now)
AddSwap(g) ==
  LET i == SlotOf(at[g]) IN
  /\ pc[g] = "cas"
  /\ IF Swaps(g, epochs[ptr[g]][i])
     THEN /\ epochs' = [epochs EXCEPT ![ptr[g]][i] = at[g]]
          /\ Step(g, "zero")
     ELSE /\ Step(g, "add")
          /\ UNCHANGED epochs
  /\ UNCHANGED <<vals, gauge, counter, bucket, total, sum, counts, op, ptr, at, old,
                 clock, requests, history, renderer>>

\* counts[i].Store(0)
AddZero(g) ==
  LET i == SlotOf(at[g]) IN
  /\ pc[g] = "zero"
  /\ counts' = [counts EXCEPT ![ptr[g]][i] = 0]
  /\ vanished' = IF at[g] \in renewed THEN vanished
                 ELSE [vanished EXCEPT ![at[g]] = recorded[at[g]]]
  /\ renewed' = renewed \cup {at[g]}
  /\ Step(g, "add")
  /\ UNCHANGED <<vals, gauge, counter, bucket, total, sum, epochs, op, ptr, at, old,
                 clock, requests, recorded, renderer>>

\* counts[i].Add(n), of RPM.Inc
AddCount(g) ==
  LET i == SlotOf(at[g]) IN
  /\ op[g] = "rpm" /\ pc[g] = "add"
  /\ counts' = [counts EXCEPT ![ptr[g]][i] = @ + 1]
  /\ recorded' = [recorded EXCEPT ![at[g]] = @ + 1]
  /\ Goto(g, "leave")
  /\ UNCHANGED <<vals, gauge, counter, bucket, total, sum, epochs,
                 clock, requests, vanished, renewed, renderer>>

\* Time passes.  No goroutine is held up for a whole turn of the ring between its
\* reading of the clock and its addition.
Tick ==
  /\ clock < MaxTime
  /\ \A g \in Goroutines :
       op[g] = "rpm" /\ pc[g] \in {"load", "cas", "zero", "add"}
         => clock + 1 - at[g] < windowBuckets
  /\ clock' = clock + 1
  /\ UNCHANGED <<vals, cells, local, requests, history, renderer>>
-----------------------------------------------------------------------------
\* Metrics.Render: the counter, the histogram and the ring, one after the other.

Shown(cell, f) == IF cell = None THEN 0 ELSE f[cell]

RenderCounter ==
  /\ scrape = "idle" /\ scrapes < MaxScrapes
  /\ seen' = Shown(vals["req"], counter)
  /\ scrapes' = scrapes + 1
  /\ scrape' = "bucket"
  /\ UNCHANGED <<vals, cells, local, clock, requests, history, slot, now, reading, epochOK,
                 stale, inf, count>>

\* Mutant: as many buckets as bounds and two.
LastBucketPast == Bounds + 1
LastBucket == Bounds

\* The buckets are read one by one; the last sum of them is the bucket +Inf.
RenderBucket ==
  /\ scrape = "bucket"
  /\ IF vals["lat"] = None
     THEN scrape' = "clock" /\ UNCHANGED <<inf, slot>>
     ELSE /\ inf' = inf + bucket[vals["lat"]][slot]
          /\ slot' = slot + 1
          /\ scrape' = IF slot = LastBucket THEN "count" ELSE "bucket"
  /\ UNCHANGED <<vals, cells, local, clock, requests, history, now, reading, epochOK,
                 stale, count, seen, scrapes>>

\* sum is read, and total after it.
RenderCount ==
  /\ scrape = "count"
  /\ count' = total[vals["lat"]]
  /\ scrape' = "clock"
  /\ UNCHANGED <<vals, cells, local, clock, requests, history, slot, now, reading,
                 epochOK, stale, inf, seen, scrapes>>

\* ringWindow.sum: now := time.Now().Unix()
RenderClock ==
  /\ scrape = "clock"
  /\ now' = clock /\ slot' = 0 /\ inf' = 0 /\ count' = 0
  /\ scrape' = IF vals["rpm"] = None THEN "done" ELSE "epoch"
  /\ UNCHANGED <<vals, cells, local, clock, requests, history, reading, epochOK, stale,
                 seen, scrapes>>

\* Mutant: one second too many.
CutoffEarly == now - windowBuckets
Cutoff == now - windowBuckets + 1

RenderEpoch ==
  /\ scrape = "epoch"
  /\ epochOK' = (epochs[vals["rpm"]][slot] >= Cutoff)
  /\ scrape' = "slot"
  /\ UNCHANGED <<vals, cells, local, clock, requests, history, slot, now, reading, stale,
                 inf, count, seen, scrapes>>

\* Goroutine g has won slot i of cell w and not reset it yet.
Resetting(w, i) ==
  \E g \in Goroutines : pc[g] = "zero" /\ ptr[g] = w /\ SlotOf(at[g]) = i

RenderSlot ==
  /\ scrape = "slot"
  /\ reading' = IF epochOK THEN reading + counts[vals["rpm"]][slot] ELSE reading
  /\ stale' = (stale \/ Resetting(vals["rpm"], slot))
  /\ slot' = slot + 1
  /\ scrape' = IF slot + 1 = windowBuckets THEN "done" ELSE "epoch"
  /\ UNCHANGED <<vals, cells, local, clock, requests, history, now, epochOK, inf, count,
                 seen, scrapes>>

RenderDone ==
  /\ scrape = "done"
  /\ scrape' = "idle" /\ slot' = 0 /\ now' = 0 /\ reading' = 0
  /\ epochOK' = FALSE /\ stale' = FALSE
  /\ UNCHANGED <<vals, cells, local, clock, requests, history, inf, count, seen, scrapes>>
-----------------------------------------------------------------------------
Next ==
  \/ \E g \in Goroutines :
       \/ Begin(g) \/ Look(g) \/ Create(g) \/ GaugeAdd(g) \/ CounterAdd(g)
       \/ \E b \in 0 .. Bounds : ObserveBucket(g, b)
       \/ ObserveTotal(g) \/ ObserveSum(g)
       \/ AddClock(g) \/ AddLoad(g) \/ AddSwap(g) \/ AddZero(g) \/ AddCount(g)
  \/ Tick
  \/ RenderCounter \/ RenderBucket \/ RenderCount
  \/ RenderClock \/ RenderEpoch \/ RenderSlot \/ RenderDone

Spec == Init /\ [][Next]_vars
-----------------------------------------------------------------------------
\* requests_total implements Tally: whoever creates the cell, every Inc is one
\* addition to the value that a scrape shows, and none is lost to a cell that
\* another goroutine has replaced (metrics.go:36-50, 54-70).
AbstractTally == INSTANCE Tally WITH added <- Shown(vals["req"], counter)
CounterRefined == AbstractTally!Promise

InObserve(g) == pc[g] \in {"total", "sum"}

\* While no Observe is under way the count, the buckets and the sum of a histogram
\* agree, and with requests_total up to the requests counted in one and not yet in
\* the other (metrics.go:152-169).
HistogramExact ==
  LET w == vals["lat"] IN
  w # None /\ (\A g \in Goroutines : ~InObserve(g)) =>
    /\ total[w] = Shown(vals["req"], counter)
                    - Cardinality({g \in Goroutines : op[g] = "lat"})
    /\ total[w] = SumFunction(bucket[w])
    /\ sum[w] = SumFunction([b \in 0 .. Bounds |-> b * bucket[w][b]])

\* Within one histogram a scrape is consistent: its bucket +Inf is its _count.  The
\* comment of Render says that the only weak consistency is between vecs
\* (registry.go:131); it does not hold, since write reads buckets and count one by one
\* while requests are observed (metrics.go:171-204).
ScrapeConsistent == scrape = "clock" /\ vals["lat"] # None => inf = count

\* No second reset erases what is in a slot: however many goroutines have found its
\* epoch out of date, all that was added for its second after the one reset is there
\* (window.go:41-51).  What was added before that reset is NoLostCounts.
SlotExact ==
  vals["rpm"] # None =>
    \A i \in Slots :
      LET e == epochs[vals["rpm"]][i] IN
      e > 0 /\ ~Resetting(vals["rpm"], i)
        => counts[vals["rpm"]][i] = recorded[e] - vanished[e]

\* No addition is lost: a slot holds all that was added for its second, as the test of
\* concurrent writers demands (window_test.go:29-34).  It does not hold: a goroutine
\* that finds the epoch already swapped adds before the winner stores 0
\* (window.go:46-51).
NoLostCounts ==
  vals["rpm"] # None =>
    \A i \in Slots :
      LET e == epochs[vals["rpm"]][i] IN
      e > 0 /\ ~Resetting(vals["rpm"], i) => counts[vals["rpm"]][i] = recorded[e]

\* A rate that is shown counts no request of before the last windowBuckets seconds,
\* unless a slot was read in the middle of its reset (window.go:55-65).
RateWithinWindow ==
  scrape = "done" /\ ~stale
    => reading <= SumFunctionOnSet(recorded, {s \in Seconds : s > now - windowBuckets})
=============================================================================
