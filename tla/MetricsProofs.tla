---------------------------- MODULE MetricsProofs ----------------------------
(***************************************************************************)
(* The instruments, for any number of goroutines, requests and scrapes,    *)
(* any histogram and any ring: requests_total implements the abstract      *)
(* counter, the gauge never goes below zero, the parts of a histogram      *)
(* agree, a slot of the ring window has what was added for its second, and *)
(* a rate counts nothing of before its window.                             *)
(***************************************************************************)
EXTENDS Metrics, Sums

-----------------------------------------------------------------------------
(***************************************************************************)
(* Where the goroutines are, and that they have the cell in the map.       *)
(***************************************************************************)
LocalType ==
  /\ vals \in [Vecs -> Goroutines \cup {None}]
  /\ op \in [Goroutines -> Ops] /\ pc \in [Goroutines -> Steps]
  /\ ptr \in [Goroutines -> Goroutines \cup {None}]

\* Only a goroutine at the ring or at the histogram has the steps of it.
Places ==
  \A g \in Goroutines :
    /\ pc[g] \in {"clock", "load", "cas", "zero"} => op[g] = "rpm"
    /\ pc[g] \in {"total", "sum"} => op[g] = "lat"
    /\ op[g] = "idle" => pc[g] = "look"

\* A goroutine past its look-up has the cell that is in the map.
OwnCell ==
  \A g \in Goroutines :
    pc[g] \notin {"look", "lock"} => ptr[g] = vals[VecOf(op[g])] /\ ptr[g] # None

LocalInv == LocalType /\ Places /\ OwnCell

LEMMA InitLocal == Init => LocalInv
<1> SUFFICES ASSUME Init PROVE LocalInv
  OBVIOUS
<1>1. LocalType
  BY DEF Init, LocalType, Ops, Steps
<1>2. Places /\ OwnCell
  BY DEF Init, Places, OwnCell
<1> QED
  BY <1>1, <1>2 DEF LocalInv

LEMMA LocalKept == LocalInv /\ UNCHANGED <<vals, op, pc, ptr>> => LocalInv'
BY DEF LocalInv, LocalType, Places, OwnCell

\* A goroutine goes from one step to another of its instrument.
LEMMA StepsOn ==
  ASSUME LocalInv, NEW g \in Goroutines, NEW s \in Steps, Step(g, s),
         pc[g] \notin {"look", "lock"}, s # "look",
         s \in {"clock", "load", "cas", "zero"} => op[g] = "rpm",
         s \in {"total", "sum"} => op[g] = "lat",
         UNCHANGED <<vals, op, ptr>>
  PROVE  LocalInv'
<1>1. LocalType'
  BY DEF LocalInv, LocalType, Step
<1>2. Places' /\ OwnCell'
  BY DEF LocalInv, LocalType, Places, OwnCell, Step
<1> QED
  BY <1>1, <1>2 DEF LocalInv

\* A goroutine turns to an instrument: it has to look its cell up first.
LEMMA TurnsTo ==
  ASSUME LocalInv, NEW g \in Goroutines, NEW o \in Ops, Goto(g, o), UNCHANGED vals
  PROVE  LocalInv'
<1>1. LocalType'
  BY DEF LocalInv, LocalType, Goto, Steps
<1>2. Places' /\ OwnCell'
  BY DEF LocalInv, LocalType, Places, OwnCell, Goto
<1> QED
  BY <1>1, <1>2 DEF LocalInv

\* The vec of an instrument and the first step at it.
LEMMA VecFacts ==
  ASSUME LocalInv, NEW g \in Goroutines, op[g] # "idle"
  PROVE  /\ VecOf(op[g]) \in Vecs /\ FirstStep(op[g]) \in Steps
         /\ FirstStep(op[g]) = "clock" => op[g] = "rpm"
         /\ FirstStep(op[g]) \in {"clock", "add"}
         /\ vals[VecOf(op[g])] \in Goroutines \cup {None}
<1>1. op[g] \in Ops
  BY DEF LocalInv, LocalType
<1>2. VecOf(op[g]) \in Vecs
  BY <1>1 DEF Ops, Vecs, VecOf
<1> QED
  BY <1>1, <1>2 DEF LocalInv, LocalType, FirstStep, Steps

LEMMA LookLocal ==
  ASSUME LocalInv, NEW g \in Goroutines, Look(g)
  PROVE  LocalInv'
<1>1. CASE vals[VecOf(op[g])] = None
  <2>1. Step(g, "lock") /\ UNCHANGED <<vals, op, ptr>> /\ op[g] # "idle"
    BY <1>1 DEF Look
  <2>2. LocalType'
    BY <2>1 DEF LocalInv, LocalType, Step, Steps
  <2>3. Places' /\ OwnCell'
    BY <2>1 DEF LocalInv, LocalType, Places, OwnCell, Step
  <2> QED
    BY <2>2, <2>3 DEF LocalInv
<1>2. CASE vals[VecOf(op[g])] # None
  <2>1. /\ pc' = [pc EXCEPT ![g] = FirstStep(op[g])]
        /\ ptr' = [ptr EXCEPT ![g] = vals[VecOf(op[g])]]
        /\ UNCHANGED <<vals, op>> /\ op[g] # "idle"
    BY <1>2 DEF Look, Step
  <2>2. LocalType'
    BY <2>1, VecFacts DEF LocalInv, LocalType
  <2>3. Places'
    BY <2>1, VecFacts DEF LocalInv, LocalType, Places
  <2>4. OwnCell'
    BY <1>2, <2>1 DEF LocalInv, LocalType, OwnCell
  <2> QED
    BY <2>2, <2>3, <2>4 DEF LocalInv
<1> QED
  BY <1>1, <1>2

\* The critical section of the write lock: a cell is put into the map only when there is
\* none, so nobody who has the one in the map sees it replaced.
LEMMA CreateLocal ==
  ASSUME LocalInv, NEW g \in Goroutines, Create(g)
  PROVE  /\ LocalInv'
         /\ \A v \in Vecs : vals[v] # None => vals'[v] = vals[v]
         /\ \A v \in Vecs : vals[v] = None => vals'[v] \in {None, g}
<1> DEFINE v == VecOf(op[g])
           cell == IF vals[v] = None THEN g ELSE vals[v]
<1>0. op[g] # "idle" /\ v \in Vecs /\ FirstStep(op[g]) \in Steps /\ cell \in Goroutines
      /\ cell # None /\ FirstStep(op[g]) \in {"clock", "add"}
      /\ (FirstStep(op[g]) = "clock" => op[g] = "rpm")
  BY VecFacts, MetricsAssumption DEF Create
<1>1. /\ vals' = [vals EXCEPT ![v] = cell]
      /\ ptr' = [ptr EXCEPT ![g] = cell]
      /\ pc' = [pc EXCEPT ![g] = FirstStep(op[g])]
      /\ op' = op
  BY DEF Create, Step
<1>2. LocalType'
  BY <1>0, <1>1 DEF LocalInv, LocalType
<1>3. Places'
  BY <1>0, <1>1 DEF LocalInv, LocalType, Places
<1>4. /\ \A u \in Vecs : vals[u] # None => vals'[u] = vals[u]
      /\ \A u \in Vecs : vals[u] = None => vals'[u] \in {None, g}
      /\ vals'[v] = cell
  BY <1>0, <1>1 DEF LocalInv, LocalType
<1>5. OwnCell'
  <2> SUFFICES ASSUME NEW h \in Goroutines, pc'[h] \notin {"look", "lock"}
               PROVE  ptr'[h] = vals'[VecOf(op[h])] /\ ptr'[h] # None
    BY <1>1 DEF OwnCell
  <2>1. CASE h = g
    BY <1>0, <1>1, <1>4, <2>1 DEF LocalInv, LocalType
  <2>2. CASE h # g
    <3>1. pc[h] \notin {"look", "lock"} /\ ptr'[h] = ptr[h]
      BY <1>1, <2>2 DEF LocalInv, LocalType
    <3>2. ptr[h] = vals[VecOf(op[h])] /\ ptr[h] # None /\ op[h] # "idle"
      BY <3>1 DEF LocalInv, OwnCell, Places
    <3>3. VecOf(op[h]) \in Vecs
      BY <3>2, VecFacts
    <3> QED
      BY <3>1, <3>2, <3>3, <1>4
  <2> QED
    BY <2>1, <2>2
<1> HIDE DEF v, cell
<1> QED
  BY <1>2, <1>3, <1>4, <1>5 DEF LocalInv

\* The renderer, and the instruments other than the counter.
Render ==
  RenderCounter \/ RenderBucket \/ RenderCount \/ RenderClock \/ RenderEpoch
  \/ RenderSlot \/ RenderDone

Instrument(g) ==
  \/ Begin(g) \/ GaugeAdd(g) \/ CounterAdd(g) \/ (\E b \in 0 .. Bounds : ObserveBucket(g, b))
  \/ ObserveTotal(g) \/ ObserveSum(g)
  \/ AddClock(g) \/ AddLoad(g) \/ AddSwap(g) \/ AddZero(g) \/ AddCount(g)

LEMMA NextCases ==
  Next => \/ \E g \in Goroutines : Look(g) \/ Create(g) \/ Instrument(g)
          \/ Render \/ Tick
BY DEF Next, Instrument, Render

\* They leave the goroutines alone, and the instruments.
LEMMA RenderLocal ==
  Render \/ Tick => UNCHANGED <<vals, op, pc, ptr, at, old, gauge, counter, bucket, total, sum,
                                counts, epochs, recorded, vanished, renewed>>
BY DEF Render, Tick, RenderCounter, RenderBucket, RenderCount, RenderClock, RenderEpoch,
       RenderSlot, RenderDone, cells, local, history

LEMMA InstrumentLocal ==
  ASSUME LocalInv, NEW g \in Goroutines, Instrument(g)
  PROVE  LocalInv' /\ vals' = vals
<1>1. CASE Begin(g) \/ GaugeAdd(g) \/ CounterAdd(g) \/ ObserveSum(g) \/ AddCount(g)
  <2>1. /\ vals' = vals
        /\ Goto(g, "enter") \/ Goto(g, "req") \/ Goto(g, "idle") \/ Goto(g, "rpm")
           \/ Goto(g, "leave") \/ Goto(g, "lat")
    BY <1>1 DEF Begin, GaugeAdd, CounterAdd, ObserveSum, AddCount
  <2> QED
    BY <2>1, TurnsTo DEF Ops
<1>2. CASE \E b \in 0 .. Bounds : ObserveBucket(g, b)
  <2>1. Step(g, "total") /\ op[g] = "lat" /\ pc[g] = "add" /\ UNCHANGED <<vals, op, ptr>>
    BY <1>2 DEF ObserveBucket
  <2> QED
    BY <2>1, StepsOn DEF Steps
<1>3. CASE ObserveTotal(g)
  <2>1. Step(g, "sum") /\ pc[g] = "total" /\ UNCHANGED <<vals, op, ptr>>
    BY <1>3 DEF ObserveTotal
  <2>2. op[g] = "lat"
    BY <2>1 DEF LocalInv, Places
  <2> QED
    BY <2>1, <2>2, StepsOn DEF Steps
<1>4. CASE AddClock(g) \/ AddLoad(g) \/ AddSwap(g) \/ AddZero(g)
  <2>1. op[g] = "rpm" /\ pc[g] \in {"clock", "load", "cas", "zero"}
    BY <1>4 DEF LocalInv, Places, AddClock, AddLoad, AddSwap, AddZero
  <2>2. /\ UNCHANGED <<vals, op, ptr>>
        /\ Step(g, "load") \/ Step(g, "add") \/ Step(g, "cas") \/ Step(g, "zero")
    BY <1>4 DEF AddClock, AddLoad, AddSwap, AddZero
  <2> QED
    BY <2>1, <2>2, StepsOn DEF Steps
<1> QED
  BY <1>1, <1>2, <1>3, <1>4 DEF Instrument

LEMMA NextLocal == LocalInv /\ [Next]_vars => LocalInv'
<1> SUFFICES ASSUME LocalInv, [Next]_vars PROVE LocalInv'
  OBVIOUS
<1>1. CASE UNCHANGED vars
  BY <1>1, LocalKept DEF vars, local
<1>2. CASE Render \/ Tick
  BY <1>2, RenderLocal, LocalKept
<1>3. ASSUME NEW g \in Goroutines, Look(g) \/ Create(g) \/ Instrument(g)
      PROVE  LocalInv'
  BY <1>3, LookLocal, CreateLocal, InstrumentLocal
<1> QED
  BY <1>1, <1>2, <1>3, NextCases

\* Once a cell is in the map it stays.
LEMMA CellStays ==
  ASSUME LocalInv, [Next]_vars
  PROVE  \A v \in Vecs : vals[v] # None => vals'[v] = vals[v]
<1>1. CASE UNCHANGED vars
  BY <1>1 DEF vars
<1>2. CASE Render \/ Tick
  BY <1>2, RenderLocal
<1>3. ASSUME NEW g \in Goroutines, Look(g) \/ Create(g) \/ Instrument(g)
      PROVE  \A v \in Vecs : vals[v] # None => vals'[v] = vals[v]
  BY <1>3, CreateLocal, InstrumentLocal DEF Look
<1> QED
  BY <1>1, <1>2, <1>3, NextCases
-----------------------------------------------------------------------------
(***************************************************************************)
(* Which step writes what.                                                 *)
(***************************************************************************)
Moves(g) == Look(g) \/ Create(g) \/ Instrument(g)

LEMMA InstrumentFrames ==
  ASSUME NEW g, Look(g) \/ Create(g) \/ Instrument(g)
  PROVE  /\ gauge' = gauge \/ GaugeAdd(g)
         /\ counter' = counter \/ CounterAdd(g)
         /\ bucket' = bucket \/ \E b \in 0 .. Bounds : ObserveBucket(g, b)
         /\ total' = total \/ ObserveTotal(g)
         /\ sum' = sum \/ ObserveSum(g)
         /\ counts' = counts \/ AddZero(g) \/ AddCount(g)
         /\ epochs' = epochs \/ AddSwap(g)
         /\ recorded' = recorded \/ AddCount(g)
         /\ UNCHANGED <<vanished, renewed>> \/ AddZero(g)
         /\ requests' = requests \/ Begin(g)
         /\ UNCHANGED renderer /\ clock' = clock
<1>1. CASE Look(g) \/ Create(g)
  BY <1>1 DEF Look, Create, cells, history
<1>2. CASE Begin(g)
  BY <1>2 DEF Begin, cells, history
<1>3. CASE GaugeAdd(g) \/ CounterAdd(g)
  BY <1>3 DEF GaugeAdd, CounterAdd, history
<1>4. CASE \E b \in 0 .. Bounds : ObserveBucket(g, b)
  BY <1>4 DEF ObserveBucket, history
<1>5. CASE ObserveTotal(g) \/ ObserveSum(g)
  BY <1>5 DEF ObserveTotal, ObserveSum, history
<1>6. CASE AddClock(g) \/ AddLoad(g)
  BY <1>6 DEF AddClock, AddLoad, cells, history
<1>7. CASE AddSwap(g) \/ AddZero(g) \/ AddCount(g)
  BY <1>7 DEF AddSwap, AddZero, AddCount, history
<1> QED
  BY <1>1, <1>2, <1>3, <1>4, <1>5, <1>6, <1>7 DEF Instrument

\* The five values that goroutines keep, after a step of g.
LEMMA OthersStay ==
  ASSUME LocalInv, NEW g \in Goroutines, Moves(g), at \in [Goroutines -> Nat],
         old \in [Goroutines -> Nat], NEW h \in Goroutines, h # g
  PROVE  op'[h] = op[h] /\ pc'[h] = pc[h] /\ ptr'[h] = ptr[h] /\ at'[h] = at[h] /\ old'[h] = old[h]
<1> USE DEF LocalInv, LocalType
<1>1. CASE Look(g) \/ Create(g)
  BY <1>1 DEF Look, Create, Step
<1>2. CASE Begin(g) \/ GaugeAdd(g) \/ CounterAdd(g) \/ ObserveSum(g) \/ AddCount(g)
  BY <1>2 DEF Begin, GaugeAdd, CounterAdd, ObserveSum, AddCount, Goto
<1>3. CASE ObserveTotal(g) \/ (\E b \in 0 .. Bounds : ObserveBucket(g, b))
  BY <1>3 DEF ObserveBucket, ObserveTotal, Step
<1>4. CASE AddClock(g) \/ AddLoad(g) \/ AddSwap(g) \/ AddZero(g)
  BY <1>4 DEF AddClock, AddLoad, AddSwap, AddZero, Step
<1> QED
  BY <1>1, <1>2, <1>3, <1>4 DEF Moves, Instrument

LEMMA StepCases ==
  [Next]_vars => UNCHANGED vars \/ Render \/ Tick \/ \E g \in Goroutines : Moves(g)
BY NextCases DEF Moves
-----------------------------------------------------------------------------
(***************************************************************************)
(* The cells.  One that is not in the map has not been used, so that no    *)
(* value jumps when it is put there.                                       *)
(***************************************************************************)
GaugeType == gauge \in [Goroutines -> Nat] /\ \A g \in Goroutines : vals["conc"] # g => gauge[g] = 0

\* The goroutines between the two additions to the gauge.
Inside == {g \in Goroutines : op[g] \in {"req", "lat", "rpm", "leave"}}
GaugeRight == Shown(vals["conc"], gauge) = Cardinality(Inside)

CounterType == counter \in [Goroutines -> Nat] /\ \A g \in Goroutines : vals["req"] # g => counter[g] = 0

HistogramType ==
  /\ bucket \in [Goroutines -> [0 .. Bounds -> Nat]]
  /\ total \in [Goroutines -> Nat] /\ sum \in [Goroutines -> Nat]
  /\ \A g \in Goroutines : vals["lat"] # g =>
       bucket[g] = [b \in 0 .. Bounds |-> 0] /\ total[g] = 0 /\ sum[g] = 0

RingType ==
  /\ counts \in [Goroutines -> [Slots -> Nat]] /\ epochs \in [Goroutines -> [Slots -> Nat]]
  /\ \A g \in Goroutines : vals["rpm"] # g => epochs[g] = [i \in Slots |-> 0]

\* A goroutine that has read the clock for the ring is not a whole turn of it behind.
Active(g) == op[g] = "rpm" /\ pc[g] \in {"load", "cas", "zero", "add"}
Timely ==
  /\ at \in [Goroutines -> Nat] /\ old \in [Goroutines -> Nat]
  /\ clock \in Nat /\ Start <= clock /\ clock <= MaxTime
  /\ \A g \in Goroutines : Active(g) =>
       Start <= at[g] /\ at[g] <= clock /\ clock - at[g] < windowBuckets

HistoryType ==
  /\ recorded \in [Seconds -> Nat] /\ vanished \in [Seconds -> Nat]
  /\ renewed \subseteq Seconds /\ requests \in Nat

LEMMA VecNames == "conc" \in Vecs /\ "req" \in Vecs /\ "lat" \in Vecs /\ "rpm" \in Vecs
BY DEF Vecs

\* A cell that is outside the map after a step was outside before.
LEMMA StillOutside ==
  ASSUME LocalInv, [Next]_vars, NEW v \in Vecs, NEW g \in Goroutines, vals'[v] # g
  PROVE  vals[v] # g
BY CellStays, MetricsAssumption

LEMMA CounterTypeNext ==
  ASSUME LocalInv, [Next]_vars, CounterType
  PROVE  CounterType'
<1>1. ASSUME counter' = counter PROVE CounterType'
  BY <1>1, StillOutside, VecNames DEF CounterType
<1>2. ASSUME NEW g \in Goroutines, CounterAdd(g) PROVE CounterType'
  <2>1. ptr[g] = vals["req"] /\ ptr[g] \in Goroutines /\ vals' = vals
    BY <1>2 DEF LocalInv, LocalType, OwnCell, CounterAdd, VecOf
  <2> QED
    BY <1>2, <2>1 DEF CounterType, CounterAdd
<1>3. CASE Render \/ Tick
  BY <1>3, <1>1, RenderLocal
<1>4. CASE UNCHANGED vars
  BY <1>4, <1>1 DEF vars, cells
<1>5. ASSUME NEW g \in Goroutines, Moves(g) PROVE CounterType'
  BY <1>1, <1>2, <1>5, InstrumentFrames DEF Moves
<1> QED
  BY <1>3, <1>4, <1>5, StepCases

LEMMA HistogramTypeNext ==
  ASSUME LocalInv, [Next]_vars, HistogramType, old \in [Goroutines -> Nat]
  PROVE  HistogramType'
<1>1. ASSUME UNCHANGED <<bucket, total, sum>> PROVE HistogramType'
  BY <1>1, StillOutside, VecNames DEF HistogramType
<1>2. ASSUME NEW g \in Goroutines, pc[g] \notin {"look", "lock"}, op[g] = "lat"
      PROVE  ptr[g] = vals["lat"] /\ ptr[g] \in Goroutines
  BY <1>2 DEF LocalInv, LocalType, OwnCell, VecOf
<1>3. ASSUME NEW g \in Goroutines, NEW b \in 0 .. Bounds, ObserveBucket(g, b) PROVE HistogramType'
  <2>1. ptr[g] = vals["lat"] /\ ptr[g] \in Goroutines /\ vals' = vals
    BY <1>2, <1>3 DEF ObserveBucket
  <2>2. bucket[ptr[g]] \in [0 .. Bounds -> Nat]
    BY <2>1 DEF HistogramType
  <2>3. bucket' = [bucket EXCEPT ![ptr[g]] = [bucket[ptr[g]] EXCEPT ![b] = @ + 1]]
    BY <1>3 DEF ObserveBucket
  <2>4. [bucket[ptr[g]] EXCEPT ![b] = @ + 1] \in [0 .. Bounds -> Nat]
    <3>1. ASSUME NEW x \in [0 .. Bounds -> Nat] PROVE [x EXCEPT ![b] = @ + 1] \in [0 .. Bounds -> Nat]
      OBVIOUS
    <3> QED
      BY <2>2, <3>1
  <2>5. UNCHANGED <<total, sum>>
    BY <1>3 DEF ObserveBucket
  <2> QED
    BY <2>1, <2>3, <2>4, <2>5 DEF HistogramType
<1>4. ASSUME NEW g \in Goroutines, ObserveTotal(g) \/ ObserveSum(g) PROVE HistogramType'
  <2>1. op[g] = "lat" /\ pc[g] \in {"total", "sum"}
    BY <1>4 DEF ObserveTotal, ObserveSum, LocalInv, Places
  <2>2. ptr[g] = vals["lat"] /\ ptr[g] \in Goroutines /\ vals' = vals /\ bucket' = bucket
    BY <2>1, <1>2, <1>4 DEF ObserveTotal, ObserveSum
  <2>3. CASE ObserveTotal(g)
    BY <2>2, <2>3 DEF ObserveTotal, HistogramType
  <2>4. CASE ObserveSum(g)
    BY <2>2, <2>4 DEF ObserveSum, HistogramType
  <2> QED
    BY <1>4, <2>3, <2>4
<1>5. CASE Render \/ Tick
  BY <1>5, <1>1, RenderLocal
<1>6. CASE UNCHANGED vars
  BY <1>6, <1>1 DEF vars, cells
<1>7. ASSUME NEW g \in Goroutines, Moves(g) PROVE HistogramType'
  BY <1>1, <1>3, <1>4, <1>7, InstrumentFrames DEF Moves
<1> QED
  BY <1>5, <1>6, <1>7, StepCases

\* Seconds and their slots: those less than a turn of the ring apart have different slots.
LEMMA SlotFacts ==
  ASSUME NEW s \in Nat
  PROVE  /\ SlotOf(s) \in Slots
         /\ \A r \in Nat : SlotOf(r) = SlotOf(s) /\ r <= s /\ s - r < windowBuckets => r = s
<1> DEFINE n == windowBuckets
<1>1. n \in Nat \ {0}
  BY MetricsAssumption
<1>2. \A x \in Nat : /\ x % n \in 0 .. n - 1 /\ x \div n \in Int /\ (x \div n) * n \in Int
                     /\ x % n = x - (x \div n) * n
  <2>1. ASSUME NEW x \in Nat, NEW d \in Nat \ {0}
        PROVE  x % d \in 0 .. d - 1 /\ x \div d \in Int /\ (x \div d) * d \in Int
    OBVIOUS
  <2>2. ASSUME NEW x \in Nat, NEW d \in Nat \ {0}
        PROVE  x % d = x - (x \div d) * d
    OBVIOUS
  <2> HIDE DEF n
  <2> QED
    BY <1>1, <2>1, <2>2
<1>3. SlotOf(s) \in Slots
  BY <1>2 DEF SlotOf, Slots
<1>4. ASSUME NEW r \in Nat, SlotOf(r) = SlotOf(s), r <= s, s - r < n PROVE r = s
  <2> DEFINE p == r \div n
             q == s \div n
             c == r % n
  <2>1. p \in Int /\ q \in Int /\ p * n \in Int /\ q * n \in Int
        /\ c = r - p * n /\ c = s - q * n /\ c \in Int /\ n \in Int /\ s - r < n
    <3>1. p \in Int /\ p * n \in Int /\ c \in 0 .. n - 1 /\ c = r - p * n
      BY <1>2
    <3>2. q \in Int /\ q * n \in Int /\ s % n = s - q * n
      BY <1>2
    <3>3. c = s % n
      BY <1>4 DEF SlotOf
    <3> HIDE DEF p, q
    <3> QED
      BY <1>1, <1>4, <3>1, <3>2, <3>3
  <2> HIDE DEF p, q, c, n
  <2>2. q * n - p * n < n /\ p * n <= q * n
    BY <2>1, <1>1, <1>4
  <2>3. ASSUME NEW x \in Int, NEW y \in Int, x < y PROVE x * n + n <= y * n
    <3>1. x + 1 <= y /\ x + 1 \in Int
      BY <2>3
    <3>2. (x + 1) * n <= y * n
      BY <3>1, <1>1, TimesMonotone
    <3>3. (x + 1) * n = x * n + n
      BY <1>1
    <3> QED
      BY <3>2, <3>3
  <2>4. ~(p < q) /\ ~(q < p)
    <3>1. p < q => p * n + n <= q * n
      BY <2>1, <2>3
    <3>2. q < p => q * n + n <= p * n
      BY <2>1, <2>3
    <3> QED
      BY <3>1, <3>2, <2>1, <2>2, <1>1
  <2>5. p = q
    BY <2>1, <2>4
  <2> QED
    BY <2>1, <2>5
<1> HIDE DEF n
<1> QED
  BY <1>3, <1>4 DEF n

\* A goroutine at the ring: its cell, and the slot of its second.
LEMMA ActiveFacts ==
  ASSUME LocalInv, Timely, NEW g \in Goroutines, Active(g)
  PROVE  /\ ptr[g] = vals["rpm"] /\ ptr[g] \in Goroutines
         /\ at[g] \in Seconds /\ at[g] \in Nat /\ at[g] > 0
         /\ SlotOf(at[g]) \in Slots
<1>1. ptr[g] = vals["rpm"] /\ ptr[g] \in Goroutines
  BY DEF LocalInv, LocalType, OwnCell, VecOf, Active
<1>2. at[g] \in Nat /\ Start <= at[g] /\ at[g] <= clock /\ clock <= MaxTime /\ clock \in Nat
  BY DEF Timely
<1>3. at[g] \in Seconds /\ at[g] > 0
  BY <1>2, MetricsAssumption DEF Seconds
<1> QED
  BY <1>1, <1>2, <1>3, SlotFacts

LEMMA RingSteps ==
  ASSUME LocalInv, NEW g \in Goroutines,
         AddLoad(g) \/ AddSwap(g) \/ AddZero(g) \/ AddCount(g)
  PROVE  Active(g)
BY DEF AddLoad, AddSwap, AddZero, AddCount, LocalInv, Places, Active

LEMMA RingTypeNext ==
  ASSUME LocalInv, Timely, [Next]_vars, RingType
  PROVE  RingType'
<1>1. ASSUME UNCHANGED <<counts, epochs>> PROVE RingType'
  BY <1>1, StillOutside, VecNames DEF RingType
<1>2. ASSUME NEW f \in [Slots -> Nat], NEW i \in Slots, NEW x \in Nat
      PROVE  [f EXCEPT ![i] = x] \in [Slots -> Nat]
  OBVIOUS
<1>3. ASSUME NEW g \in Goroutines, AddZero(g) \/ AddCount(g) PROVE RingType'
  <2> DEFINE i == SlotOf(at[g])
             w == ptr[g]
  <2>1. w = vals["rpm"] /\ w \in Goroutines /\ i \in Slots
    BY <1>3, RingSteps, ActiveFacts
  <2>2. vals' = vals /\ epochs' = epochs
    BY <1>3 DEF AddZero, AddCount
  <2>3. counts[w] \in [Slots -> Nat] /\ counts[w][i] \in Nat
    BY <2>1 DEF RingType
  <2>4. \/ counts' = [counts EXCEPT ![w] = [counts[w] EXCEPT ![i] = 0]]
        \/ counts' = [counts EXCEPT ![w] = [counts[w] EXCEPT ![i] = counts[w][i] + 1]]
    BY <1>3, <2>1 DEF AddZero, AddCount, RingType
  <2> HIDE DEF i, w
  <2>5. [counts[w] EXCEPT ![i] = 0] \in [Slots -> Nat]
        /\ [counts[w] EXCEPT ![i] = counts[w][i] + 1] \in [Slots -> Nat]
    BY <2>1, <2>3, <1>2
  <2>6. \E x \in [Slots -> Nat] : counts' = [counts EXCEPT ![w] = x]
    BY <2>4, <2>5
  <2>7. counts' \in [Goroutines -> [Slots -> Nat]]
    BY <2>1, <2>6 DEF RingType
  <2> QED
    BY <2>2, <2>7 DEF RingType
<1>4. ASSUME NEW g \in Goroutines, AddSwap(g), epochs' # epochs PROVE RingType'
  <2> DEFINE i == SlotOf(at[g])
             w == ptr[g]
  <2>1. w = vals["rpm"] /\ w \in Goroutines /\ i \in Slots /\ at[g] \in Nat
    BY <1>4, RingSteps, ActiveFacts
  <2>2. vals' = vals /\ counts' = counts
    BY <1>4 DEF AddSwap
  <2>3. epochs[w] \in [Slots -> Nat]
    BY <2>1 DEF RingType
  <2>4. epochs' = [epochs EXCEPT ![w] = [epochs[w] EXCEPT ![i] = at[g]]]
    BY <1>4, <2>1 DEF AddSwap, RingType
  <2> HIDE DEF i, w
  <2>5. [epochs[w] EXCEPT ![i] = at[g]] \in [Slots -> Nat]
    BY <2>1, <2>3, <1>2
  <2> QED
    BY <2>1, <2>2, <2>4, <2>5 DEF RingType
<1>5. CASE Render \/ Tick
  BY <1>5, <1>1, RenderLocal
<1>6. CASE UNCHANGED vars
  BY <1>6, <1>1 DEF vars, cells
<1>7. ASSUME NEW g \in Goroutines, Moves(g) PROVE RingType'
  <2>1. counts' = counts \/ AddZero(g) \/ AddCount(g)
    BY <1>7, InstrumentFrames DEF Moves
  <2>2. epochs' = epochs \/ AddSwap(g)
    BY <1>7, InstrumentFrames DEF Moves
  <2>3. AddSwap(g) => counts' = counts
    BY DEF AddSwap
  <2> QED
    BY <2>1, <2>2, <2>3, <1>1, <1>3, <1>4
<1> QED
  BY <1>5, <1>6, <1>7, StepCases

LEMMA AtOldType ==
  ASSUME LocalInv, Timely, RingType, NEW g \in Goroutines, Moves(g)
  PROVE  at' \in [Goroutines -> Nat] /\ old' \in [Goroutines -> Nat]
<1> USE DEF Timely
<1>1. CASE Look(g) \/ Create(g)
  BY <1>1 DEF Look, Create
<1>2. CASE Begin(g) \/ GaugeAdd(g) \/ CounterAdd(g) \/ ObserveSum(g) \/ AddCount(g)
  BY <1>2 DEF Begin, GaugeAdd, CounterAdd, ObserveSum, AddCount, Goto
<1>3. CASE ObserveTotal(g) \/ (\E b \in 0 .. Bounds : ObserveBucket(g, b))
  <2>1. \A b \in 0 .. Bounds : b \in Nat
    BY MetricsAssumption
  <2> QED
    BY <1>3, <2>1 DEF ObserveBucket, ObserveTotal
<1>4. CASE AddClock(g) \/ AddSwap(g) \/ AddZero(g)
  BY <1>4 DEF AddClock, AddSwap, AddZero
<1>5. CASE AddLoad(g)
  <2>1. epochs[ptr[g]][SlotOf(at[g])] \in Nat
    BY <1>5, RingSteps, ActiveFacts DEF RingType
  <2> QED
    BY <1>5, <2>1 DEF AddLoad
<1> QED
  BY <1>1, <1>2, <1>3, <1>4, <1>5 DEF Moves, Instrument

\* The guard of Tick is what keeps a goroutine from falling behind.
LEMMA TimelyNext ==
  ASSUME LocalInv, Timely, RingType, [Next]_vars
  PROVE  Timely'
<1>1. CASE UNCHANGED vars
  BY <1>1 DEF vars, local, Timely, Active
<1>2. CASE Render
  <2>1. clock' = clock
    BY <1>2 DEF Render, RenderCounter, RenderBucket, RenderCount, RenderClock, RenderEpoch,
                RenderSlot, RenderDone
  <2> QED
    BY <1>2, <2>1, RenderLocal DEF Timely, Active
<1>3. CASE Tick
  <2>1. UNCHANGED <<op, pc, at, old>> /\ clock' = clock + 1 /\ clock < MaxTime
    BY <1>3 DEF Tick, local
  <2>2. clock' \in Nat /\ Start <= clock' /\ clock' <= MaxTime
    BY <2>1, MetricsAssumption DEF Timely
  <2>3. ASSUME NEW g \in Goroutines, Active(g)
        PROVE  Start <= at[g] /\ at[g] <= clock' /\ clock' - at[g] < windowBuckets
    <3>1. Start <= at[g] /\ at[g] <= clock /\ at[g] \in Nat /\ clock \in Nat
      BY <2>3 DEF Timely
    <3>2. clock + 1 - at[g] < windowBuckets
      BY <1>3, <2>3 DEF Tick, Active
    <3> QED
      BY <3>1, <3>2, <2>1
  <2> QED
    BY <2>1, <2>2, <2>3 DEF Timely, Active
<1>4. ASSUME NEW g \in Goroutines, Moves(g) PROVE Timely'
  <2>1. at' \in [Goroutines -> Nat] /\ old' \in [Goroutines -> Nat]
    BY <1>4, AtOldType
  <2>2. clock' = clock
    BY <1>4, InstrumentFrames DEF Moves
  <2>3. ASSUME NEW h \in Goroutines, Active(h)'
        PROVE  Start <= at'[h] /\ at'[h] <= clock /\ clock - at'[h] < windowBuckets
    <3>1. CASE h # g
      <4>1. op'[h] = op[h] /\ pc'[h] = pc[h] /\ at'[h] = at[h]
        BY <1>4, <3>1, OthersStay DEF Timely
      <4> QED
        BY <2>3, <4>1 DEF Active, Timely
    <3>2. CASE h = g
      <4> USE DEF LocalInv, LocalType
      <4>1. CASE AddClock(g)
        BY <4>1, <3>2, MetricsAssumption DEF AddClock, Timely
      <4>2. CASE AddLoad(g) \/ AddSwap(g) \/ AddZero(g)
        <5>1. Active(g) /\ at' = at
          BY <4>2, RingSteps DEF AddLoad, AddSwap, AddZero
        <5> QED
          BY <5>1, <3>2 DEF Timely
      <4>3. CASE Look(g) \/ Create(g)
        <5>1. op' = op /\ (pc'[g] = "lock" \/ pc'[g] = FirstStep(op[g]))
          BY <4>3 DEF Look, Create, Step
        <5>2. pc'[g] \notin {"load", "cas", "zero", "add"} \/ op[g] # "rpm"
          BY <5>1 DEF FirstStep
        <5> QED
          BY <5>1, <5>2, <2>3, <3>2 DEF Active
      <4>4. CASE Begin(g) \/ GaugeAdd(g) \/ CounterAdd(g) \/ ObserveSum(g) \/ AddCount(g)
        <5>1. pc'[g] = "look"
          BY <4>4 DEF Begin, GaugeAdd, CounterAdd, ObserveSum, AddCount, Goto
        <5> QED
          BY <5>1, <2>3, <3>2 DEF Active
      <4>5. CASE ObserveTotal(g) \/ (\E b \in 0 .. Bounds : ObserveBucket(g, b))
        <5>1. pc'[g] \in {"total", "sum"}
          BY <4>5 DEF ObserveBucket, ObserveTotal, Step
        <5> QED
          BY <5>1, <2>3, <3>2 DEF Active
      <4> QED
        BY <1>4, <4>1, <4>2, <4>3, <4>4, <4>5 DEF Moves, Instrument
    <3> QED
      BY <3>1, <3>2
  <2> QED
    BY <2>1, <2>2, <2>3 DEF Timely
<1> QED
  BY <1>1, <1>2, <1>3, <1>4, StepCases

LEMMA HistoryNext ==
  ASSUME LocalInv, Timely, HistoryType, [Next]_vars
  PROVE  HistoryType'
<1>1. CASE UNCHANGED vars
  BY <1>1 DEF vars, history, HistoryType
<1>2. CASE Render \/ Tick
  <2>1. requests' = requests
    BY <1>2 DEF Tick, Render, RenderCounter, RenderBucket, RenderCount, RenderClock, RenderEpoch,
                RenderSlot, RenderDone
  <2> QED
    BY <1>2, <2>1, RenderLocal DEF HistoryType
<1>3. ASSUME NEW g \in Goroutines, Moves(g) PROVE HistoryType'
  <2>1. requests' \in Nat
    BY <1>3, InstrumentFrames DEF Moves, Begin, HistoryType
  <2>2. recorded' \in [Seconds -> Nat]
    <3>1. CASE AddCount(g)
      <4>1. at[g] \in Seconds
        BY <3>1, RingSteps, ActiveFacts
      <4>2. recorded' = [recorded EXCEPT ![at[g]] = @ + 1]
        BY <3>1 DEF AddCount
      <4> QED
        BY <4>1, <4>2 DEF HistoryType
    <3> QED
      BY <3>1, <1>3, InstrumentFrames DEF Moves, HistoryType
  <2>3. vanished' \in [Seconds -> Nat] /\ renewed' \subseteq Seconds
    <3>1. CASE AddZero(g)
      <4>1. at[g] \in Seconds /\ recorded[at[g]] \in Nat
        BY <3>1, RingSteps, ActiveFacts DEF HistoryType
      <4> QED
        BY <3>1, <4>1 DEF AddZero, HistoryType
    <3> QED
      BY <3>1, <1>3, InstrumentFrames DEF Moves, HistoryType
  <2> QED
    BY <2>1, <2>2, <2>3 DEF HistoryType
<1> QED
  BY <1>1, <1>2, <1>3, StepCases
-----------------------------------------------------------------------------
(***************************************************************************)
(* The gauge: it has as many as there are goroutines between its two       *)
(* additions, so the addition of -1 finds one.                             *)
(***************************************************************************)
LEMMA InsideFinite == IsFiniteSet(Inside) /\ Cardinality(Inside) \in Nat
<1>1. Inside \subseteq Goroutines
  BY DEF Inside
<1> QED
  BY <1>1, MetricsAssumption, FS_Subset, FS_CardinalityType

\* Outside GaugeAdd a goroutine stays on its side of the gauge.
LEMMA InsideStays ==
  ASSUME LocalInv, [Next]_vars, ~ \E g \in Goroutines : GaugeAdd(g)
  PROVE  Inside' = Inside
<1>1. CASE UNCHANGED vars
  BY <1>1 DEF vars, local, Inside
<1>2. CASE Render \/ Tick
  BY <1>2, RenderLocal DEF Inside
<1>3. ASSUME NEW g \in Goroutines, Moves(g) PROVE Inside' = Inside
  <2> DEFINE In == {"req", "lat", "rpm", "leave"}
  <2> SUFFICES \A h \in Goroutines : op'[h] \in In <=> op[h] \in In
    BY DEF Inside
  <2> USE DEF LocalInv, LocalType
  <2>1. CASE Look(g) \/ Create(g)
    BY <2>1 DEF Look, Create
  <2>2. CASE Begin(g) \/ CounterAdd(g) \/ AddCount(g)
    BY <2>2 DEF Begin, CounterAdd, AddCount, Goto
  <2>3. CASE ObserveSum(g)
    <3>1. op[g] = "lat"
      BY <2>3 DEF ObserveSum, Places
    <3> QED
      BY <2>3, <3>1 DEF ObserveSum, Goto
  <2>4. CASE ObserveTotal(g) \/ (\E b \in 0 .. Bounds : ObserveBucket(g, b))
    BY <2>4 DEF ObserveBucket, ObserveTotal
  <2>5. CASE AddClock(g) \/ AddLoad(g) \/ AddSwap(g) \/ AddZero(g)
    BY <2>5 DEF AddClock, AddLoad, AddSwap, AddZero
  <2> QED
    BY <1>3, <2>1, <2>2, <2>3, <2>4, <2>5 DEF Moves, Instrument
<1> QED
  BY <1>1, <1>2, <1>3, StepCases

\* What a scrape would show does not change when a cell comes into the map.
LEMMA ShownStays ==
  ASSUME LocalInv, [Next]_vars, NEW v \in Vecs, NEW f,
         \A g \in Goroutines : vals[v] # g => f[g] = 0
  PROVE  Shown(vals'[v], f) = Shown(vals[v], f)
<1>1. vals'[v] \in Goroutines \cup {None}
  BY NextLocal DEF LocalInv, LocalType
<1> QED
  BY <1>1, CellStays, MetricsAssumption DEF Shown

LEMMA GaugeNext ==
  ASSUME LocalInv, [Next]_vars, GaugeType, GaugeRight
  PROVE  GaugeType' /\ GaugeRight'
<1>1. ASSUME gauge' = gauge, ~ \E g \in Goroutines : GaugeAdd(g) PROVE GaugeType' /\ GaugeRight'
  <2>1. GaugeType'
    BY <1>1, StillOutside, VecNames DEF GaugeType
  <2>2. Shown(vals'["conc"], gauge) = Shown(vals["conc"], gauge)
    BY ShownStays, VecNames DEF GaugeType
  <2> QED
    BY <1>1, <2>1, <2>2, InsideStays DEF GaugeRight
<1>2. ASSUME NEW g \in Goroutines, GaugeAdd(g) PROVE GaugeType' /\ GaugeRight'
  <2> DEFINE w == ptr[g]
  <2>1. w = vals["conc"] /\ w \in Goroutines /\ vals' = vals /\ w # None
    BY <1>2 DEF LocalInv, LocalType, OwnCell, GaugeAdd, VecOf
  <2>2. gauge' = [gauge EXCEPT ![w] = GaugeAfter(g, gauge[w])] /\ gauge[w] = Cardinality(Inside)
    BY <1>2, <2>1 DEF GaugeAdd, GaugeRight, Shown, GaugeType
  <2>3. op' = [op EXCEPT ![g] = IF op[g] = "enter" THEN "req" ELSE "idle"]
    BY <1>2 DEF GaugeAdd, Goto
  <2>4. CASE op[g] = "enter"
    <3>1. g \notin Inside /\ Inside' = Inside \cup {g}
      BY <2>3, <2>4 DEF Inside, LocalInv, LocalType
    <3>2. Cardinality(Inside') = Cardinality(Inside) + 1
      BY <3>1, InsideFinite, FS_AddElement
    <3>3. gauge' = [gauge EXCEPT ![w] = Cardinality(Inside) + 1]
      BY <2>2, <2>4 DEF GaugeAfter
    <3>4. GaugeType'
      BY <2>1, <3>3, InsideFinite DEF GaugeType
    <3> QED
      BY <2>1, <3>2, <3>3, <3>4 DEF GaugeRight, Shown, GaugeType
  <2>5. CASE op[g] = "leave"
    <3>1. g \in Inside /\ Inside' = Inside \ {g}
      BY <2>3, <2>5 DEF Inside, LocalInv, LocalType
    <3>2. Cardinality(Inside') = Cardinality(Inside) - 1 /\ Cardinality(Inside') \in Nat
      <4>1. Cardinality(Inside \ {g}) = Cardinality(Inside) - 1
        BY <3>1, InsideFinite, FS_RemoveElement
      <4>2. Cardinality(Inside \ {g}) \in Nat
        BY InsideFinite, FS_Subset, FS_CardinalityType
      <4> QED
        BY <3>1, <4>1, <4>2
    <3>3. gauge' = [gauge EXCEPT ![w] = Cardinality(Inside')]
      BY <2>2, <2>5, <3>2 DEF GaugeAfter
    <3>4. GaugeType'
      BY <2>1, <3>3, <3>2 DEF GaugeType
    <3> QED
      BY <2>1, <3>3, <3>4 DEF GaugeRight, Shown, GaugeType
  <2> QED
    BY <1>2, <2>4, <2>5 DEF GaugeAdd
<1>3. CASE \E g \in Goroutines : GaugeAdd(g)
  BY <1>2, <1>3
<1>4. CASE ~ \E g \in Goroutines : GaugeAdd(g)
  <2>1. CASE Render \/ Tick
    BY <1>4, <2>1, <1>1, RenderLocal
  <2>2. CASE UNCHANGED vars
    BY <1>4, <2>2, <1>1 DEF vars, cells
  <2>3. ASSUME NEW g \in Goroutines, Moves(g) PROVE gauge' = gauge
    BY <1>4, <2>3, InstrumentFrames DEF Moves
  <2> QED
    BY <1>1, <1>4, <2>1, <2>2, <2>3, StepCases
<1> QED
  BY <1>3, <1>4
-----------------------------------------------------------------------------
(***************************************************************************)
(* The renderer: where it is in the vec whose read lock it holds.          *)
(***************************************************************************)
RenderType ==
  /\ scrape \in ScrapeSteps /\ slot \in Nat /\ now \in Nat /\ reading \in Nat
  /\ epochOK \in BOOLEAN /\ stale \in BOOLEAN
  /\ inf \in Nat /\ count \in Nat /\ seen \in Nat /\ scrapes \in Nat

RenderPlace ==
  /\ scrape = "idle" => slot = 0
  /\ scrape = "bucket" => slot <= Bounds
  /\ scrape = "count" => vals["lat"] # None
  /\ scrape \in {"epoch", "slot"} => vals["rpm"] # None /\ slot < windowBuckets

RenderInv == RenderType /\ RenderPlace

LEMMA RenderInvNext ==
  ASSUME LocalInv, HistogramType, CounterType, RingType, Timely, RenderInv, [Next]_vars
  PROVE  RenderInv'
<1>1. ASSUME UNCHANGED renderer PROVE RenderInv'
  <2>1. vals["lat"] # None => vals'["lat"] # None
    BY CellStays, VecNames
  <2>2. vals["rpm"] # None => vals'["rpm"] # None
    BY CellStays, VecNames
  <2> QED
    BY <1>1, <2>1, <2>2 DEF renderer, RenderInv, RenderType, RenderPlace
<1>2. CASE UNCHANGED vars
  BY <1>1, <1>2 DEF vars
<1>3. CASE Tick
  BY <1>1, <1>3 DEF Tick
<1>4. ASSUME NEW g \in Goroutines, Moves(g) PROVE RenderInv'
  BY <1>1, <1>4, InstrumentFrames DEF Moves
<1>5. CASE Render
  <2> USE DEF RenderInv, RenderType, RenderPlace, ScrapeSteps
  <2>0. vals' = vals /\ vals["lat"] \in Goroutines \cup {None} /\ vals["req"] \in Goroutines \cup {None}
        /\ vals["rpm"] \in Goroutines \cup {None}
    BY <1>5, RenderLocal, VecNames DEF LocalInv, LocalType
  <2>1. CASE RenderCounter
    <3>1. Shown(vals["req"], counter) \in Nat
      BY <2>0 DEF Shown, CounterType
    <3> QED
      BY <2>0, <2>1, <3>1, MetricsAssumption DEF RenderCounter
  <2>2. CASE RenderBucket
    <3>1. CASE vals["lat"] = None
      BY <2>0, <2>2, <3>1 DEF RenderBucket
    <3>2. CASE vals["lat"] # None
      <4>1. bucket[vals["lat"]][slot] \in Nat
        <5>1. slot \in 0 .. Bounds /\ vals["lat"] \in Goroutines
          BY <2>0, <2>2, <3>2, MetricsAssumption DEF RenderBucket
        <5> QED
          BY <5>1 DEF HistogramType
      <4>2. /\ inf' = inf + bucket[vals["lat"]][slot] /\ slot' = slot + 1
            /\ scrape' = IF slot = Bounds THEN "count" ELSE "bucket"
            /\ slot <= Bounds
            /\ UNCHANGED <<now, reading, epochOK, stale, count, seen, scrapes>>
        BY <2>2, <3>2 DEF RenderBucket, LastBucket
      <4> QED
        BY <2>0, <3>2, <4>1, <4>2, MetricsAssumption
    <3> QED
      BY <3>1, <3>2
  <2>3. CASE RenderCount
    <3>1. total[vals["lat"]] \in Nat
      BY <2>0, <2>3 DEF HistogramType, RenderCount
    <3> QED
      BY <2>0, <2>3, <3>1 DEF RenderCount
  <2>4. CASE RenderClock
    BY <2>0, <2>4, MetricsAssumption DEF RenderClock, Timely
  <2>5. CASE RenderEpoch
    BY <2>0, <2>5 DEF RenderEpoch
  <2>6. CASE RenderSlot
    <3>1. counts[vals["rpm"]][slot] \in Nat
      <4>1. slot \in Slots /\ vals["rpm"] \in Goroutines
        BY <2>0, <2>6, MetricsAssumption DEF RenderSlot, Slots
      <4> QED
        BY <4>1 DEF RingType
    <3>2. reading' \in Nat
      BY <2>6, <3>1 DEF RenderSlot
    <3>3. stale' \in BOOLEAN
      BY <2>6 DEF RenderSlot, Resetting
    <3>4. /\ slot' = slot + 1 /\ scrape' = IF slot + 1 = windowBuckets THEN "done" ELSE "epoch"
          /\ vals["rpm"] # None /\ slot < windowBuckets
          /\ UNCHANGED <<now, epochOK, inf, count, seen, scrapes>>
      BY <2>6 DEF RenderSlot
    <3> QED
      BY <2>0, <3>2, <3>3, <3>4, MetricsAssumption
  <2>7. CASE RenderDone
    BY <2>0, <2>7 DEF RenderDone
  <2> QED
    BY <1>5, <2>1, <2>2, <2>3, <2>4, <2>5, <2>6, <2>7 DEF Render
<1> QED
  BY <1>2, <1>3, <1>4, <1>5, StepCases
-----------------------------------------------------------------------------
BaseInv ==
  LocalInv /\ GaugeType /\ GaugeRight /\ CounterType /\ HistogramType /\ RingType /\ Timely
  /\ HistoryType /\ RenderInv

LEMMA InitBase == Init => BaseInv
<1> SUFFICES ASSUME Init PROVE BaseInv
  OBVIOUS
<1>1. GaugeType /\ CounterType /\ HistogramType
  BY DEF Init, GaugeType, CounterType, HistogramType
<1>2. RingType
  BY DEF Init, RingType
<1>3. Timely /\ HistoryType
  BY MetricsAssumption DEF Init, Timely, Active, HistoryType
<1>4. RenderInv
  BY MetricsAssumption DEF Init, RenderInv, RenderType, RenderPlace, ScrapeSteps
<1>5. GaugeRight
  <2>1. Inside = {}
    BY DEF Init, Inside
  <2> QED
    BY <2>1, VecNames, FS_EmptySet DEF Init, GaugeRight, Shown
<1> QED
  BY <1>1, <1>2, <1>3, <1>4, <1>5, InitLocal DEF BaseInv

LEMMA NextBase == BaseInv /\ [Next]_vars => BaseInv'
<1> SUFFICES ASSUME BaseInv, [Next]_vars PROVE BaseInv'
  OBVIOUS
<1> USE DEF BaseInv
<1>1. LocalInv' /\ CounterType' /\ GaugeType' /\ GaugeRight'
  BY NextLocal, CounterTypeNext, GaugeNext
<1>2. HistogramType' /\ Timely' /\ RingType'
  BY HistogramTypeNext, TimelyNext, RingTypeNext DEF Timely
<1>3. HistoryType' /\ RenderInv'
  BY HistoryNext, RenderInvNext
<1> QED
  BY <1>1, <1>2, <1>3

LEMMA BaseHolds == Spec => []BaseInv
BY InitBase, NextBase, PTL DEF Spec

\* Every variable keeps its type: the gauge in particular never goes below zero, whoever
\* creates its cell and however additions and their withdrawals overlap
\* (metrics.go:72-103, 171-204; window.go:41-65).
THEOREM TypeCorrect == Spec => []TypeOK
<1>1. BaseInv => TypeOK
  BY DEF BaseInv, LocalInv, LocalType, GaugeType, CounterType, HistogramType, RingType, Timely,
         HistoryType, RenderInv, RenderType, RenderPlace, TypeOK
<1> QED
  BY <1>1, BaseHolds, PTL
-----------------------------------------------------------------------------
(***************************************************************************)
(* requests_total is the abstract counter.                                 *)
(***************************************************************************)
LEMMA StepRefines ==
  BaseInv /\ [Next]_vars => [AbstractTally!Either]_(AbstractTally!both)
<1> SUFFICES ASSUME BaseInv, [Next]_vars
             PROVE  [AbstractTally!Either]_(AbstractTally!both)
  OBVIOUS
<1> USE DEF AbstractTally!Either, AbstractTally!both, AbstractTally!Addition,
            AbstractTally!Scraped
<1>0. LocalInv /\ CounterType
  BY DEF BaseInv
<1>1. ASSUME UNCHANGED <<counter, seen>>
      PROVE  [AbstractTally!Either]_(AbstractTally!both)
  <2>1. Shown(vals'["req"], counter) = Shown(vals["req"], counter)
    BY <1>0, ShownStays, VecNames DEF CounterType
  <2> QED
    BY <1>1, <2>1
<1>2. CASE UNCHANGED vars
  BY <1>1, <1>2 DEF vars, cells, renderer
<1>3. CASE Tick
  BY <1>1, <1>3 DEF Tick, cells, renderer
<1>4. CASE RenderCounter
  BY <1>4 DEF RenderCounter, cells, Shown
<1>5. CASE Render /\ ~RenderCounter
  <2>1. UNCHANGED <<counter, seen>>
    BY <1>5 DEF Render, RenderBucket, RenderCount, RenderClock, RenderEpoch, RenderSlot,
                RenderDone, cells
  <2> QED
    BY <1>1, <2>1
<1>6. ASSUME NEW g \in Goroutines, CounterAdd(g)
      PROVE  [AbstractTally!Either]_(AbstractTally!both)
  <2>1. vals["req"] # None /\ ptr[g] = vals["req"] /\ vals["req"] \in Goroutines
    BY <1>0, <1>6, VecNames DEF LocalInv, LocalType, OwnCell, CounterAdd, VecOf
  <2>2. /\ vals' = vals /\ seen' = seen
        /\ counter' = [counter EXCEPT ![vals["req"]] = @ + 1]
    BY <1>6, <2>1 DEF CounterAdd, renderer
  <2>3. counter'[vals["req"]] = counter[vals["req"]] + 1
    BY <1>0, <2>1, <2>2 DEF CounterType
  <2> QED
    BY <2>1, <2>2, <2>3 DEF Shown
<1>7. ASSUME NEW g \in Goroutines, Moves(g)
      PROVE  [AbstractTally!Either]_(AbstractTally!both)
  <2>1. (counter' = counter \/ CounterAdd(g)) /\ seen' = seen
    BY <1>7, InstrumentFrames DEF Moves, renderer
  <2> QED
    BY <1>1, <1>6, <2>1
<1> QED
  BY <1>2, <1>3, <1>4, <1>5, <1>7, StepCases

\* requests_total is a counter to whoever scrapes it (metrics.go:36-70): no addition is
\* lost or made twice by the double-checked creation of its cell, and a scrape shows
\* the value of the moment.
THEOREM CounterImplemented == Spec => CounterRefined
<1>1. Init => AbstractTally!Untouched
  BY VecNames DEF Init, AbstractTally!Untouched, Shown
<1> QED
  BY <1>1, BaseHolds, StepRefines, PTL DEF Spec, CounterRefined, AbstractTally!Promise
-----------------------------------------------------------------------------
(***************************************************************************)
(* The ring window.  At any moment the goroutines inside add whose seconds *)
(* have the same slot are at the same second, so a slot is never taken     *)
(* back to an earlier one, and one of them resets it.                      *)
(***************************************************************************)
Epoch(i) == IF vals["rpm"] = None THEN 0 ELSE epochs[vals["rpm"]][i]
Cnt(i) == counts[vals["rpm"]][i]

\* An epoch is a second of its slot that has come.
EpochsRight ==
  \A i \in Slots : Epoch(i) > 0 => SlotOf(Epoch(i)) = i /\ Epoch(i) <= clock

\* What the goroutines inside add know of their slot.
Holders ==
  \A g \in Goroutines :
    LET e == Epoch(SlotOf(at[g])) IN
    /\ pc[g] = "cas" => old[g] # at[g] /\ e \in {old[g], at[g]}
    /\ pc[g] = "zero" => e = at[g] /\ at[g] \notin renewed
    /\ op[g] = "rpm" /\ pc[g] = "add" => e = at[g]

OneResetter ==
  \A g, h \in Goroutines :
    pc[g] = "zero" /\ pc[h] = "zero" /\ SlotOf(at[g]) = SlotOf(at[h]) => g = h

RenewedPast == \A s \in renewed : s <= Epoch(SlotOf(s))

RingInv == EpochsRight /\ Holders /\ OneResetter /\ RenewedPast /\ SlotExact

LEMMA EpochType ==
  ASSUME LocalInv, RingType, NEW i \in Slots
  PROVE  Epoch(i) \in Nat /\ (vals["rpm"] # None => Cnt(i) \in Nat)
<1>1. vals["rpm"] \in Goroutines \cup {None}
  BY VecNames DEF LocalInv, LocalType
<1> QED
  BY <1>1 DEF Epoch, Cnt, RingType

\* Seconds of one slot that are less than a turn behind the clock are the same.
LEMMA SameSlot ==
  ASSUME NEW r \in Nat, NEW s \in Nat, NEW c \in Nat, r <= c, s <= c,
         c - r < windowBuckets, c - s < windowBuckets, SlotOf(r) = SlotOf(s)
  PROVE  r = s
<1>0. windowBuckets \in Nat
  BY MetricsAssumption
<1>1. CASE r <= s
  <2>1. s - r < windowBuckets
    BY <1>0, <1>1
  <2> QED
    BY <1>1, <2>1, SlotFacts
<1>2. CASE s <= r
  <2>1. r - s < windowBuckets
    BY <1>0, <1>2
  <2> QED
    BY <1>2, <2>1, SlotFacts
<1> QED
  BY <1>1, <1>2

LEMMA SameSecond ==
  ASSUME Timely, NEW g \in Goroutines, NEW h \in Goroutines, Active(g), Active(h),
         SlotOf(at[g]) = SlotOf(at[h])
  PROVE  at[g] = at[h]
<1>1. at[g] \in Nat /\ at[h] \in Nat /\ clock \in Nat /\ at[g] <= clock /\ at[h] <= clock
      /\ clock - at[g] < windowBuckets /\ clock - at[h] < windowBuckets
  BY DEF Timely
<1> QED
  BY <1>1, SameSlot

\* A goroutine never finds its slot ahead of it.
LEMMA NotAhead ==
  ASSUME LocalInv, RingType, Timely, EpochsRight, NEW g \in Goroutines, Active(g)
  PROVE  Epoch(SlotOf(at[g])) <= at[g]
<1> DEFINE i == SlotOf(at[g])
           e == Epoch(i)
<1>1. at[g] \in Nat /\ clock \in Nat /\ at[g] <= clock /\ clock - at[g] < windowBuckets /\ at[g] > 0
  BY ActiveFacts DEF Timely
<1>2. i \in Slots
  BY ActiveFacts
<1>3. e \in Nat
  BY <1>2, EpochType
<1>4. e > 0 => SlotOf(e) = i /\ e <= clock
  BY <1>2 DEF EpochsRight
<1>5. ASSUME e > at[g] PROVE FALSE
  <2>1. SlotOf(e) = SlotOf(at[g]) /\ e <= clock
    BY <1>1, <1>3, <1>4, <1>5
  <2> HIDE DEF e, i
  <2>2. clock - e < windowBuckets
    BY <1>1, <1>3, <1>5, <2>1, MetricsAssumption
  <2>3. e = at[g]
    BY <2>1, <2>2, <1>1, <1>3, SameSlot
  <2> QED
    BY <2>3, <1>5, <1>1
<1> HIDE DEF e, i
<1>6. e <= at[g]
  BY <1>1, <1>3, <1>5
<1> QED
  BY <1>6 DEF e, i

LEMMA EpochStays ==
  ASSUME LocalInv, RingType, [Next]_vars, epochs' = epochs
  PROVE  \A i \in Slots : Epoch(i)' = Epoch(i)
<1>1. vals'["rpm"] \in Goroutines \cup {None}
  BY NextLocal, VecNames DEF LocalInv, LocalType
<1>2. vals["rpm"] # None => vals'["rpm"] = vals["rpm"]
  BY CellStays, VecNames
<1> QED
  BY <1>1, <1>2, MetricsAssumption DEF Epoch, RingType

\* A goroutine of another step than the three that write the ring, afterwards.
LEMMA HolderQuiet ==
  ASSUME BaseInv, RingInv, [Next]_vars, NEW g \in Goroutines, Moves(g), epochs' = epochs,
         ~AddSwap(g), ~AddZero(g), ~AddCount(g)
  PROVE  /\ pc[g] # "zero" /\ pc'[g] # "zero"
         /\ LET e == Epoch(SlotOf(at'[g])) IN
            /\ pc'[g] = "cas" => old'[g] # at'[g] /\ e \in {old'[g], at'[g]}
            /\ op'[g] = "rpm" /\ pc'[g] = "add" => e = at'[g]
<1> USE DEF BaseInv, LocalInv, LocalType, Timely
<1>1. CASE Look(g) \/ Create(g)
  BY <1>1 DEF Look, Create, Step, FirstStep
<1>2. CASE Begin(g) \/ GaugeAdd(g) \/ CounterAdd(g) \/ ObserveSum(g)
  <2>1. pc'[g] = "look"
    BY <1>2 DEF Begin, GaugeAdd, CounterAdd, ObserveSum, Goto
  <2>2. pc[g] # "zero"
    BY <1>2 DEF Begin, GaugeAdd, CounterAdd, ObserveSum, Places
  <2> QED
    BY <2>1, <2>2
<1>3. CASE ObserveTotal(g) \/ (\E b \in 0 .. Bounds : ObserveBucket(g, b))
  BY <1>3 DEF ObserveBucket, ObserveTotal, Step
<1>4. CASE AddClock(g)
  BY <1>4 DEF AddClock, Step
<1>5. CASE AddLoad(g)
  <2> DEFINE e == epochs[ptr[g]][SlotOf(at[g])]
  <2>1. /\ pc[g] = "load" /\ old'[g] = e /\ at' = at
        /\ pc'[g] = IF e = at[g] THEN "add" ELSE "cas"
    BY <1>5 DEF AddLoad, Step
  <2>2. e = Epoch(SlotOf(at[g]))
    <3>1. ptr[g] = vals["rpm"] /\ ptr[g] \in Goroutines
      BY <1>5, RingSteps, ActiveFacts
    <3> QED
      BY <3>1, MetricsAssumption DEF Epoch
  <2> HIDE DEF e
  <2> QED
    BY <2>1, <2>2
<1> QED
  BY <1>1, <1>2, <1>3, <1>4, <1>5 DEF Moves, Instrument

\* Such steps, and those of the clock and the renderer, leave the ring as it is.
LEMMA RingKept ==
  ASSUME RingInv, \A i \in Slots : Epoch(i)' = Epoch(i), EpochsRight', Holders', OneResetter',
         UNCHANGED <<counts, epochs, recorded, vanished, renewed>>,
         LocalInv, LocalInv', RingType, Timely, HistoryType,
         vals["rpm"] # None => vals'["rpm"] = vals["rpm"],
         \A i \in Slots : Resetting(vals["rpm"], i) => Resetting(vals["rpm"], i)'
  PROVE  RingInv'
<1>1. RenewedPast'
  <2>1. \A s \in renewed : s \in Nat /\ SlotOf(s) \in Slots
    BY SlotFacts, MetricsAssumption DEF HistoryType, Seconds
  <2> QED
    BY <2>1 DEF RingInv, RenewedPast
<1>2. SlotExact'
  <2> SUFFICES ASSUME vals'["rpm"] # None, NEW i \in Slots, Epoch(i)' > 0,
                      ~Resetting(vals["rpm"], i)'
               PROVE  Cnt(i)' = recorded[Epoch(i)] - vanished[Epoch(i)]
    <3>1. ASSUME vals'["rpm"] # None, NEW i \in Slots PROVE Epoch(i)' = epochs'[vals'["rpm"]][i]
      BY <3>1 DEF Epoch
    <3> QED
      BY <3>1 DEF SlotExact, Cnt
  <2>1. Epoch(i) > 0 /\ vals["rpm"] # None
    BY DEF Epoch
  <2>2. ~Resetting(vals["rpm"], i)
    BY <2>1
  <2>3. Cnt(i) = recorded[Epoch(i)] - vanished[Epoch(i)]
    BY <2>1, <2>2 DEF RingInv, SlotExact, Cnt, Epoch
  <2> QED
    BY <2>1, <2>3 DEF Cnt
<1> QED
  BY <1>1, <1>2 DEF RingInv
LEMMA RingQuiet ==
  ASSUME BaseInv, RingInv, [Next]_vars, NEW g \in Goroutines, Moves(g),
         ~AddSwap(g), ~AddZero(g), ~AddCount(g)
  PROVE  RingInv'
<1>0. LocalInv /\ RingType /\ Timely /\ HistoryType /\ LocalInv' /\ Timely'
  BY NextBase DEF BaseInv
<1>1. UNCHANGED <<counts, epochs, recorded, vanished, renewed>> /\ clock' = clock
  BY InstrumentFrames DEF Moves
<1>2. \A i \in Slots : Epoch(i)' = Epoch(i)
  BY <1>0, <1>1, EpochStays
<1>3. ASSUME NEW h \in Goroutines, h # g
      PROVE  op'[h] = op[h] /\ pc'[h] = pc[h] /\ ptr'[h] = ptr[h] /\ at'[h] = at[h] /\ old'[h] = old[h]
  BY <1>0, <1>3, OthersStay DEF Timely
<1>4. /\ pc[g] # "zero" /\ pc'[g] # "zero"
      /\ LET e == Epoch(SlotOf(at'[g])) IN
         /\ pc'[g] = "cas" => old'[g] # at'[g] /\ e \in {old'[g], at'[g]}
         /\ op'[g] = "rpm" /\ pc'[g] = "add" => e = at'[g]
  BY <1>1, HolderQuiet
<1>5. EpochsRight'
  BY <1>1, <1>2 DEF RingInv, EpochsRight
<1>6. Holders'
  <2>1. ASSUME NEW h \in Goroutines PROVE Epoch(SlotOf(at[h]))' = Epoch(SlotOf(at'[h]))
    <3>1. at'[h] \in Nat
      BY <1>0 DEF Timely
    <3>2. SlotOf(at'[h]) \in Slots
      BY <3>1, SlotFacts
    <3> QED
      BY <1>2, <3>2
  <2>2. ASSUME NEW h \in Goroutines, h # g
        PROVE  LET e == Epoch(SlotOf(at'[h])) IN
               /\ pc'[h] = "cas" => old'[h] # at'[h] /\ e \in {old'[h], at'[h]}
               /\ pc'[h] = "zero" => e = at'[h] /\ at'[h] \notin renewed'
               /\ op'[h] = "rpm" /\ pc'[h] = "add" => e = at'[h]
    BY <1>1, <1>3, <2>2 DEF RingInv, Holders
  <2> QED
    BY <1>4, <2>1, <2>2 DEF Holders
<1>7. OneResetter'
  BY <1>3, <1>4 DEF RingInv, OneResetter
<1>8. \A i \in Slots : Resetting(vals["rpm"], i) => Resetting(vals["rpm"], i)'
  <2> SUFFICES ASSUME NEW i \in Slots, NEW h \in Goroutines, pc[h] = "zero", ptr[h] = vals["rpm"],
                      SlotOf(at[h]) = i
               PROVE  Resetting(vals["rpm"], i)'
    BY DEF Resetting
  <2>1. h # g
    BY <1>4
  <2>2. op[h] = "rpm" /\ ptr[h] # None /\ op'[h] = "rpm" /\ pc'[h] = "zero"
    BY <1>0, <1>3, <2>1 DEF LocalInv, OwnCell, Places
  <2>3. ptr'[h] = vals'["rpm"]
    BY <1>0, <2>2 DEF LocalInv, OwnCell, VecOf
  <2> QED
    BY <1>3, <2>1, <2>2, <2>3 DEF Resetting
<1>9. vals["rpm"] # None => vals'["rpm"] = vals["rpm"]
  BY <1>0, CellStays, VecNames
<1> QED
  BY <1>0, <1>1, <1>2, <1>5, <1>6, <1>7, <1>8, <1>9, RingKept

LEMMA RingStill ==
  ASSUME BaseInv, RingInv, [Next]_vars, UNCHANGED vars \/ Render \/ Tick
  PROVE  RingInv'
<1>0. LocalInv /\ RingType /\ Timely /\ HistoryType /\ LocalInv'
  BY NextBase DEF BaseInv
<1>1. UNCHANGED <<vals, op, pc, ptr, at, old, counts, epochs, recorded, vanished, renewed>>
  BY RenderLocal DEF vars, cells, local, history
<1>2. \A i \in Slots : Epoch(i)' = Epoch(i)
  BY <1>1 DEF Epoch
<1>3. clock' = clock \/ clock' = clock + 1
  BY DEF vars, Tick, Render, RenderCounter, RenderBucket, RenderCount, RenderClock, RenderEpoch,
         RenderSlot, RenderDone
<1>4. EpochsRight'
  <2> SUFFICES ASSUME NEW i \in Slots, Epoch(i) > 0 PROVE SlotOf(Epoch(i)) = i /\ Epoch(i) <= clock'
    BY <1>2 DEF EpochsRight
  <2>1. Epoch(i) \in Nat /\ SlotOf(Epoch(i)) = i /\ Epoch(i) <= clock
    BY <1>0, EpochType DEF RingInv, EpochsRight
  <2> QED
    BY <1>0, <1>3, <2>1 DEF Timely
<1>5. Holders' /\ OneResetter'
  BY <1>1 DEF RingInv, Holders, OneResetter, Epoch
<1>6. \A i \in Slots : Resetting(vals["rpm"], i) => Resetting(vals["rpm"], i)'
  BY <1>1 DEF Resetting
<1> QED
  BY <1>0, <1>1, <1>2, <1>4, <1>5, <1>6, RingKept

\* What the three steps that write the ring find, and what they leave to the others.
LEMMA RingFrame ==
  ASSUME BaseInv, RingInv, NEW g \in Goroutines, AddSwap(g) \/ AddZero(g) \/ AddCount(g)
  PROVE  /\ LocalInv /\ RingType /\ Timely /\ HistoryType /\ Moves(g)
         /\ Active(g) /\ ptr[g] = vals["rpm"] /\ ptr[g] \in Goroutines /\ ptr[g] # None
         /\ at[g] \in Seconds /\ at[g] \in Nat /\ at[g] > 0 /\ SlotOf(at[g]) \in Slots
         /\ vals' = vals /\ clock' = clock
         /\ \A h \in Goroutines : h # g =>
              op'[h] = op[h] /\ pc'[h] = pc[h] /\ ptr'[h] = ptr[h] /\ at'[h] = at[h]
              /\ old'[h] = old[h]
<1>1. LocalInv /\ RingType /\ Timely /\ HistoryType /\ Moves(g)
  BY DEF BaseInv, Moves, Instrument
<1>2. Active(g)
  BY <1>1, RingSteps
<1>3. vals' = vals /\ clock' = clock
  BY DEF AddSwap, AddZero, AddCount
<1>4. at \in [Goroutines -> Nat] /\ old \in [Goroutines -> Nat]
  BY <1>1 DEF Timely
<1> QED
  BY <1>1, <1>2, <1>3, <1>4, ActiveFacts, OthersStay, MetricsAssumption

\* The compare-and-swap that finds the epoch changed: somebody has renewed the slot for
\* the same second.
LEMMA SwapFails ==
  ASSUME BaseInv, RingInv, [Next]_vars, NEW g \in Goroutines, AddSwap(g),
         epochs[ptr[g]][SlotOf(at[g])] # old[g]
  PROVE  RingInv'
<1> DEFINE i == SlotOf(at[g])
<1>0. /\ LocalInv /\ RingType /\ Timely /\ HistoryType
      /\ ptr[g] = vals["rpm"] /\ ptr[g] # None /\ vals' = vals /\ clock' = clock
  BY RingFrame
<1>1. /\ UNCHANGED <<counts, epochs, recorded, vanished, renewed, op, ptr, at, old>>
      /\ pc' = [pc EXCEPT ![g] = "add"] /\ pc[g] = "cas"
  BY DEF AddSwap, Swaps, Step, history
<1>2. \A j : Epoch(j)' = Epoch(j)
  BY <1>0, <1>1 DEF Epoch
<1>3. EpochsRight'
  BY <1>0, <1>2 DEF RingInv, EpochsRight
<1>4. Epoch(i) = at[g]
  <2>1. Epoch(i) # old[g]
    BY <1>0 DEF Epoch
  <2> QED
    BY <1>1, <2>1 DEF RingInv, Holders
<1>5. Holders'
  BY <1>0, <1>1, <1>2, <1>4 DEF RingInv, Holders, LocalInv, LocalType
<1>6. OneResetter'
  BY <1>0, <1>1 DEF RingInv, OneResetter, LocalInv, LocalType
<1>7. \A j \in Slots : Resetting(vals["rpm"], j) => Resetting(vals["rpm"], j)'
  BY <1>0, <1>1 DEF Resetting, LocalInv, LocalType
<1>8. LocalInv'
  BY <1>0, NextLocal
<1> QED
  BY <1>0, <1>1, <1>2, <1>3, <1>5, <1>6, <1>7, <1>8, RingKept
\* The one that succeeds: the slot had an earlier second, nobody else is resetting it, and it
\* has not been reset for this second before.
LEMMA SwapWins ==
  ASSUME BaseInv, RingInv, [Next]_vars, NEW g \in Goroutines, AddSwap(g),
         epochs[ptr[g]][SlotOf(at[g])] = old[g]
  PROVE  RingInv'
<1> DEFINE i == SlotOf(at[g])
           w == ptr[g]
           t == at[g]
<1>0. /\ LocalInv /\ RingType /\ Timely /\ HistoryType /\ Active(g)
      /\ w = vals["rpm"] /\ w # None /\ w \in Goroutines /\ vals' = vals /\ clock' = clock
      /\ t \in Nat /\ t > 0 /\ i \in Slots
  BY RingFrame
<1>1. /\ UNCHANGED <<counts, recorded, vanished, renewed, op, ptr, at, old>>
      /\ pc' = [pc EXCEPT ![g] = "zero"] /\ pc[g] = "cas"
      /\ epochs' = [epochs EXCEPT ![w][i] = t]
  BY DEF AddSwap, Swaps, Step, history
<1>2. \A j \in Slots : Epoch(j)' = IF j = i THEN t ELSE Epoch(j)
  <2>1. epochs[w] \in [Slots -> Nat]
    BY <1>0 DEF RingType
  <2>2. epochs'[w] = [epochs[w] EXCEPT ![i] = t]
    BY <1>0, <1>1 DEF RingType
  <2>3. \A j \in Slots : epochs'[w][j] = IF j = i THEN t ELSE epochs[w][j]
    BY <2>1, <2>2, <1>0
  <2> QED
    BY <1>0, <2>3 DEF Epoch
<1>3. Epoch(i) = old[g] /\ old[g] # t /\ Epoch(i) <= t /\ Epoch(i) \in Nat
  <2>1. Epoch(i) = old[g]
    BY <1>0 DEF Epoch
  <2>2. old[g] # t
    BY <1>1 DEF RingInv, Holders
  <2>3. Epoch(i) <= t
    BY <1>0, NotAhead DEF RingInv
  <2> QED
    BY <2>1, <2>2, <2>3, <1>0, EpochType
<1>4. t \notin renewed
  <2> SUFFICES ASSUME t \in renewed PROVE FALSE
    OBVIOUS
  <2>1. t <= Epoch(i)
    BY DEF RingInv, RenewedPast
  <2> HIDE DEF t, i
  <2> QED
    BY <1>0, <1>3, <2>1
<1>5. ASSUME NEW h \in Goroutines, h # g, Active(h), SlotOf(at[h]) = i
      PROVE  at[h] = t /\ pc[h] # "zero" /\ pc[h] # "add"
  <2>1. at[h] = t
    BY <1>0, <1>5, SameSecond
  <2>2. Epoch(SlotOf(at[h])) # at[h]
    BY <1>3, <1>5, <2>1
  <2> QED
    BY <1>5, <2>1, <2>2 DEF RingInv, Holders, Active
<1>6. ASSUME NEW h \in Goroutines, pc[h] \in {"cas", "zero"} \/ (op[h] = "rpm" /\ pc[h] = "add")
      PROVE  Active(h) /\ at[h] \in Nat /\ SlotOf(at[h]) \in Slots
  <2>1. Active(h)
    BY <1>0, <1>6 DEF Active, LocalInv, Places
  <2> QED
    BY <2>1, <1>0, ActiveFacts
<1>7. EpochsRight'
  <2>1. t <= clock
    BY <1>0 DEF Timely
  <2> QED
    BY <1>0, <1>2, <2>1 DEF RingInv, EpochsRight
<1>8. Holders'
  <2> SUFFICES ASSUME NEW h \in Goroutines
               PROVE  /\ pc'[h] = "cas" => old[h] # at[h] /\ Epoch(SlotOf(at[h]))' \in {old[h], at[h]}
                      /\ pc'[h] = "zero" => Epoch(SlotOf(at[h]))' = at[h] /\ at[h] \notin renewed
                      /\ op[h] = "rpm" /\ pc'[h] = "add" => Epoch(SlotOf(at[h]))' = at[h]
    BY <1>1 DEF Holders
  <2>1. CASE h = g
    BY <2>1, <1>0, <1>1, <1>2, <1>4 DEF LocalInv, LocalType
  <2>2. CASE h # g /\ Active(h) /\ SlotOf(at[h]) = i
    <3>1. at[h] = t /\ pc[h] # "zero" /\ pc[h] # "add" /\ pc'[h] = pc[h]
      BY <1>1, <1>5, <2>2 DEF LocalInv, LocalType
    <3>2. Epoch(SlotOf(at[h]))' = at[h]
      BY <3>1, <1>0, <1>1, <1>2, <2>2
    <3> QED
      BY <3>1, <3>2 DEF RingInv, Holders
  <2>3. CASE h # g /\ Active(h) /\ SlotOf(at[h]) # i
    <3>1. pc'[h] = pc[h] /\ SlotOf(at[h]) \in Slots
      BY <1>0, <1>1, <2>3, ActiveFacts DEF LocalInv, LocalType
    <3>2. Epoch(SlotOf(at[h]))' = Epoch(SlotOf(at[h]))
      BY <3>1, <1>1, <1>2, <2>3
    <3> QED
      BY <3>1, <3>2 DEF RingInv, Holders
  <2>4. CASE h # g /\ ~Active(h)
    <3>1. pc'[h] = pc[h]
      BY <1>0, <1>1, <2>4 DEF LocalInv, LocalType
    <3> QED
      BY <3>1, <2>4, <1>6
  <2> QED
    BY <2>1, <2>2, <2>3, <2>4
<1>9. OneResetter'
  <2> SUFFICES ASSUME NEW h \in Goroutines, NEW k \in Goroutines, pc'[h] = "zero", pc'[k] = "zero",
                      SlotOf(at[h]) = SlotOf(at[k]), h # k
               PROVE  FALSE
    BY <1>1 DEF OneResetter
  <2>1. ASSUME NEW m \in Goroutines, m # g, pc'[m] = "zero" PROVE pc[m] = "zero" /\ SlotOf(at[m]) # i
    <3>1. pc[m] = "zero"
      BY <1>0, <1>1, <2>1 DEF LocalInv, LocalType
    <3> QED
      BY <3>1, <2>1, <1>5, <1>6
  <2> QED
    BY <2>1 DEF RingInv, OneResetter
<1>10. RenewedPast'
  <2> SUFFICES ASSUME NEW s \in renewed PROVE s <= Epoch(SlotOf(s))'
    BY <1>1 DEF RenewedPast
  <2>1. s \in Nat /\ SlotOf(s) \in Slots /\ s <= Epoch(SlotOf(s))
    BY <1>0, SlotFacts, MetricsAssumption DEF HistoryType, Seconds, RingInv, RenewedPast
  <2>2. CASE SlotOf(s) = i
    <3>1. s <= Epoch(i) /\ Epoch(SlotOf(s))' = t
      BY <2>1, <2>2, <1>2
    <3> HIDE DEF i, t
    <3> QED
      BY <3>1, <2>1, <1>0, <1>3
  <2>3. CASE SlotOf(s) # i
    BY <2>1, <2>3, <1>2
  <2> QED
    BY <2>2, <2>3
<1>11. SlotExact'
  <2> SUFFICES ASSUME NEW j \in Slots, Epoch(j)' > 0, ~Resetting(vals["rpm"], j)'
               PROVE  Cnt(j) = recorded[Epoch(j)'] - vanished[Epoch(j)']
    <3>1. ASSUME NEW j \in Slots PROVE Epoch(j)' = epochs'[vals'["rpm"]][j]
      BY <1>0 DEF Epoch
    <3> QED
      BY <1>0, <1>1, <3>1 DEF SlotExact, Cnt
  <2>1. Resetting(vals["rpm"], i)'
    <3>1. pc'[g] = "zero"
      BY <1>0, <1>1 DEF LocalInv, LocalType
    <3> QED
      BY <3>1, <1>0, <1>1 DEF Resetting
  <2>2. j # i /\ Epoch(j)' = Epoch(j)
    <3>1. i' = i
      BY <1>1
    <3>2. j # i
      BY <2>1, <3>1
    <3> QED
      BY <3>2, <1>2
  <2>3. ~Resetting(vals["rpm"], j)
    <3> SUFFICES ASSUME NEW h \in Goroutines, pc[h] = "zero", ptr[h] = vals["rpm"], SlotOf(at[h]) = j
                 PROVE  FALSE
      BY DEF Resetting
    <3>1. h # g /\ pc'[h] = "zero"
      BY <1>0, <1>1 DEF LocalInv, LocalType
    <3> QED
      BY <3>1, <1>0, <1>1 DEF Resetting
  <2> QED
    BY <1>0, <2>2, <2>3 DEF RingInv, SlotExact, Cnt, Epoch
<1> HIDE DEF i, t, w
<1> QED
  BY <1>7, <1>8, <1>9, <1>10, <1>11 DEF RingInv
\* The reset.  What was added for the second before it is what the slot will lack.
LEMMA ZeroRing ==
  ASSUME BaseInv, RingInv, [Next]_vars, NEW g \in Goroutines, AddZero(g)
  PROVE  RingInv'
<1> DEFINE i == SlotOf(at[g])
           w == ptr[g]
           t == at[g]
<1>0. /\ LocalInv /\ RingType /\ Timely /\ HistoryType /\ Active(g)
      /\ w = vals["rpm"] /\ w # None /\ w \in Goroutines /\ vals' = vals /\ clock' = clock
      /\ t \in Nat /\ t > 0 /\ i \in Slots /\ t \in Seconds
  BY RingFrame
<1>1. Epoch(i) = t /\ t \notin renewed
  BY DEF AddZero, RingInv, Holders
<1>2. /\ UNCHANGED <<epochs, recorded, op, ptr, at, old>>
      /\ pc' = [pc EXCEPT ![g] = "add"] /\ pc[g] = "zero"
      /\ counts' = [counts EXCEPT ![w][i] = 0]
      /\ vanished' = [vanished EXCEPT ![t] = recorded[t]]
      /\ renewed' = renewed \cup {t}
  BY <1>1 DEF AddZero, Step
<1>3. \A j : Epoch(j)' = Epoch(j)
  BY <1>0, <1>2 DEF Epoch
<1>4. EpochsRight'
  BY <1>0, <1>3 DEF RingInv, EpochsRight
<1>5. Holders'
  <2> SUFFICES ASSUME NEW h \in Goroutines
               PROVE  /\ pc'[h] = "cas" => old[h] # at[h] /\ Epoch(SlotOf(at[h])) \in {old[h], at[h]}
                      /\ pc'[h] = "zero" => Epoch(SlotOf(at[h])) = at[h] /\ at[h] \notin renewed'
                      /\ op[h] = "rpm" /\ pc'[h] = "add" => Epoch(SlotOf(at[h])) = at[h]
    BY <1>2, <1>3 DEF Holders
  <2>1. CASE h = g
    BY <2>1, <1>0, <1>1, <1>2 DEF LocalInv, LocalType
  <2>2. CASE h # g
    <3>1. pc'[h] = pc[h]
      BY <1>0, <1>2, <2>2 DEF LocalInv, LocalType
    <3>2. pc[h] = "zero" => at[h] # t
      BY <1>2, <2>2 DEF RingInv, OneResetter
    <3> QED
      BY <3>1, <3>2, <1>2 DEF RingInv, Holders
  <2> QED
    BY <2>1, <2>2
<1>6. OneResetter'
  BY <1>0, <1>2 DEF RingInv, OneResetter, LocalInv, LocalType
<1>7. RenewedPast'
  <2> SUFFICES ASSUME NEW s \in renewed' PROVE s <= Epoch(SlotOf(s))
    BY <1>3 DEF RenewedPast
  <2>1. CASE s = t
    BY <2>1, <1>0, <1>1
  <2>2. CASE s \in renewed
    BY <2>2 DEF RingInv, RenewedPast
  <2> QED
    BY <2>1, <2>2, <1>2
<1>8. SlotExact'
  <2> SUFFICES ASSUME NEW j \in Slots, Epoch(j) > 0, ~Resetting(vals["rpm"], j)'
               PROVE  Cnt(j)' = recorded[Epoch(j)] - vanished'[Epoch(j)]
    <3>1. ASSUME NEW j \in Slots PROVE epochs'[vals'["rpm"]][j] = Epoch(j)
      BY <1>0, <1>2 DEF Epoch
    <3> QED
      BY <1>0, <1>2, <3>1 DEF SlotExact, Cnt
  <2>1. \A k \in Slots : Cnt(k)' = IF k = i THEN 0 ELSE Cnt(k)
    <3>1. counts[w] \in [Slots -> Nat]
      BY <1>0 DEF RingType
    <3>2. counts'[w] = [counts[w] EXCEPT ![i] = 0]
      BY <1>0, <1>2 DEF RingType
    <3>3. \A k \in Slots : counts'[w][k] = IF k = i THEN 0 ELSE counts[w][k]
      BY <1>0, <3>1, <3>2
    <3> QED
      BY <1>0, <3>3 DEF Cnt
  <2>2. CASE j = i
    <3>1. Cnt(j)' = 0 /\ vanished'[t] = recorded[t] /\ recorded[t] \in Nat /\ Epoch(j) = t
      BY <2>1, <2>2, <1>0, <1>1, <1>2 DEF HistoryType
    <3> QED
      BY <3>1
  <2>3. CASE j # i
    <3>1. SlotOf(Epoch(j)) = j
      BY DEF RingInv, EpochsRight
    <3>2. Epoch(j) # t
      BY <3>1, <2>3
    <3>3. Epoch(j) \in Nat /\ vanished'[Epoch(j)] = vanished[Epoch(j)]
      BY <3>2, <1>0, <1>2, EpochType DEF HistoryType
    <3>4. ~Resetting(vals["rpm"], j)
      <4> SUFFICES ASSUME NEW h \in Goroutines, pc[h] = "zero", ptr[h] = vals["rpm"], SlotOf(at[h]) = j
                   PROVE  FALSE
        BY DEF Resetting
      <4>1. h # g /\ pc'[h] = "zero"
        BY <1>0, <1>2, <2>3 DEF LocalInv, LocalType
      <4> QED
        BY <4>1, <1>0, <1>2 DEF Resetting
    <3>5. Cnt(j) = recorded[Epoch(j)] - vanished[Epoch(j)]
      BY <1>0, <3>4 DEF RingInv, SlotExact, Cnt, Epoch
    <3> QED
      BY <2>1, <2>3, <3>3, <3>5
  <2> QED
    BY <2>2, <2>3
<1> HIDE DEF i, t, w
<1> QED
  BY <1>4, <1>5, <1>6, <1>7, <1>8 DEF RingInv

\* The addition, for the second that the slot has.
LEMMA CountRing ==
  ASSUME BaseInv, RingInv, [Next]_vars, NEW g \in Goroutines, AddCount(g)
  PROVE  RingInv'
<1> DEFINE i == SlotOf(at[g])
           w == ptr[g]
           t == at[g]
<1>0. /\ LocalInv /\ RingType /\ Timely /\ HistoryType /\ Active(g)
      /\ w = vals["rpm"] /\ w # None /\ w \in Goroutines /\ vals' = vals /\ clock' = clock
      /\ t \in Nat /\ t > 0 /\ i \in Slots /\ t \in Seconds
      /\ \A h \in Goroutines : h # g =>
           op'[h] = op[h] /\ pc'[h] = pc[h] /\ ptr'[h] = ptr[h] /\ at'[h] = at[h] /\ old'[h] = old[h]
  BY RingFrame
<1>1. Epoch(i) = t
  BY DEF AddCount, RingInv, Holders
<1>2. /\ UNCHANGED <<epochs, vanished, renewed>> /\ pc[g] = "add"
      /\ counts' = [counts EXCEPT ![w][i] = @ + 1]
      /\ recorded' = [recorded EXCEPT ![t] = @ + 1]
      /\ pc'[g] = "look"
  BY <1>0 DEF AddCount, Goto, LocalInv, LocalType
<1>3. \A j : Epoch(j)' = Epoch(j)
  BY <1>0, <1>2 DEF Epoch
<1>4. EpochsRight'
  BY <1>0, <1>3 DEF RingInv, EpochsRight
<1>5. Holders'
  <2> SUFFICES ASSUME NEW h \in Goroutines
               PROVE  /\ pc'[h] = "cas" => old'[h] # at'[h] /\ Epoch(SlotOf(at'[h])) \in {old'[h], at'[h]}
                      /\ pc'[h] = "zero" => Epoch(SlotOf(at'[h])) = at'[h] /\ at'[h] \notin renewed
                      /\ op'[h] = "rpm" /\ pc'[h] = "add" => Epoch(SlotOf(at'[h])) = at'[h]
    BY <1>2, <1>3 DEF Holders
  <2>1. CASE h = g
    BY <2>1, <1>2
  <2>2. CASE h # g
    BY <1>0, <2>2 DEF RingInv, Holders
  <2> QED
    BY <2>1, <2>2
<1>6. OneResetter'
  BY <1>0, <1>2 DEF RingInv, OneResetter
<1>7. RenewedPast'
  BY <1>2, <1>3 DEF RingInv, RenewedPast
<1>8. SlotExact'
  <2> SUFFICES ASSUME NEW j \in Slots, Epoch(j) > 0, ~Resetting(vals["rpm"], j)'
               PROVE  Cnt(j)' = recorded'[Epoch(j)] - vanished[Epoch(j)]
    <3>1. ASSUME NEW j \in Slots PROVE epochs'[vals'["rpm"]][j] = Epoch(j)
      BY <1>0, <1>2 DEF Epoch
    <3> QED
      BY <1>0, <1>2, <3>1 DEF SlotExact, Cnt
  <2>1. \A k \in Slots : Cnt(k)' = IF k = i THEN Cnt(k) + 1 ELSE Cnt(k)
    <3>1. counts[w] \in [Slots -> Nat]
      BY <1>0 DEF RingType
    <3>2. counts'[w] = [counts[w] EXCEPT ![i] = @ + 1]
      BY <1>0, <1>2 DEF RingType
    <3>3. \A k \in Slots : counts'[w][k] = IF k = i THEN counts[w][k] + 1 ELSE counts[w][k]
      BY <1>0, <3>1, <3>2
    <3> QED
      BY <1>0, <3>3 DEF Cnt
  <2>2. ~Resetting(vals["rpm"], j)
    <3> SUFFICES ASSUME NEW h \in Goroutines, pc[h] = "zero", ptr[h] = vals["rpm"], SlotOf(at[h]) = j
                 PROVE  FALSE
      BY DEF Resetting
    <3>1. h # g
      BY <1>2
    <3>2. pc'[h] = "zero" /\ ptr'[h] = ptr[h] /\ at'[h] = at[h]
      BY <3>1, <1>0
    <3> QED
      BY <3>2, <1>0 DEF Resetting
  <2>3. Cnt(j) = recorded[Epoch(j)] - vanished[Epoch(j)]
    BY <1>0, <2>2 DEF RingInv, SlotExact, Cnt, Epoch
  <2>4. Epoch(j) \in Seconds
    <3>1. Epoch(j) \in Nat /\ Epoch(j) <= clock /\ clock <= MaxTime /\ clock \in Nat
      BY <1>0, EpochType DEF RingInv, EpochsRight, Timely
    <3> QED
      BY <3>1, MetricsAssumption DEF Seconds
  <2>5. CASE j = i
    <3>1. Cnt(j)' = Cnt(j) + 1 /\ recorded'[Epoch(j)] = recorded[Epoch(j)] + 1
      BY <2>1, <2>5, <1>0, <1>1, <1>2 DEF HistoryType
    <3>2. recorded[Epoch(j)] \in Nat /\ vanished[Epoch(j)] \in Nat
      BY <2>4, <1>0 DEF HistoryType
    <3> QED
      BY <3>1, <3>2, <2>3
  <2>6. CASE j # i
    <3>1. SlotOf(Epoch(j)) = j
      BY DEF RingInv, EpochsRight
    <3>2. Epoch(j) # t
      BY <3>1, <2>6
    <3>3. recorded'[Epoch(j)] = recorded[Epoch(j)]
      BY <3>2, <2>4, <1>0, <1>2 DEF HistoryType
    <3> QED
      BY <2>1, <2>3, <2>6, <3>3
  <2> QED
    BY <2>5, <2>6
<1> HIDE DEF i, t, w
<1> QED
  BY <1>4, <1>5, <1>6, <1>7, <1>8 DEF RingInv

LEMMA InitRing == Init => RingInv
<1> SUFFICES ASSUME Init PROVE RingInv
  OBVIOUS
<1>1. vals["rpm"] = None /\ renewed = {} /\ \A g \in Goroutines : pc[g] = "look"
  BY VecNames DEF Init
<1>2. \A i : Epoch(i) = 0
  BY <1>1 DEF Epoch
<1> QED
  BY <1>1, <1>2 DEF RingInv, EpochsRight, Holders, OneResetter, RenewedPast, SlotExact

LEMMA NextRing == BaseInv /\ RingInv /\ [Next]_vars => RingInv'
<1> SUFFICES ASSUME BaseInv, RingInv, [Next]_vars PROVE RingInv'
  OBVIOUS
<1>1. ASSUME NEW g \in Goroutines, Moves(g) PROVE RingInv'
  BY <1>1, RingQuiet, SwapFails, SwapWins, ZeroRing, CountRing
<1> QED
  BY <1>1, RingStill, StepCases

\* However many goroutines find the epoch of a slot out of date, one of them resets it, and
\* after that the slot has what is added for its second: a goroutine that is late never
\* takes it back to an earlier second, or adds to a later one (window.go:41-51).  The
\* argument rests on the bound of Tick, less than a turn of the ring between the reading
\* of the clock and the addition.
THEOREM SlotsExact == Spec => []SlotExact
<1>1. Spec => [](BaseInv /\ RingInv)
  BY InitBase, NextBase, InitRing, NextRing, PTL DEF Spec
<1>2. RingInv => SlotExact
  BY DEF RingInv
<1> QED
  BY <1>1, <1>2, PTL
-----------------------------------------------------------------------------
(***************************************************************************)
(* The rate.  While it goes round the ring the renderer has added no more  *)
(* than was recorded for the seconds of the window whose slots it has been *)
(* at: an epoch it has found to be in the window stays there.              *)
(***************************************************************************)
Window == {s \in Seconds : s > now - windowBuckets}
Passed(k) == [s \in Seconds |-> IF SlotOf(s) < k THEN recorded[s] ELSE 0]

RateInv ==
  /\ scrape \in {"idle", "bucket", "count", "clock"} => reading = 0 /\ ~stale
  /\ scrape \in {"epoch", "slot"} => Start <= now
  /\ scrape = "slot" /\ epochOK => Epoch(slot) >= Cutoff
  /\ scrape \in {"epoch", "slot", "done"} /\ ~stale
       => reading <= SumFunctionOnSet(Passed(slot), Window)

LEMMA SecondFacts ==
  /\ \A s \in Seconds : s \in Nat /\ SlotOf(s) \in Nat
  /\ \A T : T \subseteq Seconds => IsFiniteSet(T)
<1>1. \A s \in Seconds : s \in Nat
  BY MetricsAssumption DEF Seconds
<1>2. \A s \in Seconds : SlotOf(s) \in Nat
  BY <1>1, SlotFacts, MetricsAssumption DEF Slots
<1>3. IsFiniteSet(Seconds)
  BY FS_Interval, MetricsAssumption DEF Seconds
<1> QED
  BY <1>1, <1>2, <1>3, FS_Subset

\* More additions, or more slots: the sum does not go down.
LEMMA PassedGrows ==
  ASSUME NEW f \in [Seconds -> Nat], NEW g \in [Seconds -> Nat], \A s \in Seconds : f[s] <= g[s],
         NEW k \in Nat, NEW m \in Nat, k <= m, NEW T \in SUBSET Seconds
  PROVE  LET a == [s \in Seconds |-> IF SlotOf(s) < k THEN f[s] ELSE 0]
             b == [s \in Seconds |-> IF SlotOf(s) < m THEN g[s] ELSE 0]
         IN  /\ SumFunctionOnSet(a, T) <= SumFunctionOnSet(b, T)
             /\ SumFunctionOnSet(a, T) \in Nat /\ SumFunctionOnSet(b, T) \in Nat
             /\ SumFunctionOnSet(b, T) <= SumFunctionOnSet(g, T)
             /\ SumFunctionOnSet(g, T) \in Nat
<1> DEFINE a == [s \in Seconds |-> IF SlotOf(s) < k THEN f[s] ELSE 0]
           b == [s \in Seconds |-> IF SlotOf(s) < m THEN g[s] ELSE 0]
<1>1. \A s \in T : /\ a[s] \in Nat /\ b[s] \in Nat /\ g[s] \in Nat
                   /\ a[s] <= b[s] /\ b[s] <= g[s]
  <2> SUFFICES ASSUME NEW s \in T
               PROVE  a[s] \in Nat /\ b[s] \in Nat /\ g[s] \in Nat /\ a[s] <= b[s] /\ b[s] <= g[s]
    OBVIOUS
  <2>1. s \in Seconds /\ SlotOf(s) \in Nat /\ f[s] \in Nat /\ g[s] \in Nat /\ f[s] <= g[s]
    BY SecondFacts
  <2> QED
    BY <2>1
<1>2. IsFiniteSet(T)
  BY SecondFacts
<1> HIDE DEF a, b
<1>3. \A s \in T : a[s] \in Int /\ b[s] \in Int /\ g[s] \in Int
  BY <1>1
<1>4. SumFunctionOnSet(a, T) \in Nat /\ SumFunctionOnSet(b, T) \in Nat /\ SumFunctionOnSet(g, T) \in Nat
  BY <1>1, <1>2, SumAtLeast
<1>5. SumFunctionOnSet(a, T) <= SumFunctionOnSet(b, T)
  BY <1>1, <1>2, <1>3, SumMonotone
<1>6. SumFunctionOnSet(b, T) <= SumFunctionOnSet(g, T)
  BY <1>1, <1>2, <1>3, SumMonotone
<1> QED
  BY <1>4, <1>5, <1>6 DEF a, b

\* The next slot, with what was recorded for one second of it.
LEMMA PassedNext ==
  ASSUME NEW f \in [Seconds -> Nat], NEW k \in Nat, NEW T \in SUBSET Seconds, NEW e \in T,
         SlotOf(e) = k
  PROVE  LET a == [s \in Seconds |-> IF SlotOf(s) < k THEN f[s] ELSE 0]
             b == [s \in Seconds |-> IF SlotOf(s) < k + 1 THEN f[s] ELSE 0]
         IN  SumFunctionOnSet(a, T) + f[e] <= SumFunctionOnSet(b, T)
<1> DEFINE a == [s \in Seconds |-> IF SlotOf(s) < k THEN f[s] ELSE 0]
           b == [s \in Seconds |-> IF SlotOf(s) < k + 1 THEN f[s] ELSE 0]
           c == [s \in Seconds |-> IF s = e THEN f[e] ELSE a[s]]
<1>1. \A s \in Seconds : s \in Nat /\ SlotOf(s) \in Nat /\ f[s] \in Nat
  BY SecondFacts
<1>2. IsFiniteSet(T)
  BY SecondFacts
<1>3. \A s \in T : /\ a[s] \in Int /\ b[s] \in Int /\ c[s] \in Int
                   /\ c[s] <= b[s] /\ (s # e => a[s] = c[s])
  BY <1>1
<1>4. a[e] = 0 /\ c[e] = f[e] /\ f[e] \in Int
  BY <1>1
<1> HIDE DEF a, b, c
<1>5. SumFunctionOnSet(c, T) = SumFunctionOnSet(a, T) - a[e] + c[e]
  BY <1>2, <1>3, SumUpdate
<1>6. SumFunctionOnSet(c, T) <= SumFunctionOnSet(b, T)
  BY <1>2, <1>3, SumMonotone
<1>7. SumFunctionOnSet(a, T) \in Int /\ SumFunctionOnSet(b, T) \in Int
  BY <1>2, <1>3, SumType
<1>8. SumFunctionOnSet(a, T) + f[e] <= SumFunctionOnSet(b, T)
  BY <1>4, <1>5, <1>6, <1>7
<1> QED
  BY <1>8 DEF a, b

\* Epochs and recorded additions only grow.
LEMMA EpochGrows ==
  ASSUME BaseInv, RingInv, [Next]_vars
  PROVE  \A i \in Slots : Epoch(i)' \in Nat /\ Epoch(i) \in Nat /\ Epoch(i) <= Epoch(i)'
<1>0. LocalInv /\ RingType /\ Timely /\ LocalInv' /\ RingType'
  BY NextBase DEF BaseInv
<1> SUFFICES ASSUME NEW i \in Slots PROVE Epoch(i)' \in Nat /\ Epoch(i) \in Nat /\ Epoch(i) <= Epoch(i)'
  OBVIOUS
<1>1. Epoch(i) \in Nat
  BY <1>0, EpochType
<1>2. CASE epochs' = epochs
  BY <1>0, <1>1, <1>2, EpochStays
<1>3. ASSUME NEW g \in Goroutines, AddSwap(g), epochs' # epochs PROVE Epoch(i)' \in Nat /\ Epoch(i) <= Epoch(i)'
  <2> DEFINE j == SlotOf(at[g])
             w == ptr[g]
  <2>1. Active(g) /\ w = vals["rpm"] /\ w # None /\ w \in Goroutines /\ vals' = vals /\ j \in Slots
        /\ at[g] \in Nat
    BY <1>3, RingFrame
  <2>2. epochs' = [epochs EXCEPT ![w][j] = at[g]]
    BY <1>3 DEF AddSwap
  <2>3. epochs[w] \in [Slots -> Nat] /\ epochs'[w] = [epochs[w] EXCEPT ![j] = at[g]]
    BY <1>0, <2>1, <2>2 DEF RingType
  <2>4. Epoch(i)' = IF i = j THEN at[g] ELSE Epoch(i)
    BY <2>1, <2>3 DEF Epoch
  <2>5. Epoch(j) <= at[g]
    BY <1>0, <2>1, NotAhead DEF RingInv
  <2> QED
    BY <1>1, <2>1, <2>4, <2>5
<1>4. CASE epochs' # epochs
  <2>1. \E g \in Goroutines : AddSwap(g)
    BY <1>4, StepCases, RenderLocal, InstrumentFrames DEF vars, cells, Moves
  <2> QED
    BY <1>1, <1>3, <1>4, <2>1
<1> QED
  BY <1>2, <1>4, <1>1

LEMMA RecordedGrows ==
  ASSUME BaseInv, RingInv, [Next]_vars
  PROVE  recorded \in [Seconds -> Nat] /\ recorded' \in [Seconds -> Nat]
         /\ \A s \in Seconds : recorded[s] <= recorded'[s]
<1>1. recorded \in [Seconds -> Nat] /\ recorded' \in [Seconds -> Nat]
  BY NextBase DEF BaseInv, HistoryType
<1>2. CASE recorded' = recorded
  BY <1>1, <1>2
<1>3. ASSUME NEW g \in Goroutines, AddCount(g) PROVE \A s \in Seconds : recorded[s] <= recorded'[s]
  BY <1>1, <1>3 DEF AddCount
<1>4. CASE recorded' # recorded
  <2>1. \E g \in Goroutines : AddCount(g)
    BY <1>4, StepCases, RenderLocal, InstrumentFrames DEF vars, history, Moves
  <2> QED
    BY <1>1, <1>3, <2>1
<1> QED
  BY <1>1, <1>2, <1>4

\* The renderer reads a slot.
LEMMA RateSlot ==
  ASSUME BaseInv, RingInv, RateInv, RenderSlot
  PROVE  /\ ~stale' => reading' <= SumFunctionOnSet(Passed(slot + 1), Window)
         /\ scrape' \in {"epoch", "done"} /\ slot' = slot + 1
         /\ scrape' = "epoch" => Start <= now
<1> DEFINE w == vals["rpm"]
<1>0. /\ LocalInv /\ RingType /\ Timely /\ HistoryType
      /\ w # None /\ slot \in Slots /\ slot \in Nat /\ reading \in Nat /\ now \in Nat /\ Start <= now
      /\ scrape = "slot"
  BY MetricsAssumption DEF BaseInv, RenderInv, RenderType, RenderPlace, RenderSlot, Slots, RateInv
<1>1. /\ reading' = IF epochOK THEN reading + counts[w][slot] ELSE reading
      /\ stale' = (stale \/ Resetting(w, slot))
      /\ scrape' \in {"epoch", "done"} /\ slot' = slot + 1
  BY DEF RenderSlot
<1>2. recorded \in [Seconds -> Nat] /\ Window \subseteq Seconds
  BY <1>0 DEF HistoryType, Window
<1>3. ASSUME ~stale' PROVE reading' <= SumFunctionOnSet(Passed(slot + 1), Window)
  <2>0. ~stale /\ ~Resetting(w, slot)
    BY <1>1, <1>3
  <2>1. reading <= SumFunctionOnSet(Passed(slot), Window)
    BY <1>0, <2>0 DEF RateInv
  <2>2. /\ SumFunctionOnSet(Passed(slot), Window) <= SumFunctionOnSet(Passed(slot + 1), Window)
        /\ SumFunctionOnSet(Passed(slot), Window) \in Nat
        /\ SumFunctionOnSet(Passed(slot + 1), Window) \in Nat
    <3>1. slot + 1 \in Nat /\ slot <= slot + 1
      BY <1>0
    <3>2. \A s \in Seconds : recorded[s] <= recorded[s]
      BY <1>2
    <3> QED
      BY <1>0, <1>2, <3>1, <3>2, PassedGrows DEF Passed
  <2>3. CASE ~epochOK
    BY <2>1, <2>2, <2>3, <1>0, <1>1
  <2>4. CASE epochOK
    <3> DEFINE e == Epoch(slot)
    <3>1. e \in Nat /\ e >= now - windowBuckets + 1
      BY <1>0, <2>4, EpochType DEF RateInv, Cutoff
    <3>2. e > 0 /\ e > now - windowBuckets
      BY <1>0, <3>1, MetricsAssumption
    <3>3. SlotOf(e) = slot /\ e <= clock /\ clock <= MaxTime /\ clock \in Nat
      BY <1>0, <3>2 DEF RingInv, EpochsRight, Timely
    <3>4. e \in Window
      BY <3>1, <3>2, <3>3, MetricsAssumption DEF Window, Seconds
    <3>5. Cnt(slot) = recorded[e] - vanished[e]
      BY <1>0, <2>0, <3>2 DEF RingInv, SlotExact, Cnt, Epoch
    <3>6. recorded[e] \in Nat /\ vanished[e] \in Nat
      BY <1>0, <3>4 DEF HistoryType, Window
    <3>7. reading' = reading + Cnt(slot) /\ Cnt(slot) \in Nat
      BY <1>0, <1>1, <2>4, EpochType DEF Cnt
    <3> HIDE DEF e
    <3>8. SumFunctionOnSet(Passed(slot), Window) + recorded[e] <= SumFunctionOnSet(Passed(slot + 1), Window)
      BY <1>0, <1>2, <3>3, <3>4, PassedNext DEF Passed
    <3> QED
      BY <1>0, <2>1, <2>2, <3>5, <3>6, <3>7, <3>8
  <2> QED
    BY <2>3, <2>4
<1> QED
  BY <1>0, <1>1, <1>3
\* Whatever the goroutines and the clock do, the renderer's sum stays within its bound.
LEMMA RateKept ==
  ASSUME BaseInv, RingInv, RateInv, [Next]_vars, UNCHANGED renderer
  PROVE  RateInv'
<1>0. /\ scrape \in ScrapeSteps /\ slot \in Nat /\ reading \in Nat
      /\ scrape = "slot" => slot \in Slots
  BY MetricsAssumption DEF BaseInv, RenderInv, RenderType, RenderPlace, Slots
<1>1. UNCHANGED <<scrape, slot, now, reading, epochOK, stale>>
  BY DEF renderer
<1>2. scrape = "slot" /\ epochOK => Epoch(slot)' >= Cutoff'
  <2> SUFFICES ASSUME scrape = "slot", epochOK PROVE Epoch(slot)' >= Cutoff'
    OBVIOUS
  <2>1. Epoch(slot) >= Cutoff /\ Cutoff' = Cutoff /\ Cutoff \in Int
    BY <1>1, MetricsAssumption DEF RateInv, Cutoff, BaseInv, RenderInv, RenderType
  <2>2. PICK k \in Slots : k = slot
    BY <1>0
  <2>3. Epoch(k)' \in Nat /\ Epoch(k) \in Nat /\ Epoch(k) <= Epoch(k)'
    BY EpochGrows
  <2>4. Epoch(slot)' = Epoch(k)'
    BY <1>1, <2>2
  <2> QED
    BY <2>1, <2>2, <2>3, <2>4
<1>3. SumFunctionOnSet(Passed(slot), Window) <= SumFunctionOnSet(Passed(slot), Window)'
      /\ SumFunctionOnSet(Passed(slot), Window) \in Nat
      /\ SumFunctionOnSet(Passed(slot), Window)' \in Nat
  <2>1. /\ recorded \in [Seconds -> Nat] /\ recorded' \in [Seconds -> Nat]
        /\ \A s \in Seconds : recorded[s] <= recorded'[s]
    BY RecordedGrows
  <2>2. Window \in SUBSET Seconds /\ Window' = Window /\ slot' = slot /\ slot <= slot
    BY <1>0, <1>1 DEF Window
  <2>3. PICK f \in [Seconds -> Nat] : f = recorded'
    BY <2>1
  <2>4. \A s \in Seconds : recorded[s] <= f[s]
    BY <2>1, <2>3
  <2> DEFINE a == [s \in Seconds |-> IF SlotOf(s) < slot THEN recorded[s] ELSE 0]
             b == [s \in Seconds |-> IF SlotOf(s) < slot THEN f[s] ELSE 0]
  <2>5. /\ SumFunctionOnSet(a, Window) <= SumFunctionOnSet(b, Window)
        /\ SumFunctionOnSet(a, Window) \in Nat /\ SumFunctionOnSet(b, Window) \in Nat
    <3>1. recorded \in [Seconds -> Nat] /\ slot \in Nat /\ slot <= slot /\ Window \in SUBSET Seconds
      BY <1>0, <2>1, <2>2
    <3>2. \A s \in Window : a[s] \in Nat /\ b[s] \in Nat /\ a[s] <= b[s]
      <4> SUFFICES ASSUME NEW s \in Window PROVE a[s] \in Nat /\ b[s] \in Nat /\ a[s] <= b[s]
        OBVIOUS
      <4>1. s \in Seconds /\ SlotOf(s) \in Nat /\ recorded[s] \in Nat /\ f[s] \in Nat
        BY <3>1, SecondFacts
      <4> QED
        BY <3>1, <4>1, <2>4
    <3>3. IsFiniteSet(Window)
      BY <3>1, SecondFacts
    <3> HIDE DEF a, b
    <3>4. \A s \in Window : a[s] \in Int /\ b[s] \in Int /\ a[s] <= b[s]
      BY <3>2
    <3>5. SumFunctionOnSet(a, Window) <= SumFunctionOnSet(b, Window)
      BY <3>3, <3>4, SumMonotone
    <3> QED
      BY <3>2, <3>3, <3>5, SumAtLeast
  <2>6. Passed(slot)' = [s \in Seconds |-> IF SlotOf(s) < slot THEN f[s] ELSE 0]
    BY <2>2, <2>3 DEF Passed
  <2>7. SumFunctionOnSet(Passed(slot), Window)' = SumFunctionOnSet(Passed(slot)', Window')
    OBVIOUS
  <2> QED
    BY <2>2, <2>5, <2>6, <2>7 DEF Passed
<1>4. scrape \in {"epoch", "slot", "done"} /\ ~stale
        => reading <= SumFunctionOnSet(Passed(slot), Window)'
  BY <1>0, <1>3 DEF RateInv
<1> QED
  BY <1>1, <1>2, <1>4 DEF RateInv

LEMMA InitRate == Init => RateInv
BY DEF Init, RateInv

LEMMA NextRate == BaseInv /\ RingInv /\ RateInv /\ [Next]_vars => RateInv'
<1> SUFFICES ASSUME BaseInv, RingInv, RateInv, [Next]_vars PROVE RateInv'
  OBVIOUS
<1>0. HistoryType /\ Timely /\ RenderType
  BY DEF BaseInv, RenderInv
<1>1. CASE UNCHANGED vars
  BY <1>1, RateKept DEF vars
<1>2. CASE Tick
  BY <1>2, RateKept DEF Tick
<1>3. ASSUME NEW g \in Goroutines, Moves(g) PROVE RateInv'
  BY <1>3, InstrumentFrames, RateKept DEF Moves
<1>4. CASE RenderCounter \/ RenderBucket \/ RenderCount
  <2>1. /\ scrape \in {"idle", "bucket", "count"} /\ scrape' \in {"bucket", "count", "clock"}
        /\ reading' = reading /\ stale' = stale
    BY <1>4 DEF RenderCounter, RenderBucket, RenderCount
  <2> QED
    BY <2>1 DEF RateInv
<1>5. CASE RenderClock
  <2>1. /\ scrape = "clock" /\ scrape' \in {"done", "epoch"} /\ now' = clock
        /\ reading' = reading /\ stale' = stale /\ slot' = 0 /\ recorded' = recorded
    BY <1>5 DEF RenderClock, history
  <2>2. reading' = 0 /\ Start <= now'
    BY <2>1, <1>0 DEF RateInv, Timely
  <2>3. SumFunctionOnSet(Passed(slot), Window)' \in Nat
    <3>1. PICK T \in SUBSET Seconds : T = Window'
      BY DEF Window
    <3>2. recorded \in [Seconds -> Nat] /\ (\A s \in Seconds : recorded[s] <= recorded[s]) /\ 0 <= 0
      BY <1>0 DEF HistoryType
    <3>3. SumFunctionOnSet([s \in Seconds |-> IF SlotOf(s) < 0 THEN recorded[s] ELSE 0], T) \in Nat
      BY <3>2, PassedGrows
    <3>4. Passed(slot)' = [s \in Seconds |-> IF SlotOf(s) < 0 THEN recorded[s] ELSE 0]
      BY <2>1 DEF Passed
    <3>5. SumFunctionOnSet(Passed(slot), Window)' = SumFunctionOnSet(Passed(slot)', Window')
      OBVIOUS
    <3> QED
      BY <3>1, <3>3, <3>4, <3>5
  <2> QED
    BY <2>1, <2>2, <2>3 DEF RateInv
<1>6. CASE RenderEpoch
  <2>1. /\ scrape = "epoch" /\ scrape' = "slot" /\ epochOK' = (epochs[vals["rpm"]][slot] >= Cutoff)
        /\ UNCHANGED <<now, reading, stale, slot, recorded, vals, epochs>>
    BY <1>6 DEF RenderEpoch, history, cells
  <2>2. Epoch(slot) = epochs[vals["rpm"]][slot]
    BY <2>1 DEF BaseInv, RenderInv, RenderPlace, Epoch
  <2>3. Epoch(slot)' = Epoch(slot) /\ Cutoff' = Cutoff
    BY <2>1 DEF Epoch, Cutoff
  <2>4. SumFunctionOnSet(Passed(slot), Window)' = SumFunctionOnSet(Passed(slot), Window)
    BY <2>1 DEF Passed, Window
  <2> QED
    BY <2>1, <2>2, <2>3, <2>4 DEF RateInv
<1>7. CASE RenderSlot
  <2>1. /\ ~stale' => reading' <= SumFunctionOnSet(Passed(slot + 1), Window)
        /\ scrape' \in {"epoch", "done"} /\ slot' = slot + 1
        /\ scrape' = "epoch" => Start <= now
    BY <1>7, RateSlot
  <2>2. UNCHANGED <<now, recorded>>
    BY <1>7 DEF RenderSlot, history
  <2>3. SumFunctionOnSet(Passed(slot), Window)' = SumFunctionOnSet(Passed(slot + 1), Window)
    BY <2>1, <2>2 DEF Passed, Window
  <2> QED
    BY <2>1, <2>2, <2>3 DEF RateInv
<1>8. CASE RenderDone
  BY <1>8 DEF RenderDone, RateInv
<1> QED
  BY <1>1, <1>2, <1>3, <1>4, <1>5, <1>6, <1>7, <1>8, StepCases DEF Render

\* A rate that no slot was read for in the middle of its reset counts no request of before
\* the last windowBuckets seconds, although the epoch and the count of a slot are read in
\* two steps and the goroutines go on in between (window.go:55-65).
THEOREM RateHolds == Spec => []RateWithinWindow
<1>1. Spec => [](BaseInv /\ RingInv /\ RateInv)
  BY InitBase, NextBase, InitRing, NextRing, InitRate, NextRate, PTL DEF Spec
<1>2. BaseInv /\ RateInv => RateWithinWindow
  <2> SUFFICES ASSUME BaseInv, RateInv, scrape = "done", ~stale
               PROVE  reading <= SumFunctionOnSet(recorded, Window)
    BY DEF RateWithinWindow, Window
  <2>1. reading <= SumFunctionOnSet(Passed(slot), Window)
    BY DEF RateInv
  <2>2. recorded \in [Seconds -> Nat] /\ Window \in SUBSET Seconds /\ slot \in Nat /\ slot <= slot
        /\ (\A s \in Seconds : recorded[s] <= recorded[s]) /\ reading \in Nat
    BY DEF BaseInv, HistoryType, Window, RenderInv, RenderType
  <2>3. /\ SumFunctionOnSet(Passed(slot), Window) <= SumFunctionOnSet(recorded, Window)
        /\ SumFunctionOnSet(Passed(slot), Window) \in Nat /\ SumFunctionOnSet(recorded, Window) \in Nat
    BY <2>2, PassedGrows DEF Passed
  <2> QED
    BY <2>1, <2>2, <2>3
<1> QED
  BY <1>1, <1>2, PTL
-----------------------------------------------------------------------------
(***************************************************************************)
(* The histogram.  Its three parts and requests_total differ by what the   *)
(* goroutines between two of the additions have still to add.              *)
(***************************************************************************)
Bucketed(w) == SumFunctionOnSet(bucket[w], 0 .. Bounds)
Weights(w) == [b \in 0 .. Bounds |-> b * bucket[w][b]]
Weighted(w) == SumFunctionOnSet(Weights(w), 0 .. Bounds)

Uncounted == {g \in Goroutines : op[g] = "lat" /\ pc[g] # "sum"}
Awaiting(w) == {g \in Goroutines : pc[g] = "total" /\ ptr[g] = w}
Owed(w) == [g \in Goroutines |-> IF pc[g] \in {"total", "sum"} /\ ptr[g] = w THEN old[g] ELSE 0]

CountedBoth == Shown(vals["req"], counter) = Shown(vals["lat"], total) + Cardinality(Uncounted)
CountedIn == \A w \in Goroutines : Bucketed(w) = total[w] + Cardinality(Awaiting(w))
SummedUp == \A w \in Goroutines : Weighted(w) = sum[w] + SumFunctionOnSet(Owed(w), Goroutines)

PartsInv == CountedBoth /\ CountedIn /\ SummedUp

LEMMA BucketSet == IsFiniteSet(0 .. Bounds) /\ \A b \in 0 .. Bounds : b \in Nat
BY FS_Interval, MetricsAssumption

LEMMA SumWhole ==
  ASSUME NEW f
  PROVE  SumFunction(f) = SumFunctionOnSet(f, DOMAIN f)
BY DEF SumFunction

LEMMA PartsFinite ==
  /\ IsFiniteSet(Uncounted) /\ Cardinality(Uncounted) \in Nat
  /\ \A w : /\ IsFiniteSet(Awaiting(w)) /\ Cardinality(Awaiting(w)) \in Nat
            /\ Cardinality(Awaiting(w)) <= Cardinality(Goroutines)
<1>1. Uncounted \in SUBSET Goroutines /\ \A w : Awaiting(w) \in SUBSET Goroutines
  BY DEF Uncounted, Awaiting
<1>2. IsFiniteSet(Goroutines)
  BY MetricsAssumption
<1> QED
  BY <1>1, <1>2, FS_Subset, FS_CardinalityType

LEMMA PartsTypes ==
  ASSUME BaseInv, NEW w \in Goroutines
  PROVE  /\ Bucketed(w) \in Nat /\ Weighted(w) \in Int /\ total[w] \in Nat /\ sum[w] \in Nat
         /\ \A g \in Goroutines : Owed(w)[g] \in Nat
         /\ SumFunctionOnSet(Owed(w), Goroutines) \in Nat
         /\ \A b \in 0 .. Bounds : bucket[w][b] \in Nat /\ Weights(w)[b] \in Int
<1>1. \A b \in 0 .. Bounds : b \in Nat /\ bucket[w][b] \in Nat
  BY BucketSet DEF BaseInv, HistogramType
<1>2. \A b \in 0 .. Bounds : Weights(w)[b] \in Int
  <2>1. \A x, y \in Nat : x * y \in Int
    OBVIOUS
  <2> QED
    BY <1>1, <2>1 DEF Weights
<1>3. \A g \in Goroutines : Owed(w)[g] \in Nat
  BY DEF Owed, BaseInv, Timely
<1>4. Bucketed(w) \in Nat
  BY <1>1, BucketSet, SumAtLeast DEF Bucketed
<1>5. Weighted(w) \in Int
  BY <1>2, BucketSet, SumType DEF Weighted
<1>6. SumFunctionOnSet(Owed(w), Goroutines) \in Nat
  BY <1>3, SumAtLeast, MetricsAssumption
<1> QED
  BY <1>1, <1>2, <1>3, <1>4, <1>5, <1>6 DEF BaseInv, HistogramType

\* Where a goroutine is in Observe after a step that is none of counting.
Quiet(g) == ~CounterAdd(g) /\ ~(\E b \in 0 .. Bounds : ObserveBucket(g, b)) /\ ~ObserveTotal(g)
            /\ ~ObserveSum(g)

LEMMA PartQuiet ==
  ASSUME BaseInv, NEW g \in Goroutines, Moves(g), Quiet(g), NEW h \in Goroutines
  PROVE  /\ (op'[h] = "lat" /\ pc'[h] # "sum") <=> (op[h] = "lat" /\ pc[h] # "sum")
         /\ pc'[h] \in {"total", "sum"} <=> pc[h] \in {"total", "sum"}
         /\ pc[h] \in {"total", "sum"} => pc'[h] = pc[h] /\ ptr'[h] = ptr[h] /\ old'[h] = old[h]
<1>0. LocalInv /\ Timely
  BY DEF BaseInv
<1>1. CASE h # g
  <2>1. op'[h] = op[h] /\ pc'[h] = pc[h] /\ ptr'[h] = ptr[h] /\ old'[h] = old[h]
    BY <1>0, <1>1, OthersStay DEF Timely
  <2> QED
    BY <2>1
<1>2. CASE h = g
  <2> USE <1>0 DEF LocalInv, LocalType
  <2>1. CASE Look(g) \/ Create(g)
    <3>1. pc[g] \in {"look", "lock"} /\ pc'[g] \in {"lock", "clock", "add"} /\ op' = op
      BY <2>1 DEF Look, Create, Step, FirstStep
    <3> QED
      BY <3>1, <1>2
  <2>2. CASE Begin(g) \/ GaugeAdd(g) \/ AddCount(g)
    <3>1. op[g] # "lat" /\ op'[g] # "lat" /\ pc'[g] = "look"
      BY <2>2 DEF Begin, GaugeAdd, AddCount, Goto
    <3>2. pc[g] \notin {"total", "sum"}
      BY <3>1 DEF Places
    <3> QED
      BY <3>1, <3>2, <1>2
  <2>3. CASE AddClock(g) \/ AddLoad(g) \/ AddSwap(g) \/ AddZero(g)
    <3>1. pc[g] \in {"clock", "load", "cas", "zero"} /\ pc'[g] \in {"load", "cas", "zero", "add"}
          /\ op' = op
      BY <2>3 DEF AddClock, AddLoad, AddSwap, AddZero, Step
    <3> QED
      BY <3>1, <1>2
  <2> QED
    BY <2>1, <2>2, <2>3 DEF Moves, Instrument, Quiet
<1> QED
  BY <1>1, <1>2

\* The sums are the same when what they add up is.
LEMMA PartsKept ==
  ASSUME BaseInv, PartsInv, [Next]_vars, UNCHANGED <<counter, bucket, total, sum>>,
         Uncounted' = Uncounted, \A w \in Goroutines : Awaiting(w)' = Awaiting(w) /\ Owed(w)' = Owed(w)
  PROVE  PartsInv'
<1>1. CountedBoth'
  <2>1. Shown(vals'["req"], counter) = Shown(vals["req"], counter)
    BY ShownStays, VecNames DEF BaseInv, CounterType
  <2>2. Shown(vals'["lat"], total) = Shown(vals["lat"], total)
    BY ShownStays, VecNames DEF BaseInv, HistogramType
  <2> QED
    BY <2>1, <2>2 DEF PartsInv, CountedBoth
<1>2. CountedIn'
  BY DEF PartsInv, CountedIn, Bucketed
<1>3. SummedUp'
  BY DEF PartsInv, SummedUp, Weighted, Weights
<1> QED
  BY <1>1, <1>2, <1>3 DEF PartsInv

LEMMA PartsStill ==
  ASSUME BaseInv, PartsInv, [Next]_vars,
         UNCHANGED vars \/ Render \/ Tick \/ \E g \in Goroutines : Moves(g) /\ Quiet(g)
  PROVE  PartsInv'
<1>1. CASE UNCHANGED vars \/ Render \/ Tick
  <2>1. UNCHANGED <<op, pc, ptr, old, counter, bucket, total, sum>>
    BY <1>1, RenderLocal DEF vars, cells, local
  <2> QED
    BY <2>1, PartsKept DEF Uncounted, Awaiting, Owed
<1>2. ASSUME NEW g \in Goroutines, Moves(g), Quiet(g) PROVE PartsInv'
  <2>1. UNCHANGED <<counter, bucket, total, sum>>
    BY <1>2, InstrumentFrames DEF Moves, Quiet
  <2>2. \A h \in Goroutines :
          /\ (op'[h] = "lat" /\ pc'[h] # "sum") <=> (op[h] = "lat" /\ pc[h] # "sum")
          /\ pc'[h] \in {"total", "sum"} <=> pc[h] \in {"total", "sum"}
          /\ pc[h] \in {"total", "sum"} => pc'[h] = pc[h] /\ ptr'[h] = ptr[h] /\ old'[h] = old[h]
    BY <1>2, PartQuiet
  <2>3. Uncounted' = Uncounted
    BY <2>2 DEF Uncounted
  <2>4. \A w \in Goroutines : Awaiting(w)' = Awaiting(w)
    BY <2>2 DEF Awaiting
  <2>5. \A w \in Goroutines : Owed(w)' = Owed(w)
    BY <2>2 DEF Owed
  <2> QED
    BY <2>1, <2>3, <2>4, <2>5, PartsKept
<1> QED
  BY <1>1, <1>2
\* A goroutine in one of the four steps of counting: the others stay where they are.
LEMMA CountingFrame ==
  ASSUME BaseInv, NEW g \in Goroutines,
         CounterAdd(g) \/ (\E b \in 0 .. Bounds : ObserveBucket(g, b)) \/ ObserveTotal(g) \/ ObserveSum(g)
  PROVE  /\ LocalInv /\ Timely /\ HistogramType /\ CounterType /\ vals' = vals
         /\ ptr[g] \in Goroutines /\ ptr[g] # None
         /\ op[g] = "lat" => ptr[g] = vals["lat"]
         /\ op[g] = "req" => ptr[g] = vals["req"]
         /\ op[g] = IF CounterAdd(g) THEN "req" ELSE "lat"
         /\ \A h \in Goroutines : h # g =>
              op'[h] = op[h] /\ pc'[h] = pc[h] /\ ptr'[h] = ptr[h] /\ old'[h] = old[h]
<1>1. LocalInv /\ Timely /\ HistogramType /\ CounterType
  BY DEF BaseInv
<1>2. op[g] = IF CounterAdd(g) THEN "req" ELSE "lat"
  BY <1>1 DEF CounterAdd, ObserveBucket, ObserveTotal, ObserveSum, LocalInv, Places
<1>3. pc[g] \notin {"look", "lock"}
  BY DEF CounterAdd, ObserveBucket, ObserveTotal, ObserveSum
<1>4. ptr[g] = vals[VecOf(op[g])] /\ ptr[g] # None /\ ptr[g] \in Goroutines
  BY <1>1, <1>3 DEF LocalInv, LocalType, OwnCell
<1>5. vals' = vals
  BY DEF CounterAdd, ObserveBucket, ObserveTotal, ObserveSum
<1>6. Moves(g)
  BY DEF Moves, Instrument
<1>7. at \in [Goroutines -> Nat] /\ old \in [Goroutines -> Nat]
  BY <1>1 DEF Timely
<1> QED
  BY <1>1, <1>2, <1>4, <1>5, <1>6, <1>7, OthersStay DEF VecOf

LEMMA CounterAddParts ==
  ASSUME BaseInv, PartsInv, NEW g \in Goroutines, CounterAdd(g)
  PROVE  PartsInv'
<1>0. /\ LocalInv /\ CounterType /\ vals' = vals /\ ptr[g] \in Goroutines /\ ptr[g] # None
      /\ ptr[g] = vals["req"] /\ op[g] = "req"
      /\ \A h \in Goroutines : h # g =>
           op'[h] = op[h] /\ pc'[h] = pc[h] /\ ptr'[h] = ptr[h] /\ old'[h] = old[h]
  BY CountingFrame
<1>1. /\ counter' = [counter EXCEPT ![vals["req"]] = @ + 1] /\ UNCHANGED <<bucket, total, sum>>
      /\ pc[g] = "add" /\ op'[g] = "lat" /\ pc'[g] = "look"
  BY <1>0 DEF CounterAdd, Goto, LocalInv, LocalType
<1>2. CountedBoth'
  <2>1. Uncounted' = Uncounted \cup {g} /\ g \notin Uncounted
    BY <1>0, <1>1 DEF Uncounted
  <2>2. Cardinality(Uncounted') = Cardinality(Uncounted) + 1 /\ Cardinality(Uncounted) \in Nat
    BY <2>1, PartsFinite, FS_AddElement
  <2>3. Shown(vals["req"], counter)' = Shown(vals["req"], counter) + 1
    BY <1>0, <1>1 DEF Shown, CounterType
  <2>4. Shown(vals["lat"], total)' = Shown(vals["lat"], total) /\ Shown(vals["lat"], total) \in Nat
    BY <1>0, <1>1, VecNames DEF Shown, BaseInv, HistogramType, LocalInv, LocalType
  <2> QED
    BY <2>2, <2>3, <2>4 DEF PartsInv, CountedBoth
<1>3. \A w \in Goroutines : Awaiting(w)' = Awaiting(w) /\ Owed(w)' = Owed(w)
  <2> SUFFICES ASSUME NEW w \in Goroutines PROVE Awaiting(w)' = Awaiting(w) /\ Owed(w)' = Owed(w)
    OBVIOUS
  <2>1. Awaiting(w)' = Awaiting(w)
    BY <1>0, <1>1 DEF Awaiting
  <2>2. Owed(w)' = Owed(w)
    BY <1>0, <1>1 DEF Owed
  <2> QED
    BY <2>1, <2>2
<1>4. CountedIn'
  BY <1>1, <1>3 DEF PartsInv, CountedIn, Bucketed
<1>5. SummedUp'
  BY <1>1, <1>3 DEF PartsInv, SummedUp, Weighted, Weights
<1> QED
  BY <1>2, <1>4, <1>5 DEF PartsInv

LEMMA BucketParts ==
  ASSUME BaseInv, PartsInv, NEW g \in Goroutines, NEW b \in 0 .. Bounds, ObserveBucket(g, b)
  PROVE  PartsInv'
<1> DEFINE u == ptr[g]
<1>0. /\ LocalInv /\ HistogramType /\ Timely /\ vals' = vals /\ u \in Goroutines /\ op[g] = "lat"
      /\ \A h \in Goroutines : h # g =>
           op'[h] = op[h] /\ pc'[h] = pc[h] /\ ptr'[h] = ptr[h] /\ old'[h] = old[h]
  <2>1. ~CounterAdd(g)
    BY DEF CounterAdd, ObserveBucket
  <2> QED
    BY <2>1, CountingFrame
<1>1. /\ bucket' = [bucket EXCEPT ![u][b] = @ + 1] /\ UNCHANGED <<counter, total, sum, op, ptr>>
      /\ pc[g] = "add" /\ pc'[g] = "total" /\ old'[g] = b
  BY <1>0 DEF ObserveBucket, Step, LocalInv, LocalType, Timely
<1>2. CountedBoth'
  <2>1. Uncounted' = Uncounted
    BY <1>0, <1>1 DEF Uncounted
  <2> QED
    BY <1>0, <1>1, <2>1 DEF PartsInv, CountedBoth, Shown
<1>3. /\ bucket[u] \in [0 .. Bounds -> Nat] /\ bucket'[u] = [bucket[u] EXCEPT ![b] = @ + 1]
      /\ \A w \in Goroutines : w # u => bucket'[w] = bucket[w]
  BY <1>0, <1>1 DEF HistogramType
<1>4. \A w \in Goroutines : w # u => Awaiting(w)' = Awaiting(w) /\ Owed(w)' = Owed(w)
  <2> SUFFICES ASSUME NEW w \in Goroutines, w # u PROVE Awaiting(w)' = Awaiting(w) /\ Owed(w)' = Owed(w)
    OBVIOUS
  <2>1. Awaiting(w)' = Awaiting(w)
    BY <1>0, <1>1 DEF Awaiting
  <2>2. Owed(w)' = Owed(w)
    BY <1>0, <1>1 DEF Owed
  <2> QED
    BY <2>1, <2>2
<1>5. b \in Nat /\ IsFiniteSet(0 .. Bounds)
  BY BucketSet
<1>6. PICK f \in [0 .. Bounds -> Nat] : f = bucket'[u]
  <2>1. \A x \in [0 .. Bounds -> Nat] : [x EXCEPT ![b] = @ + 1] \in [0 .. Bounds -> Nat]
    OBVIOUS
  <2> QED
    BY <1>3, <2>1
<1>7. f[b] = bucket[u][b] + 1 /\ \A x \in 0 .. Bounds : x # b => bucket[u][x] = f[x]
  BY <1>3, <1>6
<1>8. CountedIn'
  <2> SUFFICES ASSUME NEW w \in Goroutines PROVE Bucketed(w)' = total[w] + Cardinality(Awaiting(w)')
    BY <1>1 DEF CountedIn
  <2>0. Bucketed(w) = total[w] + Cardinality(Awaiting(w))
    BY DEF PartsInv, CountedIn
  <2>1. CASE w # u
    BY <2>0, <2>1, <1>3, <1>4 DEF Bucketed
  <2>2. CASE w = u
    <3>1. Awaiting(u)' = Awaiting(u) \cup {g} /\ g \notin Awaiting(u)
      BY <1>0, <1>1 DEF Awaiting
    <3>2. Cardinality(Awaiting(u)') = Cardinality(Awaiting(u)) + 1 /\ Cardinality(Awaiting(u)) \in Nat
      BY <3>1, PartsFinite, FS_AddElement
    <3>3. SumFunctionOnSet(f, 0 .. Bounds) = SumFunctionOnSet(bucket[u], 0 .. Bounds) - bucket[u][b] + f[b]
      <4>1. \A x \in 0 .. Bounds : bucket[u][x] \in Nat /\ f[x] \in Nat
        BY <1>3, <1>6
      <4>2. DifferAt(bucket[u], f, 0 .. Bounds, b)
        BY <4>1, <1>5, <1>7 DEF DifferAt
      <4>3. PICK k : k = bucket[u]
        OBVIOUS
      <4>4. PICK m : m = f
        OBVIOUS
      <4>5. DifferAt(k, m, 0 .. Bounds, b)
        BY <4>2, <4>3, <4>4
      <4>6. SumFunctionOnSet(m, 0 .. Bounds) = SumFunctionOnSet(k, 0 .. Bounds) - k[b] + m[b]
        BY <4>5, SumDiffer
      <4> QED
        BY <4>3, <4>4, <4>6
    <3>4. Bucketed(u)' = Bucketed(u) + 1
      <4>1. Bucketed(u)' = SumFunctionOnSet(f, 0 .. Bounds)
        BY <1>1, <1>6 DEF Bucketed
      <4>2. bucket[u][b] \in Nat /\ Bucketed(u) \in Nat
        BY <1>0, <1>3, PartsTypes
      <4> HIDE DEF u
      <4> QED
        BY <4>1, <4>2, <3>3, <1>7 DEF Bucketed
    <3>5. Bucketed(w)' = Bucketed(u)' /\ Awaiting(w)' = Awaiting(u)'
      BY <2>2, <1>1
    <3>6. total[u] \in Nat
      BY <1>0 DEF HistogramType
    <3> HIDE DEF u
    <3> QED
      BY <2>0, <2>2, <3>2, <3>4, <3>5, <3>6
  <2> QED
    BY <2>1, <2>2
<1>9. SummedUp'
  <2> SUFFICES ASSUME NEW w \in Goroutines
               PROVE  Weighted(w)' = sum[w] + SumFunctionOnSet(Owed(w)', Goroutines)
    BY <1>1 DEF SummedUp
  <2>0. Weighted(w) = sum[w] + SumFunctionOnSet(Owed(w), Goroutines)
    BY DEF PartsInv, SummedUp
  <2>1. CASE w # u
    BY <2>0, <2>1, <1>3, <1>4 DEF Weighted, Weights
  <2>2. CASE w = u
    <3> DEFINE p == [x \in 0 .. Bounds |-> x * f[x]]
               q == [h \in Goroutines |-> IF h = g THEN b ELSE Owed(u)[h]]
    <3>1. Owed(u)' = q /\ Owed(u)[g] = 0
      BY <1>0, <1>1 DEF Owed
    <3>2. SumFunctionOnSet(q, Goroutines) = SumFunctionOnSet(Owed(u), Goroutines) - Owed(u)[g] + q[g]
      <4>1. \A h \in Goroutines : Owed(u)[h] \in Int /\ q[h] \in Int
        BY <1>0, <1>5, PartsTypes
      <4>2. \A h \in Goroutines : h # g => Owed(u)[h] = q[h]
        OBVIOUS
      <4> HIDE DEF q, u
      <4>3. DifferAt(Owed(u), q, Goroutines, g)
        BY <4>1, <4>2, MetricsAssumption DEF DifferAt
      <4> QED
        BY <4>3, SumDiffer
    <3>3. \A x \in 0 .. Bounds : /\ Weights(u)[x] \in Int /\ p[x] \in Int
                                 /\ (x # b => Weights(u)[x] = p[x])
      <4> SUFFICES ASSUME NEW x \in 0 .. Bounds
                   PROVE  Weights(u)[x] \in Int /\ p[x] \in Int /\ (x # b => Weights(u)[x] = p[x])
        OBVIOUS
      <4>1. Weights(u)[x] \in Int
        BY <1>0, PartsTypes
      <4>2. x \in Nat /\ f[x] \in Nat
        BY BucketSet
      <4>3. p[x] = x * f[x] /\ Weights(u)[x] = x * bucket[u][x]
        BY DEF Weights
      <4>4. x * f[x] \in Int
        BY <4>2, SMT
      <4> QED
        BY <4>1, <4>3, <4>4, <1>7
    <3>4. p[b] = Weights(u)[b] + b
      <4>1. p[b] = b * f[b] /\ Weights(u)[b] = b * bucket[u][b]
        BY DEF Weights
      <4>2. \A y \in Nat : b * (y + 1) = b * y + b
        BY <1>5
      <4>3. bucket[u][b] \in Nat
        BY <1>3
      <4> QED
        BY <4>1, <4>2, <4>3, <1>7
    <3>5. SumFunctionOnSet(p, 0 .. Bounds) = SumFunctionOnSet(Weights(u), 0 .. Bounds) - Weights(u)[b] + p[b]
      <4> HIDE DEF p, u
      <4>1. DifferAt(Weights(u), p, 0 .. Bounds, b)
        BY <3>3, <1>5 DEF DifferAt
      <4> QED
        BY <4>1, SumDiffer
    <3>6. Weighted(u)' = SumFunctionOnSet(p, 0 .. Bounds)
      BY <1>1, <1>6 DEF Weighted, Weights
    <3>7. Weighted(w)' = Weighted(u)' /\ Owed(w)' = Owed(u)'
      BY <2>2, <1>1
    <3>8. /\ sum[u] \in Nat /\ SumFunctionOnSet(Owed(u), Goroutines) \in Nat /\ Weighted(u) \in Int
          /\ Weights(u)[b] \in Int /\ q[g] = b
      BY <1>0, PartsTypes
    <3> HIDE DEF p, q, u
    <3>9. Weighted(u)' = Weighted(u) + b
      BY <3>4, <3>5, <3>6, <3>8, <1>5 DEF Weighted
    <3>10. SumFunctionOnSet(Owed(u)', Goroutines) = SumFunctionOnSet(Owed(u), Goroutines) + b
      BY <3>1, <3>2, <3>8, <1>5
    <3> QED
      BY <2>0, <2>2, <3>7, <3>8, <3>9, <3>10, <1>5
  <2> QED
    BY <2>1, <2>2
<1> HIDE DEF u
<1> QED
  BY <1>2, <1>8, <1>9 DEF PartsInv
LEMMA TotalParts ==
  ASSUME BaseInv, PartsInv, NEW g \in Goroutines, ObserveTotal(g)
  PROVE  PartsInv'
<1> DEFINE u == ptr[g]
<1>0. /\ LocalInv /\ HistogramType /\ Timely /\ vals' = vals /\ u \in Goroutines /\ u # None
      /\ op[g] = "lat" /\ u = vals["lat"]
      /\ \A h \in Goroutines : h # g =>
           op'[h] = op[h] /\ pc'[h] = pc[h] /\ ptr'[h] = ptr[h] /\ old'[h] = old[h]
  <2>1. ~CounterAdd(g)
    BY DEF CounterAdd, ObserveTotal
  <2> QED
    BY <2>1, CountingFrame
<1>1. /\ total' = [total EXCEPT ![u] = @ + 1] /\ UNCHANGED <<counter, bucket, sum, op, ptr, old>>
      /\ pc[g] = "total" /\ pc'[g] = "sum"
  BY <1>0 DEF ObserveTotal, Step, LocalInv, LocalType
<1>2. total[u] \in Nat /\ total'[u] = total[u] + 1 /\ \A w \in Goroutines : w # u => total'[w] = total[w]
  BY <1>0, <1>1 DEF HistogramType
<1>3. CountedBoth'
  <2>1. Uncounted' = Uncounted \ {g} /\ g \in Uncounted
    BY <1>0, <1>1 DEF Uncounted
  <2>2. Cardinality(Uncounted') = Cardinality(Uncounted) - 1 /\ Cardinality(Uncounted) \in Nat
    BY <2>1, PartsFinite, FS_RemoveElement
  <2>3. Shown(vals["lat"], total) = total[u] /\ Shown(vals["lat"], total)' = total[u] + 1
    BY <1>0, <1>2 DEF Shown
  <2>4. Shown(vals["req"], counter)' = Shown(vals["req"], counter)
    BY <1>0, <1>1 DEF Shown
  <2>5. Shown(vals["req"], counter) = Shown(vals["lat"], total) + Cardinality(Uncounted)
    BY DEF PartsInv, CountedBoth
  <2> QED
    BY <1>2, <2>2, <2>3, <2>4, <2>5 DEF CountedBoth
<1>4. \A w \in Goroutines : Owed(w)' = Owed(w)
  BY <1>0, <1>1 DEF Owed
<1>5. SummedUp'
  BY <1>1, <1>4 DEF PartsInv, SummedUp, Weighted, Weights
<1>6. CountedIn'
  <2> SUFFICES ASSUME NEW w \in Goroutines PROVE Bucketed(w) = total'[w] + Cardinality(Awaiting(w)')
    BY <1>1 DEF CountedIn, Bucketed
  <2>0. Bucketed(w) = total[w] + Cardinality(Awaiting(w))
    BY DEF PartsInv, CountedIn
  <2>1. CASE w # u
    <3>1. Awaiting(w)' = Awaiting(w)
      BY <1>0, <1>1, <2>1 DEF Awaiting
    <3> QED
      BY <2>0, <2>1, <3>1, <1>2
  <2>2. CASE w = u
    <3>1. Awaiting(w)' = Awaiting(w) \ {g} /\ g \in Awaiting(w)
      BY <1>0, <1>1, <2>2 DEF Awaiting
    <3>2. Cardinality(Awaiting(w)') = Cardinality(Awaiting(w)) - 1 /\ Cardinality(Awaiting(w)) \in Nat
      BY <3>1, PartsFinite, FS_RemoveElement
    <3> QED
      BY <2>0, <2>2, <3>2, <1>2
  <2> QED
    BY <2>1, <2>2
<1> HIDE DEF u
<1> QED
  BY <1>3, <1>5, <1>6 DEF PartsInv

LEMMA SumParts ==
  ASSUME BaseInv, PartsInv, NEW g \in Goroutines, ObserveSum(g)
  PROVE  PartsInv'
<1> DEFINE u == ptr[g]
           n == old[g]
<1>0. /\ LocalInv /\ HistogramType /\ Timely /\ vals' = vals /\ u \in Goroutines
      /\ op[g] = "lat"
      /\ \A h \in Goroutines : h # g =>
           op'[h] = op[h] /\ pc'[h] = pc[h] /\ ptr'[h] = ptr[h] /\ old'[h] = old[h]
  <2>1. ~CounterAdd(g)
    BY DEF CounterAdd, ObserveSum
  <2> QED
    BY <2>1, CountingFrame
<1>1. /\ sum' = [sum EXCEPT ![u] = @ + n] /\ UNCHANGED <<counter, bucket, total>>
      /\ pc[g] = "sum" /\ pc'[g] = "look" /\ op'[g] = "rpm"
  BY <1>0 DEF ObserveSum, Goto, LocalInv, LocalType
<1>2. /\ sum[u] \in Nat /\ n \in Nat /\ sum'[u] = sum[u] + n
      /\ \A w \in Goroutines : w # u => sum'[w] = sum[w]
  BY <1>0, <1>1 DEF HistogramType, Timely
<1>3. CountedBoth'
  <2>1. Uncounted' = Uncounted
    BY <1>0, <1>1 DEF Uncounted
  <2> QED
    BY <1>0, <1>1, <2>1 DEF PartsInv, CountedBoth, Shown
<1>4. CountedIn'
  <2>1. \A w \in Goroutines : Awaiting(w)' = Awaiting(w)
    BY <1>0, <1>1 DEF Awaiting
  <2> QED
    BY <1>1, <2>1 DEF PartsInv, CountedIn, Bucketed
<1>5. SummedUp'
  <2> SUFFICES ASSUME NEW w \in Goroutines
               PROVE  Weighted(w) = sum'[w] + SumFunctionOnSet(Owed(w)', Goroutines)
    BY <1>1 DEF SummedUp, Weighted, Weights
  <2>0. Weighted(w) = sum[w] + SumFunctionOnSet(Owed(w), Goroutines)
    BY DEF PartsInv, SummedUp
  <2>1. CASE w # u
    <3>1. Owed(w)' = Owed(w)
      BY <1>0, <1>1, <2>1 DEF Owed
    <3> QED
      BY <2>0, <2>1, <3>1, <1>2
  <2>2. CASE w = u
    <3> DEFINE q == [h \in Goroutines |-> IF h = g THEN 0 ELSE Owed(w)[h]]
    <3>1. Owed(w)' = q /\ Owed(w)[g] = n
      BY <1>0, <1>1, <2>2 DEF Owed
    <3>2. \A h \in Goroutines : Owed(w)[h] \in Int /\ q[h] \in Int /\ (h # g => Owed(w)[h] = q[h])
      BY PartsTypes
    <3>3. q[g] = 0
      OBVIOUS
    <3> HIDE DEF q
    <3>4. DifferAt(Owed(w), q, Goroutines, g)
      BY <3>2, MetricsAssumption DEF DifferAt
    <3>5. SumFunctionOnSet(q, Goroutines) = SumFunctionOnSet(Owed(w), Goroutines) - Owed(w)[g] + q[g]
      BY <3>4, SumDiffer
    <3>6. SumFunctionOnSet(Owed(w), Goroutines) \in Nat
      BY PartsTypes
    <3>7. sum'[w] = sum[w] + n /\ sum[w] \in Nat
      BY <1>2, <2>2
    <3> HIDE DEF u, n
    <3>8. SumFunctionOnSet(q, Goroutines) = SumFunctionOnSet(Owed(w), Goroutines) - n
      BY <1>2, <3>1, <3>3, <3>5, <3>6
    <3> QED
      BY <2>0, <3>1, <3>6, <3>7, <3>8, <1>2
  <2> QED
    BY <2>1, <2>2
<1> HIDE DEF u, n
<1> QED
  BY <1>3, <1>4, <1>5 DEF PartsInv

LEMMA AllZero ==
  ASSUME NEW S, IsFiniteSet(S), NEW f, \A x \in S : f[x] = 0
  PROVE  SumFunctionOnSet(f, S) = 0
<1>1. SumFunctionOnSet(f, S) <= 0 * Cardinality({})
  <2>1. \A x \in S : f[x] \in Int /\ f[x] <= IF x \in {} THEN 0 ELSE 0
    OBVIOUS
  <2>2. {} \in SUBSET S /\ 0 \in Nat
    OBVIOUS
  <2> QED
    BY <2>1, <2>2, SumAtMost
<1>2. SumFunctionOnSet(f, S) \in Nat
  <2>1. \A x \in S : f[x] \in Nat
    OBVIOUS
  <2> QED
    BY <2>1, SumAtLeast
<1> QED
  BY <1>1, <1>2, FS_EmptySet

LEMMA InitParts == Init => PartsInv
<1> SUFFICES ASSUME Init PROVE PartsInv
  OBVIOUS
<1>0. BaseInv
  BY InitBase
<1>1. Uncounted = {} /\ \A w : Awaiting(w) = {}
  BY DEF Init, Uncounted, Awaiting
<1>2. CountedBoth
  BY <1>1, VecNames, FS_EmptySet DEF Init, CountedBoth, Shown
<1>3. ASSUME NEW w \in Goroutines PROVE Bucketed(w) = 0 /\ Weighted(w) = 0 /\ total[w] = 0 /\ sum[w] = 0
  <2>1. total[w] = 0 /\ sum[w] = 0 /\ bucket[w] = [b \in 0 .. Bounds |-> 0]
    BY DEF Init
  <2>2. \A b \in 0 .. Bounds : bucket[w][b] = 0 /\ Weights(w)[b] = 0
    <3>1. \A b \in 0 .. Bounds : bucket[w][b] = 0 /\ Weights(w)[b] = b * 0
      BY <2>1 DEF Weights
    <3>2. \A b \in Nat : b * 0 = 0
      OBVIOUS
    <3> QED
      BY <3>1, <3>2, BucketSet
  <2> QED
    BY <2>1, <2>2, AllZero, BucketSet DEF Bucketed, Weighted
<1>4. CountedIn
  BY <1>1, <1>3, FS_EmptySet DEF CountedIn
<1>5. SummedUp
  <2> SUFFICES ASSUME NEW w \in Goroutines PROVE Weighted(w) = sum[w] + SumFunctionOnSet(Owed(w), Goroutines)
    BY DEF SummedUp
  <2>1. \A g \in Goroutines : Owed(w)[g] = 0
    BY DEF Init, Owed
  <2>2. SumFunctionOnSet(Owed(w), Goroutines) = 0
    BY <2>1, AllZero, MetricsAssumption
  <2> QED
    BY <1>3, <2>2
<1> QED
  BY <1>2, <1>4, <1>5 DEF PartsInv

LEMMA NextParts == BaseInv /\ PartsInv /\ [Next]_vars => PartsInv'
<1> SUFFICES ASSUME BaseInv, PartsInv, [Next]_vars PROVE PartsInv'
  OBVIOUS
<1>1. ASSUME NEW g \in Goroutines, Moves(g) PROVE PartsInv'
  <2>1. CASE Quiet(g)
    BY <1>1, <2>1, PartsStill
  <2>2. CASE ~Quiet(g)
    BY <2>2, CounterAddParts, BucketParts, TotalParts, SumParts DEF Quiet
  <2> QED
    BY <2>1, <2>2
<1> QED
  BY <1>1, PartsStill, StepCases

\* The three additions of an Observe may interleave with those of others: whenever nobody
\* is between them the count, the buckets, the sum and requests_total agree
\* (metrics.go:152-169).
THEOREM HistogramHolds == Spec => []HistogramExact
<1>1. Spec => [](BaseInv /\ PartsInv)
  BY InitBase, NextBase, InitParts, NextParts, PTL DEF Spec
<1>2. BaseInv /\ PartsInv => HistogramExact
  <2> SUFFICES ASSUME BaseInv, PartsInv PROVE HistogramExact
    OBVIOUS
  <2> DEFINE w == vals["lat"]
  <2>1. ASSUME w # None, \A g \in Goroutines : ~InObserve(g)
        PROVE  /\ total[w] = Shown(vals["req"], counter)
                               - Cardinality({g \in Goroutines : op[g] = "lat"})
               /\ total[w] = SumFunction(bucket[w])
               /\ sum[w] = SumFunction([b \in 0 .. Bounds |-> b * bucket[w][b]])
    <3>1. w \in Goroutines
      BY <2>1, VecNames DEF BaseInv, LocalInv, LocalType
    <3>2. Uncounted = {g \in Goroutines : op[g] = "lat"} /\ Awaiting(w) = {}
      BY <2>1 DEF InObserve, Uncounted, Awaiting
    <3>3. SumFunctionOnSet(Owed(w), Goroutines) = 0
      <4>1. \A g \in Goroutines : Owed(w)[g] = 0
        BY <2>1 DEF Owed, InObserve
      <4> QED
        BY <4>1, AllZero, MetricsAssumption
    <3>4. Cardinality({}) = 0 /\ Cardinality(Uncounted) \in Nat
      BY FS_EmptySet, PartsFinite
    <3>5. total[w] \in Nat /\ sum[w] \in Nat /\ DOMAIN bucket[w] = 0 .. Bounds
      BY <3>1 DEF BaseInv, HistogramType
    <3>6. Shown(vals["req"], counter) = total[w] + Cardinality(Uncounted)
      BY <2>1 DEF PartsInv, CountedBoth, Shown
    <3>7. Bucketed(w) = total[w] + 0
      BY <3>1, <3>2, <3>4 DEF PartsInv, CountedIn
    <3>8. Weighted(w) = sum[w] + 0
      BY <3>1, <3>3 DEF PartsInv, SummedUp
    <3>9. SumFunction(bucket[w]) = Bucketed(w)
      BY <3>5, SumWhole DEF Bucketed
    <3>10. SumFunction([b \in 0 .. Bounds |-> b * bucket[w][b]]) = Weighted(w)
      <4>1. DOMAIN Weights(w) = 0 .. Bounds
        BY DEF Weights
      <4>2. SumFunction(Weights(w)) = Weighted(w)
        BY <4>1, SumWhole DEF Weighted
      <4> QED
        BY <4>2 DEF Weights
    <3> HIDE DEF w
    <3> QED
      BY <3>2, <3>4, <3>5, <3>6, <3>7, <3>8, <3>9, <3>10
  <2> QED
    BY <2>1 DEF HistogramExact
<1> QED
  BY <1>1, <1>2, PTL
=============================================================================
