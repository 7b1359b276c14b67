---------------------------- MODULE LedgerProofs ----------------------------
(***************************************************************************)
(* TokenLedger, for every number of responses, every budget, window,       *)
(* safety buffer and number of resends: its types, the balance of a ledger *)
(* while all calls succeed, and how far a window can be overspent.         *)
(***************************************************************************)
EXTENDS TokenLedger, Sums

\* Quotients of naturals.
LEMMA Quotient ==
  ASSUME NEW a \in Nat, NEW b \in Nat, NEW d \in Nat \ {0}, a <= b
  PROVE  a \div d \in Nat /\ b \div d \in Nat /\ a \div d <= b \div d
<1>1. \A x \in Nat : /\ x \div d \in Int /\ (x \div d) * d \in Int
                     /\ (x \div d) * d <= x /\ x < (x \div d) * d + d
  OBVIOUS
<1> DEFINE p == a \div d
           q == b \div d
<1>2. p \in Int /\ q \in Int /\ p * d \in Int /\ q * d \in Int /\ d \in Int
  BY <1>1
<1>3. p * d <= a /\ a < p * d + d /\ q * d <= b /\ b < q * d + d
  BY <1>1
<1> HIDE DEF p, q
<1>4. ASSUME NEW x \in Int, NEW y \in Int, x < y PROVE x * d + d <= y * d
  <2>1. (x + 1) * d <= y * d
    BY <1>4, TimesMonotone
  <2>2. (x + 1) * d = x * d + d
    OBVIOUS
  <2> QED
    BY <2>1, <2>2
<1>5. ASSUME NEW x \in Int, x < 0 PROVE x * d + d <= 0
  <2>1. x * d + d <= 0 * d
    BY <1>4, <1>5
  <2> QED
    BY <2>1
<1>6. p \in Nat
  <2>1. SUFFICES ASSUME p < 0 PROVE FALSE
    BY <1>2
  <2> QED
    BY <2>1, <1>2, <1>3, <1>5
<1>7. p <= q
  <2>1. SUFFICES ASSUME q < p PROVE FALSE
    BY <1>2
  <2>2. q * d + d <= p * d
    BY <2>1, <1>2, <1>4
  <2> QED
    BY <2>2, <1>2, <1>3
<1> QED
  BY <1>2, <1>6, <1>7 DEF p, q

\* The windows: 0 and that of now are among them.
LEMMA WindowFacts ==
  ASSUME TypeOK
  PROVE  Window \in Windows /\ Window \in Nat /\ 0 \in Windows /\ Windows \in SUBSET Nat
<1>1. now \in Nat /\ now <= MaxTime /\ MaxTime \in Nat /\ Win \in Nat \ {0}
  BY LedgerAssumption DEF TypeOK
<1>2. now \div Win \in Nat /\ MaxTime \div Win \in Nat /\ now \div Win <= MaxTime \div Win
  BY <1>1, Quotient
<1> QED
  BY <1>2 DEF Window, Windows

\* The estimate of e tokens with its safety buffer.
Buf(e) == (e * BufNum + BufDen - 1) \div BufDen

LEMMA BufFacts ==
  /\ \A e \in 0 .. MaxEst : Buf(e) \in Nat /\ Buf(e) <= PerResponse
  /\ \A d \in 0 .. MaxEst : \A e \in 0 .. MaxEst : d <= e => Buf(d) <= Buf(e)
  /\ Buf(0) = 0
  /\ PerResponse \in Nat /\ MaxExact <= PerResponse
<1>1. BufNum \in Nat /\ BufDen \in Nat \ {0} /\ MaxEst \in Nat /\ MaxExact \in Nat
  BY LedgerAssumption
<1>2. \A e \in 0 .. MaxEst : e \in Nat /\ e * BufNum + BufDen - 1 \in Nat
  <2>1. ASSUME NEW e \in 0 .. MaxEst PROVE e * BufNum \in Nat /\ e \in Nat
    BY <1>1
  <2> QED
    BY <2>1, <1>1
<1>3. \A d \in 0 .. MaxEst : \A e \in 0 .. MaxEst : d <= e =>
        d * BufNum + BufDen - 1 <= e * BufNum + BufDen - 1
  <2>1. ASSUME NEW d \in 0 .. MaxEst, NEW e \in 0 .. MaxEst, d <= e
        PROVE  d * BufNum <= e * BufNum /\ d * BufNum \in Int /\ e * BufNum \in Int
    BY <2>1, <1>1, <1>2, TimesMonotone
  <2> QED
    BY <2>1, <1>1
<1>4. ASSUME NEW d \in 0 .. MaxEst, NEW e \in 0 .. MaxEst, d <= e
      PROVE  Buf(d) \in Nat /\ Buf(e) \in Nat /\ Buf(d) <= Buf(e)
  BY <1>1, <1>2, <1>3, <1>4, Quotient DEF Buf
<1>5. Buf(0) = 0
  <2>1. \A d \in Nat \ {0} : (d - 1) \div d = 0
    OBVIOUS
  <2>2. 0 * BufNum + BufDen - 1 = BufDen - 1
    BY <1>1
  <2> QED
    BY <2>1, <2>2, <1>1 DEF Buf
<1>6. PerResponse \in Nat /\ MaxExact <= PerResponse /\ Buf(MaxEst) <= PerResponse
  <2>1. Buf(MaxEst) \in Nat
    BY <1>4, <1>1
  <2>2. \E x \in {Buf(MaxEst), MaxExact} : \A y \in {Buf(MaxEst), MaxExact} : x >= y
    BY <2>1, <1>1
  <2> DEFINE S == {Buf(MaxEst), MaxExact}
  <2>3. PerResponse = CHOOSE x \in S : \A y \in S : x >= y
    BY DEF PerResponse, Max, Buf
  <2>4. PerResponse \in S /\ \A y \in S : PerResponse >= y
    BY <2>2, <2>3
  <2> QED
    BY <2>1, <2>4, <1>1
<1>7. ASSUME NEW e \in 0 .. MaxEst PROVE Buf(e) \in Nat /\ Buf(e) <= PerResponse
  <2>1. Buf(e) \in Nat /\ Buf(MaxEst) \in Nat /\ Buf(e) <= Buf(MaxEst)
    BY <1>1, <1>4
  <2> QED
    BY <2>1, <1>6
<1> QED
  BY <1>4, <1>5, <1>6, <1>7
-----------------------------------------------------------------------------
(***************************************************************************)
(* The inductive invariant behind the types: where a response is, what of  *)
(* it is on its way to Redis, and what a ledger holds.                     *)
(***************************************************************************)
Places == {"new", "check", "open", "flush", "tail", "final", "settle", "over"}

\* The call of s is a reserve or a settlement.
Charging(s) == op[s].name \in {"reserve", "settle"}

\* A response between two calls has none on its way; a reserve is of tokens that count
\* as flushed; a settlement is of the difference to the exact usage.
FitsAt(s) ==
  /\ op[s].w <= Window
  /\ pc[s] \in {"new", "open", "final", "over"} => op[s] = NoOp /\ tries[s] = 0
  /\ pc[s] \in {"flush", "tail"} =>
       op[s].name = "reserve" /\ op[s].amount \in Nat /\ op[s].amount <= flushed[s]
  /\ pc[s] = "settle" =>
       op[s].name = "settle" /\ exact[s] # NoUsage /\ op[s].amount = exact[s] - flushed[s]
  /\ pc[s] = "check" => op[s].name = "admit" /\ op[s].amount = 0
  /\ pc[s] \in {"new", "check"} =>
       exact[s] = NoUsage /\ flushed[s] = 0 /\ estimated[s] = 0 /\ how[s] = "no"
  /\ pc[s] \in {"open", "flush"} => flushed[s] <= Buf(estimated[s])
  /\ flushed[s] <= PerResponse

StrayFits ==
  /\ stray.w <= Window
  /\ stray.name = "reserve" => stray.amount \in Nat
  /\ stray.amount <= PerResponse
  /\ stray # NoOp => faulty /\ late >= 1

LedgerFits ==
  \A w \in Windows :
    /\ ledger[w].exp = 0 => ledger[w].n = 0
    /\ ledger[w].exp # 0 => ledger[w].exp >= Win
    /\ w > Window => ledger[w].n = 0

TypeInv == TypeOK /\ (\A s \in Streams : FitsAt(s)) /\ StrayFits /\ LedgerFits

Pos(x) == IF x > 0 THEN x ELSE 0

\* What a call does to the ledger (token_ledger.lua): the ledger of its window grows by
\* no more than the call's amount, and by just that unless a refund is cut off.
LEMMA ExecFacts ==
  ASSUME TypeOK, LedgerFits, NEW c \in Ops, c.w <= Window,
         c.name = "reserve" => c.amount \in Nat,
         ExecReserve(c) \/ ExecSettle(c), UNCHANGED now
  PROVE  /\ ledger' \in [Windows -> [n : Nat, exp : Nat]]
         /\ LedgerFits'
         /\ \A w \in Windows : w # c.w => ledger'[w] = ledger[w]
         /\ ledger'[c.w].n <= ledger[c.w].n + Pos(c.amount)
         /\ ledger[c.w].n + c.amount >= 0 /\ (ledger[c.w].exp = 0 => c.amount >= 0) =>
              ledger'[c.w].n = ledger[c.w].n + c.amount
<1> DEFINE v == c.w
           old == ledger[v]
<1>1. now \in Nat /\ Win \in Nat \ {0} /\ Grace \in Nat /\ now + Win + Grace \in Nat
      /\ now + Win + Grace >= Win /\ now + Win + Grace # 0
  BY LedgerAssumption DEF TypeOK
<1>2. v \in Windows /\ c.amount \in Int /\ v <= Window
  BY DEF Ops
<1>3. old \in [n : Nat, exp : Nat] /\ old.n \in Nat /\ old.exp \in Nat
      /\ (old.exp = 0 => old.n = 0) /\ (old.exp # 0 => old.exp >= Win)
  BY <1>2 DEF TypeOK, LedgerFits
<1>4. Windows \in SUBSET Nat /\ Window \in Nat /\ Window' = Window
  BY WindowFacts DEF Window
<1>5. ASSUME NEW z, ledger' = [ledger EXCEPT ![c.w] = z],
             z \in [n : Nat, exp : Nat], z.exp = 0 => z.n = 0, z.exp # 0 => z.exp >= Win
      PROVE  /\ ledger' \in [Windows -> [n : Nat, exp : Nat]]
             /\ LedgerFits'
             /\ \A w \in Windows : w # c.w => ledger'[w] = ledger[w]
             /\ ledger'[c.w] = z
  <2>1. ledger'[c.w] = z /\ \A w \in Windows : w # c.w => ledger'[w] = ledger[w]
    BY <1>5, <1>2 DEF TypeOK
  <2>2. ledger' \in [Windows -> [n : Nat, exp : Nat]]
    BY <1>5, <1>2 DEF TypeOK
  <2>3. ASSUME NEW w \in Windows
        PROVE  /\ ledger'[w].exp = 0 => ledger'[w].n = 0
               /\ ledger'[w].exp # 0 => ledger'[w].exp >= Win
               /\ w > Window => ledger'[w].n = 0
    <3>1. CASE w = c.w
      <4>1. ~(w > Window)
        BY <3>1, <1>2, <1>4
      <4> QED
        BY <3>1, <4>1, <2>1, <1>5
    <3>2. CASE w # c.w
      BY <3>2, <2>1 DEF LedgerFits
    <3> QED
      BY <3>1, <3>2
  <2> QED
    BY <2>1, <2>2, <2>3, <1>4 DEF LedgerFits
<1>6. CASE ExecReserve(c)
  <2> DEFINE z == [n |-> old.n + c.amount,
                   exp |-> IF old.n = 0 THEN now + Win + Grace ELSE old.exp]
  <2>1. c.amount \in Nat /\ ledger' = [ledger EXCEPT ![c.w] = z]
    BY <1>6, <1>2 DEF ExecReserve, TypeOK
  <2>2. z.n = old.n + c.amount /\ z.exp \in Nat /\ z.exp # 0 /\ z.exp >= Win
        /\ z \in [n : Nat, exp : Nat]
    BY <2>1, <1>1, <1>3
  <2> HIDE DEF z
  <2>3. ledger'[c.w] = z
    BY <2>1, <2>2, <1>5
  <2>4. ledger'[c.w].n = old.n + c.amount
    BY <2>2, <2>3
  <2>5. old.n + c.amount <= old.n + Pos(c.amount)
    BY <1>2, <1>3 DEF Pos
  <2> QED
    BY <2>1, <2>2, <2>4, <2>5, <1>5
<1>7. CASE ExecSettle(c)
  <2> DEFINE z == IF old.exp = 0
                  THEN IF c.amount > 0 THEN [n |-> c.amount, exp |-> now + Win + Grace]
                       ELSE old
                  ELSE [n |-> Clamp(old.n + c.amount), exp |-> old.exp]
  <2>1. ledger' = [ledger EXCEPT ![c.w] = z]
    BY <1>7 DEF ExecSettle
  <2>2. Clamp(old.n + c.amount) \in Nat
        /\ Clamp(old.n + c.amount) <= old.n + Pos(c.amount)
        /\ (old.n + c.amount >= 0 => Clamp(old.n + c.amount) = old.n + c.amount)
    BY <1>2, <1>3 DEF Clamp, Pos
  <2>3. /\ z \in [n : Nat, exp : Nat]
        /\ z.exp = 0 => z.n = 0
        /\ z.exp # 0 => z.exp >= Win
        /\ z.n <= old.n + Pos(c.amount)
        /\ old.n + c.amount >= 0 /\ (old.exp = 0 => c.amount >= 0) => z.n = old.n + c.amount
    <3>1. CASE old.exp = 0 /\ c.amount > 0
      <4>1. z = [n |-> c.amount, exp |-> now + Win + Grace]
        BY <3>1
      <4>2. z.n = c.amount /\ z.exp = now + Win + Grace /\ old.n = 0 /\ Pos(c.amount) = c.amount
        BY <4>1, <3>1, <1>3 DEF Pos
      <4>3. z \in [n : Nat, exp : Nat]
        BY <4>1, <3>1, <1>1, <1>2
      <4> HIDE DEF z
      <4> QED
        BY <4>2, <4>3, <1>1, <1>2, <1>3
    <3>2. CASE old.exp = 0 /\ ~(c.amount > 0)
      <4>1. z = old
        BY <3>2
      <4>2. Pos(c.amount) = 0 /\ (c.amount >= 0 => c.amount = 0)
        BY <3>2, <1>2 DEF Pos
      <4> HIDE DEF z
      <4> QED
        BY <4>1, <4>2, <3>2, <1>2, <1>3
    <3>3. CASE old.exp # 0
      <4>1. z = [n |-> Clamp(old.n + c.amount), exp |-> old.exp]
        BY <3>3
      <4>2. z \in [n : Nat, exp : Nat] /\ z.n = Clamp(old.n + c.amount) /\ z.exp = old.exp
        BY <4>1, <2>2, <1>3
      <4> HIDE DEF z
      <4> QED
        BY <4>2, <3>3, <2>2, <1>3
    <3> QED
      BY <3>1, <3>2, <3>3
  <2> HIDE DEF z
  <2>4. ledger'[c.w] = z
    BY <2>1, <2>3, <1>5
  <2> QED
    BY <2>1, <2>3, <2>4, <1>5
<1> QED
  BY <1>6, <1>7
-----------------------------------------------------------------------------
\* A step of s leaves the other responses alone.
Elsewhere(s) ==
  \A t \in Streams : t # s =>
    /\ pc'[t] = pc[t] /\ op'[t] = op[t] /\ tries'[t] = tries[t]
    /\ estimated'[t] = estimated[t] /\ exact'[t] = exact[t] /\ flushed'[t] = flushed[t]
    /\ how'[t] = how[t]

LEMMA OthersFit ==
  ASSUME TypeInv, NEW s \in Streams, Elsewhere(s), UNCHANGED now, FitsAt(s)'
  PROVE  \A t \in Streams : FitsAt(t)'
<1> SUFFICES ASSUME NEW t \in Streams, t # s PROVE FitsAt(t)'
  OBVIOUS
<1>1. FitsAt(t) /\ Window' = Window
  BY DEF TypeInv, Window
<1>2. /\ pc'[t] = pc[t] /\ op'[t] = op[t] /\ tries'[t] = tries[t]
      /\ estimated'[t] = estimated[t] /\ exact'[t] = exact[t] /\ flushed'[t] = flushed[t]
      /\ how'[t] = how[t]
  BY DEF Elsewhere
<1> QED
  BY <1>1, <1>2 DEF FitsAt

\* The facts of TypeOK about one response.
LEMMA StreamFacts ==
  ASSUME TypeInv, NEW s \in Streams
  PROVE  /\ pc[s] \in Places
         /\ estimated[s] \in 0 .. MaxEst /\ estimated[s] \in Nat
         /\ exact[s] \in Int /\ -1 <= exact[s] /\ exact[s] <= MaxExact
         /\ exact[s] <= PerResponse
         /\ flushed[s] \in Nat
         /\ op[s] \in Ops /\ op[s].w \in Windows /\ op[s].amount \in Int
         /\ tries[s] \in Nat /\ tries[s] <= MaxRetries
         /\ Buffered(s) = Buf(estimated[s]) /\ Buffered(s) \in Nat /\ Buffered(s) <= PerResponse
         /\ Pending(s) \in Nat
         /\ Pending(s) > 0 => flushed[s] + Pending(s) = Buffered(s)
<1>1. MaxEst \in Nat /\ MaxExact \in Nat /\ MaxRetries \in Nat
  BY LedgerAssumption
<1>2. /\ pc[s] \in Places
      /\ estimated[s] \in 0 .. MaxEst /\ exact[s] \in NoUsage .. MaxExact
      /\ flushed[s] \in Nat /\ op[s] \in Ops /\ tries[s] \in 0 .. MaxRetries
  BY DEF TypeInv, TypeOK, Places
<1>3. estimated[s] \in Nat /\ exact[s] \in Int /\ -1 <= exact[s] /\ exact[s] <= MaxExact
      /\ tries[s] \in Nat /\ tries[s] <= MaxRetries
  BY <1>1, <1>2 DEF NoUsage
<1>4. op[s].w \in Windows /\ op[s].amount \in Int
  BY <1>2 DEF Ops
<1>5. Buffered(s) = Buf(estimated[s]) /\ Buffered(s) \in Nat /\ Buffered(s) <= PerResponse
  BY <1>2, BufFacts DEF Buf, Buffered
<1>6. exact[s] <= PerResponse
  BY <1>1, <1>3, BufFacts
<1>7. Pending(s) \in Nat /\ (Pending(s) > 0 => flushed[s] + Pending(s) = Buffered(s))
  BY <1>2, <1>5 DEF Pending
<1> QED
  BY <1>2, <1>3, <1>4, <1>5, <1>6, <1>7

LEMMA NoOpFits == NoOp \in Ops /\ NoOp.w = 0 /\ NoOp.amount = 0 /\ NoOp.name = "none"
<1>1. 0 \in Windows
  <2>1. MaxTime \div Win \in Nat
    BY LedgerAssumption, Quotient
  <2> QED
    BY <2>1 DEF Windows
<1> QED
  BY <1>1 DEF NoOp, Ops

LEMMA InitTypes == Init => TypeInv
<1> SUFFICES ASSUME Init PROVE TypeInv
  OBVIOUS
<1>1. 0 \in Windows /\ Windows \in SUBSET Nat
  <2>1. MaxTime \div Win \in Nat
    BY LedgerAssumption, Quotient
  <2> QED
    BY <2>1 DEF Windows
<1>2. Window = 0
  <2>1. \A d \in Nat \ {0} : 0 \div d = 0
    OBVIOUS
  <2> QED
    BY <2>1, LedgerAssumption DEF Window, Init
<1>3. TypeOK
  <2>1. 0 \in 0 .. MaxTime /\ 0 \in 0 .. MaxEst /\ NoUsage \in NoUsage .. MaxExact
        /\ 0 \in 0 .. MaxRetries /\ 0 \in 0 .. MaxLate /\ NoKey \in [n : Nat, exp : Nat]
    BY LedgerAssumption DEF NoKey, NoUsage
  <2> QED
    BY <2>1, NoOpFits DEF TypeOK, Init
<1>4. ASSUME NEW s \in Streams PROVE FitsAt(s)
  BY <1>2, NoOpFits, BufFacts DEF FitsAt, Init
<1>5. StrayFits
  BY <1>2, NoOpFits, BufFacts DEF StrayFits, Init
<1>6. LedgerFits
  BY DEF LedgerFits, Init, NoKey
<1> QED
  BY <1>3, <1>4, <1>5, <1>6 DEF TypeInv

\* What a step that only moves s keeps, if s fits afterwards.
LEMMA Moved ==
  ASSUME TypeInv, NEW s \in Streams, TypeOK', FitsAt(s)', Elsewhere(s),
         UNCHANGED <<now, ledger, stray, late, faulty>>
  PROVE  TypeInv'
<1>1. \A t \in Streams : FitsAt(t)'
  BY OthersFit
<1>2. StrayFits' /\ LedgerFits'
  BY DEF TypeInv, StrayFits, LedgerFits, Window
<1> QED
  BY <1>1, <1>2 DEF TypeInv

LEMMA CheckTypes ==
  ASSUME TypeInv, NEW s \in Streams, Check(s)
  PROVE  TypeInv'
<1> DEFINE c == Call("admit", 0)
<1>1. c \in Ops /\ c.name = "admit" /\ c.w = Window /\ c.amount = 0
  BY WindowFacts DEF Call, Ops, TypeInv
<1>2. op' = [op EXCEPT ![s] = c]
  BY DEF Check
<1> HIDE DEF c
<1>3. TypeOK'
  BY <1>1, <1>2 DEF TypeInv, TypeOK, Check
<1>4. Elsewhere(s)
  BY <1>2 DEF Elsewhere, TypeInv, TypeOK, Check
<1>5. pc'[s] = "check" /\ op'[s] = c
  BY <1>2 DEF TypeInv, TypeOK, Check
<1>6. FitsAt(s) /\ Window' = Window /\ Window \in Nat
  BY WindowFacts DEF TypeInv, Window, Check
<1>7. FitsAt(s)'
  BY <1>1, <1>5, <1>6 DEF FitsAt, Check
<1> QED
  BY <1>3, <1>4, <1>7, Moved DEF Check

\* Who has the call of an admission on its way.
LEMMA Checking ==
  ASSUME TypeInv, NEW s \in Streams, op[s].name = "admit"
  PROVE  pc[s] = "check"
BY StreamFacts, NoOpFits DEF TypeInv, FitsAt, Places

\* What an admission that is over leaves.
LEMMA AdmittedFacts ==
  ASSUME TypeInv, NEW s \in Streams, op[s].name = "admit",
         NEW way \in {"no", "checked", "stale", "degraded"}, Admitted(s, way),
         UNCHANGED <<now, ledger, estimated, exact, flushed, stray, late, faulty>>
  PROVE  /\ TypeInv' /\ Elsewhere(s)
         /\ pc'[s] = (IF way = "no" THEN "over" ELSE "open") /\ how'[s] = way
         /\ op'[s] = NoOp /\ tries'[s] = 0
<1>1. 0 \in 0 .. MaxRetries
  BY LedgerAssumption
<1>2. TypeOK'
  BY <1>1, NoOpFits DEF TypeInv, TypeOK, Admitted
<1>3. Elsewhere(s)
  BY DEF Elsewhere, TypeInv, TypeOK, Admitted
<1>4. /\ pc'[s] = (IF way = "no" THEN "over" ELSE "open") /\ how'[s] = way
      /\ op'[s] = NoOp /\ tries'[s] = 0
  BY DEF TypeInv, TypeOK, Admitted
<1>5. FitsAt(s) /\ Window' = Window /\ Window \in Nat /\ pc[s] = "check"
  BY WindowFacts, Checking DEF TypeInv, Window
<1>6. flushed[s] = 0 /\ Buf(estimated[s]) \in Nat /\ PerResponse \in Nat
  BY <1>5, StreamFacts, BufFacts DEF FitsAt
<1>7. FitsAt(s)'
  BY <1>4, <1>5, <1>6, NoOpFits DEF FitsAt
<1> QED
  BY <1>2, <1>3, <1>4, <1>7, Moved

\* A call that is resent.
LEMMA ResendFacts ==
  ASSUME TypeInv, NEW s \in Streams, Resend(s), UNCHANGED <<now, estimated, exact, flushed>>
  PROVE  /\ tries' \in [Streams -> 0 .. MaxRetries] /\ tries'[s] = tries[s] + 1
         /\ Elsewhere(s)
         /\ op[s].name # "none" => FitsAt(s)'
<1>1. tries[s] + 1 \in 0 .. MaxRetries
  BY StreamFacts, LedgerAssumption DEF Resend
<1>2. tries' \in [Streams -> 0 .. MaxRetries] /\ tries'[s] = tries[s] + 1
  BY <1>1 DEF TypeInv, TypeOK, Resend
<1>3. Elsewhere(s)
  BY DEF Elsewhere, TypeInv, TypeOK, Resend
<1>4. ASSUME op[s].name # "none" PROVE FitsAt(s)'
  <2>1. FitsAt(s) /\ Window' = Window
    BY DEF TypeInv, Window
  <2>2. pc[s] \notin {"new", "open", "final", "over"}
    BY <2>1, <1>4, NoOpFits DEF FitsAt
  <2> QED
    BY <2>1, <2>2 DEF FitsAt, Resend
<1> QED
  BY <1>2, <1>3, <1>4

LEMMA ResentTypes ==
  ASSUME TypeInv, NEW s \in Streams, op[s].name = "admit", Resend(s),
         UNCHANGED <<now, ledger, estimated, exact, flushed, stray, late, faulty>>
  PROVE  TypeInv'
<1>1. TypeOK'
  BY ResendFacts DEF TypeInv, TypeOK, Resend
<1> QED
  BY <1>1, ResendFacts, Moved

LEMMA AdmitTypes ==
  ASSUME TypeInv, NEW s \in Streams, ExecAdmit(s) \/ CheckFails(s)
  PROVE  TypeInv'
<1>1. CASE ExecAdmit(s)
  <2>1. CASE Resend(s)
    BY <1>1, <2>1, ResentTypes DEF ExecAdmit
  <2>2. ASSUME NEW way \in {"no", "checked", "stale"}, Admitted(s, way) PROVE TypeInv'
    BY <1>1, <2>2, AdmittedFacts DEF ExecAdmit
  <2> QED
    BY <1>1, <2>1, <2>2 DEF ExecAdmit
<1>2. CASE CheckFails(s)
  BY <1>2, AdmittedFacts DEF CheckFails
<1> QED
  BY <1>1, <1>2

LEMMA OnDataTypes ==
  ASSUME TypeInv, NEW s \in Streams, OnData(s)
  PROVE  TypeInv'
<1>1. PICK n \in 1 .. (MaxEst - estimated[s]) :
        estimated' = [estimated EXCEPT ![s] = @ + n]
  BY DEF OnData
<1>2. estimated'[s] = estimated[s] + n /\ estimated[s] + n \in 0 .. MaxEst
      /\ estimated[s] <= estimated[s] + n
  BY <1>1, StreamFacts, LedgerAssumption DEF TypeInv, TypeOK
<1>3. TypeOK'
  BY <1>1, <1>2 DEF TypeInv, TypeOK, OnData
<1>4. Elsewhere(s)
  BY <1>1 DEF Elsewhere, TypeInv, TypeOK, OnData
<1>5. FitsAt(s) /\ Window' = Window
  BY DEF TypeInv, Window, OnData
<1>6. Buf(estimated[s]) <= Buf(estimated'[s]) /\ Buf(estimated'[s]) \in Nat /\ Buf(estimated[s]) \in Nat
  BY <1>2, BufFacts, StreamFacts
<1>7. flushed[s] <= Buf(estimated'[s])
  BY <1>5, <1>6, StreamFacts DEF FitsAt, OnData
<1>8. FitsAt(s)'
  BY <1>5, <1>7 DEF FitsAt, OnData
<1> QED
  BY <1>3, <1>4, <1>8, Moved DEF OnData

LEMMA OnUsageTypes ==
  ASSUME TypeInv, NEW s \in Streams, OnUsage(s)
  PROVE  TypeInv'
<1>1. PICK u \in 1 .. MaxExact : exact' = [exact EXCEPT ![s] = u]
  BY DEF OnUsage
<1>2. u \in NoUsage .. MaxExact
  BY LedgerAssumption DEF NoUsage
<1>3. TypeOK'
  BY <1>1, <1>2 DEF TypeInv, TypeOK, OnUsage
<1>4. Elsewhere(s)
  BY <1>1 DEF Elsewhere, TypeInv, TypeOK, OnUsage
<1>5. FitsAt(s) /\ Window' = Window
  BY DEF TypeInv, Window, OnUsage
<1>6. FitsAt(s)'
  BY <1>5 DEF FitsAt, OnUsage
<1> QED
  BY <1>3, <1>4, <1>6, Moved DEF OnUsage

\* A reserve that begins: of the pending tokens or, if nothing is flushed, of a usage.
LEMMA BeginReserveTypes ==
  ASSUME TypeInv, NEW s \in Streams, pc[s] = "open", NEW d \in Nat,
         NEW next \in {"flush", "tail"}, BeginReserve(s, d, next),
         flushed[s] + d <= PerResponse,
         next = "flush" => flushed[s] + d <= Buf(estimated[s]),
         UNCHANGED <<now, ledger, how, estimated, exact, tries, stray, late, faulty>>
  PROVE  /\ TypeInv' /\ Elsewhere(s)
         /\ flushed'[s] = flushed[s] + d /\ pc'[s] = next /\ op'[s].amount = d
         /\ op'[s].w = Window /\ op'[s].name = "reserve"
<1> DEFINE c == Call("reserve", d)
<1>1. c \in Ops /\ c.name = "reserve" /\ c.w = Window /\ c.amount = d
  BY WindowFacts DEF Call, Ops, TypeInv
<1>2. op' = [op EXCEPT ![s] = c]
  BY DEF BeginReserve
<1> HIDE DEF c
<1>3. flushed[s] + d \in Nat /\ flushed[s] \in Nat /\ d <= flushed[s] + d
  BY StreamFacts
<1>4. TypeOK'
  BY <1>1, <1>2, <1>3 DEF TypeInv, TypeOK, BeginReserve
<1>5. Elsewhere(s)
  BY <1>2 DEF Elsewhere, TypeInv, TypeOK, BeginReserve
<1>6. flushed'[s] = flushed[s] + d /\ op'[s] = c /\ pc'[s] = next
  BY <1>2 DEF TypeInv, TypeOK, BeginReserve
<1>7. Window' = Window /\ Window \in Nat
  BY WindowFacts DEF TypeInv, Window
<1>8. FitsAt(s)'
  BY <1>1, <1>3, <1>6, <1>7 DEF FitsAt
<1> QED
  BY <1>1, <1>4, <1>5, <1>6, <1>8, Moved

LEMMA OnFlushTickTypes ==
  ASSUME TypeInv, NEW s \in Streams, OnFlushTick(s)
  PROVE  TypeInv'
<1>1. flushed[s] + Pending(s) = Buffered(s) /\ Pending(s) \in Nat
  BY StreamFacts DEF OnFlushTick
<1>2. flushed[s] + Pending(s) <= PerResponse /\ flushed[s] + Pending(s) <= Buf(estimated[s])
  BY <1>1, StreamFacts
<1> QED
  BY <1>1, <1>2, BeginReserveTypes DEF OnFlushTick

\* A step that only moves pc.
LEMMA PcTypes ==
  ASSUME TypeInv, NEW s \in Streams,
         NEW next \in {"final", "over"}, pc' = [pc EXCEPT ![s] = next],
         pc[s] \in {"open", "final"},
         UNCHANGED <<now, ledger, how, estimated, exact, flushed, op, tries, stray, late, faulty>>
  PROVE  TypeInv'
<1>1. TypeOK'
  BY DEF TypeInv, TypeOK
<1>2. Elsewhere(s)
  BY DEF Elsewhere, TypeInv, TypeOK
<1>3. FitsAt(s) /\ Window' = Window /\ pc'[s] = next
  BY DEF TypeInv, TypeOK, Window
<1>4. FitsAt(s)'
  BY <1>3 DEF FitsAt
<1> QED
  BY <1>1, <1>2, <1>4, Moved

LEMMA OnEndTypes ==
  ASSUME TypeInv, NEW s \in Streams, OnEnd(s)
  PROVE  TypeInv'
<1>1. CASE Pending(s) > 0
  <2>1. flushed[s] + Pending(s) = Buffered(s) /\ Pending(s) \in Nat
    BY <1>1, StreamFacts
  <2>2. flushed[s] + Pending(s) <= PerResponse
    BY <2>1, StreamFacts
  <2> QED
    BY <1>1, <2>1, <2>2, BeginReserveTypes DEF OnEnd
<1>2. CASE ~(Pending(s) > 0)
  BY <1>2, PcTypes DEF OnEnd
<1> QED
  BY <1>1, <1>2

LEMMA JsonResponseTypes ==
  ASSUME TypeInv, NEW s \in Streams, JsonResponse(s)
  PROVE  TypeInv'
<1>1. PICK u \in 1 .. MaxExact : BeginReserve(s, u, "tail")
  BY DEF JsonResponse
<1>2. flushed[s] = 0
  <2>1. flushed[s] <= Buf(0)
    BY DEF TypeInv, FitsAt, JsonResponse
  <2> QED
    BY <2>1, BufFacts, StreamFacts
<1>3. u \in Nat /\ u <= PerResponse /\ flushed[s] + u = u
  BY <1>2, BufFacts, LedgerAssumption
<1> QED
  BY <1>1, <1>3, BeginReserveTypes DEF JsonResponse

LEMMA SettleTypes ==
  ASSUME TypeInv, NEW s \in Streams, Settle(s)
  PROVE  TypeInv'
<1>1. CASE exact[s] # NoUsage /\ Adjust(s) # 0
  <2> DEFINE c == Call("settle", Adjust(s))
  <2>1. op' = [op EXCEPT ![s] = c] /\ pc' = [pc EXCEPT ![s] = "settle"]
    BY <1>1 DEF Settle
  <2>2. Adjust(s) = exact[s] - flushed[s] /\ Adjust(s) \in Int
    BY StreamFacts DEF Adjust
  <2>3. c \in Ops /\ c.name = "settle" /\ c.w = Window /\ c.amount = exact[s] - flushed[s]
    BY <2>2, WindowFacts DEF Call, Ops, TypeInv
  <2> HIDE DEF c
  <2>4. TypeOK'
    BY <2>1, <2>3 DEF TypeInv, TypeOK, Settle
  <2>5. Elsewhere(s)
    BY <2>1 DEF Elsewhere, TypeInv, TypeOK, Settle
  <2>6. op'[s] = c /\ pc'[s] = "settle" /\ Window' = Window /\ Window \in Nat
    BY <2>1, WindowFacts DEF TypeInv, TypeOK, Settle, Window
  <2>7. FitsAt(s)'
    BY <1>1, <2>3, <2>6 DEF FitsAt, Settle, TypeInv
  <2> QED
    BY <2>4, <2>5, <2>7, Moved DEF Settle
<1>2. CASE ~(exact[s] # NoUsage /\ Adjust(s) # 0)
  BY <1>2, PcTypes DEF Settle
<1> QED
  BY <1>1, <1>2

\* A call that returns to its response.
LEMMA ReturnFacts ==
  ASSUME TypeInv, NEW s \in Streams, pc[s] \in {"flush", "tail", "settle"}, Return(s)
  PROVE  /\ pc'[s] = (IF pc[s] = "flush" THEN "open" ELSE IF pc[s] = "tail" THEN "final" ELSE "over")
         /\ pc' \in [Streams -> Places]
         /\ op' \in [Streams -> Ops] /\ tries' \in [Streams -> 0 .. MaxRetries]
         /\ op'[s] = NoOp /\ tries'[s] = 0
         /\ \A t \in Streams : t # s => pc'[t] = pc[t] /\ op'[t] = op[t] /\ tries'[t] = tries[t]
<1> DEFINE q == CASE pc[s] = "flush" -> "open" [] pc[s] = "tail" -> "final"
                  [] pc[s] = "settle" -> "over"
<1>1. q = (IF pc[s] = "flush" THEN "open" ELSE IF pc[s] = "tail" THEN "final" ELSE "over")
  OBVIOUS
<1>2. pc' = [pc EXCEPT ![s] = q]
  BY DEF Return, Resume
<1>3. q \in {"open", "final", "over"}
  BY <1>1
<1> HIDE DEF q
<1>4. 0 \in 0 .. MaxRetries
  BY LedgerAssumption
<1> QED
  BY <1>1, <1>2, <1>3, <1>4, NoOpFits DEF Return, TypeInv, TypeOK, Places

\* A response with a call on its way.
LEMMA CallFacts ==
  ASSUME TypeInv, NEW s \in Streams, Charging(s)
  PROVE  /\ pc[s] \in {"flush", "tail", "settle"}
         /\ op[s].w <= Window
         /\ op[s].name = "reserve" <=> pc[s] \in {"flush", "tail"}
         /\ op[s].name = "settle" <=> pc[s] = "settle"
         /\ op[s].name = "reserve" => op[s].amount \in Nat
         /\ op[s].amount <= PerResponse
<1>1. FitsAt(s)
  BY DEF TypeInv
<1>2. pc[s] \in {"flush", "tail", "settle"} /\ op[s].w <= Window
  BY <1>1, StreamFacts, NoOpFits DEF FitsAt, Charging, Places
<1>3. CASE pc[s] = "settle"
  <2>1. op[s].name = "settle" /\ op[s].amount = exact[s] - flushed[s]
    BY <1>1, <1>3 DEF FitsAt
  <2>2. op[s].amount <= PerResponse
    BY <2>1, StreamFacts, BufFacts
  <2> QED
    BY <2>1, <2>2, <1>2, <1>3
<1>4. CASE pc[s] \in {"flush", "tail"}
  <2>1. op[s].name = "reserve" /\ op[s].amount \in Nat /\ op[s].amount <= flushed[s]
        /\ flushed[s] <= PerResponse
    BY <1>1, <1>4 DEF FitsAt
  <2>2. op[s].amount <= PerResponse
    BY <2>1, StreamFacts, BufFacts
  <2> QED
    BY <2>1, <2>2, <1>2, <1>4
<1> QED
  BY <1>2, <1>3, <1>4

\* A response whose call returns fits.
LEMMA ReturnFits ==
  ASSUME TypeInv, NEW s \in Streams, Charging(s), Return(s),
         UNCHANGED <<now, how, estimated, exact, flushed>>
  PROVE  FitsAt(s)' /\ Elsewhere(s)
<1>1. pc[s] \in {"flush", "tail", "settle"}
  BY CallFacts
<1>2. Elsewhere(s)
  BY <1>1, ReturnFacts DEF Elsewhere
<1>3. FitsAt(s) /\ Window' = Window /\ Window \in Nat
  BY WindowFacts DEF TypeInv, Window
<1>4. /\ op'[s] = NoOp /\ tries'[s] = 0 /\ pc'[s] \in {"open", "final", "over"}
      /\ pc'[s] = "open" => pc[s] = "flush"
  BY <1>1, ReturnFacts
<1>5. FitsAt(s)'
  BY <1>1, <1>3, <1>4, NoOpFits DEF FitsAt
<1> QED
  BY <1>2, <1>5

LEMMA ExecTypes ==
  ASSUME TypeInv, NEW s \in Streams, Exec(s)
  PROVE  TypeInv'
<1>1. Charging(s)
  BY DEF Exec, ExecReserve, ExecSettle, Charging
<1>2. ledger' \in [Windows -> [n : Nat, exp : Nat]] /\ LedgerFits'
  BY <1>1, CallFacts, StreamFacts, ExecFacts DEF Exec, TypeInv
<1>3. pc[s] \in {"flush", "tail", "settle"}
  BY <1>1, CallFacts
<1>4. ASSUME Return(s), UNCHANGED faulty
      PROVE  TypeInv'
  <2>1. TypeOK'
    BY <1>2, <1>3, <1>4, ReturnFacts DEF TypeInv, TypeOK, Exec
  <2>2. \A t \in Streams : FitsAt(t)'
    BY <1>1, <1>4, ReturnFits, OthersFit DEF Exec
  <2>3. StrayFits'
    BY <1>4 DEF StrayFits, TypeInv, Exec, Window
  <2> QED
    BY <1>2, <2>1, <2>2, <2>3 DEF TypeInv
<1>5. ASSUME Resend(s), faulty' = TRUE
      PROVE  TypeInv'
  <2>1. op[s].name # "none"
    BY <1>1 DEF Charging
  <2>2. TypeOK'
    BY <1>2, <1>5, ResendFacts DEF TypeInv, TypeOK, Exec, Resend
  <2>3. \A t \in Streams : FitsAt(t)'
    BY <1>5, <2>1, ResendFacts, OthersFit DEF Exec
  <2>4. StrayFits'
    BY <1>5 DEF StrayFits, TypeInv, Exec, Window
  <2> QED
    BY <1>2, <2>2, <2>3, <2>4 DEF TypeInv
<1> QED
  BY <1>4, <1>5 DEF Exec, Replied

LEMMA CallFailsTypes ==
  ASSUME TypeInv, NEW s \in Streams, CallFails(s)
  PROVE  TypeInv'
<1>1. Charging(s) /\ Return(s) /\ faulty' = TRUE
      /\ UNCHANGED <<now, ledger, how, estimated, exact, flushed>>
  BY DEF CallFails, Charging
<1>2. pc[s] \in {"flush", "tail", "settle"}
  BY <1>1, CallFacts
<1>3. \A t \in Streams : FitsAt(t)'
  BY <1>1, ReturnFits, OthersFit
<1>4. LedgerFits'
  BY <1>1 DEF TypeInv, LedgerFits, Window
<1>5. late \in Nat /\ late <= MaxLate /\ MaxLate \in Nat
  BY LedgerAssumption DEF TypeInv, TypeOK
<1>6. CASE UNCHANGED <<stray, late>>
  <2>1. TypeOK'
    BY <1>1, <1>2, <1>6, ReturnFacts DEF TypeInv, TypeOK
  <2>2. StrayFits'
    BY <1>1, <1>6 DEF StrayFits, TypeInv, Window
  <2> QED
    BY <1>3, <1>4, <2>1, <2>2 DEF TypeInv
<1>7. CASE stray = NoOp /\ late < MaxLate /\ stray' = op[s] /\ late' = late + 1
  <2>1. late' \in 0 .. MaxLate /\ late' >= 1
    BY <1>5, <1>7
  <2>2. stray' \in Ops
    BY <1>7, StreamFacts
  <2>3. TypeOK'
    BY <1>1, <1>2, <2>1, <2>2, ReturnFacts DEF TypeInv, TypeOK
  <2>4. StrayFits'
    BY <1>1, <1>7, <2>1, CallFacts DEF StrayFits, Window
  <2> QED
    BY <1>3, <1>4, <2>3, <2>4 DEF TypeInv
<1> QED
  BY <1>6, <1>7 DEF CallFails

LEMMA ExecLateTypes ==
  ASSUME TypeInv, ExecLate
  PROVE  TypeInv'
<1>1. ledger' \in [Windows -> [n : Nat, exp : Nat]] /\ LedgerFits'
  BY ExecFacts DEF ExecLate, TypeInv, TypeOK, StrayFits
<1>2. TypeOK'
  BY <1>1, NoOpFits DEF TypeInv, TypeOK, ExecLate
<1>3. ASSUME NEW t \in Streams PROVE FitsAt(t)'
  BY DEF FitsAt, TypeInv, ExecLate, Window
<1>4. Window' = Window /\ Window \in Nat
  BY WindowFacts DEF TypeInv, ExecLate, Window
<1>5. StrayFits'
  BY <1>4, NoOpFits, BufFacts DEF StrayFits, ExecLate
<1> QED
  BY <1>1, <1>2, <1>3, <1>5 DEF TypeInv

\* Time passes: the window never goes back.
LEMMA TickWindow ==
  ASSUME TypeOK, Tick
  PROVE  /\ now' \in 0 .. MaxTime /\ Window' \in Windows /\ Window' \in Nat
         /\ Window \in Windows /\ Window \in Nat /\ Window <= Window'
<1>1. now \in Nat /\ now' \in Nat /\ now <= now' /\ now' <= MaxTime /\ now' \in 0 .. MaxTime
      /\ MaxTime \in Nat /\ Win \in Nat \ {0}
  BY LedgerAssumption DEF Tick, TypeOK
<1>2. now \div Win \in Nat /\ now' \div Win \in Nat /\ now \div Win <= now' \div Win
  BY <1>1, Quotient
<1>3. now' \div Win <= MaxTime \div Win /\ MaxTime \div Win \in Nat
  BY <1>1, Quotient
<1>4. Window' = now' \div Win /\ Window = now \div Win
  BY DEF Window
<1>5. Window \in Windows /\ Window \in Nat
  BY WindowFacts
<1>6. Window' \in Windows
  BY <1>2, <1>3, <1>4 DEF Windows
<1> QED
  BY <1>1, <1>2, <1>4, <1>5, <1>6

LEMMA TickTypes ==
  ASSUME TypeInv, Tick
  PROVE  TypeInv'
<1>1. /\ now' \in 0 .. MaxTime /\ Window' \in Windows /\ Window' \in Nat
      /\ Window \in Windows /\ Window \in Nat /\ Window <= Window' /\ Windows \in SUBSET Nat
  BY TickWindow, WindowFacts DEF TypeInv
<1>2. ASSUME NEW w \in Windows
      PROVE  ledger'[w] = NoKey \/ ledger'[w] = ledger[w]
  BY DEF Tick
<1>3. NoKey \in [n : Nat, exp : Nat] /\ NoKey.n = 0 /\ NoKey.exp = 0
  BY DEF NoKey
<1>4. ledger' \in [Windows -> [n : Nat, exp : Nat]]
  BY <1>3 DEF Tick, TypeInv, TypeOK
<1>5. TypeOK'
  BY <1>1, <1>4 DEF Tick, TypeInv, TypeOK
<1>6. ASSUME NEW s \in Streams PROVE FitsAt(s)'
  <2>1. op[s].w \in Windows /\ op[s].w <= Window
    BY StreamFacts DEF TypeInv, FitsAt
  <2>2. op[s].w \in Nat
    BY <2>1, <1>1
  <2>3. op[s].w <= Window'
    BY <2>1, <2>2, <1>1
  <2> QED
    BY <2>3 DEF Tick, TypeInv, FitsAt
<1>7. StrayFits'
  <2>1. stray.w \in Windows /\ stray.w <= Window
    BY DEF TypeInv, StrayFits, TypeOK, Ops
  <2>2. stray.w \in Nat
    BY <2>1, <1>1
  <2>3. stray.w <= Window'
    BY <2>1, <2>2, <1>1
  <2> QED
    BY <2>3 DEF Tick, TypeInv, StrayFits
<1>8. LedgerFits'
  <2> SUFFICES ASSUME NEW w \in Windows
               PROVE  /\ ledger'[w].exp = 0 => ledger'[w].n = 0
                      /\ ledger'[w].exp # 0 => ledger'[w].exp >= Win
                      /\ w > Window' => ledger'[w].n = 0
    BY DEF LedgerFits
  <2>1. CASE ledger'[w] = NoKey
    BY <2>1, <1>3
  <2>2. CASE ledger'[w] = ledger[w]
    <3>1. w > Window' => w > Window
      BY <1>1
    <3> QED
      BY <2>2, <3>1 DEF TypeInv, LedgerFits
  <2> QED
    BY <2>1, <2>2, <1>2
<1> QED
  BY <1>5, <1>6, <1>7, <1>8 DEF TypeInv

LEMMA StutterTypes ==
  ASSUME TypeInv, UNCHANGED vars
  PROVE  TypeInv'
BY DEF TypeInv, TypeOK, FitsAt, StrayFits, LedgerFits, Window, vars

LEMMA NextTypes == TypeInv /\ [Next]_vars => TypeInv'
<1> SUFFICES ASSUME TypeInv, [Next]_vars PROVE TypeInv'
  OBVIOUS
<1>1. ASSUME NEW s \in Streams, CopySSE(s) PROVE TypeInv'
  BY <1>1, OnDataTypes, OnUsageTypes, OnFlushTickTypes, OnEndTypes DEF CopySSE
<1> QED
  BY <1>1, CheckTypes, AdmitTypes, SettleTypes, JsonResponseTypes, ExecTypes, CallFailsTypes,
     ExecLateTypes, TickTypes, StutterTypes DEF Next

LEMMA TypeInvHolds == Spec => []TypeInv
BY InitTypes, NextTypes, PTL DEF Spec

\* Every reachable state is well-typed: a ledger never goes below zero, whatever is
\* refunded, resent or executed late, and windows stay within the modelled ones.
THEOREM TypeCorrect == Spec => []TypeOK
<1>1. TypeInv => TypeOK
  BY DEF TypeInv
<1> QED
  BY <1>1, TypeInvHolds, PTL
-----------------------------------------------------------------------------
(***************************************************************************)
(* The balance.  While no call has failed, the first window's ledger is    *)
(* the sum of what the responses have charged, so that it holds at least   *)
(* what a response gives back: no refund is cut off.                       *)
(***************************************************************************)
Total == SumFunction([s \in Streams |-> Charged(s)])

LEMMA ChargedNat ==
  ASSUME TypeInv, NEW s \in Streams
  PROVE  Charged(s) \in Nat
<1>1. FitsAt(s)
  BY DEF TypeInv
<1>2. CASE pc[s] = "over" /\ exact[s] # NoUsage
  BY <1>2, StreamFacts DEF Charged, NoUsage
<1>3. CASE ~(pc[s] = "over" /\ exact[s] # NoUsage) /\ pc[s] \in {"flush", "tail"}
  BY <1>1, <1>3, StreamFacts DEF Charged, FitsAt
<1>4. CASE ~(pc[s] = "over" /\ exact[s] # NoUsage) /\ pc[s] \notin {"flush", "tail"}
  <2>1. op[s].name # "reserve"
    BY <1>1, <1>4, StreamFacts, NoOpFits DEF FitsAt, Places
  <2> QED
    BY <1>4, <2>1, StreamFacts DEF Charged
<1> QED
  BY <1>2, <1>3, <1>4

LEMMA ChargedNatAfter == TypeInv' => (\A s \in Streams : Charged(s) \in Nat)'
<1>1. TypeInv => \A s \in Streams : Charged(s) \in Nat
  BY ChargedNat
<1> QED
  BY <1>1, PTL

LEMMA TotalFacts ==
  ASSUME TypeInv
  PROVE  /\ Total = SumFunctionOnSet([s \in Streams |-> Charged(s)], Streams)
         /\ Total \in Nat
         /\ \A s \in Streams : Charged(s) <= Total
<1> DEFINE F == [s \in Streams |-> Charged(s)]
<1>1. Total = SumFunctionOnSet(F, Streams)
  BY DEF Total, SumFunction
<1>2. \A s \in Streams : F[s] \in Nat /\ F[s] = Charged(s)
  BY ChargedNat
<1> HIDE DEF F
<1>3. IsFiniteSet(Streams)
  BY LedgerAssumption
<1>4. SumFunctionOnSet(F, Streams) \in Nat /\ \A s \in Streams : F[s] <= SumFunctionOnSet(F, Streams)
  BY <1>2, <1>3, SumAtLeast
<1> QED
  BY <1>1, <1>2, <1>4 DEF F

\* When only s moves, the total moves by what s charges.
LEMMA TotalMoves ==
  ASSUME TypeInv, TypeInv', NEW s \in Streams, Elsewhere(s)
  PROVE  Total' = Total - Charged(s) + Charged(s)'
<1>1. \A t \in Streams : t # s => Charged(t)' = Charged(t)
  BY DEF Elsewhere, Charged
<1>2. \A t \in Streams : Charged(t) \in Nat /\ Charged(t)' \in Nat
  <2>1. \A t \in Streams : Charged(t) \in Nat
    BY ChargedNat
  <2>2. (\A t \in Streams : Charged(t) \in Nat)'
    BY ChargedNatAfter
  <2> QED
    BY <2>1, <2>2
<1>3. PICK f : f = [t \in Streams |-> Charged(t)]
  OBVIOUS
<1>4. PICK g : g = [t \in Streams |-> Charged(t)']
  OBVIOUS
<1>5. Total = SumFunctionOnSet(f, Streams) /\ Total' = SumFunctionOnSet(g, Streams)
  BY <1>3, <1>4 DEF Total, SumFunction
<1>6. /\ \A x \in Streams : f[x] \in Int /\ g[x] \in Int
      /\ \A x \in Streams : x # s => f[x] = g[x]
      /\ f[s] = Charged(s) /\ g[s] = Charged(s)'
  BY <1>1, <1>2, <1>3, <1>4
<1>7. SumFunctionOnSet(g, Streams) = SumFunctionOnSet(f, Streams) - f[s] + g[s]
  BY <1>6, SumUpdate, LedgerAssumption
<1> QED
  BY <1>5, <1>6, <1>7

BalanceInv == TypeInv /\ LedgerBalanced

LEMMA BalancedWhen ==
  ASSUME TypeInv
  PROVE  LedgerBalanced <=> (~faulty /\ Window = 0 => ledger[0].n = Total)
BY DEF LedgerBalanced, Total

LEMMA BalancedAfter ==
  ASSUME (~faulty /\ Window = 0 => ledger[0].n = Total)'
  PROVE  LedgerBalanced'
BY DEF LedgerBalanced, Total

\* A step of s that charges nothing and does not touch the ledger.
LEMMA BalanceKept ==
  ASSUME BalanceInv, TypeInv', NEW s \in Streams, Elsewhere(s),
         UNCHANGED <<now, ledger, faulty>>, Charged(s)' = Charged(s)
  PROVE  LedgerBalanced'
<1>1. Total' = Total
  BY TotalMoves, TotalFacts, ChargedNat DEF BalanceInv
<1> QED
  BY <1>1, BalancedWhen, BalancedAfter DEF BalanceInv, Window

LEMMA InitBalance == Init => LedgerBalanced
<1> SUFFICES ASSUME Init PROVE LedgerBalanced
  OBVIOUS
<1>1. TypeInv
  BY InitTypes
<1>2. \A s \in Streams : Charged(s) = 0
  BY NoOpFits DEF Charged, Init
<1> DEFINE F == [s \in Streams |-> Charged(s)]
<1>3. \A s \in Streams : F[s] \in Int /\ F[s] <= IF s \in {} THEN 0 ELSE 0
  BY <1>2
<1>4. Total = SumFunctionOnSet(F, Streams) /\ Total \in Nat
  BY <1>1, TotalFacts
<1> HIDE DEF F
<1>5. SumFunctionOnSet(F, Streams) <= 0 * Cardinality({})
  BY <1>3, SumAtMost, LedgerAssumption, {} \in SUBSET Streams
<1>6. Cardinality({}) = 0
  BY FS_EmptySet
<1>7. Total = 0
  BY <1>4, <1>5, <1>6
<1>8. ledger[0].n = 0
  BY <1>1, WindowFacts DEF Init, NoKey, TypeInv
<1> QED
  BY <1>1, <1>7, <1>8, BalancedWhen

\* An admission charges nothing.
LEMMA AdmitBalance ==
  ASSUME BalanceInv, TypeInv', NEW s \in Streams, Check(s) \/ ExecAdmit(s) \/ CheckFails(s)
  PROVE  LedgerBalanced'
<1>1. TypeInv
  BY DEF BalanceInv
<1>2. FitsAt(s) /\ pc[s] \in {"new", "check"} /\ flushed[s] \in Nat
  BY <1>1, StreamFacts, Checking DEF TypeInv, Check, ExecAdmit, CheckFails
<1>3. exact[s] = NoUsage /\ op[s].name # "reserve"
  BY <1>2, NoOpFits DEF FitsAt
<1>4. Elsewhere(s) /\ op'[s].name # "reserve"
  <2>1. CASE Check(s)
    BY <2>1, <1>1 DEF Elsewhere, TypeInv, TypeOK, Check, Call
  <2>2. CASE ExecAdmit(s) /\ Resend(s)
    BY <2>2, <1>1, <1>3 DEF Elsewhere, TypeInv, TypeOK, ExecAdmit, Resend
  <2>3. ASSUME NEW way \in {"no", "checked", "stale", "degraded"}, Admitted(s, way),
               ExecAdmit(s) \/ CheckFails(s)
        PROVE  Elsewhere(s) /\ op'[s].name # "reserve"
    BY <2>3, <1>1, AdmittedFacts, NoOpFits DEF ExecAdmit, CheckFails
  <2>4. CASE ExecAdmit(s) /\ ~Resend(s)
    BY <2>3, <2>4 DEF ExecAdmit
  <2>5. CASE CheckFails(s)
    BY <2>3, <2>5 DEF CheckFails
  <2> QED
    BY <2>1, <2>2, <2>4, <2>5
<1>5. UNCHANGED <<now, ledger, exact, flushed, faulty>>
  BY DEF Check, ExecAdmit, CheckFails
<1>6. Charged(s)' = Charged(s)
  BY <1>2, <1>3, <1>4, <1>5 DEF Charged
<1> QED
  BY <1>4, <1>5, <1>6, BalanceKept

LEMMA OnDataBalance ==
  ASSUME BalanceInv, TypeInv', NEW s \in Streams, OnData(s) \/ OnUsage(s)
  PROVE  LedgerBalanced'
<1>1. Elsewhere(s)
  BY DEF Elsewhere, BalanceInv, TypeInv, TypeOK, OnData, OnUsage
<1>2. Charged(s)' = Charged(s)
  BY DEF Charged, OnData, OnUsage
<1> QED
  BY <1>1, <1>2, BalanceKept DEF OnData, OnUsage

\* A reserve that begins charges nothing yet.
LEMMA BeginReserveBalance ==
  ASSUME BalanceInv, TypeInv', NEW s \in Streams, pc[s] = "open", NEW d \in Nat,
         NEW next \in {"flush", "tail"}, BeginReserve(s, d, next),
         UNCHANGED <<now, ledger, how, estimated, exact, tries, stray, late, faulty>>
  PROVE  LedgerBalanced'
<1>1. Elsewhere(s)
  BY DEF Elsewhere, BalanceInv, TypeInv, TypeOK, BeginReserve
<1>2. /\ flushed'[s] = flushed[s] + d /\ pc'[s] = next /\ op'[s].amount = d
      /\ op'[s].name = "reserve"
  BY DEF BalanceInv, TypeInv, TypeOK, BeginReserve, Call
<1>3. op[s].name = "none"
  BY NoOpFits DEF BalanceInv, TypeInv, FitsAt
<1>4. Charged(s) = flushed[s] /\ Charged(s)' = flushed[s] + d - d
  BY <1>2, <1>3, StreamFacts DEF Charged, BalanceInv
<1>5. Charged(s)' = Charged(s)
  BY <1>4, StreamFacts DEF BalanceInv
<1> QED
  BY <1>1, <1>5, BalanceKept

LEMMA OnEndBalance ==
  ASSUME BalanceInv, TypeInv', NEW s \in Streams, OnEnd(s)
  PROVE  LedgerBalanced'
<1>1. CASE Pending(s) > 0
  BY <1>1, StreamFacts, BeginReserveBalance DEF OnEnd, BalanceInv
<1>2. CASE ~(Pending(s) > 0)
  <2>1. Elsewhere(s)
    BY <1>2 DEF Elsewhere, BalanceInv, TypeInv, TypeOK, OnEnd
  <2>2. pc'[s] = "final"
    BY <1>2 DEF BalanceInv, TypeInv, TypeOK, OnEnd
  <2>3. Charged(s)' = Charged(s)
    BY <1>2, <2>2 DEF Charged, OnEnd
  <2> QED
    BY <2>1, <2>3, BalanceKept DEF OnEnd
<1> QED
  BY <1>1, <1>2

LEMMA ReserveBalance ==
  ASSUME BalanceInv, TypeInv', NEW s \in Streams, OnFlushTick(s) \/ JsonResponse(s)
  PROVE  LedgerBalanced'
<1>1. CASE OnFlushTick(s)
  BY <1>1, StreamFacts, BeginReserveBalance DEF OnFlushTick, BalanceInv
<1>2. CASE JsonResponse(s)
  <2>1. PICK u \in 1 .. MaxExact : BeginReserve(s, u, "tail")
    BY <1>2 DEF JsonResponse
  <2>2. u \in Nat
    BY LedgerAssumption
  <2> QED
    BY <1>2, <2>1, <2>2, BeginReserveBalance DEF JsonResponse
<1> QED
  BY <1>1, <1>2

LEMMA SettleBalance ==
  ASSUME BalanceInv, TypeInv', NEW s \in Streams, Settle(s)
  PROVE  LedgerBalanced'
<1>1. op[s].name = "none"
  BY NoOpFits DEF BalanceInv, TypeInv, FitsAt, Settle
<1>2. Charged(s) = flushed[s] /\ flushed[s] \in Nat /\ exact[s] \in Int
  BY <1>1, StreamFacts DEF Charged, Settle, BalanceInv
<1>3. Elsewhere(s)
  BY DEF Elsewhere, BalanceInv, TypeInv, TypeOK, Settle
<1>4. CASE exact[s] # NoUsage /\ Adjust(s) # 0
  <2>1. op'[s].name = "settle" /\ pc'[s] = "settle"
    BY <1>4 DEF BalanceInv, TypeInv, TypeOK, Settle, Call
  <2>2. Charged(s)' = flushed[s]
    BY <2>1, <1>2 DEF Charged, Settle
  <2> QED
    BY <2>2, <1>2, <1>3, BalanceKept DEF Settle
<1>5. CASE ~(exact[s] # NoUsage /\ Adjust(s) # 0)
  <2>1. pc'[s] = "over" /\ op' = op
    BY <1>5 DEF BalanceInv, TypeInv, TypeOK, Settle
  <2>2. exact[s] # NoUsage => exact[s] = flushed[s]
    BY <1>2, <1>5 DEF Adjust
  <2>3. Charged(s)' = flushed[s]
    BY <2>1, <2>2, <1>1, <1>2 DEF Charged, Settle
  <2> QED
    BY <2>3, <1>2, <1>3, BalanceKept DEF Settle
<1> QED
  BY <1>4, <1>5

\* An execution charges what the call is for.
LEMMA ExecBalance ==
  ASSUME BalanceInv, TypeInv', NEW s \in Streams, Exec(s)
  PROVE  LedgerBalanced'
<1> SUFFICES ASSUME ~faulty', Window' = 0 PROVE ledger'[0].n = Total'
  BY BalancedAfter
<1>1. Return(s) /\ faulty' = faulty
  BY DEF Exec, Replied
<1>2. Charging(s)
  BY DEF Exec, ExecReserve, ExecSettle, Charging
<1>3. Window = 0 /\ op[s].w = 0
  <2>1. Window = 0
    BY DEF Exec, Window
  <2>2. op[s].w <= Window /\ op[s].w \in Nat
    BY <1>2, CallFacts, StreamFacts, WindowFacts DEF BalanceInv, TypeInv
  <2> QED
    BY <2>1, <2>2
<1>4. ledger[0].n = Total /\ 0 \in Windows /\ ledger[0].n \in Nat
      /\ (ledger[0].exp = 0 => ledger[0].n = 0)
  BY <1>1, <1>3, BalancedWhen, WindowFacts DEF BalanceInv, TypeInv, TypeOK, LedgerFits
<1>5. Elsewhere(s)
  BY <1>1, <1>2, ReturnFits DEF BalanceInv, Exec
<1>6. Total' = Total - Charged(s) + Charged(s)'
  BY <1>5, TotalMoves DEF BalanceInv
<1>7. Total \in Nat /\ Charged(s) \in Nat /\ Charged(s) <= Total /\ Charged(s)' \in Nat
  <2>1. (\A t \in Streams : Charged(t) \in Nat)'
    BY ChargedNatAfter
  <2> QED
    BY <2>1, TotalFacts, ChargedNat DEF BalanceInv
<1>8. op[s].amount \in Int /\ Charged(s)' = Charged(s) + op[s].amount
  <2>1. FitsAt(s) /\ flushed[s] \in Nat /\ exact[s] \in Int /\ op[s].amount \in Int
    BY StreamFacts DEF BalanceInv, TypeInv
  <2>2. flushed' = flushed /\ exact' = exact
    BY DEF Exec
  <2>3. pc[s] \in {"flush", "tail", "settle"}
    BY <1>2, CallFacts DEF BalanceInv
  <2>4. op'[s].name = "none"
    BY <1>1, <2>3, ReturnFacts, NoOpFits DEF BalanceInv
  <2>5. CASE pc[s] = "settle"
    <3>1. pc'[s] = "over"
      BY <1>1, <2>5, ReturnFacts DEF BalanceInv
    <3>2. op[s].name = "settle" /\ exact[s] # NoUsage /\ op[s].amount = exact[s] - flushed[s]
      BY <2>1, <2>5 DEF FitsAt
    <3>3. Charged(s) = flushed[s] /\ Charged(s)' = exact[s]
      BY <2>1, <2>2, <2>5, <3>1, <3>2 DEF Charged
    <3> QED
      BY <2>1, <3>2, <3>3
  <2>6. CASE pc[s] \in {"flush", "tail"}
    <3>1. pc'[s] \in {"open", "final"}
      BY <1>1, <2>6, ReturnFacts DEF BalanceInv
    <3>2. op[s].name = "reserve"
      BY <2>1, <2>6 DEF FitsAt
    <3>3. Charged(s) = flushed[s] - op[s].amount /\ Charged(s)' = flushed[s]
      BY <2>1, <2>2, <2>4, <2>6, <3>1, <3>2 DEF Charged
    <3> QED
      BY <2>1, <3>3
  <2> QED
    BY <2>1, <2>3, <2>5, <2>6
<1>9. ledger[0].n + op[s].amount >= 0 /\ (ledger[0].exp = 0 => op[s].amount >= 0)
  BY <1>4, <1>7, <1>8
<1>10. ledger'[0].n = ledger[0].n + op[s].amount
  BY <1>2, <1>3, <1>9, CallFacts, StreamFacts, ExecFacts DEF Exec, BalanceInv, TypeInv
<1> QED
  BY <1>4, <1>6, <1>7, <1>8, <1>10

LEMMA ExecLateBalance ==
  ASSUME BalanceInv, ExecLate
  PROVE  LedgerBalanced'
<1>1. stray # NoOp
  BY NoOpFits DEF ExecLate, ExecReserve, ExecSettle
<1>2. faulty'
  BY <1>1 DEF ExecLate, BalanceInv, TypeInv, StrayFits
<1> QED
  BY <1>2, BalancedAfter

\* In its window a ledger does not expire.
LEMMA TickBalance ==
  ASSUME BalanceInv, TypeInv', Tick
  PROVE  LedgerBalanced'
<1> SUFFICES ASSUME ~faulty', Window' = 0 PROVE ledger'[0].n = Total'
  BY BalancedAfter
<1>1. Window = 0 /\ ~faulty /\ 0 \in Windows
  BY TickWindow, WindowFacts DEF BalanceInv, TypeInv, Tick
<1>2. ledger[0].n = Total
  BY <1>1, BalancedWhen DEF BalanceInv
<1>3. Total' = Total
  BY DEF Total, SumFunction, Charged, Tick
<1>4. now' \in Nat /\ Win \in Nat \ {0} /\ now' < Win
  <2>1. now' \in Nat /\ Win \in Nat \ {0}
    BY TickWindow, LedgerAssumption DEF BalanceInv, TypeInv
  <2>2. \A x \in Nat : x \div Win = 0 => x < Win
    BY <2>1
  <2> QED
    BY <2>1, <2>2 DEF Window
<1>5. ledger'[0] = IF ledger[0].exp < now' THEN NoKey ELSE ledger[0]
  BY <1>1 DEF Tick
<1>6. ledger[0].exp = 0 => ledger[0].n = 0
  BY <1>1 DEF BalanceInv, TypeInv, LedgerFits
<1>7. ledger[0].exp # 0 => ~(ledger[0].exp < now')
  <2>1. ledger[0].exp \in Nat
    BY <1>1 DEF BalanceInv, TypeInv, TypeOK
  <2>2. ledger[0].exp # 0 => ledger[0].exp >= Win
    BY <1>1 DEF BalanceInv, TypeInv, LedgerFits
  <2> QED
    BY <2>1, <2>2, <1>4
<1>8. ledger'[0].n = ledger[0].n
  BY <1>5, <1>6, <1>7 DEF NoKey
<1> QED
  BY <1>2, <1>3, <1>8

LEMMA NextBalance == BalanceInv /\ [Next]_vars => BalanceInv'
<1> SUFFICES ASSUME BalanceInv, [Next]_vars PROVE BalanceInv'
  OBVIOUS
<1>1. TypeInv'
  BY NextTypes DEF BalanceInv
<1>2. SUFFICES LedgerBalanced'
  BY <1>1 DEF BalanceInv
<1>3. ASSUME NEW s \in Streams, CopySSE(s) PROVE LedgerBalanced'
  BY <1>1, <1>3, OnDataBalance, ReserveBalance, OnEndBalance DEF CopySSE
<1>4. ASSUME NEW s \in Streams, CallFails(s) PROVE LedgerBalanced'
  BY <1>4, BalancedAfter DEF CallFails
<1>5. ASSUME UNCHANGED vars PROVE LedgerBalanced'
  BY <1>5 DEF vars, BalanceInv, LedgerBalanced, SumFunction, Charged, Window
<1> QED
  BY <1>1, <1>3, <1>4, <1>5, AdmitBalance, SettleBalance, ReserveBalance, ExecBalance,
     ExecLateBalance, TickBalance DEF Next

\* Within the first window and while no call fails or is resent, the ledger is the sum of
\* what the responses have charged, for any number of them and any interleaving of their
\* reserves and settlements: no refund is lost to the cut at zero or to a missing key.
THEOREM LedgerBalances == Spec => []LedgerBalanced
<1>1. Init => BalanceInv
  BY InitTypes, InitBalance DEF BalanceInv
<1>2. BalanceInv => LedgerBalanced
  BY DEF BalanceInv
<1> QED
  BY <1>1, <1>2, NextBalance, PTL DEF Spec
-----------------------------------------------------------------------------
(***************************************************************************)
(* The overshoot.  A window has room, under the bound, for what it holds   *)
(* and for all that can still be charged to it: by the calls on their way, *)
(* as often as they may still be sent, by the calls that the open          *)
(* responses may still begin (in the current window), and by the stray     *)
(* call.                                                                   *)
(***************************************************************************)
K == MaxRetries + 1

\* What an open response may still reserve or settle.
Future(s) ==
  IF pc[s] \in {"open", "flush", "tail", "final"} THEN PerResponse - flushed[s] ELSE 0

\* What call c can add to window w when it is executed n times.
Due(w, c, n) == IF c.w = w THEN Pos(c.amount) * n ELSE 0

Rem(w, s) == (IF w = Window THEN K * Future(s) ELSE 0) + Due(w, op[s], K - tries[s])

Load(w) == SumFunctionOnSet([s \in Streams |-> Rem(w, s)], Streams)

Held(w) == ledger[w].n + Load(w) + Due(w, stray, 1)

\* How many responses may charge a window that is used up.
Allowed == MaxOpen + Cardinality(Blind)

Most == (Limit - 1) + (Allowed * K + late) * PerResponse

OpenBounded == Cardinality(Holding) <= MaxOpen

Within == \A w \in Windows : w <= Window => Held(w) <= Most

OvershootInv == TypeInv /\ OpenBounded /\ Within

LEMMA KFacts ==
  K \in Nat \ {0} /\ MaxRetries \in Nat /\ MaxOpen \in Nat /\ Limit - 1 \in Nat /\ PerResponse \in Nat
BY LedgerAssumption, BufFacts DEF K

LEMMA AllowedFacts ==
  /\ IsFiniteSet(Blind) /\ IsFiniteSet(Open) /\ IsFiniteSet(Holding)
  /\ Cardinality(Blind) \in Nat /\ Cardinality(Open) \in Nat /\ Cardinality(Holding) \in Nat
  /\ Allowed \in Nat
<1>1. Blind \in SUBSET Streams /\ Open \in SUBSET Streams /\ Holding \in SUBSET Streams
  BY DEF Blind, Open, Holding
<1>2. IsFiniteSet(Blind) /\ IsFiniteSet(Open) /\ IsFiniteSet(Holding)
  BY <1>1, LedgerAssumption, FS_Subset
<1>3. Cardinality(Blind) \in Nat /\ Cardinality(Open) \in Nat /\ Cardinality(Holding) \in Nat
  BY <1>2, FS_CardinalityType
<1> QED
  BY <1>2, <1>3, KFacts DEF Allowed

\* A response that is open holds a slot or was admitted blindly.
LEMMA OpenAllowed ==
  ASSUME TypeInv, OpenBounded
  PROVE  Cardinality(Open) <= Allowed
<1> DEFINE H == Holding
           B == Blind
           O == Open
<1>1. O \in SUBSET (H \cup B)
  BY DEF Open, Holding, Blind
<1>2. IsFiniteSet(H) /\ IsFiniteSet(B) /\ Cardinality(H) \in Nat /\ Cardinality(B) \in Nat
      /\ Cardinality(O) \in Nat
  BY AllowedFacts
<1>3. Cardinality(H) <= MaxOpen /\ MaxOpen \in Nat
  BY KFacts DEF OpenBounded
<1> HIDE DEF H, B, O
<1>4. /\ IsFiniteSet(H \cup B)
      /\ Cardinality(H \cup B) = Cardinality(H) + Cardinality(B) - Cardinality(H \cap B)
  BY <1>2, FS_Union
<1>5. IsFiniteSet(H \cap B) /\ Cardinality(H \cap B) \in Nat
  BY <1>2, FS_Intersection, FS_CardinalityType
<1>6. Cardinality(O) <= Cardinality(H \cup B)
  BY <1>1, <1>4, FS_Subset
<1>7. Cardinality(O) <= MaxOpen + Cardinality(B)
  BY <1>2, <1>3, <1>4, <1>5, <1>6
<1> QED
  BY <1>7 DEF B, O, Allowed

LEMMA PosFacts ==
  ASSUME NEW x \in Int
  PROVE  Pos(x) \in Nat /\ x <= Pos(x) /\ (x \in Nat => Pos(x) = x) /\ (x <= 0 => Pos(x) = 0)
         /\ \A m \in Nat : x <= m => Pos(x) <= m
BY DEF Pos

\* Products of naturals.
LEMMA NatTimes ==
  ASSUME NEW a \in Nat, NEW b \in Nat, NEW c \in Nat, NEW d \in Nat, a <= c, b <= d
  PROVE  a * b \in Nat /\ c * d \in Nat /\ a * b <= c * d
<1>1. a * b \in Nat /\ c * d \in Nat /\ c * b \in Nat
  OBVIOUS
<1>2. a * b <= c * b
  BY TimesMonotone
<1>3. c * b <= c * d
  BY TimesMonotone
<1> QED
  BY <1>1, <1>2, <1>3

LEMMA DueFacts ==
  ASSUME NEW c \in Ops, NEW n \in Nat, NEW w, NEW m \in Nat, Pos(c.amount) <= m
  PROVE  Due(w, c, n) \in Nat /\ m * n \in Nat /\ Due(w, c, n) <= m * n
<1>1. c.amount \in Int
  BY DEF Ops
<1>2. Pos(c.amount) \in Nat
  BY <1>1, PosFacts
<1>3. Pos(c.amount) * n \in Nat /\ m * n \in Nat /\ Pos(c.amount) * n <= m * n
  BY <1>2, NatTimes
<1> QED
  BY <1>3 DEF Due

\* A call of nothing adds nothing.
LEMMA NothingDue ==
  ASSUME NEW w, NEW n \in Nat, NEW c, c.amount = 0
  PROVE  Due(w, c, n) = 0
<1>1. Pos(c.amount) = 0
  BY DEF Pos
<1>2. 0 * n = 0
  OBVIOUS
<1> QED
  BY <1>1, <1>2 DEF Due

\* The calls a response has left: at least the one on its way.
LEMMA TriesLeft ==
  ASSUME TypeInv, NEW s \in Streams
  PROVE  K - tries[s] \in Nat \ {0} /\ K - tries[s] <= K
BY StreamFacts, KFacts DEF K

LEMMA FutureFacts ==
  ASSUME TypeInv, NEW s \in Streams
  PROVE  /\ Future(s) \in Nat /\ K * Future(s) \in Nat
         /\ Future(s) <= PerResponse
<1>1. flushed[s] \in Nat /\ flushed[s] <= PerResponse
  BY StreamFacts DEF TypeInv, FitsAt
<1>2. Future(s) \in Nat /\ Future(s) <= PerResponse
  BY <1>1, KFacts DEF Future
<1> QED
  BY <1>2, KFacts, NatTimes

LEMMA RemFacts ==
  ASSUME TypeInv, NEW s \in Streams, NEW w \in Windows
  PROVE  /\ Rem(w, s) \in Nat /\ K * PerResponse \in Nat
         /\ Rem(w, s) <= IF s \in Open THEN K * PerResponse ELSE 0
<1> DEFINE F == IF w = Window THEN K * Future(s) ELSE 0
           D == Due(w, op[s], K - tries[s])
<1>1. Rem(w, s) = F + D
  BY DEF Rem
<1>2. F \in Nat /\ F <= K * Future(s) /\ K * Future(s) \in Nat
  BY FutureFacts
<1>3. op[s] \in Ops /\ op[s].amount \in Int /\ flushed[s] \in Nat /\ FitsAt(s)
      /\ flushed[s] <= PerResponse
  BY StreamFacts DEF TypeInv, FitsAt
<1>4. K * PerResponse \in Nat /\ K \in Nat /\ PerResponse \in Nat
  BY KFacts, NatTimes
<1>5. ASSUME NEW m \in Nat, Pos(op[s].amount) <= m
      PROVE  D \in Nat /\ D <= m * K /\ m * K \in Nat
  <2> DEFINE n == K - tries[s]
  <2>1. n \in Nat /\ n <= K
    BY TriesLeft
  <2> HIDE DEF n
  <2>2. Due(w, op[s], n) \in Nat /\ m * n \in Nat /\ Due(w, op[s], n) <= m * n
    BY <2>1, <1>3, <1>5, DueFacts
  <2>3. m * n <= m * K /\ m * K \in Nat
    BY <2>1, <1>4, NatTimes
  <2>4. Due(w, op[s], n) <= m * K
    BY <2>2, <2>3
  <2> QED
    BY <2>2, <2>3, <2>4 DEF n
<1> HIDE DEF F, D
<1>6. CASE pc[s] \in {"open", "flush", "tail", "final"}
  <2>1. s \in Open
    BY <1>6 DEF Open
  <2>2. Pos(op[s].amount) <= flushed[s]
    <3>1. CASE pc[s] \in {"flush", "tail"}
      BY <3>1, <1>3, PosFacts DEF FitsAt
    <3>2. CASE pc[s] \in {"open", "final"}
      BY <3>2, <1>3, NoOpFits, PosFacts DEF FitsAt
    <3> QED
      BY <3>1, <3>2, <1>6
  <2>3. D \in Nat /\ D <= flushed[s] * K /\ flushed[s] * K \in Nat
    BY <2>2, <1>3, <1>5
  <2>4. Future(s) = PerResponse - flushed[s]
    BY <1>6 DEF Future
  <2>5. K * (PerResponse - flushed[s]) = K * PerResponse - flushed[s] * K
    <3>1. (PerResponse - flushed[s]) * K = PerResponse * K - flushed[s] * K
      BY <1>3, <1>4, Times
    <3>2. (PerResponse - flushed[s]) * K = K * (PerResponse - flushed[s]) /\ PerResponse * K = K * PerResponse
      BY <1>3, <1>4, Times
    <3> QED
      BY <3>1, <3>2
  <2>6. F <= K * PerResponse - flushed[s] * K
    BY <1>2, <2>4, <2>5
  <2> QED
    BY <1>1, <1>2, <1>4, <2>1, <2>3, <2>6
<1>7. CASE pc[s] = "settle"
  <2>1. s \in Open
    BY <1>7 DEF Open
  <2>2. F = 0
    <3>1. Future(s) = 0
      BY <1>7 DEF Future
    <3>2. K * 0 = 0
      BY <1>4
    <3> QED
      BY <3>1, <3>2 DEF F
  <2>3. op[s].amount <= PerResponse
    BY <1>7, <1>3, CallFacts DEF FitsAt, Charging
  <2>4. D \in Nat /\ D <= PerResponse * K
    BY <2>3, <1>3, <1>4, <1>5, PosFacts
  <2>5. PerResponse * K = K * PerResponse
    BY <1>4
  <2> QED
    BY <1>1, <1>4, <2>1, <2>2, <2>4, <2>5
<1>8. CASE pc[s] \in {"new", "check", "over"}
  <2>1. s \notin Open
    BY <1>8 DEF Open
  <2>2. F = 0
    <3>1. Future(s) = 0
      BY <1>8 DEF Future
    <3>2. K * 0 = 0
      BY <1>4
    <3> QED
      BY <3>1, <3>2 DEF F
  <2>3. D = 0
    BY <1>8, <1>3, NoOpFits, NothingDue, TriesLeft DEF FitsAt, D
  <2> QED
    BY <1>1, <1>4, <2>1, <2>2, <2>3
<1> QED
  BY <1>6, <1>7, <1>8, StreamFacts DEF Places

LEMMA LoadFacts ==
  ASSUME TypeInv, NEW w \in Windows
  PROVE  /\ Load(w) \in Nat
         /\ Cardinality(Open) \in Nat /\ K * PerResponse \in Nat
         /\ Load(w) <= (K * PerResponse) * Cardinality(Open)
<1> DEFINE F == [s \in Streams |-> Rem(w, s)]
           k == K * PerResponse
<1>1. \A s \in Streams : /\ F[s] = Rem(w, s) /\ F[s] \in Nat
                         /\ F[s] <= IF s \in Open THEN k ELSE 0
  BY RemFacts
<1>2. k \in Nat
  BY KFacts, NatTimes
<1>3. IsFiniteSet(Streams) /\ Open \in SUBSET Streams /\ IsFiniteSet(Open)
      /\ Cardinality(Open) \in Nat
  BY LedgerAssumption, FS_Subset, FS_CardinalityType DEF Open
<1>4. Load(w) = SumFunctionOnSet(F, Streams)
  BY DEF Load
<1> HIDE DEF F, k
<1>5. SumFunctionOnSet(F, Streams) \in Nat
  BY <1>1, <1>3, SumAtLeast
<1>6. SumFunctionOnSet(F, Streams) <= k * Cardinality(Open)
  <2>1. \A s \in Streams : F[s] \in Int
    BY <1>1
  <2> QED
    BY <1>1, <1>2, <1>3, <2>1, SumAtMost
<1> QED
  BY <1>2, <1>3, <1>4, <1>5, <1>6 DEF k

LEMMA MostFacts ==
  ASSUME TypeInv
  PROVE  Most \in Nat /\ late \in Nat
         /\ Most = (Limit - 1) + (K * PerResponse) * Allowed + late * PerResponse
         /\ late * PerResponse \in Nat /\ (K * PerResponse) * Allowed \in Nat
<1>1. late \in Nat
  BY LedgerAssumption DEF TypeInv, TypeOK
<1>2. K \in Nat /\ PerResponse \in Nat /\ Allowed \in Nat /\ Limit - 1 \in Nat
  BY KFacts, AllowedFacts
<1>3. Allowed * K \in Nat /\ late * PerResponse \in Nat /\ (K * PerResponse) * Allowed \in Nat
  BY <1>1, <1>2
<1>4. (Allowed * K + late) * PerResponse = (Allowed * K) * PerResponse + late * PerResponse
  BY <1>1, <1>2, <1>3, Times
<1>5. (Allowed * K) * PerResponse = (K * PerResponse) * Allowed
  BY <1>2
<1> QED
  BY <1>1, <1>2, <1>3, <1>4, <1>5 DEF Most

\* What the stray call can add is paid for by late.
LEMMA StrayDue ==
  ASSUME TypeInv, NEW w \in Windows
  PROVE  Due(w, stray, 1) \in Nat /\ Due(w, stray, 1) <= late * PerResponse
<1>1. stray \in Ops /\ stray.amount \in Int /\ stray.amount <= PerResponse
  BY DEF TypeInv, TypeOK, StrayFits, Ops
<1>2. Pos(stray.amount) <= PerResponse /\ PerResponse \in Nat
  BY <1>1, KFacts, PosFacts
<1>3. Due(w, stray, 1) \in Nat /\ Due(w, stray, 1) <= PerResponse * 1
  BY <1>1, <1>2, DueFacts
<1>4. CASE stray = NoOp
  BY <1>4, NoOpFits, NothingDue, MostFacts
<1>5. CASE stray # NoOp
  <2>1. late \in Nat /\ late >= 1
    BY <1>5, MostFacts DEF TypeInv, StrayFits
  <2>2. 1 * PerResponse <= late * PerResponse /\ late * PerResponse \in Nat
    BY <2>1, <1>2, NatTimes
  <2> QED
    BY <2>2, <1>2, <1>3
<1> QED
  BY <1>4, <1>5

\* A window that admits, or has nothing charged to it, is within the bound whatever the
\* open responses do.
LEMMA Fresh ==
  ASSUME TypeInv, OpenBounded, NEW w \in Windows, ledger[w].n <= Limit - 1
  PROVE  Held(w) <= Most
<1>1. ledger[w].n \in Nat
  BY DEF TypeInv, TypeOK
<1> DEFINE k == K * PerResponse
           c == Cardinality(Open)
<1>2. Load(w) \in Nat /\ c \in Nat /\ k \in Nat /\ Load(w) <= k * c
  BY LoadFacts
<1>3. c <= Allowed /\ Allowed \in Nat /\ Limit - 1 \in Nat
  BY KFacts, AllowedFacts, OpenAllowed
<1>4. Most = (Limit - 1) + k * Allowed + late * PerResponse /\ late * PerResponse \in Nat
      /\ Most \in Nat
  BY MostFacts
<1> HIDE DEF k, c
<1>5. k * c <= k * Allowed /\ k * c \in Nat /\ k * Allowed \in Nat
  BY <1>2, <1>3, NatTimes
<1>6. Due(w, stray, 1) \in Nat /\ Due(w, stray, 1) <= late * PerResponse
  BY StrayDue
<1> QED
  BY <1>1, <1>2, <1>3, <1>4, <1>5, <1>6 DEF Held

LEMMA FreshAfter ==
  TypeInv' /\ OpenBounded' => (\A w \in Windows : ledger[w].n <= Limit - 1 => Held(w) <= Most)'
<1>1. TypeInv /\ OpenBounded => \A w \in Windows : ledger[w].n <= Limit - 1 => Held(w) <= Most
  BY Fresh
<1> QED
  BY <1>1, PTL

LEMMA RemNatAfter == TypeInv' => (\A w \in Windows : \A s \in Streams : Rem(w, s) \in Nat)'
<1>1. TypeInv => \A w \in Windows : \A s \in Streams : Rem(w, s) \in Nat
  BY RemFacts
<1> QED
  BY <1>1, PTL

\* When only s moves, the load of a window moves by what remains of s.
LEMMA LoadMoves ==
  ASSUME TypeInv, TypeInv', NEW s \in Streams, Elsewhere(s), UNCHANGED now, NEW w \in Windows
  PROVE  Load(w)' = Load(w) - Rem(w, s) + Rem(w, s)'
<1>1. \A t \in Streams : t # s => Rem(w, t)' = Rem(w, t)
  BY DEF Elsewhere, Rem, Future, Window
<1>2. \A t \in Streams : Rem(w, t) \in Nat /\ Rem(w, t)' \in Nat
  <2>1. \A t \in Streams : Rem(w, t) \in Nat
    BY RemFacts
  <2>2. (\A v \in Windows : \A t \in Streams : Rem(v, t) \in Nat)'
    BY RemNatAfter
  <2> QED
    BY <2>1, <2>2
<1>3. PICK f : f = [t \in Streams |-> Rem(w, t)]
  OBVIOUS
<1>4. PICK g : g = [t \in Streams |-> Rem(w, t)']
  OBVIOUS
<1>5. Load(w) = SumFunctionOnSet(f, Streams) /\ Load(w)' = SumFunctionOnSet(g, Streams)
  BY <1>3, <1>4 DEF Load
<1>6. /\ \A x \in Streams : f[x] \in Int /\ g[x] \in Int
      /\ \A x \in Streams : x # s => f[x] = g[x]
      /\ f[s] = Rem(w, s) /\ g[s] = Rem(w, s)'
  BY <1>1, <1>2, <1>3, <1>4
<1>7. SumFunctionOnSet(g, Streams) = SumFunctionOnSet(f, Streams) - f[s] + g[s]
  BY <1>6, SumUpdate, LedgerAssumption
<1> QED
  BY <1>5, <1>6, <1>7

\* The bound grows with the calls that are given up.
LEMMA MostGrows ==
  ASSUME TypeInv, TypeInv', late <= late', UNCHANGED how
  PROVE  Most <= Most' /\ Most \in Int /\ Most' \in Int
<1>1. late \in Nat /\ late' \in Nat
  BY LedgerAssumption DEF TypeInv, TypeOK
<1>2. PICK l \in Nat : l = late
  BY <1>1
<1>3. PICK m \in Nat : m = late'
  BY <1>1
<1>4. PICK n \in Nat : n = Allowed
  BY AllowedFacts
<1>5. Allowed' = n
  BY <1>4 DEF Allowed, Blind
<1> DEFINE a == n * K
<1>6. Most = (Limit - 1) + (a + l) * PerResponse /\ Most' = (Limit - 1) + (a + m) * PerResponse
  BY <1>2, <1>3, <1>4, <1>5 DEF Most
<1>7. a \in Nat /\ PerResponse \in Nat /\ Limit - 1 \in Nat /\ l <= m
  BY <1>2, <1>3, KFacts
<1> HIDE DEF a
<1>8. a + l \in Nat /\ a + m \in Nat /\ a + l <= a + m
  BY <1>7
<1>9. (a + l) * PerResponse <= (a + m) * PerResponse
      /\ (a + l) * PerResponse \in Nat /\ (a + m) * PerResponse \in Nat
  BY <1>7, <1>8, NatTimes
<1> QED
  BY <1>6, <1>7, <1>9

\* The bound grows with every blind admission, by all that one response can charge.
LEMMA MostGrowsBlind ==
  ASSUME TypeInv, TypeInv', NEW s \in Streams, Elsewhere(s), how[s] = "no",
         how'[s] \in {"stale", "degraded"}, UNCHANGED late
  PROVE  Most' = Most + K * PerResponse /\ Most \in Int /\ K * PerResponse \in Nat
<1>1. PICK b : b = Blind
  OBVIOUS
<1>2. Blind' = b \cup {s} /\ s \notin b
  BY <1>1 DEF Blind, Elsewhere
<1>3. IsFiniteSet(b) /\ Cardinality(b) \in Nat
  BY <1>1, AllowedFacts
<1>4. Cardinality(b \cup {s}) = Cardinality(b) + 1
  BY <1>2, <1>3, FS_AddElement
<1>5. PICK n \in Nat : n = Allowed
  BY AllowedFacts
<1>6. Allowed' = n + 1
  BY <1>1, <1>2, <1>3, <1>4, <1>5, KFacts DEF Allowed
<1>7. PICK l \in Nat : l = late
  BY LedgerAssumption DEF TypeInv, TypeOK
<1>8. Most = (Limit - 1) + (n * K + l) * PerResponse
      /\ Most' = (Limit - 1) + ((n + 1) * K + l) * PerResponse
  BY <1>5, <1>6, <1>7 DEF Most
<1>9. K \in Nat /\ PerResponse \in Nat /\ Limit - 1 \in Nat
  BY KFacts
<1>10. (n + 1) * K + l = (n * K + l) + K /\ n * K + l \in Nat
  BY <1>9
<1> DEFINE a == n * K + l
<1>11. Most = (Limit - 1) + a * PerResponse /\ Most' = (Limit - 1) + (a + K) * PerResponse /\ a \in Nat
  BY <1>8, <1>10
<1> HIDE DEF a
<1>12. (a + K) * PerResponse = a * PerResponse + K * PerResponse
       /\ a * PerResponse \in Nat /\ K * PerResponse \in Nat
  BY <1>9, <1>11, Times
<1> QED
  BY <1>9, <1>11, <1>12

\* A step of s keeps the bound when it charges no more than it frees.
LEMMA WithinStep ==
  ASSUME OvershootInv, TypeInv', NEW s \in Streams, Elsewhere(s), UNCHANGED <<now, how>>,
         late <= late',
         \A w \in Windows : w <= Window =>
           ledger'[w].n + Rem(w, s)' + Due(w, stray', 1) <= ledger[w].n + Rem(w, s) + Due(w, stray, 1)
  PROVE  Within'
<1> SUFFICES ASSUME NEW w \in Windows, w <= Window PROVE Held(w)' <= Most'
  BY DEF Within, Window
<1>1. TypeInv /\ Held(w) <= Most
  BY DEF OvershootInv, Within
<1>2. Load(w)' = Load(w) - Rem(w, s) + Rem(w, s)'
  BY <1>1, LoadMoves
<1>3. Held(w)' = ledger'[w].n + Load(w)' + Due(w, stray', 1)
      /\ Held(w) = ledger[w].n + Load(w) + Due(w, stray, 1)
  BY DEF Held
<1>4. ledger'[w].n \in Int /\ ledger[w].n \in Int
  BY <1>1 DEF TypeInv, TypeOK
<1>5. Load(w) \in Int /\ Rem(w, s) \in Int /\ Rem(w, s)' \in Int
  <2>1. (\A v \in Windows : \A t \in Streams : Rem(v, t) \in Nat)'
    BY RemNatAfter
  <2>2. Rem(w, s)' \in Nat
    BY <2>1
  <2> QED
    BY <2>2, <1>1, LoadFacts, RemFacts
<1>6. Due(w, stray, 1) \in Int /\ Due(w, stray', 1) \in Int
  <2>1. \A c \in Ops : Due(w, c, 1) \in Int
    BY PosFacts DEF Due, Ops
  <2> QED
    BY <2>1, <1>1 DEF TypeInv, TypeOK
<1>7. Most <= Most' /\ Most \in Int /\ Most' \in Int
  BY <1>1, MostGrows
<1>8. ledger'[w].n + Rem(w, s)' + Due(w, stray', 1) <= ledger[w].n + Rem(w, s) + Due(w, stray, 1)
  OBVIOUS
<1>9. Held(w)' <= Held(w) /\ Held(w) \in Int /\ Held(w)' \in Int
  BY <1>2, <1>3, <1>4, <1>5, <1>6, <1>8
<1> QED
  BY <1>1, <1>7, <1>9

\* The same for a step that touches neither Redis nor a stray call.
LEMMA WithinKept ==
  ASSUME OvershootInv, TypeInv', NEW s \in Streams, Elsewhere(s),
         UNCHANGED <<now, ledger, how, stray, late>>,
         \A w \in Windows : Rem(w, s)' <= Rem(w, s)
  PROVE  Within'
<1>1. late <= late'
  BY LedgerAssumption DEF OvershootInv, TypeInv, TypeOK
<1>2. ASSUME NEW w \in Windows
      PROVE  ledger'[w].n + Rem(w, s)' + Due(w, stray', 1) <= ledger[w].n + Rem(w, s) + Due(w, stray, 1)
  <2>1. ledger'[w].n = ledger[w].n /\ ledger[w].n \in Int
    BY DEF OvershootInv, TypeInv, TypeOK
  <2>2. Due(w, stray', 1) = Due(w, stray, 1) /\ Due(w, stray, 1) \in Int
    BY StrayDue DEF OvershootInv, Due
  <2>3. (\A v \in Windows : \A t \in Streams : Rem(v, t) \in Nat)'
    BY RemNatAfter
  <2>4. Rem(w, s) \in Int /\ Rem(w, s)' \in Int
    BY <2>3, RemFacts DEF OvershootInv
  <2> QED
    BY <2>1, <2>2, <2>4
<1> QED
  BY <1>1, <1>2, WithinStep

LEMMA OpenShrinks ==
  ASSUME OpenBounded, Holding' \in SUBSET Holding
  PROVE  OpenBounded'
<1>1. PICK a : a = Holding
  OBVIOUS
<1>2. PICK b : b = Holding'
  OBVIOUS
<1>3. IsFiniteSet(a) /\ b \in SUBSET a
  BY <1>1, <1>2, LedgerAssumption, FS_Subset DEF Holding, Open
<1>4. Cardinality(b) <= Cardinality(a) /\ Cardinality(a) \in Nat /\ Cardinality(b) \in Nat
  BY <1>3, FS_Subset, FS_CardinalityType
<1>5. Cardinality(a) <= MaxOpen /\ MaxOpen \in Nat
  BY <1>1, KFacts DEF OpenBounded
<1>6. Cardinality(b) <= MaxOpen
  BY <1>4, <1>5
<1> QED
  BY <1>2, <1>6 DEF OpenBounded

\* A response that is open already opens no other.
LEMMA OpenStays ==
  ASSUME OpenBounded, NEW s \in Streams, pc[s] \notin {"new", "check", "over"}, Elsewhere(s),
         UNCHANGED how
  PROVE  OpenBounded'
<1>1. Holding' \in SUBSET Holding
  BY DEF Holding, Open, Elsewhere
<1> QED
  BY <1>1, OpenShrinks

\* What remains of a response without a call.
LEMMA RemIdle ==
  ASSUME TypeInv, NEW s \in Streams, NEW w \in Windows,
         pc[s] \in {"new", "check", "open", "final", "over"}
  PROVE  Rem(w, s) = IF w = Window THEN K * Future(s) ELSE 0
<1>1. Due(w, op[s], K - tries[s]) = 0
  BY NoOpFits, NothingDue, TriesLeft DEF TypeInv, FitsAt
<1>2. K * Future(s) \in Nat
  BY FutureFacts
<1> QED
  BY <1>1, <1>2 DEF Rem

LEMMA RemIdleAfter ==
  TypeInv' => (\A s \in Streams : \A w \in Windows : pc[s] \in {"new", "check", "open", "final", "over"} =>
                 Rem(w, s) = IF w = Window THEN K * Future(s) ELSE 0)'
<1>1. TypeInv => (\A s \in Streams : \A w \in Windows : pc[s] \in {"new", "check", "open", "final", "over"} =>
                    Rem(w, s) = IF w = Window THEN K * Future(s) ELSE 0)
  BY RemIdle
<1> QED
  BY <1>1, PTL

\* A response that moves between two calls, without a change of its counter.
LEMMA IdleStep ==
  ASSUME OvershootInv, TypeInv', NEW s \in Streams, Elsewhere(s),
         pc[s] \in {"open", "final"}, pc'[s] \in {"open", "final", "over"},
         UNCHANGED <<now, ledger, how, stray, late, flushed>>
  PROVE  OpenBounded' /\ Within'
<1>1. TypeInv /\ OpenBounded
  BY DEF OvershootInv
<1>2. OpenBounded'
  BY <1>1, OpenStays
<1>3. ASSUME NEW w \in Windows PROVE Rem(w, s)' <= Rem(w, s)
  <2>1. Rem(w, s) = IF w = Window THEN K * Future(s) ELSE 0
    BY <1>1, RemIdle
  <2>2. Rem(w, s)' = IF w = Window' THEN K * Future(s)' ELSE 0
    BY RemIdleAfter
  <2>3. Window' = Window
    BY DEF Window
  <2>4. Future(s)' = Future(s) \/ Future(s)' = 0
    BY DEF Future
  <2>5. K * Future(s) \in Nat /\ K * 0 = 0
    BY <1>1, FutureFacts, KFacts
  <2> QED
    BY <2>1, <2>2, <2>3, <2>4, <2>5
<1>4. Within'
  BY <1>3, WithinKept
<1> QED
  BY <1>2, <1>4

\* A reserve that begins moves what a response may still charge into its call.
LEMMA BeginReserveWithin ==
  ASSUME OvershootInv, TypeInv', NEW s \in Streams, pc[s] = "open", NEW d \in Nat,
         NEW next \in {"flush", "tail"}, BeginReserve(s, d, next),
         UNCHANGED <<now, ledger, how, estimated, exact, tries, stray, late, faulty>>
  PROVE  OpenBounded' /\ Within'
<1>1. TypeInv /\ OpenBounded
  BY DEF OvershootInv
<1>2. Elsewhere(s)
  BY <1>1 DEF Elsewhere, TypeInv, TypeOK, BeginReserve
<1>3. /\ flushed'[s] = flushed[s] + d /\ pc'[s] = next
      /\ op'[s] = [name |-> "reserve", w |-> Window, amount |-> d]
  BY <1>1 DEF TypeInv, TypeOK, BeginReserve, Call
<1>4. op'[s].w = Window /\ op'[s].amount = d
  BY <1>3
<1>5. tries'[s] = 0
  BY <1>1 DEF TypeInv, FitsAt
<1>6. ASSUME NEW w \in Windows PROVE Rem(w, s)' <= Rem(w, s)
  <2> DEFINE f == flushed[s]
  <2>1. f \in Nat /\ PerResponse \in Nat /\ K \in Nat
    BY <1>1, StreamFacts, KFacts
  <2>2. Rem(w, s) = IF w = Window THEN K * (PerResponse - f) ELSE 0
    BY <1>1, RemIdle DEF Future
  <2>3. Future(s)' = PerResponse - (f + d) /\ Window' = Window
    BY <1>3 DEF Future, Window
  <2>4. Rem(w, s)' = (IF w = Window THEN K * (PerResponse - (f + d)) ELSE 0) + Due(w, op'[s], K - 0)
    BY <2>3, <1>5 DEF Rem
  <2>5. Due(w, op'[s], K - 0) = IF w = Window THEN d * K ELSE 0
    BY <2>1, <1>4, PosFacts DEF Due
  <2>6. K * (PerResponse - (f + d)) + d * K = K * (PerResponse - f)
        /\ K * (PerResponse - f) \in Int
    BY <2>1
  <2> HIDE DEF f
  <2>7. Rem(w, s)' = Rem(w, s) /\ Rem(w, s) \in Int
    BY <2>2, <2>4, <2>5, <2>6
  <2> QED
    BY <2>7
<1>7. Within'
  BY <1>2, <1>6, WithinKept
<1> QED
  BY <1>1, <1>2, <1>7, OpenStays

LEMMA SettleWithin ==
  ASSUME OvershootInv, TypeInv', NEW s \in Streams, Settle(s)
  PROVE  OpenBounded' /\ Within'
<1>1. TypeInv /\ OpenBounded
  BY DEF OvershootInv
<1>2. Elsewhere(s)
  BY <1>1 DEF Elsewhere, TypeInv, TypeOK, Settle
<1>3. CASE ~(exact[s] # NoUsage /\ Adjust(s) # 0)
  <2>1. pc'[s] = "over"
    BY <1>1, <1>3 DEF TypeInv, TypeOK, Settle
  <2> QED
    BY <1>2, <2>1, IdleStep DEF Settle
<1>4. CASE exact[s] # NoUsage /\ Adjust(s) # 0
  <2>1. /\ op'[s] = [name |-> "settle", w |-> Window, amount |-> Adjust(s)]
        /\ pc'[s] = "settle"
    BY <1>1, <1>4 DEF TypeInv, TypeOK, Settle, Call
  <2>2. op'[s].w = Window /\ op'[s].amount = Adjust(s)
    BY <2>1
  <2>3. tries'[s] = 0
    BY <1>1 DEF TypeInv, FitsAt, Settle
  <2>4. ASSUME NEW w \in Windows PROVE Rem(w, s)' <= Rem(w, s)
    <3> DEFINE f == flushed[s]
               a == Adjust(s)
    <3>1. f \in Nat /\ PerResponse \in Nat /\ K \in Nat /\ a \in Int /\ a <= PerResponse - f
          /\ PerResponse - f \in Nat
      BY <1>1, StreamFacts, KFacts DEF Adjust, TypeInv, FitsAt
    <3>2. Rem(w, s) = IF w = Window THEN K * (PerResponse - f) ELSE 0
      BY <1>1, RemIdle DEF Future, Settle
    <3>3. Future(s)' = 0 /\ Window' = Window
      BY <2>1 DEF Future, Window, Settle
    <3>4. Rem(w, s)' = (IF w = Window THEN K * 0 ELSE 0) + Due(w, op'[s], K - 0)
      BY <3>3, <2>3 DEF Rem
    <3>5. Due(w, op'[s], K - 0) = IF w = Window THEN Pos(a) * K ELSE 0
      BY <3>1, <2>2 DEF Due
    <3> HIDE DEF f, a
    <3>6. Pos(a) \in Nat /\ Pos(a) <= PerResponse - f
      BY <3>1, PosFacts
    <3>7. Pos(a) * K <= (PerResponse - f) * K /\ (PerResponse - f) * K = K * (PerResponse - f)
          /\ K * (PerResponse - f) \in Int /\ Pos(a) * K \in Int
      BY <3>1, <3>6, TimesMonotone
    <3>8. K * 0 = 0
      BY <3>1
    <3> QED
      BY <3>2, <3>4, <3>5, <3>7, <3>8
  <2>5. Within'
    BY <1>2, <2>4, WithinKept DEF Settle
  <2> QED
    BY <1>1, <1>2, <2>5, OpenStays DEF Settle
<1> QED
  BY <1>3, <1>4

LEMMA CopyWithin ==
  ASSUME OvershootInv, TypeInv', NEW s \in Streams, CopySSE(s) \/ JsonResponse(s)
  PROVE  OpenBounded' /\ Within'
<1>1. TypeInv /\ OpenBounded
  BY DEF OvershootInv
<1>2. CASE OnData(s) \/ OnUsage(s)
  <2>1. Elsewhere(s) /\ pc'[s] = pc[s] /\ pc[s] = "open"
    BY <1>1, <1>2 DEF Elsewhere, TypeInv, TypeOK, OnData, OnUsage
  <2> QED
    BY <1>2, <2>1, IdleStep DEF OnData, OnUsage
<1>3. CASE OnFlushTick(s)
  BY <1>1, <1>3, StreamFacts, BeginReserveWithin DEF OnFlushTick
<1>4. CASE OnEnd(s) /\ Pending(s) > 0
  BY <1>1, <1>4, StreamFacts, BeginReserveWithin DEF OnEnd
<1>5. CASE OnEnd(s) /\ ~(Pending(s) > 0)
  <2>1. Elsewhere(s) /\ pc'[s] = "final" /\ pc[s] = "open"
    BY <1>1, <1>5 DEF Elsewhere, TypeInv, TypeOK, OnEnd
  <2> QED
    BY <1>5, <2>1, IdleStep DEF OnEnd
<1>6. CASE JsonResponse(s)
  <2>1. PICK u \in 1 .. MaxExact : BeginReserve(s, u, "tail")
    BY <1>6 DEF JsonResponse
  <2>2. u \in Nat
    BY LedgerAssumption
  <2> QED
    BY <1>6, <2>1, <2>2, BeginReserveWithin DEF JsonResponse
<1> QED
  BY <1>2, <1>3, <1>4, <1>5, <1>6 DEF CopySSE

LEMMA RemMostAfter ==
  TypeInv' => (\A w \in Windows : \A s \in Streams :
                 Rem(w, s) \in Nat /\ Rem(w, s) <= K * PerResponse)'
<1>1. TypeInv => \A w \in Windows : \A s \in Streams :
                   Rem(w, s) \in Nat /\ Rem(w, s) <= K * PerResponse
  BY RemFacts
<1> QED
  BY <1>1, PTL

\* What remains of a response that is on its way to the admission, or opens.
LEMMA AdmitRem ==
  ASSUME TypeInv, TypeInv', NEW s \in Streams, UNCHANGED now, NEW w \in Windows,
         pc[s] \in {"new", "check"}, pc'[s] \in {"check", "open", "over"}
  PROVE  /\ Rem(w, s) = 0
         /\ pc'[s] # "open" \/ w # Window => Rem(w, s)' = 0
         /\ Rem(w, s)' \in Nat /\ K * PerResponse \in Nat /\ Rem(w, s)' <= K * PerResponse
<1>1. Future(s) = 0 /\ (pc'[s] # "open" => Future(s)' = 0) /\ Window' = Window
  BY DEF Future, Window
<1>2. K * 0 = 0 /\ K \in Nat
  BY KFacts
<1>3. Rem(w, s) = IF w = Window THEN K * Future(s) ELSE 0
  BY RemIdle
<1>4. Rem(w, s)' = IF w = Window' THEN K * Future(s)' ELSE 0
  BY RemIdleAfter
<1>5. Rem(w, s)' \in Nat /\ K * PerResponse \in Nat /\ Rem(w, s)' <= K * PerResponse
  BY RemMostAfter, RemFacts
<1> QED
  BY <1>1, <1>2, <1>3, <1>4, <1>5

\* A call that begins or is made again, or a refusal, adds nothing.
LEMMA RefusedWithin ==
  ASSUME OvershootInv, TypeInv', NEW s \in Streams, Elsewhere(s),
         pc[s] \in {"new", "check"}, pc'[s] \in {"check", "over"},
         UNCHANGED <<now, ledger, how, stray, late>>
  PROVE  OpenBounded' /\ Within'
<1>1. TypeInv /\ OpenBounded
  BY DEF OvershootInv
<1>2. Holding' \in SUBSET Holding
  BY DEF Holding, Open, Elsewhere
<1>3. ASSUME NEW w \in Windows PROVE Rem(w, s)' <= Rem(w, s)
  BY <1>1, AdmitRem
<1> QED
  BY <1>1, <1>2, <1>3, OpenShrinks, WithinKept

\* A response that opens blindly pays for itself.
LEMMA BlindWithin ==
  ASSUME OvershootInv, TypeInv', NEW s \in Streams, Elsewhere(s), how[s] = "no",
         how'[s] \in {"stale", "degraded"}, pc[s] = "check", pc'[s] = "open",
         UNCHANGED <<now, ledger, stray, late>>
  PROVE  Within'
<1> SUFFICES ASSUME NEW w \in Windows, w <= Window PROVE Held(w)' <= Most'
  BY DEF Within, Window
<1>1. TypeInv /\ Held(w) <= Most
  BY DEF OvershootInv, Within
<1>2. Load(w)' = Load(w) - Rem(w, s) + Rem(w, s)'
  BY <1>1, LoadMoves
<1>3. Rem(w, s) = 0 /\ Rem(w, s)' \in Nat /\ Rem(w, s)' <= K * PerResponse
  BY <1>1, AdmitRem
<1>4. Most' = Most + K * PerResponse /\ Most \in Int /\ K * PerResponse \in Nat
  BY <1>1, MostGrowsBlind
<1>5. Held(w)' = ledger[w].n + Load(w)' + Due(w, stray, 1)
      /\ Held(w) = ledger[w].n + Load(w) + Due(w, stray, 1)
  BY DEF Held
<1>6. ledger[w].n \in Int /\ Load(w) \in Int /\ Due(w, stray, 1) \in Int
  BY <1>1, LoadFacts, StrayDue DEF TypeInv, TypeOK
<1> QED
  BY <1>1, <1>2, <1>3, <1>4, <1>5, <1>6

\* One more response holds a slot, when there is room for it.
LEMMA SlotTaken ==
  ASSUME NEW s \in Streams, Elsewhere(s), Cardinality(Holding) < MaxOpen
  PROVE  OpenBounded'
<1>1. PICK a : a = Holding
  OBVIOUS
<1>2. PICK b : b = Holding'
  OBVIOUS
<1>3. IsFiniteSet(a) /\ Cardinality(a) \in Nat /\ b \in SUBSET (a \cup {s})
  BY <1>1, <1>2, AllowedFacts DEF Holding, Open, Elsewhere
<1>4. IsFiniteSet(a \cup {s})
      /\ Cardinality(a \cup {s}) = IF s \in a THEN Cardinality(a) ELSE Cardinality(a) + 1
  BY <1>3, FS_AddElement
<1>5. Cardinality(b) <= Cardinality(a \cup {s}) /\ Cardinality(b) \in Nat
  BY <1>3, <1>4, FS_Subset, FS_CardinalityType
<1>6. Cardinality(a) < MaxOpen /\ MaxOpen \in Nat
  BY <1>1, KFacts
<1>7. Cardinality(b) <= MaxOpen
  BY <1>3, <1>4, <1>5, <1>6
<1> QED
  BY <1>2, <1>7 DEF OpenBounded

\* A response that is admitted on the current window: its budget is not used up.
LEMMA CheckedWithin ==
  ASSUME OvershootInv, TypeInv', NEW s \in Streams, Elsewhere(s), Admits(Window),
         pc[s] = "check", pc'[s] = "open", how[s] = "no", how'[s] = "checked",
         Cardinality(Holding) < MaxOpen, UNCHANGED <<now, ledger, stray, late>>
  PROVE  OpenBounded' /\ Within'
<1>1. TypeInv /\ OpenBounded'
  BY SlotTaken DEF OvershootInv
<1>2. ASSUME NEW w \in Windows, w <= Window PROVE Held(w)' <= Most'
  <2>1. CASE w = Window
    <3>1. ledger[w].n \in Nat /\ ledger[w].n < Limit /\ Limit \in Nat
      BY <2>1, <1>1, LedgerAssumption DEF Admits, TypeInv, TypeOK
    <3>2. ledger'[w].n <= Limit - 1
      BY <3>1
    <3> QED
      BY <3>2, <1>1, FreshAfter
  <2>2. CASE w # Window
    <3>1. Load(w)' = Load(w) - Rem(w, s) + Rem(w, s)'
      BY <1>1, LoadMoves
    <3>2. Rem(w, s)' = 0 /\ Rem(w, s) = 0 /\ Load(w) \in Int
      BY <2>2, <1>1, AdmitRem, LoadFacts
    <3>3. Load(w)' = Load(w)
      BY <3>1, <3>2
    <3>4. Blind' = Blind
      BY DEF Blind, Elsewhere
    <3>5. Held(w)' = Held(w) /\ Most' = Most
      BY <3>3, <3>4 DEF Held, Most, Allowed
    <3> QED
      BY <1>2, <3>5 DEF OvershootInv, Within
  <2> QED
    BY <2>1, <2>2
<1> QED
  BY <1>1, <1>2 DEF Within, Window

LEMMA AdmitWithin ==
  ASSUME OvershootInv, TypeInv', NEW s \in Streams, Check(s) \/ ExecAdmit(s) \/ CheckFails(s)
  PROVE  OpenBounded' /\ Within'
<1>1. TypeInv /\ OpenBounded
  BY DEF OvershootInv
<1>2. FitsAt(s) /\ pc[s] \in {"new", "check"} /\ how[s] = "no"
      /\ (op[s].name = "admit" => pc[s] = "check")
  BY <1>1, Checking DEF TypeInv, FitsAt, Check, ExecAdmit, CheckFails
<1>3. CASE Check(s)
  <2>1. Elsewhere(s) /\ pc'[s] = "check"
    BY <1>1, <1>3 DEF Elsewhere, TypeInv, TypeOK, Check
  <2> QED
    BY <2>1, <1>2, <1>3, RefusedWithin DEF Check
<1>4. CASE ExecAdmit(s) /\ Resend(s)
  <2>1. Elsewhere(s) /\ pc'[s] = pc[s] /\ pc[s] = "check"
    BY <1>1, <1>2, <1>4 DEF Elsewhere, TypeInv, TypeOK, ExecAdmit, Resend
  <2> QED
    BY <2>1, <1>4, RefusedWithin DEF ExecAdmit, Resend
<1>5. ASSUME Admitted(s, "no"), ExecAdmit(s) \/ CheckFails(s) PROVE OpenBounded' /\ Within'
  <2>1. Elsewhere(s) /\ pc'[s] = "over"
    BY <1>1, <1>5, AdmittedFacts DEF ExecAdmit, CheckFails
  <2>2. how' = how
    BY <1>1, <1>2, <1>5 DEF Admitted, TypeInv, TypeOK
  <2> QED
    BY <2>1, <2>2, <1>2, <1>5, RefusedWithin DEF ExecAdmit, CheckFails
<1>6. CASE CheckFails(s) /\ Admitted(s, "degraded")
  <2>1. Elsewhere(s) /\ pc'[s] = "open" /\ how'[s] = "degraded"
    BY <1>1, <1>6, AdmittedFacts DEF CheckFails
  <2>2. Holding' \in SUBSET Holding
    BY <2>1 DEF Holding, Open, Elsewhere
  <2> QED
    BY <2>1, <2>2, <1>1, <1>2, <1>6, OpenShrinks, BlindWithin DEF CheckFails
<1>7. CASE ExecAdmit(s) /\ ~Resend(s) /\ Admits(op[s].w) /\ ~(Cardinality(Holding) >= MaxOpen)
  <2>1. Cardinality(Holding) < MaxOpen
    BY <1>7, AllowedFacts, KFacts
  <2>2. CASE op[s].w = Window
    <3>1. Admitted(s, "checked")
      BY <1>7, <2>2 DEF ExecAdmit
    <3>2. Elsewhere(s) /\ pc'[s] = "open" /\ how'[s] = "checked"
      BY <3>1, <1>1, <1>7, AdmittedFacts DEF ExecAdmit
    <3> QED
      BY <3>2, <2>1, <2>2, <1>2, <1>7, CheckedWithin DEF ExecAdmit
  <2>3. CASE op[s].w # Window
    <3>1. Admitted(s, "stale")
      BY <1>7, <2>3 DEF ExecAdmit
    <3>2. Elsewhere(s) /\ pc'[s] = "open" /\ how'[s] = "stale"
      BY <3>1, <1>1, <1>7, AdmittedFacts DEF ExecAdmit
    <3> QED
      BY <3>2, <2>1, <1>2, <1>7, SlotTaken, BlindWithin DEF ExecAdmit
  <2> QED
    BY <2>2, <2>3
<1>8. CASE ExecAdmit(s) /\ ~Resend(s) /\ (~Admits(op[s].w) \/ Cardinality(Holding) >= MaxOpen)
  <2>1. Admitted(s, "no")
    BY <1>8 DEF ExecAdmit
  <2> QED
    BY <2>1, <1>5, <1>8
<1> QED
  BY <1>3, <1>4, <1>5, <1>6, <1>7, <1>8 DEF CheckFails

\* What remains of a response when its call returns: less by the call.
LEMMA ReturnRem ==
  ASSUME TypeInv, TypeInv', NEW s \in Streams, Charging(s), Return(s),
         UNCHANGED <<now, how, estimated, exact, flushed>>, NEW w \in Windows
  PROVE  Rem(w, s)' + Due(w, op[s], 1) <= Rem(w, s)
<1>1. pc[s] \in {"flush", "tail", "settle"}
  BY CallFacts
<1>2. pc'[s] \in {"open", "final", "over"} /\ (pc'[s] = "over" <=> pc[s] = "settle")
  BY <1>1, ReturnFacts
<1>3. Rem(w, s)' = IF w = Window' THEN K * Future(s)' ELSE 0
  BY <1>2, RemIdleAfter
<1>4. Future(s)' = Future(s) /\ Window' = Window
  BY <1>1, <1>2 DEF Future, Window
<1> DEFINE F == IF w = Window THEN K * Future(s) ELSE 0
           n == K - tries[s]
<1>5. F \in Nat /\ Rem(w, s)' = F /\ Rem(w, s) = F + Due(w, op[s], n)
  BY <1>3, <1>4, FutureFacts DEF Rem
<1>6. n \in Nat /\ 1 <= n
  BY TriesLeft
<1> HIDE DEF F, n
<1>7. Pos(op[s].amount) \in Nat
  BY StreamFacts, PosFacts
<1>8. /\ Pos(op[s].amount) * 1 <= Pos(op[s].amount) * n
      /\ Pos(op[s].amount) * 1 \in Nat /\ Pos(op[s].amount) * n \in Nat
  BY <1>6, <1>7, NatTimes
<1>9. /\ Due(w, op[s], 1) <= Due(w, op[s], n)
      /\ Due(w, op[s], 1) \in Nat /\ Due(w, op[s], n) \in Nat
  BY <1>8 DEF Due
<1> QED
  BY <1>5, <1>9

\* What remains when it is sent again: less by the one that was executed.
LEMMA ResendRem ==
  ASSUME TypeInv, TypeInv', NEW s \in Streams, tries'[s] = tries[s] + 1,
         UNCHANGED <<now, flushed, op, pc>>, NEW w \in Windows
  PROVE  Rem(w, s)' + Due(w, op[s], 1) <= Rem(w, s)
<1> DEFINE F == IF w = Window THEN K * Future(s) ELSE 0
           n == K - tries[s]
           a == Pos(op[s].amount)
<1>1. tries[s] \in Nat /\ K \in Nat /\ n \in Int /\ K - (tries[s] + 1) = n - 1
  BY StreamFacts, KFacts
<1>2. F \in Nat /\ Rem(w, s)' = F + Due(w, op[s], n - 1) /\ Rem(w, s) = F + Due(w, op[s], n)
  BY <1>1, FutureFacts DEF Rem, Future, Window
<1>3. a \in Nat
  BY StreamFacts, PosFacts
<1>4. Due(w, op[s], n - 1) = (IF op[s].w = w THEN a * (n - 1) ELSE 0)
      /\ Due(w, op[s], n) = (IF op[s].w = w THEN a * n ELSE 0)
      /\ Due(w, op[s], 1) = (IF op[s].w = w THEN a * 1 ELSE 0)
  BY DEF Due
<1> HIDE DEF F, n, a
<1>5. a * (n - 1) + a * 1 = a * n /\ a * n \in Int /\ a * (n - 1) \in Int /\ a * 1 \in Int
  BY <1>1, <1>3
<1> QED
  BY <1>2, <1>4, <1>5

\* An execution fills the window by no more than it frees.
LEMMA ExecWithin ==
  ASSUME OvershootInv, TypeInv', NEW s \in Streams, Exec(s)
  PROVE  OpenBounded' /\ Within'
<1>1. TypeInv /\ OpenBounded
  BY DEF OvershootInv
<1>2. Charging(s)
  BY DEF Exec, ExecReserve, ExecSettle, Charging
<1>3. pc[s] \in {"flush", "tail", "settle"}
  BY <1>1, <1>2, CallFacts
<1>4. /\ \A w \in Windows : w # op[s].w => ledger'[w] = ledger[w]
      /\ ledger'[op[s].w].n <= ledger[op[s].w].n + Pos(op[s].amount)
  BY <1>1, <1>2, CallFacts, StreamFacts, ExecFacts DEF Exec, TypeInv
<1>5. /\ \A w \in Windows : Rem(w, s)' + Due(w, op[s], 1) <= Rem(w, s)
      /\ Elsewhere(s)
  <2>1. CASE Return(s)
    BY <2>1, <1>1, <1>2, ReturnRem, ReturnFits DEF Exec
  <2>2. CASE Resend(s)
    <3>1. tries'[s] = tries[s] + 1 /\ Elsewhere(s)
      BY <2>2, <1>1, ResendFacts DEF Exec
    <3> QED
      BY <2>2, <3>1, <1>1, ResendRem DEF Exec, Resend
  <2> QED
    BY <2>1, <2>2 DEF Exec, Replied
<1>6. late' = late /\ late <= late' /\ stray' = stray
  BY <1>1, LedgerAssumption DEF Exec, TypeInv, TypeOK
<1>7. ASSUME NEW w \in Windows
      PROVE  ledger'[w].n + Rem(w, s)' + Due(w, stray', 1) <= ledger[w].n + Rem(w, s) + Due(w, stray, 1)
  <2>1. ledger'[w].n \in Int /\ ledger[w].n \in Int
    BY <1>1 DEF TypeInv, TypeOK
  <2>2. (\A v \in Windows : \A t \in Streams : Rem(v, t) \in Nat)'
    BY RemNatAfter
  <2>3. Rem(w, s)' \in Int /\ Rem(w, s) \in Int /\ Rem(w, s)' + Due(w, op[s], 1) <= Rem(w, s)
    BY <2>2, <1>1, <1>5, RemFacts
  <2>4. Due(w, stray', 1) = Due(w, stray, 1) /\ Due(w, stray, 1) \in Int
    BY <1>1, <1>6, StrayDue
  <2>5. Pos(op[s].amount) \in Nat
    BY <1>1, StreamFacts, PosFacts
  <2>6. Due(w, op[s], 1) = IF op[s].w = w THEN Pos(op[s].amount) ELSE 0
    BY <2>5 DEF Due
  <2>7. ledger'[w].n <= ledger[w].n + Due(w, op[s], 1) /\ Due(w, op[s], 1) \in Int
    BY <2>1, <2>5, <2>6, <1>4
  <2> QED
    BY <2>1, <2>3, <2>4, <2>7
<1>8. Within'
  BY <1>5, <1>6, <1>7, WithinStep DEF Exec
<1> QED
  BY <1>1, <1>3, <1>5, <1>8, OpenStays DEF Exec

\* A call that is given up may become the stray one.
LEMMA CallFailsWithin ==
  ASSUME OvershootInv, TypeInv', NEW s \in Streams, CallFails(s)
  PROVE  OpenBounded' /\ Within'
<1>1. TypeInv /\ OpenBounded
  BY DEF OvershootInv
<1>2. Charging(s) /\ Return(s) /\ UNCHANGED <<now, ledger, how, estimated, exact, flushed>>
  BY DEF CallFails, Charging
<1>3. pc[s] \in {"flush", "tail", "settle"}
  BY <1>1, <1>2, CallFacts
<1>4. /\ \A w \in Windows : Rem(w, s)' + Due(w, op[s], 1) <= Rem(w, s)
      /\ Elsewhere(s)
  BY <1>1, <1>2, ReturnRem, ReturnFits
<1>5. late <= late'
  BY <1>1, LedgerAssumption DEF CallFails, TypeInv, TypeOK
<1>6. ASSUME NEW w \in Windows
      PROVE  ledger'[w].n + Rem(w, s)' + Due(w, stray', 1) <= ledger[w].n + Rem(w, s) + Due(w, stray, 1)
  <2>1. ledger'[w].n = ledger[w].n /\ ledger[w].n \in Int
    BY <1>1, <1>2 DEF TypeInv, TypeOK
  <2>2. (\A v \in Windows : \A t \in Streams : Rem(v, t) \in Nat)'
    BY RemNatAfter
  <2>3. Rem(w, s)' \in Int /\ Rem(w, s) \in Int /\ Rem(w, s)' + Due(w, op[s], 1) <= Rem(w, s)
    BY <2>2, <1>1, <1>4, RemFacts
  <2>4. Pos(op[s].amount) \in Nat
    BY <1>1, StreamFacts, PosFacts
  <2>5. Due(w, op[s], 1) \in Nat
    BY <2>4 DEF Due
  <2>6. Due(w, stray, 1) \in Nat
    BY <1>1, StrayDue
  <2>7. stray' = stray \/ (stray = NoOp /\ stray' = op[s])
    BY DEF CallFails
  <2>8. Due(w, stray', 1) <= Due(w, stray, 1) + Due(w, op[s], 1) /\ Due(w, stray', 1) \in Nat
    <3>1. CASE stray' = stray
      BY <3>1, <2>5, <2>6
    <3>2. CASE stray' = op[s]
      BY <3>2, <2>5, <2>6
    <3> QED
      BY <3>1, <3>2, <2>7
  <2> QED
    BY <2>1, <2>3, <2>5, <2>6, <2>8
<1>7. Within'
  BY <1>2, <1>4, <1>5, <1>6, WithinStep
<1> QED
  BY <1>1, <1>2, <1>3, <1>4, <1>7, OpenStays

LEMMA ExecLateWithin ==
  ASSUME OvershootInv, TypeInv', ExecLate
  PROVE  OpenBounded' /\ Within'
<1>1. TypeInv /\ OpenBounded /\ Within
  BY DEF OvershootInv
<1>2. OpenBounded'
  BY <1>1, OpenShrinks DEF Holding, Open, ExecLate
<1>3. stray \in Ops /\ stray.w <= Window /\ (stray.name = "reserve" => stray.amount \in Nat)
      /\ stray.w \in Windows /\ stray.amount \in Int
  BY <1>1 DEF TypeInv, TypeOK, StrayFits, Ops
<1>4. /\ \A w \in Windows : w # stray.w => ledger'[w] = ledger[w]
      /\ ledger'[stray.w].n <= ledger[stray.w].n + Pos(stray.amount)
  BY <1>1, <1>3, ExecFacts DEF ExecLate, TypeInv
<1>5. ASSUME NEW w \in Windows, w <= Window PROVE Held(w)' <= Most'
  <2>1. Load(w)' = Load(w) /\ Most' = Most
    BY DEF Load, Rem, Future, Window, Most, Allowed, Blind, ExecLate
  <2>2. stray' = NoOp /\ Due(w, stray', 1) = 0
    BY NoOpFits, NothingDue DEF ExecLate
  <2>3. Pos(stray.amount) \in Nat
    BY <1>3, PosFacts
  <2>4. Due(w, stray, 1) = IF stray.w = w THEN Pos(stray.amount) ELSE 0
    BY <2>3 DEF Due
  <2>5. ledger'[w].n \in Int /\ ledger[w].n \in Int
    BY <1>1 DEF TypeInv, TypeOK
  <2>6. ledger'[w].n <= ledger[w].n + Due(w, stray, 1) /\ Due(w, stray, 1) \in Int
    BY <2>3, <2>4, <2>5, <1>4
  <2>7. Load(w) \in Int /\ Most \in Int
    BY <1>1, LoadFacts, MostFacts
  <2>8. Held(w) <= Most
    BY <1>1, <1>5 DEF Within
  <2>9. ledger[w].n + Load(w) + Due(w, stray, 1) <= Most
    BY <2>8 DEF Held
  <2>10. Held(w)' = ledger'[w].n + Load(w) + 0
    BY <2>1, <2>2 DEF Held
  <2> QED
    BY <2>1, <2>5, <2>6, <2>7, <2>9, <2>10
<1> QED
  BY <1>2, <1>5 DEF Within, Window, ExecLate

\* Time passes: in the same window nothing is added; a new one is empty.
LEMMA TickWithin ==
  ASSUME OvershootInv, TypeInv', Tick
  PROVE  OpenBounded' /\ Within'
<1>1. TypeInv /\ OpenBounded /\ Within
  BY DEF OvershootInv
<1>2. OpenBounded'
  BY <1>1, OpenShrinks DEF Holding, Open, Tick
<1>3. Window' \in Nat /\ Window \in Nat /\ Window <= Window' /\ Windows \in SUBSET Nat
  BY <1>1, TickWindow, WindowFacts DEF TypeInv
<1>4. ASSUME NEW w \in Windows
      PROVE  ledger'[w].n \in Nat /\ ledger[w].n \in Nat /\ ledger'[w].n <= ledger[w].n
  <2>1. ledger'[w] = NoKey \/ ledger'[w] = ledger[w]
    BY DEF Tick
  <2>2. ledger'[w].n \in Nat /\ ledger[w].n \in Nat /\ NoKey.n = 0
    BY <1>1 DEF TypeInv, TypeOK, NoKey
  <2> QED
    BY <2>1, <2>2
<1>5. ASSUME NEW w \in Windows, w <= Window PROVE Held(w)' <= Most'
  <2>1. Due(w, stray', 1) = Due(w, stray, 1) /\ Most' = Most
    BY DEF Tick, Most, Allowed, Blind
  <2>2. ASSUME NEW s \in Streams PROVE Rem(w, s)' <= Rem(w, s) /\ Rem(w, s) \in Int /\ Rem(w, s)' \in Int
    <3> DEFINE D == Due(w, op[s], K - tries[s])
               F == K * Future(s)
    <3>1. Future(s)' = Future(s) /\ Due(w, op'[s], K - tries'[s]) = D
      BY DEF Tick, Future
    <3>2. F \in Nat /\ Rem(w, s) \in Nat
      BY <1>1, FutureFacts, RemFacts
    <3>3. w = Window' => w = Window
      BY <1>3, <1>5
    <3>4. Rem(w, s) = (IF w = Window THEN F ELSE 0) + D
      BY DEF Rem
    <3>5. Rem(w, s)' = (IF w = Window' THEN F ELSE 0) + D
      BY <3>1 DEF Rem
    <3>6. D \in Int
      <4> DEFINE n == K - tries[s]
      <4>1. n \in Nat
        BY <1>1, TriesLeft
      <4>2. op[s] \in Ops /\ Pos(op[s].amount) \in Nat /\ Pos(op[s].amount) <= Pos(op[s].amount)
        BY <1>1, StreamFacts, PosFacts
      <4> HIDE DEF n
      <4>3. Due(w, op[s], n) \in Nat
        BY <4>1, <4>2, DueFacts
      <4> QED
        BY <4>3 DEF n
    <3> HIDE DEF D, F
    <3> QED
      BY <3>2, <3>3, <3>4, <3>5, <3>6
  <2>3. PICK f : f = [s \in Streams |-> Rem(w, s)]
    OBVIOUS
  <2>4. PICK g : g = [s \in Streams |-> Rem(w, s)']
    OBVIOUS
  <2>5. Load(w) = SumFunctionOnSet(f, Streams) /\ Load(w)' = SumFunctionOnSet(g, Streams)
    BY <2>3, <2>4 DEF Load
  <2>6. \A x \in Streams : g[x] \in Int /\ f[x] \in Int /\ g[x] <= f[x]
    BY <2>2, <2>3, <2>4
  <2>7. SumFunctionOnSet(g, Streams) <= SumFunctionOnSet(f, Streams)
        /\ SumFunctionOnSet(g, Streams) \in Int /\ SumFunctionOnSet(f, Streams) \in Int
    BY <2>6, SumMonotone, SumType, LedgerAssumption
  <2>8. Held(w) <= Most /\ Due(w, stray, 1) \in Int /\ Most \in Int
    BY <1>1, <1>5, StrayDue, MostFacts DEF Within
  <2>9. ledger[w].n + Load(w) + Due(w, stray, 1) <= Most
    BY <2>8 DEF Held
  <2>10. Held(w)' = ledger'[w].n + Load(w)' + Due(w, stray, 1)
    BY <2>1 DEF Held
  <2> QED
    BY <2>1, <2>5, <2>7, <2>8, <2>9, <2>10, <1>4
<1>6. ASSUME NEW w \in Windows, ~(w <= Window) PROVE Held(w)' <= Most'
  <2>1. w > Window
    BY <1>3, <1>6
  <2>2. ledger[w].n = 0
    BY <2>1, <1>1 DEF TypeInv, LedgerFits
  <2>3. ledger'[w].n <= Limit - 1
    BY <2>2, <1>4, KFacts
  <2> QED
    BY <2>3, <1>2, FreshAfter
<1> QED
  BY <1>2, <1>5, <1>6 DEF Within

LEMMA InitOvershoot == Init => OvershootInv
<1> SUFFICES ASSUME Init PROVE OvershootInv
  OBVIOUS
<1>1. TypeInv
  BY InitTypes
<1>2. OpenBounded
  <2>1. Holding = {}
    BY DEF Holding, Open, Init
  <2>2. Cardinality({}) = 0
    BY FS_EmptySet
  <2> QED
    BY <2>1, <2>2, KFacts DEF OpenBounded
<1>3. ASSUME NEW w \in Windows PROVE Held(w) <= Most
  <2>1. ledger[w].n = 0
    BY DEF Init, NoKey
  <2>2. ledger[w].n <= Limit - 1
    BY <2>1, KFacts
  <2> QED
    BY <2>2, <1>1, <1>2, Fresh
<1> QED
  BY <1>1, <1>2, <1>3 DEF OvershootInv, Within

LEMMA NextOvershoot == OvershootInv /\ [Next]_vars => OvershootInv'
<1> SUFFICES ASSUME OvershootInv, [Next]_vars PROVE OvershootInv'
  OBVIOUS
<1>1. TypeInv'
  BY NextTypes DEF OvershootInv
<1>2. SUFFICES OpenBounded' /\ Within'
  BY <1>1 DEF OvershootInv
<1>3. ASSUME UNCHANGED vars PROVE OpenBounded' /\ Within'
  BY <1>3 DEF vars, OvershootInv, OpenBounded, Within, Holding, Open, Held, Most, Allowed, Blind,
       Load, Rem, Future, Window
<1> QED
  BY <1>1, <1>3, AdmitWithin, CopyWithin, SettleWithin, ExecWithin, CallFailsWithin,
     ExecLateWithin, TickWithin DEF Next

\* No window is overspent by more than what the responses that hold a slot at once, and those
\* admitted blindly, can charge, once for every time that a call is sent, and one call more
\* for each that was given up: for any number of responses, however admissions, charges,
\* refunds and windows interleave.
THEOREM OvershootHolds == Spec => []OvershootBound
<1>1. OvershootInv => OvershootBound
  <2> SUFFICES ASSUME OvershootInv, NEW w \in Windows PROVE ledger[w].n <= Most
    BY DEF OvershootBound, Most, Allowed, K
  <2>1. TypeInv /\ Most \in Nat /\ ledger[w].n \in Nat
    BY MostFacts DEF OvershootInv, TypeInv, TypeOK
  <2>2. CASE w <= Window
    <3>1. Held(w) <= Most
      BY <2>2 DEF OvershootInv, Within
    <3>2. ledger[w].n + Load(w) + Due(w, stray, 1) <= Most
      BY <3>1 DEF Held
    <3>3. Load(w) \in Nat /\ Due(w, stray, 1) \in Nat
      BY <2>1, LoadFacts, StrayDue
    <3> QED
      BY <2>1, <3>2, <3>3
  <2>3. CASE ~(w <= Window)
    <3>1. w > Window
      BY <2>1, <2>3, WindowFacts DEF TypeInv
    <3>2. ledger[w].n = 0
      BY <3>1, <2>1 DEF TypeInv, LedgerFits
    <3> QED
      BY <2>1, <3>2
  <2> QED
    BY <2>2, <2>3
<1> QED
  BY <1>1, InitOvershoot, NextOvershoot, PTL DEF Spec
=============================================================================
