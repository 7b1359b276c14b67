---------------------------- MODULE GatewayProofs ----------------------------
(***************************************************************************)
(* Proofs about requests on their way through the proxy, for any number of *)
(* requests, any configurations and any options.                           *)
(***************************************************************************)
EXTENDS Gateway, FiniteSetTheorems, SequenceTheorems, TLAPS

\* The steps there are: of one request, or of the administrator.
LEMMA NextCases ==
  ASSUME Next
  PROVE  \/ \E q \in Requests :
              \/ \E s \in Shapes : Arrive(q, s)
              \/ Resolve(q) \/ Lookup(q) \/ CheckPasses(q) \/ DegradedPass(q) \/ Reject(q)
              \/ Forward(q) \/ Release(q) \/ DoAnswers(q) \/ DoFails(q) \/ ResponseEnds(q)
              \/ Redirect(q) \/ Charge(q) \/ TimerFires(q) \/ ClientLeaves(q) \/ ClientStalls(q)
         \/ SweepElsewhere \/ Publish
BY DEF Next, Handle, Await

\* What Become does.
LEMMA BecomeType ==
  ASSUME req \in [Requests -> Request], NEW q \in Requests, NEW r \in Request, Become(q, r)
  PROVE  /\ req' \in [Requests -> Request]
         /\ req'[q] = r
         /\ \A x \in Requests : x # q => req'[x] = req[x]
BY DEF Become

LEMMA NoHops == 0 \in 0 .. MaxRedirects
BY GatewayAssumption

LEMMA ToType ==
  ASSUME req \in [Requests -> Request], NEW q \in Requests, NEW step \in Steps
  PROVE  To(q, step) \in Request
<1>1. req[q] \in Request
  OBVIOUS
<1>2. ASSUME NEW r \in Request PROVE [r EXCEPT !.pc = step] \in Request
  BY DEF Request
<1> QED
  BY <1>1, <1>2 DEF To

LEMMA EndedType ==
  ASSUME req \in [Requests -> Request], NEW q \in Requests
  PROVE  Ended(q) \in Request
<1>1. To(q, "done") \in Request
  BY ToType DEF Steps
<1> QED
  BY <1>1, NoHops DEF Ended, Request

LEMMA ReturnedType ==
  ASSUME req \in [Requests -> Request], NEW q \in Requests
  PROVE  /\ Returned(q) \in Request
         /\ Returned(q).pc = "release" /\ Returned(q).url = None
         /\ Returned(q).charged = {} /\ Returned(q).ip = None
         /\ Returned(q).hold = req[q].hold /\ Returned(q).leaked = req[q].leaked
         /\ Returned(q).shape = req[q].shape /\ Returned(q).rules = req[q].rules
         /\ Returned(q).written = req[q].written /\ Returned(q).counted = req[q].counted
         /\ Returned(q).upErr = req[q].upErr
<1>1. Ended(q) \in Request
  BY EndedType
<1>2. Returned(q) \in Request
  BY <1>1 DEF Returned, Request, Steps
<1>3. req[q] \in Request
  OBVIOUS
<1> QED
  BY <1>2, <1>3 DEF Returned, Ended, To, Request

LEMMA AnsweredType ==
  ASSUME NEW r \in Request, NEW status \in Statuses
  PROVE  Answered(r, status) \in Request /\ AnsweredUpErr(r, status) \in Request
<1>1. r.counted \in Seq(Statuses)
  BY DEF Request
<1>2. Append(r.counted, status) \in Seq(Statuses)
  BY <1>1
<1>3. ASSUME NEW c \in Seq(Statuses)
      PROVE  [r EXCEPT !.written = status, !.counted = c] \in Request
  BY DEF Request
<1>4. Answered(r, status) \in Request
  BY <1>2, <1>3 DEF Answered
<1> QED
  BY <1>4 DEF AnsweredUpErr, Request

LEMMA FirstType == ASSUME NEW S, NEW x \in S PROVE <<x>> \in Seq(S)
OBVIOUS

LEMMA EntryAfterFirst ==
  ASSUME NEW S, NEW a \in Seq(S), NEW x \in S, NEW b \in Seq(S)
  PROVE  /\ Len((a \o <<x>>) \o b) = Len(a) + 1 + Len(b)
         /\ ((a \o <<x>>) \o b)[Len(a) + 1] = x
<1> DEFINE c == a \o <<x>>
<1>1. c = Append(a, x)
  BY AppendIsConcat
<1>2. c \in Seq(S) /\ Len(c) = Len(a) + 1 /\ c[Len(a) + 1] = x /\ Len(a) \in Nat
  BY <1>1, AppendProperties, LenProperties
<1> HIDE DEF c
<1>3. /\ Len(c \o b) = Len(c) + Len(b) /\ Len(b) \in Nat
      /\ \A i \in 1 .. Len(c) + Len(b) :
           (c \o b)[i] = IF i <= Len(c) THEN c[i] ELSE b[i - Len(c)]
  BY <1>2, ConcatProperties, LenProperties
<1>4. Len(c \o b) = Len(a) + 1 + Len(b) /\ (c \o b)[Len(a) + 1] = x
  BY <1>2, <1>3
<1> QED
  BY <1>4 DEF c

LEMMA XffType ==
  ASSUME NEW s \in Shapes
  PROVE  s.xff.first \in Seq(STRING) /\ s.xff.rest \in Seq(STRING)
BY GatewayAssumption

LEMMA AddressType ==
  /\ TrustedHops \in Nat /\ TrustedHops = Len(ProxyIPs) /\ ProxyIPs \in Seq(STRING)
  /\ ClientIP # Garbage /\ ClientIP # None /\ ClientIP \in STRING
  /\ SubSeq(ProxyIPs, 1, TrustedHops - 1) \in Seq(STRING)
  /\ TrustedHops > 0 => Len(SubSeq(ProxyIPs, 1, TrustedHops - 1)) = TrustedHops - 1
BY ResolverAssumption

\* Whatever lines the proxies hand on, the answer is an address.
LEMMA AnEntry ==
  ASSUME NEW s \in Shapes
  PROVE  ExtractIP(s.real, s.xff) \in STRING
<1> DEFINE parts == HeaderGet(s.xff)
           idx == FromRight(Len(parts))
<1>1. parts \in Seq(STRING)
  <2>1. CASE TrustedHops = 0
    BY <2>1, XffType DEF HeaderGet
  <2>2. CASE TrustedHops # 0 /\ ProxiesJoin
    <3>1. parts = s.xff.first \o s.xff.rest \o <<ClientIP>> \o SubSeq(ProxyIPs, 1, TrustedHops - 1)
      BY <2>2, Zenon DEF HeaderGet
    <3>2. <<ClientIP>> \in Seq(STRING)
      BY AddressType, FirstType
    <3> QED
      BY <3>1, <3>2, XffType, AddressType, ConcatProperties
  <2>3. CASE TrustedHops # 0 /\ ~ProxiesJoin
    <3>1. parts = IF s.xff.first = <<>> THEN <<ClientIP>> ELSE s.xff.first
      BY <2>3, Zenon DEF HeaderGet
    <3>2. <<ClientIP>> \in Seq(STRING)
      BY AddressType, FirstType
    <3> QED
      BY <3>1, <3>2, XffType
  <2> QED
    BY <2>1, <2>2, <2>3
<1>2. RemoteAddr \in STRING
  <2>1. TrustedHops # 0 => Last(ProxyIPs) \in STRING
    BY AddressType DEF Last
  <2> QED
    BY <2>1, AddressType, Zenon DEF RemoteAddr
<1>3. idx \in 0 .. Len(parts) - 1 => parts[idx + 1] \in STRING
  <2> HIDE DEF parts, idx
  <2>1. Len(parts) \in Nat
    BY <1>1
  <2>2. idx \in 0 .. Len(parts) - 1 => idx + 1 \in 1 .. Len(parts)
    BY <2>1
  <2> QED
    BY <1>1, <2>2
<1>4. UseRealIP => ParseIP(s.real) \in {None, ClientIP}
  BY RealIPFromProxy, AddressType DEF ParseIP
<1> DEFINE entry == IF TrustedHops > 0 /\ idx \in 0 .. Len(parts) - 1
                    THEN ParseIP(parts[idx + 1]) ELSE None
<1>5. entry # None => entry \in STRING
  <2> HIDE DEF parts, idx
  <2> QED
    BY <1>3 DEF ParseIP
<1>6. ExtractIP(s.real, s.xff)
        = IF UseRealIP /\ s.real # None /\ ParseIP(s.real) # None THEN ParseIP(s.real)
          ELSE IF entry # None THEN entry ELSE RemoteAddr
  BY DEF ExtractIP
<1> HIDE DEF entry
<1> QED
  BY <1>2, <1>4, <1>5, <1>6, AddressType

\* With TrustedHops proxies before the gateway that hand on one line, the entry of
\* X-Forwarded-For that counts is the one the outermost of them wrote, whatever the
\* client sent before it.
LEMMA TrueEntry ==
  ASSUME NEW s \in Shapes, ProxiesJoin
  PROVE  ExtractIP(s.real, s.xff) = ClientIP
<1>1. CASE UseRealIP /\ s.real # None /\ ParseIP(s.real) # None
  BY <1>1, RealIPFromProxy DEF ExtractIP, ParseIP
<1>2. CASE ~(UseRealIP /\ s.real # None /\ ParseIP(s.real) # None)
  <2> DEFINE parts == HeaderGet(s.xff)
             sent == s.xff.first \o s.xff.rest
             rest == SubSeq(ProxyIPs, 1, TrustedHops - 1)
  <2>1. CASE TrustedHops = 0
    BY <1>2, <2>1 DEF ExtractIP, RemoteAddr
  <2>2. CASE TrustedHops > 0
    <3>1. parts = (sent \o <<ClientIP>>) \o rest
      <4>1. TrustedHops # 0
        BY AddressType, <2>2
      <4> QED
        BY <4>1, ProxiesJoin, Zenon DEF HeaderGet
    <3>2. PICK S : S = STRING
      OBVIOUS
    <3>3. sent \in Seq(S) /\ ClientIP \in S /\ rest \in Seq(S) /\ Len(rest) = TrustedHops - 1
      <4>1. sent \in Seq(STRING)
        BY XffType, ConcatProperties
      <4> QED
        BY <2>2, <3>2, <4>1, AddressType, Zenon
    <3> HIDE DEF sent, rest
    <3>4. /\ Len(parts) = Len(sent) + 1 + Len(rest) /\ parts[Len(sent) + 1] = ClientIP
          /\ Len(sent) \in Nat
      <4>1. /\ Len((sent \o <<ClientIP>>) \o rest) = Len(sent) + 1 + Len(rest)
            /\ ((sent \o <<ClientIP>>) \o rest)[Len(sent) + 1] = ClientIP
        BY <3>3, EntryAfterFirst
      <4> QED
        BY <3>1, <3>3, <4>1, LenProperties, Zenon
    <3>5. FromRight(Len(parts)) = Len(sent) /\ Len(sent) \in 0 .. Len(parts) - 1
      <4> HIDE DEF parts
      <4> QED
        BY AddressType, <2>2, <3>3, <3>4 DEF FromRight
    <3> QED
      BY <1>2, AddressType, <2>2, <3>4, <3>5 DEF ExtractIP, ParseIP
  <2> QED
    BY AddressType, <2>1, <2>2
<1> QED
  BY <1>1, <1>2
-----------------------------------------------------------------------------
Typed ==
  /\ req \in [Requests -> Request]
  /\ cur \in 1 .. Len(Snapshots) /\ opt \in Range(Options)
  /\ envCache \in EnvCaches

\* What is counted of a request that has ended or only has its slot to give back.
CountedRight(r) ==
  /\ r.counted = IF r.written = "none" THEN <<"499">>
                 ELSE IF r.shape.badURL /\ r.written = "502" /\ r.rules # 0 THEN <<>>
                 ELSE <<r.written>>
  /\ r.upErr = 1 <=> r.written \in {"403", "502", "504"}

Uncounted(r) == r.counted = <<>> /\ r.upErr = 0

\* How the variables of a request go together at each of its steps.
Sound(r) ==
  /\ r.pc \in {"new", "resolve", "lookup", "check"} => r.rules = 0
  /\ r.pc \in {"forward", "do", "stream", "body", "release"} => r.rules # 0
  /\ r.pc \in {"new", "resolve", "lookup", "check", "forward", "do"} =>
       r.written = "none" /\ Uncounted(r) /\ r.charged = {}
  /\ r.pc \in {"do", "stream", "body"} => ~r.shape.badURL
  /\ r.pc \in {"stream", "body"} => r.written = "upstream" /\ Uncounted(r)
  /\ r.pc \in {"release", "done"} => CountedRight(r)
  /\ r.hold => r.pc \in {"forward", "do", "stream", "body", "release"}
  /\ r.leaked => r.pc \notin {"new", "resolve", "lookup", "check"}
  /\ r.pc \in {"new", "resolve", "lookup"} => r.url = None
  /\ r.pc \in {"check", "forward", "do"} => r.url \in Urls \X BOOLEAN
  /\ r.charged \subseteq {r.rules}
  /\ ProxiesJoin => r.ip \in {None, ClientIP}
  /\ r.pc \notin {"new", "done"} => ExtractBiz(r.shape.seg) \in Bizs

AllSound == \A q \in Requests : Sound(req[q])

\* The variables of q become those of r.
Moves(q, r) == r \in Request /\ Become(q, r) /\ Sound(r)

LEMMA MovesKeep ==
  ASSUME Typed, AllSound, NEW q \in Requests, NEW r, Moves(q, r)
  PROVE  /\ req' \in [Requests -> Request] /\ AllSound'
         /\ req'[q] = r
         /\ \A x \in Requests : x # q => req'[x] = req[x]
<1>1. /\ req' \in [Requests -> Request] /\ req'[q] = r
      /\ \A x \in Requests : x # q => req'[x] = req[x]
  BY BecomeType DEF Typed, Moves
<1> QED
  BY <1>1 DEF AllSound, Moves

LEMMA AppendFirst == ASSUME NEW x PROVE Append(<<>>, x) = <<x>>
OBVIOUS

LEMMA SnapshotTypes ==
  Len(Snapshots) \in Nat /\ 1 \in 1 .. Len(Snapshots) /\ 0 \in 0 .. Len(Snapshots)
BY GatewayAssumption

LEMMA InitSound == Init => Typed /\ AllSound
<1> SUFFICES ASSUME Init PROVE Typed /\ AllSound
  OBVIOUS
<1>1. Idle \in Shapes
  BY GatewayAssumption DEF Idle
<1>2. NoRequest \in Request
  BY <1>1, SnapshotTypes, NoHops DEF NoRequest, Request, Steps, Statuses
<1>3. Sound(NoRequest)
  BY DEF NoRequest, Sound, Uncounted
<1>4. Head(Options) \in Range(Options)
  <2>1. Options \in Seq([timeout : BOOLEAN, maxBody : Nat]) /\ Options # <<>>
    BY GatewayAssumption
  <2>2. 1 \in DOMAIN Options /\ Head(Options) = Options[1]
    BY <2>1
  <2> QED
    BY <2>2 DEF Range
<1> QED
  BY <1>2, <1>3, <1>4, SnapshotTypes DEF Init, Typed, AllSound, EnvCaches
-----------------------------------------------------------------------------
\* What each step makes of the variables of its request.
LEMMA ArriveMoves ==
  ASSUME Typed, AllSound, NEW q \in Requests, NEW s \in Shapes, Arrive(q, s)
  PROVE  \E r : /\ Moves(q, r) /\ ~r.hold /\ ~r.leaked /\ r.url = None
                /\ r.pc \in {"resolve", "done"}
<1>1. req[q] \in Request /\ Sound(req[q]) /\ req[q].pc = "new"
  BY DEF Typed, AllSound, Arrive, At
<1>2. CASE ExtractBiz(s.seg) = None
  <2> DEFINE r == [Answered(Ended(q), "400") EXCEPT !.shape = s]
  <2>1. Become(q, r)
    BY <1>2 DEF Arrive
  <2>2. Answered(Ended(q), "400") \in Request
    BY EndedType, AnsweredType DEF Typed, Statuses
  <2>3. r \in Request
    BY <2>2 DEF Request
  <2>4. /\ r.pc = "done" /\ r.written = "400" /\ r.counted = <<"400">> /\ r.upErr = 0
        /\ r.hold = req[q].hold /\ r.leaked = req[q].leaked
        /\ r.charged = {} /\ r.ip = None /\ r.url = None
    <3> DEFINE e == Answered(Ended(q), "400")
    <3>1. /\ e.pc = "done" /\ e.written = "400" /\ e.counted = <<"400">> /\ e.upErr = 0
          /\ e.hold = req[q].hold /\ e.leaked = req[q].leaked
          /\ e.charged = {} /\ e.ip = None /\ e.url = None
      <4>1. req[q].counted = <<>> /\ req[q].upErr = 0
        BY <1>1 DEF Sound, Uncounted
      <4> QED
        BY <1>1, <4>1, AppendFirst DEF Request, Answered, Ended, To
    <3> HIDE DEF e
    <3> QED
      BY <2>2, <3>1 DEF Request, e
  <2> HIDE DEF r
  <2>5. Sound(r) /\ ~r.hold /\ ~r.leaked
    BY <1>1, <2>4 DEF Sound, CountedRight
  <2> QED
    BY <2>1, <2>3, <2>4, <2>5 DEF Moves
<1>3. CASE ExtractBiz(s.seg) # None
  <2> DEFINE ip == ExtractIP(s.real, s.xff)
             r == [To(q, "resolve") EXCEPT !.shape = s, !.opt = opt, !.ip = ip]
  <2>1. Become(q, r)
    BY <1>3 DEF Arrive
  <2>2. ip \in STRING /\ (ProxiesJoin => ip = ClientIP)
    BY AnEntry, TrueEntry
  <2>3. To(q, "resolve") \in Request /\ opt \in Range(Options)
    BY ToType DEF Typed, Steps
  <2>4. r \in Request
    <3> HIDE DEF ip
    <3> QED
      BY <2>2, <2>3 DEF Request
  <2>5. /\ r.pc = "resolve" /\ r.ip = ip /\ r.hold = req[q].hold /\ r.leaked = req[q].leaked
        /\ r.url = req[q].url /\ r.hops = req[q].hops /\ r.rules = req[q].rules /\ r.written = req[q].written
        /\ r.counted = req[q].counted /\ r.upErr = req[q].upErr
        /\ r.charged = req[q].charged /\ r.shape = s
    <3> HIDE DEF ip
    <3> QED
      BY <1>1 DEF Request, To
  <2> HIDE DEF r, ip
  <2>6. Sound(r) /\ ~r.hold /\ ~r.leaked /\ r.url = None
    <3>1. ExtractBiz(s.seg) \in Bizs
      BY <1>3, ResolverAssumption, GatewayAssumption DEF ExtractBiz
    <3> QED
      BY <1>1, <2>2, <2>5, <3>1 DEF Sound, Uncounted
  <2> QED
    BY <2>1, <2>4, <2>5, <2>6 DEF Moves
<1> QED
  BY <1>2, <1>3

\* Resolve or the lookup of the environment has ended the request ...
LEMMA RefusedMoves ==
  ASSUME Typed, AllSound, NEW q \in Requests, req[q].pc \in {"resolve", "lookup"},
         Blocked(q) \/ NoUpstream(q)
  PROVE  \E r : /\ Moves(q, r) /\ ~r.hold /\ ~r.leaked /\ r.url = None
                /\ r.pc = "done" /\ r.shape = req[q].shape
<1>1. req[q] \in Request /\ Sound(req[q])
  BY DEF Typed, AllSound
<1>2. PICK status \in {"403", "502"} : Become(q, AnsweredUpErr(Ended(q), status))
  BY DEF Blocked, NoUpstream
<1> DEFINE r == AnsweredUpErr(Ended(q), status)
<1>3. r \in Request
  BY EndedType, AnsweredType DEF Typed, Statuses
<1>4. /\ r.pc = "done" /\ r.written = status /\ r.counted = <<status>> /\ r.upErr = 1
      /\ r.hold = req[q].hold /\ r.leaked = req[q].leaked
      /\ r.charged = {} /\ r.ip = None
      /\ r.url = None /\ r.rules = 0 /\ r.shape = req[q].shape
  <2>1. req[q].counted = <<>> /\ req[q].rules = 0
    BY <1>1 DEF Sound, Uncounted
  <2> QED
    BY <1>1, <2>1, AppendFirst DEF Request, AnsweredUpErr, Answered, Ended, To
<1>5. Become(q, r)
  BY <1>2
<1> HIDE DEF r
<1>6. Sound(r) /\ ~r.hold /\ ~r.leaked
  BY <1>1, <1>4 DEF Sound, CountedRight
<1> QED
  BY <1>3, <1>4, <1>5, <1>6 DEF Moves

\* ... or has found where it goes, ...
LEMMA TargetMoves ==
  ASSUME Typed, AllSound, NEW q \in Requests, req[q].pc \in {"resolve", "lookup"},
         NEW url \in Urls, NEW fromHeader \in BOOLEAN, Target(q, url, fromHeader)
  PROVE  \E r : /\ Moves(q, r) /\ ~r.hold /\ ~r.leaked /\ r.url = <<url, fromHeader>>
                /\ r.pc = "check" /\ r.shape = req[q].shape
<1>1. req[q] \in Request /\ Sound(req[q])
  BY DEF Typed, AllSound
<1> DEFINE u == <<url, fromHeader>>
           r == [To(q, "check") EXCEPT !.url = u]
<1>2. Become(q, r) /\ u \in Urls \X BOOLEAN
  BY DEF Target
<1> HIDE DEF u
<1>3. r \in Request
  <2>1. To(q, "check") \in Request
    BY ToType DEF Typed, Steps
  <2> QED
    BY <1>2, <2>1 DEF Request
<1>4. /\ r.pc = "check" /\ r.url = u /\ r.ip = req[q].ip /\ r.hold = req[q].hold
      /\ r.leaked = req[q].leaked /\ r.shape = req[q].shape
      /\ r.rules = req[q].rules /\ r.written = req[q].written
      /\ r.counted = req[q].counted /\ r.upErr = req[q].upErr
      /\ r.charged = req[q].charged
  BY <1>1 DEF Request, To
<1> HIDE DEF r
<1>5. Sound(r) /\ ~r.hold /\ ~r.leaked
  BY <1>1, <1>2, <1>4 DEF Sound, Uncounted
<1> QED
  BY <1>2, <1>3, <1>4, <1>5 DEF Moves, u

\* ... or has to ask the environment.
LEMMA AskMoves ==
  ASSUME Typed, AllSound, NEW q \in Requests, req[q].pc = "resolve", Become(q, To(q, "lookup"))
  PROVE  \E r : /\ Moves(q, r) /\ ~r.hold /\ ~r.leaked /\ r.url = None
                /\ r.pc = "lookup" /\ r.shape = req[q].shape
<1>1. req[q] \in Request /\ Sound(req[q])
  BY DEF Typed, AllSound
<1> DEFINE r == To(q, "lookup")
<1>2. r \in Request
  BY ToType DEF Typed, Steps
<1>3. /\ r.pc = "lookup" /\ r.url = req[q].url /\ r.hops = req[q].hops /\ r.ip = req[q].ip /\ r.hold = req[q].hold
      /\ r.leaked = req[q].leaked /\ r.shape = req[q].shape
      /\ r.rules = req[q].rules /\ r.written = req[q].written
      /\ r.counted = req[q].counted /\ r.upErr = req[q].upErr
      /\ r.charged = req[q].charged
  BY <1>1 DEF Request, To
<1>4. Become(q, r)
  OBVIOUS
<1> HIDE DEF r
<1>5. Sound(r) /\ ~r.hold /\ ~r.leaked /\ r.url = None
  BY <1>1, <1>3 DEF Sound, Uncounted
<1> QED
  BY <1>2, <1>3, <1>4, <1>5 DEF Moves

\* The rules and the metering of a request are those of a configuration.
LEMMA RulesType ==
  ASSUME Typed, AllSound, NEW q \in Requests,
         req[q].pc \in {"check", "forward", "do", "stream", "body", "release"}
  PROVE  Rules(q).conc \in BOOLEAN /\ Rules(q).token \in BOOLEAN
<1>1. Biz(q) \in Bizs
  BY DEF AllSound, Sound, Biz
<1>2. req[q].rules \in 0 .. Len(Snapshots) /\ cur \in 1 .. Len(Snapshots)
  BY DEF Typed, Request
<1>3. req[q].pc # "check" => req[q].rules # 0
  BY DEF AllSound, Sound
<1>4. (IF At(q, "check") THEN cur ELSE req[q].rules) \in 1 .. Len(Snapshots)
  BY <1>2, <1>3, SnapshotTypes DEF At
<1> QED
  BY <1>1, <1>4, GatewayAssumption DEF Rules

\* The request passes, with a slot or without one.
LEMMA PassMoves ==
  ASSUME Typed, AllSound, NEW q \in Requests, req[q].pc = "check", NEW h \in BOOLEAN,
         Become(q, [To(q, "forward") EXCEPT !.rules = cur, !.hold = h])
  PROVE  \E r : /\ Moves(q, r) /\ r.hold = h /\ r.leaked = req[q].leaked
                /\ r.url = req[q].url /\ r.hops = req[q].hops /\ r.pc = "forward" /\ r.shape = req[q].shape
<1>1. req[q] \in Request /\ Sound(req[q])
  BY DEF Typed, AllSound
<1>2. cur \in 0 .. Len(Snapshots) /\ cur # 0
  BY SnapshotTypes DEF Typed
<1> DEFINE r == [To(q, "forward") EXCEPT !.rules = cur, !.hold = h]
<1>3. r \in Request
  <2>1. To(q, "forward") \in Request
    BY ToType DEF Typed, Steps
  <2> QED
    BY <1>2, <2>1 DEF Request
<1>4. /\ r.pc = "forward" /\ r.url = req[q].url /\ r.hops = req[q].hops /\ r.ip = req[q].ip /\ r.hold = h
      /\ r.leaked = req[q].leaked /\ r.shape = req[q].shape
      /\ r.rules = cur /\ r.written = req[q].written
      /\ r.counted = req[q].counted /\ r.upErr = req[q].upErr
      /\ r.charged = req[q].charged
  BY <1>1 DEF Request, To
<1>5. Become(q, r)
  OBVIOUS
<1> HIDE DEF r
<1>6. Sound(r)
  BY <1>1, <1>2, <1>4 DEF Sound, Uncounted
<1> QED
  BY <1>3, <1>4, <1>5, <1>6 DEF Moves

LEMMA CheckPassesMoves ==
  ASSUME Typed, AllSound, NEW q \in Requests, CheckPasses(q)
  PROVE  \E r : /\ Moves(q, r) /\ r.hold = Rules(q).conc /\ r.leaked = req[q].leaked
                /\ r.url = req[q].url /\ r.hops = req[q].hops /\ r.pc = "forward" /\ r.shape = req[q].shape
BY RulesType, PassMoves DEF CheckPasses, At

LEMMA DegradedPassMoves ==
  ASSUME Typed, AllSound, NEW q \in Requests, DegradedPass(q)
  PROVE  \E r : /\ Moves(q, r) /\ r.hold = req[q].hold
                /\ r.url = req[q].url /\ r.hops = req[q].hops /\ r.pc = "forward"
                /\ r.shape = req[q].shape
                /\ \/ r.leaked = req[q].leaked /\ UNCHANGED <<slots, swept>>
                   \/ r.leaked /\ RunScript({ReqId(q)})
<1>1. req[q] \in Request /\ Sound(req[q]) /\ req[q].pc = "check" /\ req[q].hold \in BOOLEAN
  BY DEF Typed, AllSound, DegradedPass, At, Request
<1>2. CASE Become(q, [To(q, "forward") EXCEPT !.rules = cur]) /\ UNCHANGED <<slots, swept>>
  <2>1. [To(q, "forward") EXCEPT !.rules = cur]
          = [To(q, "forward") EXCEPT !.rules = cur, !.hold = req[q].hold]
    BY <1>1 DEF To, Request
  <2>2. Become(q, [To(q, "forward") EXCEPT !.rules = cur, !.hold = req[q].hold])
    BY <1>2, <2>1
  <2> QED
    BY <1>1, <1>2, <2>2, PassMoves
<1>3. CASE /\ Become(q, [To(q, "forward") EXCEPT !.rules = cur, !.leaked = TRUE])
           /\ RunScript({ReqId(q)})
  <2>1. cur \in 0 .. Len(Snapshots) /\ cur # 0
    BY SnapshotTypes DEF Typed
  <2> DEFINE r == [To(q, "forward") EXCEPT !.rules = cur, !.leaked = TRUE]
  <2>2. r \in Request
    <3>1. To(q, "forward") \in Request
      BY ToType DEF Typed, Steps
    <3> QED
      BY <2>1, <3>1 DEF Request
  <2>3. /\ r.pc = "forward" /\ r.url = req[q].url /\ r.hops = req[q].hops /\ r.ip = req[q].ip
        /\ r.hold = req[q].hold /\ r.leaked = TRUE /\ r.shape = req[q].shape
        /\ r.rules = cur /\ r.written = req[q].written
        /\ r.counted = req[q].counted /\ r.upErr = req[q].upErr
        /\ r.charged = req[q].charged
    BY <1>1 DEF Request, To
  <2>4. Become(q, r)
    BY <1>3
  <2> HIDE DEF r
  <2>5. Sound(r)
    BY <1>1, <2>1, <2>3 DEF Sound, Uncounted
  <2> QED
    BY <1>3, <2>2, <2>3, <2>4, <2>5 DEF Moves
<1> QED
  BY <1>2, <1>3 DEF DegradedPass

LEMMA RejectMoves ==
  ASSUME Typed, AllSound, NEW q \in Requests, Reject(q)
  PROVE  \E r : /\ Moves(q, r) /\ ~r.hold /\ r.url = None /\ r.pc = "done"
                /\ r.shape = req[q].shape
                /\ \/ UNCHANGED <<slots, swept>> \/ RunScript({})
                   \/ RunScript({ReqId(q)}) /\ r.leaked
<1>1. req[q] \in Request /\ Sound(req[q]) /\ req[q].pc = "check"
  BY DEF Typed, AllSound, Reject, At
<1> DEFINE e == Answered(Ended(q), "429")
<1>2. e \in Request
  BY EndedType, AnsweredType DEF Typed, Statuses
<1>3. /\ e.pc = "done" /\ e.written = "429" /\ e.counted = <<"429">> /\ e.upErr = 0
      /\ e.hold = req[q].hold /\ e.leaked = req[q].leaked /\ e.charged = {} /\ e.ip = None
      /\ e.url = None /\ e.rules = req[q].rules /\ e.shape = req[q].shape
  <2>1. req[q].counted = <<>> /\ req[q].upErr = 0
    BY <1>1 DEF Sound, Uncounted
  <2> QED
    BY <1>1, <2>1, AppendFirst DEF Request, Answered, Ended, To
<1>4. ASSUME NEW l \in BOOLEAN
      PROVE  /\ [e EXCEPT !.rpm = 1, !.leaked = l] \in Request
             /\ Sound([e EXCEPT !.rpm = 1, !.leaked = l])
             /\ ~[e EXCEPT !.rpm = 1, !.leaked = l].hold
             /\ [e EXCEPT !.rpm = 1, !.leaked = l].url = None
             /\ [e EXCEPT !.rpm = 1, !.leaked = l].pc = "done"
             /\ [e EXCEPT !.rpm = 1, !.leaked = l].shape = req[q].shape
             /\ [e EXCEPT !.rpm = 1, !.leaked = l].leaked = l
  <2> DEFINE r == [e EXCEPT !.rpm = 1, !.leaked = l]
  <2> HIDE DEF e
  <2>0. r \in Request
    BY <1>2 DEF Request
  <2>1. /\ r.pc = "done" /\ r.written = "429" /\ r.counted = <<"429">> /\ r.upErr = 0
        /\ r.hold = req[q].hold /\ r.leaked = l /\ r.charged = {} /\ r.ip = None
        /\ r.url = None /\ r.rules = req[q].rules /\ r.shape = req[q].shape
    BY <1>2, <1>3 DEF Request
  <2> HIDE DEF r
  <2>2. Sound(r) /\ ~r.hold
    BY <1>1, <2>1 DEF Sound, CountedRight
  <2> QED
    BY <2>0, <2>1, <2>2 DEF r
<1>5. CASE /\ UNCHANGED <<slots, swept>> \/ RunScript({})
           /\ Become(q, [e EXCEPT !.rpm = 1])
  <2>1. e.leaked \in BOOLEAN /\ [e EXCEPT !.rpm = 1] = [e EXCEPT !.rpm = 1, !.leaked = e.leaked]
    <3> HIDE DEF e
    <3> QED
      BY <1>2 DEF Request
  <2> HIDE DEF e
  <2> QED
    BY <1>4, <1>5, <2>1 DEF Moves
<1>6. CASE /\ RunScript({ReqId(q)})
           /\ Become(q, [e EXCEPT !.rpm = 1, !.leaked = TRUE])
  <2> HIDE DEF e
  <2> QED
    BY <1>4, <1>6 DEF Moves
<1> QED
  BY <1>5, <1>6 DEF Reject

\* A request that waits for the upstream and only learns of a deadline, of its client,
\* or that tokens are charged.
LEMMA WaitMoves ==
  ASSUME Typed, AllSound, NEW q \in Requests,
         Charge(q) \/ TimerFires(q) \/ ClientLeaves(q) \/ ClientStalls(q)
  PROVE  \E r : /\ Moves(q, r) /\ r.hold = req[q].hold /\ r.leaked = req[q].leaked
                /\ r.url = req[q].url /\ r.hops = req[q].hops /\ r.pc = req[q].pc /\ r.shape = req[q].shape
<1>1. req[q] \in Request /\ Sound(req[q]) /\ req[q].pc \in {"do", "stream", "body"}
  BY DEF Typed, AllSound, Charge, TimerFires, ClientLeaves, ClientStalls, Waits
<1>2. ASSUME NEW r \in Request, r.hold = req[q].hold, r.leaked = req[q].leaked,
             r.url = req[q].url, r.hops = req[q].hops, r.pc = req[q].pc, r.shape = req[q].shape,
             r.rules = req[q].rules, r.written = req[q].written, r.counted = req[q].counted,
             r.upErr = req[q].upErr, r.ip = req[q].ip,
             \/ r.charged = req[q].charged
             \/ r.pc # "do" /\ r.charged = req[q].charged \cup {req[q].rules},
             Become(q, r)
      PROVE  Moves(q, r)
  BY <1>1, <1>2 DEF Moves, Sound, Uncounted
<1>3. CASE Charge(q)
  <2> DEFINE c == req[q].charged \cup {ChargeRules(q)}
             r == [req[q] EXCEPT !.charged = c]
  <2>1. Become(q, r) /\ req[q].pc # "do"
    BY <1>3 DEF Charge
  <2>2. c \in SUBSET (0 .. Len(Snapshots)) /\ c = req[q].charged \cup {req[q].rules}
    BY <1>1 DEF Request, ChargeRules
  <2> HIDE DEF c
  <2>3. r \in Request
    BY <1>1, <2>2 DEF Request
  <2>4. /\ r.hold = req[q].hold /\ r.leaked = req[q].leaked
        /\ r.url = req[q].url /\ r.hops = req[q].hops /\ r.pc = req[q].pc /\ r.shape = req[q].shape
        /\ r.rules = req[q].rules /\ r.written = req[q].written /\ r.counted = req[q].counted
        /\ r.upErr = req[q].upErr /\ r.ip = req[q].ip /\ r.charged = c
    BY <1>1 DEF Request
  <2> HIDE DEF r
  <2> QED
    BY <1>2, <2>1, <2>2, <2>3, <2>4
<1>4. CASE TimerFires(q)
  <2> DEFINE r == [req[q] EXCEPT !.timer = "fired"]
  <2>1. Become(q, r)
    BY <1>4 DEF TimerFires
  <2>2. r \in Request
    BY <1>1 DEF Request
  <2>3. /\ r.hold = req[q].hold /\ r.leaked = req[q].leaked
        /\ r.url = req[q].url /\ r.hops = req[q].hops /\ r.pc = req[q].pc /\ r.shape = req[q].shape
        /\ r.rules = req[q].rules /\ r.written = req[q].written /\ r.counted = req[q].counted
        /\ r.upErr = req[q].upErr /\ r.ip = req[q].ip
        /\ r.charged = req[q].charged
    BY <1>1 DEF Request
  <2> HIDE DEF r
  <2> QED
    BY <1>2, <2>1, <2>2, <2>3
<1>5. CASE ClientLeaves(q)
  <2> DEFINE r == [req[q] EXCEPT !.gone = TRUE, !.stalled = FALSE]
  <2>1. Become(q, r)
    BY <1>5 DEF ClientLeaves
  <2>2. r \in Request
    BY <1>1 DEF Request
  <2>3. /\ r.hold = req[q].hold /\ r.leaked = req[q].leaked
        /\ r.url = req[q].url /\ r.hops = req[q].hops /\ r.pc = req[q].pc /\ r.shape = req[q].shape
        /\ r.rules = req[q].rules /\ r.written = req[q].written /\ r.counted = req[q].counted
        /\ r.upErr = req[q].upErr /\ r.ip = req[q].ip
        /\ r.charged = req[q].charged
    BY <1>1 DEF Request
  <2> HIDE DEF r
  <2> QED
    BY <1>2, <2>1, <2>2, <2>3
<1>6. CASE ClientStalls(q)
  <2> DEFINE r == [req[q] EXCEPT !.stalled = TRUE]
  <2>1. Become(q, r)
    BY <1>6 DEF ClientStalls
  <2>2. r \in Request
    BY <1>1 DEF Request
  <2>3. /\ r.hold = req[q].hold /\ r.leaked = req[q].leaked
        /\ r.url = req[q].url /\ r.hops = req[q].hops /\ r.pc = req[q].pc /\ r.shape = req[q].shape
        /\ r.rules = req[q].rules /\ r.written = req[q].written /\ r.counted = req[q].counted
        /\ r.upErr = req[q].upErr /\ r.ip = req[q].ip
        /\ r.charged = req[q].charged
    BY <1>1 DEF Request
  <2> HIDE DEF r
  <2> QED
    BY <1>2, <2>1, <2>2, <2>3
<1> QED
  BY <1>3, <1>4, <1>5, <1>6

LEMMA RedirectMoves ==
  ASSUME Typed, AllSound, NEW q \in Requests, Redirect(q)
  PROVE  \E r : /\ Moves(q, r) /\ r.hold = req[q].hold /\ r.leaked = req[q].leaked
                /\ r.hops # 0 /\ r.pc = req[q].pc /\ r.shape = req[q].shape
<1>1. req[q] \in Request /\ Sound(req[q]) /\ req[q].pc = "do" /\ req[q].hops < MaxRedirects
  BY DEF Typed, AllSound, Redirect, At
<1>2. req[q].url \in Urls \X BOOLEAN
  BY <1>1 DEF Sound, Request
<1>3. PICK u \in Locations[req[q].url[1]] :
        Become(q, [req[q] EXCEPT !.url = <<u, req[q].url[2]>>, !.hops = @ + 1])
  BY DEF Redirect
<1>4. PICK v \in Urls \X BOOLEAN : v = <<u, req[q].url[2]>>
  <2>1. req[q].url[1] \in Urls /\ req[q].url[2] \in BOOLEAN
    BY <1>2
  <2>2. u \in Urls
    BY <1>3, <2>1, GatewayAssumption
  <2> QED
    BY <2>1, <2>2
<1>5. PICK k \in 0 .. MaxRedirects : k = req[q].hops + 1 /\ k # 0
  <2>1. req[q].hops \in 0 .. MaxRedirects /\ MaxRedirects \in Nat
    BY <1>1, GatewayAssumption DEF Request
  <2> QED
    BY <1>1, <2>1
<1> DEFINE r == [req[q] EXCEPT !.url = v, !.hops = k]
<1>6. Become(q, r)
  BY <1>3, <1>4, <1>5
<1>7. r \in Request
  BY <1>1 DEF Request
<1>8. /\ r.pc = "do" /\ r.hops = k /\ r.hold = req[q].hold /\ r.leaked = req[q].leaked
      /\ r.url = v /\ r.shape = req[q].shape
      /\ r.rules = req[q].rules /\ r.written = req[q].written /\ r.counted = req[q].counted
      /\ r.upErr = req[q].upErr /\ r.ip = req[q].ip /\ r.charged = req[q].charged
  BY <1>1 DEF Request
<1> HIDE DEF r
<1>9. Sound(r)
  BY <1>1, <1>8 DEF Sound, Uncounted
<1> QED
  BY <1>1, <1>5, <1>6, <1>7, <1>8, <1>9 DEF Moves

LEMMA ForwardMoves ==
  ASSUME Typed, AllSound, NEW q \in Requests, Forward(q)
  PROVE  \E r : /\ Moves(q, r) /\ r.hold = req[q].hold /\ r.leaked = req[q].leaked
                /\ r.url = None \/ (r.url = req[q].url /\ r.hops = req[q].hops)
                /\ r.pc \in {"do", "release"} /\ r.shape = req[q].shape
<1>1. req[q] \in Request /\ Sound(req[q]) /\ req[q].pc = "forward"
  BY DEF Typed, AllSound, Forward, At
<1>2. CASE req[q].shape.badURL
  <2> DEFINE r == [Returned(q) EXCEPT !.written = "502", !.upErr = 1]
  <2>1. Become(q, r)
    BY <1>2 DEF Forward
  <2>2. r \in Request
    <3>1. Returned(q) \in Request
      BY ReturnedType DEF Typed
    <3> QED
      BY <3>1 DEF Request, Statuses
  <2>3. /\ r.pc = "release" /\ r.hold = req[q].hold /\ r.leaked = req[q].leaked
        /\ r.url = None /\ r.shape = req[q].shape
        /\ r.rules = req[q].rules /\ r.written = "502" /\ r.counted = req[q].counted
        /\ r.upErr = 1 /\ r.ip = None /\ r.charged = {}
    BY ReturnedType DEF Typed, Request
  <2> HIDE DEF r
  <2>4. Sound(r)
    BY <1>1, <1>2, <2>3 DEF Sound, Uncounted, CountedRight
  <2> QED
    BY <2>1, <2>2, <2>3, <2>4 DEF Moves
<1>3. CASE ~req[q].shape.badURL
  <2> DEFINE t == IF ~req[q].shape.stream /\ req[q].opt.timeout THEN "armed" ELSE "off"
             r == [To(q, "do") EXCEPT !.opt = None, !.timer = t]
  <2>1. Become(q, r) /\ t \in {"off", "armed", "fired"}
    BY <1>3 DEF Forward
  <2> HIDE DEF t
  <2>2. r \in Request
    <3>1. To(q, "do") \in Request
      BY ToType DEF Typed, Steps
    <3> QED
      BY <2>1, <3>1 DEF Request
  <2>3. /\ r.pc = "do" /\ r.hold = req[q].hold /\ r.leaked = req[q].leaked
        /\ r.url = req[q].url /\ r.hops = req[q].hops /\ r.shape = req[q].shape
        /\ r.rules = req[q].rules /\ r.written = req[q].written /\ r.counted = req[q].counted
        /\ r.upErr = req[q].upErr /\ r.ip = req[q].ip
        /\ r.charged = req[q].charged
    BY <1>1 DEF Request, To
  <2> HIDE DEF r
  <2>4. Sound(r)
    BY <1>1, <1>3, <2>3 DEF Sound, Uncounted
  <2> QED
    BY <2>1, <2>2, <2>3, <2>4 DEF Moves
<1> QED
  BY <1>2, <1>3

LEMMA DoAnswersMoves ==
  ASSUME Typed, AllSound, NEW q \in Requests, DoAnswers(q)
  PROVE  \E r : /\ Moves(q, r) /\ r.hold = req[q].hold /\ r.leaked = req[q].leaked
                /\ r.url = None /\ r.shape = req[q].shape
                /\ \/ r.pc = "stream" /\ sse' = sse + 1
                   \/ r.pc = "body" /\ sse' = sse
<1>1. req[q] \in Request /\ Sound(req[q]) /\ req[q].pc = "do"
  BY DEF Typed, AllSound, DoAnswers, At
<1> DEFINE a == [req[q] EXCEPT !.written = "upstream", !.url = None, !.hops = 0]
<1>2. PICK step \in {"stream", "body"}, m \in BOOLEAN :
        /\ Become(q, [a EXCEPT !.pc = step, !.metered = m])
        /\ \/ step = "stream" /\ sse' = sse + 1
           \/ step = "body" /\ sse' = sse
  <2>1. Rules(q).token \in BOOLEAN
    BY <1>1, RulesType
  <2> DEFINE counts == Rules(q).token /\ Snapshots[cur][Biz(q)].mode # "disabled"
  <2>2. counts \in BOOLEAN /\ \A json \in BOOLEAN : (counts /\ json) \in BOOLEAN
    BY <2>1
  <2>3. \/ /\ Become(q, [a EXCEPT !.pc = "stream", !.metered = counts])
           /\ sse' = sse + 1
        \/ \E json \in BOOLEAN :
             /\ Become(q, [a EXCEPT !.pc = "body", !.metered = counts /\ json])
             /\ sse' = sse
    BY DEF DoAnswers
  <2> HIDE DEF counts, a
  <2> QED
    BY <2>2, <2>3, Zenon
<1> DEFINE r == [a EXCEPT !.pc = step, !.metered = m]
<1>3. r \in Request
  <2>1. a \in Request
    BY <1>1, NoHops DEF Request, Statuses
  <2>2. step \in Steps /\ m \in BOOLEAN
    BY DEF Steps
  <2> HIDE DEF a
  <2> QED
    BY <2>1, <2>2 DEF Request
<1>4. /\ r.pc = step /\ r.hold = req[q].hold /\ r.leaked = req[q].leaked
      /\ r.url = None /\ r.shape = req[q].shape
      /\ r.rules = req[q].rules /\ r.written = "upstream" /\ r.counted = req[q].counted
      /\ r.upErr = req[q].upErr /\ r.ip = req[q].ip
      /\ r.charged = req[q].charged
  BY <1>1 DEF Request
<1>5. Become(q, r)
  BY <1>2
<1> HIDE DEF r
<1>6. Sound(r)
  BY <1>1, <1>4 DEF Sound, Uncounted
<1>7. Moves(q, r)
  BY <1>3, <1>5, <1>6 DEF Moves
<1> QED
  BY <1>2, <1>4, <1>7

LEMMA DoFailsMoves ==
  ASSUME Typed, AllSound, NEW q \in Requests, DoFails(q)
  PROVE  \E r : /\ Moves(q, r) /\ r.hold = req[q].hold /\ r.leaked = req[q].leaked
                /\ r.url = None /\ r.pc = "release" /\ r.shape = req[q].shape
<1>1. req[q] \in Request /\ Sound(req[q]) /\ req[q].pc = "do"
  BY DEF Typed, AllSound, DoFails, At
<1>2. Returned(q) \in Request
  BY ReturnedType DEF Typed
<1>3. req[q].counted = <<>> /\ req[q].upErr = 0 /\ req[q].written = "none"
  BY <1>1 DEF Sound, Uncounted
<1>4. CASE Become(q, Cancelled(Returned(q)))
  <2> DEFINE c == Append(Returned(q).counted, "499")
             r == [Returned(q) EXCEPT !.counted = c]
  <2>1. Become(q, r)
    BY <1>4 DEF Cancelled
  <2>2. Returned(q).counted = <<>>
    BY <1>3, ReturnedType DEF Typed
  <2>3. c = <<"499">> /\ c \in Seq(Statuses)
    <3>1. c = <<"499">> /\ "499" \in Statuses
      BY <2>2, AppendFirst DEF Statuses
    <3> QED
      BY <3>1, FirstType
  <2> HIDE DEF c
  <2>4. r \in Request
    BY <1>2, <2>3 DEF Request
  <2>5. /\ r.pc = "release" /\ r.hold = req[q].hold /\ r.leaked = req[q].leaked
        /\ r.url = None /\ r.shape = req[q].shape
        /\ r.rules = req[q].rules /\ r.written = req[q].written /\ r.counted = c
        /\ r.upErr = req[q].upErr /\ r.ip = None
        /\ r.charged = {}
    BY ReturnedType DEF Typed, Request
  <2> HIDE DEF r
  <2>6. Sound(r)
    BY <1>1, <1>3, <2>3, <2>5 DEF Sound, CountedRight
  <2> QED
    BY <2>1, <2>4, <2>5, <2>6 DEF Moves
<1>5. CASE \E status \in {"502", "504"} : Become(q, AnsweredUpErr(Returned(q), status))
  <2>1. PICK status \in {"502", "504"} : Become(q, AnsweredUpErr(Returned(q), status))
    BY <1>5
  <2> DEFINE r == AnsweredUpErr(Returned(q), status)
  <2>2. r \in Request
    BY <1>2, AnsweredType DEF Statuses
  <2>3. /\ r.pc = "release" /\ r.hold = req[q].hold /\ r.leaked = req[q].leaked
        /\ r.url = None /\ r.shape = req[q].shape
        /\ r.rules = req[q].rules /\ r.written = status /\ r.counted = <<status>>
        /\ r.upErr = 1 /\ r.ip = None
        /\ r.charged = {}
    <3> DEFINE e == Returned(q)
               c == Append(e.counted, status)
    <3>1. c = <<status>>
      <4>1. e.counted = <<>>
        BY <1>3, ReturnedType DEF Typed
      <4> QED
        BY <4>1, AppendFirst
    <3>2. r = [[e EXCEPT !.written = status, !.counted = c] EXCEPT !.upErr = 1]
      BY DEF AnsweredUpErr, Answered
    <3>3. /\ e.pc = "release" /\ e.hold = req[q].hold /\ e.leaked = req[q].leaked
          /\ e.url = None /\ e.shape = req[q].shape /\ e.rules = req[q].rules
          /\ e.ip = None /\ e.charged = {}
      BY ReturnedType DEF Typed
    <3> HIDE DEF e, c, r
    <3>4. e \in Request
      BY <1>2 DEF e
    <3> QED
      BY <3>1, <3>2, <3>3, <3>4 DEF Request
  <2> HIDE DEF r
  <2>4. Sound(r)
    BY <1>1, <1>3, <2>3 DEF Sound, CountedRight
  <2> QED
    BY <2>1, <2>2, <2>3, <2>4 DEF Moves, r
<1> QED
  BY <1>4, <1>5 DEF DoFails

LEMMA ResponseEndsMoves ==
  ASSUME Typed, AllSound, NEW q \in Requests, ResponseEnds(q)
  PROVE  \E r : /\ Moves(q, r) /\ r.hold = req[q].hold /\ r.leaked = req[q].leaked
                /\ r.url = None /\ r.pc = "release" /\ r.shape = req[q].shape
<1>1. req[q] \in Request /\ Sound(req[q]) /\ req[q].pc \in {"stream", "body"}
  BY DEF Typed, AllSound, ResponseEnds
<1>2. Returned(q) \in Request
  BY ReturnedType DEF Typed
<1>3. /\ req[q].counted = <<>> /\ req[q].upErr = 0
      /\ req[q].written = "upstream"
  BY <1>1 DEF Sound, Uncounted
<1> DEFINE c == Append(Returned(q).counted, "upstream")
           r == [Returned(q) EXCEPT !.counted = c, !.rpm = 1]
<1>4. Become(q, r)
  BY DEF ResponseEnds
<1>5. Returned(q).counted = <<>>
  BY <1>3, ReturnedType DEF Typed
<1>6. c = <<"upstream">> /\ c \in Seq(Statuses)
  <2>1. c = <<"upstream">> /\ "upstream" \in Statuses
    BY <1>5, AppendFirst DEF Statuses
  <2> QED
    BY <2>1, FirstType
<1> HIDE DEF c
<1>7. r \in Request
  BY <1>2, <1>6 DEF Request
<1>8. /\ r.pc = "release" /\ r.hold = req[q].hold /\ r.leaked = req[q].leaked
      /\ r.url = None /\ r.shape = req[q].shape
      /\ r.rules = req[q].rules /\ r.written = req[q].written /\ r.counted = c
      /\ r.upErr = req[q].upErr /\ r.ip = None
      /\ r.charged = {}
  BY ReturnedType DEF Typed, Request
<1> HIDE DEF r
<1>9. Sound(r)
  BY <1>1, <1>3, <1>6, <1>8 DEF Sound, CountedRight
<1> QED
  BY <1>4, <1>7, <1>8, <1>9 DEF Moves

LEMMA ReleaseMoves ==
  ASSUME Typed, AllSound, NEW q \in Requests, Release(q)
  PROVE  \E r : /\ Moves(q, r) /\ ~r.hold /\ r.url = None /\ r.pc = "done"
                /\ r.shape = req[q].shape /\ (req[q].leaked => r.leaked)
                /\ \/ ~req[q].hold /\ slots' = slots /\ conc' = conc
                   \/ req[q].hold /\ slots' = slots \ {ReqId(q)} /\ conc' = conc - 1
                   \/ req[q].hold /\ slots' = slots /\ conc' = conc - 1 /\ r.leaked
<1>1. /\ req[q] \in Request /\ Sound(req[q]) /\ req[q].pc = "release"
      /\ req[q].hold \in BOOLEAN /\ req[q].leaked \in BOOLEAN
  BY DEF Typed, AllSound, Release, At, Request
<1>2. Ended(q) \in Request
  BY EndedType DEF Typed
<1>3. ASSUME NEW l \in BOOLEAN
      PROVE  \E r : /\ r = [Ended(q) EXCEPT !.hold = FALSE, !.leaked = l]
                    /\ r \in Request /\ Sound(r)
                    /\ ~r.hold /\ r.url = None /\ r.pc = "done" /\ r.shape = req[q].shape
                    /\ r.leaked = l
  <2> DEFINE e == Ended(q)
             r == [e EXCEPT !.hold = FALSE, !.leaked = l]
  <2>1. /\ e.pc = "done" /\ e.url = None /\ e.shape = req[q].shape
        /\ e.rules = req[q].rules /\ e.written = req[q].written
        /\ e.counted = req[q].counted
        /\ e.upErr = req[q].upErr /\ e.ip = None /\ e.charged = {}
    BY <1>1 DEF Ended, To, Request
  <2> HIDE DEF e
  <2>2. r \in Request
    BY <1>2 DEF Request, e
  <2>3. /\ r.pc = "done" /\ r.url = None /\ r.shape = req[q].shape
        /\ r.rules = req[q].rules /\ r.written = req[q].written
        /\ r.counted = req[q].counted
        /\ r.upErr = req[q].upErr /\ r.ip = None /\ r.charged = {}
        /\ r.hold = FALSE /\ r.leaked = l
    BY <1>2, <2>1 DEF Request, e
  <2> HIDE DEF r
  <2>4. Sound(r)
    BY <1>1, <2>3 DEF Sound, CountedRight
  <2>5. r = [Ended(q) EXCEPT !.hold = FALSE, !.leaked = l]
    BY DEF r, e
  <2> QED
    BY <2>2, <2>3, <2>4, <2>5
<1>4. CASE ~req[q].hold /\ slots' = slots /\ conc' = conc /\ Become(q, Ended(q))
  <2>1. Ended(q) = [Ended(q) EXCEPT !.hold = FALSE, !.leaked = req[q].leaked]
    BY <1>1, <1>4 DEF Ended, To, Request
  <2>2. PICK r : /\ r = [Ended(q) EXCEPT !.hold = FALSE, !.leaked = req[q].leaked]
                 /\ r \in Request /\ Sound(r)
                 /\ ~r.hold /\ r.url = None /\ r.pc = "done" /\ r.shape = req[q].shape
                 /\ r.leaked = req[q].leaked
    BY <1>1, <1>3
  <2>3. Moves(q, r)
    BY <1>4, <2>1, <2>2 DEF Moves
  <2> QED
    BY <1>4, <2>2, <2>3
<1>5. CASE /\ req[q].hold /\ slots' = slots \ {ReqId(q)} /\ conc' = conc - 1
           /\ Become(q, [Ended(q) EXCEPT !.hold = FALSE])
  <2>1. [Ended(q) EXCEPT !.hold = FALSE]
          = [Ended(q) EXCEPT !.hold = FALSE, !.leaked = req[q].leaked]
    BY <1>1 DEF Ended, To, Request
  <2>2. PICK r : /\ r = [Ended(q) EXCEPT !.hold = FALSE, !.leaked = req[q].leaked]
                 /\ r \in Request /\ Sound(r)
                 /\ ~r.hold /\ r.url = None /\ r.pc = "done" /\ r.shape = req[q].shape
                 /\ r.leaked = req[q].leaked
    BY <1>1, <1>3
  <2>3. Moves(q, r)
    BY <1>5, <2>1, <2>2 DEF Moves
  <2> QED
    BY <1>5, <2>2, <2>3
<1>6. CASE /\ req[q].hold /\ slots' = slots /\ conc' = conc - 1
           /\ Become(q, [Ended(q) EXCEPT !.hold = FALSE, !.leaked = TRUE])
  BY <1>1, <1>3, <1>6 DEF Moves
<1> QED
  BY <1>4, <1>5, <1>6 DEF Release, GaugeAfter
-----------------------------------------------------------------------------
LEMMA ValidUrl ==
  ASSUME NEW url, NEW fromHeader, NEW ok \in Validate(url, fromHeader), ok
  PROVE  url \in Urls
BY ResolverAssumption DEF Validate

\* What Resolve answers: a URL that is accepted now or has been, or nothing.
Resolved(q, r) ==
  /\ Moves(q, r) /\ ~r.hold /\ ~r.leaked /\ r.shape = req[q].shape
  /\ r.pc \in {"lookup", "check", "done"}
  /\ accepted \subseteq accepted' /\ (r.url = None \/ r.url \in accepted')

LEMMA VetMoves ==
  ASSUME Typed, AllSound, NEW q \in Requests, req[q].pc = "resolve",
         NEW url, NEW fromHeader \in BOOLEAN, Vet(q, url, fromHeader)
  PROVE  \E r : Resolved(q, r)
<1>1. PICK ok \in Validate(url, fromHeader) :
        IF ok THEN /\ Target(q, url, fromHeader)
                   /\ accepted' = accepted \cup {<<url, fromHeader>>}
              ELSE Blocked(q) /\ UNCHANGED accepted
  BY DEF Vet
<1>2. CASE ok
  <2>1. url \in Urls /\ Target(q, url, fromHeader)
    BY <1>1, <1>2, ValidUrl
  <2>2. PICK r : /\ Moves(q, r) /\ ~r.hold /\ ~r.leaked /\ r.url = <<url, fromHeader>>
                 /\ r.pc = "check" /\ r.shape = req[q].shape
    BY <2>1, TargetMoves
  <2> QED
    BY <1>1, <1>2, <2>2 DEF Resolved
<1>3. CASE ~ok
  <2>1. PICK r : /\ Moves(q, r) /\ ~r.hold /\ ~r.leaked /\ r.url = None
                 /\ r.pc = "done" /\ r.shape = req[q].shape
    BY <1>1, <1>3, RefusedMoves
  <2> QED
    BY <1>1, <1>3, <2>1 DEF Resolved
<1> QED
  BY <1>2, <1>3

CacheAccepted ==
  \A b \in Bizs : envCache[b] \notin {Missing, Empty} => <<envCache[b], FALSE>> \in accepted

LEMMA ResolveMoves ==
  ASSUME Typed, AllSound, CacheAccepted, NEW q \in Requests, Resolve(q)
  PROVE  \E r : Resolved(q, r)
<1>1. req[q].pc = "resolve"
  BY DEF Resolve, At
<1>2. CASE \E url : \E h \in BOOLEAN : Vet(q, url, h)
  BY <1>1, <1>2, VetMoves
<1>3. CASE accepted' = accepted /\ ~Hit(envCache[Biz(q)]) /\ Become(q, To(q, "lookup"))
  <2>1. PICK r : /\ Moves(q, r) /\ ~r.hold /\ ~r.leaked /\ r.url = None
                 /\ r.pc = "lookup" /\ r.shape = req[q].shape
    BY <1>1, <1>3, AskMoves
  <2> QED
    BY <1>3, <2>1 DEF Resolved, Hit
<1>4. CASE accepted' = accepted /\ NoUpstream(q)
  <2>1. PICK r : /\ Moves(q, r) /\ ~r.hold /\ ~r.leaked /\ r.url = None
                 /\ r.pc = "done" /\ r.shape = req[q].shape
    BY <1>1, <1>4, RefusedMoves
  <2> QED
    BY <1>4, <2>1 DEF Resolved
<1>5. CASE /\ accepted' = accepted /\ Hit(envCache[Biz(q)]) /\ envCache[Biz(q)] # Empty
           /\ Target(q, envCache[Biz(q)], FALSE)
  <2>1. Biz(q) \in Bizs
    BY <1>1 DEF AllSound, Sound, Biz
  <2>2. envCache[Biz(q)] \in Urls /\ <<envCache[Biz(q)], FALSE>> \in accepted
    BY <1>5, <2>1 DEF Typed, EnvCaches, Hit, CacheAccepted
  <2>3. PICK r : /\ Moves(q, r) /\ ~r.hold /\ ~r.leaked /\ r.url = <<envCache[Biz(q)], FALSE>>
                 /\ r.pc = "check" /\ r.shape = req[q].shape
    BY <1>1, <1>5, <2>2, TargetMoves
  <2> QED
    BY <1>5, <2>2, <2>3 DEF Resolved
<1>6. \/ Vet(q, Snapshots[cur][Biz(q)].upstream, FALSE) \/ Vet(q, Header(q), TRUE)
      \/ /\ IF ~Hit(envCache[Biz(q)]) THEN Become(q, To(q, "lookup"))
           ELSE IF envCache[Biz(q)] = Empty THEN NoUpstream(q)
           ELSE Target(q, envCache[Biz(q)], FALSE)
         /\ accepted' = accepted
  BY Zenon DEF Resolve
<1>7. (\E url : \E h \in BOOLEAN : Vet(q, url, h))
        \/ ~(Vet(q, Snapshots[cur][Biz(q)].upstream, FALSE) \/ Vet(q, Header(q), TRUE))
  OBVIOUS
<1> QED
  BY <1>2, <1>3, <1>4, <1>5, <1>6, <1>7

LEMMA LookupMoves ==
  ASSUME Typed, AllSound, CacheAccepted, NEW q \in Requests, Lookup(q)
  PROVE  /\ \E r : Resolved(q, r)
         /\ envCache' \in EnvCaches /\ CacheAccepted'
<1>1. req[q].pc = "lookup" /\ Biz(q) \in Bizs /\ envCache \in EnvCaches
  BY DEF Lookup, At, AllSound, Sound, Biz, Typed
<1>2. PICK ok \in EnvOutcomes(Biz(q)) :
        /\ envCache' = [envCache EXCEPT ![Biz(q)] = EntryAfter(Biz(q), ok)]
        /\ \/ EnvUrl[Biz(q)] = None /\ NoUpstream(q) /\ UNCHANGED accepted
           \/ /\ EnvUrl[Biz(q)] # None /\ ok
              /\ Target(q, EnvUrl[Biz(q)], FALSE)
              /\ accepted' = accepted \cup {<<EnvUrl[Biz(q)], FALSE>>}
           \/ EnvUrl[Biz(q)] # None /\ ~ok /\ Blocked(q) /\ UNCHANGED accepted
  BY DEF Lookup
<1>3. CASE EnvUrl[Biz(q)] # None /\ ok
  <2>1. EnvUrl[Biz(q)] \in Urls /\ EnvUrl[Biz(q)] # Missing
    BY <1>1, <1>3, ResolverAssumption DEF Missing
  <2>2. PICK r : /\ Moves(q, r) /\ ~r.hold /\ ~r.leaked /\ r.url = <<EnvUrl[Biz(q)], FALSE>>
                 /\ r.pc = "check" /\ r.shape = req[q].shape
    BY <1>1, <1>2, <1>3, <2>1, TargetMoves
  <2>3. Resolved(q, r)
    BY <1>2, <1>3, <2>2 DEF Resolved
  <2>4. EntryAfter(Biz(q), ok) = EnvUrl[Biz(q)]
    BY <1>3 DEF EntryAfter
  <2>5. envCache' \in EnvCaches /\ CacheAccepted'
    BY <1>1, <1>2, <1>3, <2>1, <2>4 DEF EnvCaches, CacheAccepted
  <2> QED
    BY <1>1, <1>2, <2>1, <2>2, <2>3, <2>4, <2>5 DEF EnvCaches
<1>4. CASE ~(EnvUrl[Biz(q)] # None /\ ok)
  <2>1. PICK r : /\ Moves(q, r) /\ ~r.hold /\ ~r.leaked /\ r.url = None
                 /\ r.pc = "done" /\ r.shape = req[q].shape
    BY <1>1, <1>2, <1>4, RefusedMoves
  <2>2. Resolved(q, r)
    BY <1>2, <1>4, <2>1 DEF Resolved
  <2>3. EntryAfter(Biz(q), ok) = Empty
    BY <1>4 DEF EntryAfter
  <2>4. envCache' \in EnvCaches /\ CacheAccepted'
    BY <1>1, <1>2, <1>4, <2>3 DEF EnvCaches, CacheAccepted
  <2> QED
    BY <1>1, <1>2, <2>1, <2>2, <2>3, <2>4 DEF EnvCaches, Empty, Missing
<1> QED
  BY <1>3, <1>4
-----------------------------------------------------------------------------
\* How the sets that the gauges count change with one request.
Streaming == {q \in Requests : At(q, "stream")}

LEMMA GaugeSets ==
  /\ IsFiniteSet(Held) /\ IsFiniteSet(Held') /\ IsFiniteSet(Streaming)
  /\ Cardinality(Held) \in 0 .. Cardinality(Requests)
  /\ Cardinality(Streaming) \in 0 .. Cardinality(Requests)
<1>1. IsFiniteSet(Requests) /\ Held \in SUBSET Requests /\ Held' \in SUBSET Requests
      /\ Streaming \in SUBSET Requests
  BY GatewayAssumption DEF Held, Streaming
<1>2. IsFiniteSet(Held) /\ Cardinality(Held) <= Cardinality(Requests)
  BY <1>1, FS_Subset
<1>3. IsFiniteSet(Streaming) /\ Cardinality(Streaming) <= Cardinality(Requests)
  BY <1>1, FS_Subset
<1>4. IsFiniteSet(Held')
  BY <1>1, FS_Subset
<1>5. Cardinality(Held) \in Nat /\ Cardinality(Streaming) \in Nat /\ Cardinality(Requests) \in Nat
  BY <1>1, <1>2, <1>3, FS_CardinalityType
<1> QED
  BY <1>2, <1>3, <1>4, <1>5

LEMMA GaugeSteps ==
  ASSUME Typed, AllSound, GaugesExact, NEW q \in Requests, NEW r, Moves(q, r),
         conc' = IF r.hold /\ ~req[q].hold THEN conc + 1
                 ELSE IF ~r.hold /\ req[q].hold THEN conc - 1 ELSE conc,
         sse' = IF r.pc = "stream" /\ req[q].pc # "stream" THEN sse + 1
                ELSE IF r.pc # "stream" /\ req[q].pc = "stream" THEN sse - 1 ELSE sse
  PROVE  GaugesExact'
<1>1. /\ req'[q] = r
      /\ \A x \in Requests : x # q => req'[x] = req[x]
  BY MovesKeep
<1>2. Held' = IF r.hold /\ ~req[q].hold THEN Held \cup {q}
              ELSE IF ~r.hold /\ req[q].hold THEN Held \ {q} ELSE Held
  BY <1>1 DEF Held
<1>3. Streaming' = IF r.pc = "stream" /\ req[q].pc # "stream" THEN Streaming \cup {q}
                   ELSE IF r.pc # "stream" /\ req[q].pc = "stream" THEN Streaming \ {q}
                   ELSE Streaming
  BY <1>1 DEF Streaming, At
<1>4. /\ q \in Held <=> req[q].hold
      /\ q \in Streaming <=> req[q].pc = "stream"
  BY DEF Held, Streaming, At
<1>5. \A S : IsFiniteSet(S) =>
        /\ q \notin S => Cardinality(S \cup {q}) = Cardinality(S) + 1
        /\ q \in S => Cardinality(S \ {q}) = Cardinality(S) - 1
  BY FS_AddElement, FS_RemoveElement
<1>6. IsFiniteSet(Held) /\ IsFiniteSet(Streaming)
  BY GaugeSets
<1>7. conc' = Cardinality(Held')
  BY <1>2, <1>4, <1>5, <1>6 DEF GaugesExact
<1>8. sse' = Cardinality(Streaming')
  <2>1. sse = Cardinality(Streaming)
    BY DEF GaugesExact, Streaming
  <2> QED
    BY <1>3, <1>4, <1>5, <1>6, <2>1
<1> QED
  BY <1>7, <1>8 DEF GaugesExact, Streaming

\* How the slots change with one request: they lose what is swept and what q gives back,
\* and gain at most the identifier of q.
SlotStep(q, r) ==
  /\ \/ r.shape = req[q].shape
     \/ ~req[q].hold /\ ~req[q].leaked /\ ~r.hold /\ slots' = slots
  /\ req[q].leaked => r.leaked
  /\ \A x \in Requests : x # q /\ ReqId(x) \in swept => ReqId(x) \in swept' \/ ReqId(x) = ReqId(q)
  /\ r.hold => swept \subseteq swept'
  /\ \A x \in Held : ReqId(x) \in slots =>
       ReqId(x) \in slots' \cup swept' \/ (ReqId(x) = ReqId(q) /\ ~r.hold)
  /\ \A i \in slots' : i \in slots \/ (i = ReqId(q) /\ (r.hold \/ r.leaked))
  /\ r.hold /\ ~req[q].hold => ReqId(q) \in slots'
  /\ req[q].hold => r.hold \/ r.leaked \/ ReqId(q) \notin slots'

LEMMA SlotSteps ==
  ASSUME Typed, AllSound, SlotOfItsOwn, NEW q \in Requests, NEW r, Moves(q, r), SlotStep(q, r)
  PROVE  SlotOfItsOwn'
<1>0. Moves(q, r) /\ req \in [Requests -> Request]
  BY DEF Typed
<1>1. /\ req'[q] = r
      /\ \A x \in Requests : x # q => req'[x] = req[x]
  BY MovesKeep
<1>2. /\ \A x \in Requests : x # q => ReqId(x)' = ReqId(x)
      /\ r.shape = req[q].shape => ReqId(q)' = ReqId(q)
  BY <1>1 DEF ReqId
<1>3. \A x \in Requests : req[x].shape.id = None \/ req[x].shape.id \notin Requests
  <2>1. \A x \in Requests : req[x].shape \in Shapes
    BY <1>0 DEF Request
  <2> QED
    BY <2>1, FreshIds
<1>4. \A x \in Requests : x # q /\ req[x].shape.id = None => ReqId(x) = x /\ ReqId(q) # x
  BY <1>3 DEF ReqId
<1>5. ASSUME NEW x \in Held', req'[x].shape.id = None
      PROVE  ReqId(x)' \in slots' \cup swept'
  <2>1. x \in Requests /\ req'[x].hold
    BY <1>5 DEF Held
  <2>2. CASE x # q
    <3>1. req'[x] = req[x] /\ ReqId(x)' = ReqId(x) /\ x \in Held
      BY <1>1, <1>2, <2>1, <2>2 DEF Held
    <3>2. ReqId(x) \in slots \cup swept /\ ReqId(x) # ReqId(q)
      BY <1>4, <1>5, <2>1, <2>2, <3>1 DEF SlotOfItsOwn
    <3> QED
      BY <2>1, <2>2, <3>1, <3>2 DEF SlotStep
  <2>3. CASE x = q
    <3>1. r.hold /\ r.shape = req[q].shape /\ ReqId(q)' = ReqId(q)
      BY <1>1, <1>2, <2>1, <2>3 DEF SlotStep
    <3>2. CASE req[q].hold
      <4>1. q \in Held /\ req[q].shape.id = None
        BY <1>1, <1>5, <2>3, <3>1, <3>2 DEF Held
      <4>2. ReqId(q) \in slots \cup swept
        BY <4>1 DEF SlotOfItsOwn
      <4> QED
        BY <2>3, <3>1, <4>1, <4>2 DEF SlotStep
    <3>3. CASE ~req[q].hold
      BY <2>3, <3>1, <3>3 DEF SlotStep
    <3> QED
      BY <3>2, <3>3
  <2> QED
    BY <2>2, <2>3
<1>6. ASSUME NEW i \in slots'
      PROVE  \E x \in Requests : ReqId(x)' = i /\ (req'[x].hold \/ req'[x].leaked)
  <2>1. CASE i \in slots
    <3>1. PICK x \in Requests : ReqId(x) = i /\ (req[x].hold \/ req[x].leaked)
      BY <2>1 DEF SlotOfItsOwn
    <3>2. CASE x # q
      BY <1>1, <1>2, <3>1, <3>2
    <3>3. CASE x = q
      <4>1. r.shape = req[q].shape /\ ReqId(q)' = i
        BY <1>2, <3>1, <3>3 DEF SlotStep
      <4>2. r.hold \/ r.leaked
        BY <1>6, <3>1, <3>3 DEF SlotStep
      <4> QED
        BY <1>1, <4>1, <4>2
    <3> QED
      BY <3>2, <3>3
  <2>2. CASE i \notin slots
    <3>1. i = ReqId(q) /\ (r.hold \/ r.leaked) /\ r.shape = req[q].shape
      BY <1>6, <2>2 DEF SlotStep
    <3> QED
      BY <1>1, <1>2, <3>1
  <2> QED
    BY <2>1, <2>2
<1> QED
  BY <1>5, <1>6 DEF SlotOfItsOwn

\* The slots as they are are in step with a request that keeps its own, ...
LEMMA SlotsKept ==
  ASSUME NEW q \in Requests, NEW r, UNCHANGED <<slots, swept>>,
         \/ r.shape = req[q].shape
         \/ ~req[q].hold /\ ~req[q].leaked /\ ~r.hold,
         req[q].leaked => r.leaked, r.hold <=> req[q].hold
  PROVE  SlotStep(q, r)
BY DEF SlotStep

\* ... and the script for request q keeps those of the others, but for what it sweeps.
LEMMA ScriptSteps ==
  ASSUME NEW q \in Requests, NEW r, r.shape = req[q].shape, ~req[q].hold,
         req[q].leaked => r.leaked,
         \/ RunScript({}) /\ ~r.hold
         \/ RunScript({ReqId(q)}) /\ (r.hold \/ r.leaked)
  PROVE  SlotStep(q, r)
<1>1. PICK taken \in {{}, {ReqId(q)}} :
        /\ RunScript(taken)
        /\ \/ taken = {} /\ ~r.hold
           \/ taken = {ReqId(q)} /\ (r.hold \/ r.leaked)
  OBVIOUS
<1>2. PICK over \in SUBSET slots :
        /\ slots' = (slots \ over) \cup taken
        /\ swept' = swept \cup (over \cap {ReqId(x) : x \in Held})
  BY <1>1 DEF RunScript
<1>3. swept \subseteq swept' /\ \A x \in Held : ReqId(x) \in slots => ReqId(x) \in slots' \cup swept'
  BY <1>2
<1>4. \A i \in slots' : i \in slots \/ (i = ReqId(q) /\ (r.hold \/ r.leaked))
  BY <1>1, <1>2
<1>5. r.hold => ReqId(q) \in slots'
  BY <1>1, <1>2
<1> QED
  BY <1>3, <1>4, <1>5 DEF SlotStep
-----------------------------------------------------------------------------
GatewayInv ==
  Typed /\ AllSound /\ GaugesExact /\ SlotOfItsOwn /\ ResolvedAccepted /\ CacheAccepted

\* A step of request q that does not touch the cache preserves the invariant if it
\* keeps the gauges, the slots and the accepted URLs in step with r.
LEMMA StepKeeps ==
  ASSUME GatewayInv, NEW q \in Requests, NEW r, Moves(q, r), GaugesExact', SlotOfItsOwn',
         UNCHANGED <<cur, opt>>, envCache' \in EnvCaches, CacheAccepted',
         accepted \subseteq accepted',
         \/ r.url = None \/ r.hops # 0 \/ r.url \in accepted'
         \/ r.url = req[q].url /\ r.hops = req[q].hops
  PROVE  GatewayInv'
<1>1. /\ req' \in [Requests -> Request] /\ AllSound' /\ req'[q] = r
      /\ \A x \in Requests : x # q => req'[x] = req[x]
  BY MovesKeep DEF GatewayInv
<1>2. Typed'
  BY <1>1 DEF GatewayInv, Typed
<1>3. ResolvedAccepted'
  BY <1>1 DEF GatewayInv, ResolvedAccepted
<1> QED
  BY <1>1, <1>2, <1>3 DEF GatewayInv

LEMMA CacheKept ==
  ASSUME CacheAccepted, Typed, envCache' = envCache, accepted \subseteq accepted'
  PROVE  CacheAccepted' /\ envCache' \in EnvCaches
BY DEF CacheAccepted, Typed

LEMMA ArriveInv ==
  ASSUME GatewayInv, NEW q \in Requests, NEW s \in Shapes, Arrive(q, s)
  PROVE  GatewayInv'
<1>1. PICK r : /\ Moves(q, r) /\ ~r.hold /\ ~r.leaked /\ r.url = None
               /\ r.pc \in {"resolve", "done"}
  BY ArriveMoves DEF GatewayInv
<1>2. /\ req[q].pc = "new" /\ ~req[q].hold /\ ~req[q].leaked
      /\ UNCHANGED <<cur, opt, envCache, slots, swept, conc, sse, accepted>>
  BY DEF GatewayInv, AllSound, Sound, Arrive, At
<1>3. GaugesExact'
  BY <1>1, <1>2, GaugeSteps DEF GatewayInv
<1>4. SlotOfItsOwn'
  BY <1>1, <1>2, SlotSteps, SlotsKept DEF GatewayInv
<1> QED
  BY <1>1, <1>2, <1>3, <1>4, StepKeeps, CacheKept DEF GatewayInv

LEMMA ResolvedInv ==
  ASSUME GatewayInv, NEW q \in Requests, NEW r, Resolved(q, r),
         req[q].pc \in {"resolve", "lookup"},
         UNCHANGED <<cur, opt, slots, swept, conc, sse>>, envCache' \in EnvCaches, CacheAccepted'
  PROVE  GatewayInv'
<1>1. ~req[q].hold /\ ~req[q].leaked
  BY DEF GatewayInv, AllSound, Sound
<1>2. Moves(q, r)
  BY DEF Resolved
<1>3. GaugesExact'
  BY <1>1, <1>2, GaugeSteps DEF GatewayInv, Resolved
<1>4. SlotOfItsOwn'
  BY <1>1, <1>2, SlotSteps, SlotsKept DEF GatewayInv, Resolved
<1> QED
  BY <1>2, <1>3, <1>4, StepKeeps DEF Resolved

LEMMA ResolveInv ==
  ASSUME GatewayInv, NEW q \in Requests, Resolve(q)
  PROVE  GatewayInv'
<1>1. PICK r : Resolved(q, r)
  BY ResolveMoves DEF GatewayInv
<1>2. /\ req[q].pc = "resolve" /\ UNCHANGED <<cur, opt, envCache, slots, swept, conc, sse>>
      /\ accepted \subseteq accepted'
  BY <1>1 DEF Resolve, At, Resolved
<1> QED
  BY <1>1, <1>2, CacheKept, ResolvedInv DEF GatewayInv

LEMMA LookupInv ==
  ASSUME GatewayInv, NEW q \in Requests, Lookup(q)
  PROVE  GatewayInv'
<1>1. /\ \E r : Resolved(q, r)
      /\ envCache' \in EnvCaches /\ CacheAccepted'
  BY LookupMoves DEF GatewayInv
<1>2. req[q].pc = "lookup" /\ UNCHANGED <<cur, opt, slots, swept, conc, sse>>
  BY DEF Lookup, At
<1> QED
  BY <1>1, <1>2, ResolvedInv

LEMMA CheckInv ==
  ASSUME GatewayInv, NEW q \in Requests, CheckPasses(q) \/ DegradedPass(q) \/ Reject(q)
  PROVE  GatewayInv'
<1>1. /\ req[q].pc = "check" /\ ~req[q].hold /\ ~req[q].leaked
      /\ UNCHANGED <<cur, opt, envCache, sse, accepted>>
  BY DEF GatewayInv, AllSound, Sound, CheckPasses, DegradedPass, Reject, At
<1>2. CASE CheckPasses(q)
  <2>1. PICK r : /\ Moves(q, r) /\ r.hold = Rules(q).conc /\ r.leaked = req[q].leaked
                 /\ r.url = req[q].url /\ r.hops = req[q].hops /\ r.pc = "forward" /\ r.shape = req[q].shape
    BY <1>2, CheckPassesMoves DEF GatewayInv
  <2>2. \/ r.hold /\ RunScript({ReqId(q)}) /\ conc' = conc + 1
        \/ ~r.hold /\ UNCHANGED <<slots, swept>> /\ conc' = conc
    BY <1>2, <2>1 DEF CheckPasses
  <2>3. GaugesExact'
    BY <1>1, <2>1, <2>2, GaugeSteps DEF GatewayInv
  <2>4. SlotStep(q, r)
    BY <1>1, <2>1, <2>2, ScriptSteps, SlotsKept
  <2>5. SlotOfItsOwn'
    BY <2>1, <2>4, SlotSteps DEF GatewayInv
  <2> QED
    BY <1>1, <2>1, <2>3, <2>5, StepKeeps, CacheKept DEF GatewayInv
<1>3. CASE DegradedPass(q)
  <2>1. PICK r : /\ Moves(q, r) /\ r.hold = req[q].hold
                 /\ r.url = req[q].url /\ r.hops = req[q].hops /\ r.pc = "forward"
                 /\ r.shape = req[q].shape
                 /\ \/ r.leaked = req[q].leaked /\ UNCHANGED <<slots, swept>>
                    \/ r.leaked /\ RunScript({ReqId(q)})
    BY <1>3, DegradedPassMoves DEF GatewayInv
  <2>2. conc' = conc
    BY <1>3 DEF DegradedPass
  <2>3. GaugesExact'
    BY <1>1, <2>1, <2>2, GaugeSteps DEF GatewayInv
  <2>4. SlotStep(q, r)
    BY <1>1, <2>1, ScriptSteps, SlotsKept
  <2>5. SlotOfItsOwn'
    BY <2>1, <2>4, SlotSteps DEF GatewayInv
  <2> QED
    BY <1>1, <2>1, <2>3, <2>5, StepKeeps, CacheKept DEF GatewayInv
<1>4. CASE Reject(q)
  <2>1. PICK r : /\ Moves(q, r) /\ ~r.hold /\ r.url = None /\ r.pc = "done"
                 /\ r.shape = req[q].shape
                 /\ \/ UNCHANGED <<slots, swept>> \/ RunScript({})
                    \/ RunScript({ReqId(q)}) /\ r.leaked
    BY <1>4, RejectMoves DEF GatewayInv
  <2>2. conc' = conc
    BY <1>4 DEF Reject
  <2>3. GaugesExact'
    BY <1>1, <2>1, <2>2, GaugeSteps DEF GatewayInv
  <2>4. SlotStep(q, r)
    BY <1>1, <2>1, ScriptSteps, SlotsKept
  <2>5. SlotOfItsOwn'
    BY <2>1, <2>4, SlotSteps DEF GatewayInv
  <2> QED
    BY <1>1, <2>1, <2>3, <2>5, StepKeeps, CacheKept DEF GatewayInv
<1> QED
  BY <1>2, <1>3, <1>4

LEMMA UpstreamInv ==
  ASSUME GatewayInv, NEW q \in Requests,
         \/ Forward(q) \/ DoAnswers(q) \/ DoFails(q) \/ ResponseEnds(q)
         \/ Redirect(q) \/ Charge(q) \/ TimerFires(q) \/ ClientLeaves(q) \/ ClientStalls(q)
  PROVE  GatewayInv'
<1>1. /\ req[q].pc \in {"forward", "do", "stream", "body"}
      /\ UNCHANGED <<cur, opt, envCache, slots, swept, conc, accepted>>
  BY DEF Forward, DoAnswers, DoFails, ResponseEnds, Charge, TimerFires, ClientLeaves,
         ClientStalls, Redirect, Waits, At
<1>2. PICK r : /\ Moves(q, r) /\ r.hold = req[q].hold /\ r.leaked = req[q].leaked
               /\ \/ r.url = None \/ r.hops # 0
                  \/ r.url = req[q].url /\ r.hops = req[q].hops
               /\ r.shape = req[q].shape
               /\ sse' = IF r.pc = "stream" /\ req[q].pc # "stream" THEN sse + 1
                         ELSE IF r.pc # "stream" /\ req[q].pc = "stream" THEN sse - 1
                         ELSE sse
  <2>1. CASE Forward(q)
    <3>1. req[q].pc = "forward" /\ sse' = sse
      BY <2>1 DEF Forward, At
    <3> QED
      BY <2>1, <3>1, ForwardMoves DEF GatewayInv
  <2>2. CASE DoAnswers(q)
    <3>1. req[q].pc = "do"
      BY <2>2 DEF DoAnswers, At
    <3> QED
      BY <2>2, <3>1, DoAnswersMoves DEF GatewayInv
  <2>3. CASE DoFails(q)
    <3>1. req[q].pc = "do" /\ sse' = sse
      BY <2>3 DEF DoFails, At
    <3> QED
      BY <2>3, <3>1, DoFailsMoves DEF GatewayInv
  <2>4. CASE ResponseEnds(q)
    <3>1. sse' = IF req[q].pc = "stream" THEN sse - 1 ELSE sse
      BY <2>4 DEF ResponseEnds, At
    <3> QED
      BY <2>4, <3>1, ResponseEndsMoves DEF GatewayInv
  <2>5. CASE Charge(q) \/ TimerFires(q) \/ ClientLeaves(q) \/ ClientStalls(q)
    <3>1. sse' = sse
      BY <2>5 DEF Charge, TimerFires, ClientLeaves, ClientStalls
    <3> QED
      BY <2>5, <3>1, WaitMoves DEF GatewayInv
  <2>6. CASE Redirect(q)
    <3>1. sse' = sse
      BY <2>6 DEF Redirect
    <3> QED
      BY <2>6, <3>1, RedirectMoves DEF GatewayInv
  <2> QED
    BY <2>1, <2>2, <2>3, <2>4, <2>5, <2>6
<1>3. GaugesExact'
  BY <1>1, <1>2, GaugeSteps DEF GatewayInv
<1>4. SlotOfItsOwn'
  BY <1>1, <1>2, SlotSteps, SlotsKept DEF GatewayInv
<1> QED
  BY <1>1, <1>2, <1>3, <1>4, StepKeeps, CacheKept DEF GatewayInv

LEMMA ReleaseInv ==
  ASSUME GatewayInv, NEW q \in Requests, Release(q)
  PROVE  GatewayInv'
<1>1. /\ req[q].pc = "release" /\ swept' = swept \ {ReqId(q)}
      /\ UNCHANGED <<cur, opt, envCache, sse, accepted>>
  BY DEF Release, At
<1>2. PICK r : /\ Moves(q, r) /\ ~r.hold /\ r.url = None /\ r.pc = "done"
               /\ r.shape = req[q].shape /\ (req[q].leaked => r.leaked)
               /\ \/ ~req[q].hold /\ slots' = slots /\ conc' = conc
                  \/ req[q].hold /\ slots' = slots \ {ReqId(q)} /\ conc' = conc - 1
                  \/ req[q].hold /\ slots' = slots /\ conc' = conc - 1 /\ r.leaked
  BY ReleaseMoves DEF GatewayInv
<1>3. GaugesExact'
  BY <1>1, <1>2, GaugeSteps DEF GatewayInv
<1>4. SlotStep(q, r)
  BY <1>1, <1>2 DEF SlotStep
<1>5. SlotOfItsOwn'
  BY <1>2, <1>4, SlotSteps DEF GatewayInv
<1> QED
  BY <1>1, <1>2, <1>3, <1>5, StepKeeps, CacheKept DEF GatewayInv

LEMMA PublishInv ==
  ASSUME GatewayInv, Publish \/ SweepElsewhere \/ UNCHANGED vars
  PROVE  GatewayInv'
<1>1. /\ UNCHANGED <<req, envCache, conc, sse, accepted>>
      /\ cur' \in 1 .. Len(Snapshots) /\ opt' \in Range(Options)
  BY DEF GatewayInv, Typed, Publish, SweepElsewhere, vars
<1>2. /\ \A i \in slots : i \in slots' \/ i \in swept' \/ i \notin {ReqId(q) : q \in Held}
      /\ slots' \subseteq slots /\ swept \subseteq swept'
  <2>1. CASE UNCHANGED <<slots, swept>>
    BY <2>1
  <2>2. CASE RunScript({})
    BY <2>2 DEF RunScript
  <2> QED
    BY <2>1, <2>2 DEF Publish, SweepElsewhere, vars
<1>3. Held' = Held /\ Streaming' = Streaming /\ \A q \in Requests : ReqId(q)' = ReqId(q)
  BY <1>1 DEF Held, Streaming, At, ReqId
<1>4. GaugesExact'
  BY <1>1, <1>3 DEF GatewayInv, GaugesExact, Streaming
<1>5. SlotOfItsOwn'
  <2>1. SlotOfItsOwn
    BY DEF GatewayInv
  <2>2. \A q \in Held' : req'[q].shape.id = None => ReqId(q)' \in slots' \cup swept'
    BY <1>1, <1>2, <1>3, <2>1 DEF SlotOfItsOwn, Held
  <2>3. \A i \in slots' : \E q \in Requests : ReqId(q)' = i /\ (req'[q].hold \/ req'[q].leaked)
    BY <1>1, <1>2, <1>3, <2>1 DEF SlotOfItsOwn
  <2> QED
    BY <2>2, <2>3 DEF SlotOfItsOwn
<1> QED
  BY <1>1, <1>4, <1>5
  DEF GatewayInv, Typed, AllSound, ResolvedAccepted, CacheAccepted

LEMMA InitInv == Init => GatewayInv
<1> SUFFICES ASSUME Init PROVE GatewayInv
  OBVIOUS
<1>1. Typed /\ AllSound
  BY InitSound
<1>2. \A q \in Requests : req[q] = NoRequest
  BY DEF Init
<1>3. Held = {} /\ Streaming = {}
  BY <1>2 DEF Held, Streaming, At, NoRequest
<1>4. GaugesExact
  BY <1>3, FS_EmptySet DEF Init, GaugesExact, Streaming
<1>5. SlotOfItsOwn /\ ResolvedAccepted /\ CacheAccepted
  BY <1>2, <1>3 DEF Init, SlotOfItsOwn, ResolvedAccepted, CacheAccepted, NoRequest
<1> QED
  BY <1>1, <1>4, <1>5 DEF GatewayInv

LEMMA NextInv == GatewayInv /\ [Next]_vars => GatewayInv'
BY NextCases, ArriveInv, ResolveInv, LookupInv, CheckInv, UpstreamInv, ReleaseInv, PublishInv

LEMMA Invariance == Spec => []GatewayInv
BY InitInv, NextInv, PTL DEF Spec
-----------------------------------------------------------------------------
\* The variables of every request, the cache and the gauges keep their types.
THEOREM TypeCorrect == Spec => []TypeOK
<1>1. GatewayInv => TypeOK
  BY GaugeSets DEF GatewayInv, Typed, TypeOK, GaugesExact, Streaming
<1> QED
  BY <1>1, Invariance, PTL

\* Whatever way a request ends, it is counted once and with the status it was answered
\* (handler.go:162-187, 266-270, 297-312, 500-529, 550-556).
THEOREM EndsCounted == Spec => []CountedOnce
<1>1. GatewayInv => CountedOnce
  BY DEF GatewayInv, AllSound, Sound, CountedRight, CountedOnce, At
<1> QED
  BY <1>1, Invariance, PTL

\* The gauges of slots and streams are exact (handler.go:207-220, 331-335).
THEOREM GaugesRight == Spec => []GaugesExact
<1>1. GatewayInv => GaugesExact
  BY DEF GatewayInv
<1> QED
  BY <1>1, Invariance, PTL

\* A request with an identifier of its own keeps its slot until its release or until the
\* slot is swept after its timeout, and no slot stays behind but by a failed call
\* (handler.go:150-153, 198-225; batch_check.lua:132).
THEOREM SlotsOwned == Spec => []SlotOfItsOwn
<1>1. GatewayInv => SlotOfItsOwn
  BY DEF GatewayInv
<1> QED
  BY <1>1, Invariance, PTL

\* Tokens are charged to the rules that admitted the request, though the configuration
\* be replaced any number of times meanwhile (handler.go:190, 333, 409, 464, 479, 492).
THEOREM ChargesStay == Spec => []ChargedAsAdmitted
<1>1. GatewayInv => ChargedAsAdmitted
  BY DEF GatewayInv, AllSound, Sound, ChargedAsAdmitted
<1> QED
  BY <1>1, Invariance, PTL

\* Resolve hands on no URL that Validate has not accepted, from the configuration, a
\* header, the environment or the cache of it (resolver.go:202-241).
THEOREM TargetsVetted == Spec => []ResolvedAccepted
<1>1. GatewayInv => ResolvedAccepted
  BY DEF GatewayInv
<1> QED
  BY <1>1, Invariance, PTL

\* With as many proxies as TrustedHops says, each of which hands on one line, the IP is
\* the client's, whatever entries it has sent along (extract.go:112-149).
THEOREM IPNotForged == Spec => []TrueIP
<1>1. GatewayInv => TrueIP
  BY DEF GatewayInv, AllSound, Sound, TrueIP
<1> QED
  BY <1>1, Invariance, PTL
=============================================================================
