---------------------------- MODULE ConfigProofs ----------------------------
(***************************************************************************)
(* Theorems on ConfigStore: rules and policy in force are of one snapshot  *)
(* unless applies have overlapped, and a version is one configuration.     *)
(***************************************************************************)
EXTENDS ConfigStore, FiniteSetTheorems, TLAPS

\* What the steps of admin requests, threads, subscribers and pollers are.
LEMMA NextCases ==
  ASSUME [Next]_vars
  PROVE  \/ \E h \in Handlers : UpsertBiz(h) \/ PutPolicy(h) \/ HandleReload(h)
         \/ \E t \in Threads : \/ ReadRules(t) \/ ReadPolicy(t) \/ Incr(t) \/ SetSnapshot(t)
                               \/ Publish(t) \/ LoadFromRedis(t) \/ StoreCur(t)
                               \/ RefreshPolicy(t)
                               \/ QueryFails(t) \/ IncrFails(t) \/ SetFails(t)
         \/ \E i \in Instances : SubReceive(i) \/ SubCheck(i) \/ PollVersion(i) \/ Restart(i)
         \/ UNCHANGED vars
BY DEF Next, ThreadStep, WatchStep

LEMMA ThreadFacts ==
  /\ \A h \in Handlers : <<h, "admin">> \in Threads /\ Host(<<h, "admin">>) = Writer
  /\ \A i \in Instances : \A n \in {"boot", "sub", "poll"} :
       <<i, n>> \in Threads /\ Host(<<i, n>>) = i
  /\ \A t \in Threads : Host(t) \in Instances
BY ConfigAssumption DEF Threads, Host

\* An admin request that has committed newdb begins its load.
LEMMA BeginLoadType ==
  ASSUME TypeOK, NEW h \in Handlers, NEW newdb \in Content, BeginLoad(h, newdb)
  PROVE  TypeOK'
BY ThreadFacts, ConfigAssumption DEF TypeOK, BeginLoad, GoTo, PCs

LEMMA HandlerType ==
  ASSUME TypeOK, NEW h \in Handlers, UpsertBiz(h) \/ PutPolicy(h) \/ HandleReload(h)
  PROVE  TypeOK'
<1>1. db[Writer] \in Content
  BY ConfigAssumption DEF TypeOK
<1>2. /\ [db[Writer] EXCEPT !.rules = @ + 1] \in Content
      /\ [db[Writer] EXCEPT !.policy = @ + 1] \in Content
  BY <1>1 DEF Content
<1> QED
  BY <1>1, <1>2, BeginLoadType DEF UpsertBiz, PutPolicy, HandleReload

LEMMA ThreadType ==
  ASSUME TypeOK, NEW t \in Threads,
         \/ ReadRules(t) \/ ReadPolicy(t) \/ Incr(t) \/ SetSnapshot(t)
         \/ Publish(t) \/ LoadFromRedis(t) \/ StoreCur(t) \/ RefreshPolicy(t)
         \/ QueryFails(t) \/ IncrFails(t) \/ SetFails(t)
  PROVE  TypeOK'
<1> USE DEF TypeOK, GoTo, PCs
<1>0. /\ Host(t) \in Instances /\ NoSnapshot \in Snapshot /\ db[Host(t)] \in Content
      /\ snap[t] \in Snapshot
  BY ThreadFacts DEF NoSnapshot, Snapshot
<1>1. CASE ReadRules(t) \/ ReadPolicy(t)
  <2>1. /\ [snap[t] EXCEPT !.rules = db[Host(t)].rules] \in Snapshot
        /\ [snap[t] EXCEPT !.policy = db[Host(t)].policy] \in Snapshot
    BY <1>0 DEF Snapshot, Content
  <2>2. snap' \in [Threads -> Snapshot]
    BY <1>1, <2>1 DEF ReadRules, ReadPolicy
  <2> QED
    BY <1>1, <2>2 DEF ReadRules, ReadPolicy
<1>2. CASE Incr(t)
  BY <1>0, <1>2 DEF Incr, Snapshot
<1>3. CASE SetSnapshot(t) \/ LoadFromRedis(t) \/ SetFails(t)
  BY <1>0, <1>3, ConfigAssumption DEF SetSnapshot, LoadFromRedis, SetFails
<1>4. CASE Publish(t)
  BY <1>0, <1>4 DEF Publish
<1>5. CASE StoreCur(t) \/ RefreshPolicy(t)
  <2>1. Applying(t) \in BOOLEAN /\ snap[t].policy \in Nat
    BY <1>0 DEF Applying, Snapshot
  <2>2. CASE StoreCur(t)
    BY <1>0, <2>1, <2>2 DEF StoreCur
  <2>3. CASE RefreshPolicy(t)
    BY <1>0, <2>1, <2>3 DEF RefreshPolicy
  <2> QED
    BY <1>5, <2>2, <2>3
<1>6. CASE QueryFails(t)
  BY <1>0, <1>6, ConfigAssumption DEF QueryFails
<1>7. CASE IncrFails(t)
  BY <1>0, <1>7, ConfigAssumption DEF IncrFails, Snapshot
<1> QED
  BY <1>1, <1>2, <1>3, <1>4, <1>5, <1>6, <1>7

LEMMA InstanceType ==
  ASSUME TypeOK, NEW i \in Instances,
         SubReceive(i) \/ SubCheck(i) \/ PollVersion(i) \/ Restart(i)
  PROVE  TypeOK'
<1> USE DEF TypeOK, GoTo, PCs
<1>0. NoSnapshot \in Snapshot /\ <<i, "sub">> \in Threads /\ <<i, "poll">> \in Threads
  BY ThreadFacts DEF NoSnapshot, Snapshot
<1>1. CASE SubReceive(i)
  BY <1>0, <1>1 DEF SubReceive, Notified
<1>2. CASE SubCheck(i)
  BY <1>0, <1>2 DEF SubCheck
<1>3. CASE PollVersion(i)
  BY <1>0, <1>3 DEF PollVersion
<1>4. CASE Restart(i)
  BY <1>0, <1>4, ConfigAssumption DEF Restart
<1> QED
  BY <1>1, <1>2, <1>3, <1>4

\* Databases, Redis and the state of every instance stay type-correct; the subscriber
\* reads no more notifications than were sent (store.go:298-330).
THEOREM TypeCorrect == Spec => []TypeOK
<1>1. Init => TypeOK
  BY ConfigAssumption DEF Init, TypeOK, Content, Snapshot, FirstSnapshot, NoSnapshot, PCs
<1>2. TypeOK /\ [Next]_vars => TypeOK'
  <2> SUFFICES ASSUME TypeOK, [Next]_vars PROVE TypeOK'
    OBVIOUS
  <2>1. CASE UNCHANGED vars
    BY <2>1 DEF vars, TypeOK
  <2> QED
    BY <2>1, NextCases, HandlerType, ThreadType, InstanceType
<1> QED
  BY <1>1, <1>2, PTL DEF Spec
-----------------------------------------------------------------------------
\* Unless applies have overlapped, at most one goroutine of an instance is between its
\* two stores, it has the policy of the snapshot it has stored, ...
OneApplies ==
  \A i \in Instances : ~overlap[i] =>
    \A t \in Threads : Host(t) = i /\ pc[t] = "refresh" =>
      /\ snap[t].policy = cur[i].policy
      /\ \A x \in Threads : Host(x) = i /\ pc[x] = "refresh" => x = t

\* ... and when there is none the two agree.
Agree ==
  \A i \in Instances :
    ~overlap[i] /\ (\A t \in Threads : Host(t) = i => pc[t] # "refresh")
      => pol[i] = cur[i].policy

TornInv == TypeOK /\ OneApplies /\ Agree

\* Steps of threads that are not about to refresh, before or after, and leave the
\* snapshot and the policy of all instances alone.
LEMMA ElsewhereTorn ==
  ASSUME TornInv, NEW t \in Threads, UNCHANGED <<cur, pol, overlap>>,
         pc[t] # "refresh",
         NEW p, p # "refresh", pc' = [pc EXCEPT ![t] = p],
         \A x \in Threads \ {t} : snap'[x] = snap[x]
  PROVE  OneApplies' /\ Agree'
<1>1. \A x \in Threads : pc'[x] = "refresh" <=> pc[x] = "refresh"
  BY DEF TornInv, TypeOK
<1>2. \A x \in Threads : pc[x] = "refresh" => snap'[x] = snap[x]
  OBVIOUS
<1>3. OneApplies'
  BY <1>1, <1>2 DEF TornInv, OneApplies
<1>4. Agree'
  BY <1>1 DEF TornInv, Agree
<1> QED
  BY <1>3, <1>4

LEMMA StoreCurTorn ==
  ASSUME TornInv, NEW t \in Threads, StoreCur(t)
  PROVE  OneApplies' /\ Agree'
<1>0. Host(t) \in Instances /\ Applying(t) \in BOOLEAN
  BY ThreadFacts DEF Applying
<1>1. /\ \A x \in Threads : pc'[x] = IF x = t THEN "refresh" ELSE pc[x]
      /\ snap' = snap /\ pol' = pol
      /\ \A i \in Instances : cur'[i] = IF i = Host(t) THEN snap[t] ELSE cur[i]
      /\ \A i \in Instances : i # Host(t) => overlap'[i] = overlap[i]
      /\ overlap'[Host(t)] = Applying(t)
  BY <1>0 DEF StoreCur, GoTo, TornInv, TypeOK
<1>2. ASSUME NEW i \in Instances, ~overlap'[i], i # Host(t),
             NEW x \in Threads, Host(x) = i, pc'[x] = "refresh"
      PROVE  /\ snap'[x].policy = cur'[i].policy
             /\ \A y \in Threads : Host(y) = i /\ pc'[y] = "refresh" => y = x
  <2>1. ~overlap[i] /\ pc[x] = "refresh" /\ cur'[i] = cur[i] /\ snap'[x] = snap[x]
    BY <1>1, <1>2
  <2>2. \A y \in Threads : Host(y) = i => pc'[y] = pc[y]
    BY <1>1, <1>2
  <2> QED
    BY <1>2, <2>1, <2>2 DEF TornInv, OneApplies
<1>3. ASSUME ~overlap'[Host(t)], NEW x \in Threads, Host(x) = Host(t), pc'[x] = "refresh"
      PROVE  x = t
  BY <1>1, <1>3 DEF Applying
<1>4. OneApplies'
  BY <1>0, <1>1, <1>2, <1>3 DEF OneApplies
<1>5. Agree'
  <2> SUFFICES ASSUME NEW i \in Instances, ~overlap'[i],
                      \A x \in Threads : Host(x) = i => pc'[x] # "refresh"
               PROVE  pol'[i] = cur'[i].policy
    BY DEF Agree
  <2>1. i # Host(t)
    BY <1>1
  <2>2. \A x \in Threads : Host(x) = i => pc[x] # "refresh"
    BY <1>1, <2>1
  <2> QED
    BY <1>1, <2>1, <2>2 DEF TornInv, Agree
<1> QED
  BY <1>4, <1>5

LEMMA RefreshPolicyTorn ==
  ASSUME TornInv, NEW t \in Threads, RefreshPolicy(t)
  PROVE  OneApplies' /\ Agree'
<1>0. Host(t) \in Instances
  BY ThreadFacts
<1>1. /\ \A x \in Threads : pc'[x] = IF x = t THEN "idle" ELSE pc[x]
      /\ \A x \in Threads : x # t => snap'[x] = snap[x]
      /\ cur' = cur /\ overlap' = overlap
      /\ \A i \in Instances : pol'[i] = IF i = Host(t) THEN snap[t].policy ELSE pol[i]
      /\ pc[t] = "refresh"
  BY <1>0 DEF RefreshPolicy, GoTo, TornInv, TypeOK
<1>2. OneApplies'
  BY <1>0, <1>1 DEF TornInv, OneApplies
<1>3. Agree'
  <2> SUFFICES ASSUME NEW i \in Instances, ~overlap'[i],
                      \A x \in Threads : Host(x) = i => pc'[x] # "refresh"
               PROVE  pol'[i] = cur'[i].policy
    BY DEF Agree
  <2>1. CASE i = Host(t)
    BY <1>1, <2>1 DEF TornInv, OneApplies
  <2>2. CASE i # Host(t)
    <3>1. \A x \in Threads : Host(x) = i => pc[x] # "refresh"
      BY <1>1, <2>2
    <3> QED
      BY <1>1, <2>2, <3>1 DEF TornInv, Agree
  <2> QED
    BY <2>1, <2>2
<1> QED
  BY <1>2, <1>3

LEMMA RestartTorn ==
  ASSUME TornInv, NEW i \in Instances, Restart(i)
  PROVE  OneApplies' /\ Agree'
<1>1. /\ \A x \in Threads : Host(x) = i => pc'[x] # "refresh"
      /\ \A x \in Threads : Host(x) # i => pc'[x] = pc[x] /\ snap'[x] = snap[x]
      /\ \A j \in Instances : j # i =>
           cur'[j] = cur[j] /\ pol'[j] = pol[j] /\ overlap'[j] = overlap[j]
      /\ cur'[i].policy = 0 /\ pol'[i] = 0
  BY DEF Restart, TornInv, TypeOK, NoSnapshot
<1>2. OneApplies'
  BY <1>1 DEF TornInv, OneApplies
<1>3. Agree'
  <2> SUFFICES ASSUME NEW j \in Instances, j # i, ~overlap'[j],
                      \A x \in Threads : Host(x) = j => pc'[x] # "refresh"
               PROVE  pol'[j] = cur'[j].policy
    BY <1>1 DEF Agree
  <2>1. \A x \in Threads : Host(x) = j => pc[x] # "refresh"
    BY <1>1
  <2> QED
    BY <1>1, <2>1 DEF TornInv, Agree
<1> QED
  BY <1>2, <1>3

LEMMA NextTorn == TornInv /\ [Next]_vars => OneApplies' /\ Agree'
<1> SUFFICES ASSUME TornInv, [Next]_vars PROVE OneApplies' /\ Agree'
  OBVIOUS
<1>1. CASE UNCHANGED vars
  BY <1>1 DEF vars, TornInv, OneApplies, Agree
<1>2. ASSUME NEW h \in Handlers, UpsertBiz(h) \/ PutPolicy(h) \/ HandleReload(h)
      PROVE  OneApplies' /\ Agree'
  <2>1. /\ <<h, "admin">> \in Threads /\ pc[<<h, "admin">>] = "idle"
        /\ pc' = [pc EXCEPT ![<<h, "admin">>] = "rules"]
        /\ UNCHANGED <<cur, pol, overlap, snap>>
    BY <1>2, ThreadFacts DEF UpsertBiz, PutPolicy, HandleReload, BeginLoad, GoTo
  <2> QED
    BY <2>1, ElsewhereTorn
<1>3. ASSUME NEW t \in Threads, ReadRules(t) \/ ReadPolicy(t) \/ Incr(t) \/ IncrFails(t)
                                \/ SetSnapshot(t) \/ SetFails(t) \/ Publish(t)
                                \/ LoadFromRedis(t) \/ QueryFails(t)
      PROVE  OneApplies' /\ Agree'
  <2>1. /\ pc[t] # "refresh" /\ UNCHANGED <<cur, pol, overlap>>
        /\ \A x \in Threads \ {t} : snap'[x] = snap[x]
    BY <1>3 DEF ReadRules, ReadPolicy, Incr, IncrFails, SetSnapshot, SetFails, Publish,
                LoadFromRedis, QueryFails, TornInv, TypeOK
  <2>2. \E p \in PCs \ {"refresh"} : pc' = [pc EXCEPT ![t] = p]
    BY <1>3 DEF ReadRules, ReadPolicy, Incr, IncrFails, SetSnapshot, SetFails, Publish,
                LoadFromRedis, QueryFails, GoTo, PCs
  <2> QED
    BY <2>1, <2>2, ElsewhereTorn
<1>4. ASSUME NEW i \in Instances, SubReceive(i) \/ SubCheck(i) \/ PollVersion(i)
      PROVE  OneApplies' /\ Agree'
  <2> DEFINE s == <<i, "sub">>
             o == <<i, "poll">>
  <2>0. s \in Threads /\ o \in Threads
    BY ThreadFacts
  <2>1. CASE SubReceive(i)
    <3>1. /\ pc[s] # "refresh" /\ UNCHANGED <<cur, pol, overlap>>
          /\ \A x \in Threads \ {s} : snap'[x] = snap[x]
          /\ pc' = [pc EXCEPT ![s] = "check"]
      BY <2>0, <2>1 DEF SubReceive, GoTo, TornInv, TypeOK
    <3> QED
      BY <2>0, <3>1, ElsewhereTorn
  <2>2. CASE SubCheck(i)
    <3>1. /\ pc[s] # "refresh" /\ UNCHANGED <<cur, pol, overlap>>
          /\ \A x \in Threads \ {s} : snap'[x] = snap[x]
          /\ \E p \in PCs \ {"refresh"} : pc' = [pc EXCEPT ![s] = p]
      BY <2>0, <2>2 DEF SubCheck, GoTo, TornInv, TypeOK, PCs
    <3> QED
      BY <2>0, <3>1, ElsewhereTorn
  <2>3. CASE PollVersion(i)
    <3>1. /\ pc[o] # "refresh" /\ UNCHANGED <<cur, pol, overlap, snap>>
          /\ pc' = [pc EXCEPT ![o] = "get"]
      BY <2>0, <2>3 DEF PollVersion, GoTo
    <3> QED
      BY <2>0, <3>1, ElsewhereTorn
  <2> QED
    BY <1>4, <2>1, <2>2, <2>3
<1> QED
  BY <1>1, <1>2, <1>3, <1>4, StoreCurTorn, RefreshPolicyTorn, RestartTorn, NextCases

\* An instance that is at rest serves the rules and the policy of one snapshot, unless
\* its last two applies have overlapped: on every path to a new snapshot, with any
\* number of instances and admin requests, after failures and restarts
\* (store.go:279-285).
THEOREM NotTornAlone == Spec => []TornOnlyByOverlap
<1>1. Init => OneApplies /\ Agree
  BY ThreadFacts DEF Init, OneApplies, Agree, FirstSnapshot
<1>2. TornInv => TornOnlyByOverlap
  BY DEF TornInv, Agree, TornOnlyByOverlap, Quiet
<1> QED
  BY <1>1, <1>2, NextTorn, TypeCorrect, PTL DEF Spec, TornInv
-----------------------------------------------------------------------------
\* The snapshots there are, and the threads whose load has yet to take its version.
Known ==
  {redisSnap} \cup {cur[i] : i \in Instances}
    \cup {snap[t] : t \in {x \in Threads :
             pc[x] \in {"set", "publish", "check", "store", "refresh"}}}
Unversioned == {t \in Threads : pc[t] \in {"rules", "policy", "incr"}}

\* At most one version is taken from the clock: the model has one reading of it.
OneClockVersion == "incr" \in Failing => MaxFails <= 1

\* Each load takes one version, so that the counter stays far from the clock, ...
VersionsCounted ==
  /\ redisVer >= 1
  /\ redisVer + Cardinality(Unversioned) <= 1 + ops + restarts

\* ... a version is from the counter or, once INCR has failed, from the clock, ...
VersionsKnown ==
  \A a \in Known :
    /\ a.ver \in 0 .. redisVer \/ (a.ver = UnixTime /\ fails > 0 /\ "incr" \in Failing)
    /\ a.ver = 0 => a = NoSnapshot

\* ... and belongs to one configuration.
Distinct == \A a, b \in Known : a.ver = b.ver => a = b

VersionInv == TypeOK /\ VersionsCounted /\ VersionsKnown /\ Distinct

LEMMA KnownType == TypeOK => Known \subseteq Snapshot
BY DEF TypeOK, Known

LEMMA UnversionedFinite == IsFiniteSet(Unversioned) /\ IsFiniteSet(Unversioned')
<1>1. IsFiniteSet(Handlers \X {"admin"}) /\ IsFiniteSet(Instances \X {"boot", "sub", "poll"})
  <2>1. IsFiniteSet({"admin"}) /\ IsFiniteSet({"boot"})
    BY FS_Singleton
  <2>2. IsFiniteSet({"boot"} \cup {"sub"})
    BY <2>1, FS_AddElement
  <2>3. IsFiniteSet(({"boot"} \cup {"sub"}) \cup {"poll"})
    BY <2>2, FS_AddElement
  <2>4. ({"boot"} \cup {"sub"}) \cup {"poll"} = {"boot", "sub", "poll"}
    OBVIOUS
  <2>5. IsFiniteSet({"boot", "sub", "poll"})
    BY <2>3, <2>4
  <2> QED
    BY <2>1, <2>5, FS_Product, ConfigAssumption
<1>2. IsFiniteSet(Threads)
  BY <1>1, FS_Union DEF Threads
<1>3. Unversioned \in SUBSET Threads /\ Unversioned' \in SUBSET Threads
  BY DEF Unversioned
<1> QED
  BY <1>2, <1>3, FS_Subset

\* Steps that make no new version: what is known stays known, or is forgotten.
LEMMA OldVersions ==
  ASSUME VersionInv, Known' \subseteq Known \cup {NoSnapshot}, redisVer' = redisVer,
         fails \in Nat, fails' \in Nat, fails' >= fails
  PROVE  VersionsKnown' /\ Distinct'
<1>1. \A a \in Known : a.ver = 0 => a = NoSnapshot
  BY DEF VersionInv, VersionsKnown
<1>2. Distinct'
  BY <1>1 DEF VersionInv, Distinct, NoSnapshot
<1>3. VersionsKnown'
  <2> SUFFICES ASSUME NEW a \in Known'
               PROVE  /\ \/ a.ver \in 0 .. redisVer'
                         \/ a.ver = UnixTime /\ fails' > 0 /\ "incr" \in Failing
                      /\ a.ver = 0 => a = NoSnapshot
    BY DEF VersionsKnown
  <2>1. CASE a \in Known
    BY <2>1 DEF VersionInv, VersionsKnown
  <2>2. CASE a = NoSnapshot
    BY <2>2 DEF VersionInv, VersionsCounted, NoSnapshot, TypeOK
  <2> QED
    BY <2>1, <2>2
<1> QED
  BY <1>2, <1>3

\* A load takes a version that nobody has.
LEMMA NewVersion ==
  ASSUME VersionInv, NEW s \in Snapshot, Known' \subseteq Known \cup {s}, s.ver > 0,
         redisVer' \in Nat, redisVer' >= redisVer, fails \in Nat, fails' \in Nat,
         fails' >= fails,
         \A a \in Known : a.ver # s.ver,
         s.ver \in 0 .. redisVer' \/ (s.ver = UnixTime /\ fails' > 0 /\ "incr" \in Failing)
  PROVE  VersionsKnown' /\ Distinct'
<1>1. Distinct'
  BY DEF VersionInv, Distinct
<1>2. VersionsKnown'
  <2> SUFFICES ASSUME NEW a \in Known'
               PROVE  /\ \/ a.ver \in 0 .. redisVer'
                         \/ a.ver = UnixTime /\ fails' > 0 /\ "incr" \in Failing
                      /\ a.ver = 0 => a = NoSnapshot
    BY DEF VersionsKnown
  <2>1. CASE a \in Known
    BY <2>1 DEF VersionInv, VersionsKnown, TypeOK
  <2>2. CASE a = s
    BY <2>2
  <2> QED
    BY <2>1, <2>2
<1> QED
  BY <1>1, <1>2

\* A thread comes to have no version yet, or no longer.
LEMMA CountSteps ==
  ASSUME NEW t
  PROVE  /\ Unversioned' \subseteq Unversioned =>
              Cardinality(Unversioned') <= Cardinality(Unversioned)
         /\ Unversioned' \subseteq Unversioned \cup {t} =>
              Cardinality(Unversioned') <= Cardinality(Unversioned) + 1
         /\ t \in Unversioned /\ Unversioned' \subseteq Unversioned \ {t} =>
              Cardinality(Unversioned') <= Cardinality(Unversioned) - 1
         /\ Cardinality(Unversioned) \in Nat /\ Cardinality(Unversioned') \in Nat
<1>0. IsFiniteSet(Unversioned) /\ IsFiniteSet(Unversioned')
  BY UnversionedFinite
<1>1. /\ IsFiniteSet(Unversioned \cup {t})
      /\ Cardinality(Unversioned \cup {t}) =
           IF t \in Unversioned THEN Cardinality(Unversioned) ELSE Cardinality(Unversioned) + 1
  BY <1>0, FS_AddElement
<1>2. /\ IsFiniteSet(Unversioned \ {t})
      /\ Cardinality(Unversioned \ {t}) =
           IF t \in Unversioned THEN Cardinality(Unversioned) - 1 ELSE Cardinality(Unversioned)
  BY <1>0, FS_RemoveElement
<1>3. Cardinality(Unversioned) \in Nat /\ Cardinality(Unversioned') \in Nat
  BY <1>0, FS_CardinalityType
<1>4. ASSUME Unversioned' \subseteq Unversioned
      PROVE  Cardinality(Unversioned') <= Cardinality(Unversioned)
  BY <1>0, <1>4, FS_Subset
<1>5. ASSUME Unversioned' \subseteq Unversioned \cup {t}
      PROVE  Cardinality(Unversioned') <= Cardinality(Unversioned \cup {t})
  BY <1>1, <1>5, FS_Subset
<1>6. ASSUME Unversioned' \subseteq Unversioned \ {t}
      PROVE  Cardinality(Unversioned') <= Cardinality(Unversioned \ {t})
  BY <1>2, <1>6, FS_Subset
<1> QED
  BY <1>1, <1>2, <1>3, <1>4, <1>5, <1>6

LEMMA Fewer ==
  ASSUME Unversioned' \subseteq Unversioned
  PROVE  Cardinality(Unversioned') <= Cardinality(Unversioned)
BY UnversionedFinite, FS_Subset

LEMMA CountTypes == Cardinality(Unversioned) \in Nat /\ Cardinality(Unversioned') \in Nat
BY UnversionedFinite, FS_CardinalityType

LEMMA Numbers ==
  TypeOK => redisVer \in Nat /\ ops \in Nat /\ fails \in Nat /\ restarts \in Nat
BY ConfigAssumption DEF TypeOK

LEMMA NumbersNext ==
  TypeOK' => redisVer' \in Nat /\ ops' \in Nat /\ fails' \in Nat /\ restarts' \in Nat
BY ConfigAssumption DEF TypeOK

\* No more loads are begun than are counted.
LEMMA StillCounted ==
  ASSUME VersionInv, TypeOK', redisVer' >= redisVer,
         redisVer' + Cardinality(Unversioned') + ops + restarts
           <= redisVer + Cardinality(Unversioned) + ops' + restarts'
  PROVE  VersionsCounted'
<1>1. /\ redisVer \in Nat /\ ops \in Nat /\ restarts \in Nat
      /\ redisVer' \in Nat /\ ops' \in Nat /\ restarts' \in Nat
  BY Numbers, NumbersNext DEF VersionInv
<1>2. /\ redisVer >= 1
      /\ redisVer + Cardinality(Unversioned) <= 1 + ops + restarts
  BY DEF VersionInv, VersionsCounted
<1>3. redisVer' >= 1 /\ redisVer' + Cardinality(Unversioned') <= 1 + ops' + restarts'
  BY <1>1, <1>2, CountTypes
<1> QED
  BY <1>3 DEF VersionsCounted

LEMMA InitVersion == Init => VersionsCounted /\ VersionsKnown /\ Distinct
<1> SUFFICES ASSUME Init PROVE VersionsCounted /\ VersionsKnown /\ Distinct
  OBVIOUS
<1>1. Unversioned = {}
  BY DEF Init, Unversioned
<1>2. Known = {FirstSnapshot}
  BY DEF Init, Known
<1>3. VersionsCounted
  BY <1>1, FS_EmptySet, ConfigAssumption DEF Init, VersionsCounted
<1>4. VersionsKnown /\ Distinct
  BY <1>2 DEF Init, VersionsKnown, Distinct, FirstSnapshot
<1> QED
  BY <1>3, <1>4

\* What the counts say of a load that takes its version now.
LEMMA BelowClock ==
  ASSUME VersionInv, NEW t \in Unversioned
  PROVE  redisVer + 1 < UnixTime
<1>1. Cardinality(Unversioned) >= 1
  <2>1. IsFiniteSet(Unversioned) /\ Unversioned # {}
    BY UnversionedFinite
  <2> QED
    BY <2>1, FS_EmptySet, FS_CardinalityType
<1>2. Cardinality(Unversioned) \in Nat
  BY UnversionedFinite, FS_CardinalityType
<1> QED
  BY <1>1, <1>2, ConfigAssumption DEF VersionInv, VersionsCounted, TypeOK

LEMMA IncrVersion ==
  ASSUME VersionInv, NEW t \in Threads, Incr(t)
  PROVE  VersionsCounted' /\ VersionsKnown' /\ Distinct'
<1>0. TypeOK /\ TypeOK' /\ t \in Unversioned
  BY ThreadType DEF VersionInv, Incr, Unversioned
<1>1. /\ redisVer' = redisVer + 1 /\ UNCHANGED <<redisSnap, cur, ops, fails, restarts>>
      /\ \A x \in Threads : x # t => snap'[x] = snap[x]
      /\ snap'[t] = [snap[t] EXCEPT !.ver = redisVer + 1]
      /\ \A x \in Threads : pc'[x] = IF x = t THEN "set" ELSE pc[x]
  BY <1>0 DEF Incr, GoTo, TypeOK
<1>2. snap'[t] \in Snapshot /\ snap'[t].ver = redisVer + 1
  BY <1>0, <1>1 DEF TypeOK, Snapshot
<1>3. Known' \subseteq Known \cup {snap'[t]}
  BY <1>1 DEF Known
<1>4. \A a \in Known : a.ver # redisVer + 1
  BY <1>0, BelowClock DEF VersionInv, VersionsKnown, TypeOK
<1>5. VersionsKnown' /\ Distinct'
  <2>1. /\ redisVer \in Nat /\ redisVer' \in Nat /\ redisVer' >= redisVer
        /\ fails \in Nat /\ fails' \in Nat /\ fails' >= fails
    BY <1>0, <1>1, Numbers
  <2>2. snap'[t].ver > 0 /\ snap'[t].ver \in 0 .. redisVer'
    BY <1>1, <1>2, <2>1
  <2>3. \A a \in Known : a.ver # snap'[t].ver
    BY <1>2, <1>4
  <2> QED
    BY <1>2, <1>3, <2>1, <2>2, <2>3, NewVersion
<1>6. Unversioned' \subseteq Unversioned \ {t}
  BY <1>1 DEF Unversioned
<1>7. Cardinality(Unversioned') <= Cardinality(Unversioned) - 1
  BY <1>0, <1>6, CountSteps
<1>8. VersionsCounted'
  BY <1>0, <1>1, <1>7, CountTypes, Numbers, StillCounted
<1> QED
  BY <1>5, <1>8

LEMMA IncrFailsVersion ==
  ASSUME OneClockVersion, VersionInv, NEW t \in Threads, IncrFails(t)
  PROVE  VersionsCounted' /\ VersionsKnown' /\ Distinct'
<1>0. TypeOK /\ TypeOK' /\ t \in Unversioned
  BY ThreadType DEF VersionInv, IncrFails, Unversioned
<1>1. /\ UNCHANGED <<redisVer, redisSnap, cur, ops, restarts>>
      /\ "incr" \in Failing /\ fails = 0 /\ fails' = 1
      /\ \A x \in Threads : x # t => snap'[x] = snap[x]
      /\ snap'[t] = [snap[t] EXCEPT !.ver = UnixTime]
      /\ \A x \in Threads : pc'[x] = IF x = t THEN "set" ELSE pc[x]
  BY <1>0, ConfigAssumption DEF IncrFails, GoTo, TypeOK, OneClockVersion
<1>2. snap'[t] \in Snapshot /\ snap'[t].ver = UnixTime /\ UnixTime > 0
  <2>1. snap[t] \in Snapshot /\ snap'[t] \in Snapshot
    BY <1>0 DEF TypeOK
  <2>2. UnixTime \in Nat /\ UnixTime > 0
    BY ConfigAssumption
  <2> QED
    BY <1>1, <2>1, <2>2 DEF Snapshot
<1>3. Known' \subseteq Known \cup {snap'[t]}
  BY <1>1 DEF Known
<1>4. \A a \in Known : a.ver # UnixTime
  BY <1>0, <1>1, BelowClock DEF VersionInv, VersionsKnown, TypeOK
<1>5. VersionsKnown' /\ Distinct'
  <2>1. /\ redisVer \in Nat /\ redisVer' \in Nat /\ redisVer' >= redisVer
        /\ fails \in Nat /\ fails' \in Nat /\ fails' >= fails /\ fails' > 0
    BY <1>0, <1>1, Numbers
  <2>2. \A a \in Known : a.ver # snap'[t].ver
    BY <1>2, <1>4
  <2> QED
    BY <1>1, <1>2, <1>3, <2>1, <2>2, NewVersion
<1>6. Unversioned' \subseteq Unversioned \ {t}
  BY <1>1 DEF Unversioned
<1>7. VersionsCounted'
  <2>1. Cardinality(Unversioned') <= Cardinality(Unversioned) - 1
    BY <1>0, <1>6, CountSteps
  <2> QED
    BY <1>0, <1>1, <2>1, CountTypes, Numbers, StillCounted
<1> QED
  BY <1>5, <1>7

\* A snapshot is published, fetched or applied, or a load goes on before its version.
LEMMA OtherThreadVersion ==
  ASSUME VersionInv, NEW t \in Threads,
         \/ ReadRules(t) \/ ReadPolicy(t) \/ SetSnapshot(t) \/ Publish(t)
         \/ LoadFromRedis(t) \/ StoreCur(t) \/ RefreshPolicy(t)
         \/ QueryFails(t) \/ SetFails(t)
  PROVE  VersionsCounted' /\ VersionsKnown' /\ Distinct'
<1>0. TypeOK /\ TypeOK' /\ Host(t) \in Instances
  BY ThreadType, ThreadFacts DEF VersionInv
<1>1. Unversioned' \subseteq Unversioned
  BY <1>0 DEF ReadRules, ReadPolicy, SetSnapshot, Publish, LoadFromRedis, StoreCur,
              RefreshPolicy, QueryFails, SetFails, GoTo, TypeOK, Unversioned
<1>2. Known' \subseteq Known \cup {NoSnapshot}
  <2>1. CASE ReadRules(t) \/ ReadPolicy(t) \/ QueryFails(t)
    <3>1. /\ \A x \in Threads : x # t => pc'[x] = pc[x] /\ snap'[x] = snap[x]
          /\ pc'[t] \in {"policy", "incr", "get", "idle"}
          /\ UNCHANGED <<redisSnap, cur>>
      BY <1>0, <2>1 DEF ReadRules, ReadPolicy, QueryFails, GoTo, TypeOK
    <3> QED
      BY <3>1 DEF Known
  <2>2. CASE SetSnapshot(t) \/ SetFails(t) \/ Publish(t)
    <3>1. /\ \A x \in Threads : x # t => pc'[x] = pc[x]
          /\ snap' = snap /\ cur' = cur
          /\ pc[t] \in {"set", "publish"} /\ redisSnap' \in {redisSnap, snap[t]}
      BY <1>0, <2>2 DEF SetSnapshot, SetFails, Publish, GoTo, TypeOK
    <3> QED
      BY <3>1 DEF Known
  <2>3. CASE LoadFromRedis(t)
    <3>1. /\ \A x \in Threads : x # t => pc'[x] = pc[x] /\ snap'[x] = snap[x]
          /\ snap'[t] = redisSnap /\ cur' = cur /\ redisSnap' = redisSnap
      BY <1>0, <2>3 DEF LoadFromRedis, GoTo, TypeOK
    <3> QED
      BY <3>1 DEF Known
  <2>4. CASE StoreCur(t)
    <3>1. /\ \A x \in Threads : x # t => pc'[x] = pc[x]
          /\ pc[t] = "store" /\ snap' = snap /\ redisSnap' = redisSnap
          /\ \A i \in Instances : cur'[i] \in {cur[i], snap[t]}
      BY <1>0, <2>4 DEF StoreCur, GoTo, TypeOK
    <3> QED
      BY <3>1 DEF Known
  <2>5. CASE RefreshPolicy(t)
    <3>1. /\ \A x \in Threads : x # t => pc'[x] = pc[x] /\ snap'[x] = snap[x]
          /\ pc'[t] = "idle" /\ cur' = cur /\ redisSnap' = redisSnap
      BY <1>0, <2>5 DEF RefreshPolicy, GoTo, TypeOK
    <3> QED
      BY <3>1 DEF Known
  <2> QED
    BY <2>1, <2>2, <2>3, <2>4, <2>5
<1>3. /\ UNCHANGED <<redisVer, ops, restarts>>
      /\ fails \in Nat /\ fails' \in Nat /\ fails' >= fails
  BY <1>0, ConfigAssumption
  DEF ReadRules, ReadPolicy, SetSnapshot, Publish, LoadFromRedis, StoreCur, RefreshPolicy,
      QueryFails, SetFails, TypeOK
<1>4. VersionsKnown' /\ Distinct'
  BY <1>2, <1>3, OldVersions
<1>5. VersionsCounted'
  BY <1>0, <1>1, <1>3, Fewer, CountTypes, Numbers, StillCounted
<1> QED
  BY <1>4, <1>5

LEMMA HandlerVersion ==
  ASSUME VersionInv, NEW h \in Handlers, UpsertBiz(h) \/ PutPolicy(h) \/ HandleReload(h)
  PROVE  VersionsCounted' /\ VersionsKnown' /\ Distinct'
<1> DEFINE t == <<h, "admin">>
<1>0. TypeOK /\ TypeOK' /\ t \in Threads
  BY HandlerType, ThreadFacts DEF VersionInv
<1>1. /\ ops' = ops + 1 /\ UNCHANGED <<redisVer, redisSnap, cur, snap, fails, restarts>>
      /\ \A x \in Threads : pc'[x] = IF x = t THEN "rules" ELSE pc[x]
  BY <1>0 DEF UpsertBiz, PutPolicy, HandleReload, BeginLoad, GoTo, TypeOK
<1>2. Unversioned' \subseteq Unversioned \cup {t}
  BY <1>1 DEF Unversioned
<1>3. Known' \subseteq Known \cup {NoSnapshot}
  BY <1>1 DEF Known
<1>4. VersionsKnown' /\ Distinct'
  BY <1>0, <1>1, <1>3, OldVersions, ConfigAssumption DEF TypeOK
<1>5. Cardinality(Unversioned') <= Cardinality(Unversioned) + 1
  BY <1>2, CountSteps
<1>6. VersionsCounted'
  BY <1>0, <1>1, <1>5, CountTypes, Numbers, StillCounted
<1> QED
  BY <1>4, <1>6

LEMMA InstanceVersion ==
  ASSUME VersionInv, NEW i \in Instances,
         SubReceive(i) \/ SubCheck(i) \/ PollVersion(i) \/ Restart(i)
  PROVE  VersionsCounted' /\ VersionsKnown' /\ Distinct'
<1> DEFINE s == <<i, "sub">>
           o == <<i, "poll">>
           b == <<i, "boot">>
<1>0. TypeOK /\ TypeOK' /\ s \in Threads /\ o \in Threads /\ b \in Threads
  BY InstanceType, ThreadFacts DEF VersionInv
<1>1. UNCHANGED <<redisVer, redisSnap, ops, fails>>
  BY DEF SubReceive, SubCheck, PollVersion, Restart
<1>2. Known' \subseteq Known \cup {NoSnapshot}
  <2>1. CASE SubReceive(i)
    <3>1. /\ \A x \in Threads : x # s => pc'[x] = pc[x] /\ snap'[x] = snap[x]
          /\ snap'[s] = redisSnap /\ cur' = cur
      BY <1>0, <2>1 DEF SubReceive, GoTo, TypeOK
    <3> QED
      BY <1>1, <3>1 DEF Known
  <2>2. CASE SubCheck(i)
    <3>1. /\ \A x \in Threads : x # s => pc'[x] = pc[x] /\ snap'[x] = snap[x]
          /\ pc[s] = "check" /\ snap'[s] \in {snap[s], NoSnapshot} /\ cur' = cur
      BY <1>0, <2>2 DEF SubCheck, GoTo, TypeOK
    <3> QED
      BY <1>1, <3>1 DEF Known
  <2>3. CASE PollVersion(i)
    <3>1. /\ \A x \in Threads : x # o => pc'[x] = pc[x]
          /\ pc'[o] = "get" /\ snap' = snap /\ cur' = cur
      BY <1>0, <2>3 DEF PollVersion, GoTo, TypeOK
    <3> QED
      BY <1>1, <3>1 DEF Known
  <2>4. CASE Restart(i)
    <3>1. /\ \A x \in Threads : \/ pc'[x] = pc[x] /\ snap'[x] = snap[x]
                                \/ snap'[x] = NoSnapshot
          /\ \A j \in Instances : cur'[j] \in {cur[j], NoSnapshot}
      BY <1>0, <2>4 DEF Restart, TypeOK
    <3> QED
      BY <1>1, <3>1 DEF Known
  <2> QED
    BY <2>1, <2>2, <2>3, <2>4
<1>3. VersionsKnown' /\ Distinct'
  BY <1>0, <1>1, <1>2, OldVersions, ConfigAssumption DEF TypeOK
<1>4. CASE SubReceive(i) \/ SubCheck(i) \/ PollVersion(i)
  <2>1. Unversioned' \subseteq Unversioned /\ restarts' = restarts
    BY <1>0, <1>4 DEF SubReceive, SubCheck, PollVersion, GoTo, TypeOK, Unversioned
  <2>2. VersionsCounted'
    BY <1>0, <1>1, <2>1, Fewer, CountTypes, Numbers, StillCounted
  <2> QED
    BY <1>3, <2>2
<1>5. CASE Restart(i)
  <2>1. Unversioned' \subseteq Unversioned \cup {b} /\ restarts' = restarts + 1
    BY <1>0, <1>5 DEF Restart, Unversioned, Threads, Host
  <2>2. Cardinality(Unversioned') <= Cardinality(Unversioned) + 1
    BY <2>1, CountSteps
  <2>3. VersionsCounted'
    BY <1>0, <1>1, <2>1, <2>2, CountTypes, Numbers, StillCounted
  <2> QED
    BY <1>3, <2>3
<1> QED
  BY <1>4, <1>5

LEMMA NextVersion ==
  ASSUME OneClockVersion
  PROVE  VersionInv /\ [Next]_vars => VersionsCounted' /\ VersionsKnown' /\ Distinct'
<1> SUFFICES ASSUME VersionInv, [Next]_vars
             PROVE  VersionsCounted' /\ VersionsKnown' /\ Distinct'
  OBVIOUS
<1>1. CASE UNCHANGED vars
  <2>1. Known' = Known /\ Unversioned' = Unversioned
    BY <1>1 DEF vars, Known, Unversioned
  <2> QED
    BY <1>1, <2>1 DEF vars, VersionInv, VersionsCounted, VersionsKnown, Distinct
<1> QED
  BY <1>1, NextCases, HandlerVersion, IncrVersion, IncrFailsVersion, OtherThreadVersion,
     InstanceVersion

\* A version is one configuration, in Redis, in force or under way, for any number of
\* instances, admin requests, restarts and failures, given that no more than one
\* version is taken from the clock (store.go:201-219): two failures of INCR within one
\* second could yield the same version twice.
THEOREM VersionsIdentify == OneClockVersion => (Spec => []VersionUnique)
<1> SUFFICES ASSUME OneClockVersion PROVE Spec => []VersionUnique
  OBVIOUS
<1>1. VersionInv => VersionUnique
  BY DEF VersionInv, Distinct, Known, VersionUnique
<1>2. VersionInv /\ [Next]_vars => VersionsCounted' /\ VersionsKnown' /\ Distinct'
  BY NextVersion
<1> QED
  BY <1>1, <1>2, InitVersion, TypeCorrect, PTL DEF Spec, VersionInv
=============================================================================
