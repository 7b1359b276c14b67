----------------------------- MODULE ConfigStore -----------------------------
(***************************************************************************)
(* How configuration gets from the admin API to every gateway instance     *)
(* (internal/config/store.go, policy_store.go; admin/biz.go, policy.go):   *)
(*                                                                         *)
(*   SQLite of the writing instance --LoadFromDB--> Redis snapshot and     *)
(*   version --Pub/Sub, polling--> the snapshot each instance serves       *)
(*                                                                         *)
(* Admin writes are pinned to one instance, Writer (docs/DEPLOYMENT.md,    *)
(* section 5.3); every instance has a database of its own.  The content of *)
(* a configuration is two numbers: how many rule writes and how many       *)
(* policy writes it reflects.                                              *)
(*                                                                         *)
(* Each goroutine is a thread here, and each access to SQLite, Redis or an *)
(* atomic pointer a step: the admin handlers of Writer, and on every       *)
(* instance the startup, the subscriber and the poller.                    *)
(***************************************************************************)
EXTENDS Integers, FiniteSets

CONSTANTS
  Instances, Writer,
  Handlers,      \* admin requests that Writer serves at once
  AdminOps,      \* what they do: write "rules" or "policy", or "reload"
  MaxOps,        \* bound on admin requests
  Failing,       \* the steps of LoadFromDB that can fail
  MaxFails,      \* bound on failures
  MaxRestarts,   \* bound on restarts
  LossyPubSub,   \* whether notifications can get lost
  UnixTime       \* time.Now().Unix(), the version used when INCR fails

ASSUME ConfigAssumption ==
  /\ Writer \in Instances /\ IsFiniteSet(Instances) /\ IsFiniteSet(Handlers)
  /\ AdminOps \subseteq {"rules", "policy", "reload"}
  /\ Failing \subseteq {"db", "incr", "set"}
  /\ MaxOps \in Nat /\ MaxFails \in Nat /\ MaxRestarts \in Nat
  /\ LossyPubSub \in BOOLEAN
  /\ UnixTime \in Nat /\ UnixTime > MaxOps + MaxRestarts + 1

VARIABLES
  db,         \* db[i]: the rules and the policy in the database of i
  redisVer,   \* Redis: the version counter
  redisSnap,  \* Redis: the published snapshot
  inbox,      \* inbox[i]: notifications the subscriber of i has not read
  cur,        \* cur[i]: the snapshot i serves
  pol,        \* pol[i]: the policy in force on i
  overlap,    \* history: on i two goroutines were applying snapshots at once
  pc, snap,   \* of each thread: next step, and the snapshot it works on
  ops, fails, restarts

vars == <<db, redisVer, redisSnap, inbox, cur, pol, overlap, pc, snap, ops, fails, restarts>>

Threads == (Handlers \X {"admin"}) \cup (Instances \X {"boot", "sub", "poll"})
Host(t) == IF t[2] = "admin" THEN Writer ELSE t[1]

Content == [rules : Nat, policy : Nat]
Snapshot == [ver : Nat, rules : Nat, policy : Nat]
FirstSnapshot == [ver |-> 1, rules |-> 0, policy |-> 0]
NoSnapshot == [ver |-> 0, rules |-> 0, policy |-> 0]

PCs == {"idle", "rules", "policy", "incr", "set", "publish", "get", "check", "store", "refresh"}

TypeOK ==
  /\ db \in [Instances -> Content]
  /\ redisVer \in Nat
  /\ redisSnap \in Snapshot
  /\ inbox \in [Instances -> Nat]
  /\ cur \in [Instances -> Snapshot]
  /\ pol \in [Instances -> Nat]
  /\ overlap \in [Instances -> BOOLEAN]
  /\ pc \in [Threads -> PCs]
  /\ snap \in [Threads -> Snapshot]
  /\ ops \in 0 .. MaxOps /\ fails \in 0 .. MaxFails /\ restarts \in 0 .. MaxRestarts

\* Every instance has started and serves the first published snapshot.
Init ==
  /\ db = [i \in Instances |-> [rules |-> 0, policy |-> 0]]
  /\ redisVer = 1
  /\ redisSnap = FirstSnapshot
  /\ inbox = [i \in Instances |-> 0]
  /\ cur = [i \in Instances |-> FirstSnapshot]
  /\ pol = [i \in Instances |-> 0]
  /\ overlap = [i \in Instances |-> FALSE]
  /\ pc = [t \in Threads |-> "idle"]
  /\ snap = [t \in Threads |-> NoSnapshot]
  /\ ops = 0 /\ fails = 0 /\ restarts = 0
-----------------------------------------------------------------------------
GoTo(t, p) == pc' = [pc EXCEPT ![t] = p]

\* Handler h has committed its transaction, if it has one: the database of Writer
\* is newdb, and LoadFromDB begins.
BeginLoad(h, newdb) ==
  /\ pc[<<h, "admin">>] = "idle"
  /\ ops < MaxOps
  /\ ops' = ops + 1
  /\ db' = [db EXCEPT ![Writer] = newdb]
  /\ GoTo(<<h, "admin">>, "rules")
  /\ UNCHANGED <<redisVer, redisSnap, inbox, cur, pol, overlap, snap, fails, restarts>>

\* upsertBiz, handleBizItem: the rules of a business are written or deleted.
UpsertBiz(h) ==
  /\ "rules" \in AdminOps
  /\ BeginLoad(h, [db[Writer] EXCEPT !.rules = @ + 1])

\* putPolicy: overrides of the policy are set or reset.
PutPolicy(h) ==
  /\ "policy" \in AdminOps
  /\ BeginLoad(h, [db[Writer] EXCEPT !.policy = @ + 1])

\* handleReload: only the load.
HandleReload(h) ==
  /\ "reload" \in AdminOps
  /\ BeginLoad(h, db[Writer])

\* LoadFromDB reads biz_config, then, in another query, runtime_config.
ReadRules(t) ==
  /\ pc[t] = "rules"
  /\ snap' = [snap EXCEPT ![t].rules = db[Host(t)].rules]
  /\ GoTo(t, "policy")
  /\ UNCHANGED <<db, redisVer, redisSnap, inbox, cur, pol, overlap, ops, fails, restarts>>

ReadPolicy(t) ==
  /\ pc[t] = "policy"
  /\ snap' = [snap EXCEPT ![t].policy = db[Host(t)].policy]
  /\ GoTo(t, "incr")
  /\ UNCHANGED <<db, redisVer, redisSnap, inbox, cur, pol, overlap, ops, fails, restarts>>

\* A query fails: LoadFromDB ends with an error.  An admin request is answered with
\* it; Bootstrap turns to Redis.
QueryFails(t) ==
  /\ "db" \in Failing
  /\ pc[t] \in {"rules", "policy"}
  /\ fails < MaxFails
  /\ fails' = fails + 1
  /\ snap' = [snap EXCEPT ![t] = NoSnapshot]
  /\ GoTo(t, IF t[2] = "boot" THEN "get" ELSE "idle")
  /\ UNCHANGED <<db, redisVer, redisSnap, inbox, cur, pol, overlap, ops, restarts>>

\* Mutant: GET and add one, in place of INCR.
IncrLocally(t) ==
  /\ pc[t] = "incr"
  /\ snap' = [snap EXCEPT ![t].ver = redisVer + 1]
  /\ GoTo(t, "set")
  /\ UNCHANGED <<db, redisVer, redisSnap, inbox, cur, pol, overlap, ops, fails, restarts>>

\* INCR of the version; the clock stands in when it fails.
Incr(t) ==
  /\ pc[t] = "incr"
  /\ redisVer' = redisVer + 1
  /\ snap' = [snap EXCEPT ![t].ver = redisVer + 1]
  /\ GoTo(t, "set")
  /\ UNCHANGED <<db, redisSnap, inbox, cur, pol, overlap, ops, fails, restarts>>

IncrFails(t) ==
  /\ "incr" \in Failing
  /\ pc[t] = "incr"
  /\ fails < MaxFails
  /\ fails' = fails + 1
  /\ snap' = [snap EXCEPT ![t].ver = UnixTime]
  /\ GoTo(t, "set")
  /\ UNCHANGED <<db, redisVer, redisSnap, inbox, cur, pol, overlap, ops, restarts>>

\* publish: SET the snapshot, PUBLISH to the subscribers.  A failure is logged and
\* LoadFromDB goes on.
SetSnapshot(t) ==
  /\ pc[t] = "set"
  /\ redisSnap' = snap[t]
  /\ GoTo(t, "publish")
  /\ UNCHANGED <<db, redisVer, inbox, cur, pol, overlap, snap, ops, fails, restarts>>

SetFails(t) ==
  /\ "set" \in Failing
  /\ pc[t] = "set"
  /\ fails < MaxFails
  /\ fails' = fails + 1
  /\ GoTo(t, "store")
  /\ UNCHANGED <<db, redisVer, redisSnap, inbox, cur, pol, overlap, snap, ops, restarts>>

Publish(t) ==
  /\ pc[t] = "publish"
  /\ \E to \in SUBSET Instances :
       /\ LossyPubSub \/ to = Instances
       /\ inbox' = [i \in Instances |-> IF i \in to THEN inbox[i] + 1 ELSE inbox[i]]
  /\ GoTo(t, "store")
  /\ UNCHANGED <<db, redisVer, redisSnap, cur, pol, overlap, snap, ops, fails, restarts>>

\* Some other goroutine of t's instance is between its two stores.
Applying(t) == \E x \in Threads \ {t} : Host(x) = Host(t) /\ pc[x] = "refresh"

\* Mutant: the path through LoadFromDB does not refresh the policy.
StoreCurOnly(t) ==
  /\ pc[t] = "store"
  /\ cur' = [cur EXCEPT ![Host(t)] = snap[t]]
  /\ overlap' = [overlap EXCEPT ![Host(t)] = Applying(t)]
  /\ GoTo(t, IF t[2] = "admin" THEN "idle" ELSE "refresh")
  /\ UNCHANGED <<db, redisVer, redisSnap, inbox, pol, snap, ops, fails, restarts>>

\* apply, and the end of LoadFromDB: replace the snapshot, then refresh the policy.
StoreCur(t) ==
  /\ pc[t] = "store"
  /\ cur' = [cur EXCEPT ![Host(t)] = snap[t]]
  /\ overlap' = [overlap EXCEPT ![Host(t)] = Applying(t)]
  /\ GoTo(t, "refresh")
  /\ UNCHANGED <<db, redisVer, redisSnap, inbox, pol, snap, ops, fails, restarts>>

RefreshPolicy(t) ==
  /\ pc[t] = "refresh"
  /\ pol' = [pol EXCEPT ![Host(t)] = snap[t].policy]
  /\ snap' = [snap EXCEPT ![t] = NoSnapshot]
  /\ GoTo(t, "idle")
  /\ UNCHANGED <<db, redisVer, redisSnap, inbox, cur, overlap, ops, fails, restarts>>

\* loadFromRedis, of Bootstrap and poll: the snapshot of the moment, which they
\* apply whatever its version.
LoadFromRedis(t) ==
  /\ pc[t] = "get"
  /\ snap' = [snap EXCEPT ![t] = redisSnap]
  /\ GoTo(t, "store")
  /\ UNCHANGED <<db, redisVer, redisSnap, inbox, cur, pol, overlap, ops, fails, restarts>>

\* Watch starts after Bootstrap.
Watching(i) == pc[<<i, "boot">>] = "idle"

\* The channel has a message; the mutant takes a closed channel for one.
NotifiedOrClosed(i) == TRUE
Notified(i) == inbox[i] > 0

\* subscribe: a notification makes it read the snapshot of the moment, ...
SubReceive(i) ==
  LET t == <<i, "sub">> IN
  /\ Watching(i)
  /\ pc[t] = "idle"
  /\ Notified(i)
  /\ inbox' = [inbox EXCEPT ![i] = @ - 1]
  /\ snap' = [snap EXCEPT ![t] = redisSnap]
  /\ GoTo(t, "check")
  /\ UNCHANGED <<db, redisVer, redisSnap, cur, pol, overlap, ops, fails, restarts>>

\* ... and apply it unless it is older than the one in force.
SubCheck(i) ==
  LET t == <<i, "sub">> IN
  /\ pc[t] = "check"
  /\ IF snap[t].ver >= cur[i].ver
     THEN GoTo(t, "store") /\ UNCHANGED snap
     ELSE GoTo(t, "idle") /\ snap' = [snap EXCEPT ![t] = NoSnapshot]
  /\ UNCHANGED <<db, redisVer, redisSnap, inbox, cur, pol, overlap, ops, fails, restarts>>

\* Mutant: a difference of one goes unnoticed.
FarBehind(i) == redisVer > cur[i].ver + 1
Behind(i) == redisVer > cur[i].ver

\* poll: the version counter is ahead, so LoadFromRedis follows.
PollVersion(i) ==
  LET t == <<i, "poll">> IN
  /\ Watching(i)
  /\ pc[t] = "idle"
  /\ Behind(i)
  /\ GoTo(t, "get")
  /\ UNCHANGED <<db, redisVer, redisSnap, inbox, cur, pol, overlap, snap, ops, fails, restarts>>

\* An instance restarts: memory is gone, and Bootstrap runs LoadFromDB on the
\* instance's own database.
Restart(i) ==
  /\ restarts < MaxRestarts
  /\ restarts' = restarts + 1
  /\ cur' = [cur EXCEPT ![i] = NoSnapshot]
  /\ pol' = [pol EXCEPT ![i] = 0]
  /\ overlap' = [overlap EXCEPT ![i] = FALSE]
  /\ inbox' = [inbox EXCEPT ![i] = 0]
  /\ pc' = [t \in Threads |-> IF Host(t) # i THEN pc[t]
                              ELSE IF t[2] = "boot" THEN "rules" ELSE "idle"]
  /\ snap' = [t \in Threads |-> IF Host(t) = i THEN NoSnapshot ELSE snap[t]]
  /\ UNCHANGED <<db, redisVer, redisSnap, ops, fails>>

ThreadStep(t) ==
  \/ ReadRules(t) \/ ReadPolicy(t) \/ Incr(t) \/ SetSnapshot(t) \/ Publish(t)
  \/ LoadFromRedis(t) \/ StoreCur(t) \/ RefreshPolicy(t)
WatchStep(i) == SubReceive(i) \/ SubCheck(i)

Next ==
  \/ \E h \in Handlers : UpsertBiz(h) \/ PutPolicy(h) \/ HandleReload(h)
  \/ \E t \in Threads : ThreadStep(t) \/ QueryFails(t) \/ IncrFails(t) \/ SetFails(t)
  \/ \E i \in Instances : WatchStep(i) \/ PollVersion(i) \/ Restart(i)

Spec == Init /\ [][Next]_vars

\* Goroutines make progress and the poll timer keeps firing; failures, restarts
\* and admin requests need not happen.
Fairness ==
  /\ \A t \in Threads : WF_vars(ThreadStep(t))
  /\ \A i \in Instances : WF_vars(WatchStep(i)) /\ WF_vars(PollVersion(i))

FairSpec == Spec /\ Fairness
-----------------------------------------------------------------------------
\* One version is one configuration (store.go 201-203): snapshots with the same
\* version, wherever they are, have the same content, however the loads of
\* concurrent requests and restarting instances interleave.
VersionUnique ==
  LET Known == {redisSnap} \cup {cur[i] : i \in Instances}
               \cup {snap[t] : t \in {x \in Threads :
                       pc[x] \in {"set", "publish", "check", "store", "refresh"}}}
  IN \A a, b \in Known : a.ver = b.ver => a = b

\* README.md:134 and store.go 287-289: Pub/Sub may lose messages, polling makes up
\* for it, so every admin write gets to every instance.
WritesArrive == <>[](\A i \in Instances : cur[i].rules = db[Writer].rules)

Quiet(i) == \A t \in Threads : Host(t) = i => pc[t] = "idle"

\* store.go 279-281: every path that gets a new snapshot goes through apply, so rules
\* and policy are those of one snapshot whenever nothing is under way, on every path,
\* after failures and restarts too.  The exception the comment does not name: no lock
\* covers the two stores, and when the last two applies overlapped the rules of one
\* snapshot and the policy of the other may stay, until the next apply.
TornOnlyByOverlap == \A i \in Instances : Quiet(i) /\ ~overlap[i] => pol[i] = cur[i].policy
=============================================================================
