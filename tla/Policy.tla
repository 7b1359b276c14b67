------------------------------- MODULE Policy -------------------------------
(***************************************************************************)
(* The runtime policy of one gateway instance: how it is resolved from     *)
(* defaults, environment and the overrides of the admin page               *)
(* (internal/config/policy.go, policy_spec.go, env.go), and how a change   *)
(* reaches the request handler, the limiter and the logger                 *)
(* (policy_store.go, proxy/handler.go ApplyPolicy).                        *)
(*                                                                         *)
(* Goroutines that got a new snapshot (the subscriber, the poller, an      *)
(* admin request) refresh the policy.  Loads and stores of atomic pointers *)
(* are steps of their own, and no lock covers two of them.  Raw strings    *)
(* and the values they parse to are the same numbers here; Parsable tells  *)
(* which of them parse and Accepted which are within bounds, for each key. *)
(***************************************************************************)
EXTENDS Integers, SequencesExt

CONSTANTS
  PolicyKeys,   \* the keys, in the order in which overrides are applied
  Values,       \* values of the policy, as numbers
  Parsable,     \* for each key, the values that parse
  Accepted,     \* for each key, those that durBound, intBound, parseBool, ... accept
  Default,      \* DefaultPolicy
  Env,          \* for each key, its environment variable; Absent when it is not set
  Absent,
  Pages,        \* the sets of overrides that may be in runtime_config
  Refreshers,   \* goroutines that apply snapshots
  Main,         \* the goroutine of main
  MaxWrites     \* bound on the changes of runtime_config

Keys == Range(PolicyKeys)
\* Those that are fields of proxy.Options; poll reads its interval from the policy.
OptKeys == Keys \ {"log_level", "config_poll_interval"}
Policies == [Keys -> Values]
Overrides == [Keys -> Values \cup {Absent}]
NoOverrides == [k \in Keys |-> Absent]
Routines == Refreshers \cup {Main}

ASSUME PolicyAssumption ==
  /\ PolicyKeys \in Seq(Keys)
  /\ {"instances", "log_level"} \subseteq Keys
  /\ Values \subseteq Int /\ Absent \notin Values
  /\ Parsable \in [Keys -> SUBSET Values]
  /\ \A k \in Keys : Accepted[k] \subseteq Parsable[k]
  /\ Default \in Policies /\ \A k \in Keys : Default[k] \in Accepted[k]
  /\ Env \in Overrides /\ Pages \subseteq Overrides
  /\ Main \notin Refreshers /\ MaxWrites \in Nat

VARIABLES
  page,               \* the overrides that the published snapshot carries
  base, eff,          \* fields of policyState; Default stands for nil
  overrides,
  listening,          \* main has registered its listener
  opt, instances, level,   \* what handler, limiter and logger use
  step, want,         \* of each goroutine: its next step, the policy it brings
  fetched,            \*   and the overrides it has got
  overlapped,         \* history: two refreshes have been under way at once
  writes

policyState == <<base, eff, overrides, listening>>
consumers == <<opt, instances, level>>
routines == <<step, want, fetched, overlapped>>
policyVars == <<page, policyState, consumers, routines, writes>>

PolicySteps ==
  {"idle", "resolve", "compare", "store", "copy", "load", "apply", "instances", "level"}

PolicyTypeOK ==
  /\ page \in Overrides
  /\ base \in Policies /\ eff \in Policies /\ overrides \in Overrides
  /\ listening \in BOOLEAN
  /\ opt \in [OptKeys -> Values] /\ instances \in Nat \ {0} /\ level \in Values
  /\ step \in [Routines -> PolicySteps]
  /\ want \in [Routines -> Policies]
  /\ fetched \in [Routines -> Overrides]
  /\ overlapped \in BOOLEAN
  /\ writes \in 0 .. MaxWrites
-----------------------------------------------------------------------------
\* env, envInt, envBool, envDur: a variable that is not set or does not parse counts for
\* nothing; bounds are not looked at.
FromEnv(k) == IF Env[k] \in Parsable[k] THEN Env[k] ELSE Default[k]

PolicyFromEnv == [k \in Keys |-> FromEnv(k)]

\* durBound, intBound, parseBool and the levels, as policySpecs uses them: the value
\* parses and is within bounds.
InBounds(k, raw) == raw \in Accepted[k]

\* Policy.set on a copy: an override that does not parse or is out of bounds is
\* reported and leaves the policy as it was.
Set(p, k, raw) == IF InBounds(k, raw) THEN [p EXCEPT ![k] = raw] ELSE p

\* ResolvePolicy: the overrides there are, applied to the base key by key.
ResolvePolicy(b, o) ==
  FoldLeft(LAMBDA p, k : IF o[k] = Absent THEN p ELSE Set(p, k, o[k]), b, PolicyKeys)

\* ValidatePolicyOverrides: none of the values is a problem.
ValidOverrides(o) == \A k \in Keys : o[k] # Absent => InBounds(k, o[k])

Restriction(p) == [k \in OptKeys |-> p[k]]

\* parseLevel: a level it does not know is info, the default.
ParseLevel(l) == IF l \in Accepted["log_level"] THEN l ELSE Default["log_level"]

\* Options of limiter.New, and SetInstances: a value below 1 is ignored.
AtLeastOne(n, otherwise) == IF n <= 0 THEN otherwise ELSE n

PolicyInit ==
  /\ page \in {o \in Pages : ValidOverrides(o)}
  /\ base = Default /\ eff = Default /\ overrides = NoOverrides
  /\ listening = FALSE
  /\ opt = Restriction(PolicyFromEnv)
  /\ instances = AtLeastOne(PolicyFromEnv["instances"], 1)
  /\ level = ParseLevel(PolicyFromEnv["log_level"])
  /\ step = [r \in Routines |-> "idle"]
  /\ want = [r \in Routines |-> Default]
  /\ fetched = [r \in Routines |-> NoOverrides]
  /\ overlapped = FALSE /\ writes = 0

Goto(r, s) == step' = [step EXCEPT ![r] = s]

\* r is done; what it has read is out of scope.
Done(r) ==
  /\ Goto(r, "idle")
  /\ want' = [want EXCEPT ![r] = Default]
  /\ fetched' = [fetched EXCEPT ![r] = NoOverrides]

Quiet == \A r \in Routines : step[r] = "idle"

\* putPolicy: values are validated before they are written; a load publishes them.
PutPolicy(o) ==
  /\ writes < MaxWrites /\ o # page /\ ValidOverrides(o)
  /\ page' = o /\ writes' = writes + 1
  /\ UNCHANGED <<policyState, consumers, routines>>

\* A row that this version would not have written: by hand, or by another version.
ForeignRow(o) ==
  /\ writes < MaxWrites /\ o # page /\ ~ValidOverrides(o)
  /\ page' = o /\ writes' = writes + 1
  /\ UNCHANGED <<policyState, consumers, routines>>

\* SetPolicyBase(PolicyFromEnv(rt)), and the refresh in it; main is alone.
SetPolicyBase ==
  /\ base' = PolicyFromEnv
  /\ eff' = ResolvePolicy(PolicyFromEnv, overrides)
  /\ UNCHANGED <<page, overrides, listening, consumers, routines, writes>>

\* The refresh of Bootstrap; main is still alone.
BootPolicy ==
  /\ eff' = ResolvePolicy(base, page)
  /\ overrides' = page
  /\ UNCHANGED <<page, base, listening, consumers, step, want, fetched, overlapped, writes>>

\* r has got a snapshot and stored it; refreshPolicy begins.
Fetch(r) ==
  /\ step[r] = "idle"
  /\ Goto(r, "resolve")
  /\ fetched' = [fetched EXCEPT ![r] = page]
  /\ overlapped' = (overlapped \/ ~Quiet)
  /\ UNCHANGED <<page, policyState, consumers, want, writes>>

\* refreshPolicy: resolve, and store the overrides.
Resolve(r) ==
  /\ step[r] = "resolve"
  /\ want' = [want EXCEPT ![r] = ResolvePolicy(base, fetched[r])]
  /\ overrides' = fetched[r]
  /\ Goto(r, "compare")
  /\ UNCHANGED <<page, base, eff, listening, consumers, fetched, overlapped, writes>>

\* refreshPolicy: nothing has changed.
Unchanged(r) ==
  /\ step[r] = "compare" /\ eff = want[r]
  /\ Done(r)
  /\ UNCHANGED <<page, policyState, consumers, overlapped, writes>>

Changed(r) ==
  /\ step[r] = "compare" /\ eff # want[r]
  /\ Goto(r, "store")
  /\ UNCHANGED <<page, policyState, consumers, want, fetched, overlapped, writes>>

StoreEff(r) ==
  /\ step[r] = "store"
  /\ eff' = want[r]
  /\ Goto(r, "copy")
  /\ UNCHANGED <<page, base, overrides, listening, consumers, want, fetched,
                 overlapped, writes>>

\* The listeners are copied inside mu, and called once it is released.
CopyListeners(r) ==
  /\ step[r] = "copy"
  /\ IF listening THEN Goto(r, "apply") /\ UNCHANGED <<want, fetched>> ELSE Done(r)
  /\ UNCHANGED <<page, policyState, consumers, overlapped, writes>>

\* Mutant: the listener of OnPolicyChange is not called when it is registered.
RegisterSilently ==
  /\ listening' = TRUE
  /\ UNCHANGED <<page, base, eff, overrides, consumers, routines, writes>>

\* OnPolicyChange: register, and then call the listener with the policy there is.
Register ==
  /\ listening' = TRUE
  /\ Goto(Main, "load")
  /\ overlapped' = (overlapped \/ ~Quiet)
  /\ UNCHANGED <<page, base, eff, overrides, consumers, want, fetched, writes>>

LoadEff(r) ==
  /\ step[r] = "load"
  /\ want' = [want EXCEPT ![r] = eff]
  /\ Goto(r, "apply")
  /\ UNCHANGED <<page, policyState, consumers, fetched, overlapped, writes>>

\* The listener of main: Handler.ApplyPolicy replaces the options as a whole.
ApplyPolicy(r) ==
  /\ step[r] = "apply"
  /\ opt' = Restriction(want[r])
  /\ Goto(r, "instances")
  /\ UNCHANGED <<page, policyState, instances, level, want, fetched, overlapped,
                 writes>>

\* Mutant: the number of instances is taken as it is.
InstancesTaken(n, otherwise) == n
InstancesAfter(n, otherwise) == AtLeastOne(n, otherwise)

SetInstances(r) ==
  /\ step[r] = "instances"
  /\ instances' = InstancesAfter(want[r]["instances"], instances)
  /\ Goto(r, "level")
  /\ UNCHANGED <<page, policyState, opt, level, want, fetched, overlapped, writes>>

\* Mutant: the level is set to what it is.
LevelKept(p) == level
LevelOf(p) == ParseLevel(p["log_level"])

SetLevel(r) ==
  /\ step[r] = "level"
  /\ level' = LevelOf(want[r])
  /\ Done(r)
  /\ UNCHANGED <<page, policyState, opt, instances, overlapped, writes>>

RefreshStep(r) ==
  \/ Resolve(r) \/ Unchanged(r) \/ Changed(r) \/ StoreEff(r) \/ CopyListeners(r)
  \/ LoadEff(r) \/ ApplyPolicy(r) \/ SetInstances(r) \/ SetLevel(r)
-----------------------------------------------------------------------------
\* The policy that overrides o stand for: page before environment before default,
\* each key for itself.
Resolved(o) ==
  [k \in Keys |-> IF o[k] \in Accepted[k] THEN o[k]
                  ELSE IF Env[k] \in Parsable[k] THEN Env[k] ELSE Default[k]]

\* Handler, limiter and logger use policy p.
InForce(p) ==
  /\ opt = Restriction(p)
  /\ p["instances"] > 0 => instances = p["instances"]
  /\ level = ParseLevel(p["log_level"])

\* As long as no two refreshes overlap, handler, limiter and logger use the policy
\* that the overrides last applied resolve to, whenever nothing is under way
\* (policy_store.go:94-127, main.go:184-188).  When they overlap it need not
\* hold: the listeners can be called in the opposite order of the stores.
ListenersFollow ==
  listening /\ Quiet /\ ~overlapped
    => eff = Resolved(overrides) /\ InForce(eff)

\* Listeners are called one after the other, as policy_store.go:22 says.  It does not
\* hold: the mutex is released before the calls, and the goroutines that apply snapshots
\* make them at once (policy_store.go:82, 110-116; store.go:282-285).
ListenersSerial ==
  \A r, s \in Routines :
    {step[r], step[s]} \subseteq {"apply", "instances", "level"} => r = s
=============================================================================
