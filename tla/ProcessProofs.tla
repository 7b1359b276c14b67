---------------------------- MODULE ProcessProofs ----------------------------
(***************************************************************************)
(* The life of a gateway process and its policy, for any keys and bounds,  *)
(* any number of goroutines that apply snapshots and any number of         *)
(* requests: when a slot can be left behind in Redis, that /ready          *)
(* implements module Probe, that the types are right, what ResolvePolicy   *)
(* computes, and that handler, limiter and logger follow the page.         *)
(***************************************************************************)
EXTENDS Process, Sums

ServerStates == {"off", "starting", "up", "failed", "draining", "down"}

\* What the proofs need of the types.
LifeType ==
  /\ main \in MainSteps
  /\ server \in [Servers -> ServerStates]
  /\ inFlight \in Nat

\* The admin server is started last, so that until then run may end without it; and
\* once the sleep is over no server is about to come up.
Starting ==
  /\ main \in {"open", "base", "boot", "watch", "register", "serve"}
       => \A s \in Servers : server[s] = "off"
  /\ main = "admin" => server["admin"] = "off"
  /\ main \in {"stopAdmin", "stopObs", "stopProxy", "waitProxy"}
       => \A s \in Servers : server[s] # "starting"
  /\ main = "waitProxy" => server["proxy"] # "up"

\* The reasons why a request may outlive the Redis client ...
Cause == grace \/ errCh \/ server["admin"] = "off"

\* ... and the case in which there is no such request, nor will there be one.
Empty == inFlight = 0 /\ server["proxy"] \notin {"starting", "up"}

\* run ends in one of the two, and Redis is closed only then.
Ending ==
  /\ main \in {"close", "exit", "exited"} => Cause \/ Empty
  /\ closed => main \in {"exit", "exited"}
  /\ lost => closed /\ Cause

ReleaseInv == LifeType /\ Starting /\ Ending

\* The flags say ready only of a process that has a configuration.
Configured == (ready => loaded) /\ (bizs => loaded)

LifeInv == ReleaseInv /\ Configured

LEMMA InitLife == Init => LifeInv
<1> SUFFICES ASSUME Init PROVE LifeInv
  OBVIOUS
<1>1. LifeType
  BY DEF Init, LifeType, MainSteps, ServerStates
<1>2. Starting
  BY DEF Init, Starting, Servers
<1>3. Ending /\ Configured
  BY DEF Init, Ending, Configured
<1> QED
  BY <1>1, <1>2, <1>3 DEF LifeInv, ReleaseInv

\* Steps of the policy alone.
LEMMA PolicyOnly == LifeInv /\ UNCHANGED lifeVars => LifeInv'
BY DEF LifeInv, ReleaseInv, LifeType, Starting, Ending, Cause, Empty, Configured, lifeVars

\* The steps of main up to the servers.
LEMMA BootSteps ==
  ASSUME LifeInv,
         OpenStore \/ InjectBase \/ Bootstrap \/ BootstrapFails \/ StartWatch
         \/ OnPolicyChange
  PROVE  LifeInv'
<1>1. /\ main \in {"open", "base", "boot", "watch", "register"}
      /\ main' \in {"base", "boot", "watch", "register", "serve"}
      /\ UNCHANGED <<server, inFlight, grace, errCh, closed, lost>>
  BY DEF OpenStore, InjectBase, Bootstrap, BootstrapFails, StartWatch, OnPolicyChange, Proceed
<1>2. LifeType'
  BY <1>1 DEF LifeInv, ReleaseInv, LifeType, MainSteps
<1>3. Starting'
  BY <1>1 DEF LifeInv, ReleaseInv, Starting
<1>4. Ending'
  BY <1>1 DEF LifeInv, ReleaseInv, Ending, Cause
<1>5. Configured'
  BY DEF LifeInv, Configured, OpenStore, InjectBase, Bootstrap, BootstrapFails, StartWatch,
         OnPolicyChange
<1> QED
  BY <1>2, <1>3, <1>4, <1>5 DEF LifeInv, ReleaseInv

\* The servers are started.
LEMMA ServeSteps ==
  ASSUME LifeInv, StartServers \/ StartAdmin
  PROVE  LifeInv'
<1>1. /\ main \in {"serve", "admin"} /\ main' \in {"admin", "select"}
      /\ UNCHANGED <<inFlight, grace, errCh, closed, lost, ready, bizs, loaded>>
      /\ server' \in [Servers -> ServerStates]
  BY DEF StartServers, StartAdmin, Proceed, LifeInv, ReleaseInv, LifeType, ServerStates
<1>2. main' = "admin" => server'["admin"] = "off"
  BY DEF StartServers, StartAdmin, Proceed, LifeInv, ReleaseInv, LifeType, Starting, Servers
<1>3. ~closed /\ ~lost
  BY <1>1 DEF LifeInv, ReleaseInv, Ending
<1>4. LifeType' /\ Starting'
  BY <1>1, <1>2 DEF LifeInv, ReleaseInv, LifeType, Starting, MainSteps
<1>5. Ending' /\ Configured'
  BY <1>1, <1>3 DEF LifeInv, Ending, Configured
<1> QED
  BY <1>4, <1>5 DEF LifeInv, ReleaseInv

\* run ends early: with no admin server, or with an error of a server.
LEMMA EarlyEnds ==
  ASSUME LifeInv, OpenFails \/ AdminRefused \/ SelectError
  PROVE  LifeInv'
<1>1. /\ main \in {"open", "admin", "select"} /\ main' = "close"
      /\ UNCHANGED <<server, inFlight, grace, errCh, closed, lost, ready, bizs, loaded>>
  BY DEF OpenFails, AdminRefused, SelectError, Proceed
<1>2. Cause /\ ~closed /\ ~lost
  BY DEF OpenFails, AdminRefused, SelectError, Proceed, Cause, LifeInv, ReleaseInv, Starting,
         Ending, Servers
<1>3. LifeType' /\ Starting' /\ Configured'
  BY <1>1 DEF LifeInv, ReleaseInv, LifeType, Starting, Configured, MainSteps
<1>4. Ending'
  BY <1>1, <1>2 DEF Ending, Cause
<1> QED
  BY <1>3, <1>4 DEF LifeInv, ReleaseInv

\* The steps from the signal to the end of the last Shutdown.
LEMMA StopSteps ==
  ASSUME LifeInv, SelectSignal \/ Slept \/ Shutdown
  PROVE  LifeInv'
<1>1. /\ main \in {"select", "sleep", "stopAdmin", "stopObs", "stopProxy", "waitProxy"}
      /\ main' \in {"sleep", "stopAdmin", "stopObs", "stopProxy", "waitProxy", "close"}
      /\ UNCHANGED <<inFlight, grace, errCh, closed, lost, ready, bizs, loaded>>
  BY DEF SelectSignal, Slept, Shutdown, Drained, StopListening, Proceed
<1>2. ~closed /\ ~lost
  BY <1>1 DEF LifeInv, ReleaseInv, Ending
<1>3. server' \in [Servers -> ServerStates]
  BY DEF SelectSignal, Slept, Shutdown, Drained, StopListening, LifeInv, ReleaseInv, LifeType,
         ServerStates
<1>4. Starting'
  <2>1. CASE SelectSignal \/ Slept
    BY <2>1 DEF SelectSignal, Slept, Proceed, Starting
  <2>2. CASE Shutdown
    <3>1. \A s \in Servers : server'[s] # "starting"
      BY <2>2, <1>1 DEF Shutdown, Drained, StopListening, Proceed, LifeInv, ReleaseInv,
                   LifeType, Starting
    <3>2. main' = "waitProxy" => server'["proxy"] # "up"
      BY <2>2 DEF Shutdown, Drained, StopListening, Proceed, LifeInv, ReleaseInv, LifeType,
                  Servers
    <3>3. main' \in {"stopObs", "stopProxy", "waitProxy", "close"}
      BY <2>2 DEF Shutdown, Drained, StopListening, Proceed
    <3> QED
      BY <3>1, <3>2, <3>3 DEF Starting
  <2> QED
    BY <2>1, <2>2
<1>5. main' = "close" => Cause' \/ Empty'
  <2> SUFFICES ASSUME main' = "close" PROVE Cause' \/ Empty'
    OBVIOUS
  <2>1. Drained("proxy", ProxyIdle, "waitProxy", "close")
    BY DEF SelectSignal, Slept, Shutdown, Drained, StopListening, Proceed
  <2>2. (inFlight = 0 \/ grace) /\ server'["proxy"] = "down"
    BY <2>1 DEF Drained, ProxyIdle, GraceOver, LifeInv, ReleaseInv, LifeType, Servers
  <2> QED
    BY <1>1, <2>2 DEF Cause, Empty
<1>6. LifeType' /\ Configured'
  BY <1>1, <1>3 DEF LifeInv, ReleaseInv, LifeType, Configured, MainSteps
<1>7. Ending'
  BY <1>1, <1>2, <1>5 DEF Ending
<1> QED
  BY <1>4, <1>6, <1>7 DEF LifeInv, ReleaseInv

LEMMA LastSteps ==
  ASSUME LifeInv, Close \/ Exit
  PROVE  LifeInv'
<1>1. /\ main \in {"close", "exit"} /\ main' \in {"exit", "exited"}
      /\ UNCHANGED <<server, inFlight, grace, errCh, lost, ready, bizs, loaded>>
      /\ lost => closed'
  BY DEF Close, Exit, Proceed, LifeInv, ReleaseInv, Ending
<1>2. LifeType' /\ Starting' /\ Configured'
  BY <1>1 DEF LifeInv, ReleaseInv, LifeType, Starting, Configured, MainSteps
<1>3. Ending'
  BY <1>1 DEF LifeInv, ReleaseInv, Ending, Cause, Empty
<1> QED
  BY <1>2, <1>3 DEF LifeInv, ReleaseInv

\* A signal, the grace period, and the goroutines that set flags.
LEMMA FlagSteps ==
  ASSUME LifeInv,
         Signal \/ GraceEnds \/ LoopTick \/ ChangeBizs \/ (\E r \in Refreshers : Receive(r))
  PROVE  LifeInv'
<1>1. UNCHANGED <<main, server, inFlight, errCh, closed, lost>> /\ (grace => grace')
  BY DEF Signal, GraceEnds, LoopTick, ChangeBizs, Receive
<1>2. LifeType' /\ Starting'
  BY <1>1 DEF LifeInv, ReleaseInv, LifeType, Starting
<1>3. Ending'
  BY <1>1 DEF LifeInv, ReleaseInv, Ending, Cause, Empty
<1>4. Configured'
  BY DEF LifeInv, Configured, Signal, GraceEnds, LoopTick, FirstConfig, ChangeBizs, Receive
<1> QED
  BY <1>2, <1>3, <1>4 DEF LifeInv, ReleaseInv

LEMMA ListenStep ==
  ASSUME LifeInv, NEW s \in Servers, Listen(s)
  PROVE  LifeInv'
<1>1. /\ server[s] = "starting"
      /\ server' = [server EXCEPT ![s] = "up"] \/ server' = [server EXCEPT ![s] = "failed"]
      /\ errCh => errCh'
      /\ UNCHANGED <<main, inFlight, grace, closed, lost, ready, bizs, loaded>>
  BY DEF Listen
<1>2. LifeType'
  BY <1>1 DEF LifeInv, ReleaseInv, LifeType, ServerStates
<1>3. server["admin"] = "off" => server'["admin"] = "off"
  BY <1>1 DEF LifeInv, ReleaseInv, LifeType, Servers
<1>4. Starting'
  BY <1>1, <1>3 DEF LifeInv, ReleaseInv, LifeType, Starting
<1>5. Empty => Empty'
  BY <1>1 DEF Empty, LifeInv, ReleaseInv, LifeType, Servers
<1>6. Cause => Cause'
  BY <1>1, <1>3 DEF Cause
<1>7. Ending'
  BY <1>1, <1>5, <1>6 DEF LifeInv, ReleaseInv, Ending
<1> QED
  BY <1>1, <1>2, <1>4, <1>7 DEF LifeInv, ReleaseInv, Configured

LEMMA RequestSteps ==
  ASSUME LifeInv, Accept \/ Finish
  PROVE  LifeInv'
<1>1. UNCHANGED <<main, server, grace, errCh, closed, ready, bizs, loaded>>
  BY DEF Accept, Finish
<1>2. LifeType'
  BY <1>1 DEF Accept, Finish, LifeInv, ReleaseInv, LifeType
<1>3. Starting' /\ Configured'
  BY <1>1 DEF LifeInv, ReleaseInv, Starting, Configured
<1>4. ~Empty
  BY DEF Accept, Finish, Empty
<1>5. lost' => closed /\ Cause
  BY <1>4 DEF Accept, Finish, LifeInv, ReleaseInv, Ending
<1>6. Ending'
  BY <1>1, <1>4, <1>5 DEF LifeInv, ReleaseInv, Ending, Cause
<1> QED
  BY <1>2, <1>3, <1>6 DEF LifeInv, ReleaseInv

LEMMA NextLife == LifeInv /\ [Next]_vars => LifeInv'
<1> SUFFICES ASSUME LifeInv, [Next]_vars PROVE LifeInv'
  OBVIOUS
<1>1. CASE UNCHANGED vars
  BY <1>1, PolicyOnly DEF vars
<1>2. CASE MainStep
  BY <1>2, BootSteps, ServeSteps, EarlyEnds, StopSteps, LastSteps DEF MainStep
<1>3. CASE Signal \/ GraceEnds \/ LoopTick \/ ChangeBizs \/ (\E r \in Refreshers : Receive(r))
  BY <1>3, FlagSteps
<1>4. CASE \E s \in Servers : Listen(s)
  BY <1>4, ListenStep
<1>5. CASE Accept \/ Finish
  BY <1>5, RequestSteps
<1>6. CASE ChangePage \/ \E r \in Routines : Refresh(r)
  BY <1>6, PolicyOnly DEF ChangePage, Refresh
<1> QED
  BY <1>1, <1>2, <1>3, <1>4, <1>5, <1>6 DEF Next

\* No release of a concurrency slot finds the Redis client closed, but after the grace
\* period, the failure of a server or a refused admin configuration (main.go:247-278).
THEOREM ReleasesReachRedis == Spec => []NoLostRelease
<1>1. LifeInv => NoLostRelease
  BY DEF LifeInv, ReleaseInv, Ending, Cause, NoLostRelease
<1> QED
  BY <1>1, InitLife, NextLife, PTL DEF Spec
-----------------------------------------------------------------------------
\* Steps that an observer of /ready does not see.
LEMMA Unseen ==
  ASSUME LifeInv, UNCHANGED <<ready, shutdown, loaded>>,
         Alive' = Alive, server'["obs"] = server["obs"]
  PROVE  UNCHANGED <<Answer, loaded>>
BY DEF Answer, ReadyHandler

\* A step that takes /ready from one of its answers to a later one.
LEMMA Advances ==
  ASSUME loaded' = loaded, Answer \in DOMAIN AbstractProbe!Rank,
         Answer' \in DOMAIN AbstractProbe!Rank,
         AbstractProbe!Rank[Answer'] > AbstractProbe!Rank[Answer],
         Answer' = "ready" => loaded'
  PROVE  AbstractProbe!Next
BY DEF AbstractProbe!Next, AbstractProbe!Advance

\* The server of the probes comes up, or fails.
LEMMA ListenRefines ==
  ASSUME LifeInv, LifeInv', NEW s \in Servers, Listen(s)
  PROVE  [AbstractProbe!Next]_(AbstractProbe!vars)
<1>0. /\ Alive /\ Alive' /\ server[s] = "starting"
      /\ UNCHANGED <<ready, shutdown, loaded>>
      /\ server' = [server EXCEPT ![s] = "up"] \/ server' = [server EXCEPT ![s] = "failed"]
      /\ server \in [Servers -> ServerStates] /\ "obs" \in Servers
  BY DEF Listen, Alive, LifeInv, ReleaseInv, LifeType, Servers
<1>1. CASE s # "obs"
  <2>1. server'["obs"] = server["obs"]
    BY <1>0, <1>1
  <2> QED
    BY <1>0, <2>1, Unseen DEF AbstractProbe!vars
<1>2. CASE s = "obs"
  <2>1. server["obs"] = "starting" /\ server'["obs"] \in {"up", "failed"}
    BY <1>0, <1>2
  <2>2. Answer = "unreachable"
    BY <1>0, <2>1 DEF Answer
  <2>3. Answer' \in {"shutting_down", "not_ready", "ready", "gone"}
    BY <1>0, <2>1 DEF Answer, ReadyHandler
  <2>4. Answer' = "ready" => loaded'
    BY DEF LifeInv, Configured, Answer, ReadyHandler
  <2> QED
    BY <1>0, <2>2, <2>3, <2>4, Advances DEF AbstractProbe!Rank
<1> QED
  BY <1>1, <1>2

\* A flag is set, by the state loop or after a signal.
LEMMA FlagsRefine ==
  ASSUME LifeInv, LifeInv', SelectSignal \/ LoopTick
  PROVE  [AbstractProbe!Next]_(AbstractProbe!vars)
<1>0. /\ Alive /\ Alive' /\ UNCHANGED <<server, loaded>>
      /\ (ready => ready') /\ (shutdown => shutdown')
  BY DEF SelectSignal, LoopTick, Alive, Proceed
<1>1. CASE server["obs"] # "up"
  BY <1>0, <1>1 DEF Answer, AbstractProbe!vars
<1>2. CASE server["obs"] = "up"
  <2>1. /\ Answer = ReadyHandler /\ Answer' = ReadyHandler'
    BY <1>0, <1>2 DEF Answer
  <2>2. Answer' = "ready" => loaded'
    BY DEF LifeInv, Configured, Answer, ReadyHandler
  <2>3. CASE SelectSignal
    <3>1. Answer' = "shutting_down" /\ Answer \in {"shutting_down", "not_ready", "ready"}
      BY <2>1, <2>3 DEF SelectSignal, ReadyHandler
    <3> QED
      BY <1>0, <2>2, <3>1, Advances DEF AbstractProbe!Rank, AbstractProbe!vars
  <2>4. CASE LoopTick
    <3>1. ready' /\ shutdown' = shutdown
      BY <2>4 DEF LoopTick
    <3>2. \/ Answer = Answer'
          \/ Answer = "not_ready" /\ Answer' = "ready"
      BY <2>1, <3>1 DEF ReadyHandler
    <3> QED
      BY <1>0, <2>2, <3>2, Advances DEF AbstractProbe!Rank, AbstractProbe!vars
  <2> QED
    BY <2>3, <2>4
<1> QED
  BY <1>1, <1>2

\* A configuration is loaded; /ready does not change with it, but at Bootstrap, when
\* nobody can reach it yet.
LEMMA LoadRefines ==
  ASSUME LifeInv, Bootstrap \/ \E r \in Refreshers : Receive(r)
  PROVE  [AbstractProbe!Next]_(AbstractProbe!vars)
<1>1. loaded' = TRUE /\ server' = server /\ shutdown' = shutdown /\ Alive /\ Alive'
  BY DEF Bootstrap, Receive, Proceed, Alive
<1>2. server["obs"] = "off" \/ ready' = ready
  BY DEF Bootstrap, Receive, Proceed, LifeInv, ReleaseInv, Starting, Servers
<1>3. Answer' = Answer
  BY <1>1, <1>2 DEF Answer, ReadyHandler
<1> QED
  BY <1>1, <1>3 DEF AbstractProbe!Next, AbstractProbe!Configure, AbstractProbe!vars

\* The server of the probes is started and shut down.
LEMMA ServersRefine ==
  ASSUME LifeInv, StartServers \/ StartAdmin \/ Shutdown
  PROVE  [AbstractProbe!Next]_(AbstractProbe!vars)
<1>0. /\ Alive /\ Alive' /\ UNCHANGED <<ready, shutdown, loaded>>
      /\ server \in [Servers -> ServerStates] /\ "obs" \in Servers
  BY DEF StartServers, StartAdmin, Shutdown, Drained, StopListening, Proceed, Alive, LifeInv,
         ReleaseInv, LifeType, Servers
<1>1. CASE StartServers
  <2>1. server["obs"] = "off" /\ server'["obs"] = "starting"
    BY <1>0, <1>1 DEF StartServers, Proceed, LifeInv, ReleaseInv, Starting, Servers
  <2> QED
    BY <1>0, <2>1 DEF Answer, AbstractProbe!vars
<1>2. CASE StartAdmin \/ Drained("admin", TRUE, "stopAdmin", "stopObs")
           \/ StopListening("proxy", "stopProxy", "waitProxy")
           \/ Drained("proxy", ProxyIdle, "waitProxy", "close")
  <2>1. server'["obs"] = server["obs"]
    BY <1>0, <1>2 DEF StartAdmin, Drained, StopListening
  <2> QED
    BY <1>0, <2>1, Unseen DEF AbstractProbe!vars
<1>3. CASE Drained("obs", TRUE, "stopObs", "stopProxy")
  <2>1. server'["obs"] = "down"
    BY <1>0, <1>3 DEF Drained
  <2>2. Answer' = "gone"
    BY <1>0, <2>1 DEF Answer
  <2>3. Answer \in {"unreachable", "shutting_down", "not_ready", "ready", "gone"}
    BY DEF Answer, ReadyHandler
  <2> QED
    BY <1>0, <2>2, <2>3, Advances DEF AbstractProbe!Rank, AbstractProbe!vars
<1> QED
  BY <1>1, <1>2, <1>3 DEF Shutdown

LEMMA ExitRefines ==
  ASSUME LifeInv, Exit
  PROVE  [AbstractProbe!Next]_(AbstractProbe!vars)
<1>1. ~Alive' /\ loaded' = loaded
  BY DEF Exit, Proceed, Alive
<1>2. Answer' = "gone"
  BY <1>1 DEF Answer
<1>3. Answer \in {"unreachable", "shutting_down", "not_ready", "ready", "gone"}
  BY DEF Answer, ReadyHandler
<1> QED
  BY <1>1, <1>2, <1>3, Advances DEF AbstractProbe!Rank, AbstractProbe!vars

\* The other steps, which change neither flags nor the server of the probes.
Invisible ==
  \/ OpenStore \/ OpenFails \/ InjectBase \/ BootstrapFails \/ StartWatch \/ OnPolicyChange
  \/ AdminRefused \/ SelectError \/ Slept \/ Close
  \/ Signal \/ GraceEnds \/ Accept \/ Finish
  \/ ChangePage \/ ChangeBizs \/ (\E r \in Routines : Refresh(r)) \/ UNCHANGED vars

LEMMA InvisibleRefines ==
  ASSUME LifeInv, Invisible
  PROVE  [AbstractProbe!Next]_(AbstractProbe!vars)
<1>1. UNCHANGED <<ready, shutdown, loaded, server>> /\ Alive' = Alive
  BY DEF Invisible, OpenStore, OpenFails, InjectBase, BootstrapFails, StartWatch,
         OnPolicyChange, AdminRefused, SelectError, Slept, Close, Signal, GraceEnds, Accept,
         Finish, ChangePage, ChangeBizs, Refresh, vars, lifeVars, Proceed, Alive
<1> QED
  BY <1>1, Unseen DEF AbstractProbe!vars

LEMMA NextRefines ==
  LifeInv /\ LifeInv' /\ [Next]_vars => [AbstractProbe!Next]_(AbstractProbe!vars)
<1> SUFFICES ASSUME LifeInv, LifeInv', [Next]_vars
             PROVE  [AbstractProbe!Next]_(AbstractProbe!vars)
  OBVIOUS
<1>1. \/ Invisible \/ Exit \/ StartServers \/ StartAdmin \/ Shutdown
      \/ Bootstrap \/ (\E r \in Refreshers : Receive(r)) \/ SelectSignal \/ LoopTick
      \/ \E s \in Servers : Listen(s)
  BY DEF Next, MainStep, Invisible
<1> QED
  BY <1>1, InvisibleRefines, ExitRefines, ServersRefine, LoadRefines, FlagsRefine,
     ListenRefines

\* /ready implements Probe (health.go:53-83, main.go:137-143, 266, 318-332): whatever
\* signals, failures and late configurations come in whatever order, its answers go
\* forward only, and are never ready without a configuration.
THEOREM ProbeImplemented == Spec => ProbeRefined
<1>1. Init => AbstractProbe!Init
  BY DEF Init, AbstractProbe!Init, Answer, Alive, Servers
<1> QED
  BY <1>1, InitLife, NextLife, NextRefines, PTL DEF Spec, ProbeRefined, AbstractProbe!Spec
-----------------------------------------------------------------------------
\* ResolvePolicy folds the keys in their order.  One step of the fold:
ApplyNext(it, b, o, s) ==
  IF s = {} THEN b
  ELSE LET x == Max(s)
       IN  IF o[PolicyKeys[x]] = Absent THEN it[s \ {x}]
           ELSE Set(it[s \ {x}], PolicyKeys[x], o[PolicyKeys[x]])
FoldsKeys(it, b, o) == it = [s \in SUBSET DOMAIN PolicyKeys |-> ApplyNext(it, b, o, s)]

LEMMA ResolveIsFold ==
  ASSUME NEW b, NEW o
  PROVE  ResolvePolicy(b, o) = (CHOOSE it : FoldsKeys(it, b, o))[DOMAIN PolicyKeys]
BY DEF ResolvePolicy, FoldLeft, MapThenFoldSet, FoldsKeys, ApplyNext

\* The policy after the overrides of the keys at the places in s have been applied.
Overlay(b, o, s) ==
  [k \in Keys |-> IF o[k] \in Accepted[k] /\ \E i \in s : PolicyKeys[i] = k THEN o[k]
                  ELSE b[k]]

LEMMA KeysFacts ==
  /\ IsFiniteSet(DOMAIN PolicyKeys) /\ DOMAIN PolicyKeys \in SUBSET Nat
  /\ \A i \in DOMAIN PolicyKeys : PolicyKeys[i] \in Keys
  /\ \A k \in Keys : \E i \in DOMAIN PolicyKeys : PolicyKeys[i] = k
  /\ \A k \in Keys : Accepted[k] \subseteq Values /\ Absent \notin Accepted[k]
<1>1. PolicyKeys \in Seq(Keys)
  BY PolicyAssumption
<1>2. DOMAIN PolicyKeys = 1 .. Len(PolicyKeys) /\ Len(PolicyKeys) \in Nat
  BY <1>1
<1>3. IsFiniteSet(1 .. Len(PolicyKeys))
  BY <1>2, FS_Interval
<1>4. \A k \in Keys : \E i \in DOMAIN PolicyKeys : PolicyKeys[i] = k
  BY DEF Keys, Range
<1>5. \A i \in DOMAIN PolicyKeys : PolicyKeys[i] \in Keys
  BY DEF Keys, Range
<1>6. \A k \in Keys : Accepted[k] \subseteq Values /\ Absent \notin Accepted[k]
  BY PolicyAssumption
<1>7. IsFiniteSet(DOMAIN PolicyKeys) /\ DOMAIN PolicyKeys \in SUBSET Nat
  BY <1>2, <1>3
<1> QED
  BY <1>4, <1>5, <1>6, <1>7

\* A non-empty set of places has a last one.
LEMMA LastPlace ==
  ASSUME NEW s \in SUBSET DOMAIN PolicyKeys, s # {}
  PROVE  /\ Max(s) \in s
         /\ IsFiniteSet(s) /\ Cardinality(s) \in Nat
         /\ Cardinality(s \ {Max(s)}) = Cardinality(s) - 1
<1>1. IsFiniteSet(s) /\ s \in SUBSET Int
  BY KeysFacts, FS_Subset
<1>2. PICK m \in s : \A y \in s : m >= y
  <2> DEFINE n == Len(PolicyKeys)
             T == {n - y : y \in s}
  <2>1. n \in Nat /\ \A y \in s : y \in 1 .. n
    BY PolicyAssumption
  <2>2. T \in SUBSET Nat /\ T # {}
    BY <2>1
  <2>3. PICK t \in T : \A u \in T : t <= u
    <3> HIDE DEF T
    <3> QED BY <2>2, LeastMember
  <2>4. PICK m \in s : t = n - m
    OBVIOUS
  <2>5. \A y \in s : n - m <= n - y
    BY <2>3, <2>4
  <2> HIDE DEF n, T
  <2>6. \A y \in s : m >= y
    BY <2>1, <2>5
  <2> QED
    BY <2>6
<1>3. Max(s) \in s
  BY <1>2 DEF Max
<1> QED
  BY <1>1, <1>3, FS_RemoveElement, FS_CardinalityType

\* Applying the override at one more place.
LEMMA OverlayNext ==
  ASSUME NEW b \in Policies, NEW o \in Overrides,
         NEW s \in SUBSET DOMAIN PolicyKeys, NEW x \in s
  PROVE  Overlay(b, o, s) =
           IF o[PolicyKeys[x]] = Absent THEN Overlay(b, o, s \ {x})
           ELSE Set(Overlay(b, o, s \ {x}), PolicyKeys[x], o[PolicyKeys[x]])
<1> DEFINE c == PolicyKeys[x]
           r == s \ {x}
<1>1. c \in Keys /\ Absent \notin Accepted[c]
  BY KeysFacts
<1>2. ASSUME NEW k \in Keys, k # c
      PROVE  (\E i \in s : PolicyKeys[i] = k) <=> \E i \in r : PolicyKeys[i] = k
  BY <1>2
<1>3. \A k \in Keys : k # c => Overlay(b, o, s)[k] = Overlay(b, o, r)[k]
  BY <1>2 DEF Overlay
<1>4. CASE o[c] \notin Accepted[c]
  <2>1. Overlay(b, o, s)[c] = b[c] /\ Overlay(b, o, r)[c] = b[c]
    BY <1>1, <1>4 DEF Overlay
  <2>2. Overlay(b, o, s) = Overlay(b, o, r)
    <3>1. \A k \in Keys : Overlay(b, o, s)[k] = Overlay(b, o, r)[k]
      BY <1>3, <2>1
    <3>2. /\ Overlay(b, o, s) = [k \in Keys |-> Overlay(b, o, s)[k]]
          /\ Overlay(b, o, r) = [k \in Keys |-> Overlay(b, o, r)[k]]
      BY DEF Overlay
    <3> QED
      BY <3>1, <3>2
  <2> QED
    BY <1>4, <2>2 DEF Set, InBounds
<1>5. CASE o[c] \in Accepted[c]
  <2>1. o[c] # Absent
    BY <1>1, <1>5
  <2>2. Overlay(b, o, s)[c] = o[c]
    BY <1>1, <1>5 DEF Overlay
  <2>3. Overlay(b, o, s) = [Overlay(b, o, r) EXCEPT ![c] = o[c]]
    <3> DEFINE P == Overlay(b, o, s)
               Q == Overlay(b, o, r)
    <3>1. P = [k \in Keys |-> P[k]] /\ Q = [k \in Keys |-> Q[k]]
      BY DEF Overlay
    <3>2. \A k \in Keys : k # c => P[k] = Q[k]
      BY <1>3
    <3>3. P[c] = o[c]
      BY <2>2
    <3> HIDE DEF P, Q, c, r
    <3>4. P = [Q EXCEPT ![c] = o[c]]
      BY <1>1, <3>1, <3>2, <3>3
    <3> QED
      BY <3>4 DEF P, Q
  <2> QED
    BY <1>5, <2>1, <2>3 DEF Set, InBounds
<1> QED
  BY <1>4, <1>5

\* So the fold is Overlay: Overlay satisfies the equation of the fold ...
LEMMA OverlayFolds ==
  ASSUME NEW b \in Policies, NEW o \in Overrides
  PROVE  FoldsKeys([s \in SUBSET DOMAIN PolicyKeys |-> Overlay(b, o, s)], b, o)
<1> DEFINE it == [s \in SUBSET DOMAIN PolicyKeys |-> Overlay(b, o, s)]
<1>1. ASSUME NEW s \in SUBSET DOMAIN PolicyKeys
      PROVE  it[s] = ApplyNext(it, b, o, s)
  <2>1. CASE s = {}
    <3>1. Overlay(b, o, {}) = b
      BY DEF Overlay, Policies
    <3> QED
      BY <2>1, <3>1 DEF ApplyNext
  <2>2. CASE s # {}
    <3> DEFINE x == Max(s)
    <3>1. x \in s /\ s \ {x} \in SUBSET DOMAIN PolicyKeys
      BY <2>2, LastPlace
    <3>2. it[s] = Overlay(b, o, s) /\ it[s \ {x}] = Overlay(b, o, s \ {x})
      BY <3>1
    <3> HIDE DEF it
    <3>3. ApplyNext(it, b, o, s) =
            IF o[PolicyKeys[x]] = Absent THEN it[s \ {x}]
            ELSE Set(it[s \ {x}], PolicyKeys[x], o[PolicyKeys[x]])
      BY <2>2 DEF ApplyNext
    <3> HIDE DEF x
    <3> QED
      BY <3>1, <3>2, <3>3, OverlayNext
  <2> QED
    BY <2>1, <2>2
<1>2. it = [s \in SUBSET DOMAIN PolicyKeys |-> ApplyNext(it, b, o, s)]
  <2>1. it = [s \in SUBSET DOMAIN PolicyKeys |-> it[s]]
    OBVIOUS
  <2> HIDE DEF it
  <2> QED
    BY <1>1, <2>1
<1> QED
  BY <1>2 DEF FoldsKeys

\* ... and nothing else does.
LEMMA FoldsAlike ==
  ASSUME NEW b \in Policies, NEW o \in Overrides,
         NEW it, FoldsKeys(it, b, o), NEW jt, FoldsKeys(jt, b, o)
  PROVE  it[DOMAIN PolicyKeys] = jt[DOMAIN PolicyKeys]
<1> DEFINE C == {s \in SUBSET DOMAIN PolicyKeys : it[s] # jt[s]}
<1> SUFFICES ASSUME C # {} PROVE FALSE
  OBVIOUS
<1>1. \A s \in C : IsFiniteSet(s)
  BY KeysFacts, FS_Subset
<1>2. PICK s \in C : \A t \in C : Cardinality(s) <= Cardinality(t)
  <2> HIDE DEF C
  <2> QED BY <1>1, SmallestSet
<1>3. s \in SUBSET DOMAIN PolicyKeys /\ it[s] # jt[s]
  OBVIOUS
<1>4. it[s] = ApplyNext(it, b, o, s) /\ jt[s] = ApplyNext(jt, b, o, s)
  <2>1. it = [r \in SUBSET DOMAIN PolicyKeys |-> ApplyNext(it, b, o, r)]
    BY DEF FoldsKeys
  <2>2. jt = [r \in SUBSET DOMAIN PolicyKeys |-> ApplyNext(jt, b, o, r)]
    BY DEF FoldsKeys
  <2> QED
    BY <1>3, <2>1, <2>2
<1>5. s # {}
  BY <1>3, <1>4 DEF ApplyNext
<1> DEFINE r == s \ {Max(s)}
<1>6. r \in SUBSET DOMAIN PolicyKeys /\ ~(Cardinality(s) <= Cardinality(r))
  <2>1. Cardinality(s) \in Nat /\ Cardinality(r) = Cardinality(s) - 1
    BY <1>3, <1>5, LastPlace
  <2> HIDE DEF r
  <2>2. ~(Cardinality(s) <= Cardinality(r))
    BY <2>1
  <2> QED
    BY <1>3, <2>2 DEF r
<1>7. it[r] = jt[r]
  BY <1>2, <1>6
<1> QED
  BY <1>3, <1>4, <1>5, <1>7 DEF ApplyNext

\* ResolvePolicy takes each key for itself: its override where that is within bounds,
\* the base elsewhere (policy_spec.go).
LEMMA ResolveComputes ==
  ASSUME NEW b \in Policies, NEW o \in Overrides
  PROVE  /\ ResolvePolicy(b, o) = [k \in Keys |-> IF o[k] \in Accepted[k] THEN o[k] ELSE b[k]]
         /\ ResolvePolicy(b, o) \in Policies
<1> DEFINE it == [s \in SUBSET DOMAIN PolicyKeys |-> Overlay(b, o, s)]
           jt == CHOOSE f : FoldsKeys(f, b, o)
<1>1. FoldsKeys(it, b, o) /\ FoldsKeys(jt, b, o)
  <2>1. FoldsKeys(it, b, o)
    BY OverlayFolds
  <2> HIDE DEF it
  <2> QED
    BY <2>1
<1>2. it[DOMAIN PolicyKeys] = Overlay(b, o, DOMAIN PolicyKeys)
  OBVIOUS
<1> HIDE DEF it
<1>3. jt[DOMAIN PolicyKeys] = it[DOMAIN PolicyKeys]
  <2> HIDE DEF jt
  <2> QED BY <1>1, FoldsAlike
<1>4. ResolvePolicy(b, o) = Overlay(b, o, DOMAIN PolicyKeys)
  BY <1>2, <1>3, ResolveIsFold
<1>5. Overlay(b, o, DOMAIN PolicyKeys) =
        [k \in Keys |-> IF o[k] \in Accepted[k] THEN o[k] ELSE b[k]]
  BY KeysFacts DEF Overlay
<1>6. ASSUME NEW k \in Keys PROVE (IF o[k] \in Accepted[k] THEN o[k] ELSE b[k]) \in Values
  BY KeysFacts DEF Policies
<1>7. [k \in Keys |-> IF o[k] \in Accepted[k] THEN o[k] ELSE b[k]] \in Policies
  BY <1>6 DEF Policies
<1> QED
  BY <1>4, <1>5, <1>7
-----------------------------------------------------------------------------
LEMMA BaseTypes ==
  /\ Default \in Policies /\ PolicyFromEnv \in Policies /\ NoOverrides \in Overrides
  /\ "instances" \in Keys /\ "log_level" \in Keys /\ Values \subseteq Int
  /\ \A o \in Overrides : Resolved(o) = ResolvePolicy(PolicyFromEnv, o)
<1>1. /\ Default \in Policies /\ "instances" \in Keys /\ "log_level" \in Keys
      /\ Values \subseteq Int
  BY PolicyAssumption
<1>2. PolicyFromEnv \in Policies
  <2>1. \A k \in Keys : Parsable[k] \subseteq Values
    BY PolicyAssumption
  <2>2. \A k \in Keys : FromEnv(k) \in Values
    BY <1>1, <2>1 DEF FromEnv, Policies
  <2> QED
    BY <2>2 DEF PolicyFromEnv, Policies
<1>3. NoOverrides \in Overrides
  BY DEF NoOverrides, Overrides
<1>4. ASSUME NEW o \in Overrides PROVE Resolved(o) = ResolvePolicy(PolicyFromEnv, o)
  <2>1. ResolvePolicy(PolicyFromEnv, o) =
          [k \in Keys |-> IF o[k] \in Accepted[k] THEN o[k] ELSE PolicyFromEnv[k]]
    BY <1>2, ResolveComputes
  <2>2. \A k \in Keys : PolicyFromEnv[k] = FromEnv(k)
    BY DEF PolicyFromEnv
  <2> QED
    BY <2>1, <2>2 DEF Resolved, FromEnv
<1> QED
  BY <1>1, <1>2, <1>3, <1>4

\* What the consumers make of a policy.
LEMMA ConsumerTypes ==
  ASSUME NEW p \in Policies
  PROVE  /\ Restriction(p) \in [OptKeys -> Values]
         /\ ParseLevel(p["log_level"]) \in Values
         /\ \A n \in Nat \ {0} : AtLeastOne(p["instances"], n) \in Nat \ {0}
<1>1. Restriction(p) \in [OptKeys -> Values]
  BY DEF Restriction, OptKeys, Policies
<1>2. ParseLevel(p["log_level"]) \in Values
  BY BaseTypes DEF ParseLevel, Policies
<1>3. p["instances"] \in Int
  BY BaseTypes DEF Policies
<1> QED
  BY <1>1, <1>2, <1>3 DEF AtLeastOne

\* The flags of the process, one by one.
FlagsType ==
  /\ ctx \in BOOLEAN /\ ready \in BOOLEAN /\ shutdown \in BOOLEAN /\ loaded \in BOOLEAN
  /\ bizs \in BOOLEAN /\ published \in BOOLEAN /\ loop \in BOOLEAN /\ marked \in BOOLEAN /\ errCh \in BOOLEAN
  /\ grace \in BOOLEAN /\ closed \in BOOLEAN /\ lost \in BOOLEAN

InFlightType == inFlight \in 0 .. MaxInFlight

LEMMA InitTypes == Init => PolicyTypeOK /\ FlagsType /\ InFlightType
<1> SUFFICES ASSUME Init PROVE PolicyTypeOK /\ FlagsType /\ InFlightType
  OBVIOUS
<1>1. FlagsType
  BY DEF Init, FlagsType
<1>2. InFlightType
  BY ProcessAssumption DEF Init, InFlightType
<1>3. /\ base \in Policies /\ eff \in Policies /\ overrides \in Overrides
      /\ page \in Overrides /\ listening \in BOOLEAN /\ overlapped \in BOOLEAN
  BY BaseTypes, PolicyAssumption DEF Init, PolicyInit
<1>4. opt \in [OptKeys -> Values] /\ instances \in Nat \ {0} /\ level \in Values
  BY BaseTypes, ConsumerTypes DEF Init, PolicyInit
<1>5. /\ step \in [Routines -> PolicySteps] /\ want \in [Routines -> Policies]
      /\ fetched \in [Routines -> Overrides] /\ writes \in 0 .. MaxWrites
  BY BaseTypes, PolicyAssumption DEF Init, PolicyInit, PolicySteps
<1> QED
  BY <1>1, <1>2, <1>3, <1>4, <1>5 DEF PolicyTypeOK

\* A goroutine is done.
LEMMA DoneTypes ==
  ASSUME PolicyTypeOK, NEW r \in Routines, Done(r)
  PROVE  /\ step' \in [Routines -> PolicySteps] /\ want' \in [Routines -> Policies]
         /\ fetched' \in [Routines -> Overrides]
BY BaseTypes DEF PolicyTypeOK, Done, Goto, PolicySteps

LEMMA PageTypes ==
  ASSUME PolicyTypeOK, ChangePage
  PROVE  PolicyTypeOK'
<1>1. PICK o \in Pages : PutPolicy(o) \/ ForeignRow(o)
  BY DEF ChangePage
<1>2. page' \in Overrides /\ writes' \in 0 .. MaxWrites
  BY <1>1, PolicyAssumption DEF PutPolicy, ForeignRow, PolicyTypeOK
<1>3. UNCHANGED <<policyState, consumers, routines>>
  BY <1>1 DEF PutPolicy, ForeignRow
<1> QED
  BY <1>2, <1>3 DEF PolicyTypeOK, policyState, consumers, routines

\* The steps of a refresh keep the types.
LEMMA RefreshTypes ==
  ASSUME PolicyTypeOK, NEW r \in Routines, RefreshStep(r)
  PROVE  PolicyTypeOK'
<1>1. CASE Resolve(r)
  <2>1. ResolvePolicy(base, fetched[r]) \in Policies
    BY ResolveComputes DEF PolicyTypeOK
  <2> QED
    BY <1>1, <2>1 DEF PolicyTypeOK, Resolve, Goto, PolicySteps, consumers
<1>2. CASE Unchanged(r)
  BY <1>2, DoneTypes DEF PolicyTypeOK, Unchanged, policyState, consumers
<1>3. CASE Changed(r)
  BY <1>3 DEF PolicyTypeOK, Changed, Goto, PolicySteps, policyState, consumers
<1>4. CASE StoreEff(r)
  BY <1>4 DEF PolicyTypeOK, StoreEff, Goto, PolicySteps, consumers
<1>5. CASE CopyListeners(r)
  <2>1. /\ step' \in [Routines -> PolicySteps] /\ want' \in [Routines -> Policies]
        /\ fetched' \in [Routines -> Overrides]
    <3>1. CASE listening
      BY <1>5, <3>1 DEF PolicyTypeOK, CopyListeners, Goto, PolicySteps
    <3>2. CASE ~listening
      BY <1>5, <3>2, DoneTypes DEF CopyListeners
    <3> QED
      BY <3>1, <3>2
  <2> QED
    BY <1>5, <2>1 DEF PolicyTypeOK, CopyListeners, policyState, consumers
<1>6. CASE LoadEff(r)
  BY <1>6 DEF PolicyTypeOK, LoadEff, Goto, PolicySteps, policyState, consumers
<1>7. CASE ApplyPolicy(r)
  <2>1. Restriction(want[r]) \in [OptKeys -> Values]
    BY ConsumerTypes DEF PolicyTypeOK
  <2> QED
    BY <1>7, <2>1 DEF PolicyTypeOK, ApplyPolicy, Goto, PolicySteps, policyState
<1>8. CASE SetInstances(r)
  <2>1. InstancesAfter(want[r]["instances"], instances) \in Nat \ {0}
    BY ConsumerTypes DEF PolicyTypeOK, InstancesAfter
  <2> QED
    BY <1>8, <2>1 DEF PolicyTypeOK, SetInstances, Goto, PolicySteps, policyState
<1>9. CASE SetLevel(r)
  <2>1. LevelOf(want[r]) \in Values
    BY ConsumerTypes DEF PolicyTypeOK, LevelOf
  <2> QED
    BY <1>9, <2>1, DoneTypes DEF PolicyTypeOK, SetLevel, policyState
<1> QED
  BY <1>1, <1>2, <1>3, <1>4, <1>5, <1>6, <1>7, <1>8, <1>9 DEF RefreshStep

\* A refresh begins, and main's three steps of the policy.
LEMMA BeginTypes ==
  ASSUME PolicyTypeOK,
         SetPolicyBase \/ BootPolicy \/ Register \/ \E r \in Refreshers : Fetch(r)
  PROVE  PolicyTypeOK'
<1>1. CASE SetPolicyBase
  <2>1. ResolvePolicy(PolicyFromEnv, overrides) \in Policies
    BY BaseTypes, ResolveComputes DEF PolicyTypeOK
  <2> QED
    BY <1>1, <2>1, BaseTypes DEF PolicyTypeOK, SetPolicyBase, consumers, routines
<1>2. CASE BootPolicy
  <2>1. ResolvePolicy(base, page) \in Policies
    BY ResolveComputes DEF PolicyTypeOK
  <2> QED
    BY <1>2, <2>1 DEF PolicyTypeOK, BootPolicy, consumers
<1>3. CASE Register
  <2>1. step' \in [Routines -> PolicySteps]
    BY <1>3 DEF PolicyTypeOK, Register, Goto, PolicySteps
  <2>2. overlapped' \in BOOLEAN /\ listening' \in BOOLEAN
    BY <1>3 DEF Register
  <2> QED
    BY <1>3, <2>1, <2>2 DEF PolicyTypeOK, Register, consumers
<1>4. ASSUME NEW r \in Refreshers, Fetch(r) PROVE PolicyTypeOK'
  <2>1. step' \in [Routines -> PolicySteps] /\ fetched' \in [Routines -> Overrides]
    BY <1>4 DEF PolicyTypeOK, Fetch, Goto, PolicySteps
  <2>2. overlapped' \in BOOLEAN
    BY <1>4 DEF Fetch
  <2> QED
    BY <1>4, <2>1, <2>2 DEF PolicyTypeOK, Fetch, policyState, consumers
<1> QED
  BY <1>1, <1>2, <1>3, <1>4

\* Every step either leaves the policy alone or is one of these.
LEMMA PolicySplit ==
  ASSUME [Next]_vars
  PROVE  \/ UNCHANGED policyVars
         \/ SetPolicyBase \/ BootPolicy \/ Register \/ (\E r \in Refreshers : Fetch(r))
         \/ (\E r \in Routines : RefreshStep(r)) \/ ChangePage
<1>1. CASE MainStep
  BY <1>1 DEF MainStep, OpenStore, OpenFails, InjectBase, Bootstrap, BootstrapFails, StartWatch,
     OnPolicyChange, StartServers, StartAdmin, AdminRefused, SelectError, SelectSignal, Slept,
     Shutdown, Drained, StopListening, Close, Exit
<1>2. CASE Signal \/ GraceEnds \/ LoopTick \/ ChangeBizs \/ Accept \/ Finish
           \/ (\E s \in Servers : Listen(s)) \/ UNCHANGED vars
  BY <1>2 DEF Signal, GraceEnds, LoopTick, ChangeBizs, Accept, Finish, Listen, vars
<1>3. CASE \E r \in Refreshers : Receive(r)
  BY <1>3 DEF Receive
<1>4. CASE \E r \in Routines : Refresh(r)
  BY <1>4 DEF Refresh
<1> QED
  BY <1>1, <1>2, <1>3, <1>4 DEF Next

LEMMA NextTypes == PolicyTypeOK /\ [Next]_vars => PolicyTypeOK'
<1> SUFFICES ASSUME PolicyTypeOK, [Next]_vars PROVE PolicyTypeOK'
  OBVIOUS
<1>1. CASE UNCHANGED policyVars
  BY <1>1 DEF PolicyTypeOK, policyVars, policyState, consumers, routines
<1> QED
  BY <1>1, PolicySplit, BeginTypes, RefreshTypes, PageTypes

LEMMA NextFlags == FlagsType /\ [Next]_vars => FlagsType'
<1> SUFFICES ASSUME FlagsType, [Next]_vars PROVE FlagsType'
  OBVIOUS
<1>1. CASE UNCHANGED lifeVars
  BY <1>1 DEF FlagsType, lifeVars
<1>2. CASE MainStep
  <2>1. CASE OpenStore \/ OpenFails \/ InjectBase \/ BootstrapFails \/ OnPolicyChange
             \/ StartServers \/ StartAdmin \/ AdminRefused \/ SelectError \/ Slept \/ Exit
    BY <2>1 DEF FlagsType, OpenStore, OpenFails, InjectBase, BootstrapFails, OnPolicyChange,
       StartServers, StartAdmin, AdminRefused, SelectError, Slept, Exit
  <2>2. CASE Bootstrap \/ StartWatch
    BY <2>2 DEF FlagsType, Bootstrap, StartWatch
  <2>3. CASE SelectSignal \/ Close
    BY <2>3 DEF FlagsType, SelectSignal, Close
  <2>4. CASE Shutdown
    <3>1. UNCHANGED <<ctx, ready, shutdown, loaded, bizs, published, loop, marked, errCh, grace, closed,
                      lost>>
      BY <2>4 DEF Shutdown, Drained, StopListening
    <3> QED
      BY <3>1 DEF FlagsType
  <2> QED
    BY <1>2, <2>1, <2>2, <2>3, <2>4 DEF MainStep
<1>3. CASE Signal \/ GraceEnds \/ LoopTick \/ ChangeBizs \/ Accept \/ Finish
  <2>1. CASE Finish
    <3>1. lost' \in BOOLEAN
      BY <2>1 DEF Finish
    <3> QED
      BY <2>1, <3>1 DEF FlagsType, Finish
  <2>2. CASE Signal
    BY <2>2 DEF FlagsType, Signal
  <2>3. CASE GraceEnds
    BY <2>3 DEF FlagsType, GraceEnds
  <2>4. CASE LoopTick
    BY <2>4 DEF FlagsType, LoopTick
  <2>5. CASE Accept
    BY <2>5 DEF FlagsType, Accept
  <2>6. CASE ChangeBizs
    <3>1. published' \in BOOLEAN
      BY <2>6 DEF ChangeBizs, FlagsType
    <3> QED
      BY <2>6, <3>1 DEF FlagsType, ChangeBizs
  <2> QED
    BY <1>3, <2>1, <2>2, <2>3, <2>4, <2>5, <2>6
<1>4. CASE \E s \in Servers : Listen(s)
  BY <1>4 DEF FlagsType, Listen
<1>5. CASE \E r \in Refreshers : Receive(r)
  BY <1>5 DEF FlagsType, Receive
<1>6. CASE ChangePage \/ (\E r \in Routines : Refresh(r)) \/ UNCHANGED vars
  BY <1>1, <1>6 DEF ChangePage, Refresh, vars
<1> QED
  BY <1>2, <1>3, <1>4, <1>5, <1>6 DEF Next

LEMMA NextInFlight == InFlightType /\ [Next]_vars => InFlightType'
<1> SUFFICES ASSUME InFlightType, [Next]_vars PROVE InFlightType'
  OBVIOUS
<1>1. CASE Accept \/ Finish
  BY <1>1, ProcessAssumption DEF Accept, Finish, InFlightType
<1>2. CASE UNCHANGED inFlight
  BY <1>2 DEF InFlightType
<1>3. Accept \/ Finish \/ UNCHANGED inFlight
  BY DEF Next, MainStep, OpenStore, OpenFails, InjectBase, Bootstrap, BootstrapFails, StartWatch,
     OnPolicyChange, StartServers, StartAdmin, AdminRefused, SelectError, SelectSignal, Slept,
     Shutdown, Drained, StopListening, Close, Exit, Signal, GraceEnds, LoopTick, Listen, Receive,
     Refresh, ChangePage, ChangeBizs, lifeVars, vars
<1> QED
  BY <1>1, <1>2, <1>3

\* The types are right, whatever the pages hold: what ResolvePolicy makes of them is a
\* policy, and the number of instances that the limiter divides by is positive.
THEOREM TypeCorrect == Spec => []TypeOK
<1>1. LifeInv /\ PolicyTypeOK /\ FlagsType /\ InFlightType => TypeOK
  BY DEF LifeInv, ReleaseInv, LifeType, ServerStates, FlagsType, InFlightType, TypeOK
<1> QED
  BY <1>1, InitLife, NextLife, InitTypes, NextTypes, NextFlags, NextInFlight, PTL DEF Spec
-----------------------------------------------------------------------------
\* Where refreshes may run, and what main has done for them by then: nobody refreshes
\* before the state loop is started, and by then the base has been injected.
Order ==
  /\ main \in {"open", "base", "boot", "watch"} => ~loop
  /\ main = "register" => loop
  /\ ~loop => Quiet /\ ~listening
  /\ loop \/ main \in {"boot", "watch"} => base = PolicyFromEnv
  /\ main \in {"boot", "watch"} => eff = Resolved(overrides)
  /\ main = "register" => ~listening
  /\ ~listening => step[Main] = "idle"

\* As long as no two refreshes overlap there is one at most.
Alone ==
  \A r, q \in Routines : step[r] # "idle" /\ step[q] # "idle" => r = q

Bringing == {"compare", "store", "copy", "apply", "instances", "level"}
Calling == {"store", "copy", "load", "apply", "instances", "level"}

\* What a refresh that is alone has done and what it has left to do: the policy it
\* brings is that of the overrides there are, it is in eff but for two steps, and the
\* consumers have it but for the steps in which it is handed to them.
Progress ==
  /\ \A r \in Routines : step[r] \in Bringing => want[r] = Resolved(overrides)
  /\ (\A r \in Routines : step[r] \notin {"compare", "store"}) => eff = Resolved(overrides)
  /\ listening /\ (\A r \in Routines : step[r] \notin Calling) => InForce(eff)
  /\ \A r \in Routines :
       /\ step[r] \in {"instances", "level"} => opt = Restriction(eff)
       /\ step[r] = "level" /\ eff["instances"] > 0 => instances = eff["instances"]

PolicyInv == Order /\ (~overlapped => Alone /\ (loop => Progress))
\* The same of a goroutine r that nobody else is beside.
Lone(r) == \A q \in Routines : q # r => step[q] = "idle"
ProgressOf(r) ==
  /\ step[r] \in Bringing => want[r] = Resolved(overrides)
  /\ step[r] \notin {"compare", "store"} => eff = Resolved(overrides)
  /\ listening /\ step[r] \notin Calling => InForce(eff)
  /\ step[r] \in {"instances", "level"} => opt = Restriction(eff)
  /\ step[r] = "level" /\ eff["instances"] > 0 => instances = eff["instances"]

LEMMA LoneProgress ==
  \A r \in Routines : Lone(r) => (Progress <=> ProgressOf(r))
<1> SUFFICES ASSUME NEW r \in Routines, Lone(r) PROVE Progress <=> ProgressOf(r)
  OBVIOUS
<1>1. \A q \in Routines : q # r => step[q] \notin Bringing \cup Calling
  BY DEF Lone, Bringing, Calling
<1>2. /\ (\A q \in Routines : step[q] \notin {"compare", "store"})
           <=> step[r] \notin {"compare", "store"}
      /\ (\A q \in Routines : step[q] \notin Calling) <=> step[r] \notin Calling
  BY <1>1 DEF Bringing
<1>3. (\A q \in Routines : step[q] \in Bringing => want[q] = Resolved(overrides))
        <=> (step[r] \in Bringing => want[r] = Resolved(overrides))
  BY <1>1
<1>4. (\A q \in Routines :
         /\ step[q] \in {"instances", "level"} => opt = Restriction(eff)
         /\ step[q] = "level" /\ eff["instances"] > 0 => instances = eff["instances"])
        <=> (/\ step[r] \in {"instances", "level"} => opt = Restriction(eff)
             /\ step[r] = "level" /\ eff["instances"] > 0 => instances = eff["instances"])
  BY <1>1 DEF Bringing
<1> QED
  BY <1>2, <1>3, <1>4 DEF Progress, ProgressOf

LEMMA LoneProgressNext ==
  (\A r \in Routines : Lone(r) => (Progress <=> ProgressOf(r)))'
BY LoneProgress, PTL

LEMMA MainRoutine == Main \in Routines /\ Main \notin Refreshers
BY PolicyAssumption DEF Routines

\* Nobody refreshes.
LEMMA QuietProgress ==
  ASSUME Quiet, NEW r \in Routines
  PROVE  /\ Alone /\ Lone(r)
         /\ Progress <=> /\ eff = Resolved(overrides)
                         /\ listening => InForce(eff)
<1>1. Alone /\ Lone(r) /\ step[r] = "idle"
  BY DEF Quiet, Alone, Lone
<1>2. Progress <=> ProgressOf(r)
  BY <1>1, LoneProgress
<1> QED
  BY <1>1, <1>2 DEF ProgressOf, Bringing, Calling

LEMMA InitPolicy == Init => PolicyInv
<1> SUFFICES ASSUME Init PROVE PolicyInv
  OBVIOUS
<1>1. main = "open" /\ ~loop /\ ~listening /\ step = [r \in Routines |-> "idle"]
  BY DEF Init, PolicyInit
<1>2. Quiet /\ step[Main] = "idle"
  BY <1>1, MainRoutine DEF Quiet
<1>3. Alone
  BY <1>2, QuietProgress, MainRoutine
<1> QED
  BY <1>1, <1>2, <1>3 DEF PolicyInv, Order

\* Steps that leave the policy alone and do not start the state loop.
LEMMA LifeKeepsPolicy ==
  ASSUME PolicyInv, UNCHANGED <<base, eff, overrides, listening, consumers, routines>>,
         loop' = loop,
         main' \in {"open", "base"} => main \in {"open", "base"},
         main' \in {"boot", "watch"} => main \in {"boot", "watch"},
         main' = "register" => main = "register"
  PROVE  PolicyInv'
<1>1. UNCHANGED <<opt, instances, level, step, want, overlapped>>
  BY DEF consumers, routines
<1>2. Quiet' <=> Quiet
  BY <1>1 DEF Quiet
<1>3. InForce(eff)' <=> InForce(eff)
  BY <1>1 DEF InForce
<1>4. Order'
  BY <1>1, <1>2 DEF PolicyInv, Order
<1>5. Alone' <=> Alone
  BY <1>1 DEF Alone
<1>6. Progress' <=> Progress
  BY <1>1, <1>3 DEF Progress
<1> QED
  BY <1>1, <1>4, <1>5, <1>6 DEF PolicyInv

\* The state loop is started; from here on refreshes may run.
LEMMA WatchPolicy ==
  ASSUME PolicyInv, StartWatch
  PROVE  PolicyInv'
<1>1. /\ main = "watch" /\ main' = "register" /\ loop' = TRUE
      /\ UNCHANGED <<base, eff, overrides, listening, opt, instances, level, step, want,
                     overlapped>>
  BY DEF StartWatch, Proceed, policyVars, policyState, consumers, routines
<1>2. Quiet /\ ~listening /\ eff = Resolved(overrides) /\ base = PolicyFromEnv
  BY <1>1 DEF PolicyInv, Order
<1>3. Alone /\ Progress /\ step[Main] = "idle"
  BY <1>2, QuietProgress, MainRoutine DEF Quiet
<1>4. InForce(eff)' <=> InForce(eff)
  BY <1>1 DEF InForce
<1>5. Alone' /\ Progress'
  BY <1>1, <1>3, <1>4 DEF Alone, Progress
<1>6. Order'
  BY <1>1, <1>2, <1>3 DEF Order
<1> QED
  BY <1>5, <1>6 DEF PolicyInv

\* main's two steps before it, which nothing runs beside.
LEMMA BootPolicySteps ==
  ASSUME PolicyInv, PolicyTypeOK, InjectBase \/ Bootstrap
  PROVE  PolicyInv'
<1>1. main \in {"base", "boot"} /\ main' \in {"boot", "watch"} /\ loop' = loop
  BY DEF InjectBase, Bootstrap, Proceed
<1>2. ~loop /\ Quiet /\ ~listening
  BY <1>1 DEF PolicyInv, Order
<1>3. UNCHANGED <<listening, step, overlapped>>
  BY DEF InjectBase, Bootstrap, SetPolicyBase, BootPolicy, routines
<1>4. base' = PolicyFromEnv /\ eff' = Resolved(overrides')
  <2>1. CASE InjectBase
    BY <2>1, BaseTypes DEF InjectBase, SetPolicyBase, PolicyTypeOK
  <2>2. CASE Bootstrap
    <3>1. base = PolicyFromEnv
      BY <2>2 DEF PolicyInv, Order, Bootstrap, Proceed
    <3> QED
      BY <2>2, <3>1, BaseTypes DEF Bootstrap, BootPolicy, PolicyTypeOK
  <2> QED
    BY <2>1, <2>2
<1>5. Quiet' /\ step'[Main] = "idle"
  BY <1>2, <1>3, MainRoutine DEF Quiet
<1>6. Order'
  BY <1>1, <1>2, <1>3, <1>4, <1>5 DEF Order
<1>7. Alone'
  BY <1>5 DEF Quiet, Alone
<1> QED
  BY <1>1, <1>2, <1>6, <1>7 DEF PolicyInv

\* A refresh begins, or the listener is registered: alone, or the two overlap.
LEMMA BeginPolicy ==
  ASSUME PolicyInv, PolicyTypeOK, NEW r \in Routines, step[r] = "idle", loop, loop' = loop,
         \/ (step' = [step EXCEPT ![r] = "resolve"] /\ listening' = listening /\ r # Main)
         \/ (step' = [step EXCEPT ![r] = "load"] /\ listening' = TRUE /\ r = Main),
         overlapped' = (overlapped \/ ~Quiet),
         UNCHANGED <<base, eff, overrides, opt, instances, level, want>>,
         main' \notin {"open", "base", "boot", "watch", "register"} \/ (main' = main /\ r # Main)
  PROVE  PolicyInv'
<1>1. step \in [Routines -> PolicySteps] /\ Main \in Routines
  BY MainRoutine DEF PolicyTypeOK
<1>2. Order'
  <2>1. main \notin {"open", "base", "boot", "watch"} /\ base = PolicyFromEnv
    BY DEF PolicyInv, Order
  <2>2. ~listening' => step'[Main] = "idle"
    BY <1>1 DEF PolicyInv, Order
  <2>3. main' = "register" => ~listening'
    BY DEF PolicyInv, Order
  <2> QED
    BY <2>1, <2>2, <2>3 DEF Order
<1>3. ASSUME ~overlapped' PROVE Alone' /\ Progress'
  <2>1. Quiet /\ ~overlapped /\ Progress
    BY <1>3 DEF PolicyInv
  <2>2. Lone(r)' /\ Alone' /\ step'[r] \in {"resolve", "load"}
    BY <1>1, <2>1 DEF Quiet, Lone, Alone
  <2>3. eff = Resolved(overrides) /\ (listening => InForce(eff))
    BY <2>1, QuietProgress
  <2>4. InForce(eff)' <=> InForce(eff)
    BY DEF InForce
  <2>5. step'[r] = "resolve" => listening' = listening
    BY <1>1
  <2>6. ProgressOf(r)'
    BY <2>2, <2>3, <2>4, <2>5 DEF ProgressOf, Bringing, Calling
  <2> QED
    BY <2>2, <2>6, LoneProgressNext
<1> QED
  BY <1>2, <1>3 DEF PolicyInv

LEMMA ReceivePolicy ==
  ASSUME PolicyInv, PolicyTypeOK, NEW r \in Refreshers, Receive(r)
  PROVE  PolicyInv'
<1>1. r \in Routines /\ r # Main
  BY MainRoutine DEF Routines
<1>2. /\ step[r] = "idle" /\ loop /\ loop' = loop /\ main' = main
      /\ step' = [step EXCEPT ![r] = "resolve"] /\ overlapped' = (overlapped \/ ~Quiet)
      /\ UNCHANGED <<base, eff, overrides, opt, instances, level, want>>
  BY DEF Receive, Fetch, Goto, policyState, consumers
<1>3. listening' = listening
  BY DEF Receive, Fetch, policyState
<1> QED
  BY <1>1, <1>2, <1>3, BeginPolicy

LEMMA RegisterPolicy ==
  ASSUME PolicyInv, PolicyTypeOK, OnPolicyChange
  PROVE  PolicyInv'
<1>1. /\ main = "register" /\ main' = "serve" /\ loop' = loop /\ listening' = TRUE
      /\ step' = [step EXCEPT ![Main] = "load"] /\ overlapped' = (overlapped \/ ~Quiet)
      /\ UNCHANGED <<base, eff, overrides, opt, instances, level, want>>
  BY DEF OnPolicyChange, Proceed, Register, Goto, consumers
<1>2. step[Main] = "idle" /\ loop
  BY <1>1 DEF PolicyInv, Order
<1> QED
  BY <1>1, <1>2, BeginPolicy, MainRoutine

\* A step of a refresh, whose goroutine goes from one step to the next.
LEMMA RefreshAlone ==
  ASSUME PolicyInv, PolicyTypeOK, NEW r \in Routines, RefreshStep(r), ~overlapped
  PROVE  /\ ProgressOf(r) /\ Lone(r)' /\ Alone' /\ step[r] # "idle" /\ loop
         /\ (ProgressOf(r)' => Progress')
<1>1. step[r] # "idle" /\ \E s \in PolicySteps : step' = [step EXCEPT ![r] = s]
  BY DEF RefreshStep, Resolve, Unchanged, Changed, StoreEff, CopyListeners, LoadEff,
         ApplyPolicy, SetInstances, SetLevel, Done, Goto, PolicySteps
<1>2. loop /\ Alone /\ Progress
  BY <1>1 DEF PolicyInv, Order, Quiet
<1>3. Lone(r)
  BY <1>1, <1>2 DEF Lone, Alone
<1>4. ProgressOf(r)
  BY <1>2, <1>3, LoneProgress
<1>5. Lone(r)' /\ Alone'
  BY <1>1, <1>3 DEF Lone, Alone, PolicyTypeOK
<1> QED
  BY <1>1, <1>2, <1>4, <1>5, LoneProgressNext

\* Resolving, and comparing with what is in force.
LEMMA ResolveProgress ==
  ASSUME PolicyInv, PolicyTypeOK, NEW r \in Routines, ProgressOf(r), loop,
         Resolve(r) \/ Unchanged(r) \/ Changed(r)
  PROVE  ProgressOf(r)'
<1>1. UNCHANGED <<eff, listening, opt, instances, level>>
  BY DEF Resolve, Unchanged, Changed, policyState, consumers
<1>2. InForce(eff)' <=> InForce(eff)
  BY <1>1 DEF InForce
<1>3. CASE Resolve(r)
  <2>1. want'[r] = ResolvePolicy(base, fetched[r]) /\ overrides' = fetched[r]
        /\ step[r] = "resolve" /\ step'[r] = "compare"
    BY <1>3 DEF Resolve, Goto, PolicyTypeOK
  <2>2. want'[r] = Resolved(overrides')
    <3>1. base = PolicyFromEnv
      BY DEF PolicyInv, Order
    <3>2. fetched[r] \in Overrides
      BY DEF PolicyTypeOK
    <3> QED
      BY <2>1, <3>1, <3>2, BaseTypes
  <2> QED
    BY <1>1, <1>2, <2>1, <2>2 DEF ProgressOf, Bringing, Calling
<1>4. CASE Unchanged(r)
  <2>1. /\ step[r] = "compare" /\ step'[r] = "idle" /\ eff = want[r]
        /\ overrides' = overrides
    BY <1>4 DEF Unchanged, Done, Goto, PolicyTypeOK, policyState
  <2> QED
    BY <1>1, <1>2, <2>1 DEF ProgressOf, Bringing, Calling
<1>5. CASE Changed(r)
  <2>1. step[r] = "compare" /\ step'[r] = "store" /\ UNCHANGED <<want, overrides>>
    BY <1>5 DEF Changed, Goto, PolicyTypeOK, policyState
  <2> QED
    BY <1>1, <1>2, <2>1 DEF ProgressOf, Bringing, Calling
<1> QED
  BY <1>3, <1>4, <1>5

\* Storing the policy, and getting hold of it and of the listeners.
LEMMA StoreProgress ==
  ASSUME PolicyTypeOK, NEW r \in Routines, ProgressOf(r),
         StoreEff(r) \/ CopyListeners(r) \/ LoadEff(r)
  PROVE  ProgressOf(r)'
<1>1. UNCHANGED <<overrides, listening>>
  BY DEF StoreEff, CopyListeners, LoadEff, policyState
<1>2. CASE StoreEff(r)
  <2>1. step[r] = "store" /\ step'[r] = "copy" /\ eff' = want[r] /\ want' = want
    BY <1>2 DEF StoreEff, Goto, PolicyTypeOK
  <2> QED
    BY <1>1, <2>1 DEF ProgressOf, Bringing, Calling
<1>3. CASE CopyListeners(r)
  <2>1. step[r] = "copy" /\ eff' = eff
    BY <1>3 DEF CopyListeners, policyState
  <2>2. CASE listening
    <3>1. step'[r] = "apply" /\ want' = want
      BY <1>3, <2>2 DEF CopyListeners, Goto, PolicyTypeOK
    <3> QED
      BY <1>1, <2>1, <3>1 DEF ProgressOf, Bringing, Calling
  <2>3. CASE ~listening
    <3>1. step'[r] = "idle"
      BY <1>3, <2>3 DEF CopyListeners, Done, Goto, PolicyTypeOK
    <3> QED
      BY <1>1, <2>1, <2>3, <3>1 DEF ProgressOf, Bringing, Calling
  <2> QED
    BY <2>2, <2>3
<1>4. CASE LoadEff(r)
  <2>1. step[r] = "load" /\ step'[r] = "apply" /\ want'[r] = eff /\ eff' = eff
    BY <1>4 DEF LoadEff, Goto, PolicyTypeOK, policyState
  <2> QED
    BY <1>1, <2>1 DEF ProgressOf, Bringing, Calling
<1> QED
  BY <1>2, <1>3, <1>4

\* Handing it to handler, limiter and logger.
LEMMA ApplyProgress ==
  ASSUME PolicyTypeOK, NEW r \in Routines, ProgressOf(r),
         ApplyPolicy(r) \/ SetInstances(r) \/ SetLevel(r)
  PROVE  ProgressOf(r)'
<1>1. UNCHANGED <<overrides, listening, eff>>
  BY DEF ApplyPolicy, SetInstances, SetLevel, policyState
<1>2. CASE ApplyPolicy(r)
  <2>1. /\ step[r] = "apply" /\ step'[r] = "instances" /\ opt' = Restriction(want[r])
        /\ want' = want
    BY <1>2 DEF ApplyPolicy, Goto, PolicyTypeOK
  <2> QED
    BY <1>1, <2>1 DEF ProgressOf, Bringing, Calling
<1>3. CASE SetInstances(r)
  <2>1. /\ step[r] = "instances" /\ step'[r] = "level" /\ want' = want /\ opt' = opt
        /\ instances' = AtLeastOne(want[r]["instances"], instances)
    BY <1>3 DEF SetInstances, InstancesAfter, Goto, PolicyTypeOK
  <2>2. eff = want[r] /\ opt = Restriction(eff)
    BY <2>1 DEF ProgressOf, Bringing
  <2>3. eff["instances"] \in Int
    BY BaseTypes DEF PolicyTypeOK, Policies
  <2>4. eff["instances"] > 0 => instances' = eff["instances"]
    BY <2>1, <2>2, <2>3 DEF AtLeastOne
  <2> QED
    BY <1>1, <2>1, <2>2, <2>4 DEF ProgressOf, Bringing, Calling
<1>4. CASE SetLevel(r)
  <2>1. /\ step[r] = "level" /\ step'[r] = "idle" /\ opt' = opt /\ instances' = instances
        /\ level' = ParseLevel(want[r]["log_level"])
    BY <1>4 DEF SetLevel, LevelOf, Done, Goto, PolicyTypeOK
  <2>2. eff = want[r] /\ eff = Resolved(overrides) /\ opt = Restriction(eff)
        /\ (eff["instances"] > 0 => instances = eff["instances"])
    BY <2>1 DEF ProgressOf, Bringing
  <2>3. InForce(eff)'
    BY <1>1, <2>1, <2>2 DEF InForce
  <2> QED
    BY <1>1, <2>1, <2>2, <2>3 DEF ProgressOf, Bringing, Calling
<1> QED
  BY <1>2, <1>3, <1>4

LEMMA RefreshPolicy ==
  ASSUME PolicyInv, PolicyTypeOK, NEW r \in Routines, Refresh(r)
  PROVE  PolicyInv'
<1>1. RefreshStep(r) /\ main' = main /\ loop' = loop
  BY DEF Refresh, lifeVars
<1>2. /\ step[r] # "idle" /\ UNCHANGED <<base, listening, overlapped>>
      /\ \E s \in PolicySteps : step' = [step EXCEPT ![r] = s]
  BY <1>1 DEF RefreshStep, Resolve, Unchanged, Changed, StoreEff, CopyListeners, LoadEff,
         ApplyPolicy, SetInstances, SetLevel, Done, Goto, PolicySteps, policyState
<1>3. Order'
  <2>1. loop /\ base = PolicyFromEnv /\ main \notin {"open", "base", "boot", "watch"}
    BY <1>2 DEF PolicyInv, Order, Quiet
  <2>2. ~listening => step'[Main] = "idle"
    BY <1>2, MainRoutine DEF PolicyInv, Order, PolicyTypeOK
  <2> QED
    BY <1>1, <1>2, <2>1, <2>2 DEF PolicyInv, Order
<1>4. ASSUME ~overlapped PROVE Alone' /\ Progress'
  <2>1. /\ ProgressOf(r) /\ Alone' /\ loop
        /\ (ProgressOf(r)' => Progress')
    BY <1>1, <1>4, RefreshAlone
  <2>2. ProgressOf(r)'
    BY <1>1, <2>1, ResolveProgress, StoreProgress, ApplyProgress DEF RefreshStep
  <2> QED
    BY <2>1, <2>2
<1> QED
  BY <1>2, <1>3, <1>4 DEF PolicyInv

LEMMA NextPolicy == PolicyInv /\ PolicyTypeOK /\ [Next]_vars => PolicyInv'
<1> SUFFICES ASSUME PolicyInv, PolicyTypeOK, [Next]_vars PROVE PolicyInv'
  OBVIOUS
<1>1. CASE StartWatch
  BY <1>1, WatchPolicy
<1>2. CASE InjectBase \/ Bootstrap
  BY <1>2, BootPolicySteps
<1>3. CASE OnPolicyChange
  BY <1>3, RegisterPolicy
<1>4. CASE \E r \in Refreshers : Receive(r)
  BY <1>4, ReceivePolicy
<1>5. CASE \E r \in Routines : Refresh(r)
  BY <1>5, RefreshPolicy
<1>6. CASE \/ OpenStore \/ OpenFails \/ BootstrapFails \/ StartServers \/ StartAdmin
           \/ AdminRefused \/ SelectError \/ SelectSignal \/ Slept \/ Shutdown \/ Close \/ Exit
  <2>1. UNCHANGED policyVars /\ loop' = loop
    BY <1>6 DEF OpenStore, OpenFails, BootstrapFails, StartServers, StartAdmin, AdminRefused,
       SelectError, SelectSignal, Slept, Shutdown, Drained, StopListening, Close, Exit
  <2>2. /\ main' \in {"open", "base"} => main \in {"open", "base"}
        /\ main' \in {"boot", "watch"} => main \in {"boot", "watch"}
        /\ main' = "register" => main = "register"
    BY <1>6 DEF OpenStore, OpenFails, BootstrapFails, StartServers, StartAdmin, AdminRefused,
       SelectError, SelectSignal, Slept, Shutdown, Drained, StopListening, Close, Exit, Proceed
  <2> QED
    BY <2>1, <2>2, LifeKeepsPolicy DEF policyVars, policyState
<1>7. CASE \/ Signal \/ GraceEnds \/ LoopTick \/ Accept \/ Finish \/ ChangePage \/ ChangeBizs
           \/ (\E s \in Servers : Listen(s)) \/ UNCHANGED vars
  <2>1. /\ UNCHANGED <<base, eff, overrides, listening, consumers, routines>>
        /\ loop' = loop /\ main' = main
    BY <1>7 DEF Signal, GraceEnds, LoopTick, Accept, Finish, ChangePage, ChangeBizs, PutPolicy, ForeignRow,
       Listen, vars, lifeVars, policyVars, policyState
  <2> QED
    BY <2>1, LifeKeepsPolicy
<1> QED
  BY <1>1, <1>2, <1>3, <1>4, <1>5, <1>6, <1>7 DEF Next, MainStep

\* Handler, limiter and logger follow the page for any set of keys, any bounds and any
\* number of goroutines that refresh, as long as no two refreshes overlap
\* (policy_store.go:94-127, main.go:184-188).
THEOREM PolicyFollowed == Spec => []ListenersFollow
<1>1. PolicyInv => ListenersFollow
  <2> SUFFICES ASSUME PolicyInv, listening, Quiet, ~overlapped
               PROVE  eff = Resolved(overrides) /\ InForce(eff)
    BY DEF ListenersFollow
  <2>1. Progress
    BY DEF PolicyInv, Order
  <2> QED
    BY <2>1, QuietProgress, MainRoutine
<1> QED
  BY <1>1, InitTypes, NextTypes, InitPolicy, NextPolicy, PTL DEF Spec
=============================================================================
