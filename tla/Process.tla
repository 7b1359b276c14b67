------------------------------- MODULE Process -------------------------------
(***************************************************************************)
(* The life of a gateway process (cmd/gateway/main.go run,                 *)
(* runtimeStateLoop; obs/health.go; admin/server.go Start, Shutdown) from  *)
(* the opening of the store to its end, with the policy of module Policy   *)
(* and the requests that are under way in the proxy.                       *)
(*                                                                         *)
(* main runs from one step to the next while the goroutines it has started *)
(* run beside it: the subscriber and the poller, the state loop, the three *)
(* servers.  A signal can come at any time.  Every timeout is a step that  *)
(* can be taken from the moment the timer is started.                      *)
(***************************************************************************)
EXTENDS Policy

CONSTANT MaxInFlight    \* bound on the requests under way at once

ASSUME ProcessAssumption == MaxInFlight \in Nat

Servers == {"proxy", "obs", "admin"}

VARIABLES
  main,              \* the next step of main
  ctx,               \* a signal has come
  ready, shutdown,   \* the flags of Health
  loaded,            \* a snapshot has been loaded
  bizs,              \* the snapshot in use has businesses
  published,         \* the snapshot that is published has businesses
  loop, marked,      \* runtimeStateLoop has been started; has called MarkReady
  server,            \* the state of each server
  errCh,             \* a server has reported an error
  inFlight,          \* requests under way in the proxy
  grace,             \* ShutdownGrace is over
  closed,            \* Redis client and store are closed
  lost               \* history: a request has ended with Redis closed before it

lifeVars == <<main, ctx, ready, shutdown, loaded, bizs, published, loop, marked, server, errCh,
              inFlight, grace, closed, lost>>
vars == <<policyVars, lifeVars>>

MainSteps ==
  {"open", "base", "boot", "watch", "register", "serve", "admin", "select", "sleep",
   "stopAdmin", "stopObs", "stopProxy", "waitProxy", "close", "exit", "exited"}

TypeOK ==
  /\ PolicyTypeOK
  /\ main \in MainSteps
  /\ {ctx, ready, shutdown, loaded, bizs, published, loop, marked, errCh, grace, closed, lost}
       \subseteq BOOLEAN
  /\ server \in [Servers -> {"off", "starting", "up", "failed", "draining", "down"}]
  /\ inFlight \in 0 .. MaxInFlight

Init ==
  /\ PolicyInit
  /\ main = "open" /\ ctx = FALSE
  /\ ready = FALSE /\ shutdown = FALSE
  /\ loaded = FALSE /\ bizs = FALSE /\ published \in BOOLEAN
  /\ loop = FALSE /\ marked = FALSE
  /\ server = [s \in Servers |-> "off"] /\ errCh = FALSE
  /\ inFlight = 0
  /\ grace = FALSE /\ closed = FALSE /\ lost = FALSE
-----------------------------------------------------------------------------
Alive == main # "exited"

\* main goes from one step to another and leaves the rest of the process alone.
Proceed(from, to) == main = from /\ main' = to

\* store.Open, Ping, Migrate and LoadSeeds; Ping and Migrate need a live context.
OpenStore ==
  /\ Proceed("open", "base") /\ ~ctx
  /\ UNCHANGED <<policyVars, ctx, ready, shutdown, loaded, bizs, published, loop, marked, server,
                 errCh, inFlight, grace, closed, lost>>

\* An error of them is fatal: run returns, and its deferred calls close the clients.
OpenFails ==
  /\ Proceed("open", "close")
  /\ UNCHANGED <<policyVars, ctx, ready, shutdown, loaded, bizs, published, loop, marked, server,
                 errCh, inFlight, grace, closed, lost>>

InjectBase ==
  /\ Proceed("base", "boot")
  /\ SetPolicyBase
  /\ UNCHANGED <<ctx, ready, shutdown, loaded, bizs, published, loop, marked, server, errCh,
                 inFlight, grace, closed, lost>>

\* Bootstrap from the store or from Redis: the snapshot may have no businesses.
Bootstrap ==
  /\ Proceed("boot", "watch") /\ ~ctx
  /\ BootPolicy
  /\ ready' = TRUE /\ loaded' = TRUE /\ bizs' = published
  /\ UNCHANGED <<ctx, shutdown, published, loop, marked, server, errCh, inFlight, grace,
                 closed, lost>>

\* Neither source has a configuration: not ready, and on it goes.
BootstrapFails ==
  /\ Proceed("boot", "watch")
  /\ UNCHANGED <<policyVars, ctx, ready, shutdown, loaded, bizs, published, loop, marked, server, errCh,
                 inFlight, grace, closed, lost>>

\* cfgStore.Watch, limiter.New, go runtimeStateLoop
StartWatch ==
  /\ Proceed("watch", "register")
  /\ loop' = TRUE
  /\ UNCHANGED <<policyVars, ctx, ready, shutdown, loaded, bizs, published, marked, server, errCh,
                 inFlight, grace, closed, lost>>

\* proxy.New, OnPolicyChange
OnPolicyChange ==
  /\ Proceed("register", "serve")
  /\ Register
  /\ UNCHANGED <<ctx, ready, shutdown, loaded, bizs, published, loop, marked, server, errCh,
                 inFlight, grace, closed, lost>>

\* The listener has returned; the proxy and the obs server are started.
StartServers ==
  /\ Proceed("serve", "admin") /\ step[Main] = "idle"
  /\ server' = [server EXCEPT !["proxy"] = "starting", !["obs"] = "starting"]
  /\ UNCHANGED <<policyVars, ctx, ready, shutdown, loaded, bizs, published, loop, marked, errCh,
                 inFlight, grace, closed, lost>>

\* admin.New and go adminSrv.Start
StartAdmin ==
  /\ Proceed("admin", "select")
  /\ server' = [server EXCEPT !["admin"] = "starting"]
  /\ UNCHANGED <<policyVars, ctx, ready, shutdown, loaded, bizs, published, loop, marked, errCh,
                 inFlight, grace, closed, lost>>

\* admin.New refuses the token or a CIDR: run returns while the other servers run.
AdminRefused ==
  /\ Proceed("admin", "close")
  /\ UNCHANGED <<policyVars, ctx, ready, shutdown, loaded, bizs, published, loop, marked, server,
                 errCh, inFlight, grace, closed, lost>>

\* select: an error of a server ends run at once.
SelectError ==
  /\ Proceed("select", "close") /\ errCh
  /\ UNCHANGED <<policyVars, ctx, ready, shutdown, loaded, bizs, published, loop, marked, server,
                 errCh, inFlight, grace, closed, lost>>

\* select: a signal.  /ready says so before anything is shut down.
SelectSignal ==
  /\ Proceed("select", "sleep") /\ ctx
  /\ shutdown' = TRUE
  /\ UNCHANGED <<policyVars, ctx, ready, loaded, bizs, published, loop, marked, server, errCh,
                 inFlight, grace, closed, lost>>

\* time.Sleep(2 s): long enough for a goroutine started before to get its server up,
\* so that Shutdown of the admin server does not find srv nil.
Slept ==
  /\ Proceed("sleep", "stopAdmin")
  /\ \A s \in Servers : server[s] # "starting"
  /\ UNCHANGED <<policyVars, ctx, ready, shutdown, loaded, bizs, published, loop, marked, server,
                 errCh, inFlight, grace, closed, lost>>

\* http.Server.Shutdown closes the listener of server s ...
StopListening(s, from, to) ==
  /\ Proceed(from, to)
  /\ server' = [server EXCEPT ![s] = IF @ = "up" THEN "draining" ELSE "down"]
  /\ UNCHANGED <<policyVars, ctx, ready, shutdown, loaded, bizs, published, loop, marked, errCh,
                 inFlight, grace, closed, lost>>

\* Mutant: Shutdown is given a context without an end.
GraceIgnored == FALSE
GraceOver == grace

\* ... and waits for its requests, or for the end of the grace period, which is one
\* for all three.
Drained(s, idle, from, to) ==
  /\ Proceed(from, to) /\ (idle \/ GraceOver)
  /\ server' = [server EXCEPT ![s] = "down"]
  /\ UNCHANGED <<policyVars, ctx, ready, shutdown, loaded, bizs, published, loop, marked, errCh,
                 inFlight, grace, closed, lost>>

\* Mutant: the proxy is closed without waiting for its requests.
ProxyIdleAnyhow == TRUE
ProxyIdle == inFlight = 0

\* The probes answer at once: the obs server is down in one step, and so is the admin
\* server, whose requests have timeouts of their own.
Shutdown ==
  \/ Drained("admin", TRUE, "stopAdmin", "stopObs")
  \/ Drained("obs", TRUE, "stopObs", "stopProxy")
  \/ StopListening("proxy", "stopProxy", "waitProxy")
  \/ Drained("proxy", ProxyIdle, "waitProxy", "close")

\* run returns: cfgStore, the store and the Redis client are closed ...
Close ==
  /\ Proceed("close", "exit")
  /\ closed' = TRUE
  /\ UNCHANGED <<policyVars, ctx, ready, shutdown, loaded, bizs, published, loop, marked, server,
                 errCh, inFlight, grace, lost>>

\* ... and the process ends.
Exit ==
  /\ Proceed("exit", "exited")
  /\ UNCHANGED <<policyVars, ctx, ready, shutdown, loaded, bizs, published, loop, marked, server,
                 errCh, inFlight, grace, closed, lost>>

MainStep ==
  \/ OpenStore \/ OpenFails \/ InjectBase \/ Bootstrap \/ BootstrapFails \/ StartWatch
  \/ OnPolicyChange \/ StartServers \/ StartAdmin \/ AdminRefused
  \/ SelectError \/ SelectSignal \/ Slept \/ Shutdown \/ Close \/ Exit
-----------------------------------------------------------------------------
\* The goroutines beside main, and the world.

Signal ==
  /\ Alive /\ ~ctx
  /\ ctx' = TRUE
  /\ UNCHANGED <<policyVars, main, ready, shutdown, loaded, bizs, published, loop, marked, server,
                 errCh, inFlight, grace, closed, lost>>

\* ShutdownGrace runs from the end of the sleep.
GraceEnds ==
  /\ main \in {"stopAdmin", "stopObs", "stopProxy", "waitProxy"} /\ ~grace
  /\ grace' = TRUE
  /\ UNCHANGED <<policyVars, main, ctx, ready, shutdown, loaded, bizs, published, loop, marked, server,
                 errCh, inFlight, closed, lost>>

\* ListenAndServe, or the error it returns instead.
Listen(s) ==
  /\ Alive /\ server[s] = "starting"
  /\ \/ server' = [server EXCEPT ![s] = "up"] /\ UNCHANGED errCh
     \/ server' = [server EXCEPT ![s] = "failed"] /\ errCh' = TRUE
  /\ UNCHANGED <<policyVars, main, ctx, ready, shutdown, loaded, bizs, published, loop, marked,
                 inFlight, grace, closed, lost>>

\* Mutant: only a loop that has seen no configuration at its start looks for one.
FirstConfigEarly == ~marked /\ bizs /\ ~loaded
FirstConfig == ~marked /\ bizs

\* runtimeStateLoop: a tick.  The loop ends with the context, but a tick may be chosen
\* though the context is done, and only the first that finds businesses has an effect.
LoopTick ==
  /\ Alive /\ loop /\ FirstConfig
  /\ ready' = TRUE /\ marked' = TRUE
  /\ UNCHANGED <<policyVars, main, ctx, shutdown, loaded, bizs, published, loop, server, errCh,
                 inFlight, grace, closed, lost>>

\* subscribe or poll gets the published snapshot and applies it: with businesses or
\* without, and also when it is no news.
Receive(r) ==
  /\ Alive /\ loop /\ ~ctx
  /\ Fetch(r)
  /\ loaded' = TRUE /\ bizs' = published
  /\ UNCHANGED <<main, ctx, ready, shutdown, published, loop, marked, server, errCh,
                 inFlight, grace, closed, lost>>

\* The snapshot in use is behind the published one.
News == page # overrides \/ published # bizs

Refresh(r) ==
  /\ Alive
  /\ RefreshStep(r)
  /\ UNCHANGED lifeVars

\* The page is changed, on this instance or another.
ChangePage ==
  /\ \E o \in Pages : PutPolicy(o) \/ ForeignRow(o)
  /\ UNCHANGED lifeVars

\* The first business is created, or the last one removed, on any instance.
ChangeBizs ==
  /\ published' = ~published
  /\ UNCHANGED <<policyVars, main, ctx, ready, shutdown, loaded, bizs, loop, marked, server,
                 errCh, inFlight, grace, closed, lost>>

\* A request comes in.
Accept ==
  /\ server["proxy"] = "up" /\ Alive /\ inFlight < MaxInFlight
  /\ inFlight' = inFlight + 1
  /\ UNCHANGED <<policyVars, main, ctx, ready, shutdown, loaded, bizs, published, loop, marked, server,
                 errCh, grace, closed, lost>>

\* A request ends and gives its slot back, if Redis can still be reached.
Finish ==
  /\ Alive /\ inFlight > 0
  /\ inFlight' = inFlight - 1
  /\ lost' = (lost \/ closed)
  /\ UNCHANGED <<policyVars, main, ctx, ready, shutdown, loaded, bizs, published, loop, marked, server,
                 errCh, grace, closed>>

Next ==
  \/ MainStep \/ Signal \/ GraceEnds
  \/ \E s \in Servers : Listen(s)
  \/ LoopTick
  \/ \E r \in Refreshers : Receive(r)
  \/ \E r \in Routines : Refresh(r)
  \/ ChangePage \/ ChangeBizs \/ Accept \/ Finish

Spec == Init /\ [][Next]_vars

\* Goroutines and timers run.  Requests need not end, signals and changes need not
\* come; a notification may be lost but a poll comes round while there is news.
FairSpec ==
  /\ Spec
  /\ WF_vars(MainStep) /\ WF_vars(GraceEnds) /\ WF_vars(~ctx /\ LoopTick)
  /\ \A s \in Servers : WF_vars(Listen(s))
  /\ \A r \in Refreshers : WF_vars(News /\ Receive(r))
  /\ \A r \in Routines : WF_vars(Refresh(r))
-----------------------------------------------------------------------------
\* Mutant: the readiness flag is looked at first.
ReadyFirst == IF ready THEN "ready" ELSE IF shutdown THEN "shutting_down" ELSE "not_ready"
\* ReadyHandler
ReadyHandler ==
  CASE shutdown -> "shutting_down"
    [] ~shutdown /\ ~ready -> "not_ready"
    [] OTHER -> "ready"

\* What a poll of /ready gets from outside.
Answer ==
  CASE Alive /\ server["obs"] \in {"off", "starting"} -> "unreachable"
    [] Alive /\ server["obs"] = "up" -> ReadyHandler
    [] OTHER -> "gone"

\* /ready goes through its answers in the order an orchestrator expects and never
\* says ready of a process that has no configuration or is stopping, although the
\* flags are set by main and by the state loop (health.go:53-83, main.go:137-143,
\* 266, 327-331).
AbstractProbe == INSTANCE Probe WITH answer <- Answer, configured <- loaded
ProbeRefined == AbstractProbe!Spec

\* A request finds Redis closed, and leaves its concurrency slot behind, only after
\* the grace period, or when a server has failed or the admin server was refused
\* (main.go:247-259, 265-278).
NoLostRelease == lost => grace \/ errCh \/ server["admin"] = "off"

\* A signal, which nothing takes back, ends the process, whatever requests are under way
\* (main.go:258-291).
StopsOnSignal == []<>(~ctx \/ ~Alive)

\* A configuration with businesses that stays published makes the process ready, also one
\* that could not load any when it started and whatever it has received in between, unless
\* it is told to stop first (main.go:137-143, 318-332).
BecomesReady == []<>(~published \/ ready \/ ctx \/ ~Alive)

\* What main.go:140 says, "not-ready until config arrives", of a configuration that has
\* arrived and stays as it is.  It does not hold, since main.go:327 waits for businesses.
ReadyOnceLoaded == <>[](loaded /\ ~News) => <>(ready \/ ctx \/ ~Alive)

\* The overrides on the page come into force, unless refreshes have overlapped or the
\* process is stopping: also those that were published before the listener was
\* registered (policy_store.go:74-84).
PolicyArrives ==
  <>[](InForce(Resolved(page)) \/ overlapped \/ ctx \/ ~Alive)
=============================================================================
