------------------------------- MODULE Gateway -------------------------------
(***************************************************************************)
(* Requests on their way through the proxy (internal/proxy/handler.go      *)
(* ServeHTTP, forward, forwardJSONWithMetering, reject), several at once,  *)
(* while the configuration and the options are replaced, clients go away   *)
(* or stop reading, and calls to Redis and to the upstream fail.           *)
(*                                                                         *)
(* A request is one goroutine: req[q] holds its local variables and what   *)
(* it has left behind (answers, counts, charges).  The limiter appears as  *)
(* what Check and Release can answer and as the set of slots in Redis;     *)
(* module Limiter has its inside, module TokenLedger the metering, module  *)
(* Metrics the counters.                                                   *)
(***************************************************************************)
EXTENDS Resolver, FiniteSets

CONSTANTS
  Requests,
  Shapes,       \* what clients send
  Snapshots,    \* a sequence of configurations: upstream, conc, token, mode by business
  Options,      \* a sequence of options: whether there is a timeout, the body limit
  Locations,    \* where the upstream at a URL may redirect to
  MaxRedirects, \* redirects that client.Do follows before it gives up (10)
  MaxChanges    \* bound on the changes of configuration and options

ASSUME GatewayAssumption ==
  /\ IsFiniteSet(Requests) /\ MaxChanges \in Nat /\ Shapes # {}
  /\ \A s \in Shapes :
       /\ s.seg \in DOMAIN BizOf /\ {s.stream, s.badURL} \subseteq BOOLEAN
       /\ s.xff \in [first : Seq(STRING), rest : Seq(STRING)]
  /\ Len(Snapshots) \in Nat \ {0}
  /\ \A i \in 1 .. Len(Snapshots), b \in Bizs :
       {Snapshots[i][b].conc, Snapshots[i][b].token} \subseteq BOOLEAN
  /\ Options \in Seq([timeout : BOOLEAN, maxBody : Nat]) /\ Options # <<>>
  /\ Locations \in [Urls -> SUBSET Urls] /\ MaxRedirects \in Nat

\* No client sends the identifier that newRequestID draws for some other request.
ASSUME FreshIds == \A s \in Shapes : s.id = None \/ s.id \notin Requests

\* X-Real-IP is trusted only where the proxies set it, to the client's address or to
\* something that is not one.
ASSUME RealIPFromProxy == UseRealIP => \A s \in Shapes : s.real \in {None, ClientIP, Garbage}

VARIABLES
  req,          \* each request
  cur, opt,     \* the snapshot and the options in force
  envCache,     \* Resolver.envCache
  slots,        \* Redis: identifiers that hold a slot
  swept,        \* history: those of requests under way whose slot was swept
  conc, sse,    \* the gauges ConcInFlight and SSEStreams
  accepted,     \* history: the URLs that Validate has accepted, and for whom
  changes

vars == <<req, cur, opt, envCache, slots, swept, conc, sse, accepted, changes>>

Steps == {"new", "resolve", "lookup", "check", "forward", "do", "stream", "body", "release",
          "done"}
Idle == CHOOSE s \in Shapes : TRUE
NoRequest ==
  [pc |-> "new", shape |-> Idle, opt |-> None, url |-> None, hops |-> 0, rules |-> 0,
   metered |-> FALSE, hold |-> FALSE, leaked |-> FALSE, charged |-> {}, ip |-> None,
   written |-> "none", counted |-> <<>>, upErr |-> 0, rpm |-> 0,
   timer |-> "off", gone |-> FALSE, stalled |-> FALSE]

Statuses == {"400", "403", "429", "499", "502", "504", "upstream"}
Request ==
  [pc : Steps, shape : Shapes, opt : Range(Options) \cup {None},
   url : (Urls \X BOOLEAN) \cup {None}, hops : 0 .. MaxRedirects, rules : 0 .. Len(Snapshots),
   metered : BOOLEAN, hold : BOOLEAN, leaked : BOOLEAN,
   charged : SUBSET (0 .. Len(Snapshots)), ip : STRING \cup {None},
   written : Statuses \cup {"none"}, counted : Seq(Statuses), upErr : {0, 1}, rpm : {0, 1},
   timer : {"off", "armed", "fired"}, gone : BOOLEAN, stalled : BOOLEAN]

TypeOK ==
  /\ req \in [Requests -> Request]
  /\ cur \in 1 .. Len(Snapshots) /\ opt \in Range(Options)
  /\ envCache \in EnvCaches
  /\ conc \in 0 .. Cardinality(Requests) /\ sse \in 0 .. Cardinality(Requests)

Init ==
  /\ req = [q \in Requests |-> NoRequest]
  /\ cur = 1 /\ opt = Head(Options)
  /\ envCache = [b \in Bizs |-> Missing]
  /\ slots = {} /\ swept = {} /\ conc = 0 /\ sse = 0
  /\ accepted = {} /\ changes = 0
-----------------------------------------------------------------------------
At(q, step) == req[q].pc = step
Biz(q) == ExtractBiz(req[q].shape.seg)
Header(q) == req[q].shape.header

\* Mutant: requests without an identifier share one.
SharedId(q) == req[q].shape.id
\* X-Request-Id as the client sent it, or a fresh one (newRequestID).
ReqId(q) == IF req[q].shape.id = None THEN q ELSE req[q].shape.id

\* Request q at another step; at the end its local variables go out of scope.  When
\* forward has returned, and cancelled its context, only the deferred release is left.
To(q, step) == [req[q] EXCEPT !.pc = step]
Ended(q) ==
  [To(q, "done") EXCEPT !.opt = None, !.url = None, !.hops = 0, !.metered = FALSE,
                        !.charged = {}, !.ip = None, !.timer = "off", !.gone = FALSE, !.stalled = FALSE]
Returned(q) == [Ended(q) EXCEPT !.pc = "release"]
Become(q, r) == req' = [req EXCEPT ![q] = r]

\* writeError, after which the request is counted in ReqTotal with the same status.
Answered(r, status) == [r EXCEPT !.written = status, !.counted = Append(@, status)]
AnsweredUpErr(r, status) == [Answered(r, status) EXCEPT !.upErr = 1]

\* ServeHTTP: the options are loaded once, then the request is taken apart.
Arrive(q, s) ==
  /\ At(q, "new")
  /\ IF ExtractBiz(s.seg) = None
     THEN Become(q, [Answered(Ended(q), "400") EXCEPT !.shape = s])
     ELSE Become(q, [To(q, "resolve") EXCEPT !.shape = s, !.opt = opt,
                                             !.ip = ExtractIP(s.real, s.xff)])
  /\ UNCHANGED <<cur, opt, envCache, slots, swept, conc, sse, accepted, changes>>

\* Resolve has an answer: the request goes on, or ends with 403 or 502.
Blocked(q) == Become(q, AnsweredUpErr(Ended(q), "403"))
NoUpstream(q) == Become(q, AnsweredUpErr(Ended(q), "502"))
Target(q, url, fromHeader) == Become(q, [To(q, "check") EXCEPT !.url = <<url, fromHeader>>])

\* Validate url for q, and go on or not.
Vet(q, url, fromHeader) ==
  \E ok \in Validate(url, fromHeader) :
    IF ok THEN Target(q, url, fromHeader) /\ accepted' = accepted \cup {<<url, fromHeader>>}
          ELSE Blocked(q) /\ UNCHANGED accepted

\* Resolver.Resolve: the configuration before the header before the environment.
Resolve(q) ==
  LET configured == Snapshots[cur][Biz(q)].upstream
      entry == envCache[Biz(q)]
      useHeader == AllowHeader /\ Header(q) # None
  IN
  /\ At(q, "resolve")
  /\ \/ configured # None /\ Vet(q, configured, FALSE)
     \/ configured = None /\ useHeader /\ Vet(q, Header(q), TRUE)
     \/ /\ configured = None /\ ~useHeader
        /\ IF ~Hit(entry) THEN Become(q, To(q, "lookup"))
           ELSE IF entry = Empty THEN NoUpstream(q) ELSE Target(q, entry, FALSE)
        /\ UNCHANGED accepted
  /\ UNCHANGED <<cur, opt, envCache, slots, swept, conc, sse, changes>>

\* Resolve, from os.Getenv on; other requests may look up the same variable.
Lookup(q) ==
  /\ At(q, "lookup")
  /\ \E ok \in EnvOutcomes(Biz(q)) :
       /\ envCache' = [envCache EXCEPT ![Biz(q)] = EntryAfter(Biz(q), ok)]
       /\ CASE EnvUrl[Biz(q)] = None -> NoUpstream(q) /\ UNCHANGED accepted
            [] EnvUrl[Biz(q)] # None /\ ok ->
                 /\ Target(q, EnvUrl[Biz(q)], FALSE)
                 /\ accepted' = accepted \cup {<<EnvUrl[Biz(q)], FALSE>>}
            [] OTHER -> Blocked(q) /\ UNCHANGED accepted
  /\ UNCHANGED <<cur, opt, slots, swept, conc, sse, changes>>
-----------------------------------------------------------------------------
\* cfg.Rules: the rules of the snapshot there is now, whose upstream may be another.
\* Then the limiter checks them.
Rules(q) == Snapshots[IF At(q, "check") THEN cur ELSE req[q].rules][Biz(q)]
Limited(q) == Rules(q).conc \/ Rules(q).token

Held == {q \in Requests : req[q].hold}

\* The script for a concurrency rule: slots whose timeout is over are swept, and the
\* identifiers in taken get one.
RunScript(taken) ==
  \E over \in SUBSET slots :
    /\ slots' = (slots \ over) \cup taken
    /\ swept' = swept \cup (over \cap {ReqId(q) : q \in Held})

\* Check passes: a concurrency rule puts the identifier into Redis.
CheckPasses(q) ==
  /\ At(q, "check")
  /\ Become(q, [To(q, "forward") EXCEPT !.rules = cur, !.hold = Rules(q).conc])
  /\ IF Rules(q).conc THEN RunScript({ReqId(q)}) /\ conc' = conc + 1
                      ELSE UNCHANGED <<slots, swept, conc>>
  /\ UNCHANGED <<cur, opt, envCache, sse, accepted, changes>>

\* Check has failed and the request passes degraded, without a hold.  A script that was
\* executed although its reply did not come leaves a slot behind.
DegradedPass(q) ==
  /\ At(q, "check") /\ Limited(q)
  /\ \/ /\ Become(q, [To(q, "forward") EXCEPT !.rules = cur])
        /\ UNCHANGED <<slots, swept>>
     \/ /\ Rules(q).conc /\ RunScript({ReqId(q)})
        /\ Become(q, [To(q, "forward") EXCEPT !.rules = cur, !.leaked = TRUE])
  /\ UNCHANGED <<cur, opt, envCache, conc, sse, accepted, changes>>

\* Check rejects, with or without Redis: 429 and observe.  It may leave a slot behind in
\* the same way.
Reject(q) ==
  /\ At(q, "check") /\ Limited(q)
  /\ \/ /\ IF Rules(q).conc THEN RunScript({}) ELSE UNCHANGED <<slots, swept>>
        /\ Become(q, [Answered(Ended(q), "429") EXCEPT !.rpm = 1])
     \/ /\ Rules(q).conc /\ RunScript({ReqId(q)})
        /\ Become(q, [Answered(Ended(q), "429") EXCEPT !.rpm = 1, !.leaked = TRUE])
  /\ UNCHANGED <<cur, opt, envCache, conc, sse, accepted, changes>>

\* The check of a request of another instance sweeps.
SweepElsewhere ==
  /\ RunScript({}) /\ slots' # slots
  /\ UNCHANGED <<req, cur, opt, envCache, conc, sse, accepted, changes>>

\* forward up to NewRequestWithContext: the body is limited, and a request that does
\* not ask for a stream gets a deadline.  A URL that cannot be built ends the request
\* with 502, which ReqTotal does not count.
Forward(q) ==
  /\ At(q, "forward")
  /\ IF req[q].shape.badURL
     THEN Become(q, [Returned(q) EXCEPT !.written = "502", !.upErr = 1])
     ELSE Become(q, [To(q, "do") EXCEPT
                       !.opt = None,
                       !.timer = IF ~req[q].shape.stream /\ req[q].opt.timeout
                                 THEN "armed" ELSE "off"])
  /\ UNCHANGED <<cur, opt, envCache, slots, swept, conc, sse, accepted, changes>>

\* client.Do follows a redirect: the client has no CheckRedirect.
Redirect(q) ==
  /\ At(q, "do") /\ req[q].hops < MaxRedirects
  /\ \E u \in Locations[req[q].url[1]] :
       Become(q, [req[q] EXCEPT !.url = <<u, req[q].url[2]>>, !.hops = @ + 1])
  /\ UNCHANGED <<cur, opt, envCache, slots, swept, conc, sse, accepted, changes>>

\* client.Do returns a response, also with a request body over the limit if the
\* upstream has not read so far.  cfg.Metering is read, and the response goes its way:
\* a stream with or without newSSESink, forwardJSONWithMetering, or only a copy.  The
\* target is not used again.
DoAnswers(q) ==
  LET counts == Rules(q).token /\ Snapshots[cur][Biz(q)].mode # "disabled"
      answered == [req[q] EXCEPT !.written = "upstream", !.url = None, !.hops = 0]
  IN
  /\ At(q, "do")
  /\ \/ /\ Become(q, [answered EXCEPT !.pc = "stream", !.metered = counts])
        /\ sse' = sse + 1
     \/ \E json \in BOOLEAN :
          /\ Become(q, [answered EXCEPT !.pc = "body", !.metered = counts /\ json])
          /\ UNCHANGED sse
  /\ UNCHANGED <<cur, opt, envCache, slots, swept, conc, accepted, changes>>

\* Mutant: a client that has gone is counted, and then counted as a failure, too.
CancelledTwice(r) == [r EXCEPT !.counted = @ \o <<"499", "502">>]
Cancelled(r) == [r EXCEPT !.counted = Append(@, "499")]

\* client.Do fails: a deadline (that of forward, of the dialer or for the headers of the
\* response), client gone, anything else (the body limit and too many redirects too).
DoFails(q) ==
  /\ At(q, "do")
  /\ \/ Become(q, AnsweredUpErr(Returned(q), "504"))
     \/ req[q].gone /\ Become(q, Cancelled(Returned(q)))
     \/ Become(q, AnsweredUpErr(Returned(q), "502"))
  /\ UNCHANGED <<cur, opt, envCache, slots, swept, conc, sse, accepted, changes>>

\* Mutant: tokens are charged to the rules there are now.
ChargeCurrent(q) == cur
ChargeRules(q) == req[q].rules

\* TokenReserve or TokenSettle, with a context of its own.
Charge(q) ==
  /\ req[q].pc \in {"stream", "body"} /\ req[q].metered /\ ~req[q].stalled
  /\ Become(q, [req[q] EXCEPT !.charged = @ \cup {ChargeRules(q)}])
  /\ UNCHANGED <<cur, opt, envCache, slots, swept, conc, sse, accepted, changes>>

\* The response ends: the upstream has closed it, the deadline has passed, the client
\* has gone.  Nothing ends while a write to the client blocks.  Then observe.
ResponseEnds(q) ==
  /\ req[q].pc \in {"stream", "body"} /\ ~req[q].stalled
  /\ Become(q, [Returned(q) EXCEPT !.counted = Append(@, "upstream"), !.rpm = 1])
  /\ sse' = IF At(q, "stream") THEN sse - 1 ELSE sse
  /\ UNCHANGED <<cur, opt, envCache, slots, swept, conc, accepted, changes>>

\* Mutant: an error of Release ends the deferred function before the gauge is lowered.
GaugeAfterError == conc
GaugeAfter == conc - 1

\* The deferred function: Release, whatever has ended the request.
Release(q) ==
  /\ At(q, "release")
  /\ swept' = swept \ {ReqId(q)}
  /\ \/ ~req[q].hold /\ Become(q, Ended(q)) /\ UNCHANGED <<slots, conc>>
     \/ /\ req[q].hold
        /\ slots' = slots \ {ReqId(q)} /\ conc' = conc - 1
        /\ Become(q, [Ended(q) EXCEPT !.hold = FALSE])
     \/ /\ req[q].hold
        /\ conc' = GaugeAfter
        /\ Become(q, [Ended(q) EXCEPT !.hold = FALSE, !.leaked = TRUE])
        /\ UNCHANGED slots
  /\ UNCHANGED <<cur, opt, envCache, sse, accepted, changes>>
-----------------------------------------------------------------------------
\* Mutant: the deadline is for the headers of the response only.
WaitsForHeaders == {"do"}
\* The steps that wait for the upstream, to which the context of forward applies.
Waits == {"do", "stream", "body"}

\* The deadline of forward passes.
TimerFires(q) ==
  /\ req[q].timer = "armed" /\ req[q].pc \in Waits
  /\ Become(q, [req[q] EXCEPT !.timer = "fired"])
  /\ UNCHANGED <<cur, opt, envCache, slots, swept, conc, sse, accepted, changes>>

\* The client closes the connection, or stops reading: there is no WriteTimeout.  One
\* that goes earlier is noticed in Check, which then rejects, or here.
ClientLeaves(q) ==
  /\ req[q].pc \in {"do", "stream", "body"} /\ ~req[q].gone
  /\ Become(q, [req[q] EXCEPT !.gone = TRUE, !.stalled = FALSE])
  /\ UNCHANGED <<cur, opt, envCache, slots, swept, conc, sse, accepted, changes>>

ClientStalls(q) ==
  /\ req[q].pc \in {"stream", "body"} /\ ~req[q].gone /\ ~req[q].stalled
  /\ Become(q, [req[q] EXCEPT !.stalled = TRUE])
  /\ UNCHANGED <<cur, opt, envCache, slots, swept, conc, sse, accepted, changes>>

\* Store.apply, ApplyPolicy
Publish ==
  /\ changes < MaxChanges /\ changes' = changes + 1
  /\ \/ cur' \in (1 .. Len(Snapshots)) \ {cur} /\ UNCHANGED opt
     \/ opt' \in Range(Options) \ {opt} /\ UNCHANGED cur
  /\ UNCHANGED <<req, envCache, slots, swept, conc, sse, accepted>>

\* What the goroutine of q does by itself ...
Handle(q) ==
  \/ Resolve(q) \/ Lookup(q) \/ CheckPasses(q) \/ DegradedPass(q) \/ Reject(q)
  \/ Forward(q) \/ Release(q)
\* ... and what waits for the upstream.
Await(q) == DoAnswers(q) \/ DoFails(q) \/ ResponseEnds(q)

Next ==
  \/ \E q \in Requests :
       \/ \E s \in Shapes : Arrive(q, s)
       \/ Handle(q) \/ Await(q) \/ Redirect(q) \/ Charge(q)
       \/ TimerFires(q) \/ ClientLeaves(q) \/ ClientStalls(q)
  \/ SweepElsewhere \/ Publish

Spec == Init /\ [][Next]_vars

\* Goroutines and timers run; a read or a write with its deadline over, or with its
\* client gone, returns.  Upstreams need not answer, clients need not read or leave.
Freed(q) == (req[q].timer = "fired" \/ req[q].gone) /\ Await(q)
FairSpec ==
  /\ Spec
  /\ \A q \in Requests : WF_vars(Handle(q) \/ TimerFires(q) \/ Freed(q))
-----------------------------------------------------------------------------
\* Every request that has ended is counted in ReqTotal once and with the status it
\* was answered, or 499 when it went without an answer; the one exception is an
\* upstream URL that cannot be built.  UpstreamErr has the failures
\* (handler.go:162-187, 266-270, 297-312, 500-529, 550-556).
CountedOnce ==
  \A q \in Requests : At(q, "done") =>
    /\ req[q].counted =
         IF req[q].written = "none" THEN <<"499">>
         ELSE IF req[q].shape.badURL /\ req[q].written = "502" /\ req[q].rules # 0 THEN <<>>
         ELSE <<req[q].written>>
    /\ req[q].upErr = 1 <=> req[q].written \in {"403", "502", "504"}

\* requests_per_minute counts every request that has ended.  The comment in observe
\* calls it the one place that all paths of a request come to (handler.go:553-554); it
\* does not hold, since the paths of 400, 403, 499, 502 and 504 do not come to it
\* (handler.go:162-187, 266-270, 297-312).
RpmCountsAll == \A q \in Requests : At(q, "done") => req[q].rpm = 1

\* Both gauges are exact whatever way a request ends and whatever Redis answers
\* (handler.go:207-220, 331-335).
GaugesExact ==
  /\ conc = Cardinality(Held)
  /\ sse = Cardinality({q \in Requests : At(q, "stream")})

\* A request that brings no identifier has its slot until its own release or until it
\* is swept after its timeout: no other request's check or release takes it.  And no
\* request leaves a slot behind unless a call to Redis has failed (handler.go:150-153,
\* 198-225; batch_check.lua:132).  Requests that share an identifier share the slot.
SlotOfItsOwn ==
  /\ \A q \in Held : req[q].shape.id = None => ReqId(q) \in slots \cup swept
  /\ \A i \in slots : \E q \in Requests : ReqId(q) = i /\ (req[q].hold \/ req[q].leaked)

\* Tokens are charged to the rules that admitted the request, also when the response
\* outlives them (handler.go:190, 333, 409, 464, 479, 492).
ChargedAsAdmitted == \A q \in Requests : req[q].charged \subseteq {req[q].rules}

\* Resolve hands on only a URL that Validate has accepted: for this request, or for an
\* earlier one that left it in the cache of the environment (resolver.go:202-241).
ResolvedAccepted ==
  \A q \in Requests : req[q].url # None /\ req[q].hops = 0 => req[q].url \in accepted

\* A request is sent only to a URL that Validate has accepted.  The comment in forward
\* says that Resolve has decided the target and nothing after it can change it
\* (handler.go:259-265); it does not hold, since client.Do follows redirects
\* (handler.go:131-134, 292).
SentWhereAccepted ==
  \A q \in Requests : req[q].url # None => req[q].url \in accepted

\* The IP that counts is that of the peer of the outermost trusted proxy, whatever the
\* client has written into X-Forwarded-For, if the proxies hand on one line of it: only
\* the first is read (extract.go:112-149).
TrueIP == ProxiesJoin => \A q \in Requests : req[q].ip \in {None, ClientIP}

\* A request that does not ask for a stream ends, and gives its slot back, though the
\* upstream never answers or never stops; unless its client stops reading
\* (handler.go:250-257, 207-220; main.go:201-207 sets no WriteTimeout).  A request comes
\* once: if it does not stay due, it has ended.
Due(q) == req[q].timer # "off" \/ At(q, "release")
EndsInTime == \A q \in Requests : []<>(~Due(q) \/ req[q].stalled)
=============================================================================
