------------------------------ MODULE DynModule ------------------------------
(***************************************************************************)
(* The dynamic-module backend, crates/evoxy-module-sdk: the same filter    *)
(* behind Envoy's synchronous callbacks (sdk.rs).  A callback runs on the  *)
(* worker thread of its stream and blocks it until the filter's futures    *)
(* have ended (block_on), the acknowledgement of an async write included.  *)
(* A request with a body is routed twice: its cluster at the header phase, *)
(* when Envoy selects the route, and everything else when the body is      *)
(* there.                                                                  *)
(***************************************************************************)
EXTENDS Observe, FiniteSets
CONSTANTS
    Streams,      \* HTTP streams, one request each
    Workers,      \* Envoy's worker threads
    WorkersOf,    \* WorkersOf[s]: the workers stream s may be given to
    Requests      \* Requests[s]: what stream s may carry (see Headers)

ASSUME WorkersAssumption == WorkersOf \in [Streams -> SUBSET Workers]

\* build_request: the module never looks at the client's certificate.
BuildRequest(x) == [x EXCEPT !.raw.presented = FALSE, !.raw.principal = None]

\* A body goes with its headers.  (The observe surface does look at the certificate.)
ASSUME RequestsAssumption ==
    \A s \in Streams : \A x \in Requests[s] :
        /\ IsRequest(x) /\ (x.bodied \/ x.raw.body = None)
        /\ NamesTenant(BuildRequest(x).raw) /\ NamesTenant(x.raw)

VARIABLES
    sink,         \* whether the deployment wired a sink for async writes
    stream        \* stream[s]: Envoy's side and the filter instance's

vars == <<cfg, epoch, sink, stream, metrics, emit>>

\* What no callback changes, the carrying out of an order excepted.
settings == <<placing, sink, emit>>

-----------------------------------------------------------------------------
Unused == [pc |-> "idle", worker |-> None, x |-> None, committed |-> None, seen |-> None,
           looked |-> None, glanced |-> None, verdict |-> None, upstream |-> None,
           status |-> 0, before |-> None]

Init ==
    /\ PlacingInit
    /\ sink \in BOOLEAN
    /\ stream = [s \in Streams |-> Unused]
    /\ ObserveInit

\* Where a callback is under way, and its worker with it.
Running == {"observing", "resolving", "gating", "producing", "shaping"}
Idling(w) == \A s \in Streams : stream[s].worker = w => stream[s].pc \notin Running

\* What the filter is asked about; the observe surface is given the headers.
Req(t) == BuildRequest(t.x).raw

Becomes(s, t) == stream' = [stream EXCEPT ![s] = t]

\* What the filter has said is kept: `verdict` is what becomes of the request.
Told(t, verdict) == [t EXCEPT !.verdict = verdict, !.looked = None, !.glanced = None]

SendResponse(s, t, reply) ==
    Becomes(s, [Told(t, reply) EXCEPT !.pc = "decided", !.status = reply.status])

\* Mutant: an async write is processed like any other.
ConcludeSync(s, t, verdict) ==
    IF verdict.to = "local" THEN Count("rejected") /\ SendResponse(s, t, verdict)
    ELSE Count("routed") /\ Becomes(s, [Told(t, verdict) EXCEPT !.pc = "decided"])

\* SdkActions::apply, or the produce of an async write.
Conclude(s, t, verdict) ==
    IF verdict.to = "local" THEN Count("rejected") /\ SendResponse(s, t, verdict)
    ELSE IF t.x.async
    THEN Uncounted /\ Becomes(s, [Told(t, verdict) EXCEPT !.pc = "producing"])
    ELSE Count("routed") /\ Becomes(s, [Told(t, verdict) EXCEPT !.pc = "decided"])

\* process and async_write, up to the router's look-up.
Process(s, t) ==
    \E early \in {Early(cfg, sink, t.x.async, Req(t))} :
        IF early # Pass THEN Conclude(s, t, early)
        ELSE Uncounted /\ Becomes(s, [t EXCEPT !.pc = "resolving"])

\* Mutant: the header phase names the default cluster.
RouteByDefault(s, t) ==
    LET route == RouteHeaders(cfg, [Req(t) EXCEPT !.body = None])
    IN  /\ Uncounted
        /\ IF route.to = "local" THEN SendResponse(s, t, route)
           ELSE Becomes(s, [t EXCEPT
                    !.pc = "buffering",
                    !.committed = IF route.to = "cluster" THEN cfg.cluster ELSE None,
                    !.seen = epoch])

\* Mutant: the header phase counts what it refuses.
RouteRefusalCounted(s, t) ==
    LET route == RouteHeaders(cfg, [Req(t) EXCEPT !.body = None])
    IN  /\ IF route.to = "local" THEN Count("rejected") ELSE Uncounted
        /\ IF route.to = "local" THEN SendResponse(s, t, route)
           ELSE Becomes(s, [t EXCEPT
                    !.pc = "buffering",
                    !.committed = IF route.to = "cluster" THEN route.cluster ELSE None,
                    !.seen = epoch])

\* The header phase of a request with a body; a refusal here is not counted.
RouteNow(s, t) ==
    LET route == RouteHeaders(cfg, [Req(t) EXCEPT !.body = None])
    IN  /\ Uncounted
        /\ IF route.to = "local" THEN SendResponse(s, t, route)
           ELSE Becomes(s, [t EXCEPT
                    !.pc = "buffering",
                    !.committed = IF route.to = "cluster" THEN route.cluster ELSE None,
                    !.seen = epoch])

\* Who was served and who was refused so far, as clients see it.
Served  == {s \in Streams : stream[s].upstream # None \/ stream[s].status = 202}
Refused == {s \in Streams : stream[s].status \notin {0, 200, 202, 504}
                            /\ ~Reserved(stream[s].x.raw.path)}

\* A request whose body the module has not let in: its cluster is not looked up yet,
\* or it was refused at its headers.
NotLetIn(t) == t.x.bodied /\ ~t.x.async /\ t.seen = None
RefusedAtHeaders == {s \in Refused : NotLetIn(stream[s])}

\* The requests process and async_write are done with.
Settled ==
    {s \in Streams : /\ stream[s].verdict # None /\ stream[s].pc # "producing"
                     /\ ~Reserved(stream[s].x.raw.path) /\ ~NotLetIn(stream[s])}

\* A request arrives and waits for the worker it is given to.  `before` is for
\* ScrapesTell: what a scrape must know of.
Open(s, x) ==
    LET before == IF x.raw.path = MetricsPath
                  THEN [served |-> Cardinality(Served),
                        refused |-> Cardinality(Refused \ RefusedAtHeaders)]
                  ELSE None
    IN  /\ stream[s].pc = "idle"
        /\ \E w \in WorkersOf[s] : Becomes(s, [Unused EXCEPT
               !.pc = "opened", !.worker = w, !.x = x, !.before = before])
        /\ UNCHANGED <<settings, metrics>>

\* A reserved path is answered in this callback, whatever else the request is.
BeginReply(s, t) ==
    Becomes(s, [t EXCEPT !.pc = "observing", !.glanced = Unseen(t.x)])

\* reserved_reply, a step at a time.
Observing(s) ==
    LET t == stream[s]
    IN  /\ t.pc = "observing"
        /\ \E glanced \in Glances(t.x, t.glanced) :
               Becomes(s, [t EXCEPT !.glanced = glanced])
        /\ Obeys(t.x, t.glanced)
        /\ UNCHANGED <<placing, sink, metrics>>

Observed(s) ==
    LET t == stream[s]
    IN  /\ t.pc = "observing" /\ Glances(t.x, t.glanced) = {}
        /\ SendResponse(s, t, Reply(t.x, t.glanced))
        /\ UNCHANGED <<settings, metrics>>

\* Mutant: an async write always waits for a body.
OnRequestHeadersBuffering(s) ==
    LET t == stream[s]
        x == t.x
    IN  /\ t.pc = "opened" /\ Idling(stream[s].worker)
        /\ IF Reserved(x.raw.path)
           THEN Uncounted /\ BeginReply(s, t)
           ELSE IF x.async THEN Uncounted /\ Becomes(s, [t EXCEPT !.pc = "buffering"])
           ELSE IF ~x.bodied THEN Process(s, t)
           ELSE RouteNow(s, t)
        /\ UNCHANGED settings

OnRequestHeaders(s) ==
    LET t == stream[s]
        x == t.x
    IN  /\ t.pc = "opened" /\ Idling(stream[s].worker)
        /\ IF Reserved(x.raw.path)
           THEN Uncounted /\ BeginReply(s, t)
           ELSE IF ~x.bodied THEN Process(s, t)
           ELSE IF x.async THEN Uncounted /\ Becomes(s, [t EXCEPT !.pc = "buffering"])
           ELSE RouteNow(s, t)
        /\ UNCHANGED settings

\* Mutant: the body's work does not wait for the worker.
OnRequestBodySpawned(s) ==
    /\ stream[s].pc = "buffering" /\ stream[s].x.bodied
    /\ Process(s, stream[s])
    /\ UNCHANGED settings

\* The body is complete.
OnRequestBody(s) ==
    /\ stream[s].pc = "buffering" /\ stream[s].x.bodied /\ Idling(stream[s].worker)
    /\ Process(s, stream[s])
    /\ UNCHANGED settings

\* The two awaits of prepare, both inside block_on.
ResolveNow(s) ==
    /\ stream[s].pc = "resolving"
    /\ stream' = [stream EXCEPT ![s].pc = "gating", ![s].looked = Look(Req(stream[s]))]
    /\ UNCHANGED <<settings, metrics>>

\* Mutant: the epoch of the look-up is not compared.
GateByPhase(s) ==
    LET t == stream[s]
    IN  /\ t.pc = "gating"
        /\ Conclude(s, t, Verdict(cfg, Req(t), t.looked.r, Admitted(cfg, t.looked.r)))
        /\ UNCHANGED settings

\* Mutant: a write that is held is looked up again, until it is not.
GateRetrying(s) ==
    LET t == stream[s]
    IN  /\ t.pc = "gating"
        /\ IF Admits(t.looked)
           THEN Conclude(s, t, Verdict(cfg, Req(t), t.looked.r, TRUE))
           ELSE Uncounted /\ Becomes(s, [t EXCEPT !.pc = "resolving", !.looked = None])
        /\ UNCHANGED settings

\* (The verdict is bound by \E so that TLC computes it once.)
Gate(s) ==
    LET t == stream[s]
    IN  /\ t.pc = "gating"
        /\ \E verdict \in {Verdict(cfg, Req(t), t.looked.r, Admits(t.looked))} :
               Conclude(s, t, verdict)
        /\ UNCHANGED settings

\* The produce of an async write ends; send_reply counts it.
Produced(s, counter, reply) ==
    /\ stream[s].pc = "producing"
    /\ Count(counter)
    /\ stream' = [stream EXCEPT ![s].pc = "decided", ![s].status = reply.status]
    /\ UNCHANGED settings

Acknowledged(s)    == Produced(s, "routed", Accepted202)
NotAcknowledged(s) == Produced(s, "rejected", Unavailable)

\* The cluster committed at the header phase stays: a later override lands after
\* the route is chosen.
Routed(t, verdict) ==
    IF verdict.to = "upstream" /\ t.committed # None
    THEN [verdict EXCEPT !.cluster = t.committed] ELSE verdict

\* Envoy goes on from the callback: to the client with a reply that was sent, else
\* to the upstream.
Proceed(s) ==
    LET t == stream[s]
    IN  /\ t.pc = "decided"
        /\ Becomes(s, IF t.status # 0 THEN [t EXCEPT !.pc = "closed"]
                      ELSE [t EXCEPT !.pc = "upstream", !.upstream = Routed(t, t.verdict)])
        /\ UNCHANGED <<settings, metrics>>

\* The upstream's response, with a body or without one: up to two more callbacks,
\* each asking the router again, about the request line alone; the headers' first
\* looks whether their decision is wanted.
PassHeaders(s) ==
    \/ Becomes(s, [stream[s] EXCEPT !.pc = "responding"])
    \/ Becomes(s, [stream[s] EXCEPT !.pc = "closed", !.status = 200])

OnResponseHeaders(s) ==
    /\ stream[s].pc = "upstream" /\ Idling(stream[s].worker)
    /\ IF emit THEN Becomes(s, [stream[s] EXCEPT !.pc = "shaping"])
               ELSE PassHeaders(s)
    /\ UNCHANGED <<settings, metrics>>

\* (The shape goes out with the response and is not kept here.)
DecisionHeader(s) ==
    /\ stream[s].pc = "shaping"
    /\ PassHeaders(s)
    /\ UNCHANGED <<settings, metrics>>

OnResponseBody(s) ==
    /\ stream[s].pc = "responding" /\ Idling(stream[s].worker)
    /\ Becomes(s, [stream[s] EXCEPT !.pc = "closed", !.status = 200])
    /\ UNCHANGED <<settings, metrics>>

\* A timeout or a client that goes away: seen between callbacks, never in one.
GiveUp(s) ==
    /\ stream[s].pc \in {"opened", "buffering", "decided", "upstream", "responding"}
    /\ Idling(stream[s].worker)
    /\ stream' = [stream EXCEPT ![s].pc = "closed", ![s].status = 504]
    /\ UNCHANGED <<settings, metrics>>

-----------------------------------------------------------------------------
Works(s) ==
    \/ OnRequestHeaders(s) \/ OnRequestBody(s) \/ ResolveNow(s) \/ Gate(s)
    \/ Observing(s) \/ Observed(s)
    \/ Proceed(s) \/ OnResponseHeaders(s) \/ DecisionHeader(s) \/ OnResponseBody(s)

Produces(s) == Acknowledged(s) \/ NotAcknowledged(s)

Next ==
    \/ Move /\ UNCHANGED <<sink, stream, metrics, emit>>
    \/ \E s \in Streams :
         \/ \E x \in Requests[s] : Open(s, x)
         \/ Works(s) \/ Produces(s) \/ GiveUp(s)

\* Bodies and upstream responses arrive, callbacks are called and return; the
\* broker behind the sink owes nobody an answer.
Fairness == \A s \in Streams : WF_vars(Works(s))

Spec == Init /\ [][Next]_vars /\ Fairness

-----------------------------------------------------------------------------
(* Properties.                                                              *)

Exchanged(t) ==
    [pc |-> IF t.pc = "idle" THEN "idle" ELSE IF t.verdict # None THEN "decided"
            ELSE IF t.pc = "gating" THEN "looked" ELSE "open",
     x |-> IF t.pc = "idle" THEN None ELSE BuildRequest(t.x),
     looked |-> t.looked, outcome |-> t.verdict,
     upstream |-> IF t.upstream = None THEN None ELSE t.verdict,
     gone |-> t.pc = "closed"]

Exchanges == [s \in Streams |-> Exchanged(stream[s])]

Built == [s \in Streams |-> {BuildRequest(x) : x \in Requests[s]}]

Backend == INSTANCE Exchange WITH exchange <- Exchanges, Requests <- Built

\* The callbacks, the buffering between them and the async path amount to one
\* decision per request and at most one forward, of that decision (sdk.rs); the
\* cluster it is sent to is SplitOnlyByMove's.
ImplementsExchange == Backend!Spec

\* Type correctness: at most one callback runs on a worker.
TypeOK ==
    /\ epoch \in [Partitions -> Nat]
    /\ metrics \in [Counters -> Nat] /\ emit \in BOOLEAN
    /\ \A s \in Streams :
         /\ stream[s].pc \in Running \cup
                {"idle", "opened", "buffering", "decided", "upstream", "responding", "closed"}
         /\ stream[s].pc = "producing" => stream[s].x.async /\ sink
         /\ stream[s].upstream # None => stream[s].verdict.to # "local"
    /\ \A s, t \in Streams :
         s # t /\ stream[s].worker = stream[t].worker =>
             ~(stream[s].pc \in Running /\ stream[t].pc \in Running)

\* The cluster chosen at the header phase and the decision of the body phase are
\* taken at two moments by two routes through the code (route_headers and handle);
\* they part company only when the tenant was moved in between.
SplitOnlyByMove ==
    [][\A s \in Streams :
          LET was == stream[s]
              t   == stream'[s]
          IN  /\ was.pc = "gating" /\ t.pc # "gating" /\ t.verdict.to = "upstream"
              /\ was.committed \notin {None, t.verdict.cluster}
              => was.looked.epoch # was.seen[was.looked.r.partition]]_vars

\* The gate of the body phase holds whatever the header phase has committed: a
\* write's own decision is for its tenant's placement of that moment.
StaleWritesHeld ==
    [][\A s \in Streams :
          LET was == stream[s]
              t   == stream'[s]
          IN  /\ was.pc = "gating" /\ t.pc # "gating" /\ t.verdict.to = "upstream"
              /\ IsWriteRequest(RewriteForPath(cfg, Req(was)))
              => MeetsPlacement(was.looked, t.verdict)]_vars

\* /_evoxy/metrics against what became of the requests: every one that process or
\* async_write has ended is counted, once, whoever gave up on it and when, although
\* one with a body passes the router twice; what clients were answered is in the
\* counter it belongs to.  One that is refused at its headers, with a body to come, is
\* in neither (on_request_headers applies that refusal and records nothing).
CountersTell ==
    /\ Cardinality(Served) <= metrics.routed
    /\ Cardinality(Refused \ RefusedAtHeaders) <= metrics.rejected
    /\ metrics.routed + metrics.rejected = Cardinality(Settled)

\* What a scrape reports is consistent with what clients had seen when it began,
\* and invents no request, although its two counters are read one after the other
\* while the callbacks of other workers go on counting (snapshot_json).
ScrapesTell ==
    \A s \in Streams :
        LET reply == stream[s].verdict
        IN  reply # None /\ stream[s].before # None =>
                ScrapeTells(reply.code, stream[s].before.served, stream[s].before.refused,
                            Cardinality(Settled))

\* Once no directive is being carried out, the one in force is one that was
\* confirmed, or the first one: callbacks of several workers may undo each other's
\* orders, but none confirms a setting that nobody has (admin_reply).
Directing ==
    {s \in Streams : /\ stream[s].pc # "idle" /\ stream[s].x.raw.path = AdminPath
                     /\ Authorized(stream[s].x)}
Confirmed == {stream[s].verdict.code : s \in {r \in Directing : stream[r].verdict # None}}

DirectiveInForce ==
    (\A s \in Directing : stream[s].pc # "observing") => InForce(Confirmed)

\* The route an explanation promises a write is the one its tenant has at the
\* moment the explanation is given, out of cutover, although it was looked up
\* earlier in the same callback (the two awaits of Filter::explain).
ExplainsGated ==
    [][\A s \in Streams :
          LET was == stream[s]
              now == stream'[s].verdict
          IN  /\ was.pc = "observing" /\ now # None /\ Explains(was.x.raw.path)
              /\ now.code.to = "route" /\ IsWriteRequest(Target(was.x))
              => MeetsPlacement(was.glanced, was.glanced.r)]_vars

\* A stream that can take its next step: a callback that is under way, the producing
\* one excepted, or one that may be called because nothing else runs on the worker.
Ready(s) ==
    \/ stream[s].pc \in {"observing", "resolving", "gating", "decided", "shaping"}
    \/ /\ Idling(stream[s].worker)
       /\ \/ stream[s].pc \in {"opened", "upstream", "responding"}
          \/ stream[s].pc = "buffering" /\ stream[s].x.bodied

\* No stream waits for nothing: on its worker there is a step to take, or a produce that
\* waits for the broker.  A request is held back at its headers only for a body that
\* comes, and a callback waits for no other (on_request_headers, block_on).
NobodyStuck ==
    \A s \in Streams : stream[s].pc \notin {"idle", "closed"} =>
        \E r \in Streams : /\ stream[r].worker = stream[s].worker
                           /\ Ready(r) \/ stream[r].pc = "producing"

\* How far a stream is from its end: the callbacks and the steps of a callback
\* ahead of it, and the steps of a reply on a reserved path.
StepsAhead(t) ==
    [idle |-> 10, opened |-> 9, buffering |-> 8, observing |-> 7, resolving |-> 7,
     gating |-> 6, producing |-> 5, decided |-> 4, upstream |-> 3, shaping |-> 2,
     responding |-> 1, closed |-> 0][t.pc]

\* Whatever happens to a stream takes it nearer to its end: a request with a body is
\* routed twice but decided once, a write that the gate refuses is not tried again
\* inside the callback that blocks its worker, and a reply has a last step.
StreamsProgress ==
    [][\A s \in Streams :
          LET was == stream[s]
              now == stream'[s]
          IN  \/ now = was
              \/ StepsAhead(now) < StepsAhead(was)
              \/ /\ was.pc = "observing" /\ now.pc = "observing"
                 /\ GlancesAhead(now.x, now.glanced) < GlancesAhead(was.x, was.glanced)]_vars

\* Every stream is answered, unless its worker waits for a broker forever: a
\* produce that is never acknowledged blocks the thread it runs on (with_async_sink)
\* and the streams of no other.
Blocked(w) == \E s \in Streams : stream[s].worker = w /\ stream[s].pc = "producing"

AnsweredUnlessBlocked ==
    \A s \in Streams :
        \/ stream[s].pc # "idle" ~> stream[s].pc = "closed"
        \/ <>[]Blocked(stream[s].worker)
=============================================================================
