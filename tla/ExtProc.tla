------------------------------- MODULE ExtProc -------------------------------
(***************************************************************************)
(* The ext_proc backend, crates/evoxy-extproc: one task per gRPC stream    *)
(* (service.rs), which reads a message, runs process_message (lib.rs) on   *)
(* it and sends one answer back.  Envoy is external: it sends the phases   *)
(* of one HTTP request one after the other (bodies buffered), waits for    *)
(* the answer to each, applies it, and may stop waiting at any time; the   *)
(* task does not notice before it sends or reads again.                    *)
(***************************************************************************)
EXTENDS Observe, FiniteSets
CONSTANTS
    Streams,      \* gRPC streams, one HTTP request each
    Requests      \* Requests[s]: what Envoy may open stream s for (see Headers)

\* A body goes with its headers.
ASSUME RequestsAssumption ==
    \A s \in Streams : \A x \in Requests[s] :
        IsRequest(x) /\ NamesTenant(x.raw) /\ (x.bodied \/ x.raw.body = None)

VARIABLES
    sink,         \* whether the deployment wired a sink for async writes
    envoy,        \* envoy[s]: Envoy's side of stream s
    task          \* task[s]: the task of stream s

vars == <<cfg, epoch, sink, envoy, task, metrics, emit>>

\* What no step of a stream changes, the carrying out of an order excepted.
settings == <<placing, sink, emit>>

-----------------------------------------------------------------------------
(* Messages: a phase with its content one way, an answer the other way. The *)
(* answer's kind is the variant of the response oneof.                      *)

Message(phase, x) ==
    [phase |-> phase,
     content |-> CASE phase = "request_headers" -> Headers(x)
                   [] phase = "request_body"    -> x.raw.body
                   [] OTHER                     -> None]

Answer(kind, what) == [kind |-> kind, what |-> what]
Continue(phase)    == Answer(phase, None)

RequestPhases(x) ==
    <<"request_headers">> \o (IF x.bodied   THEN <<"request_body">>     ELSE <<>>)
                          \o (IF x.trailers THEN <<"request_trailers">> ELSE <<>>)

NoEnvoy == [pc |-> "idle", x |-> None, done |-> 0, phase |-> None, inbox |-> None,
            held |-> None, upstream |-> None, status |-> 0, before |-> None]
NoTask  == [pc |-> "none", inbox |-> None, headers |-> None, req |-> None,
            phase |-> None, looked |-> None, seen |-> None, verdict |-> None]

Init ==
    /\ PlacingInit
    /\ sink \in BOOLEAN
    /\ envoy = [s \in Streams |-> NoEnvoy]
    /\ task = [s \in Streams |-> NoTask]
    /\ ObserveInit

Closed(s) == envoy[s].pc = "closed"

-----------------------------------------------------------------------------
(* The task.                                                                *)

\* Mutant: the channel's end is not looked at.
SendRegardless(s, t, answer) ==
    /\ task' = [task EXCEPT ![s] = [t EXCEPT !.inbox = None, !.pc = "reading"]]
    /\ envoy' = [envoy EXCEPT ![s].inbox = answer]

\* tx.send: an error, the stream being gone, ends the task.
Send(s, t, answer) ==
    /\ task' = [task EXCEPT ![s] =
           [t EXCEPT !.inbox = None, !.pc = IF Closed(s) THEN "ended" ELSE "reading"]]
    /\ envoy' = IF Closed(s) THEN envoy ELSE [envoy EXCEPT ![s].inbox = answer]

\* The filter has spoken; what it was asked is not needed any more.
Told(t, verdict) == [t EXCEPT !.verdict = verdict, !.req = None, !.phase = None,
                              !.looked = None, !.seen = None]

SendReply(s, t, reply) == Send(s, Told(t, reply), Answer("immediate", reply))

\* An async write waits for its record, anything else goes back to Envoy.
BeginProduce(s, t, verdict) ==
    /\ task' = [task EXCEPT ![s] =
           [Told(t, verdict) EXCEPT !.inbox = None, !.pc = "producing"]]
    /\ UNCHANGED <<envoy, metrics>>

SendMutation(s, t, verdict, kind) ==
    Count("routed") /\ Send(s, Told(t, verdict), Answer(kind, verdict))

\* Mutant: every answer is a body answer.
ConcludeAsBody(s, t, verdict) ==
    IF verdict.to = "local" THEN Count("rejected") /\ SendReply(s, t, verdict)
    ELSE IF t.headers.async THEN BeginProduce(s, t, verdict)
    ELSE SendMutation(s, t, verdict, "request_body")

\* Mutant: an async write is finalized like any other.
ConcludeSync(s, t, verdict) ==
    IF verdict.to = "local" THEN Count("rejected") /\ SendReply(s, t, verdict)
    ELSE SendMutation(s, t, verdict, t.phase)

\* finalize and finalize_async, once the filter has spoken.
Conclude(s, t, verdict) ==
    IF verdict.to = "local" THEN Count("rejected") /\ SendReply(s, t, verdict)
    ELSE IF t.headers.async THEN BeginProduce(s, t, verdict)
    ELSE SendMutation(s, t, verdict, t.phase)

\* dispatch_write, up to the first await: the router's look-up.
DispatchWrite(s, t, phase, body) ==
    LET req   == [t.headers.raw EXCEPT !.body = body]
        known == [t EXCEPT !.req = req, !.phase = phase]
    IN  \E early \in {Early(cfg, sink, t.headers.async, req)} :
            IF early # Pass THEN Conclude(s, known, early)
            ELSE /\ task' = [task EXCEPT ![s] =
                       [known EXCEPT !.inbox = None, !.pc = "resolving"]]
                 /\ UNCHANGED <<envoy, metrics>>

Reads(s, phase) ==
    /\ task[s].pc = "reading"
    /\ task[s].inbox # None
    /\ task[s].inbox.phase = phase

\* A reserved path is answered here, whatever else the request is.
BeginReply(s, t) ==
    /\ task' = [task EXCEPT ![s] =
           [t EXCEPT !.inbox = None, !.pc = "observing", !.seen = Unseen(t.headers)]]
    /\ UNCHANGED envoy

\* Mutant: a request with a body is finalized at its headers as well.
OnRequestHeadersTwice(s) ==
    LET x == task[s].inbox.content
        t == [task[s] EXCEPT !.headers = x]
    IN  /\ Reads(s, "request_headers")
        /\ IF Reserved(x.raw.path)
           THEN Uncounted /\ BeginReply(s, t)
           ELSE IF x.bodied
           THEN Count("routed") /\ Send(s, t, Continue("request_headers"))
           ELSE DispatchWrite(s, t, "request_headers", None)
        /\ UNCHANGED settings

OnRequestHeaders(s) ==
    LET x == task[s].inbox.content
        t == [task[s] EXCEPT !.headers = x]
    IN  /\ Reads(s, "request_headers")
        /\ IF Reserved(x.raw.path)
           THEN Uncounted /\ BeginReply(s, t)
           ELSE IF x.bodied
           THEN Uncounted /\ Send(s, t, Continue("request_headers"))
           ELSE DispatchWrite(s, t, "request_headers", None)
        /\ UNCHANGED settings

OnRequestBody(s) ==
    LET t == task[s]
    IN  /\ Reads(s, "request_body")
        /\ IF t.headers.big
           THEN Count("rejected") /\ SendReply(s, t, Immediate(413, "payload_too_large"))
           ELSE DispatchWrite(s, t, "request_body", t.inbox.content)
        /\ UNCHANGED settings

\* Mutant: trailers, which need nothing done, are not answered.
OnRequestTrailersSilently(s) ==
    /\ Reads(s, "request_trailers")
    /\ task' = [task EXCEPT ![s].inbox = None]
    /\ UNCHANGED <<settings, envoy, metrics>>

OnRequestTrailers(s) ==
    /\ Reads(s, "request_trailers")
    /\ Send(s, task[s], Continue("request_trailers"))
    /\ UNCHANGED <<settings, metrics>>

\* reserved_reply, a step at a time.
Observing(s) ==
    LET t == task[s]
    IN  /\ t.pc = "observing"
        /\ \E seen \in Glances(t.headers, t.seen) :
               task' = [task EXCEPT ![s].seen = seen]
        /\ Obeys(t.headers, t.seen)
        /\ UNCHANGED <<placing, sink, envoy, metrics>>

Observed(s) ==
    LET t == task[s]
    IN  /\ t.pc = "observing" /\ Glances(t.headers, t.seen) = {}
        /\ SendReply(s, t, Reply(t.headers, t.seen))
        /\ UNCHANGED <<settings, metrics>>

\* The response phases ask the router again, about the request line alone; the
\* headers' first looks whether their decision is wanted.
OnResponseHeaders(s) ==
    /\ Reads(s, "response_headers")
    /\ IF emit
       THEN /\ task' = [task EXCEPT ![s].pc = "shaping", ![s].inbox = None]
            /\ UNCHANGED envoy
       ELSE Send(s, task[s], Continue("response_headers"))
    /\ UNCHANGED <<settings, metrics>>

DecisionHeader(s) ==
    LET decision == DecisionShapeOf(cfg, task[s].headers.raw)
    IN  /\ task[s].pc = "shaping"
        /\ Send(s, task[s], Answer("response_headers", decision))
        /\ UNCHANGED <<settings, metrics>>

OnResponseBody(s) ==
    LET shaped == ShapeResponse(cfg, task[s].headers.raw, <<>>)
    IN  /\ Reads(s, "response_body")
        /\ Send(s, task[s], Answer("response_body", shaped))
        /\ UNCHANGED <<settings, metrics>>

OnResponseTrailers(s) ==
    /\ Reads(s, "response_trailers")
    /\ Send(s, task[s], Continue("response_trailers"))
    /\ UNCHANGED <<settings, metrics>>

\* The two awaits of prepare.
ResolveNow(s) ==
    /\ task[s].pc = "resolving"
    /\ task' = [task EXCEPT ![s].pc = "gating", ![s].looked = Look(task[s].req)]
    /\ UNCHANGED <<settings, envoy, metrics>>

\* Mutant: the gate is asked without the epoch of the look-up.
GateByPhase(s) ==
    LET t == task[s]
    IN  /\ t.pc = "gating"
        /\ Conclude(s, t, Verdict(cfg, t.req, t.looked.r, Admitted(cfg, t.looked.r)))
        /\ UNCHANGED settings

\* Mutant: a write that is held is looked up again, until it is not.
GateRetrying(s) ==
    LET t == task[s]
    IN  /\ t.pc = "gating"
        /\ IF Admits(t.looked)
           THEN Conclude(s, t, Verdict(cfg, t.req, t.looked.r, TRUE))
           ELSE /\ task' = [task EXCEPT ![s].pc = "resolving", ![s].looked = None]
                /\ UNCHANGED <<envoy, metrics>>
        /\ UNCHANGED settings

\* (The verdict is bound by \E so that TLC computes it once.)
Gate(s) ==
    LET t == task[s]
    IN  /\ t.pc = "gating"
        /\ \E verdict \in {Verdict(cfg, t.req, t.looked.r, Admits(t.looked))} :
               Conclude(s, t, verdict)
        /\ UNCHANGED settings

\* The produce of an async write ends, one way or the other.
Produced(s, counter, reply) ==
    /\ task[s].pc = "producing"
    /\ Count(counter)
    /\ Send(s, task[s], Answer("immediate", reply))
    /\ UNCHANGED settings

Acknowledged(s)    == Produced(s, "routed", Accepted202)
NotAcknowledged(s) == Produced(s, "rejected", Unavailable)

\* Mutant: a closed stream is not noticed.
EndOnlyUnopened(s) ==
    /\ task[s].pc = "reading" /\ Closed(s) /\ task[s].headers = None
    /\ task' = [task EXCEPT ![s].pc = "ended", ![s].inbox = None]
    /\ UNCHANGED <<settings, envoy, metrics>>

\* inbound.message() has no more, or an error: Envoy has closed the stream, and
\* nobody is left to receive the error passed on.
End(s) ==
    /\ task[s].pc = "reading" /\ Closed(s)
    /\ task' = [task EXCEPT ![s].pc = "ended", ![s].inbox = None]
    /\ UNCHANGED <<settings, envoy, metrics>>

-----------------------------------------------------------------------------
(* Envoy.                                                                   *)

\* Envoy sends a phase and waits for the answer to it.
Await(s, e, phase) ==
    /\ envoy' = [envoy EXCEPT ![s] = [e EXCEPT !.pc = "waiting", !.phase = phase,
                                               !.inbox = None]]
    /\ task' = [task EXCEPT ![s] = [@ EXCEPT !.pc = "reading",
                                             !.inbox = Message(phase, e.x)]]

Close(s, status) ==
    envoy' = [envoy EXCEPT ![s] = [NoEnvoy EXCEPT
        !.pc = "closed", !.status = status, !.x = envoy[s].x,
        !.upstream = envoy[s].upstream, !.before = envoy[s].before]]

\* Who was served and who was refused so far, as clients see it.
Served  == {s \in Streams : envoy[s].upstream # None \/ envoy[s].status = 202}
Refused == {s \in Streams : envoy[s].status \notin {0, 200, 202, 504}
                            /\ ~Reserved(envoy[s].x.raw.path)}
Counted == {s \in Streams : envoy[s].pc # "idle" /\ ~Reserved(envoy[s].x.raw.path)}

\* `before` is for ScrapesTell: what a scrape must know of.
OpenStream(s, x) ==
    LET before == IF x.raw.path = MetricsPath
                  THEN [served |-> Cardinality(Served), refused |-> Cardinality(Refused)]
                  ELSE None
    IN  /\ envoy[s].pc = "idle"
        /\ Await(s, [envoy[s] EXCEPT !.x = x, !.before = before], "request_headers")
        /\ UNCHANGED <<settings, metrics>>

Got(s, kind) ==
    /\ envoy[s].pc = "waiting" /\ envoy[s].inbox # None
    /\ envoy[s].inbox.kind = kind

TakeReply(s) ==
    /\ Got(s, "immediate")
    /\ Close(s, envoy[s].inbox.what.status)
    /\ UNCHANGED <<settings, task, metrics>>

\* The answer to a request phase: on to the next phase, or to the upstream.
TakeMutation(s) ==
    LET e    == envoy[s]
        plan == RequestPhases(e.x)
        next == e.done + 1
        held == IF e.inbox.what # None THEN e.inbox.what ELSE e.held
        now  == [e EXCEPT !.done = next, !.held = held]
    IN  /\ e.pc = "waiting" /\ next <= Len(plan)
        /\ Got(s, plan[next])
        /\ IF next < Len(plan)
           THEN Await(s, now, plan[next + 1])
           ELSE /\ envoy' = [envoy EXCEPT ![s] = [now EXCEPT
                        !.pc = "upstream", !.phase = None, !.inbox = None,
                        !.held = None, !.upstream = held]]
                /\ UNCHANGED task
        /\ UNCHANGED <<settings, metrics>>

UpstreamResponds(s) ==
    /\ envoy[s].pc = "upstream"
    /\ Await(s, envoy[s], "response_headers")
    /\ UNCHANGED <<settings, metrics>>

\* The upstream's response may have a body, and its body trailers.
TakeResponse(s) ==
    /\ \/ Got(s, "response_headers") /\ Await(s, envoy[s], "response_body")
       \/ Got(s, "response_body")    /\ Await(s, envoy[s], "response_trailers")
    /\ UNCHANGED <<settings, metrics>>

FinishResponse(s) ==
    /\ \/ Got(s, "response_headers") \/ Got(s, "response_body")
       \/ Got(s, "response_trailers")
    /\ Close(s, 200)
    /\ UNCHANGED <<settings, task, metrics>>

\* A message timeout, an upstream timeout, or a client that goes away.
GiveUp(s) ==
    /\ envoy[s].pc \in {"waiting", "upstream"}
    /\ Close(s, 504)
    /\ UNCHANGED <<settings, task, metrics>>

-----------------------------------------------------------------------------
Handles(s) ==
    \/ OnRequestHeaders(s) \/ OnRequestBody(s) \/ OnRequestTrailers(s)
    \/ OnResponseHeaders(s) \/ OnResponseBody(s) \/ OnResponseTrailers(s)
    \/ Observing(s) \/ Observed(s) \/ DecisionHeader(s)
    \/ ResolveNow(s) \/ Gate(s) \/ End(s)

Produces(s) == Acknowledged(s) \/ NotAcknowledged(s)

Takes(s) ==
    \/ TakeReply(s) \/ TakeMutation(s) \/ UpstreamResponds(s)
    \/ TakeResponse(s) \/ FinishResponse(s)

Works(s) == Handles(s) \/ Produces(s) \/ Takes(s)

Next ==
    \/ Move /\ UNCHANGED <<sink, envoy, task, metrics, emit>>
    \/ \E s \in Streams :
         \/ \E x \in Requests[s] : OpenStream(s, x)
         \/ Works(s) \/ GiveUp(s)

\* A stream does not stand still: a runnable task is run, the sink answers in
\* the end (there is no timeout around it), and so do Envoy and the upstream.
Fairness == \A s \in Streams : WF_vars(Works(s))

Spec == Init /\ [][Next]_vars /\ Fairness

-----------------------------------------------------------------------------
(* Properties.                                                              *)

Exchanged(e, t) ==
    [pc |-> IF e.pc = "idle" THEN "idle"
            ELSE IF t.verdict # None THEN "decided"
            ELSE IF t.pc = "gating" THEN "looked" ELSE "open",
     x |-> e.x, looked |-> t.looked, outcome |-> t.verdict,
     upstream |-> e.upstream, gone |-> e.pc = "closed"]

Exchanges == [s \in Streams |-> Exchanged(envoy[s], task[s])]

Backend == INSTANCE Exchange WITH exchange <- Exchanges

\* The whole protocol of phases, buffered headers, body cap, reserved paths and
\* async writes amounts to one decision per request, taken on the whole request,
\* and to at most one forward, of what was decided (process_message, service.rs).
ImplementsExchange == Backend!Spec

TaskPlaces == {"none", "reading", "observing", "resolving", "gating", "producing",
               "shaping", "ended"}

\* Type correctness: where the task and Envoy may be in relation to each other.
TypeOK ==
    /\ epoch \in [Partitions -> Nat]
    /\ metrics \in [Counters -> Nat] /\ emit \in BOOLEAN
    /\ \A s \in Streams :
         /\ envoy[s].pc \in {"idle", "waiting", "upstream", "closed"}
         /\ task[s].pc \in TaskPlaces
         /\ task[s].inbox # None => task[s].pc = "reading" /\ envoy[s].inbox = None
         /\ task[s].pc = "ended" => Closed(s)
         /\ Closed(s) => envoy[s].inbox = None
         /\ envoy[s].pc = "upstream" => task[s].pc = "reading"

\* Every answer Envoy finds is an immediate reply or carries the variant of the
\* phase it waits for: the task's place in the protocol and Envoy's never come
\* apart, though the variant is chosen where the answer is built (finalize's
\* Phase) and not where the message is read.
AnswersMatch ==
    \A s \in Streams : envoy[s].pc = "waiting" /\ envoy[s].inbox # None =>
        envoy[s].inbox.kind \in {envoy[s].phase, "immediate"}

\* /_evoxy/metrics against what clients saw: whatever reached an upstream or was
\* accepted is in `routed`, every refusal a client received is in `rejected`, and
\* no request is counted twice, whoever gave up on it and when.
CountersTell ==
    /\ Cardinality(Served) <= metrics.routed
    /\ Cardinality(Refused) <= metrics.rejected
    /\ metrics.routed + metrics.rejected <= Cardinality(Counted)

\* What a scrape reports is consistent with what clients had seen when it began,
\* and invents no request, although its two counters are read one after the other
\* while other streams go on counting (snapshot_json).
ScrapesTell ==
    \A s \in Streams :
        LET reply == task[s].verdict
        IN  reply # None /\ envoy[s].before # None =>
                ScrapeTells(reply.code, envoy[s].before.served, envoy[s].before.refused,
                            Cardinality(Counted))

\* Once no directive is under way, the one in force is one that was confirmed:
\* orders that overtake each other may undo one another, but an operator who is
\* told so is not told a setting that nobody has (admin_reply).
Ordering  == {s \in Streams : envoy[s].pc # "idle" /\ envoy[s].x.raw.path = AdminPath}
Confirmed == {task[s].verdict.code :
                 s \in {r \in Ordering : Authorized(envoy[r].x)}}

DirectiveInForce ==
    (\A s \in Ordering : task[s].verdict # None) => InForce(Confirmed)

\* The route an explanation promises a write is the one its tenant has at the
\* moment the explanation is given, out of cutover, although it was looked up
\* earlier (the two awaits of Filter::explain).
ExplainsGated ==
    [][\A s \in Streams :
          LET was == task[s]
              now == task'[s].verdict
          IN  /\ was.pc = "observing" /\ now # None /\ Explains(was.headers.raw.path)
              /\ now.code.to = "route" /\ IsWriteRequest(Target(was.headers))
              => MeetsPlacement(was.seen, was.seen.r)]_vars

\* A write is let go only for the placement its tenant has at that moment, and
\* never in cutover, although the placement may have changed since it was looked
\* up (the two awaits of prepare).
StaleWritesHeld ==
    [][\A s \in Streams :
          LET t == task'[s]
              was == task[s]
          IN  /\ was.pc = "gating" /\ t.pc # "gating" /\ t.verdict.to = "upstream"
              /\ IsWriteRequest(RewriteForPath(cfg, was.req))
              => MeetsPlacement(was.looked, t.verdict)]_vars

\* A stream is the task's turn or Envoy's, never both and never nobody's, until both
\* have come to their end: there is an answer for every message, one that Envoy can
\* apply where it stands, and a task that is left behind notices (service.rs).
TasksTurn(s) ==
    \/ task[s].pc \in {"observing", "resolving", "gating", "producing", "shaping"}
    \/ task[s].pc = "reading" /\ (task[s].inbox # None \/ Closed(s))

EnvoysTurn(s) ==
    LET e    == envoy[s]
        plan == RequestPhases(e.x)
    IN  \/ e.pc = "upstream"
        \/ /\ e.pc = "waiting" /\ e.inbox # None
           /\ \/ e.inbox.kind = "immediate"
              \/ e.done < Len(plan) /\ e.inbox.kind = plan[e.done + 1]
              \/ e.inbox.kind \in {"response_headers", "response_body",
                                   "response_trailers"}

TurnsTaken ==
    \A s \in Streams : envoy[s].pc # "idle" /\ task[s].pc # "ended" =>
        TasksTurn(s) # EnvoysTurn(s)

\* How far a stream is from its end: the phases ahead of Envoy, and the task's work
\* on the message it has.
PhasesAhead(e) ==
    CASE e.pc = "idle"     -> 8
      [] e.pc = "upstream" -> 4
      [] e.pc = "closed"   -> 0
      [] OTHER -> [request_headers  |-> 7, request_body  |-> 6, request_trailers  |-> 5,
                   response_headers |-> 3, response_body |-> 2, response_trailers |-> 1][e.phase]

WorkAhead(t) ==
    CASE t.pc \in {"none", "ended"} -> 0
      [] t.pc = "reading" ->
             IF t.inbox = None THEN 1
             ELSE IF t.inbox.phase = "request_headers" THEN 5 + Len(t.inbox.content.orders)
             ELSE 5
      [] t.pc = "resolving" -> 4
      [] t.pc = "gating"    -> 3
      [] t.pc \in {"producing", "shaping"} -> 2
      [] t.pc = "observing" -> 2 + GlancesAhead(t.headers, t.seen)

\* Whatever happens to a stream takes it nearer to its end: no phase is met twice, no
\* step of the task is repeated, and there is a bound to the steps of a request, moves
\* of its tenant and orders of others notwithstanding (process_message, service.rs).
StreamsProgress ==
    [][\A s \in Streams :
          \/ UNCHANGED <<envoy[s], task[s]>>
          \/ PhasesAhead(envoy'[s]) < PhasesAhead(envoy[s])
          \/ /\ PhasesAhead(envoy'[s]) = PhasesAhead(envoy[s])
             /\ WorkAhead(task'[s]) < WorkAhead(task[s])]_vars

\* Every stream comes to its end on both sides: the client is answered, or has
\* given up, and the task that served it ends (service.rs, the loop's breaks).
StreamsEnd ==
    \A s \in Streams :
        envoy[s].pc # "idle" ~> Closed(s) /\ task[s].pc = "ended"
=============================================================================
