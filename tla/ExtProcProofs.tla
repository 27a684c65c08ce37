---------------------------- MODULE ExtProcProofs ----------------------------
(***************************************************************************)
(* Proofs about the ext_proc backend, for any streams, requests and moves  *)
(* of tenants: where the task and Envoy may be, that no write leaves for a *)
(* placement which has changed since it was looked up, that what clients   *)
(* see is one exchange each, that the counters, and a scrape of them, tell *)
(* what they saw, and that a stream goes on until it ends.                 *)
(***************************************************************************)
EXTENDS ExtProc, BackendProofs

EnvoyFields == {"pc", "x", "done", "phase", "inbox", "held", "upstream", "status", "before"}
TaskFields  == {"pc", "inbox", "headers", "req", "phase", "looked", "seen", "verdict"}
RawFields   == {"method", "path", "header", "presented", "principal", "body"}

\* The task has kept the headers of a request the stream was opened for.
Known(s, headers) == \E x \in Requests[s] : headers = Headers(x)

\* The request line of such a request, and a body.
Filled(s, req) == \E x \in Requests[s] : \E body : req = [x.raw EXCEPT !.body = body]

\* Where a task is at work on a message.
Busy == {"observing", "resolving", "gating", "producing", "shaping"}

\* The kind of an answer Envoy may be given while it waits.
Fits(e, kind) == e.pc = "waiting" => kind \in {e.phase, "immediate"}

\* The phase a task is at work on is the one Envoy waits for.
InStep(e, phase) == e.pc = "waiting" => phase = e.phase

\* Of stream s, the two sides together: e is Envoy's, t is the task's.
Pair(s, e, t) ==
    /\ IsRecord(e, EnvoyFields) /\ IsRecord(t, TaskFields)
    /\ e.pc \in {"idle", "waiting", "upstream", "closed"}
    /\ t.pc \in TaskPlaces
    /\ e.pc = "idle" => t.pc = "none"
    /\ e.pc = "upstream" => t.pc = "reading"
    /\ t.pc = "ended" => e.pc = "closed"
    /\ t.inbox # None =>
          t.pc = "reading" /\ e.inbox = None /\ e.pc \in {"waiting", "closed"}
    /\ e.inbox # None => t.pc = "reading" /\ e.pc = "waiting"
    /\ e.pc # "idle" => e.x \in Requests[s]
    /\ t.inbox # None =>
          Known(s, IF t.inbox.phase = "request_headers" THEN t.inbox.content
                                                        ELSE t.headers)
    /\ (\/ e.inbox # None
        \/ e.pc = "upstream"
        \/ t.pc \in Busy) => Known(s, t.headers)
    /\ t.pc \in {"resolving", "gating"} => Filled(s, t.req)
    /\ t.pc = "observing" => Ordered(t.headers, t.seen)
    /\ t.inbox # None => InStep(e, t.inbox.phase)
    /\ t.pc \in {"resolving", "gating"} => InStep(e, t.phase)
    /\ t.pc = "shaping" => InStep(e, "response_headers")
    /\ e.inbox # None => Fits(e, e.inbox.kind)

Inv ==
    /\ PlacingInv
    /\ Surface
    /\ IsRecord(envoy, Streams) /\ IsRecord(task, Streams)
    /\ \A s \in Streams : Pair(s, envoy[s], task[s])
    /\ \A s \in Streams : task[s].pc = "gating" => LookedInv(task[s].looked)

-----------------------------------------------------------------------------
\* A step of one stream keeps the invariant if it keeps it of that stream.
LEMMA OneStream ==
    ASSUME Inv, NEW s \in Streams, NEW e, NEW t, UNCHANGED placing,
           envoy' = [envoy EXCEPT ![s] = e], task' = [task EXCEPT ![s] = t],
           Surface', Pair(s, e, t),
           t.pc = "gating" => LookedInv(t.looked)
    PROVE  Inv'
  <1>1. IsRecord(envoy', Streams) /\ IsRecord(task', Streams)
    BY DEF Inv, IsRecord
  <1>2. envoy'[s] = e /\ task'[s] = t
    BY DEF Inv, IsRecord
  <1>3. \A r \in Streams \ {s} : envoy'[r] = envoy[r] /\ task'[r] = task[r]
    BY DEF Inv, IsRecord
  <1>4. PlacingInv'
    BY DEF Inv, PlacingInv, placing
  <1>5. ASSUME NEW r \in Streams PROVE Pair(r, envoy'[r], task'[r])
    BY <1>2, <1>3 DEF Inv
  <1>6. ASSUME NEW r \in Streams, task'[r].pc = "gating"
        PROVE  LookedInv(task[r].looked)'
    <2>1. LookedInv(task'[r].looked)
      BY <1>2, <1>3, <1>6 DEF Inv
    <2>2. cfg' = cfg /\ epoch' = epoch
      BY DEF placing
    <2>3. QED
      BY <2>1, <2>2 DEF LookedInv, Fresh, ClusterFor
  <1>7. QED
    BY <1>1, <1>4, <1>5, <1>6 DEF Inv, Pair

\* What the task says changes neither its shape nor the headers it has kept.
LEMMA ToldKeeps ==
    ASSUME NEW t, NEW verdict, IsRecord(t, TaskFields)
    PROVE  /\ IsRecord(Told(t, verdict), TaskFields)
           /\ Told(t, verdict).headers = t.headers
           /\ Told(t, verdict).verdict = verdict
  BY DEF Told, IsRecord, TaskFields

\* The task answers and reads on, or ends on a stream that is gone (Send).
LEMMA SendKeeps ==
    ASSUME Inv, NEW s \in Streams, NEW t, NEW answer, Send(s, t, answer),
           IsRecord(t, TaskFields), Known(s, t.headers),
           envoy[s].pc \in {"waiting", "closed"}, Fits(envoy[s], answer.kind),
           UNCHANGED placing, Surface'
    PROVE  /\ Inv'
           /\ task'[s].pc # "gating"
           /\ task'[s].verdict = t.verdict
  <1> DEFINE t2 == [t EXCEPT !.inbox = None, !.pc = IF Closed(s) THEN "ended" ELSE "reading"]
             e2 == IF Closed(s) THEN envoy[s] ELSE [envoy[s] EXCEPT !.inbox = answer]
  <1>1. Pair(s, envoy[s], task[s])
    BY DEF Inv
  <1>2. /\ IsRecord(t2, TaskFields) /\ t2.inbox = None /\ t2.headers = t.headers
        /\ t2.pc = IF Closed(s) THEN "ended" ELSE "reading"
        /\ t2.verdict = t.verdict
    BY DEF IsRecord, TaskFields
  <1>3. /\ IsRecord(e2, EnvoyFields) /\ e2.pc = envoy[s].pc /\ e2.x = envoy[s].x
        /\ e2.inbox = IF Closed(s) THEN envoy[s].inbox ELSE answer
        /\ e2.phase = envoy[s].phase
    BY <1>1 DEF Pair, IsRecord, EnvoyFields
  <1>4. Pair(s, e2, t2)
    <2> HIDE DEF e2, t2
    <2> QED
      BY <1>1, <1>2, <1>3 DEF Pair, Closed, TaskPlaces, Busy, Fits, InStep
  <1>5. task' = [task EXCEPT ![s] = t2]
    BY DEF Send
  <1>6. envoy' = [envoy EXCEPT ![s] = e2]
    BY DEF Send, Inv, IsRecord
  <1>7. task'[s] = t2
    BY <1>5 DEF Inv, IsRecord
  <1>8. QED
    <2> HIDE DEF e2, t2
    <2> QED
      BY <1>2, <1>4, <1>5, <1>6, <1>7, OneStream

\* The filter has spoken, and what it said is kept (Conclude).
LEMMA ConcludeKeeps ==
    ASSUME Inv, NEW s \in Streams, NEW t, NEW verdict, Conclude(s, t, verdict),
           IsRecord(t, TaskFields), Known(s, t.headers),
           envoy[s].pc \in {"waiting", "closed"}, task[s].pc # "reading" \/ envoy[s].inbox = None,
           InStep(envoy[s], t.phase), UNCHANGED <<placing, emit>>
    PROVE  /\ Inv'
           /\ task'[s].pc # "gating"
           /\ task'[s].verdict = verdict
  <1> DEFINE told == Told(t, verdict)
  <1>1. /\ IsRecord(told, TaskFields) /\ told.headers = t.headers
        /\ told.verdict = verdict
    BY ToldKeeps
  <1>2. Surface'
    BY Counting DEF Inv, Conclude, BeginProduce, SendMutation, Uncounted, Counters
  <1>3. CASE \E answer : Send(s, told, answer) /\ Fits(envoy[s], answer.kind)
    <2> HIDE DEF told
    <2> QED
      BY <1>1, <1>2, <1>3, SendKeeps
  <1>4. CASE BeginProduce(s, t, verdict)
    <2> DEFINE t2 == [told EXCEPT !.inbox = None, !.pc = "producing"]
    <2>1. /\ IsRecord(t2, TaskFields) /\ t2.inbox = None /\ t2.pc = "producing"
          /\ t2.headers = t.headers /\ t2.verdict = verdict
      <3> HIDE DEF told
      <3> QED
        BY <1>1 DEF IsRecord, TaskFields
    <2>2. Pair(s, envoy[s], t2)
      <3> HIDE DEF t2
      <3> QED
        BY <2>1 DEF Inv, Pair, TaskPlaces, Busy
    <2>3. task' = [task EXCEPT ![s] = t2] /\ envoy' = [envoy EXCEPT ![s] = envoy[s]]
      BY <1>4 DEF BeginProduce, Inv, IsRecord
    <2>4. task'[s] = t2
      BY <2>3 DEF Inv, IsRecord
    <2>5. QED
      <3> HIDE DEF t2
      <3> QED
        BY <1>2, <2>1, <2>2, <2>3, <2>4, OneStream
  <1>5. CASE SendReply(s, t, verdict) \/ SendMutation(s, t, verdict, t.phase)
    <2>1. /\ Answer("immediate", verdict).kind = "immediate"
          /\ Answer(t.phase, verdict).kind = t.phase
      BY DEF Answer
    <2>2. QED
      <3> HIDE DEF told
      <3> QED
        BY <1>3, <1>5, <2>1 DEF SendReply, SendMutation, Fits, InStep, told
  <1>6. QED
    BY <1>4, <1>5 DEF Conclude

\* A request is its headers with a body put in.
LEMMA BodyPutIn ==
    ASSUME NEW s \in Streams, NEW headers, Known(s, headers), NEW body
    PROVE  Filled(s, [headers.raw EXCEPT !.body = body])
  <1>1. PICK x \in Requests[s] : headers = Headers(x)
    BY DEF Known
  <1>2. IsRecord(x, RequestFields) /\ IsRecord(x.raw, RawFields)
    BY RequestsAssumption DEF IsRequest, RawFields
  <1>3. headers.raw = [x.raw EXCEPT !.body = None]
    BY <1>1, <1>2 DEF Headers, IsRecord, RequestFields
  <1>4. [headers.raw EXCEPT !.body = body] = [x.raw EXCEPT !.body = body]
    BY <1>2, <1>3 DEF IsRecord, RawFields
  <1>5. QED
    BY <1>4 DEF Filled

\* The headers say what the request brings for the directive plane.
LEMMA OrdersKnown ==
    ASSUME NEW s \in Streams, NEW headers, Known(s, headers)
    PROVE  headers.orders \in Seq(BOOLEAN)
  <1>1. PICK x \in Requests[s] : headers = Headers(x)
    BY DEF Known
  <1>2. IsRecord(x, RequestFields) /\ x.orders \in Seq(BOOLEAN)
    BY RequestsAssumption DEF IsRequest
  <1>3. headers.orders = x.orders
    BY <1>1, <1>2 DEF Headers, IsRecord, RequestFields
  <1>4. QED
    BY <1>2, <1>3

\* A request is refused early, or goes to the router (DispatchWrite).
LEMMA DispatchKeeps ==
    ASSUME Inv, NEW s \in Streams, NEW t, NEW phase, NEW body,
           DispatchWrite(s, t, phase, body),
           IsRecord(t, TaskFields), Known(s, t.headers),
           envoy[s].pc \in {"waiting", "closed"}, envoy[s].inbox = None,
           InStep(envoy[s], phase), UNCHANGED <<placing, emit>>
    PROVE  Inv' /\ task'[s].pc # "gating"
  <1> DEFINE req   == [t.headers.raw EXCEPT !.body = body]
             known == [t EXCEPT !.req = req, !.phase = phase]
             t2    == [known EXCEPT !.inbox = None, !.pc = "resolving"]
  <1>1. Filled(s, req)
    BY BodyPutIn
  <1>2. IsRecord(known, TaskFields) /\ known.headers = t.headers /\ known.req = req
        /\ known.phase = phase
    <2> HIDE DEF req
    <2> QED
      BY DEF IsRecord, TaskFields
  <1>3. CASE \E verdict : Conclude(s, known, verdict)
    <2> HIDE DEF known
    <2> QED
      BY <1>2, <1>3, ConcludeKeeps
  <1>4. CASE task' = [task EXCEPT ![s] = t2] /\ UNCHANGED <<envoy, metrics>>
    <2>1. /\ IsRecord(t2, TaskFields) /\ t2.inbox = None /\ t2.pc = "resolving"
          /\ t2.headers = t.headers /\ t2.req = req /\ t2.phase = phase
      <3> HIDE DEF known, req
      <3> QED
        BY <1>2 DEF IsRecord, TaskFields
    <2>2. Pair(s, envoy[s], t2)
      <3> HIDE DEF t2, req
      <3> QED
        BY <1>1, <2>1 DEF Inv, Pair, TaskPlaces, Busy
    <2>3. /\ envoy' = [envoy EXCEPT ![s] = envoy[s]] /\ Surface' /\ task'[s] = t2
      BY <1>4 DEF Inv, IsRecord, Surface
    <2>4. QED
      <3> HIDE DEF t2
      <3> QED
        BY <1>4, <2>1, <2>2, <2>3, OneStream
  <1>5. QED
    BY <1>3, <1>4 DEF DispatchWrite

-----------------------------------------------------------------------------
(* The task's actions.                                                      *)

\* What the task finds when it reads a message.
LEMMA Reading ==
    ASSUME Inv, NEW s \in Streams, NEW phase, Reads(s, phase)
    PROVE  /\ IsRecord(task[s], TaskFields)
           /\ envoy[s].pc \in {"waiting", "closed"} /\ envoy[s].inbox = None
           /\ InStep(envoy[s], phase)
           /\ Known(s, IF phase = "request_headers" THEN task[s].inbox.content
                                                    ELSE task[s].headers)
  BY DEF Inv, Pair, Reads

\* A reply of the backend's own, to whatever phase (SendReply).
LEMMA ReplyKeeps ==
    ASSUME Inv, NEW s \in Streams, NEW t, NEW reply, SendReply(s, t, reply),
           IsRecord(t, TaskFields), Known(s, t.headers),
           envoy[s].pc \in {"waiting", "closed"},
           UNCHANGED placing, Surface'
    PROVE  Inv'
  <1> DEFINE told == Told(t, reply)
             answer == Answer("immediate", reply)
  <1>1. IsRecord(told, TaskFields) /\ told.headers = t.headers
    BY ToldKeeps
  <1>2. Send(s, told, answer)
    BY DEF SendReply
  <1>3. Fits(envoy[s], answer.kind)
    BY DEF Fits, Answer
  <1>4. QED
    <2> HIDE DEF told, answer
    <2> QED
      BY <1>1, <1>2, <1>3, SendKeeps

\* A task that is at work stays with what it reads (its pc and one field change).
LEMMA WorkKeeps ==
    ASSUME Inv, NEW s \in Streams, NEW t, task' = [task EXCEPT ![s] = t],
           UNCHANGED <<placing, envoy>>, Surface',
           Pair(s, envoy[s], t), t.pc # "gating"
    PROVE  Inv'
  <1>1. envoy' = [envoy EXCEPT ![s] = envoy[s]]
    BY DEF Inv, IsRecord
  <1>2. QED
    BY <1>1, OneStream

\* A request's headers: a reserved path, a body to wait for, or the router.
LEMMA RequestHeadersKeep ==
    ASSUME Inv, NEW s \in Streams, OnRequestHeaders(s)
    PROVE  Inv'
  <1> DEFINE t == [task[s] EXCEPT !.headers = task[s].inbox.content]
  <1>1. Reads(s, "request_headers")
    BY DEF OnRequestHeaders
  <1>2. IsRecord(t, TaskFields) /\ t.headers = task[s].inbox.content
    BY <1>1, Reading DEF IsRecord, TaskFields
  <1>3. /\ Known(s, t.headers) /\ envoy[s].inbox = None
        /\ envoy[s].pc \in {"waiting", "closed"} /\ UNCHANGED <<placing, emit>>
        /\ InStep(envoy[s], "request_headers")
    BY <1>1, <1>2, Reading DEF OnRequestHeaders, settings
  <1>4. CASE Uncounted /\ BeginReply(s, t)
    <2> DEFINE seen == Unseen(t.headers)
               t2 == [t EXCEPT !.inbox = None, !.pc = "observing", !.seen = seen]
    <2>1. /\ IsRecord(t2, TaskFields) /\ t2.inbox = None /\ t2.pc = "observing"
          /\ t2.headers = t.headers /\ t2.seen = seen
      <3> HIDE DEF t, seen
      <3> QED
        BY <1>2 DEF IsRecord, TaskFields
    <2>2. Ordered(t.headers, seen)
      BY <1>3, OrdersKnown, BeginsOrdered
    <2>3. Pair(s, envoy[s], t2)
      <3> HIDE DEF t2, seen, t
      <3> QED
        BY <1>3, <2>1, <2>2 DEF Inv, Pair, TaskPlaces, Busy
    <2>4. task' = [task EXCEPT ![s] = t2] /\ UNCHANGED envoy
      BY <1>4 DEF BeginReply
    <2>5. Surface'
      BY <1>3, <1>4, Counting DEF Inv
    <2>6. QED
      <3> HIDE DEF t2
      <3> QED
        BY <1>3, <2>1, <2>3, <2>4, <2>5, WorkKeeps
  <1>5. CASE Uncounted /\ Send(s, t, Continue("request_headers"))
    <2>1. Surface'
      BY <1>3, <1>5, Counting DEF Inv
    <2>2. Fits(envoy[s], Continue("request_headers").kind)
      BY <1>3 DEF Fits, InStep, Continue, Answer
    <2>3. QED
      <3> HIDE DEF t
      <3> QED
        BY <1>2, <1>3, <1>5, <2>1, <2>2, SendKeeps
  <1>6. CASE DispatchWrite(s, t, "request_headers", None)
    <2> HIDE DEF t
    <2> QED
      BY <1>2, <1>3, <1>6, DispatchKeeps
  <1>7. QED
    BY <1>4, <1>5, <1>6 DEF OnRequestHeaders

\* A reserved path's reply, from its first look to its last (reserved_reply).
LEMMA ObserveKeeps ==
    ASSUME Inv, NEW s \in Streams, Observing(s) \/ Observed(s)
    PROVE  Inv'
  <1>1. /\ task[s].pc = "observing" /\ Pair(s, envoy[s], task[s]) /\ UNCHANGED placing
        /\ IsRecord(task[s], TaskFields) /\ Known(s, task[s].headers)
        /\ envoy[s].pc \in {"waiting", "closed"}
        /\ Ordered(task[s].headers, task[s].seen)
    BY DEF Inv, Pair, Observing, Observed, Busy, settings
  <1>2. CASE Observing(s)
    <2>1. PICK seen \in Glances(task[s].headers, task[s].seen) :
              task' = [task EXCEPT ![s].seen = seen]
      BY <1>2 DEF Observing
    <2> DEFINE t2 == [task[s] EXCEPT !.seen = seen]
    <2>2. /\ IsRecord(t2, TaskFields) /\ t2.inbox = task[s].inbox /\ t2.pc = "observing"
          /\ t2.headers = task[s].headers /\ t2.seen = seen
      BY <1>1 DEF IsRecord, TaskFields
    <2>3. Ordered(task[s].headers, seen)
      BY <1>1, StaysOrdered
    <2>4. Pair(s, envoy[s], t2)
      <3> HIDE DEF t2
      <3> QED
        BY <1>1, <2>2, <2>3 DEF Pair, TaskPlaces, Busy
    <2>5. task' = [task EXCEPT ![s] = t2] /\ UNCHANGED envoy
      BY <1>2, <2>1 DEF Observing
    <2>6. Surface'
      BY <1>1, <1>2, ObeysKeeps DEF Observing, Inv
    <2>7. QED
      <3> HIDE DEF t2
      <3> QED
        BY <1>1, <2>2, <2>4, <2>5, <2>6, WorkKeeps
  <1>3. CASE Observed(s)
    <2>1. \E reply : SendReply(s, task[s], reply)
      BY <1>3 DEF Observed
    <2>2. Surface'
      BY <1>3 DEF Observed, Inv, Surface, settings
    <2>3. QED
      BY <1>1, <2>1, <2>2, ReplyKeeps
  <1>4. QED
    BY <1>2, <1>3

\* The other phases are answered at once, or with the decision header.
LEMMA PhasesKeep ==
    ASSUME Inv, NEW s \in Streams,
           \/ OnRequestTrailers(s) \/ OnResponseHeaders(s) \/ DecisionHeader(s)
           \/ OnResponseBody(s) \/ OnResponseTrailers(s)
    PROVE  Inv'
  <1>1. ASSUME NEW phase, InStep(envoy[s], phase),
               \E what : Send(s, task[s], Answer(phase, what)),
               IsRecord(task[s], TaskFields), Known(s, task[s].headers),
               envoy[s].pc \in {"waiting", "closed"},
               UNCHANGED <<settings, metrics>>
        PROVE  Inv'
    <2>1. PICK what : Send(s, task[s], Answer(phase, what))
      BY <1>1
    <2>2. Fits(envoy[s], Answer(phase, what).kind)
      BY <1>1 DEF Fits, InStep, Answer
    <2>3. Surface' /\ UNCHANGED placing
      BY <1>1 DEF settings, Inv, Surface
    <2>4. QED
      BY <1>1, <2>1, <2>2, <2>3, SendKeeps
  <1>2. ASSUME NEW phase, phase # "request_headers", Reads(s, phase),
               \E what : Send(s, task[s], Answer(phase, what)),
               UNCHANGED <<settings, metrics>>
        PROVE  Inv'
    BY <1>1, <1>2, Reading
  <1>3. CASE OnRequestTrailers(s)
    BY <1>2, <1>3 DEF OnRequestTrailers, Continue
  <1>4. CASE OnResponseBody(s)
    BY <1>2, <1>4 DEF OnResponseBody
  <1>5. CASE OnResponseTrailers(s)
    BY <1>2, <1>5 DEF OnResponseTrailers, Continue
  <1>6. CASE DecisionHeader(s)
    <2>1. Pair(s, envoy[s], task[s]) /\ task[s].pc = "shaping"
      BY <1>6 DEF Inv, DecisionHeader
    <2>2. /\ IsRecord(task[s], TaskFields) /\ Known(s, task[s].headers)
          /\ envoy[s].pc \in {"waiting", "closed"} /\ InStep(envoy[s], "response_headers")
      BY <2>1 DEF Pair, Busy
    <2>3. QED
      BY <1>1, <1>6, <2>2 DEF DecisionHeader
  <1>7. CASE OnResponseHeaders(s) /\ ~emit
    BY <1>2, <1>7 DEF OnResponseHeaders, Continue
  <1>8. CASE OnResponseHeaders(s) /\ emit
    <2> DEFINE t2 == [task[s] EXCEPT !.pc = "shaping", !.inbox = None]
    <2>1. /\ IsRecord(task[s], TaskFields) /\ Known(s, task[s].headers)
          /\ envoy[s].pc \in {"waiting", "closed"} /\ envoy[s].inbox = None
          /\ InStep(envoy[s], "response_headers")
      BY <1>8, Reading DEF OnResponseHeaders
    <2>2. /\ IsRecord(t2, TaskFields) /\ t2.inbox = None /\ t2.pc = "shaping"
          /\ t2.headers = task[s].headers
      BY <2>1 DEF IsRecord, TaskFields
    <2>3. Pair(s, envoy[s], t2)
      <3> HIDE DEF t2
      <3> QED
        BY <2>1, <2>2 DEF Inv, Pair, TaskPlaces, Busy
    <2>4. task' = [task EXCEPT ![s] = t2] /\ UNCHANGED <<placing, envoy>> /\ Surface'
      BY <1>8 DEF OnResponseHeaders, settings, Inv, Surface
    <2>5. QED
      <3> HIDE DEF t2
      <3> QED
        BY <2>2, <2>3, <2>4, WorkKeeps
  <1>9. QED
    BY <1>3, <1>4, <1>5, <1>6, <1>7, <1>8

\* The body is over the cap, or there to be decided on.
LEMMA RequestBodyKeeps ==
    ASSUME Inv, NEW s \in Streams, OnRequestBody(s)
    PROVE  Inv'
  <1>1. /\ IsRecord(task[s], TaskFields) /\ Known(s, task[s].headers)
        /\ envoy[s].pc \in {"waiting", "closed"} /\ envoy[s].inbox = None
        /\ UNCHANGED <<placing, emit>> /\ InStep(envoy[s], "request_body")
    BY Reading DEF OnRequestBody, settings
  <1>2. CASE /\ Count("rejected")
             /\ SendReply(s, task[s], Immediate(413, "payload_too_large"))
    <2>1. Surface'
      BY <1>1, <1>2, Counting DEF Inv, Counters
    <2>2. QED
      BY <1>1, <1>2, <2>1, ReplyKeeps
  <1>3. CASE DispatchWrite(s, task[s], "request_body", task[s].inbox.content)
    BY <1>1, <1>3, DispatchKeeps
  <1>4. QED
    BY <1>2, <1>3 DEF OnRequestBody

\* Every phase is handled within the invariant, and none of them gates a request.
LEMMA HandlersKeep ==
    ASSUME Inv, NEW s \in Streams,
           \/ OnRequestHeaders(s) \/ OnRequestBody(s) \/ OnRequestTrailers(s)
           \/ OnResponseHeaders(s) \/ OnResponseBody(s) \/ OnResponseTrailers(s)
           \/ Observing(s) \/ Observed(s) \/ DecisionHeader(s)
    PROVE  Inv' /\ task[s].pc # "gating"
  <1>1. task[s].pc # "gating"
    BY DEF OnRequestHeaders, OnRequestBody, OnRequestTrailers, OnResponseHeaders,
           OnResponseBody, OnResponseTrailers, Observing, Observed, DecisionHeader, Reads
  <1>2. QED
    BY <1>1, RequestHeadersKeep, RequestBodyKeeps, PhasesKeep, ObserveKeeps

\* The router's answer may be held against the gate (ResolveNow).
LEMMA ResolveKeeps ==
    ASSUME Inv, NEW s \in Streams, ResolveNow(s)
    PROVE  Inv' /\ task[s].pc # "gating"
  <1> DEFINE looked == Look(task[s].req)
             t == [task[s] EXCEPT !.pc = "gating", !.looked = looked]
  <1>1. /\ Pair(s, envoy[s], task[s]) /\ task[s].pc = "resolving" /\ PlacingInv
        /\ UNCHANGED placing
    BY DEF Inv, ResolveNow, settings
  <1>2. PICK x \in Requests[s] : \E body : task[s].req = [x.raw EXCEPT !.body = body]
    BY <1>1 DEF Pair, Filled
  <1>3. LookedInv(looked)
    <2>1. IsRecord(x.raw, RawFields) /\ NamesTenant(x.raw)
      BY RequestsAssumption DEF IsRequest, RawFields
    <2>2. Asking(task[s].req) \in Partitions \cup {None}
      BY <1>1, <1>2, <2>1, TenantNamed DEF RawFields
    <2>3. QED
      BY <1>1, <2>2, LookIsFresh
  <1>4. /\ IsRecord(t, TaskFields) /\ t.pc = "gating" /\ t.looked = looked
        /\ t.inbox = task[s].inbox /\ t.headers = task[s].headers
        /\ t.req = task[s].req /\ t.phase = task[s].phase
    <2> HIDE DEF looked
    <2> QED
      BY <1>1 DEF Pair, IsRecord, TaskFields
  <1>5. Pair(s, envoy[s], t)
    <2> HIDE DEF t
    <2> QED
      BY <1>1, <1>4 DEF Pair, TaskPlaces, Busy
  <1>6. /\ task' = [task EXCEPT ![s] = t] /\ envoy' = [envoy EXCEPT ![s] = envoy[s]]
        /\ Surface'
    BY DEF ResolveNow, Inv, IsRecord, Surface, settings
  <1>7. QED
    <2> HIDE DEF t, looked
    <2> QED
      BY <1>1, <1>3, <1>4, <1>5, <1>6, OneStream

\* The gate lets a write go only for the placement of the moment (Gate).
LEMMA GateKeeps ==
    ASSUME Inv, NEW s \in Streams, Gate(s)
    PROVE  /\ Inv' /\ task'[s].pc # "gating"
           /\ /\ task'[s].verdict.to = "upstream"
              /\ IsWriteRequest(RewriteForPath(cfg, task[s].req))
              => MeetsPlacement(task[s].looked, task'[s].verdict)
  <1> DEFINE t == task[s]
             verdict == Verdict(cfg, t.req, t.looked.r, Admits(t.looked))
  <1>1. /\ Pair(s, envoy[s], t) /\ t.pc = "gating" /\ LookedInv(t.looked)
        /\ UNCHANGED <<placing, emit>>
    BY DEF Inv, Gate, settings
  <1>2. /\ IsRecord(t, TaskFields) /\ Known(s, t.headers)
        /\ envoy[s].pc \in {"waiting", "closed"} /\ task[s].pc # "reading"
        /\ InStep(envoy[s], t.phase)
    BY <1>1 DEF Pair, Busy
  <1>3. Conclude(s, t, verdict)
    BY DEF Gate
  <1>4. Inv' /\ task'[s].pc # "gating" /\ task'[s].verdict = verdict
    <2> HIDE DEF verdict, t
    <2> QED
      BY <1>1, <1>2, <1>3, ConcludeKeeps
  <1>5. ASSUME verdict.to = "upstream", IsWriteRequest(RewriteForPath(cfg, t.req))
        PROVE  MeetsPlacement(t.looked, verdict)
    BY <1>1, <1>5, GateHolds
  <1>6. QED
    <2> HIDE DEF verdict
    <2> QED
      BY <1>4, <1>5

\* The sink's answer, and the end of a stream.
LEMMA TaskEndKeeps ==
    ASSUME Inv, NEW s \in Streams, Produces(s) \/ End(s)
    PROVE  Inv' /\ task[s].pc # "gating"
  <1>0. Pair(s, envoy[s], task[s])
    BY DEF Inv
  <1>1. CASE Produces(s)
    <2>1. /\ task[s].pc = "producing" /\ UNCHANGED <<placing, emit>>
          /\ \E c \in Counters : Count(c)
          /\ \E reply : Send(s, task[s], Answer("immediate", reply))
      BY <1>1 DEF Produces, Acknowledged, NotAcknowledged, Produced, settings, Counters
    <2>2. /\ IsRecord(task[s], TaskFields) /\ Known(s, task[s].headers)
          /\ envoy[s].pc \in {"waiting", "closed"}
      BY <1>0, <2>1 DEF Pair, Busy
    <2>3. Surface'
      BY <2>1, Counting DEF Inv
    <2>4. PICK reply : Send(s, task[s], Answer("immediate", reply))
      BY <2>1
    <2>5. Fits(envoy[s], Answer("immediate", reply).kind)
      BY DEF Fits, Answer
    <2>6. QED
      BY <2>1, <2>2, <2>3, <2>4, <2>5, SendKeeps
  <1>2. CASE End(s)
    <2> DEFINE t == [task[s] EXCEPT !.pc = "ended", !.inbox = None]
    <2>1. /\ task[s].pc = "reading" /\ envoy[s].pc = "closed" /\ UNCHANGED placing
          /\ task' = [task EXCEPT ![s] = t]
          /\ envoy' = [envoy EXCEPT ![s] = envoy[s]] /\ Surface'
      BY <1>2 DEF End, Closed, Inv, IsRecord, Surface, settings
    <2>2. IsRecord(t, TaskFields) /\ t.pc = "ended" /\ t.inbox = None
      BY <1>0 DEF Pair, IsRecord, TaskFields
    <2>3. Pair(s, envoy[s], t)
      <3> HIDE DEF t
      <3> QED
        BY <1>0, <2>1, <2>2 DEF Pair, TaskPlaces, Busy
    <2>4. QED
      <3> HIDE DEF t
      <3> QED
        BY <2>1, <2>2, <2>3, OneStream
  <1>3. QED
    BY <1>1, <1>2

-----------------------------------------------------------------------------
(* Envoy's actions.                                                         *)

\* Envoy sends a phase when the task may only be reading, or was not there (Await).
LEMMA AwaitKeeps ==
    ASSUME Inv, NEW s \in Streams, NEW e, NEW phase, Await(s, e, phase),
           IsRecord(e, EnvoyFields), e.x \in Requests[s],
           phase = "request_headers" \/ Known(s, task[s].headers),
           IsRecord(task[s], TaskFields),
           UNCHANGED placing, Surface'
    PROVE  Inv'
  <1> DEFINE e2 == [e EXCEPT !.pc = "waiting", !.phase = phase, !.inbox = None]
             message == Message(phase, e.x)
             t2 == [task[s] EXCEPT !.pc = "reading", !.inbox = message]
  <1>1. /\ IsRecord(e2, EnvoyFields) /\ e2.pc = "waiting" /\ e2.inbox = None
        /\ e2.x = e.x /\ e2.phase = phase
    BY DEF IsRecord, EnvoyFields
  <1>2. /\ IsRecord(t2, TaskFields) /\ t2.pc = "reading" /\ t2.inbox = message
        /\ t2.headers = task[s].headers
    <2> HIDE DEF message
    <2> QED
      BY DEF IsRecord, TaskFields
  <1>3. /\ message.phase = phase
        /\ phase = "request_headers" => Known(s, message.content)
    BY DEF Message, Known
  <1>4. Pair(s, e2, t2)
    <2> HIDE DEF e2, t2, message
    <2> QED
      BY <1>1, <1>2, <1>3 DEF Pair, TaskPlaces, Busy, InStep
  <1>5. /\ envoy' = [envoy EXCEPT ![s] = e2] /\ task' = [task EXCEPT ![s] = t2]
    BY DEF Await
  <1>6. QED
    <2> HIDE DEF e2, t2
    <2> QED
      BY <1>2, <1>4, <1>5, OneStream

\* The stream is gone, and the task does not know (Close).
LEMMA CloseKeeps ==
    ASSUME Inv, NEW s \in Streams, NEW status, Close(s, status),
           envoy[s].pc \in {"waiting", "upstream"},
           UNCHANGED <<settings, task, metrics>>
    PROVE  Inv'
  <1> DEFINE e2 == [NoEnvoy EXCEPT !.pc = "closed", !.status = status, !.x = envoy[s].x,
                                   !.upstream = envoy[s].upstream,
                                   !.before = envoy[s].before]
  <1>1. Pair(s, envoy[s], task[s])
    BY DEF Inv
  <1>2. /\ IsRecord(e2, EnvoyFields) /\ e2.pc = "closed" /\ e2.inbox = None
        /\ e2.x = envoy[s].x
    BY DEF NoEnvoy, IsRecord, EnvoyFields
  <1>3. Pair(s, e2, task[s])
    <2> HIDE DEF e2
    <2> QED
      BY <1>1, <1>2 DEF Pair, Busy, Fits, InStep
  <1>4. /\ envoy' = [envoy EXCEPT ![s] = e2] /\ task' = [task EXCEPT ![s] = task[s]]
        /\ Surface' /\ UNCHANGED placing
    BY DEF Close, Inv, IsRecord, Surface, settings
  <1>5. task[s].pc = "gating" => LookedInv(task[s].looked)
    BY DEF Inv
  <1>6. QED
    <2> HIDE DEF e2
    <2> QED
      BY <1>3, <1>4, <1>5, OneStream

\* Envoy goes on to the next phase, to the upstream, or gives up.
LEMMA EnvoyKeeps ==
    ASSUME Inv, NEW s \in Streams,
           Takes(s) \/ GiveUp(s) \/ (\E x \in Requests[s] : OpenStream(s, x))
    PROVE  Inv' /\ (task[s].pc # "gating" \/ UNCHANGED task)
  <1>0. Pair(s, envoy[s], task[s])
    BY DEF Inv
  <1>1. CASE TakeReply(s) \/ FinishResponse(s) \/ GiveUp(s)
    <2>1. /\ \E status : Close(s, status)
          /\ envoy[s].pc \in {"waiting", "upstream"}
          /\ UNCHANGED <<settings, task, metrics>>
      BY <1>1 DEF TakeReply, FinishResponse, GiveUp, Got
    <2>2. QED
      BY <2>1, CloseKeeps
  <1>3. CASE \E x \in Requests[s] : OpenStream(s, x)
    <2>1. PICK x \in Requests[s] : OpenStream(s, x)
      BY <1>3
    <2>0. PICK before : Await(s, [envoy[s] EXCEPT !.x = x, !.before = before], "request_headers")
      BY <2>1 DEF OpenStream
    <2> DEFINE e == [envoy[s] EXCEPT !.x = x, !.before = before]
    <2>2. /\ IsRecord(e, EnvoyFields) /\ e.x = x /\ IsRecord(task[s], TaskFields)
          /\ task[s].pc = "none"
      BY <1>0, <2>1 DEF Pair, IsRecord, EnvoyFields, OpenStream
    <2>3. Await(s, e, "request_headers") /\ UNCHANGED placing /\ Surface'
      BY <2>0, <2>1 DEF OpenStream, Inv, Surface, settings
    <2>4. QED
      <3> HIDE DEF e
      <3> QED
        BY <2>2, <2>3, AwaitKeeps
  <1>4. CASE UpstreamResponds(s) \/ TakeResponse(s)
    <2>1. /\ \E phase : Await(s, envoy[s], phase)
          /\ envoy[s].pc = "upstream" \/ (envoy[s].pc = "waiting" /\ envoy[s].inbox # None)
          /\ UNCHANGED placing /\ Surface'
      BY <1>4 DEF UpstreamResponds, TakeResponse, Got, Inv, Surface, settings
    <2>2. /\ IsRecord(envoy[s], EnvoyFields) /\ IsRecord(task[s], TaskFields)
          /\ envoy[s].x \in Requests[s] /\ Known(s, task[s].headers)
          /\ task[s].pc = "reading"
      BY <1>0, <2>1 DEF Pair
    <2>3. QED
      BY <2>1, <2>2, AwaitKeeps
  <1>5. CASE TakeMutation(s)
    <2> DEFINE next == envoy[s].done + 1
               held == IF envoy[s].inbox.what # None THEN envoy[s].inbox.what
                                                     ELSE envoy[s].held
               now == [envoy[s] EXCEPT !.done = next, !.held = held]
               e2  == [now EXCEPT !.pc = "upstream", !.phase = None, !.inbox = None,
                                  !.held = None, !.upstream = held]
    <2>1. /\ envoy[s].pc = "waiting" /\ envoy[s].inbox # None
          /\ UNCHANGED placing /\ Surface'
      BY <1>5 DEF TakeMutation, Got, Inv, Surface, settings
    <2>2. /\ IsRecord(envoy[s], EnvoyFields) /\ IsRecord(task[s], TaskFields)
          /\ envoy[s].x \in Requests[s] /\ Known(s, task[s].headers)
          /\ task[s].pc = "reading" /\ task[s].inbox = None
      BY <1>0, <2>1 DEF Pair
    <2>3. IsRecord(now, EnvoyFields) /\ now.x = envoy[s].x
      <3> HIDE DEF next, held
      <3> QED
        BY <2>2 DEF IsRecord, EnvoyFields
    <2>4. CASE \E phase : Await(s, now, phase)
      <3> HIDE DEF now
      <3> QED
        BY <2>1, <2>2, <2>3, <2>4, AwaitKeeps
    <2>5. CASE envoy' = [envoy EXCEPT ![s] = e2] /\ UNCHANGED task
      <3>1. IsRecord(e2, EnvoyFields) /\ e2.pc = "upstream" /\ e2.inbox = None
            /\ e2.x = now.x
        <4> HIDE DEF now, held
        <4> QED
          BY <2>3 DEF IsRecord, EnvoyFields
      <3>2. Pair(s, e2, task[s])
        <4> HIDE DEF e2, now
        <4> QED
          BY <2>2, <2>3, <3>1 DEF Pair, TaskPlaces, Busy, Fits, InStep
      <3>3. task' = [task EXCEPT ![s] = task[s]] /\ task[s].pc # "gating"
        BY <2>2, <2>5 DEF Inv, IsRecord
      <3>4. QED
        <4> HIDE DEF e2, now
        <4> QED
          BY <2>1, <2>5, <3>2, <3>3, OneStream
    <2>6. QED
      BY <1>5, <2>4, <2>5 DEF TakeMutation
  <1>6. QED
    BY <1>1, <1>3, <1>4, <1>5 DEF Takes

-----------------------------------------------------------------------------
(* The specification.                                                       *)

\* Before the first message.
LEMMA StartsSound == Init => Inv
  <1> SUFFICES ASSUME Init PROVE Inv
    OBVIOUS
  <1>1. PlacingInv
    BY PlacingStarts DEF Init
  <1>2. Surface
    BY SurfaceStarts DEF Init
  <1>3. IsRecord(envoy, Streams) /\ IsRecord(task, Streams)
    BY DEF Init, IsRecord
  <1>4. ASSUME NEW s \in Streams PROVE envoy[s] = NoEnvoy /\ task[s] = NoTask
    BY DEF Init
  <1>5. ASSUME NEW s \in Streams PROVE Pair(s, NoEnvoy, NoTask)
    <2>1. IsRecord(NoEnvoy, EnvoyFields) /\ IsRecord(NoTask, TaskFields)
      BY DEF NoEnvoy, NoTask, IsRecord, EnvoyFields, TaskFields
    <2>2. QED
      BY <2>1 DEF Pair, NoEnvoy, NoTask, TaskPlaces, Busy
  <1>6. ASSUME NEW s \in Streams PROVE task[s].pc # "gating"
    BY <1>4 DEF NoTask
  <1>7. QED
    BY <1>1, <1>2, <1>3, <1>4, <1>5, <1>6 DEF Inv

\* What a step does to stream s: the gate's step is the one that ends a gating.
LEMMA StepSound ==
    ASSUME Inv, [Next]_vars
    PROVE  /\ Inv'
           /\ \A s \in Streams :
                 \/ task'[s] = task[s] \/ task[s].pc # "gating"
                 \/ /\ task'[s].verdict.to = "upstream"
                    /\ IsWriteRequest(RewriteForPath(cfg, task[s].req))
                    => MeetsPlacement(task[s].looked, task'[s].verdict)
  <1>1. CASE Move /\ UNCHANGED <<sink, envoy, task, metrics, emit>>
    <2>1. /\ PlacingInv'
          /\ \A p \in Partitions : \A n, cluster :
                 Fresh(p, n, cluster) => Fresh(p, n, cluster)'
      BY <1>1, MoveKeeps DEF Inv
    <2>2. ASSUME NEW s \in Streams, task[s].pc = "gating"
          PROVE  LookedInv(task[s].looked)'
      <3>1. LookedInv(task[s].looked) /\ task' = task
        BY <1>1, <2>2 DEF Inv
      <3>2. QED
        BY <2>1, <3>1 DEF LookedInv
    <2>3. QED
      BY <1>1, <2>1, <2>2 DEF Inv, Pair, Surface
  <1>2. ASSUME NEW s \in Streams,
               \/ \E x \in Requests[s] : OpenStream(s, x)
               \/ Works(s) \/ GiveUp(s)
        PROVE  /\ Inv'
               /\ \/ task' = task \/ task[s].pc # "gating"
                  \/ /\ task'[s].verdict.to = "upstream"
                     /\ IsWriteRequest(RewriteForPath(cfg, task[s].req))
                     => MeetsPlacement(task[s].looked, task'[s].verdict)
    BY <1>2, HandlersKeep, ResolveKeeps, GateKeeps, TaskEndKeeps, EnvoyKeeps
       DEF Works, Handles
  <1>3. ASSUME NEW s \in Streams, NEW r \in Streams, r # s,
               \/ \E x \in Requests[s] : OpenStream(s, x)
               \/ Works(s) \/ GiveUp(s)
        PROVE  task'[r] = task[r]
    <2>1. ASSUME NEW t, NEW answer, Send(s, t, answer) PROVE task'[r] = task[r]
      BY <1>3, <2>1 DEF Send, Inv, IsRecord
    <2>2. ASSUME NEW t, NEW verdict, Conclude(s, t, verdict) PROVE task'[r] = task[r]
      <3>1. CASE BeginProduce(s, t, verdict)
        BY <1>3, <3>1 DEF BeginProduce, Inv, IsRecord
      <3>2. CASE \E told, answer : Send(s, told, answer)
        BY <2>1, <3>2
      <3>3. QED
        BY <2>2, <3>1, <3>2 DEF Conclude, SendReply, SendMutation
    <2>3. ASSUME NEW t, NEW phase, NEW body, DispatchWrite(s, t, phase, body)
          PROVE  task'[r] = task[r]
      BY <1>3, <2>2, <2>3 DEF DispatchWrite, Inv, IsRecord
    <2>4. CASE Handles(s) \/ Produces(s)
      <3>1. CASE ResolveNow(s) \/ End(s)
        BY <1>3, <3>1 DEF ResolveNow, End, Inv, IsRecord
      <3>2. CASE Gate(s)
        BY <2>2, <3>2 DEF Gate
      <3>3. CASE OnRequestHeaders(s) \/ OnRequestBody(s)
        <4>1. ASSUME NEW t, BeginReply(s, t) PROVE task'[r] = task[r]
          BY <1>3, <4>1 DEF BeginReply, Inv, IsRecord
        <4>2. QED
          BY <2>1, <2>3, <3>3, <4>1 DEF OnRequestHeaders, OnRequestBody, SendReply
      <3>4. CASE \/ OnRequestTrailers(s) \/ OnResponseBody(s) \/ OnResponseTrailers(s)
                 \/ DecisionHeader(s) \/ Observed(s) \/ Produces(s)
        BY <2>1, <3>4 DEF OnRequestTrailers, OnResponseBody, OnResponseTrailers,
                          DecisionHeader, Observed, SendReply,
                          Produces, Acknowledged, NotAcknowledged, Produced
      <3>6. CASE OnResponseHeaders(s) \/ Observing(s)
        <4>1. \/ \E t : task' = [task EXCEPT ![s] = t]
              \/ \E answer : Send(s, task[s], answer)
          BY <3>6 DEF OnResponseHeaders, Observing
        <4>2. QED
          BY <1>3, <2>1, <4>1 DEF Inv, IsRecord
      <3>5. QED
        BY <2>4, <3>1, <3>2, <3>3, <3>4, <3>6 DEF Handles
    <2>5. CASE Takes(s) \/ GiveUp(s) \/ \E x \in Requests[s] : OpenStream(s, x)
      <3>1. task' = task \/ \E e, phase : Await(s, e, phase)
        BY <2>5 DEF Takes, TakeReply, TakeMutation, UpstreamResponds, TakeResponse,
                    FinishResponse, GiveUp, OpenStream
      <3>2. QED
        BY <1>3, <3>1 DEF Await, Inv, IsRecord
    <2>6. QED
      BY <1>3, <2>4, <2>5 DEF Works
  <1>4. CASE UNCHANGED vars
    BY <1>4 DEF vars, Inv, Surface, PlacingInv, Pair, LookedInv, Fresh, ClusterFor
  <1>5. QED
    BY <1>1, <1>2, <1>3, <1>4 DEF Next

\* The invariant, in every behaviour.
LEMMA Sound == Spec => []Inv
  BY StartsSound, StepSound, PTL DEF Spec

\* Task and Envoy are where the protocol of phases lets them be (service.rs, lib.rs).
THEOREM TypeCorrect == Spec => []TypeOK
  <1>1. Inv => TypeOK
    BY DEF Inv, TypeOK, Pair, PlacingInv, Surface, Closed, Busy
  <1>2. QED
    BY <1>1, Sound, PTL

\* The variant of every answer is that of the phase Envoy waits for, or immediate
\* (finalize's Phase).
THEOREM AnswersFit == Spec => []AnswersMatch
  <1>1. Inv => AnswersMatch
    BY DEF Inv, AnswersMatch, Pair, Fits
  <1>2. QED
    BY <1>1, Sound, PTL

\* The write gate of dispatch_write, whatever happens between its two awaits and
\* on whatever other stream.
THEOREM WritesHeld == Spec => StaleWritesHeld
  <1> DEFINE Held(s) ==
          LET t == task'[s]
              was == task[s]
          IN  /\ was.pc = "gating" /\ t.pc # "gating" /\ t.verdict.to = "upstream"
              /\ IsWriteRequest(RewriteForPath(cfg, was.req))
              => MeetsPlacement(was.looked, t.verdict)
  <1>1. ASSUME Inv, [Next]_vars PROVE [\A s \in Streams : Held(s)]_vars
    BY <1>1, StepSound
  <1>2. QED
    BY <1>1, Sound, PTL DEF Spec, StaleWritesHeld

-----------------------------------------------------------------------------
(* One decision per request: the service implements Exchange.               *)

RequestPhase == {"request_headers", "request_body", "request_trailers"}

\* What may reach an upstream as it is.
Forwardable(e, verdict) == Speaks(verdict) /\ verdict.to # "local" /\ ~e.x.async

\* The filter has still to be asked about the request.
Unheard(t) ==
    \/ t.pc \in {"observing", "resolving", "gating"}
    \/ t.inbox # None /\ t.inbox.phase \in {"request_headers", "request_body"}

\* The task has the request's headers.
HasHeaders(e, t) ==
    \/ t.inbox # None /\ t.inbox.phase # "request_headers"
    \/ e.inbox # None
    \/ e.pc = "upstream"
    \/ t.pc \in Busy

\* What is to be forwarded, as Envoy has it so far, is what the task has said; it
\* has not spoken only before the body of a request that has one.
Carries(e, t) ==
    /\ e.upstream = None
    /\ t.inbox # None \/ t.pc \in {"observing", "resolving", "gating"} =>
          /\ e.held = t.verdict
          /\ t.verdict # None => Forwardable(e, t.verdict)
          /\ e.phase = "request_trailers" => t.verdict # None
    /\ e.inbox # None /\ e.inbox.kind # "immediate" =>
          /\ (IF e.inbox.what # None THEN e.inbox.what ELSE e.held) = t.verdict
          /\ t.verdict = None => e.phase = "request_headers" /\ e.x.bodied
          /\ t.verdict # None => Forwardable(e, t.verdict)
          /\ e.phase = "request_headers" /\ e.x.bodied => t.verdict = None

\* What the mapping rests on, of one stream: both sides speak of one request.
Agree(e, t) ==
    /\ e.done \in Nat
    /\ e.pc = "idle" => e.x = None /\ e.upstream = None /\ e.held = None /\ t.verdict = None
    /\ t.pc # "gating" => t.looked = None
    /\ Unheard(t) => t.verdict = None
    /\ t.inbox # None =>
          /\ t.inbox.phase = "request_headers" => t.inbox.content = Headers(e.x)
          /\ t.inbox.phase = "request_body" => t.inbox.content = e.x.raw.body
    /\ HasHeaders(e, t) => t.headers = Headers(e.x)
    /\ t.pc \in {"resolving", "gating"} =>
          /\ t.req = e.x.raw
          /\ t.phase \in {"request_headers", "request_body"}
          /\ t.phase = "request_headers" => ~e.x.bodied
    /\ e.pc = "waiting" /\ e.phase \in RequestPhase => Carries(e, t)

Mapped == Inv /\ \A s \in Streams : Agree(envoy[s], task[s])

\* Both sides of one stream change, and those of no other.
Turns(s, e, t) ==
    /\ envoy' = [envoy EXCEPT ![s] = e]
    /\ task' = [task EXCEPT ![s] = t]

\* A step of stream s is a step of the exchange, and keeps what the mapping rests on.
Maps(s) == Backend!Next /\ \E e, t : Turns(s, e, t) /\ Agree(e, t)

\* A stream's change is its exchange's.
LEMMA OneExchange ==
    ASSUME Inv, NEW s \in Streams, NEW e, NEW t, Turns(s, e, t)
    PROVE  /\ Exchanges[s] = Exchanged(envoy[s], task[s])
           /\ Exchanges'[s] = Exchanged(e, t)
           /\ Exchanges' = [Exchanges EXCEPT ![s] = Exchanged(e, t)]
  <1>1. /\ envoy'[s] = e /\ \A r \in Streams \ {s} : envoy'[r] = envoy[r]
        /\ task'[s] = t /\ \A r \in Streams \ {s} : task'[r] = task[r]
    BY DEF Inv, IsRecord, Turns
  <1>2. Exchanges' = [r \in Streams |-> Exchanged(envoy'[r], task'[r])]
    BY DEF Exchanges
  <1>3. [Exchanges EXCEPT ![s] = Exchanged(e, t)] =
            [r \in Streams |-> IF r = s THEN Exchanged(e, t)
                                        ELSE Exchanged(envoy[r], task[r])]
    BY DEF Exchanges
  <1>4. QED
    BY <1>1, <1>2, <1>3 DEF Exchanges

\* What shows of a stream.
LEMMA Shown ==
    ASSUME NEW e, NEW t
    PROVE  /\ IsRecord(Exchanged(e, t), ExchangeFields)
           /\ Exchanged(e, t).x = e.x /\ Exchanged(e, t).looked = t.looked
           /\ Exchanged(e, t).outcome = t.verdict /\ Exchanged(e, t).upstream = e.upstream
           /\ Exchanged(e, t).gone = (e.pc = "closed")
           /\ Exchanged(e, t).pc = IF e.pc = "idle" THEN "idle"
                                   ELSE IF t.verdict # None THEN "decided"
                                   ELSE IF t.pc = "gating" THEN "looked" ELSE "open"
  <1> DEFINE pc == IF e.pc = "idle" THEN "idle" ELSE IF t.verdict # None THEN "decided"
                   ELSE IF t.pc = "gating" THEN "looked" ELSE "open"
             gone == e.pc = "closed"
             f == Exchanged(e, t)
  <1>1. f = [pc |-> pc, x |-> e.x, looked |-> t.looked, outcome |-> t.verdict,
             upstream |-> e.upstream, gone |-> gone]
    BY DEF Exchanged
  <1>2. /\ IsRecord(f, ExchangeFields) /\ f.pc = pc /\ f.x = e.x /\ f.looked = t.looked
        /\ f.outcome = t.verdict /\ f.upstream = e.upstream /\ f.gone = gone
    <2> HIDE DEF pc, gone, f
    <2> QED
      BY <1>1 DEF IsRecord, ExchangeFields
  <1>3. QED
    BY <1>2

\* A step that shows nothing is nobody's.
LEMMA Unseeable ==
    ASSUME Inv, NEW s \in Streams, NEW e, NEW t, Turns(s, e, t),
           e.pc # "idle", envoy[s].pc # "idle",
           (e.pc # "closed" /\ envoy[s].pc # "closed") \/ e.pc = envoy[s].pc,
           (t.pc # "gating" /\ task[s].pc # "gating") \/ t.pc = task[s].pc,
           e.x = envoy[s].x, e.upstream = envoy[s].upstream,
           t.looked = task[s].looked, t.verdict = task[s].verdict
    PROVE  Backend!Next
  <1>1. Exchanged(e, t) = Exchanged(envoy[s], task[s])
    <2>1. (e.pc = "closed") = (envoy[s].pc = "closed")
      OBVIOUS
    <2>2. (t.pc = "gating") = (task[s].pc = "gating")
      OBVIOUS
    <2>3. QED
      BY <2>1, <2>2 DEF Exchanged
  <1>2. Exchanges' = [Exchanges EXCEPT ![s] = Exchanges[s]]
    BY <1>1, OneExchange
  <1>3. Exchanges' = Exchanges
    BY <1>2 DEF Exchanges
  <1>4. QED
    BY <1>3 DEF Backend!Next, Backend!Elsewhere

\* What may be said of a request where stream s is.
Sayable(s, verdict) ==
    LET raw == envoy[s].x.raw
    IN  \/ task[s].pc # "gating" /\ verdict.to = "local"
        \/ /\ task[s].pc # "gating" /\ verdict = [to |-> "continue"]
           /\ Front(cfg, raw) = [to |-> "continue"]
        \/ /\ task[s].pc = "gating"
           /\ verdict = Verdict(cfg, raw, task[s].looked.r, Admits(task[s].looked))

\* A stream gets its verdict (Told): the request is refused, sent on as it is, or
\* decided at the gate.
LEMMA Tells ==
    ASSUME Inv, NoneIsNoVerdict, NEW s \in Streams, task[s].verdict = None,
           envoy[s].pc # "idle", NEW e, NEW t, NEW verdict, Turns(s, e, t), UNCHANGED placing,
           e.pc = envoy[s].pc, e.x = envoy[s].x, e.upstream = envoy[s].upstream,
           t.verdict = verdict, t.looked = None, Speaks(verdict), Sayable(s, verdict)
    PROVE  Backend!Next
  <1> DEFINE was == Exchanged(envoy[s], task[s])
             d == [was EXCEPT !.pc = "decided", !.looked = None, !.outcome = verdict]
             f == Exchanged(e, t)
  <1>1. verdict # None
    BY DEF NoneIsNoVerdict, Speaks
  <1>2. /\ was.x = envoy[s].x /\ was.looked = task[s].looked /\ IsRecord(was, ExchangeFields)
        /\ was.upstream = envoy[s].upstream
        /\ was.pc = IF task[s].pc = "gating" THEN "looked" ELSE "open"
    BY Shown
  <1>3. /\ IsRecord(d, ExchangeFields) /\ d.pc = "decided" /\ d.looked = None
        /\ d.outcome = verdict /\ d.x = was.x /\ d.upstream = was.upstream /\ d.gone = was.gone
    <2> HIDE DEF was
    <2> QED
      BY <1>2 DEF IsRecord, ExchangeFields
  <1>4. d = f
    <2>1. /\ IsRecord(f, ExchangeFields) /\ f.pc = "decided" /\ f.x = envoy[s].x
          /\ f.looked = None /\ f.outcome = verdict /\ f.upstream = envoy[s].upstream
      BY <1>1, Shown
    <2>2. was.gone = f.gone
      BY Shown
    <2>3. d.gone = f.gone
      <3> HIDE DEF d, was, f
      <3> QED
        BY <1>3, <2>2, Zenon
    <2>4. /\ d.pc = f.pc /\ d.x = f.x /\ d.looked = f.looked /\ d.outcome = f.outcome
          /\ d.upstream = f.upstream
      <3> HIDE DEF d, was, f
      <3> QED
        BY <1>2, <1>3, <2>1
    <2>5. QED
      <3> HIDE DEF d, was, f
      <3> QED
        BY <1>3, <2>1, <2>3, <2>4, SameExchange, Zenon
  <1>5. Exchanges[s] = was /\ Exchanges' = [Exchanges EXCEPT ![s] = d] /\ Exchanges'[s] = d
    <2> HIDE DEF d
    <2> QED
      BY <1>4, OneExchange
  <1>6. Backend!Decided(s, verdict)
    <2> HIDE DEF was
    <2> QED
      BY <1>5 DEF Backend!Decided, Backend!Becomes, placing
  <1>7. CASE task[s].pc # "gating" /\ verdict.to = "local"
    <2>1. Backend!Refuse(s)
      <3> HIDE DEF was, d
      <3> QED
        BY <1>2, <1>3, <1>5, <1>6, <1>7 DEF Backend!Refuse
    <2>2. QED
      BY <2>1 DEF Backend!Next
  <1>8. CASE /\ task[s].pc # "gating" /\ verdict = [to |-> "continue"]
             /\ Front(cfg, envoy[s].x.raw) = [to |-> "continue"]
    <2>1. Backend!PassThrough(s)
      <3> HIDE DEF was, d
      <3> QED
        BY <1>2, <1>5, <1>6, <1>8 DEF Backend!PassThrough
    <2>2. QED
      BY <2>1 DEF Backend!Next
  <1>9. CASE /\ task[s].pc = "gating"
             /\ verdict = Verdict(cfg, envoy[s].x.raw, task[s].looked.r,
                                  Admits(task[s].looked))
    <2>1. Backend!Decide(s)
      <3> HIDE DEF was, d
      <3> QED
        BY <1>2, <1>5, <1>6, <1>9 DEF Backend!Decide, Admits
    <2>2. QED
      BY <2>1 DEF Backend!Next
  <1>10. QED
    BY <1>7, <1>8, <1>9 DEF Sayable

\* The headers say of a request what the task goes by, and its body makes it whole.
LEMMA HeadersSay ==
    ASSUME NEW s \in Streams, NEW x \in Requests[s]
    PROVE  /\ Headers(x).async = x.async /\ Headers(x).bodied = x.bodied
           /\ [Headers(x).raw EXCEPT !.body = x.raw.body] = x.raw
           /\ x.bodied \/ x.raw.body = None
  <1>1. /\ IsRecord(x, RequestFields) /\ IsRecord(x.raw, RawFields)
        /\ x.bodied \/ x.raw.body = None
    BY RequestsAssumption DEF IsRequest, RawFields
  <1>2. /\ Headers(x).async = x.async /\ Headers(x).bodied = x.bodied
        /\ Headers(x).raw = [x.raw EXCEPT !.body = None]
    BY <1>1 DEF Headers, IsRecord, RequestFields
  <1> DEFINE whole == [Headers(x).raw EXCEPT !.body = x.raw.body]
  <1>3. IsRecord(whole, RawFields) /\ \A f \in RawFields : whole[f] = x.raw[f]
    BY <1>1, <1>2 DEF IsRecord, RawFields
  <1>4. whole = x.raw
    BY <1>1, <1>3 DEF IsRecord
  <1>5. QED
    BY <1>1, <1>2, <1>4

\* What Envoy would forward after the answer it is given, and what the task says.
Learns(e, t, answer) ==
    e.pc = "waiting" /\ e.phase \in RequestPhase /\ answer.kind # "immediate" =>
        /\ e.upstream = None
        /\ (IF answer.what # None THEN answer.what ELSE e.held) = t.verdict
        /\ t.verdict = None => e.phase = "request_headers" /\ e.x.bodied
        /\ t.verdict # None => Forwardable(e, t.verdict)
        /\ e.phase = "request_headers" /\ e.x.bodied => t.verdict = None

\* An answer is sent, and the task has said what Envoy now knows (Send).
LEMMA SendTurns ==
    ASSUME Inv, NEW s \in Streams, Agree(envoy[s], task[s]), NEW t, NEW answer,
           Send(s, t, answer), IsRecord(t, TaskFields),
           envoy[s].pc \in {"waiting", "closed"},
           envoy[s].phase \in RequestPhase /\ envoy[s].pc = "waiting" => envoy[s].upstream = None,
           t.headers = Headers(envoy[s].x), t.looked = None,
           Learns(envoy[s], t, answer)
    PROVE  \E e2, t2 :
              /\ Turns(s, e2, t2) /\ Agree(e2, t2)
              /\ e2.pc = envoy[s].pc /\ e2.x = envoy[s].x /\ e2.upstream = envoy[s].upstream
              /\ t2.pc \in {"reading", "ended"} /\ t2.looked = None /\ t2.verdict = t.verdict
  <1> DEFINE t2 == [t EXCEPT !.inbox = None, !.pc = IF Closed(s) THEN "ended" ELSE "reading"]
             e2 == IF Closed(s) THEN envoy[s] ELSE [envoy[s] EXCEPT !.inbox = answer]
  <1>1. Pair(s, envoy[s], task[s])
    BY DEF Inv
  <1>2. /\ t2.inbox = None /\ t2.headers = t.headers /\ t2.looked = t.looked
        /\ t2.pc \in {"reading", "ended"} /\ t2.verdict = t.verdict
    BY DEF IsRecord, TaskFields
  <1>3. /\ e2.pc = envoy[s].pc /\ e2.x = envoy[s].x /\ e2.done = envoy[s].done
        /\ e2.inbox = IF Closed(s) THEN envoy[s].inbox ELSE answer
        /\ e2.phase = envoy[s].phase /\ e2.held = envoy[s].held
        /\ e2.upstream = envoy[s].upstream
    BY <1>1 DEF Pair, IsRecord, EnvoyFields
  <1>4. Agree(e2, t2)
    <2>1. ASSUME e2.pc = "waiting", e2.phase \in RequestPhase PROVE Carries(e2, t2)
      <3>1. /\ e2.inbox = answer /\ envoy[s].pc = "waiting" /\ envoy[s].phase \in RequestPhase
        <4> HIDE DEF e2, t2
        <4> QED
          BY <1>3, <2>1 DEF Closed
      <3>2. QED
        <4> HIDE DEF e2, t2
        <4> QED
          BY <1>2, <1>3, <3>1 DEF Carries, Learns, Forwardable
    <2> HIDE DEF e2, t2
    <2>2. QED
      BY <1>2, <1>3, <2>1 DEF Agree, Unheard
  <1>5. Turns(s, e2, t2)
    BY DEF Turns, Send, Inv, IsRecord
  <1>6. QED
    <2> HIDE DEF e2, t2
    <2> QED
      BY <1>2, <1>3, <1>4, <1>5

\* An answer that tells nothing new is nobody's step (Send).
LEMMA SendUnseen ==
    ASSUME Inv, NEW s \in Streams, Agree(envoy[s], task[s]), NEW t, NEW answer,
           Send(s, t, answer), IsRecord(t, TaskFields),
           envoy[s].pc \in {"waiting", "closed"}, task[s].pc # "gating",
           envoy[s].phase \in RequestPhase /\ envoy[s].pc = "waiting" => envoy[s].upstream = None,
           t.headers = Headers(envoy[s].x), t.looked = None,
           t.verdict = task[s].verdict, Learns(envoy[s], t, answer)
    PROVE  Maps(s)
  <1>1. PICK e2 : \E t2 :
              /\ Turns(s, e2, t2) /\ Agree(e2, t2)
              /\ e2.pc = envoy[s].pc /\ e2.x = envoy[s].x /\ e2.upstream = envoy[s].upstream
              /\ t2.pc \in {"reading", "ended"} /\ t2.looked = None /\ t2.verdict = t.verdict
    BY SendTurns
  <1>2. PICK t2 :
              /\ Turns(s, e2, t2) /\ Agree(e2, t2)
              /\ e2.pc = envoy[s].pc /\ e2.x = envoy[s].x /\ e2.upstream = envoy[s].upstream
              /\ t2.pc \in {"reading", "ended"} /\ t2.looked = None /\ t2.verdict = t.verdict
    BY <1>1
  <1>3. task[s].looked = None
    BY DEF Agree
  <1>4. Backend!Next
    BY <1>2, <1>3, Unseeable
  <1>5. QED
    BY <1>2, <1>4 DEF Maps

\* What the task says, as it says it.
LEMMA ToldIs ==
    ASSUME NEW t, IsRecord(t, TaskFields), NEW verdict
    PROVE  /\ IsRecord(Told(t, verdict), TaskFields)
           /\ Told(t, verdict).headers = t.headers /\ Told(t, verdict).verdict = verdict
           /\ Told(t, verdict).looked = None
  BY DEF Told, IsRecord, TaskFields

\* The task says what is to become of the request, in an answer (SendReply,
\* SendMutation).
LEMMA SendTells ==
    ASSUME Inv, NoneIsNoVerdict, NEW s \in Streams, Agree(envoy[s], task[s]),
           NEW t, NEW verdict, NEW kind,
           Send(s, Told(t, verdict), Answer(kind, verdict)), IsRecord(t, TaskFields),
           envoy[s].pc \in {"waiting", "closed"}, Unheard(task[s]),
           t.headers = Headers(envoy[s].x), UNCHANGED placing,
           Speaks(verdict), Sayable(s, verdict),
           kind # "immediate" =>
               /\ Forwardable(envoy[s], verdict)
               /\ envoy[s].pc = "waiting" /\ envoy[s].phase = "request_headers"
                  => ~envoy[s].x.bodied
    PROVE  Maps(s)
  <1> DEFINE told == Told(t, verdict)
             answer == Answer(kind, verdict)
  <1>1. /\ IsRecord(told, TaskFields) /\ told.headers = t.headers /\ told.verdict = verdict
        /\ told.looked = None
    BY ToldIs
  <1>2. answer.kind = kind /\ answer.what = verdict /\ verdict # None
    BY DEF Answer, Speaks, NoneIsNoVerdict
  <1>3. envoy[s].pc = "waiting" /\ envoy[s].phase \in RequestPhase => envoy[s].upstream = None
    BY DEF Agree, Carries
  <1>4. Learns(envoy[s], told, answer)
    <2> HIDE DEF told, answer
    <2> QED
      BY <1>1, <1>2, <1>3 DEF Learns
  <1> HIDE DEF told, answer
  <1>5. PICK e2 : \E t2 :
              /\ Turns(s, e2, t2) /\ Agree(e2, t2)
              /\ e2.pc = envoy[s].pc /\ e2.x = envoy[s].x /\ e2.upstream = envoy[s].upstream
              /\ t2.pc \in {"reading", "ended"} /\ t2.looked = None /\ t2.verdict = verdict
    BY <1>1, <1>3, <1>4, SendTurns DEF told, answer
  <1>6. PICK t2 :
              /\ Turns(s, e2, t2) /\ Agree(e2, t2)
              /\ e2.pc = envoy[s].pc /\ e2.x = envoy[s].x /\ e2.upstream = envoy[s].upstream
              /\ t2.pc \in {"reading", "ended"} /\ t2.looked = None /\ t2.verdict = verdict
    BY <1>5
  <1>7. task[s].verdict = None
    BY DEF Agree
  <1>8. Backend!Next
    BY <1>6, <1>7, Tells
  <1>9. QED
    BY <1>6, <1>8 DEF Maps

\* The filter's word, carried out (Conclude).
LEMMA ConcludeMaps ==
    ASSUME Inv, NoneIsNoVerdict, NEW s \in Streams, Agree(envoy[s], task[s]),
           NEW t, NEW verdict, Conclude(s, t, verdict), IsRecord(t, TaskFields),
           envoy[s].pc \in {"waiting", "closed"}, envoy[s].inbox = None, Unheard(task[s]),
           t.headers = Headers(envoy[s].x), UNCHANGED placing,
           Speaks(verdict), Sayable(s, verdict), InStep(envoy[s], t.phase),
           t.phase = "request_headers" => ~envoy[s].x.bodied
    PROVE  Maps(s)
  <1>1. envoy[s].x \in Requests[s]
    BY DEF Inv, Pair
  <1>2. t.headers.async = envoy[s].x.async
    BY <1>1, HeadersSay
  <1>3. CASE verdict.to = "local"
    BY <1>3, SendTells DEF Conclude, SendReply
  <1>4. CASE verdict.to # "local" /\ t.headers.async
    <2> DEFINE told == Told(t, verdict)
               t2 == [told EXCEPT !.inbox = None, !.pc = "producing"]
    <2>1. /\ IsRecord(told, TaskFields) /\ told.headers = t.headers
          /\ told.verdict = verdict /\ told.looked = None
      BY ToldIs
    <2>2. /\ t2.inbox = None /\ t2.pc = "producing" /\ t2.headers = t.headers
          /\ t2.verdict = verdict /\ t2.looked = None
      <3> HIDE DEF told
      <3> QED
        BY <2>1 DEF IsRecord, TaskFields
    <2>3. Turns(s, envoy[s], t2)
      BY <1>4 DEF Conclude, BeginProduce, Turns, Inv, IsRecord
    <2> HIDE DEF t2
    <2>4. Agree(envoy[s], t2)
      BY <2>2 DEF Agree, Unheard, Carries
    <2>5. task[s].verdict = None
      BY DEF Agree
    <2>6. Backend!Next
      BY <2>2, <2>3, <2>5, Tells
    <2>7. QED
      BY <2>3, <2>4, <2>6 DEF Maps
  <1>5. CASE verdict.to # "local" /\ ~t.headers.async
    <2>1. Send(s, Told(t, verdict), Answer(t.phase, verdict))
      BY <1>5 DEF Conclude, SendMutation
    <2>2. Forwardable(envoy[s], verdict)
      BY <1>2, <1>5 DEF Forwardable
    <2>3. envoy[s].pc = "waiting" /\ envoy[s].phase = "request_headers" => ~envoy[s].x.bodied
      BY DEF InStep
    <2>4. QED
      BY <2>1, <2>2, <2>3, SendTells
  <1>6. QED
    BY <1>3, <1>4, <1>5

\* A request is refused early, passes through, or goes to the router (DispatchWrite).
LEMMA DispatchMaps ==
    ASSUME Inv, NoneIsNoVerdict, NEW s \in Streams, Agree(envoy[s], task[s]),
           NEW t, NEW phase \in {"request_headers", "request_body"}, NEW body,
           DispatchWrite(s, t, phase, body), IsRecord(t, TaskFields), Reads(s, phase),
           t.headers = Headers(envoy[s].x), body = envoy[s].x.raw.body,
           t.looked = None, t.verdict = None,
           phase = "request_headers" => ~envoy[s].x.bodied, UNCHANGED placing
    PROVE  Maps(s)
  <1> DEFINE req   == [t.headers.raw EXCEPT !.body = body]
             known == [t EXCEPT !.req = req, !.phase = phase]
             early == Early(cfg, sink, t.headers.async, req)
             t2    == [known EXCEPT !.inbox = None, !.pc = "resolving"]
  <1>1. /\ envoy[s].pc \in {"waiting", "closed"} /\ envoy[s].inbox = None
        /\ InStep(envoy[s], phase) /\ envoy[s].x \in Requests[s]
    BY DEF Inv, Pair, Reads
  <1>2. /\ task[s].pc = "reading" /\ task[s].inbox # None
        /\ Unheard(task[s]) /\ task[s].verdict = None
    BY DEF Reads, Unheard, Agree
  <1>3. req = envoy[s].x.raw
    BY <1>1, HeadersSay
  <1>4. /\ IsRecord(known, TaskFields) /\ known.headers = t.headers /\ known.req = req
        /\ known.phase = phase /\ known.looked = None /\ known.verdict = None
    <2> HIDE DEF req
    <2> QED
      BY DEF IsRecord, TaskFields
  <1>5. CASE early # Pass /\ Conclude(s, known, early)
    <2>1. Speaks(early) /\ Sayable(s, early)
      <3>1. /\ Speaks(early)
            /\ \/ early.to = "local"
               \/ early = [to |-> "continue"] /\ Front(cfg, req) = [to |-> "continue"]
        BY <1>5, VerdictsSpeak
      <3>2. QED
        <4> HIDE DEF early, req
        <4> QED
          BY <1>2, <1>3, <3>1 DEF Sayable
    <2>2. QED
      <3> HIDE DEF early, known, req
      <3> QED
        BY <1>1, <1>2, <1>4, <1>5, <2>1, ConcludeMaps
  <1>6. CASE task' = [task EXCEPT ![s] = t2] /\ UNCHANGED envoy
    <2>1. /\ t2.inbox = None /\ t2.pc = "resolving" /\ t2.headers = t.headers /\ t2.req = req
          /\ t2.phase = phase /\ t2.looked = None /\ t2.verdict = None
      <3> HIDE DEF known, req
      <3> QED
        BY <1>4 DEF IsRecord, TaskFields
    <2>2. Turns(s, envoy[s], t2)
      BY <1>6 DEF Turns, Inv, IsRecord
    <2>3. task[s].looked = None
      BY <1>2 DEF Agree
    <2> HIDE DEF t2, req
    <2>4. Agree(envoy[s], t2)
      BY <1>1, <1>2, <1>3, <2>1 DEF Agree, Unheard, Carries, InStep
    <2>5. Backend!Next
      BY <1>1, <1>2, <2>1, <2>2, <2>3, Unseeable
    <2>6. QED
      BY <2>2, <2>4, <2>5 DEF Maps
  <1>7. QED
    BY <1>5, <1>6 DEF DispatchWrite

\* The two phases a request is decided in, its headers' and its body's.
LEMMA RequestMaps ==
    ASSUME Inv, NoneIsNoVerdict, NEW s \in Streams, Agree(envoy[s], task[s]),
           OnRequestHeaders(s) \/ OnRequestBody(s)
    PROVE  Maps(s)
  <1>1. /\ IsRecord(task[s], TaskFields) /\ task[s].pc = "reading" /\ task[s].inbox # None
        /\ envoy[s].pc \in {"waiting", "closed"} /\ envoy[s].inbox = None
        /\ envoy[s].x \in Requests[s] /\ UNCHANGED placing
        /\ InStep(envoy[s], task[s].inbox.phase)
    BY DEF Inv, Pair, Reads, OnRequestHeaders, OnRequestBody, settings
  <1>2. Unheard(task[s]) /\ task[s].verdict = None /\ task[s].looked = None
    BY <1>1 DEF Unheard, Agree, Reads, OnRequestHeaders, OnRequestBody
  <1>3. envoy[s].pc = "waiting" =>
            /\ envoy[s].phase = task[s].inbox.phase /\ envoy[s].phase \in RequestPhase
            /\ envoy[s].upstream = None /\ envoy[s].held = None
    BY <1>1, <1>2 DEF InStep, Agree, Carries, Reads, OnRequestHeaders, OnRequestBody,
                      RequestPhase
  <1>4. CASE OnRequestHeaders(s)
    <2> DEFINE x == task[s].inbox.content
               t == [task[s] EXCEPT !.headers = x]
    <2>1. Reads(s, "request_headers") /\ x = Headers(envoy[s].x)
      BY <1>1, <1>4 DEF OnRequestHeaders, Reads, Agree
    <2>2. /\ IsRecord(t, TaskFields) /\ t.headers = x /\ t.looked = None /\ t.verdict = None
      BY <1>1, <1>2 DEF IsRecord, TaskFields
    <2>3. x.bodied = envoy[s].x.bodied /\ (~x.bodied => envoy[s].x.raw.body = None)
      BY <1>1, <2>1, HeadersSay
    <2>4. CASE BeginReply(s, t)
      <3> DEFINE seen == Unseen(t.headers)
                 t2 == [t EXCEPT !.inbox = None, !.pc = "observing", !.seen = seen]
      <3>1. /\ t2.inbox = None /\ t2.pc = "observing" /\ t2.headers = t.headers
            /\ t2.looked = None /\ t2.verdict = None
        <4> HIDE DEF seen, t
        <4> QED
          BY <2>2 DEF IsRecord, TaskFields
      <3>2. Turns(s, envoy[s], t2)
        BY <2>4 DEF BeginReply, Turns, Inv, IsRecord
      <3>3. Agree(envoy[s], t2)
        <4> HIDE DEF t2, t, x
        <4> QED
          BY <1>1, <1>2, <1>3, <2>1, <2>2, <3>1 DEF Agree, Unheard, Carries, Reads
      <3>4. Backend!Next
        <4> HIDE DEF t2
        <4> QED
          BY <1>1, <1>2, <3>1, <3>2, Unseeable
      <3>5. QED
        BY <3>2, <3>3, <3>4 DEF Maps
    <2>5. CASE x.bodied /\ Send(s, t, Continue("request_headers"))
      <3>1. Learns(envoy[s], t, Continue("request_headers"))
        <4> HIDE DEF t, x
        <4> QED
          BY <1>3, <2>1, <2>2, <2>3, <2>5 DEF Learns, Continue, Answer, Reads
      <3>2. QED
        <4> HIDE DEF t
        <4> QED
          BY <1>1, <1>2, <1>3, <2>1, <2>2, <2>5, <3>1, SendUnseen
    <2>6. CASE ~x.bodied /\ DispatchWrite(s, t, "request_headers", None)
      <3> HIDE DEF t, x
      <3> QED
        BY <1>1, <2>1, <2>2, <2>3, <2>6, DispatchMaps
    <2>7. QED
      BY <1>4, <2>4, <2>5, <2>6 DEF OnRequestHeaders
  <1>5. CASE OnRequestBody(s)
    <2>1. /\ Reads(s, "request_body") /\ task[s].inbox.content = envoy[s].x.raw.body
          /\ task[s].headers = Headers(envoy[s].x)
      BY <1>1, <1>5 DEF OnRequestBody, Reads, Agree, HasHeaders
    <2>2. CASE DispatchWrite(s, task[s], "request_body", task[s].inbox.content)
      BY <1>1, <1>2, <2>1, <2>2, DispatchMaps
    <2>3. CASE SendReply(s, task[s], Immediate(413, "payload_too_large"))
      <3> DEFINE reply == Immediate(413, "payload_too_large")
      <3>1. reply.to = "local" /\ Speaks(reply)
        BY DEF Immediate, Speaks
      <3>2. Sayable(s, reply)
        <4> HIDE DEF reply
        <4> QED
          BY <1>1, <3>1 DEF Sayable
      <3>3. Send(s, Told(task[s], reply), Answer("immediate", reply))
        BY <2>3 DEF SendReply
      <3>4. QED
        <4> HIDE DEF reply
        <4> QED
          BY <1>1, <1>2, <2>1, <3>1, <3>2, <3>3, SendTells
    <2>4. QED
      BY <1>5, <2>2, <2>3 DEF OnRequestBody
  <1>6. QED
    BY <1>4, <1>5

\* A task at work changes its place, and nothing shows of it.
LEMMA WorkUnseen ==
    ASSUME Inv, NEW s \in Streams, Agree(envoy[s], task[s]), NEW t,
           task' = [task EXCEPT ![s] = t], UNCHANGED envoy,
           task[s].pc \in {"reading", "observing"}, t.pc \in {"observing", "shaping", "ended"},
           envoy[s].pc \in {"waiting", "closed"},
           t.pc = "observing" => task[s].pc = "observing",
           t.pc = "shaping" /\ envoy[s].pc = "waiting" => envoy[s].phase \notin RequestPhase,
           t.inbox = None \/ (t.inbox = task[s].inbox /\ t.pc = task[s].pc),
           t.headers = task[s].headers, t.looked = task[s].looked,
           t.verdict = task[s].verdict,
           t.pc # "ended" => HasHeaders(envoy[s], task[s]),
           t.pc = "ended" => envoy[s].pc = "closed"
    PROVE  Maps(s)
  <1>1. Turns(s, envoy[s], t)
    BY DEF Turns, Inv, IsRecord
  <1>2. Agree(envoy[s], t)
    <2>1. envoy[s].pc = "waiting" /\ envoy[s].phase \in RequestPhase => Carries(envoy[s], t)
      BY DEF Agree, Carries
    <2>2. envoy[s].pc = "closed" => envoy[s].inbox = None
      BY DEF Inv, Pair
    <2>3. QED
      BY <2>1, <2>2 DEF Agree, Unheard, HasHeaders, Busy
  <1>3. Backend!Next
    BY <1>1, Unseeable
  <1>4. QED
    BY <1>1, <1>2, <1>3 DEF Maps

\* A reserved path's reply is the backend's own (reserved_reply).
LEMMA ObserveMaps ==
    ASSUME Inv, NoneIsNoVerdict, NEW s \in Streams, Agree(envoy[s], task[s]),
           Observing(s) \/ Observed(s)
    PROVE  Maps(s)
  <1>1. /\ IsRecord(task[s], TaskFields) /\ task[s].pc = "observing"
        /\ envoy[s].pc \in {"waiting", "closed"} /\ UNCHANGED placing
    BY DEF Inv, Pair, Observing, Observed, Busy, settings
  <1>2. /\ Unheard(task[s]) /\ HasHeaders(envoy[s], task[s])
        /\ task[s].headers = Headers(envoy[s].x)
    BY <1>1 DEF Unheard, HasHeaders, Agree, Busy
  <1>3. CASE Observing(s)
    <2>1. PICK seen : task' = [task EXCEPT ![s].seen = seen]
      BY <1>3 DEF Observing
    <2> DEFINE t2 == [task[s] EXCEPT !.seen = seen]
    <2>2. /\ t2.inbox = task[s].inbox /\ t2.pc = "observing" /\ t2.headers = task[s].headers
          /\ t2.looked = task[s].looked /\ t2.verdict = task[s].verdict
      BY <1>1 DEF IsRecord, TaskFields
    <2>3. task' = [task EXCEPT ![s] = t2] /\ UNCHANGED envoy
      BY <1>3, <2>1 DEF Observing
    <2>4. QED
      <3> HIDE DEF t2
      <3> QED
        BY <1>1, <1>2, <2>2, <2>3, WorkUnseen
  <1>4. CASE Observed(s)
    <2> DEFINE reply == Reply(task[s].headers, task[s].seen)
    <2>1. reply.to = "local" /\ Speaks(reply)
      BY DEF Reply, AdminReply, Immediate, Speaks
    <2>2. Sayable(s, reply)
      <3> HIDE DEF reply
      <3> QED
        BY <1>1, <2>1 DEF Sayable
    <2>3. Send(s, Told(task[s], reply), Answer("immediate", reply))
      BY <1>4 DEF Observed, SendReply
    <2>4. QED
      <3> HIDE DEF reply
      <3> QED
        BY <1>1, <1>2, <2>1, <2>2, <2>3, SendTells
  <1>5. QED
    BY <1>3, <1>4

\* The other phases, an async write's reply, and the end of a stream.
LEMMA OthersMap ==
    ASSUME Inv, NEW s \in Streams, Agree(envoy[s], task[s]),
           \/ OnRequestTrailers(s) \/ OnResponseHeaders(s) \/ DecisionHeader(s)
           \/ OnResponseBody(s) \/ OnResponseTrailers(s) \/ Produces(s) \/ End(s)
    PROVE  Maps(s)
  <1>1. /\ IsRecord(task[s], TaskFields) /\ task[s].pc \in {"reading", "shaping", "producing"}
    BY DEF Inv, Pair, Reads, OnRequestTrailers, OnResponseHeaders, DecisionHeader,
           OnResponseBody, OnResponseTrailers, Produces, Acknowledged, NotAcknowledged,
           Produced, End
  <1>2. task[s].looked = None
    BY <1>1 DEF Agree
  <1>3. ASSUME NEW answer, Send(s, task[s], answer), Learns(envoy[s], task[s], answer),
               HasHeaders(envoy[s], task[s]), envoy[s].pc \in {"waiting", "closed"}
        PROVE  Maps(s)
    <2>1. task[s].headers = Headers(envoy[s].x)
      BY <1>3 DEF Agree
    <2>2. envoy[s].phase \in RequestPhase /\ envoy[s].pc = "waiting" => envoy[s].upstream = None
      BY DEF Agree, Carries
    <2>3. QED
      BY <1>1, <1>2, <1>3, <2>1, <2>2, SendUnseen
  <1>4. ASSUME NEW phase, Reads(s, phase), phase # "request_headers"
        PROVE  /\ HasHeaders(envoy[s], task[s]) /\ envoy[s].pc \in {"waiting", "closed"}
               /\ envoy[s].inbox = None /\ InStep(envoy[s], phase)
               /\ task[s].inbox # None /\ task[s].pc = "reading"
    BY <1>4 DEF Reads, HasHeaders, Inv, Pair
  <1>5. CASE OnRequestTrailers(s)
    <2>1. /\ Reads(s, "request_trailers") /\ Send(s, task[s], Continue("request_trailers"))
      BY <1>5 DEF OnRequestTrailers
    <2>2. Learns(envoy[s], task[s], Continue("request_trailers"))
      BY <1>4, <2>1 DEF Learns, Continue, Answer, InStep, Agree, Carries
    <2>3. QED
      BY <1>3, <1>4, <2>1, <2>2
  <1>6. ASSUME NEW phase \in {"response_headers", "response_body", "response_trailers"},
               NEW answer, InStep(envoy[s], phase)
        PROVE  Learns(envoy[s], task[s], answer)
    BY <1>6 DEF Learns, InStep, RequestPhase
  <1>7. CASE OnResponseHeaders(s) /\ ~emit
    BY <1>3, <1>4, <1>6, <1>7 DEF OnResponseHeaders
  <1>8. CASE OnResponseHeaders(s) /\ emit
    <2> DEFINE t2 == [task[s] EXCEPT !.pc = "shaping", !.inbox = None]
    <2>1. /\ t2.inbox = None /\ t2.pc = "shaping" /\ t2.headers = task[s].headers
          /\ t2.looked = task[s].looked /\ t2.verdict = task[s].verdict
      BY <1>1 DEF IsRecord, TaskFields
    <2>2. Reads(s, "response_headers")
      BY <1>8 DEF OnResponseHeaders
    <2>3. task' = [task EXCEPT ![s] = t2] /\ UNCHANGED envoy
      BY <1>8 DEF OnResponseHeaders
    <2>4. envoy[s].pc = "waiting" => envoy[s].phase \notin RequestPhase
      BY <1>4, <2>2 DEF InStep, RequestPhase
    <2>5. /\ HasHeaders(envoy[s], task[s]) /\ task[s].pc = "reading"
          /\ envoy[s].pc \in {"waiting", "closed"}
      BY <1>4, <2>2
    <2>6. QED
      <3> HIDE DEF t2
      <3> QED
        BY <2>1, <2>3, <2>4, <2>5, WorkUnseen
  <1>9. CASE DecisionHeader(s)
    <2>1. /\ task[s].pc = "shaping" /\ HasHeaders(envoy[s], task[s])
          /\ envoy[s].pc \in {"waiting", "closed"} /\ InStep(envoy[s], "response_headers")
      BY <1>9 DEF DecisionHeader, Inv, Pair, Busy, HasHeaders
    <2>2. QED
      BY <1>3, <1>6, <1>9, <2>1 DEF DecisionHeader
  <1>10. CASE OnResponseBody(s) \/ OnResponseTrailers(s)
    BY <1>3, <1>4, <1>6, <1>10 DEF OnResponseBody, OnResponseTrailers
  <1>11. CASE Produces(s)
    <2>1. /\ task[s].pc = "producing" /\ HasHeaders(envoy[s], task[s])
          /\ envoy[s].pc \in {"waiting", "closed"}
      BY <1>11 DEF Produces, Acknowledged, NotAcknowledged, Produced, Inv, Pair, Busy, HasHeaders
    <2>2. PICK reply : Send(s, task[s], Answer("immediate", reply))
      BY <1>11 DEF Produces, Acknowledged, NotAcknowledged, Produced
    <2>3. Learns(envoy[s], task[s], Answer("immediate", reply))
      BY DEF Learns, Answer
    <2>4. QED
      BY <1>3, <2>1, <2>2, <2>3
  <1>12. CASE End(s)
    <2> DEFINE t2 == [task[s] EXCEPT !.pc = "ended", !.inbox = None]
    <2>1. /\ t2.inbox = None /\ t2.pc = "ended" /\ t2.headers = task[s].headers
          /\ t2.looked = task[s].looked /\ t2.verdict = task[s].verdict
      BY <1>1 DEF IsRecord, TaskFields
    <2>2. /\ task' = [task EXCEPT ![s] = t2] /\ UNCHANGED envoy
          /\ task[s].pc = "reading" /\ envoy[s].pc = "closed"
      BY <1>12 DEF End, Closed
    <2>3. QED
      <3> HIDE DEF t2
      <3> QED
        BY <2>1, <2>2, WorkUnseen
  <1>13. QED
    BY <1>5, <1>7, <1>8, <1>9, <1>10, <1>11, <1>12

\* The two awaits of prepare are the two questions of an exchange.
LEMMA QuestionsMap ==
    ASSUME Inv, NoneIsNoVerdict, NEW s \in Streams, Agree(envoy[s], task[s]),
           ResolveNow(s) \/ Gate(s)
    PROVE  Maps(s)
  <1> DEFINE e == envoy[s]
             t == task[s]
  <1>1. /\ IsRecord(t, TaskFields) /\ t.pc \in {"resolving", "gating"} /\ UNCHANGED placing
        /\ e.pc \in {"waiting", "closed"} /\ e.inbox = None /\ InStep(e, t.phase)
        /\ e.x \in Requests[s]
    BY DEF Inv, Pair, ResolveNow, Gate, settings, Busy
  <1>2. /\ Unheard(t) /\ t.verdict = None /\ t.headers = Headers(e.x) /\ t.req = e.x.raw
        /\ t.phase \in {"request_headers", "request_body"}
        /\ t.phase = "request_headers" => ~e.x.bodied
    BY <1>1 DEF Agree, Unheard, HasHeaders, Busy
  <1>3. CASE ResolveNow(s)
    <2> DEFINE looked == Look(t.req)
               t2 == [t EXCEPT !.pc = "gating", !.looked = looked]
               was == Exchanged(e, t)
               d == [was EXCEPT !.pc = "looked", !.looked = looked]
               f == Exchanged(e, t2)
    <2>1. /\ t2.pc = "gating" /\ t2.looked = looked /\ t2.inbox = t.inbox
          /\ t2.headers = t.headers /\ t2.req = t.req /\ t2.phase = t.phase
          /\ t2.verdict = t.verdict
      <3> HIDE DEF looked
      <3> QED
        BY <1>1 DEF IsRecord, TaskFields
    <2>2. Turns(s, e, t2) /\ t.pc = "resolving"
      BY <1>3 DEF ResolveNow, Turns, Inv, IsRecord
    <2>3. Agree(e, t2)
      <3> HIDE DEF t2, looked
      <3> QED
        BY <1>1, <1>2, <2>1, <2>2 DEF Agree, Unheard, HasHeaders, Busy, Carries
    <2>4. /\ IsRecord(was, ExchangeFields) /\ was.pc = "open" /\ was.x = e.x
          /\ was.outcome = None /\ was.upstream = e.upstream
      BY <1>1, <1>2, <2>2, Shown
    <2>5. /\ IsRecord(d, ExchangeFields) /\ d.pc = "looked" /\ d.x = was.x
          /\ d.looked = looked /\ d.outcome = was.outcome /\ d.upstream = was.upstream
          /\ d.gone = was.gone
      <3> HIDE DEF was, looked
      <3> QED
        BY <2>4 DEF IsRecord, ExchangeFields
    <2>6. /\ IsRecord(f, ExchangeFields) /\ f.pc = "looked" /\ f.x = e.x
          /\ f.looked = looked /\ f.outcome = None /\ f.upstream = e.upstream
      <3> HIDE DEF t2, looked
      <3> QED
        BY <1>1, <1>2, <2>1, Shown
    <2>7. was.gone = f.gone
      <3> HIDE DEF t2
      <3> QED
        BY Shown
    <2>8. d = f
      <3> HIDE DEF d, was, f, looked
      <3>1. /\ d.pc = f.pc /\ d.x = f.x /\ d.looked = f.looked /\ d.outcome = f.outcome
            /\ d.upstream = f.upstream
        BY <2>4, <2>5, <2>6
      <3>2. d.gone = f.gone
        BY <2>5, <2>7, Zenon
      <3>3. QED
        BY <2>5, <2>6, <3>1, <3>2, SameExchange, Zenon
    <2>9. Exchanges[s] = was /\ Exchanges' = [Exchanges EXCEPT ![s] = d]
      <3> HIDE DEF d, t2
      <3> QED
        BY <2>2, <2>8, OneExchange DEF f
    <2>10. looked = LookAt(cfg, epoch, was.x.raw)
      BY <1>2, <2>4 DEF Look
    <2>11. Backend!Ask(s)
      <3> HIDE DEF was, looked
      <3> QED
        BY <1>1, <2>4, <2>9, <2>10 DEF Backend!Ask, Backend!Becomes, placing
    <2>12. QED
      <3> HIDE DEF t2
      <3> QED
        BY <2>2, <2>3, <2>11 DEF Maps, Backend!Next
  <1>4. CASE Gate(s)
    <2> DEFINE verdict == Verdict(cfg, t.req, t.looked.r, Admits(t.looked))
    <2>1. Conclude(s, t, verdict) /\ t.pc = "gating"
      BY <1>4 DEF Gate
    <2>2. Speaks(verdict)
      BY VerdictsSpeak
    <2>3. Sayable(s, verdict)
      BY <1>2, <2>1 DEF Sayable
    <2>4. QED
      <3> HIDE DEF verdict
      <3> QED
        BY <1>1, <1>2, <2>1, <2>2, <2>3, ConcludeMaps
  <1>5. QED
    BY <1>3, <1>4

\* The client is answered, or gives up (Close).
LEMMA CloseMaps ==
    ASSUME Inv, NEW s \in Streams, Agree(envoy[s], task[s]), NEW status, Close(s, status),
           envoy[s].pc \in {"waiting", "upstream"}, UNCHANGED <<settings, task>>
    PROVE  Maps(s)
  <1> DEFINE t == task[s]
             e2 == [NoEnvoy EXCEPT !.pc = "closed", !.status = status, !.x = envoy[s].x,
                                   !.upstream = envoy[s].upstream,
                                   !.before = envoy[s].before]
             was == Exchanged(envoy[s], t)
             d == [was EXCEPT !.gone = TRUE]
             f == Exchanged(e2, t)
  <1>1. /\ e2.pc = "closed" /\ e2.inbox = None /\ e2.x = envoy[s].x /\ e2.done = 0
        /\ e2.upstream = envoy[s].upstream
    BY DEF NoEnvoy
  <1>2. Turns(s, e2, t) /\ UNCHANGED placing
    BY DEF Close, Turns, Inv, IsRecord, settings
  <1>3. Agree(e2, t)
    <2> HIDE DEF e2
    <2> QED
      BY <1>1 DEF Agree, HasHeaders
  <1>4. /\ IsRecord(was, ExchangeFields) /\ IsRecord(f, ExchangeFields)
        /\ f.pc = was.pc /\ f.x = was.x /\ f.looked = was.looked /\ f.outcome = was.outcome
        /\ f.upstream = was.upstream /\ was.pc # "idle"
    <2> HIDE DEF e2
    <2> QED
      BY <1>1, Shown
  <1>5. /\ IsRecord(d, ExchangeFields) /\ d.pc = was.pc /\ d.x = was.x
        /\ d.looked = was.looked /\ d.outcome = was.outcome /\ d.upstream = was.upstream
        /\ d.gone = TRUE
    <2> HIDE DEF was
    <2> QED
      BY <1>4 DEF IsRecord, ExchangeFields
  <1>6. ~was.gone /\ f.gone = TRUE
    <2>1. was.gone = (envoy[s].pc = "closed") /\ f.gone = (e2.pc = "closed")
      <3> HIDE DEF e2
      <3> QED
        BY Shown
    <2>2. QED
      <3> HIDE DEF was, f, e2
      <3> QED
        BY <1>1, <2>1
  <1>7. d = f
    <2> HIDE DEF d, was, f
    <2>1. d.gone = f.gone
      BY <1>5, <1>6, Zenon
    <2>2. /\ d.pc = f.pc /\ d.x = f.x /\ d.looked = f.looked /\ d.outcome = f.outcome
          /\ d.upstream = f.upstream
      BY <1>4, <1>5
    <2>3. QED
      BY <1>4, <1>5, <2>1, <2>2, SameExchange, Zenon
  <1>8. Exchanges[s] = was /\ Exchanges' = [Exchanges EXCEPT ![s] = d]
    <2> HIDE DEF d, e2
    <2> QED
      BY <1>2, <1>7, OneExchange DEF f
  <1>9. Backend!Leave(s)
    <2> HIDE DEF was
    <2> QED
      BY <1>2, <1>4, <1>6, <1>8 DEF Backend!Leave, Backend!Becomes, placing
  <1>10. QED
    <2> HIDE DEF e2
    <2> QED
      BY <1>2, <1>3, <1>9 DEF Maps, Backend!Next

\* Where a phase stands among those of a request.
LEMMA PhaseOrder ==
    ASSUME NEW x, NEW n \in Nat, n >= 1, n <= Len(RequestPhases(x))
    PROVE  LET plan == RequestPhases(x)
               waits == plan[n] = "request_headers" /\ x.bodied
           IN  /\ plan[n] \in RequestPhase
               /\ waits => n < Len(plan)
               /\ n < Len(plan) => plan[n + 1] = IF waits THEN "request_body"
                                                         ELSE "request_trailers"
  BY DEF RequestPhases, RequestPhase

\* Envoy sends a phase and waits (Await).
LEMMA AwaitTurns ==
    ASSUME Inv, NEW s \in Streams, NEW e, NEW phase, Await(s, e, phase),
           IsRecord(e, EnvoyFields)
    PROVE  \E e2, t2 :
              /\ Turns(s, e2, t2)
              /\ e2.pc = "waiting" /\ e2.inbox = None /\ e2.x = e.x /\ e2.phase = phase
              /\ e2.done = e.done /\ e2.held = e.held /\ e2.upstream = e.upstream
              /\ t2.pc = "reading" /\ t2.inbox = Message(phase, e.x)
              /\ t2.headers = task[s].headers /\ t2.verdict = task[s].verdict
              /\ t2.looked = task[s].looked
  <1> DEFINE e2 == [e EXCEPT !.pc = "waiting", !.phase = phase, !.inbox = None]
             message == Message(phase, e.x)
             t2 == [task[s] EXCEPT !.pc = "reading", !.inbox = message]
  <1>1. IsRecord(task[s], TaskFields)
    BY DEF Inv, Pair
  <1>2. /\ e2.pc = "waiting" /\ e2.inbox = None /\ e2.x = e.x /\ e2.phase = phase
        /\ e2.done = e.done /\ e2.held = e.held /\ e2.upstream = e.upstream
    BY DEF IsRecord, EnvoyFields
  <1>3. /\ t2.pc = "reading" /\ t2.inbox = message
        /\ t2.headers = task[s].headers /\ t2.verdict = task[s].verdict
        /\ t2.looked = task[s].looked
    <2> HIDE DEF message
    <2> QED
      BY <1>1 DEF IsRecord, TaskFields
  <1>4. Turns(s, e2, t2)
    BY DEF Turns, Await
  <1>5. QED
    <2> HIDE DEF e2, t2
    <2> QED
      BY <1>2, <1>3, <1>4

\* A request arrives (OpenStream).
LEMMA OpenMaps ==
    ASSUME Inv, NEW s \in Streams, Agree(envoy[s], task[s]), NEW x \in Requests[s],
           OpenStream(s, x)
    PROVE  Maps(s)
  <1>1. PICK before :
            Await(s, [envoy[s] EXCEPT !.x = x, !.before = before], "request_headers")
    BY DEF OpenStream
  <1> DEFINE e == [envoy[s] EXCEPT !.x = x, !.before = before]
  <1>2. /\ IsRecord(envoy[s], EnvoyFields) /\ envoy[s].pc = "idle" /\ task[s].pc = "none"
        /\ UNCHANGED placing
    BY DEF Inv, Pair, OpenStream, settings
  <1>3. /\ envoy[s].upstream = None /\ envoy[s].held = None /\ envoy[s].done \in Nat
        /\ task[s].verdict = None /\ task[s].looked = None
    BY <1>2 DEF Agree
  <1>4. /\ IsRecord(e, EnvoyFields) /\ e.x = x /\ e.upstream = None /\ e.held = None
        /\ e.done = envoy[s].done
    BY <1>2, <1>3 DEF IsRecord, EnvoyFields
  <1>0. Await(s, e, "request_headers")
    BY <1>1
  <1> HIDE DEF e
  <1>5. PICK e2 : \E t2 :
              /\ Turns(s, e2, t2)
              /\ e2.pc = "waiting" /\ e2.inbox = None /\ e2.x = e.x /\ e2.phase = "request_headers"
              /\ e2.done = e.done /\ e2.held = e.held /\ e2.upstream = e.upstream
              /\ t2.pc = "reading" /\ t2.inbox = Message("request_headers", e.x)
              /\ t2.headers = task[s].headers /\ t2.verdict = task[s].verdict
              /\ t2.looked = task[s].looked
    BY <1>0, <1>4, AwaitTurns
  <1>6. PICK t2 :
              /\ Turns(s, e2, t2)
              /\ e2.pc = "waiting" /\ e2.inbox = None /\ e2.x = e.x /\ e2.phase = "request_headers"
              /\ e2.done = e.done /\ e2.held = e.held /\ e2.upstream = e.upstream
              /\ t2.pc = "reading" /\ t2.inbox = Message("request_headers", e.x)
              /\ t2.headers = task[s].headers /\ t2.verdict = task[s].verdict
              /\ t2.looked = task[s].looked
    BY <1>5
  <1>7. t2.inbox.phase = "request_headers" /\ t2.inbox.content = Headers(e2.x)
    BY <1>6 DEF Message
  <1>8. Agree(e2, t2)
    BY <1>3, <1>4, <1>6, <1>7 DEF Agree, Unheard, HasHeaders, Carries, Busy
  <1> DEFINE d == [Backend!Idle EXCEPT !.pc = "open", !.x = x]
             f == Exchanged(e2, t2)
  <1>9. /\ IsRecord(d, ExchangeFields) /\ d.pc = "open" /\ d.x = x
        /\ d.looked = None /\ d.outcome = None /\ d.upstream = None /\ d.gone = FALSE
    BY DEF Backend!Idle, IsRecord, ExchangeFields
  <1>10. /\ IsRecord(f, ExchangeFields) /\ f.pc = "open" /\ f.x = x
         /\ f.looked = None /\ f.outcome = None /\ f.upstream = None
         /\ f.gone = (e2.pc = "closed")
    BY <1>3, <1>4, <1>6, Shown
  <1>11. d = f
    <2> HIDE DEF d, f
    <2>1. f.gone = FALSE
      BY <1>6, <1>10
    <2>2. d.gone = f.gone
      BY <1>9, <2>1, Zenon
    <2>3. /\ d.pc = f.pc /\ d.x = f.x /\ d.looked = f.looked /\ d.outcome = f.outcome
          /\ d.upstream = f.upstream
      BY <1>9, <1>10
    <2>4. QED
      BY <1>9, <1>10, <2>2, <2>3, SameExchange, Zenon
  <1>12. /\ Exchanges[s] = Exchanged(envoy[s], task[s])
         /\ Exchanges' = [Exchanges EXCEPT ![s] = d]
    <2> HIDE DEF d
    <2> QED
      BY <1>6, <1>11, OneExchange DEF f
  <1>13. Exchanges[s].pc = "idle"
    BY <1>2, <1>12, Shown
  <1>14. Backend!Open(s, x)
    BY <1>2, <1>12, <1>13 DEF Backend!Open, Backend!Becomes, placing
  <1>15. QED
    BY <1>6, <1>8, <1>14 DEF Maps, Backend!Next

\* The answer to a request phase is applied: on to the next phase, or, of what was
\* decided, to the upstream (TakeMutation).
LEMMA MutationMaps ==
    ASSUME Inv, NoneIsNoVerdict, NEW s \in Streams, Agree(envoy[s], task[s]), TakeMutation(s)
    PROVE  Maps(s)
  <1> DEFINE e    == envoy[s]
             t    == task[s]
             plan == RequestPhases(e.x)
             next == e.done + 1
             held == IF e.inbox.what # None THEN e.inbox.what ELSE e.held
             now  == [e EXCEPT !.done = next, !.held = held]
             waits == e.phase = "request_headers" /\ e.x.bodied
  <1>1. /\ IsRecord(e, EnvoyFields) /\ e.pc = "waiting" /\ e.inbox # None
        /\ e.inbox.kind = plan[next] /\ e.inbox.kind \in {e.phase, "immediate"}
        /\ next <= Len(plan) /\ t.pc = "reading" /\ t.inbox = None /\ e.x \in Requests[s]
        /\ UNCHANGED placing
    BY DEF TakeMutation, Got, Inv, Pair, Fits, settings
  <1>2. next \in Nat /\ next >= 1
    BY DEF Agree
  <1>3. plan[next] \in RequestPhase /\ plan[next] = e.phase /\ e.phase \in RequestPhase
    <2>1. plan[next] \in RequestPhase
      <3> HIDE DEF next
      <3> QED
        BY <1>1, <1>2, PhaseOrder
    <2>2. QED
      BY <1>1, <2>1 DEF RequestPhase
  <1>4. /\ waits => next < Len(plan)
        /\ next < Len(plan) => plan[next + 1] = IF waits THEN "request_body"
                                                         ELSE "request_trailers"
    <2> HIDE DEF next
    <2> QED
      BY <1>1, <1>2, <1>3, PhaseOrder
  <1>5. /\ e.upstream = None /\ held = t.verdict /\ t.looked = None
        /\ t.verdict = None <=> waits
        /\ t.verdict # None => Forwardable(e, t.verdict)
        /\ t.headers = Headers(e.x)
    BY <1>1, <1>3 DEF Agree, Carries, RequestPhase, HasHeaders
  <1> HIDE DEF plan, next, held, waits
  <1>6. /\ IsRecord(now, EnvoyFields) /\ now.pc = e.pc /\ now.x = e.x /\ now.done = next
        /\ now.held = held /\ now.upstream = e.upstream
    BY <1>1 DEF IsRecord, EnvoyFields
  <1>7. CASE next < Len(plan) /\ Await(s, now, plan[next + 1])
    <2> DEFINE phase == plan[next + 1]
    <2> HIDE DEF now, phase
    <2>1. PICK e2 : \E t2 :
              /\ Turns(s, e2, t2)
              /\ e2.pc = "waiting" /\ e2.inbox = None /\ e2.x = now.x /\ e2.phase = phase
              /\ e2.done = now.done /\ e2.held = now.held /\ e2.upstream = now.upstream
              /\ t2.pc = "reading" /\ t2.inbox = Message(phase, now.x)
              /\ t2.headers = task[s].headers /\ t2.verdict = task[s].verdict
              /\ t2.looked = task[s].looked
      BY <1>6, <1>7, AwaitTurns DEF phase
    <2>2. PICK t2 :
              /\ Turns(s, e2, t2)
              /\ e2.pc = "waiting" /\ e2.inbox = None /\ e2.x = now.x /\ e2.phase = phase
              /\ e2.done = now.done /\ e2.held = now.held /\ e2.upstream = now.upstream
              /\ t2.pc = "reading" /\ t2.inbox = Message(phase, now.x)
              /\ t2.headers = task[s].headers /\ t2.verdict = task[s].verdict
              /\ t2.looked = task[s].looked
      BY <2>1
    <2>3. phase = IF waits THEN "request_body" ELSE "request_trailers"
      BY <1>4, <1>7 DEF phase
    <2>4. /\ t2.inbox.phase = phase
          /\ phase = "request_body" => t2.inbox.content = e2.x.raw.body
      BY <2>2 DEF Message
    <2>5. Agree(e2, t2)
      BY <1>2, <1>5, <1>6, <2>2, <2>3, <2>4
         DEF Agree, Unheard, HasHeaders, Carries, Busy, Forwardable
    <2>6. Backend!Next
      BY <1>1, <1>6, <2>2, Unseeable
    <2>7. QED
      BY <2>2, <2>5, <2>6 DEF Maps
  <1>8. CASE /\ ~(next < Len(plan)) /\ UNCHANGED task
             /\ envoy' = [envoy EXCEPT ![s] = [now EXCEPT
                    !.pc = "upstream", !.phase = None, !.inbox = None, !.held = None,
                    !.upstream = held]]
    <2> DEFINE e2 == [now EXCEPT !.pc = "upstream", !.phase = None, !.inbox = None,
                                 !.held = None, !.upstream = held]
               was == Exchanged(e, t)
               d == [was EXCEPT !.upstream = t.verdict]
               f == Exchanged(e2, t)
    <2>1. /\ e2.pc = "upstream" /\ e2.inbox = None /\ e2.x = e.x /\ e2.done = next
          /\ e2.upstream = held
      <3> HIDE DEF now
      <3> QED
        BY <1>6 DEF IsRecord, EnvoyFields
    <2>2. Turns(s, e2, t)
      BY <1>8 DEF Turns, Inv, IsRecord
    <2>3. t.verdict # None /\ Forwardable(e, t.verdict)
      BY <1>4, <1>5, <1>8
    <2>4. Agree(e2, t)
      <3> HIDE DEF e2, now
      <3> QED
        BY <1>1, <1>2, <1>5, <2>1 DEF Agree, Unheard, HasHeaders
    <2>5. /\ IsRecord(was, ExchangeFields) /\ was.pc = "decided" /\ was.x = e.x
          /\ was.looked = None /\ was.outcome = t.verdict /\ was.upstream = None
      BY <1>1, <1>5, <2>3, Shown
    <2>6. /\ IsRecord(f, ExchangeFields) /\ f.pc = "decided" /\ f.x = e.x
          /\ f.looked = None /\ f.outcome = t.verdict /\ f.upstream = t.verdict
      <3> HIDE DEF e2, now
      <3> QED
        BY <1>5, <2>1, <2>3, Shown
    <2>7. /\ IsRecord(d, ExchangeFields) /\ d.pc = was.pc /\ d.x = was.x
          /\ d.looked = was.looked /\ d.outcome = was.outcome /\ d.upstream = t.verdict
          /\ d.gone = was.gone
      <3> HIDE DEF was
      <3> QED
        BY <2>5 DEF IsRecord, ExchangeFields
    <2>8. was.gone = (e.pc = "closed") /\ f.gone = (e2.pc = "closed")
      <3> HIDE DEF e2, now
      <3> QED
        BY Shown
    <2>9. ~was.gone /\ was.gone = f.gone
      <3> HIDE DEF e2, now, was, f
      <3> QED
        BY <1>1, <2>1, <2>8
    <2>10. d = f
      <3> HIDE DEF d, was, f
      <3>1. d.gone = f.gone
        BY <2>7, <2>9, Zenon
      <3>2. /\ d.pc = f.pc /\ d.x = f.x /\ d.looked = f.looked /\ d.outcome = f.outcome
            /\ d.upstream = f.upstream
        BY <2>5, <2>6, <2>7
      <3>3. QED
        BY <2>6, <2>7, <3>1, <3>2, SameExchange, Zenon
    <2>11. Exchanges[s] = was /\ Exchanges' = [Exchanges EXCEPT ![s] = d]
      <3> HIDE DEF d, e2, now
      <3> QED
        BY <2>2, <2>10, OneExchange DEF f
    <2>12. d = [was EXCEPT !.upstream = was.outcome]
      BY <2>5
    <2>13. Backend!Deliver(s)
      <3> HIDE DEF was, d
      <3> QED
        BY <1>1, <2>3, <2>5, <2>9, <2>11, <2>12
           DEF Backend!Deliver, Backend!Becomes, placing, Forwardable
    <2>14. QED
      <3> HIDE DEF e2, now
      <3> QED
        BY <2>2, <2>4, <2>13 DEF Maps, Backend!Next
  <1>9. QED
    BY <1>7, <1>8 DEF TakeMutation, plan, next, held

\* Envoy's actions.
LEMMA EnvoyMaps ==
    ASSUME Inv, NoneIsNoVerdict, NEW s \in Streams, Agree(envoy[s], task[s]),
           Takes(s) \/ GiveUp(s) \/ (\E x \in Requests[s] : OpenStream(s, x))
    PROVE  Maps(s)
  <1>1. CASE TakeReply(s) \/ FinishResponse(s) \/ GiveUp(s)
    <2>1. /\ \E status : Close(s, status)
          /\ envoy[s].pc \in {"waiting", "upstream"}
          /\ UNCHANGED <<settings, task>>
      BY <1>1 DEF TakeReply, FinishResponse, GiveUp, Got
    <2>2. QED
      BY <2>1, CloseMaps
  <1>2. CASE UpstreamResponds(s) \/ TakeResponse(s)
    <2>1. PICK phase \in {"response_headers", "response_body", "response_trailers"} :
              Await(s, envoy[s], phase)
      BY <1>2 DEF UpstreamResponds, TakeResponse
    <2>2. /\ envoy[s].pc \in {"upstream", "waiting"} /\ HasHeaders(envoy[s], task[s])
          /\ IsRecord(envoy[s], EnvoyFields) /\ task[s].pc = "reading"
      BY <1>2 DEF UpstreamResponds, TakeResponse, Got, HasHeaders, Inv, Pair
    <2>3. PICK e2 : \E t2 :
              /\ Turns(s, e2, t2)
              /\ e2.pc = "waiting" /\ e2.inbox = None /\ e2.x = envoy[s].x /\ e2.phase = phase
              /\ e2.done = envoy[s].done /\ e2.held = envoy[s].held
              /\ e2.upstream = envoy[s].upstream
              /\ t2.pc = "reading" /\ t2.inbox = Message(phase, envoy[s].x)
              /\ t2.headers = task[s].headers /\ t2.verdict = task[s].verdict
              /\ t2.looked = task[s].looked
      BY <2>1, <2>2, AwaitTurns
    <2>4. PICK t2 :
              /\ Turns(s, e2, t2)
              /\ e2.pc = "waiting" /\ e2.inbox = None /\ e2.x = envoy[s].x /\ e2.phase = phase
              /\ e2.done = envoy[s].done /\ e2.held = envoy[s].held
              /\ e2.upstream = envoy[s].upstream
              /\ t2.pc = "reading" /\ t2.inbox = Message(phase, envoy[s].x)
              /\ t2.headers = task[s].headers /\ t2.verdict = task[s].verdict
              /\ t2.looked = task[s].looked
      BY <2>3
    <2>5. t2.inbox.phase = phase
      BY <2>4 DEF Message
    <2>6. Agree(e2, t2)
      BY <2>2, <2>4, <2>5 DEF Agree, Unheard, HasHeaders, Busy, RequestPhase
    <2>7. Backend!Next
      BY <2>2, <2>4, Unseeable
    <2>8. QED
      BY <2>4, <2>6, <2>7 DEF Maps
  <1>3. QED
    BY <1>1, <1>2, MutationMaps, OpenMaps DEF Takes

\* Every step is a step of the exchange, or nobody's.
LEMMA StepMaps ==
    ASSUME Mapped, NoneIsNoVerdict, [Next]_vars
    PROVE  Mapped' /\ [Backend!Next]_(Backend!vars)
  <1>1. Inv /\ Inv' /\ \A s \in Streams : Agree(envoy[s], task[s])
    BY StepSound DEF Mapped
  <1>2. ASSUME UNCHANGED <<envoy, task>> PROVE Mapped' /\ [Backend!Next]_(Backend!vars)
    <2>1. Exchanges' = Exchanges
      BY <1>2 DEF Exchanges
    <2>2. \A s \in Streams : Agree(envoy'[s], task'[s])
      BY <1>1, <1>2
    <2>3. QED
      BY <1>1, <2>1, <2>2 DEF Mapped, Backend!Next, Backend!Elsewhere, Agree, Carries
  <1>3. ASSUME NEW s \in Streams, Maps(s) PROVE Mapped' /\ [Backend!Next]_(Backend!vars)
    <2>1. PICK e : \E t : Turns(s, e, t) /\ Agree(e, t)
      BY <1>3 DEF Maps
    <2>2. PICK t : Turns(s, e, t) /\ Agree(e, t)
      BY <2>1
    <2>3. \A r \in Streams : Agree(envoy'[r], task'[r])
      BY <1>1, <2>2 DEF Turns, Inv, IsRecord
    <2>4. QED
      BY <1>1, <1>3, <2>3 DEF Mapped, Maps, Agree, Carries
  <1>4. ASSUME NEW s \in Streams,
               \/ \E x \in Requests[s] : OpenStream(s, x)
               \/ Works(s) \/ GiveUp(s)
        PROVE  Maps(s)
    BY <1>1, <1>4, RequestMaps, ObserveMaps, OthersMap, QuestionsMap, EnvoyMaps
       DEF Works, Handles
  <1>5. QED
    BY <1>2, <1>3, <1>4 DEF Next, vars

\* At first both sides of every stream are idle, and so is its exchange.
LEMMA Opens == Init => Mapped /\ Backend!Init
  <1> SUFFICES ASSUME Init PROVE Mapped /\ Backend!Init
    OBVIOUS
  <1>1. ASSUME NEW s \in Streams PROVE envoy[s] = NoEnvoy /\ task[s] = NoTask
    BY DEF Init
  <1>2. Agree(NoEnvoy, NoTask)
    BY DEF Agree, Unheard, HasHeaders, NoEnvoy, NoTask, Busy
  <1>3. Exchanged(NoEnvoy, NoTask) = Backend!Idle
    BY DEF Exchanged, NoEnvoy, NoTask, Backend!Idle
  <1>4. QED
    BY <1>1, <1>2, <1>3, StartsSound DEF Mapped, Backend!Init, Exchanges

\* The ext_proc service implements the exchange, step by step, for any streams, requests
\* and moves: the phases, their answers and a task that outlives its stream amount to one
\* decision per request, on the whole of it, and at most one forward (process_message).
THEOREM Implements ==
    ASSUME NoneIsNoVerdict
    PROVE  Spec => ImplementsExchange
  <1>1. Mapped /\ [Next]_vars => Mapped' /\ [Backend!Next]_(Backend!vars)
    BY StepMaps
  <1>2. QED
    BY <1>1, Opens, PTL DEF Spec, ImplementsExchange, Backend!Spec

-----------------------------------------------------------------------------
(* The counters tell what clients saw: behind each stands the set of the    *)
(* requests it has counted, none of them twice.                             *)

\* A client that is answered so has been counted so.
Answers(s, x, status, R, J) ==
    /\ status = 202 => s \in R
    /\ status \notin {0, 200, 202, 504} => s \in J \/ Reserved(x.raw.path)

\* The request is past its headers, on its way to an upstream or beyond.
Passing(e, t) ==
    \/ t.inbox # None /\ t.inbox.phase # "request_headers"
    \/ e.inbox # None /\ e.inbox.kind # "immediate"

\* Of one stream, given the requests counted as routed and as rejected.
Booked(s, e, t, R, J) ==
    /\ s \in R \cup J =>
          /\ e.pc # "idle" /\ ~Reserved(e.x.raw.path)
          /\ t.verdict # None /\ t.pc # "producing"
    /\ e.upstream # None => s \in R
    /\ Answers(s, e.x, e.status, R, J)
    /\ e.pc # "closed" => e.status = 0
    /\ e.inbox # None /\ e.inbox.kind = "immediate" =>
          Answers(s, e.x, e.inbox.what.status, R, J)
    /\ e.pc = "waiting" /\ e.phase \in RequestPhase /\ t.verdict # None /\ Passing(e, t) =>
          s \in R
    /\ (\/ Passing(e, t) \/ e.pc = "upstream"
        \/ t.pc \in {"resolving", "gating", "producing", "shaping"}) =>
          ~Reserved(e.x.raw.path)
    /\ t.pc = "observing" => Reserved(e.x.raw.path)
    /\ t.pc = "producing" => t.verdict # None

Books(R, J) ==
    /\ Tally(Streams, R, J)
    /\ \A s \in Streams : Booked(s, envoy[s], task[s], R, J)

\* After a step there are such sets again.
Balanced == \E R, J : Books(R, J)

\* A step that counts nothing.
LEMMA BooksStay ==
    ASSUME Inv, NEW R, NEW J, Books(R, J), NEW s \in Streams, NEW e, NEW t,
           Turns(s, e, t), UNCHANGED metrics, Booked(s, e, t, R, J)
    PROVE  Balanced'
  <1>1. \A r \in Streams : Booked(r, envoy'[r], task'[r], R, J)
    BY DEF Books, Turns, Inv, IsRecord
  <1>2. Tally(Streams, R, J)'
    BY DEF Books, Tally
  <1>3. QED
    BY <1>1, <1>2 DEF Balanced, Books, Booked, Answers, Passing

\* A step that counts its stream, for the first time.
LEMMA BooksGrow ==
    ASSUME Inv, IsFiniteSet(Streams), NEW R, NEW J, Books(R, J),
           NEW s \in Streams, s \notin R \cup J, NEW e, NEW t, Turns(s, e, t),
           NEW counter \in Counters, Count(counter),
           Booked(s, e, t, With(R, counter, "routed", s), With(J, counter, "rejected", s))
    PROVE  Balanced'
  <1> DEFINE R2 == With(R, counter, "routed", s)
             J2 == With(J, counter, "rejected", s)
  <1>1. ASSUME NEW r \in Streams \ {s} PROVE Booked(r, envoy'[r], task'[r], R2, J2)
    <2>1. /\ r \in R2 <=> r \in R
          /\ r \in J2 <=> r \in J
      BY DEF With
    <2>2. Booked(r, envoy[r], task[r], R, J) /\ envoy'[r] = envoy[r] /\ task'[r] = task[r]
      BY DEF Books, Turns, Inv, IsRecord
    <2>3. QED
      <3> HIDE DEF R2, J2
      <3> QED
        BY <2>1, <2>2 DEF Booked, Answers
  <1>2. envoy'[s] = e /\ task'[s] = t
    BY DEF Turns, Inv, IsRecord
  <1>3. Tally(Streams, R2, J2)'
    BY TallyGrows DEF Books, Inv
  <1>4. \A r \in Streams : Booked(r, envoy'[r], task'[r], R2, J2)
    BY <1>1, <1>2
  <1>5. QED
    <2> HIDE DEF R2, J2
    <2> QED
      BY <1>3, <1>4 DEF Balanced, Books, Booked, Answers, Passing

\* What goes with an answer the task gives.
Fitting(s, t, answer, R, J) ==
    LET e == envoy[s]
    IN  /\ answer.kind = "immediate" => Answers(s, e.x, answer.what.status, R, J)
        /\ answer.kind # "immediate" => ~Reserved(e.x.raw.path)
        /\ /\ e.pc = "waiting" /\ e.phase \in RequestPhase /\ t.verdict # None
           /\ answer.kind # "immediate"
           => s \in R

\* An answer is sent (Send).
LEMMA SendBooked ==
    ASSUME Inv, NEW s \in Streams, NEW t, NEW answer, Send(s, t, answer),
           IsRecord(t, TaskFields), envoy[s].pc \in {"waiting", "closed"},
           NEW R, NEW J, NEW R2, NEW J2, Booked(s, envoy[s], task[s], R, J),
           R \subseteq R2, J \subseteq J2, Fitting(s, t, answer, R2, J2),
           s \in R2 \cup J2 => ~Reserved(envoy[s].x.raw.path) /\ t.verdict # None
    PROVE  \E e2, t2 : Turns(s, e2, t2) /\ Booked(s, e2, t2, R2, J2)
  <1> DEFINE t2 == [t EXCEPT !.inbox = None, !.pc = IF Closed(s) THEN "ended" ELSE "reading"]
             e2 == IF Closed(s) THEN envoy[s] ELSE [envoy[s] EXCEPT !.inbox = answer]
  <1>1. Pair(s, envoy[s], task[s])
    BY DEF Inv
  <1>2. /\ t2.inbox = None /\ t2.pc \in {"reading", "ended"} /\ t2.verdict = t.verdict
    BY DEF IsRecord, TaskFields
  <1>3. /\ e2.pc = envoy[s].pc /\ e2.x = envoy[s].x /\ e2.status = envoy[s].status
        /\ e2.inbox = IF Closed(s) THEN envoy[s].inbox ELSE answer
        /\ e2.phase = envoy[s].phase /\ e2.upstream = envoy[s].upstream
    BY <1>1 DEF Pair, IsRecord, EnvoyFields
  <1>4. Closed(s) => envoy[s].inbox = None
    BY <1>1 DEF Pair, Closed
  <1>5. Booked(s, e2, t2, R2, J2)
    <2> HIDE DEF e2, t2
    <2> QED
      BY <1>2, <1>3, <1>4 DEF Booked, Answers, Fitting, Passing, Closed
  <1>6. Turns(s, e2, t2)
    BY DEF Turns, Send, Inv, IsRecord
  <1>7. QED
    <2> HIDE DEF e2, t2
    <2> QED
      BY <1>5, <1>6

\* An answer that counts nothing.
LEMMA SendStays ==
    ASSUME Inv, NEW s \in Streams, NEW t, NEW answer, Send(s, t, answer),
           IsRecord(t, TaskFields), envoy[s].pc \in {"waiting", "closed"}, UNCHANGED metrics,
           NEW R, NEW J, Books(R, J), Fitting(s, t, answer, R, J),
           s \in R \cup J => t.verdict # None
    PROVE  Balanced'
  <1>1. Booked(s, envoy[s], task[s], R, J)
    BY DEF Books
  <1>2. s \in R \cup J => ~Reserved(envoy[s].x.raw.path)
    BY <1>1 DEF Booked
  <1>3. PICK e2 : \E t2 : Turns(s, e2, t2) /\ Booked(s, e2, t2, R, J)
    BY <1>1, <1>2, SendBooked
  <1>4. PICK t2 : Turns(s, e2, t2) /\ Booked(s, e2, t2, R, J)
    BY <1>3
  <1>5. QED
    BY <1>4, BooksStay

\* An answer with which a request is counted.
LEMMA SendCounts ==
    ASSUME Inv, IsFiniteSet(Streams), NEW s \in Streams, NEW t, NEW answer, Send(s, t, answer),
           IsRecord(t, TaskFields), envoy[s].pc \in {"waiting", "closed"},
           NEW counter \in Counters, Count(counter),
           NEW R, NEW J, Books(R, J), s \notin R \cup J,
           t.verdict # None, ~Reserved(envoy[s].x.raw.path),
           Fitting(s, t, answer, With(R, counter, "routed", s), With(J, counter, "rejected", s))
    PROVE  Balanced'
  <1> DEFINE R2 == With(R, counter, "routed", s)
             J2 == With(J, counter, "rejected", s)
  <1>1. Booked(s, envoy[s], task[s], R, J)
    BY DEF Books
  <1>2. R \subseteq R2 /\ J \subseteq J2
    BY DEF With
  <1> HIDE DEF R2, J2
  <1>3. Fitting(s, t, answer, R2, J2)
    BY DEF R2, J2
  <1>4. PICK e2 : \E t2 : Turns(s, e2, t2) /\ Booked(s, e2, t2, R2, J2)
    BY <1>1, <1>2, <1>3, SendBooked
  <1>5. PICK t2 : Turns(s, e2, t2) /\ Booked(s, e2, t2, R2, J2)
    BY <1>4
  <1>6. QED
    BY <1>5, BooksGrow DEF R2, J2

\* The filter's word is counted, once, or after the produce (Conclude).
LEMMA ConcludeBooks ==
    ASSUME Inv, IsFiniteSet(Streams), NEW s \in Streams, NEW t, NEW verdict,
           Conclude(s, t, verdict), IsRecord(t, TaskFields),
           envoy[s].pc \in {"waiting", "closed"}, envoy[s].inbox = None,
           task[s].verdict = None, NEW R, NEW J, Books(R, J),
           ~Reserved(envoy[s].x.raw.path), verdict # None, HasStatus(verdict),
           t.phase \in {"request_headers", "request_body"}
    PROVE  Balanced'
  <1> DEFINE told == Told(t, verdict)
  <1>1. Booked(s, envoy[s], task[s], R, J)
    BY DEF Books
  <1>2. s \notin R \cup J
    BY <1>1 DEF Booked
  <1>3. IsRecord(told, TaskFields) /\ told.verdict = verdict
    BY ToldIs
  <1>4. ASSUME NEW c
        PROVE  /\ c = "rejected" => s \in With(J, c, "rejected", s)
               /\ c = "routed" => s \in With(R, c, "routed", s)
    BY DEF With
  <1> HIDE DEF told
  <1>5. CASE verdict.to = "local"
    <2> DEFINE answer == Answer("immediate", verdict)
               R2 == With(R, "rejected", "routed", s)
               J2 == With(J, "rejected", "rejected", s)
    <2>1. Count("rejected") /\ Send(s, told, answer)
      BY <1>5 DEF Conclude, SendReply, told
    <2>2. answer.kind = "immediate" /\ answer.what = verdict
      BY DEF Answer
    <2>3. verdict.status # 202
      BY <1>5 DEF HasStatus
    <2> HIDE DEF answer
    <2>4. Fitting(s, told, answer, R2, J2)
      BY <1>4, <2>2, <2>3 DEF Fitting, Answers
    <2>5. QED
      BY <1>2, <1>3, <2>1, <2>4, SendCounts DEF Counters
  <1>6. CASE BeginProduce(s, t, verdict)
    <2> DEFINE t2 == [told EXCEPT !.inbox = None, !.pc = "producing"]
    <2>1. /\ t2.inbox = None /\ t2.pc = "producing" /\ t2.verdict = verdict
      BY <1>3 DEF IsRecord, TaskFields
    <2>2. Turns(s, envoy[s], t2) /\ UNCHANGED metrics
      BY <1>6 DEF BeginProduce, Turns, Inv, IsRecord, told
    <2>3. Booked(s, envoy[s], t2, R, J)
      <3> HIDE DEF t2
      <3> QED
        BY <1>1, <1>2, <2>1 DEF Booked, Answers, Passing
    <2>4. QED
      <3> HIDE DEF t2
      <3> QED
        BY <2>2, <2>3, BooksStay
  <1>7. CASE SendMutation(s, t, verdict, t.phase)
    <2> DEFINE answer == Answer(t.phase, verdict)
               R2 == With(R, "routed", "routed", s)
               J2 == With(J, "routed", "rejected", s)
    <2>1. Count("routed") /\ Send(s, told, answer)
      BY <1>7 DEF SendMutation, told
    <2>2. answer.kind # "immediate"
      BY DEF Answer
    <2> HIDE DEF answer
    <2>3. Fitting(s, told, answer, R2, J2)
      BY <1>4, <2>2 DEF Fitting
    <2>4. QED
      BY <1>2, <1>3, <2>1, <2>3, SendCounts DEF Counters
  <1>8. QED
    BY <1>5, <1>6, <1>7 DEF Conclude

\* A request is refused early, passes through, or goes to the router (DispatchWrite).
LEMMA DispatchBooks ==
    ASSUME Inv, NoneIsNoVerdict, IsFiniteSet(Streams), NEW s \in Streams,
           NEW t, NEW phase \in {"request_headers", "request_body"}, NEW body,
           DispatchWrite(s, t, phase, body), IsRecord(t, TaskFields),
           envoy[s].pc \in {"waiting", "closed"}, envoy[s].inbox = None,
           task[s].verdict = None, t.verdict = None, NEW R, NEW J, Books(R, J),
           ~Reserved(envoy[s].x.raw.path)
    PROVE  Balanced'
  <1> DEFINE req   == [t.headers.raw EXCEPT !.body = body]
             known == [t EXCEPT !.req = req, !.phase = phase]
             early == Early(cfg, sink, t.headers.async, req)
             t2    == [known EXCEPT !.inbox = None, !.pc = "resolving"]
  <1>1. /\ IsRecord(known, TaskFields) /\ known.phase = phase /\ known.verdict = None
    <2> HIDE DEF req
    <2> QED
      BY DEF IsRecord, TaskFields
  <1>2. CASE early # Pass /\ Conclude(s, known, early)
    <2>1. early # None /\ HasStatus(early)
      BY <1>2, VerdictsSpeak, RepliesHaveStatus DEF Speaks, NoneIsNoVerdict
    <2>2. QED
      <3> HIDE DEF early, known, req
      <3> QED
        BY <1>1, <1>2, <2>1, ConcludeBooks
  <1>3. CASE task' = [task EXCEPT ![s] = t2] /\ UNCHANGED <<envoy, metrics>>
    <2>1. /\ t2.inbox = None /\ t2.pc = "resolving" /\ t2.verdict = None
      <3> HIDE DEF known, req
      <3> QED
        BY <1>1 DEF IsRecord, TaskFields
    <2>2. Turns(s, envoy[s], t2) /\ UNCHANGED metrics
      BY <1>3 DEF Turns, Inv, IsRecord
    <2>3. Booked(s, envoy[s], task[s], R, J)
      BY DEF Books
    <2>4. Booked(s, envoy[s], t2, R, J)
      <3> HIDE DEF t2
      <3> QED
        BY <2>1, <2>3 DEF Booked, Answers, Passing
    <2>5. QED
      <3> HIDE DEF t2
      <3> QED
        BY <2>2, <2>4, BooksStay
  <1>4. QED
    BY <1>2, <1>3 DEF DispatchWrite

\* The headers name the path of the request.
LEMMA HeadersPath ==
    ASSUME NEW s \in Streams, NEW x \in Requests[s]
    PROVE  Headers(x).raw.path = x.raw.path
  <1>1. IsRecord(x, RequestFields) /\ IsRecord(x.raw, RawFields)
    BY RequestsAssumption DEF IsRequest, RawFields
  <1>2. QED
    BY <1>1 DEF Headers, IsRecord, RequestFields, RawFields

\* The headers and the body of a request are counted at most once.
LEMMA RequestBooks ==
    ASSUME Inv, NoneIsNoVerdict, IsFiniteSet(Streams), NEW s \in Streams,
           Agree(envoy[s], task[s]), OnRequestHeaders(s) \/ OnRequestBody(s),
           NEW R, NEW J, Books(R, J)
    PROVE  Balanced'
  <1>1. /\ IsRecord(task[s], TaskFields) /\ task[s].pc = "reading" /\ task[s].inbox # None
        /\ envoy[s].pc \in {"waiting", "closed"} /\ envoy[s].inbox = None
        /\ envoy[s].x \in Requests[s]
    BY DEF Inv, Pair, Reads, OnRequestHeaders, OnRequestBody
  <1>2. task[s].verdict = None
    BY <1>1 DEF Unheard, Agree, Reads, OnRequestHeaders, OnRequestBody
  <1>3. Booked(s, envoy[s], task[s], R, J)
    BY DEF Books
  <1>4. s \notin R \cup J
    BY <1>2, <1>3 DEF Booked
  <1>5. CASE OnRequestHeaders(s)
    <2> DEFINE x == task[s].inbox.content
               t == [task[s] EXCEPT !.headers = x]
    <2>1. x.raw.path = envoy[s].x.raw.path
      <3>1. x = Headers(envoy[s].x)
        BY <1>1, <1>5 DEF OnRequestHeaders, Reads, Agree
      <3>2. QED
        BY <1>1, <3>1, HeadersPath
    <2>2. IsRecord(t, TaskFields) /\ t.verdict = None
      BY <1>1, <1>2 DEF IsRecord, TaskFields
    <2>3. CASE Reserved(x.raw.path) /\ Uncounted /\ BeginReply(s, t)
      <3> DEFINE seen == Unseen(t.headers)
                 t2 == [t EXCEPT !.inbox = None, !.pc = "observing", !.seen = seen]
      <3>1. t2.inbox = None /\ t2.pc = "observing" /\ t2.verdict = None
        <4> HIDE DEF seen, t
        <4> QED
          BY <2>2 DEF IsRecord, TaskFields
      <3>2. Turns(s, envoy[s], t2) /\ UNCHANGED metrics
        BY <2>3 DEF BeginReply, Turns, Inv, IsRecord, Uncounted
      <3>3. Booked(s, envoy[s], t2, R, J)
        <4> HIDE DEF t2
        <4> QED
          BY <1>1, <1>3, <1>4, <2>1, <2>3, <3>1 DEF Booked, Answers, Passing
      <3>4. QED
        <4> HIDE DEF t2
        <4> QED
          BY <3>2, <3>3, BooksStay
    <2>4. CASE ~Reserved(x.raw.path) /\ Uncounted /\ Send(s, t, Continue("request_headers"))
      <3>1. Fitting(s, t, Continue("request_headers"), R, J)
        <4> HIDE DEF t, x
        <4> QED
          BY <2>1, <2>2, <2>4 DEF Fitting, Continue, Answer
      <3>2. QED
        <4> HIDE DEF t
        <4> QED
          BY <1>1, <1>4, <2>2, <2>4, <3>1, SendStays DEF Uncounted
    <2>5. CASE ~Reserved(x.raw.path) /\ DispatchWrite(s, t, "request_headers", None)
      <3> HIDE DEF t, x
      <3> QED
        BY <1>1, <1>2, <2>1, <2>2, <2>5, DispatchBooks
    <2>6. QED
      BY <1>5, <2>3, <2>4, <2>5 DEF OnRequestHeaders
  <1>6. CASE OnRequestBody(s)
    <2>1. ~Reserved(envoy[s].x.raw.path)
      BY <1>3, <1>6 DEF Booked, Passing, OnRequestBody, Reads
    <2>2. CASE DispatchWrite(s, task[s], "request_body", task[s].inbox.content)
      BY <1>1, <1>2, <2>1, <2>2, DispatchBooks
    <2>3. CASE /\ Count("rejected")
               /\ SendReply(s, task[s], Immediate(413, "payload_too_large"))
      <3> DEFINE reply == Immediate(413, "payload_too_large")
                 told == Told(task[s], reply)
                 answer == Answer("immediate", reply)
                 R2 == With(R, "rejected", "routed", s)
                 J2 == With(J, "rejected", "rejected", s)
      <3>1. reply.to = "local" /\ "to" \in DOMAIN reply /\ reply.status = 413
        BY DEF Immediate
      <3>2. IsRecord(told, TaskFields) /\ told.verdict = reply
        BY <1>1, ToldIs
      <3>3. reply # None
        BY <3>1 DEF NoneIsNoVerdict
      <3>4. Count("rejected") /\ Send(s, told, answer)
        BY <2>3 DEF SendReply
      <3>5. answer.kind = "immediate" /\ answer.what = reply
        BY DEF Answer
      <3>6. s \in J2
        BY DEF With
      <3>7. Fitting(s, told, answer, R2, J2)
        <4> HIDE DEF told, answer, reply, R2, J2
        <4> QED
          BY <3>1, <3>5, <3>6 DEF Fitting, Answers
      <3> HIDE DEF told, answer, reply
      <3>8. QED
        BY <1>1, <1>4, <2>1, <3>2, <3>3, <3>4, <3>7, SendCounts DEF Counters
    <2>4. QED
      BY <1>6, <2>2, <2>3 DEF OnRequestBody
  <1>7. QED
    BY <1>5, <1>6

\* A task at work changes its place, and nothing is counted.
LEMMA WorkStays ==
    ASSUME Inv, NEW s \in Streams, NEW t, task' = [task EXCEPT ![s] = t],
           UNCHANGED <<envoy, metrics>>, NEW R, NEW J, Books(R, J),
           t.inbox = None \/ t.inbox = task[s].inbox, t.verdict = task[s].verdict,
           t.pc \in {"observing", "resolving", "gating", "shaping"} =>
               \/ t.pc = task[s].pc
               \/ task[s].pc = "resolving" /\ t.pc = "gating"
               \/ Passing(envoy[s], task[s]) /\ t.pc = "shaping",
           t.pc # "producing"
    PROVE  Balanced'
  <1>1. Turns(s, envoy[s], t)
    BY DEF Turns, Inv, IsRecord
  <1>2. Booked(s, envoy[s], task[s], R, J)
    BY DEF Books
  <1>3. Booked(s, envoy[s], t, R, J)
    BY <1>2 DEF Booked, Passing
  <1>4. QED
    BY <1>1, <1>3, BooksStay

\* Reserved paths are not counted (reserved_reply).
LEMMA ObserveBooks ==
    ASSUME Inv, NoneIsNoVerdict, NEW s \in Streams, Agree(envoy[s], task[s]),
           Observing(s) \/ Observed(s), NEW R, NEW J, Books(R, J)
    PROVE  Balanced'
  <1>1. /\ IsRecord(task[s], TaskFields) /\ task[s].pc = "observing"
        /\ envoy[s].pc \in {"waiting", "closed"}
    BY DEF Inv, Pair, Observing, Observed, Busy
  <1>2. CASE Observing(s)
    <2>1. PICK seen : task' = [task EXCEPT ![s].seen = seen]
      BY <1>2 DEF Observing
    <2> DEFINE t2 == [task[s] EXCEPT !.seen = seen]
    <2>2. /\ t2.inbox = task[s].inbox /\ t2.pc = "observing" /\ t2.verdict = task[s].verdict
      BY <1>1 DEF IsRecord, TaskFields
    <2>3. task' = [task EXCEPT ![s] = t2] /\ UNCHANGED <<envoy, metrics>>
      BY <1>2, <2>1 DEF Observing
    <2>4. QED
      <3> HIDE DEF t2
      <3> QED
        BY <1>1, <2>2, <2>3, WorkStays
  <1>3. CASE Observed(s)
    <2> DEFINE reply == Reply(task[s].headers, task[s].seen)
               told == Told(task[s], reply)
               answer == Answer("immediate", reply)
    <2>1. reply.status # 202 /\ "to" \in DOMAIN reply /\ reply.to = "local"
      BY DEF Reply, AdminReply, Immediate
    <2>2. reply # None
      <3> HIDE DEF reply
      <3> QED
        BY <2>1 DEF NoneIsNoVerdict
    <2>3. Send(s, told, answer) /\ UNCHANGED metrics
      BY <1>3 DEF Observed, SendReply
    <2>4. IsRecord(told, TaskFields) /\ told.verdict = reply
      BY <1>1, ToldIs
    <2>5. Reserved(envoy[s].x.raw.path)
      BY <1>1 DEF Books, Booked
    <2>6. answer.kind = "immediate" /\ answer.what = reply
      BY DEF Answer
    <2>7. Fitting(s, told, answer, R, J)
      <3> HIDE DEF told, answer, reply
      <3> QED
        BY <2>1, <2>5, <2>6 DEF Fitting, Answers
    <2>8. QED
      <3> HIDE DEF told, answer, reply
      <3> QED
        BY <1>1, <2>2, <2>3, <2>4, <2>7, SendStays
  <1>4. QED
    BY <1>2, <1>3

\* The other phases count nothing, the produce its outcome.
LEMMA OthersBook ==
    ASSUME Inv, IsFiniteSet(Streams), NEW s \in Streams,
           \/ OnRequestTrailers(s) \/ OnResponseHeaders(s) \/ DecisionHeader(s)
           \/ OnResponseBody(s) \/ OnResponseTrailers(s) \/ Produces(s) \/ End(s)
           \/ ResolveNow(s),
           NEW R, NEW J, Books(R, J)
    PROVE  Balanced'
  <1>1. IsRecord(task[s], TaskFields)
    BY DEF Inv, Pair
  <1>2. Booked(s, envoy[s], task[s], R, J)
    BY DEF Books
  <1>3. s \in R \cup J => task[s].verdict # None
    BY <1>2 DEF Booked
  <1>4. ASSUME NEW phase, Reads(s, phase), phase # "request_headers"
        PROVE  /\ envoy[s].pc \in {"waiting", "closed"} /\ envoy[s].inbox = None
               /\ Passing(envoy[s], task[s])
    BY <1>4 DEF Reads, Passing, Inv, Pair
  <1>5. ASSUME NEW phase, Reads(s, phase), phase # "request_headers",
               NEW answer, Send(s, task[s], answer), answer.kind # "immediate",
               UNCHANGED metrics
        PROVE  Balanced'
    <2>1. Fitting(s, task[s], answer, R, J)
      BY <1>2, <1>4, <1>5 DEF Fitting, Booked
    <2>2. QED
      BY <1>1, <1>3, <1>4, <1>5, <2>1, SendStays
  <1>6. ASSUME NEW kind \in {"request_trailers", "response_headers", "response_body",
                             "response_trailers"},
               NEW what
        PROVE  Answer(kind, what).kind # "immediate"
    BY DEF Answer
  <1>7. CASE OnRequestTrailers(s)
    BY <1>5, <1>6, <1>7 DEF OnRequestTrailers, Continue
  <1>8. CASE OnResponseBody(s)
    BY <1>5, <1>6, <1>8 DEF OnResponseBody
  <1>9. CASE OnResponseTrailers(s)
    BY <1>5, <1>6, <1>9 DEF OnResponseTrailers, Continue
  <1>10. CASE OnResponseHeaders(s) /\ ~emit
    BY <1>5, <1>6, <1>10 DEF OnResponseHeaders, Continue
  <1>11. CASE OnResponseHeaders(s) /\ emit
    <2> DEFINE t2 == [task[s] EXCEPT !.pc = "shaping", !.inbox = None]
    <2>1. /\ t2.inbox = None /\ t2.pc = "shaping" /\ t2.verdict = task[s].verdict
      BY <1>1 DEF IsRecord, TaskFields
    <2>2. task' = [task EXCEPT ![s] = t2] /\ UNCHANGED <<envoy, metrics>>
      BY <1>11 DEF OnResponseHeaders
    <2>3. Passing(envoy[s], task[s])
      BY <1>4, <1>11 DEF OnResponseHeaders
    <2>4. QED
      <3> HIDE DEF t2
      <3> QED
        BY <2>1, <2>2, <2>3, WorkStays
  <1>12. CASE DecisionHeader(s)
    <2> DEFINE decision == DecisionShapeOf(cfg, task[s].headers.raw)
               answer == Answer("response_headers", decision)
    <2>1. /\ task[s].pc = "shaping" /\ envoy[s].pc \in {"waiting", "closed"}
          /\ InStep(envoy[s], "response_headers")
      BY <1>12 DEF DecisionHeader, Inv, Pair, Busy
    <2>2. Send(s, task[s], answer) /\ UNCHANGED metrics /\ answer.kind # "immediate"
      BY <1>6, <1>12 DEF DecisionHeader
    <2>3. Fitting(s, task[s], answer, R, J)
      <3> HIDE DEF answer
      <3> QED
        BY <1>2, <2>1, <2>2 DEF Fitting, Booked, InStep, RequestPhase
    <2>4. QED
      <3> HIDE DEF answer
      <3> QED
        BY <1>1, <1>3, <2>1, <2>2, <2>3, SendStays
  <1>13. ASSUME NEW counter \in Counters, NEW reply, Produced(s, counter, reply),
                \/ counter = "routed" /\ reply.status = 202
                \/ counter = "rejected" /\ reply.status # 202
         PROVE  Balanced'
    <2> DEFINE answer == Answer("immediate", reply)
               R2 == With(R, counter, "routed", s)
               J2 == With(J, counter, "rejected", s)
    <2>1. /\ task[s].pc = "producing" /\ envoy[s].pc \in {"waiting", "closed"}
          /\ Count(counter) /\ Send(s, task[s], answer)
      BY <1>13 DEF Produced, Inv, Pair, Busy
    <2>2. s \notin R \cup J /\ task[s].verdict # None /\ ~Reserved(envoy[s].x.raw.path)
      BY <1>2, <2>1 DEF Booked
    <2>3. answer.kind = "immediate" /\ answer.what = reply
      BY DEF Answer
    <2>4. /\ counter = "routed" => s \in R2
          /\ counter = "rejected" => s \in J2
      BY DEF With
    <2>5. Fitting(s, task[s], answer, R2, J2)
      <3> HIDE DEF answer, R2, J2
      <3> QED
        BY <1>13, <2>3, <2>4 DEF Fitting, Answers
    <2>6. QED
      <3> HIDE DEF answer
      <3> QED
        BY <1>1, <2>1, <2>2, <2>5, SendCounts
  <1>14. CASE Produces(s)
    <2>1. Accepted202.status = 202 /\ Unavailable.status = 503
      BY DEF Accepted202, Unavailable, Immediate
    <2>2. QED
      BY <1>13, <1>14, <2>1 DEF Produces, Acknowledged, NotAcknowledged, Counters
  <1>15. CASE End(s)
    <2> DEFINE t2 == [task[s] EXCEPT !.pc = "ended", !.inbox = None]
    <2>1. /\ t2.inbox = None /\ t2.pc = "ended" /\ t2.verdict = task[s].verdict
      BY <1>1 DEF IsRecord, TaskFields
    <2>2. task' = [task EXCEPT ![s] = t2] /\ UNCHANGED <<envoy, metrics>>
      BY <1>15 DEF End
    <2>3. QED
      <3> HIDE DEF t2
      <3> QED
        BY <2>1, <2>2, WorkStays
  <1>16. CASE ResolveNow(s)
    <2> DEFINE looked == Look(task[s].req)
               t2 == [task[s] EXCEPT !.pc = "gating", !.looked = looked]
    <2>1. /\ t2.inbox = task[s].inbox /\ t2.pc = "gating" /\ t2.verdict = task[s].verdict
      <3> HIDE DEF looked
      <3> QED
        BY <1>1 DEF IsRecord, TaskFields
    <2>2. /\ task' = [task EXCEPT ![s] = t2] /\ UNCHANGED <<envoy, metrics>>
          /\ task[s].pc = "resolving"
      BY <1>16 DEF ResolveNow
    <2>3. QED
      <3> HIDE DEF t2
      <3> QED
        BY <2>1, <2>2, WorkStays
  <1>17. QED
    BY <1>7, <1>8, <1>9, <1>10, <1>11, <1>12, <1>14, <1>15, <1>16

\* The decision at the gate is counted (Gate).
LEMMA GateBooks ==
    ASSUME Inv, NoneIsNoVerdict, IsFiniteSet(Streams), NEW s \in Streams,
           Agree(envoy[s], task[s]), Gate(s), NEW R, NEW J, Books(R, J)
    PROVE  Balanced'
  <1> DEFINE t == task[s]
             verdict == Verdict(cfg, t.req, t.looked.r, Admits(t.looked))
  <1>1. Conclude(s, t, verdict) /\ t.pc = "gating"
    BY DEF Gate
  <1>2. /\ IsRecord(t, TaskFields) /\ envoy[s].pc \in {"waiting", "closed"}
        /\ envoy[s].inbox = None
    BY <1>1 DEF Inv, Pair, Busy
  <1>3. t.verdict = None /\ t.phase \in {"request_headers", "request_body"}
    BY <1>1 DEF Agree, Unheard
  <1>4. ~Reserved(envoy[s].x.raw.path)
    BY <1>1 DEF Books, Booked
  <1>5. verdict # None /\ HasStatus(verdict)
    BY VerdictsSpeak, RepliesHaveStatus DEF Speaks, NoneIsNoVerdict
  <1>6. QED
    <2> HIDE DEF verdict
    <2> QED
      BY <1>1, <1>2, <1>3, <1>4, <1>5, ConcludeBooks

-----------------------------------------------------------------------------
(* Envoy counts nothing.                                                    *)

\* The client has its answer (Close).
LEMMA CloseBooks ==
    ASSUME Inv, NEW s \in Streams, NEW status, Close(s, status),
           envoy[s].pc \in {"waiting", "upstream"}, UNCHANGED <<task, metrics>>,
           NEW R, NEW J, Books(R, J), Answers(s, envoy[s].x, status, R, J)
    PROVE  Balanced'
  <1> DEFINE e2 == [NoEnvoy EXCEPT !.pc = "closed", !.status = status, !.x = envoy[s].x,
                                   !.upstream = envoy[s].upstream,
                                   !.before = envoy[s].before]
  <1>1. /\ e2.pc = "closed" /\ e2.inbox = None /\ e2.x = envoy[s].x
        /\ e2.upstream = envoy[s].upstream /\ e2.status = status
    BY DEF NoEnvoy
  <1>2. Turns(s, e2, task[s])
    BY DEF Close, Turns, Inv, IsRecord
  <1>3. Booked(s, envoy[s], task[s], R, J)
    BY DEF Books
  <1>4. Booked(s, e2, task[s], R, J)
    <2> HIDE DEF e2
    <2> QED
      BY <1>1, <1>3 DEF Booked, Passing
  <1>5. QED
    <2> HIDE DEF e2
    <2> QED
      BY <1>2, <1>4, BooksStay

\* Envoy sends a phase and waits (Await).
LEMMA AwaitBooks ==
    ASSUME Inv, NEW s \in Streams, NEW e, NEW phase, Await(s, e, phase),
           IsRecord(e, EnvoyFields), UNCHANGED metrics, NEW R, NEW J, Books(R, J),
           e.x = envoy[s].x \/ envoy[s].pc = "idle", envoy[s].pc # "closed",
           e.upstream = envoy[s].upstream, e.status = envoy[s].status,
           task[s].pc \in {"none", "reading"},
           phase # "request_headers" => ~Reserved(e.x.raw.path),
           phase \in RequestPhase /\ phase # "request_headers" /\ task[s].verdict # None
               => s \in R
    PROVE  Balanced'
  <1> DEFINE e2 == [e EXCEPT !.pc = "waiting", !.phase = phase, !.inbox = None]
             message == Message(phase, e.x)
             t2 == [task[s] EXCEPT !.pc = "reading", !.inbox = message]
  <1>1. IsRecord(task[s], TaskFields)
    BY DEF Inv, Pair
  <1>2. /\ e2.pc = "waiting" /\ e2.inbox = None /\ e2.x = e.x /\ e2.phase = phase
        /\ e2.status = e.status /\ e2.upstream = e.upstream
    BY DEF IsRecord, EnvoyFields
  <1>3. t2.pc = "reading" /\ t2.inbox = message /\ t2.verdict = task[s].verdict
    <2> HIDE DEF message
    <2> QED
      BY <1>1 DEF IsRecord, TaskFields
  <1>4. Turns(s, e2, t2)
    BY DEF Turns, Await
  <1>5. message.phase = phase
    BY DEF Message
  <1>6. Booked(s, envoy[s], task[s], R, J)
    BY DEF Books
  <1>7. Booked(s, e2, t2, R, J)
    <2> HIDE DEF e2, t2, message
    <2> QED
      BY <1>2, <1>3, <1>5, <1>6 DEF Booked, Passing, Answers
  <1>8. QED
    <2> HIDE DEF e2, t2
    <2> QED
      BY <1>4, <1>7, BooksStay

\* What Envoy knows when it applies the answer to a request phase (TakeMutation).
LEMMA Applying ==
    ASSUME Inv, NEW s \in Streams, Agree(envoy[s], task[s]), TakeMutation(s)
    PROVE  /\ IsRecord(envoy[s], EnvoyFields) /\ envoy[s].pc = "waiting"
           /\ envoy[s].inbox # None /\ envoy[s].inbox.kind # "immediate"
           /\ envoy[s].phase \in RequestPhase /\ envoy[s].upstream = None
           /\ task[s].pc = "reading" /\ task[s].inbox = None
           /\ (IF envoy[s].inbox.what # None THEN envoy[s].inbox.what ELSE envoy[s].held)
                  = task[s].verdict
           /\ envoy[s].done + 1 < Len(RequestPhases(envoy[s].x)) =>
                  RequestPhases(envoy[s].x)[envoy[s].done + 1 + 1]
                      \in {"request_body", "request_trailers"}
  <1> DEFINE e    == envoy[s]
             plan == RequestPhases(e.x)
             next == e.done + 1
  <1>1. /\ IsRecord(e, EnvoyFields) /\ e.pc = "waiting" /\ e.inbox # None
        /\ e.inbox.kind = plan[next] /\ e.inbox.kind \in {e.phase, "immediate"}
        /\ next <= Len(plan) /\ task[s].pc = "reading" /\ task[s].inbox = None
    BY DEF TakeMutation, Got, Inv, Pair, Fits
  <1>2. next \in Nat /\ next >= 1
    BY DEF Agree
  <1>3. /\ plan[next] \in RequestPhase
        /\ next < Len(plan) => plan[next + 1] \in {"request_body", "request_trailers"}
    <2> HIDE DEF next
    <2> QED
      BY <1>1, <1>2, PhaseOrder
  <1>4. e.inbox.kind # "immediate" /\ e.phase \in RequestPhase
    BY <1>1, <1>3 DEF RequestPhase
  <1>5. /\ e.upstream = None
        /\ (IF e.inbox.what # None THEN e.inbox.what ELSE e.held) = task[s].verdict
    BY <1>1, <1>4 DEF Agree, Carries
  <1>6. QED
    BY <1>1, <1>3, <1>4, <1>5

\* What goes on towards an upstream has been counted.
LEMMA MutationBooks ==
    ASSUME Inv, NEW s \in Streams, Agree(envoy[s], task[s]), TakeMutation(s),
           NEW R, NEW J, Books(R, J)
    PROVE  Balanced'
  <1> DEFINE e    == envoy[s]
             plan == RequestPhases(e.x)
             next == e.done + 1
             held == IF e.inbox.what # None THEN e.inbox.what ELSE e.held
             now  == [e EXCEPT !.done = next, !.held = held]
  <1>1. /\ IsRecord(e, EnvoyFields) /\ e.pc = "waiting" /\ e.inbox # None
        /\ e.inbox.kind # "immediate" /\ e.phase \in RequestPhase
        /\ task[s].pc = "reading" /\ task[s].inbox = None
        /\ e.upstream = None /\ held = task[s].verdict
        /\ next < Len(plan) => plan[next + 1] \in {"request_body", "request_trailers"}
    BY Applying
  <1>2. Booked(s, e, task[s], R, J)
    BY DEF Books
  <1>3. ~Reserved(e.x.raw.path) /\ (task[s].verdict # None => s \in R)
    BY <1>1, <1>2 DEF Booked, Passing
  <1>4. UNCHANGED metrics
    BY DEF TakeMutation
  <1> HIDE DEF plan, next, held
  <1>5. /\ IsRecord(now, EnvoyFields) /\ now.pc = e.pc /\ now.x = e.x
        /\ now.upstream = e.upstream /\ now.status = e.status
    BY <1>1 DEF IsRecord, EnvoyFields
  <1>6. CASE next < Len(plan) /\ Await(s, now, plan[next + 1])
    <2> HIDE DEF now
    <2> QED
      BY <1>1, <1>3, <1>4, <1>5, <1>6, AwaitBooks
  <1>7. CASE /\ UNCHANGED task
             /\ envoy' = [envoy EXCEPT ![s] = [now EXCEPT
                    !.pc = "upstream", !.phase = None, !.inbox = None, !.held = None,
                    !.upstream = held]]
    <2> DEFINE e2 == [now EXCEPT !.pc = "upstream", !.phase = None, !.inbox = None,
                                 !.held = None, !.upstream = held]
    <2>1. /\ e2.pc = "upstream" /\ e2.inbox = None /\ e2.x = e.x
          /\ e2.upstream = held /\ e2.status = e.status
      <3> HIDE DEF now
      <3> QED
        BY <1>5 DEF IsRecord, EnvoyFields
    <2>2. Turns(s, e2, task[s])
      BY <1>7 DEF Turns, Inv, IsRecord
    <2>3. Booked(s, e2, task[s], R, J)
      <3> HIDE DEF e2
      <3> QED
        BY <1>1, <1>2, <1>3, <2>1 DEF Booked, Answers, Passing
    <2>4. QED
      <3> HIDE DEF e2
      <3> QED
        BY <1>4, <2>2, <2>3, BooksStay
  <1>8. QED
    BY <1>6, <1>7 DEF TakeMutation, plan, next, held

\* Envoy's actions.
LEMMA EnvoyBooks ==
    ASSUME Inv, NEW s \in Streams, Agree(envoy[s], task[s]),
           Takes(s) \/ GiveUp(s) \/ (\E x \in Requests[s] : OpenStream(s, x)),
           NEW R, NEW J, Books(R, J)
    PROVE  Balanced'
  <1>1. Booked(s, envoy[s], task[s], R, J)
    BY DEF Books
  <1>2. CASE TakeReply(s)
    <2>1. Answers(s, envoy[s].x, envoy[s].inbox.what.status, R, J)
      BY <1>1, <1>2 DEF TakeReply, Got, Booked
    <2>2. QED
      BY <1>2, <2>1, CloseBooks DEF TakeReply, Got
  <1>3. CASE FinishResponse(s) \/ GiveUp(s)
    <2>1. PICK status \in {200, 504} : Close(s, status)
      BY <1>3 DEF FinishResponse, GiveUp
    <2>2. Answers(s, envoy[s].x, status, R, J)
      BY DEF Answers
    <2>3. QED
      BY <1>3, <2>1, <2>2, CloseBooks DEF FinishResponse, GiveUp, Got
  <1>4. CASE UpstreamResponds(s) \/ TakeResponse(s)
    <2>1. PICK phase \in {"response_headers", "response_body", "response_trailers"} :
              Await(s, envoy[s], phase)
      BY <1>4 DEF UpstreamResponds, TakeResponse
    <2>2. /\ envoy[s].pc \in {"upstream", "waiting"} /\ IsRecord(envoy[s], EnvoyFields)
          /\ task[s].pc = "reading" /\ UNCHANGED metrics
          /\ envoy[s].pc = "upstream" \/ Passing(envoy[s], task[s])
      BY <1>4 DEF UpstreamResponds, TakeResponse, Got, Passing, Inv, Pair
    <2>3. ~Reserved(envoy[s].x.raw.path)
      BY <1>1, <2>2 DEF Booked
    <2>4. QED
      BY <2>1, <2>2, <2>3, AwaitBooks DEF RequestPhase
  <1>5. ASSUME NEW x \in Requests[s], OpenStream(s, x) PROVE Balanced'
    <2>1. PICK before :
              Await(s, [envoy[s] EXCEPT !.x = x, !.before = before], "request_headers")
      BY <1>5 DEF OpenStream
    <2> DEFINE e == [envoy[s] EXCEPT !.x = x, !.before = before]
    <2>2. /\ IsRecord(envoy[s], EnvoyFields) /\ envoy[s].pc = "idle" /\ task[s].pc = "none"
          /\ UNCHANGED metrics
      BY <1>5 DEF Inv, Pair, OpenStream
    <2>3. /\ IsRecord(e, EnvoyFields) /\ e.upstream = envoy[s].upstream
          /\ e.status = envoy[s].status
      BY <2>2 DEF IsRecord, EnvoyFields
    <2>4. QED
      <3>1. Await(s, e, "request_headers")
        BY <2>1
      <3> HIDE DEF e
      <3>2. QED
        BY <2>2, <2>3, <3>1, AwaitBooks
  <1>6. QED
    BY <1>2, <1>3, <1>4, <1>5, MutationBooks DEF Takes

\* The books balance after every step.
LEMMA StepBooks ==
    ASSUME Mapped, NoneIsNoVerdict, IsFiniteSet(Streams), Balanced, [Next]_vars
    PROVE  Balanced'
  <1>1. PICK R : \E J : Books(R, J)
    BY DEF Balanced
  <1>2. PICK J : Books(R, J)
    BY <1>1
  <1>3. CASE UNCHANGED <<envoy, task, metrics>>
    BY <1>2, <1>3 DEF Balanced, Books, Booked, Passing, Answers, Tally
  <1>4. ASSUME NEW s \in Streams,
               \/ \E x \in Requests[s] : OpenStream(s, x)
               \/ Works(s) \/ GiveUp(s)
        PROVE  Balanced'
    <2>1. Inv /\ Agree(envoy[s], task[s])
      BY DEF Mapped
    <2>2. QED
      BY <1>2, <1>4, <2>1, RequestBooks, ObserveBooks, OthersBook, GateBooks, EnvoyBooks
         DEF Works, Handles
  <1>5. QED
    BY <1>3, <1>4 DEF Next, vars

\* Before the first request nobody is counted.
LEMMA BooksOpen ==
    ASSUME Init
    PROVE  Mapped /\ Balanced
  <1>1. Tally(Streams, {}, {})
    BY TallyStarts DEF Init
  <1>2. ASSUME NEW s \in Streams PROVE Booked(s, envoy[s], task[s], {}, {})
    BY DEF Init, NoEnvoy, NoTask, Booked, Answers, Passing
  <1>3. QED
    BY <1>1, <1>2, Opens DEF Balanced, Books

\* The sets behind the counters hold whom clients count, and nobody else.
LEMMA BooksTell ==
    ASSUME IsFiniteSet(Streams), Balanced
    PROVE  CountersTell
  <1>1. PICK R : \E J : Books(R, J)
    BY DEF Balanced
  <1>2. PICK J : Books(R, J)
    BY <1>1
  <1>3. Served \in SUBSET R
    BY <1>2 DEF Books, Booked, Answers, Served
  <1>4. Refused \in SUBSET J
    BY <1>2 DEF Books, Booked, Answers, Refused
  <1>5. Counted \in SUBSET Streams /\ R \cup J \subseteq Counted
    BY <1>2 DEF Books, Tally, Booked, Counted
  <1>6. /\ Cardinality(Served) <= metrics["routed"]
        /\ Cardinality(Refused) <= metrics["rejected"]
        /\ metrics["routed"] + metrics["rejected"] <= Cardinality(Counted)
    <2>1. Tally(Streams, R, J)
      BY <1>2 DEF Books
    <2>2. \A served \in SUBSET R : \A refused \in SUBSET J : \A asked \in SUBSET Streams :
              R \cup J \subseteq asked =>
                  /\ Cardinality(served) <= metrics["routed"]
                  /\ Cardinality(refused) <= metrics["rejected"]
                  /\ metrics["routed"] + metrics["rejected"] <= Cardinality(asked)
      BY <2>1, TallyTells
    <2>3. QED
      BY <1>3, <1>4, <1>5, <2>2, Zenon
  <1>7. QED
    BY <1>6 DEF CountersTell

\* What clients were answered is in the counters and nobody is counted twice, for any
\* number of streams, whoever gives up when (record_routed, record_rejected).
THEOREM CountersAdd ==
    ASSUME NoneIsNoVerdict, IsFiniteSet(Streams)
    PROVE  Spec => []CountersTell
  <1>1. Init => Mapped /\ Balanced
    BY BooksOpen
  <1>2. Mapped /\ Balanced /\ [Next]_vars => Mapped' /\ Balanced'
    BY StepMaps, StepBooks
  <1>3. Balanced => CountersTell
    BY BooksTell
  <1>4. QED
    BY <1>1, <1>2, <1>3, PTL DEF Spec

-----------------------------------------------------------------------------
(* A scrape reports what the counters were, each at a moment since it began.*)

\* Of one stream, given the counters.
Scraping(e, t, m) ==
    e.before # None =>
        /\ e.x.raw.path = MetricsPath
        /\ Begun(e.before, m)
        /\ t.pc = "observing" => Glanced(e.before, t.seen, m)
        /\ t.verdict # None => Scraped(e.before, t.verdict.code, m)

Scrapes == \A s \in Streams : Scraping(envoy[s], task[s], metrics)

\* A step of another stream may count.
LEMMA ScrapingStays ==
    ASSUME NEW e, NEW t, NEW m, NEW n, Later(m, n), Scraping(e, t, m)
    PROVE  Scraping(e, t, n)
  BY ReadingsStay DEF Scraping

\* The handlers that speak of a request which is not for a reserved path.
Decides(s) ==
    \/ OnRequestBody(s) \/ ResolveNow(s) \/ Gate(s)
    \/ OnRequestHeaders(s) /\ ~Reserved(task[s].inbox.content.raw.path)

\* The handlers that leave what was said as it is.
PassesOn(s) ==
    \/ OnRequestTrailers(s) \/ OnResponseHeaders(s) \/ OnResponseBody(s)
    \/ OnResponseTrailers(s) \/ DecisionHeader(s) \/ Produces(s) \/ End(s)

\* The handlers of a reply, from its request to its last look.
Replies(s) ==
    \/ OnRequestHeaders(s) /\ Reserved(task[s].inbox.content.raw.path)
    \/ Observing(s) \/ Observed(s)

\* The request of a stream is the same after a step of its task.
LEMMA TaskLeaves ==
    ASSUME Inv, NEW s \in Streams, Handles(s) \/ Produces(s)
    PROVE  envoy'[s].x = envoy[s].x /\ envoy'[s].before = envoy[s].before
  <1>1. IsRecord(envoy[s], EnvoyFields) /\ IsRecord(envoy, Streams)
    BY DEF Inv, Pair
  <1>2. CASE UNCHANGED envoy
    BY <1>2
  <1>3. ASSUME NEW t, NEW answer, Send(s, t, answer)
        PROVE  envoy'[s].x = envoy[s].x /\ envoy'[s].before = envoy[s].before
    <2>1. CASE envoy' = [envoy EXCEPT ![s].inbox = answer]
      BY <1>1, <2>1 DEF IsRecord, EnvoyFields
    <2>2. QED
      BY <1>3, <2>1 DEF Send
  <1>4. ASSUME NEW t, NEW verdict, Conclude(s, t, verdict)
        PROVE  envoy'[s].x = envoy[s].x /\ envoy'[s].before = envoy[s].before
    BY <1>2, <1>3, <1>4 DEF Conclude, SendReply, SendMutation, BeginProduce
  <1>5. ASSUME NEW t, NEW phase, NEW body, DispatchWrite(s, t, phase, body)
        PROVE  envoy'[s].x = envoy[s].x /\ envoy'[s].before = envoy[s].before
    BY <1>2, <1>4, <1>5 DEF DispatchWrite
  <1>6. CASE OnRequestHeaders(s)
    <2> DEFINE t == [task[s] EXCEPT !.headers = task[s].inbox.content]
    <2>1. \/ UNCHANGED envoy
          \/ Send(s, t, Continue("request_headers"))
          \/ DispatchWrite(s, t, "request_headers", None)
      BY <1>6 DEF OnRequestHeaders, BeginReply
    <2>2. QED
      <3> HIDE DEF t
      <3> QED
        BY <1>2, <1>3, <1>5, <2>1
  <1>7. CASE OnRequestBody(s)
    BY <1>3, <1>5, <1>7 DEF OnRequestBody, SendReply
  <1>8. CASE OnRequestTrailers(s) \/ OnResponseBody(s) \/ OnResponseTrailers(s)
    BY <1>3, <1>8 DEF OnRequestTrailers, OnResponseBody, OnResponseTrailers
  <1>9. CASE OnResponseHeaders(s) \/ DecisionHeader(s)
    BY <1>2, <1>3, <1>9 DEF OnResponseHeaders, DecisionHeader
  <1>10. CASE Observing(s) \/ ResolveNow(s) \/ End(s)
    BY <1>2, <1>10 DEF Observing, ResolveNow, End
  <1>11. CASE Observed(s)
    BY <1>3, <1>11 DEF Observed, SendReply
  <1>12. CASE Gate(s)
    BY <1>4, <1>12 DEF Gate
  <1>13. CASE Produces(s)
    BY <1>3, <1>13 DEF Produces, Acknowledged, NotAcknowledged, Produced
  <1>14. QED
    BY <1>6, <1>7, <1>8, <1>9, <1>10, <1>11, <1>12, <1>13 DEF Handles

\* What was said stays said.
LEMMA PassingLeaves ==
    ASSUME Inv, NEW s \in Streams, PassesOn(s)
    PROVE  task'[s].verdict = task[s].verdict /\ task'[s].pc # "observing"
  <1>1. IsRecord(task[s], TaskFields) /\ IsRecord(task, Streams)
    BY DEF Inv, Pair
  <1>2. ASSUME NEW pc, pc # "observing",
               task' = [task EXCEPT ![s] = [task[s] EXCEPT !.inbox = None, !.pc = pc]]
        PROVE  task'[s].verdict = task[s].verdict /\ task'[s].pc # "observing"
    <2> DEFINE t == [task[s] EXCEPT !.inbox = None, !.pc = pc]
    <2>1. t.verdict = task[s].verdict /\ t.pc = pc
      BY <1>1 DEF IsRecord, TaskFields
    <2>2. task'[s] = t
      BY <1>1, <1>2 DEF IsRecord
    <2>3. QED
      <3> HIDE DEF t
      <3> QED
        BY <1>2, <2>1, <2>2
  <1>3. ASSUME NEW answer, Send(s, task[s], answer)
        PROVE  task'[s].verdict = task[s].verdict /\ task'[s].pc # "observing"
    <2> DEFINE pc == IF Closed(s) THEN "ended" ELSE "reading"
    <2>1. /\ task' = [task EXCEPT ![s] = [task[s] EXCEPT !.inbox = None, !.pc = pc]]
          /\ pc # "observing"
      BY <1>3 DEF Send
    <2>2. QED
      <3> HIDE DEF pc
      <3> QED
        BY <1>2, <2>1
  <1>4. ASSUME NEW pc, pc # "observing",
               task' = [task EXCEPT ![s].pc = pc, ![s].inbox = None]
        PROVE  task'[s].verdict = task[s].verdict /\ task'[s].pc # "observing"
    <2>1. task' = [task EXCEPT ![s] = [task[s] EXCEPT !.inbox = None, !.pc = pc]]
      BY <1>1, <1>4 DEF IsRecord, TaskFields
    <2>2. QED
      BY <1>2, <1>4, <2>1
  <1>5. CASE OnRequestTrailers(s) \/ OnResponseBody(s) \/ OnResponseTrailers(s)
    BY <1>3, <1>5 DEF OnRequestTrailers, OnResponseBody, OnResponseTrailers
  <1>6. CASE OnResponseHeaders(s) \/ DecisionHeader(s)
    BY <1>3, <1>4, <1>6 DEF OnResponseHeaders, DecisionHeader
  <1>7. CASE Produces(s)
    BY <1>3, <1>7 DEF Produces, Acknowledged, NotAcknowledged, Produced
  <1>8. CASE End(s)
    BY <1>4, <1>8 DEF End
  <1>9. QED
    BY <1>5, <1>6, <1>7, <1>8 DEF PassesOn

\* Envoy knows neither what was counted nor what was read.
LEMMA EnvoyLeaves ==
    ASSUME Inv, NEW s \in Streams, Takes(s) \/ GiveUp(s)
    PROVE  /\ envoy'[s].x = envoy[s].x /\ envoy'[s].before = envoy[s].before
           /\ task'[s].verdict = task[s].verdict
           /\ task'[s].pc = "observing" =>
                  task[s].pc = "observing" /\ task'[s].seen = task[s].seen
  <1>1. /\ IsRecord(envoy[s], EnvoyFields) /\ IsRecord(envoy, Streams)
        /\ IsRecord(task[s], TaskFields) /\ IsRecord(task, Streams)
    BY DEF Inv, Pair
  <1>2. ASSUME NEW status, Close(s, status)
        PROVE  envoy'[s].x = envoy[s].x /\ envoy'[s].before = envoy[s].before
    <2> DEFINE e2 == [NoEnvoy EXCEPT !.pc = "closed", !.status = status, !.x = envoy[s].x,
                                     !.upstream = envoy[s].upstream,
                                     !.before = envoy[s].before]
    <2>1. e2.x = envoy[s].x /\ e2.before = envoy[s].before
      BY DEF NoEnvoy
    <2>2. envoy'[s] = e2
      BY <1>1, <1>2 DEF Close, IsRecord
    <2>3. QED
      <3> HIDE DEF e2
      <3> QED
        BY <2>1, <2>2
  <1>3. ASSUME NEW e, NEW phase, Await(s, e, phase), IsRecord(e, EnvoyFields),
               e.x = envoy[s].x, e.before = envoy[s].before
        PROVE  /\ envoy'[s].x = envoy[s].x /\ envoy'[s].before = envoy[s].before
               /\ task'[s].verdict = task[s].verdict /\ task'[s].pc = "reading"
    <2> DEFINE e2 == [e EXCEPT !.pc = "waiting", !.phase = phase, !.inbox = None]
               message == Message(phase, e.x)
               t2 == [task[s] EXCEPT !.pc = "reading", !.inbox = message]
    <2>1. e2.x = envoy[s].x /\ e2.before = envoy[s].before
      BY <1>3 DEF IsRecord, EnvoyFields
    <2>2. t2.verdict = task[s].verdict /\ t2.pc = "reading"
      <3> HIDE DEF message
      <3> QED
        BY <1>1 DEF IsRecord, TaskFields
    <2>3. envoy'[s] = e2 /\ task'[s] = t2
      BY <1>1, <1>3 DEF Await, IsRecord
    <2>4. QED
      <3> HIDE DEF e2, t2
      <3> QED
        BY <2>1, <2>2, <2>3
  <1>4. CASE TakeReply(s) \/ FinishResponse(s) \/ GiveUp(s)
    BY <1>2, <1>4 DEF TakeReply, FinishResponse, GiveUp
  <1>5. CASE UpstreamResponds(s) \/ TakeResponse(s)
    <2>1. PICK phase : Await(s, envoy[s], phase)
      BY <1>5 DEF UpstreamResponds, TakeResponse
    <2>2. QED
      BY <1>1, <1>3, <2>1
  <1>6. CASE TakeMutation(s)
    <2> DEFINE next == envoy[s].done + 1
               held == IF envoy[s].inbox.what # None THEN envoy[s].inbox.what
                                                     ELSE envoy[s].held
               now == [envoy[s] EXCEPT !.done = next, !.held = held]
               e2  == [now EXCEPT !.pc = "upstream", !.phase = None, !.inbox = None,
                                  !.held = None, !.upstream = held]
    <2>1. IsRecord(now, EnvoyFields) /\ now.x = envoy[s].x /\ now.before = envoy[s].before
      <3> HIDE DEF next, held
      <3> QED
        BY <1>1 DEF IsRecord, EnvoyFields
    <2>2. CASE \E phase : Await(s, now, phase)
      <3> HIDE DEF now
      <3> QED
        BY <1>3, <2>1, <2>2
    <2>3. CASE envoy' = [envoy EXCEPT ![s] = e2] /\ UNCHANGED task
      <3>1. e2.x = envoy[s].x /\ e2.before = envoy[s].before
        <4> HIDE DEF now, held
        <4> QED
          BY <2>1 DEF IsRecord, EnvoyFields
      <3>2. envoy'[s] = e2
        BY <1>1, <2>3 DEF IsRecord
      <3>3. QED
        <4> HIDE DEF e2
        <4> QED
          BY <2>3, <3>1, <3>2
    <2>4. QED
      BY <1>6, <2>2, <2>3 DEF TakeMutation
  <1>7. QED
    BY <1>4, <1>5, <1>6 DEF Takes

\* Every step of a stream counts at most once, and is nobody else's.
LEMMA StepGrows ==
    ASSUME Mapped, NoneIsNoVerdict, NEW s \in Streams,
           \/ \E x \in Requests[s] : OpenStream(s, x)
           \/ Works(s) \/ GiveUp(s)
    PROVE  /\ Later(metrics, metrics')
           /\ \A r \in Streams \ {s} : envoy'[r] = envoy[r] /\ task'[r] = task[r]
  <1>1. ASSUME \E x \in Requests[s] : OpenStream(s, x)
        PROVE  Later(metrics, metrics')
    BY <1>1, OnlyGrow DEF OpenStream, Mapped, Inv
  <1>2. ASSUME Takes(s) \/ GiveUp(s)
        PROVE  Later(metrics, metrics')
    BY <1>2, OnlyGrow DEF Takes, GiveUp, TakeReply, TakeMutation, UpstreamResponds,
       TakeResponse, FinishResponse, Mapped, Inv
  <1>3. ASSUME Handles(s)
        PROVE  Later(metrics, metrics')
    <2>1. UNCHANGED metrics \/ (\E c \in Counters : Count(c))
      BY <1>3 DEF Handles, OnRequestHeaders, OnRequestBody, OnRequestTrailers,
         OnResponseHeaders, OnResponseBody, OnResponseTrailers, Observing, Observed,
         DecisionHeader, ResolveNow, Gate, End, DispatchWrite, Conclude, SendMutation,
         BeginProduce, Uncounted, Counters
    <2>2. QED
      BY <2>1, OnlyGrow DEF Mapped, Inv
  <1>4. ASSUME Produces(s)
        PROVE  Later(metrics, metrics')
    BY <1>4, OnlyGrow
       DEF Produces, Acknowledged, NotAcknowledged, Produced, Counters, Mapped, Inv
  <1>5. Maps(s)
    BY RequestMaps, ObserveMaps, OthersMap, QuestionsMap, EnvoyMaps
       DEF Works, Handles, Mapped
  <1>6. PICK e : \E t : Turns(s, e, t)
    BY <1>5 DEF Maps
  <1>7. PICK t : Turns(s, e, t)
    BY <1>6
  <1>8. \A r \in Streams \ {s} : envoy'[r] = envoy[r] /\ task'[r] = task[r]
    BY <1>7 DEF Turns, Mapped, Inv, IsRecord
  <1>9. QED
    BY <1>1, <1>2, <1>3, <1>4, <1>8 DEF Works

\* What a reply does with its readings.
LEMMA RepliesScrape ==
    ASSUME Inv, NEW s \in Streams, Agree(envoy[s], task[s]),
           Scraping(envoy[s], task[s], metrics), Replies(s)
    PROVE  Scraping(envoy'[s], task'[s], metrics')
  <1> DEFINE e == envoy[s]
             t == task[s]
  <1>1. /\ IsRecord(t, TaskFields) /\ IsRecord(task, Streams) /\ Surface
        /\ UNCHANGED metrics
    BY DEF Inv, Pair, Replies, OnRequestHeaders, Observing, Observed, Uncounted
  <1>2. t.verdict = None
    BY DEF Agree, Unheard, Replies, OnRequestHeaders, Reads, Observing, Observed
  <1>3. envoy'[s].x = e.x /\ envoy'[s].before = e.before
    BY TaskLeaves DEF Replies, Handles
  <1>4. e.x \in Requests[s]
    BY DEF Inv, Pair, Replies, OnRequestHeaders, Reads, Observing, Observed
  <1>5. Headers(e.x).raw.path = e.x.raw.path
    BY <1>4, HeadersPath
  <1>6. ASSUME NEW u, task'[s] = u, u.verdict = None,
               u.pc = "observing" /\ e.before # None => Glanced(e.before, u.seen, metrics)
        PROVE  Scraping(envoy'[s], task'[s], metrics')
    BY <1>1, <1>3, <1>6 DEF Scraping
  <1>7. CASE OnRequestHeaders(s) /\ Reserved(t.inbox.content.raw.path)
    <2> DEFINE heard == [t EXCEPT !.headers = t.inbox.content]
               seen == Unseen(heard.headers)
               u == [heard EXCEPT !.inbox = None, !.pc = "observing", !.seen = seen]
    <2>1. task' = [task EXCEPT ![s] = u]
      BY <1>7 DEF OnRequestHeaders, BeginReply
    <2>2. IsRecord(heard, TaskFields) /\ heard.headers = t.inbox.content /\ heard.verdict = None
      BY <1>1, <1>2 DEF IsRecord, TaskFields
    <2>3. u.verdict = None /\ u.pc = "observing" /\ u.seen = seen
      <3> HIDE DEF heard, seen
      <3> QED
        BY <2>2 DEF IsRecord, TaskFields
    <2>4. heard.headers.raw.path = e.x.raw.path
      <3>1. t.inbox.content = Headers(e.x)
        BY <1>7 DEF Agree, OnRequestHeaders, Reads
      <3>2. QED
        <4> HIDE DEF heard
        <4> QED
          BY <1>5, <2>2, <3>1
    <2>5. e.before # None => Glanced(e.before, seen, metrics)
      <3> HIDE DEF heard
      <3> QED
        BY <1>1, <2>4, GlancesRead DEF Scraping
    <2>6. task'[s] = u
      BY <1>1, <2>1 DEF IsRecord
    <2>7. QED
      <3> HIDE DEF u, seen
      <3> QED
        BY <1>6, <2>3, <2>5, <2>6
  <1>8. ASSUME t.pc = "observing" PROVE t.headers.raw.path = e.x.raw.path
    BY <1>5, <1>8 DEF Agree, HasHeaders, Busy
  <1>9. CASE Observing(s)
    <2>1. PICK seen \in Glances(t.headers, t.seen) : task' = [task EXCEPT ![s].seen = seen]
      BY <1>9 DEF Observing
    <2> DEFINE u == [t EXCEPT !.seen = seen]
    <2>2. u.verdict = None /\ u.seen = seen
      BY <1>1, <1>2 DEF IsRecord, TaskFields
    <2>3. task'[s] = u
      BY <1>1, <2>1 DEF IsRecord
    <2>4. e.before # None => Glanced(e.before, seen, metrics)
      BY <1>1, <1>8, <1>9, <2>1, GlancesRead DEF Scraping, Observing
    <2>5. QED
      <3> HIDE DEF u
      <3> QED
        BY <1>6, <2>2, <2>3, <2>4
  <1>10. CASE Observed(s)
    <2> DEFINE reply == Reply(t.headers, t.seen)
               told == Told(t, reply)
               pc == IF Closed(s) THEN "ended" ELSE "reading"
               u == [told EXCEPT !.inbox = None, !.pc = pc]
    <2>1. task' = [task EXCEPT ![s] = u] /\ t.pc = "observing"
      BY <1>10 DEF Observed, SendReply, Send
    <2>2. IsRecord(told, TaskFields) /\ told.verdict = reply
      BY <1>1, ToldIs
    <2>3. u.verdict = reply /\ u.pc = pc /\ pc # "observing"
      <3> HIDE DEF told
      <3> QED
        BY <2>2 DEF IsRecord, TaskFields
    <2>4. e.before # None => Scraped(e.before, reply.code, metrics)
      BY <1>1, <1>8, <2>1, SnapshotReads DEF Scraping
    <2>5. task'[s] = u
      BY <1>1, <2>1 DEF IsRecord
    <2>6. QED
      <3> HIDE DEF u, reply, pc
      <3> QED
        BY <1>1, <1>3, <2>3, <2>4, <2>5 DEF Scraping
  <1>11. QED
    BY <1>7, <1>9, <1>10 DEF Replies

\* A scrape begins (OpenStream).
LEMMA OpenScrapes ==
    ASSUME Inv, IsFiniteSet(Streams), CountersTell, NEW s \in Streams,
           Agree(envoy[s], task[s]), NEW x \in Requests[s], OpenStream(s, x)
    PROVE  Scraping(envoy'[s], task'[s], metrics')
  <1> DEFINE before == IF x.raw.path = MetricsPath
                       THEN [served |-> Cardinality(Served),
                             refused |-> Cardinality(Refused)]
                       ELSE None
             e == [envoy[s] EXCEPT !.x = x, !.before = before]
             e2 == [e EXCEPT !.pc = "waiting", !.phase = "request_headers", !.inbox = None]
             message == Message("request_headers", e.x)
             t2 == [task[s] EXCEPT !.pc = "reading", !.inbox = message]
  <1>1. /\ IsRecord(envoy[s], EnvoyFields) /\ IsRecord(envoy, Streams) /\ Surface
        /\ IsRecord(task[s], TaskFields) /\ IsRecord(task, Streams)
        /\ envoy[s].pc = "idle" /\ UNCHANGED metrics
    BY DEF Inv, Pair, OpenStream
  <1>2. envoy'[s] = e2 /\ task'[s] = t2
    BY <1>1 DEF OpenStream, Await, IsRecord
  <1>3. e2.x = x /\ e2.before = before
    <2> HIDE DEF before
    <2> QED
      BY <1>1 DEF IsRecord, EnvoyFields
  <1>4. t2.verdict = None /\ t2.pc = "reading"
    <2> HIDE DEF message
    <2> QED
      BY <1>1 DEF Agree, IsRecord, TaskFields
  <1>5. /\ before # None => x.raw.path = MetricsPath
        /\ x.raw.path = MetricsPath =>
               /\ before.served = Cardinality(Served)
               /\ before.refused = Cardinality(Refused)
    OBVIOUS
  <1>6. Cardinality(Served) \in Nat /\ Cardinality(Refused) \in Nat
    <2>1. Served \subseteq Streams /\ Refused \subseteq Streams
      BY DEF Served, Refused
    <2>2. IsFiniteSet(Served) /\ IsFiniteSet(Refused)
      BY <2>1, FS_Subset
    <2>3. QED
      BY <2>2, FS_CardinalityType
  <1>7. before # None => Begun(before, metrics)
    <2> HIDE DEF before
    <2> QED
      BY <1>1, <1>5, <1>6, ScrapeBegins DEF CountersTell
  <1>8. Scraping(e2, t2, metrics)
    <2> HIDE DEF e2, t2, before
    <2> QED
      BY <1>3, <1>4, <1>5, <1>7 DEF Scraping
  <1>9. QED
    <2> HIDE DEF e2, t2
    <2> QED
      BY <1>1, <1>2, <1>8

\* No step spoils a scrape.
LEMMA StepScrapes ==
    ASSUME Mapped, NoneIsNoVerdict, IsFiniteSet(Streams), Balanced, CountersTell, Scrapes,
           [Next]_vars
    PROVE  Scrapes'
  <1>1. Inv /\ \A s \in Streams : /\ Agree(envoy[s], task[s])
                                  /\ Scraping(envoy[s], task[s], metrics)
    BY DEF Mapped, Scrapes
  <1>2. CASE UNCHANGED <<envoy, task, metrics>>
    BY <1>1, <1>2 DEF Scrapes
  <1>3. ASSUME NEW s \in Streams,
               \/ \E x \in Requests[s] : OpenStream(s, x)
               \/ Works(s) \/ GiveUp(s)
        PROVE  Scrapes'
    <2>1. /\ Later(metrics, metrics')
          /\ \A r \in Streams \ {s} : envoy'[r] = envoy[r] /\ task'[r] = task[r]
      BY <1>3, StepGrows
    <2>2. \A r \in Streams \ {s} : Scraping(envoy'[r], task'[r], metrics')
      BY <1>1, <2>1, ScrapingStays
    <2>3. Scraping(envoy[s], task[s], metrics')
      BY <1>1, <2>1, ScrapingStays
    <2>4. ASSUME Scraping(envoy'[s], task'[s], metrics') PROVE Scrapes'
      BY <2>2, <2>4 DEF Scrapes
    <2>5. CASE Decides(s)
      <3>1. ~Reserved(envoy[s].x.raw.path)
        <4>1. CASE OnRequestHeaders(s) /\ ~Reserved(task[s].inbox.content.raw.path)
          <5>1. /\ task[s].inbox.content = Headers(envoy[s].x)
                /\ envoy[s].x \in Requests[s]
            BY <1>1, <4>1 DEF Agree, OnRequestHeaders, Reads, Inv, Pair
          <5>2. QED
            BY <4>1, <5>1, HeadersPath
        <4>2. CASE OnRequestBody(s) \/ ResolveNow(s) \/ Gate(s)
          BY <4>2 DEF Balanced, Books, Booked, Passing, OnRequestBody, Reads, ResolveNow, Gate
        <4>3. QED
          BY <2>5, <4>1, <4>2 DEF Decides
      <3>2. envoy[s].before = None
        BY <1>1, <3>1 DEF Scraping, Reserved
      <3>3. envoy'[s].before = None
        BY <1>1, <2>5, <3>2, TaskLeaves DEF Decides, Handles
      <3>4. QED
        BY <2>4, <3>3 DEF Scraping
    <2>6. CASE PassesOn(s)
      <3>1. Scraping(envoy'[s], task'[s], metrics')
        BY <1>1, <2>3, <2>6, PassingLeaves, TaskLeaves DEF Scraping, PassesOn, Handles
      <3>2. QED
        BY <2>4, <3>1
    <2>7. CASE Takes(s) \/ GiveUp(s)
      <3>1. Scraping(envoy'[s], task'[s], metrics')
        BY <1>1, <2>3, <2>7, EnvoyLeaves DEF Scraping
      <3>2. QED
        BY <2>4, <3>1
    <2>8. CASE Replies(s)
      BY <1>1, <2>4, <2>8, RepliesScrape
    <2>9. CASE \E x \in Requests[s] : OpenStream(s, x)
      BY <1>1, <2>4, <2>9, OpenScrapes
    <2>10. QED
      BY <1>3, <2>5, <2>6, <2>7, <2>8, <2>9
         DEF Works, Handles, Decides, PassesOn, Replies
  <1>4. QED
    BY <1>2, <1>3 DEF Next, vars

\* What a scrape reports, for any number of streams: no client that had its answer when
\* the scrape began is missing, and no request is invented (snapshot_json).
THEOREM ScrapesAdd ==
    ASSUME NoneIsNoVerdict, IsFiniteSet(Streams)
    PROVE  Spec => []ScrapesTell
  <1>1. Init => Mapped /\ Balanced /\ Scrapes
    <2> SUFFICES ASSUME Init PROVE Scrapes
      BY BooksOpen
    <2>1. \A s \in Streams : envoy[s].before = None
      BY DEF Init, NoEnvoy
    <2>2. QED
      BY <2>1 DEF Scrapes, Scraping
  <1>2. Mapped /\ Balanced /\ Scrapes /\ [Next]_vars => Mapped' /\ Balanced' /\ Scrapes'
    BY StepMaps, StepBooks, StepScrapes, BooksTell
  <1>3. Mapped /\ Balanced /\ Scrapes => ScrapesTell
    <2> SUFFICES ASSUME Mapped, Balanced, Scrapes, NEW s \in Streams,
                        task[s].verdict # None, envoy[s].before # None
                 PROVE  ScrapeTells(task[s].verdict.code, envoy[s].before.served,
                                    envoy[s].before.refused, Cardinality(Counted))
      BY DEF ScrapesTell
    <2>1. Surface /\ Scraped(envoy[s].before, task[s].verdict.code, metrics)
      BY DEF Mapped, Inv, Scrapes, Scraping
    <2>2. metrics["routed"] + metrics["rejected"] <= Cardinality(Counted)
      BY BooksTell DEF CountersTell
    <2>3. Cardinality(Counted) \in Nat
      <3>1. Counted \subseteq Streams
        BY DEF Counted
      <3>2. IsFiniteSet(Counted)
        BY <3>1, FS_Subset
      <3>3. QED
        BY <3>2, FS_CardinalityType
    <2>4. QED
      BY <2>1, <2>2, <2>3, ReportTells
  <1>4. QED
    BY <1>1, <1>2, <1>3, PTL DEF Spec

-----------------------------------------------------------------------------
(* A stream goes on: what liveness rests on, besides the fairness assumed.  *)

ResponsePhase == {"response_headers", "response_body", "response_trailers"}
AnyPhase == RequestPhase \cup ResponsePhase

\* None is assumed to be neither a message nor an answer.
NoneIsNoMessage == None.phase \notin AnyPhase /\ None.kind \notin AnyPhase \cup {"immediate"}

\* Who is waited for has something to do.
Attended(e, t) == e.pc = "waiting" /\ e.inbox = None => t.pc \in Busy \/ t.inbox # None

\* A task that asks the filter knows the phase it is to answer.
Answerable(t) == t.pc \in {"resolving", "gating"} => t.phase \in AnyPhase

\* Envoy counts the answers it has applied, and waits for one to the next phase.
OnCourse(e, t) ==
    /\ e.done \in Nat
    /\ e.pc = "idle" => e.done = 0
    /\ e.pc # "idle" => t.pc # "none"
    /\ e.pc = "waiting" => e.phase \in AnyPhase
    /\ e.pc = "waiting" /\ e.phase \in RequestPhase =>
          /\ e.done < Len(RequestPhases(e.x))
          /\ e.phase = RequestPhases(e.x)[e.done + 1]
    /\ Answerable(t)
    /\ NoneIsNoMessage => Attended(e, t)

Coursing == Inv /\ \A s \in Streams : OnCourse(envoy[s], task[s])

\* Nearer to the end.
Nearer(s, e, t) ==
    \/ PhasesAhead(e) < PhasesAhead(envoy[s])
    \/ PhasesAhead(e) = PhasesAhead(envoy[s]) /\ WorkAhead(t) < WorkAhead(task[s])

\* A step takes stream s on.
Goes(s) == \E e, t : Turns(s, e, t) /\ OnCourse(e, t) /\ Nearer(s, e, t)

\* The task takes stream s on, and Envoy stays where it is.
GoesOn(s) == \E e, t :
    /\ Turns(s, e, t)
    /\ e.pc = envoy[s].pc /\ e.x = envoy[s].x /\ e.phase = envoy[s].phase
    /\ e.done = envoy[s].done /\ t.pc # "none" /\ Answerable(t)
    /\ NoneIsNoMessage => Attended(e, t)
    /\ WorkAhead(t) < WorkAhead(task[s])

LEMMA GoingOn ==
    ASSUME Inv, NEW s \in Streams, OnCourse(envoy[s], task[s]), GoesOn(s)
    PROVE  Goes(s)
  <1>1. PICK e, t :
            /\ Turns(s, e, t)
            /\ e.pc = envoy[s].pc /\ e.x = envoy[s].x /\ e.phase = envoy[s].phase
            /\ e.done = envoy[s].done /\ t.pc # "none" /\ Answerable(t)
            /\ NoneIsNoMessage => Attended(e, t)
            /\ WorkAhead(t) < WorkAhead(task[s])
    BY DEF GoesOn
  <1>2. PhasesAhead(e) = PhasesAhead(envoy[s])
    BY <1>1 DEF PhasesAhead
  <1>3. OnCourse(e, t)
    BY <1>1 DEF OnCourse
  <1>4. QED
    BY <1>1, <1>2, <1>3 DEF Goes, Nearer

\* The work on a message, and on a reply, is a number.
LEMMA WorkCounted ==
    ASSUME Inv, NEW s \in Streams
    PROVE  /\ task[s].pc \in Busy => WorkAhead(task[s]) \in Nat /\ WorkAhead(task[s]) >= 2
           /\ task[s].pc = "reading" => WorkAhead(task[s]) \in Nat /\ WorkAhead(task[s]) >= 1
           /\ task[s].pc = "reading" /\ task[s].inbox # None => WorkAhead(task[s]) >= 5
  <1> DEFINE t == task[s]
  <1>1. Pair(s, envoy[s], t)
    BY DEF Inv
  <1>2. ASSUME t.pc = "observing"
        PROVE  GlancesAhead(t.headers, t.seen) \in Nat
    BY <1>1, <1>2 DEF Pair, Ordered, GlancesAhead
  <1>3. ASSUME t.pc = "reading", t.inbox # None, t.inbox.phase = "request_headers"
        PROVE  Len(t.inbox.content.orders) \in Nat
    <2>1. t.inbox.content.orders \in Seq(BOOLEAN)
      BY <1>1, <1>3, OrdersKnown DEF Pair
    <2>2. QED
      BY <2>1
  <1> HIDE DEF t
  <1>4. ASSUME t.pc = "observing" PROVE WorkAhead(t) = 2 + GlancesAhead(t.headers, t.seen)
    BY <1>4 DEF WorkAhead
  <1>5. ASSUME t.pc = "reading"
        PROVE  WorkAhead(t) = IF t.inbox = None THEN 1
                              ELSE IF t.inbox.phase = "request_headers"
                              THEN 5 + Len(t.inbox.content.orders) ELSE 5
    BY <1>5 DEF WorkAhead
  <1>6. ASSUME t.pc \in Busy \ {"observing"} PROVE WorkAhead(t) \in {2, 3, 4}
    BY <1>6 DEF WorkAhead, Busy
  <1>7. t.pc \in Busy => WorkAhead(t) \in Nat /\ WorkAhead(t) >= 2
    BY <1>2, <1>4, <1>6
  <1>8. t.pc = "reading" => WorkAhead(t) \in Nat /\ WorkAhead(t) >= 1
    BY <1>3, <1>5
  <1>9. t.pc = "reading" /\ t.inbox # None => WorkAhead(t) >= 5
    BY <1>3, <1>5
  <1>10. QED
    BY <1>7, <1>8, <1>9 DEF t

\* The task answers and reads on, or ends (Send).
LEMMA SendGoes ==
    ASSUME Inv, NEW s \in Streams, NEW t, NEW answer, Send(s, t, answer),
           IsRecord(t, TaskFields),
           answer.kind \in AnyPhase \cup {"immediate"},
           task[s].pc \in Busy \/ (task[s].pc = "reading" /\ task[s].inbox # None)
    PROVE  GoesOn(s)
  <1> DEFINE t2 == [t EXCEPT !.inbox = None, !.pc = IF Closed(s) THEN "ended" ELSE "reading"]
             e2 == IF Closed(s) THEN envoy[s] ELSE [envoy[s] EXCEPT !.inbox = answer]
  <1>1. Pair(s, envoy[s], task[s])
    BY DEF Inv
  <1>2. t2.inbox = None /\ t2.pc = IF Closed(s) THEN "ended" ELSE "reading"
    BY DEF IsRecord, TaskFields
  <1>3. /\ e2.pc = envoy[s].pc /\ e2.x = envoy[s].x /\ e2.done = envoy[s].done
        /\ e2.phase = envoy[s].phase
        /\ ~Closed(s) => e2.inbox = answer
    BY <1>1 DEF Pair, IsRecord, EnvoyFields
  <1>4. Turns(s, e2, t2)
    BY DEF Turns, Send, Inv, IsRecord
  <1> HIDE DEF e2, t2
  <1>5. WorkAhead(t2) < WorkAhead(task[s])
    <2>1. WorkAhead(task[s]) \in Nat /\ WorkAhead(task[s]) >= 2
      BY WorkCounted DEF Busy
    <2>2. WorkAhead(t2) \in {0, 1}
      BY <1>2 DEF WorkAhead
    <2>3. QED
      BY <2>1, <2>2
  <1>6. ASSUME NoneIsNoMessage PROVE Attended(e2, t2)
    BY <1>3, <1>6 DEF Attended, NoneIsNoMessage, Closed
  <1>7. QED
    BY <1>2, <1>3, <1>4, <1>5, <1>6 DEF GoesOn, Answerable

\* The task goes on with its work, and Envoy waits.
LEMMA WorkGoes ==
    ASSUME Inv, NEW s \in Streams, NEW t, task' = [task EXCEPT ![s] = t], UNCHANGED envoy,
           t.pc \in Busy, Answerable(t), WorkAhead(t) < WorkAhead(task[s])
    PROVE  GoesOn(s)
  <1>1. Turns(s, envoy[s], t)
    BY DEF Turns, Inv, IsRecord
  <1>2. Attended(envoy[s], t) /\ t.pc # "none"
    BY DEF Attended, Busy
  <1>3. QED
    BY <1>1, <1>2 DEF GoesOn

\* The filter has spoken: an answer is sent, or the record (Conclude).
LEMMA ConcludeGoes ==
    ASSUME Inv, NEW s \in Streams, NEW t, NEW verdict, Conclude(s, t, verdict),
           IsRecord(t, TaskFields), t.phase \in AnyPhase,
           task[s].pc = "gating" \/ (task[s].pc = "reading" /\ task[s].inbox # None)
    PROVE  GoesOn(s)
  <1> DEFINE told == Told(t, verdict)
  <1>1. IsRecord(told, TaskFields)
    BY ToldKeeps
  <1>2. CASE BeginProduce(s, t, verdict)
    <2> DEFINE t2 == [told EXCEPT !.inbox = None, !.pc = "producing"]
    <2>1. t2.pc = "producing"
      <3> HIDE DEF told
      <3> QED
        BY <1>1 DEF IsRecord, TaskFields
    <2>2. task' = [task EXCEPT ![s] = t2] /\ UNCHANGED envoy
      BY <1>2 DEF BeginProduce
    <2> HIDE DEF t2
    <2>3. WorkAhead(t2) = 2 /\ t2.pc \in Busy /\ Answerable(t2)
      BY <2>1 DEF WorkAhead, Busy, Answerable
    <2>4. WorkAhead(task[s]) > 2
      <3>1. CASE task[s].pc = "gating"
        BY <3>1 DEF WorkAhead
      <3>2. QED
        BY <3>1, WorkCounted
    <2>5. QED
      BY <2>2, <2>3, <2>4, WorkGoes
  <1>3. CASE \E kind \in AnyPhase \cup {"immediate"} : Send(s, told, Answer(kind, verdict))
    <2>1. PICK kind \in AnyPhase \cup {"immediate"} : Send(s, told, Answer(kind, verdict))
      BY <1>3
    <2>2. Answer(kind, verdict).kind = kind
      BY DEF Answer
    <2> HIDE DEF told
    <2>3. QED
      BY <1>1, <2>1, <2>2, SendGoes DEF Busy
  <1>4. QED
    <2> HIDE DEF told
    <2> QED
      BY <1>2, <1>3 DEF Conclude, SendReply, SendMutation, told

\* A request is refused early, or goes to the router (DispatchWrite).
LEMMA DispatchGoes ==
    ASSUME Inv, NEW s \in Streams, NEW t, NEW phase \in AnyPhase, NEW body,
           DispatchWrite(s, t, phase, body), IsRecord(t, TaskFields),
           task[s].pc = "reading", task[s].inbox # None
    PROVE  GoesOn(s)
  <1> DEFINE req   == [t.headers.raw EXCEPT !.body = body]
             known == [t EXCEPT !.req = req, !.phase = phase]
             t2    == [known EXCEPT !.inbox = None, !.pc = "resolving"]
  <1>1. IsRecord(known, TaskFields) /\ known.phase = phase
    <2> HIDE DEF req
    <2> QED
      BY DEF IsRecord, TaskFields
  <1>2. CASE \E verdict : Conclude(s, known, verdict)
    <2> HIDE DEF known
    <2> QED
      BY <1>1, <1>2, ConcludeGoes
  <1>3. CASE task' = [task EXCEPT ![s] = t2] /\ UNCHANGED <<envoy, metrics>>
    <2>1. t2.pc = "resolving" /\ t2.phase = phase
      <3> HIDE DEF known
      <3> QED
        BY <1>1 DEF IsRecord, TaskFields
    <2> HIDE DEF t2
    <2>2. WorkAhead(t2) = 4 /\ t2.pc \in Busy /\ Answerable(t2)
      BY <2>1 DEF WorkAhead, Busy, Answerable
    <2>3. WorkAhead(task[s]) \in Nat /\ WorkAhead(task[s]) >= 5
      BY WorkCounted
    <2>4. WorkAhead(t2) < WorkAhead(task[s])
      BY <2>2, <2>3
    <2>5. QED
      BY <1>3, <2>2, <2>4, WorkGoes
  <1>4. QED
    BY <1>2, <1>3 DEF DispatchWrite

\* A request's headers are taken up, answered, or waited on with (OnRequestHeaders).
LEMMA RequestHeadersGo ==
    ASSUME Inv, NEW s \in Streams, OnRequestHeaders(s)
    PROVE  GoesOn(s)
  <1> DEFINE x == task[s].inbox.content
             t == [task[s] EXCEPT !.headers = x]
  <1>1. /\ Reads(s, "request_headers") /\ task[s].pc = "reading" /\ task[s].inbox # None
        /\ task[s].inbox.phase = "request_headers"
    BY DEF OnRequestHeaders, Reads
  <1>2. IsRecord(task[s], TaskFields) /\ Known(s, x)
    BY <1>1, Reading
  <1>3. IsRecord(t, TaskFields) /\ t.headers = x
    BY <1>2 DEF IsRecord, TaskFields
  <1>4. CASE BeginReply(s, t)
    <2> DEFINE seen == Unseen(t.headers)
               t2 == [t EXCEPT !.inbox = None, !.pc = "observing", !.seen = seen]
    <2>1. t2.pc = "observing" /\ t2.headers = x /\ t2.seen = seen
      <3> HIDE DEF t, seen, x
      <3> QED
        BY <1>3 DEF IsRecord, TaskFields
    <2>2. x.orders \in Seq(BOOLEAN)
      BY <1>2, OrdersKnown
    <2>3. GlancesAhead(x, seen) \in 0 .. 1 + Len(x.orders)
      <3> HIDE DEF t, x
      <3> QED
        BY <1>3, <2>2, GlancesBegin
    <2>4. WorkAhead(task[s]) = 5 + Len(x.orders)
      BY <1>1 DEF WorkAhead
    <2>5. task' = [task EXCEPT ![s] = t2] /\ UNCHANGED envoy
      BY <1>4 DEF BeginReply
    <2> HIDE DEF t2, seen, x
    <2>6. WorkAhead(t2) = 2 + GlancesAhead(x, seen) /\ t2.pc \in Busy /\ Answerable(t2)
      BY <2>1 DEF WorkAhead, Busy, Answerable
    <2>7. WorkAhead(t2) < WorkAhead(task[s])
      BY <2>2, <2>3, <2>4, <2>6
    <2>8. QED
      BY <2>5, <2>6, <2>7, WorkGoes
  <1>5. CASE Send(s, t, Continue("request_headers"))
    <2>1. Continue("request_headers").kind \in AnyPhase
      BY DEF Continue, Answer, AnyPhase, RequestPhase
    <2> HIDE DEF t
    <2>2. QED
      BY <1>1, <1>3, <1>5, <2>1, SendGoes
  <1>6. CASE DispatchWrite(s, t, "request_headers", None)
    <2>1. "request_headers" \in AnyPhase
      BY DEF AnyPhase, RequestPhase
    <2> HIDE DEF t
    <2>2. QED
      BY <1>1, <1>3, <1>6, <2>1, DispatchGoes
  <1>7. QED
    BY <1>4, <1>5, <1>6 DEF OnRequestHeaders

\* The task's other actions, unless they change nothing of the stream.
LEMMA TaskGoes ==
    ASSUME Inv, NEW s \in Streams, OnCourse(envoy[s], task[s]), Handles(s) \/ Produces(s)
    PROVE  GoesOn(s) \/ UNCHANGED <<envoy, task>>
  <1>1. Pair(s, envoy[s], task[s])
    BY DEF Inv
  <1>2. IsRecord(task[s], TaskFields)
    BY <1>1 DEF Pair
  <1>3. ASSUME NEW phase \in AnyPhase, Reads(s, phase)
        PROVE  task[s].pc = "reading" /\ task[s].inbox # None
    BY <1>3 DEF Reads
  <1>4. ASSUME NEW kind \in AnyPhase \cup {"immediate"}, NEW what,
               Send(s, task[s], Answer(kind, what)),
               task[s].pc \in Busy \/ (task[s].pc = "reading" /\ task[s].inbox # None)
        PROVE  GoesOn(s)
    <2>1. Answer(kind, what).kind = kind
      BY DEF Answer
    <2>2. QED
      BY <1>2, <1>4, <2>1, SendGoes
  <1>5. ASSUME NEW reply, SendReply(s, task[s], reply),
               task[s].pc \in Busy \/ (task[s].pc = "reading" /\ task[s].inbox # None)
        PROVE  GoesOn(s)
    <2> DEFINE told == Told(task[s], reply)
               answer == Answer("immediate", reply)
    <2>1. IsRecord(told, TaskFields) /\ answer.kind = "immediate" /\ Send(s, told, answer)
      BY <1>2, <1>5, ToldKeeps DEF SendReply, Answer
    <2> HIDE DEF told, answer
    <2>2. QED
      BY <1>5, <2>1, SendGoes
  <1>6. CASE OnRequestHeaders(s)
    BY <1>6, RequestHeadersGo
  <1>7. CASE OnRequestBody(s)
    <2>1. "request_body" \in AnyPhase /\ task[s].pc = "reading" /\ task[s].inbox # None
      BY <1>7 DEF OnRequestBody, Reads, AnyPhase, RequestPhase
    <2>2. QED
      BY <1>2, <1>5, <1>7, <2>1, DispatchGoes DEF OnRequestBody
  <1>8. CASE \/ OnRequestTrailers(s) \/ OnResponseBody(s) \/ OnResponseTrailers(s)
             \/ (OnResponseHeaders(s) /\ ~emit)
    <2>1. \E kind \in AnyPhase : Reads(s, kind) /\ \E what : Send(s, task[s], Answer(kind, what))
      BY <1>8 DEF OnRequestTrailers, OnResponseBody, OnResponseTrailers, OnResponseHeaders,
                  Continue, AnyPhase, RequestPhase, ResponsePhase
    <2>2. QED
      BY <1>3, <1>4, <2>1
  <1>9. CASE OnResponseHeaders(s) /\ emit
    <2> DEFINE t2 == [task[s] EXCEPT !.pc = "shaping", !.inbox = None]
    <2>1. /\ t2.pc = "shaping" /\ task' = [task EXCEPT ![s] = t2] /\ UNCHANGED envoy
          /\ task[s].pc = "reading" /\ task[s].inbox # None
      BY <1>2, <1>9 DEF OnResponseHeaders, Reads, IsRecord, TaskFields
    <2> HIDE DEF t2
    <2>2. WorkAhead(t2) = 2 /\ t2.pc \in Busy /\ Answerable(t2)
      BY <2>1 DEF WorkAhead, Busy, Answerable
    <2>3. WorkAhead(task[s]) \in Nat /\ WorkAhead(task[s]) >= 5
      BY <2>1, WorkCounted
    <2>4. WorkAhead(t2) < WorkAhead(task[s])
      BY <2>2, <2>3
    <2>5. QED
      BY <2>1, <2>2, <2>4, WorkGoes
  <1>10. CASE DecisionHeader(s)
    <2>1. "response_headers" \in AnyPhase /\ task[s].pc \in Busy
      BY <1>10 DEF DecisionHeader, AnyPhase, ResponsePhase, Busy
    <2>2. QED
      BY <1>4, <1>10, <2>1 DEF DecisionHeader
  <1>11. CASE Observing(s)
    <2>1. PICK seen \in Glances(task[s].headers, task[s].seen) :
              task' = [task EXCEPT ![s].seen = seen]
      BY <1>11 DEF Observing
    <2> DEFINE t2 == [task[s] EXCEPT !.seen = seen]
    <2>2. /\ t2.pc = "observing" /\ t2.headers = task[s].headers /\ t2.seen = seen
          /\ task' = [task EXCEPT ![s] = t2] /\ UNCHANGED envoy /\ task[s].pc = "observing"
      BY <1>2, <1>11, <2>1 DEF Observing, IsRecord, TaskFields
    <2>3. CASE seen = task[s].seen
      <3>1. task' = task
        BY <1>2, <2>1, <2>3 DEF IsRecord, TaskFields, Inv
      <3>2. QED
        BY <2>2, <3>1
    <2>4. CASE seen # task[s].seen
      <3>1. Ordered(task[s].headers, task[s].seen)
        BY <1>1, <2>2 DEF Pair
      <3>2. GlancesAhead(task[s].headers, seen) < GlancesAhead(task[s].headers, task[s].seen)
        BY <2>4, <3>1, GlancesEnd
      <3>3. /\ GlancesAhead(task[s].headers, task[s].seen) \in Nat
            /\ GlancesAhead(task[s].headers, seen) \in Nat
        BY <3>1, StaysOrdered DEF GlancesAhead, Ordered
      <3> HIDE DEF t2
      <3>4. /\ WorkAhead(t2) = 2 + GlancesAhead(task[s].headers, seen)
            /\ WorkAhead(task[s]) = 2 + GlancesAhead(task[s].headers, task[s].seen)
            /\ t2.pc \in Busy /\ Answerable(t2)
        BY <2>2 DEF WorkAhead, Busy, Answerable
      <3>5. WorkAhead(t2) < WorkAhead(task[s])
        BY <3>2, <3>3, <3>4
      <3>6. QED
        BY <2>2, <3>4, <3>5, WorkGoes
    <2>5. QED
      BY <2>3, <2>4
  <1>12. CASE Observed(s)
    BY <1>5, <1>12 DEF Observed, Busy
  <1>13. CASE ResolveNow(s)
    <2> DEFINE looked == Look(task[s].req)
               t2 == [task[s] EXCEPT !.pc = "gating", !.looked = looked]
    <2>1. t2.pc = "gating" /\ t2.phase = task[s].phase
      <3> HIDE DEF looked
      <3> QED
        BY <1>2 DEF IsRecord, TaskFields
    <2>2. task' = [task EXCEPT ![s] = t2] /\ UNCHANGED envoy /\ task[s].pc = "resolving"
      BY <1>13 DEF ResolveNow
    <2> HIDE DEF t2
    <2>3. WorkAhead(t2) = 3 /\ WorkAhead(task[s]) = 4 /\ t2.pc \in Busy /\ Answerable(t2)
      BY <2>1, <2>2 DEF WorkAhead, Busy, OnCourse, Answerable
    <2>4. WorkAhead(t2) < WorkAhead(task[s])
      BY <2>3
    <2>5. QED
      BY <2>2, <2>3, <2>4, WorkGoes
  <1>14. CASE End(s)
    <2> DEFINE t2 == [task[s] EXCEPT !.pc = "ended", !.inbox = None]
    <2>1. /\ t2.pc = "ended" /\ Turns(s, envoy[s], t2) /\ task[s].pc = "reading"
          /\ envoy[s].pc = "closed"
      BY <1>2, <1>14 DEF End, Closed, Turns, Inv, IsRecord, TaskFields
    <2> HIDE DEF t2
    <2>2. WorkAhead(t2) = 0
      BY <2>1 DEF WorkAhead
    <2>3. WorkAhead(task[s]) \in Nat /\ WorkAhead(task[s]) >= 1
      BY <2>1, WorkCounted
    <2>4. WorkAhead(t2) < WorkAhead(task[s])
      BY <2>2, <2>3
    <2>5. Attended(envoy[s], t2) /\ t2.pc # "none" /\ Answerable(t2)
      BY <2>1 DEF Attended, Answerable
    <2>6. QED
      BY <2>1, <2>4, <2>5 DEF GoesOn
  <1>15. CASE Produces(s)
    BY <1>4, <1>15 DEF Produces, Acknowledged, NotAcknowledged, Produced, Busy
  <1>16. CASE OnResponseHeaders(s)
    BY <1>8, <1>9, <1>16, Zenon
  <1>17. CASE Gate(s)
    <2>1. /\ task[s].phase \in AnyPhase /\ task[s].pc = "gating"
          /\ \E verdict : Conclude(s, task[s], verdict)
      BY <1>17 DEF Gate, OnCourse, Answerable
    <2>2. QED
      BY <1>2, <2>1, ConcludeGoes
  <1>18. QED
    BY <1>6, <1>7, <1>8, <1>10, <1>11, <1>12, <1>13, <1>14, <1>15, <1>16, <1>17 DEF Handles

\* Envoy sends a phase that comes after all it has sent (Await).
LEMMA AwaitGoes ==
    ASSUME Inv, NEW s \in Streams, NEW e, NEW phase \in AnyPhase, Await(s, e, phase),
           IsRecord(e, EnvoyFields), e.done \in Nat,
           phase \in RequestPhase =>
               e.done < Len(RequestPhases(e.x)) /\ phase = RequestPhases(e.x)[e.done + 1],
           \A e2 : e2.pc = "waiting" /\ e2.phase = phase =>
                      PhasesAhead(e2) < PhasesAhead(envoy[s])
    PROVE  Goes(s)
  <1>1. PICK e2 : \E t2 :
              /\ Turns(s, e2, t2)
              /\ e2.pc = "waiting" /\ e2.inbox = None /\ e2.x = e.x /\ e2.phase = phase
              /\ e2.done = e.done /\ e2.held = e.held /\ e2.upstream = e.upstream
              /\ t2.pc = "reading" /\ t2.inbox = Message(phase, e.x)
              /\ t2.headers = task[s].headers /\ t2.verdict = task[s].verdict
              /\ t2.looked = task[s].looked
    BY AwaitTurns
  <1>2. PICK t2 :
              /\ Turns(s, e2, t2)
              /\ e2.pc = "waiting" /\ e2.inbox = None /\ e2.x = e.x /\ e2.phase = phase
              /\ e2.done = e.done
              /\ t2.pc = "reading" /\ t2.inbox = Message(phase, e.x)
    BY <1>1
  <1>3. t2.inbox.phase = phase
    BY <1>2 DEF Message
  <1>4. ASSUME NoneIsNoMessage PROVE Attended(e2, t2)
    BY <1>3, <1>4 DEF NoneIsNoMessage, Attended
  <1>5. OnCourse(e2, t2)
    BY <1>2, <1>4 DEF OnCourse, Answerable
  <1>6. QED
    BY <1>2, <1>5 DEF Goes, Nearer

\* The phases, in their order.
LEMMA PhasesCount ==
    ASSUME NEW e
    PROVE  /\ e.pc = "idle" => PhasesAhead(e) = 8
           /\ e.pc = "upstream" => PhasesAhead(e) = 4
           /\ e.pc = "closed" => PhasesAhead(e) = 0
           /\ e.pc = "waiting" =>
                 /\ e.phase = "request_headers" => PhasesAhead(e) = 7
                 /\ e.phase = "request_body" => PhasesAhead(e) = 6
                 /\ e.phase = "request_trailers" => PhasesAhead(e) = 5
                 /\ e.phase = "response_headers" => PhasesAhead(e) = 3
                 /\ e.phase = "response_body" => PhasesAhead(e) = 2
                 /\ e.phase = "response_trailers" => PhasesAhead(e) = 1
  BY DEF PhasesAhead

\* A request's phases come in that order.
LEMMA PhasesFollow ==
    ASSUME NEW x, NEW n \in Nat, n >= 1, n < Len(RequestPhases(x))
    PROVE  \/ /\ RequestPhases(x)[n] = "request_headers"
              /\ RequestPhases(x)[n + 1] \in {"request_body", "request_trailers"}
           \/ /\ RequestPhases(x)[n] = "request_body"
              /\ RequestPhases(x)[n + 1] = "request_trailers"
  BY DEF RequestPhases

\* Envoy's actions.
LEMMA EnvoyGoes ==
    ASSUME Inv, NEW s \in Streams, OnCourse(envoy[s], task[s]),
           Takes(s) \/ GiveUp(s) \/ (\E x \in Requests[s] : OpenStream(s, x))
    PROVE  Goes(s)
  <1>1. /\ Pair(s, envoy[s], task[s]) /\ IsRecord(envoy[s], EnvoyFields)
        /\ envoy[s].done \in Nat
    BY DEF Inv, Pair, OnCourse
  <1>2. CASE TakeReply(s) \/ FinishResponse(s) \/ GiveUp(s)
    <2>1. PICK status : Close(s, status)
      BY <1>2 DEF TakeReply, FinishResponse, GiveUp
    <2> DEFINE e == [NoEnvoy EXCEPT !.pc = "closed", !.status = status, !.x = envoy[s].x,
                                    !.upstream = envoy[s].upstream,
                                    !.before = envoy[s].before]
    <2>2. e.pc = "closed" /\ e.done = 0
      BY DEF NoEnvoy
    <2>3. Turns(s, e, task[s])
      BY <1>2, <2>1 DEF TakeReply, FinishResponse, GiveUp, Close, Turns, Inv, IsRecord
    <2>4. envoy[s].pc \in {"waiting", "upstream"}
      BY <1>2 DEF TakeReply, FinishResponse, GiveUp, Got
    <2> HIDE DEF e
    <2>5. PhasesAhead(e) < PhasesAhead(envoy[s])
      BY <2>2, <2>4, PhasesCount DEF OnCourse, AnyPhase, RequestPhase, ResponsePhase
    <2>6. OnCourse(e, task[s])
      BY <2>2, <2>4 DEF OnCourse, Attended
    <2>7. QED
      BY <2>3, <2>5, <2>6 DEF Goes, Nearer
  <1>3. CASE \E x \in Requests[s] : OpenStream(s, x)
    <2>1. PICK x \in Requests[s] : OpenStream(s, x)
      BY <1>3
    <2>2. PICK before :
              Await(s, [envoy[s] EXCEPT !.x = x, !.before = before], "request_headers")
      BY <2>1 DEF OpenStream
    <2> DEFINE e == [envoy[s] EXCEPT !.x = x, !.before = before]
    <2>3. envoy[s].pc = "idle" /\ envoy[s].done = 0
      BY <2>1 DEF OpenStream, OnCourse
    <2>4. IsRecord(e, EnvoyFields) /\ e.x = x /\ e.done = 0
      BY <1>1, <2>3 DEF IsRecord, EnvoyFields
    <2>5. Await(s, e, "request_headers")
      BY <2>2
    <2> HIDE DEF e
    <2>6. /\ "request_headers" \in AnyPhase /\ 0 \in Nat
          /\ 0 < Len(RequestPhases(e.x)) /\ RequestPhases(e.x)[0 + 1] = "request_headers"
      BY DEF AnyPhase, RequestPhase, RequestPhases
    <2>7. ASSUME NEW e2, e2.pc = "waiting", e2.phase = "request_headers"
          PROVE  PhasesAhead(e2) < PhasesAhead(envoy[s])
      BY <2>3, <2>7, PhasesCount
    <2>8. QED
      BY <2>4, <2>5, <2>6, <2>7, AwaitGoes
  <1>4. CASE UpstreamResponds(s)
    <2>1. envoy[s].pc = "upstream" /\ Await(s, envoy[s], "response_headers")
      BY <1>4 DEF UpstreamResponds
    <2>2. ASSUME NEW e2, e2.pc = "waiting", e2.phase = "response_headers"
          PROVE  PhasesAhead(e2) < PhasesAhead(envoy[s])
      BY <2>1, <2>2, PhasesCount
    <2>3. "response_headers" \in AnyPhase /\ "response_headers" \notin RequestPhase
      BY DEF AnyPhase, RequestPhase, ResponsePhase
    <2>4. QED
      BY <1>1, <2>1, <2>2, <2>3, AwaitGoes
  <1>5. CASE TakeResponse(s)
    <2>1. /\ envoy[s].pc = "waiting" /\ envoy[s].inbox # None
          /\ \/ envoy[s].inbox.kind = "response_headers" /\ Await(s, envoy[s], "response_body")
             \/ envoy[s].inbox.kind = "response_body" /\ Await(s, envoy[s], "response_trailers")
      BY <1>5 DEF TakeResponse, Got
    <2>2. envoy[s].inbox.kind \in {envoy[s].phase, "immediate"}
      BY <1>1, <2>1 DEF Pair, Fits
    <2>3. PICK phase \in {"response_body", "response_trailers"} :
              /\ Await(s, envoy[s], phase)
              /\ \A e2 : e2.pc = "waiting" /\ e2.phase = phase =>
                            PhasesAhead(e2) < PhasesAhead(envoy[s])
      <3>1. CASE /\ envoy[s].phase = "response_headers"
                 /\ Await(s, envoy[s], "response_body")
        BY <2>1, <3>1, PhasesCount
      <3>2. CASE /\ envoy[s].phase = "response_body"
                 /\ Await(s, envoy[s], "response_trailers")
        BY <2>1, <3>2, PhasesCount
      <3>3. QED
        BY <2>1, <2>2, <3>1, <3>2
    <2>4. phase \in AnyPhase /\ phase \notin RequestPhase
      BY DEF AnyPhase, RequestPhase, ResponsePhase
    <2>5. QED
      BY <1>1, <2>3, <2>4, AwaitGoes
  <1>6. CASE TakeMutation(s)
    <2> DEFINE plan == RequestPhases(envoy[s].x)
               next == envoy[s].done + 1
               held == IF envoy[s].inbox.what # None THEN envoy[s].inbox.what
                                                     ELSE envoy[s].held
               now == [envoy[s] EXCEPT !.done = next, !.held = held]
               e2  == [now EXCEPT !.pc = "upstream", !.phase = None, !.inbox = None,
                                  !.held = None, !.upstream = held]
    <2>1. /\ envoy[s].pc = "waiting" /\ envoy[s].inbox # None /\ next <= Len(plan)
          /\ envoy[s].inbox.kind = plan[next] /\ next \in Nat /\ next >= 1
      BY <1>1, <1>6 DEF TakeMutation, Got
    <2>2. plan[next] \in RequestPhase
      <3> HIDE DEF next
      <3> QED
        BY <2>1, PhaseOrder
    <2>3. envoy[s].phase = plan[next]
      BY <1>1, <2>1, <2>2 DEF Pair, Fits, RequestPhase
    <2>4. /\ IsRecord(now, EnvoyFields) /\ now.x = envoy[s].x /\ now.done = next
      <3> HIDE DEF next, held
      <3> QED
        BY <1>1 DEF IsRecord, EnvoyFields
    <2>5. CASE next < Len(plan) /\ Await(s, now, plan[next + 1])
      <3>1. \/ plan[next] = "request_headers" /\ plan[next + 1] \in {"request_body", "request_trailers"}
            \/ plan[next] = "request_body" /\ plan[next + 1] = "request_trailers"
        <4> HIDE DEF next
        <4> QED
          BY <2>1, <2>5, PhasesFollow
      <3> DEFINE phase == plan[next + 1]
      <3>2. phase \in AnyPhase
        BY <3>1 DEF AnyPhase, RequestPhase
      <3>3. ASSUME NEW f, f.pc = "waiting", f.phase = phase
            PROVE  PhasesAhead(f) < PhasesAhead(envoy[s])
        <4> HIDE DEF plan, next
        <4> QED
          BY <2>1, <2>3, <3>1, <3>3, PhasesCount
      <3>4. Await(s, now, phase) /\ now.done < Len(RequestPhases(now.x))
            /\ phase = RequestPhases(now.x)[now.done + 1] /\ now.done \in Nat
        <4> HIDE DEF now, next
        <4> QED
          BY <2>1, <2>4, <2>5
      <3> HIDE DEF now, phase
      <3>5. QED
        BY <2>4, <3>2, <3>3, <3>4, AwaitGoes
    <2>6. CASE envoy' = [envoy EXCEPT ![s] = e2] /\ UNCHANGED task
      <3>1. e2.pc = "upstream" /\ e2.done = next
        <4> HIDE DEF now, held
        <4> QED
          BY <2>4 DEF IsRecord, EnvoyFields
      <3>2. Turns(s, e2, task[s])
        <4> HIDE DEF e2
        <4> QED
          BY <2>6 DEF Turns, Inv, IsRecord
      <3>3. PhasesAhead(envoy[s]) \in {5, 6, 7}
        BY <2>1, <2>2, <2>3, PhasesCount DEF RequestPhase
      <3> HIDE DEF e2
      <3>4. PhasesAhead(e2) < PhasesAhead(envoy[s])
        BY <3>1, <3>3, PhasesCount
      <3>5. OnCourse(e2, task[s])
        <4> HIDE DEF next
        <4> QED
          BY <2>1, <3>1 DEF OnCourse, Attended
      <3>6. QED
        BY <3>2, <3>4, <3>5 DEF Goes, Nearer
    <2>7. QED
      BY <1>6, <2>5, <2>6 DEF TakeMutation
  <1>7. QED
    BY <1>2, <1>3, <1>4, <1>5, <1>6 DEF Takes

\* A step of the protocol takes its stream on, and leaves the others where they are.
LEMMA StepGoes ==
    ASSUME Coursing, [Next]_vars
    PROVE  /\ Coursing'
           /\ UNCHANGED <<envoy, task>> \/ \E s \in Streams : Goes(s)
  <1>1. Inv /\ Inv' /\ \A s \in Streams : OnCourse(envoy[s], task[s])
    BY StepSound DEF Coursing
  <1>2. UNCHANGED <<envoy, task>> \/ \E s \in Streams : Goes(s)
    BY <1>1, EnvoyGoes, TaskGoes, GoingOn DEF Next, Works, vars
  <1>3. CASE UNCHANGED <<envoy, task>>
    <2>1. \A s \in Streams : OnCourse(envoy'[s], task'[s])
      BY <1>1, <1>3
    <2>2. QED
      BY <1>1, <1>2, <2>1 DEF Coursing, OnCourse, Answerable, Attended, NoneIsNoMessage
  <1>4. CASE \E s \in Streams : Goes(s)
    <2>1. PICK s \in Streams : Goes(s)
      BY <1>4
    <2>2. PICK e : \E t : Turns(s, e, t) /\ OnCourse(e, t)
      BY <2>1 DEF Goes
    <2>3. PICK t : Turns(s, e, t) /\ OnCourse(e, t)
      BY <2>2
    <2>4. \A r \in Streams : OnCourse(envoy'[r], task'[r])
      BY <1>1, <2>3 DEF Turns, Inv, IsRecord
    <2>5. QED
      BY <1>1, <1>2, <2>4 DEF Coursing, OnCourse, Answerable, Attended, NoneIsNoMessage
  <1>5. QED
    BY <1>2, <1>3, <1>4

\* Before the first message.
LEMMA CourseStarts == Init => Coursing
  <1> SUFFICES ASSUME Init PROVE Coursing
    OBVIOUS
  <1>1. ASSUME NEW s \in Streams PROVE envoy[s] = NoEnvoy /\ task[s] = NoTask
    BY DEF Init
  <1>2. OnCourse(NoEnvoy, NoTask)
    BY DEF OnCourse, Answerable, Attended, NoEnvoy, NoTask
  <1>3. QED
    BY <1>1, <1>2, StartsSound DEF Coursing

\* Every step of a stream takes it nearer to its end, for any requests and whatever the
\* other streams, the router and the operator do meanwhile (process_message, service.rs).
THEOREM ProgressMade == Spec => StreamsProgress
  <1> DEFINE Progress(s) ==
          \/ UNCHANGED <<envoy[s], task[s]>>
          \/ PhasesAhead(envoy'[s]) < PhasesAhead(envoy[s])
          \/ /\ PhasesAhead(envoy'[s]) = PhasesAhead(envoy[s])
             /\ WorkAhead(task'[s]) < WorkAhead(task[s])
  <1>1. ASSUME Coursing, [Next]_vars PROVE [\A s \in Streams : Progress(s)]_vars
    <2>1. CASE UNCHANGED <<envoy, task>>
      BY <2>1
    <2>2. CASE \E r \in Streams : Goes(r)
      <3>1. PICK r \in Streams : Goes(r)
        BY <2>2
      <3>2. PICK e : \E t : Turns(r, e, t) /\ Nearer(r, e, t)
        BY <3>1 DEF Goes
      <3>3. PICK t : Turns(r, e, t) /\ Nearer(r, e, t)
        BY <3>2
      <3>4. envoy'[r] = e /\ task'[r] = t
        BY <1>1, <3>3 DEF Turns, Coursing, Inv, IsRecord
      <3>5. \A s \in Streams \ {r} : envoy'[s] = envoy[s] /\ task'[s] = task[s]
        BY <1>1, <3>3 DEF Turns, Coursing, Inv, IsRecord
      <3>6. Progress(r)
        BY <3>3, <3>4 DEF Nearer
      <3>7. QED
        BY <3>5, <3>6
    <2>3. QED
      BY <1>1, <2>1, <2>2, StepGoes
  <1>2. Coursing /\ [Next]_vars => Coursing'
    BY StepGoes
  <1>3. QED
    BY <1>1, <1>2, CourseStarts, PTL DEF Spec, StreamsProgress

\* A stream is never stuck, nor are both its sides at work: what the task sends is what
\* Envoy can apply, whatever went before (the loop of service.rs, process_message).
THEOREM TurnsAlternate ==
    ASSUME NoneIsNoMessage
    PROVE  Spec => []TurnsTaken
  <1>1. ASSUME Coursing PROVE TurnsTaken
    <2> SUFFICES ASSUME NEW s \in Streams, envoy[s].pc # "idle", task[s].pc # "ended"
                 PROVE  TasksTurn(s) # EnvoysTurn(s)
      BY DEF TurnsTaken
    <2>1. Pair(s, envoy[s], task[s]) /\ OnCourse(envoy[s], task[s])
      BY <1>1 DEF Coursing, Inv
    <2>2. task[s].pc \in Busy \cup {"reading"}
      BY <2>1 DEF Pair, OnCourse, TaskPlaces, Busy
    <2>3. CASE envoy[s].pc = "closed"
      BY <2>2, <2>3 DEF TasksTurn, EnvoysTurn, Closed, Busy
    <2>4. CASE envoy[s].pc = "upstream"
      BY <2>1, <2>4 DEF Pair, TasksTurn, EnvoysTurn, Closed
    <2>5. CASE envoy[s].pc = "waiting" /\ envoy[s].inbox = None
      BY <2>1, <2>5, <2>2 DEF OnCourse, Attended, TasksTurn, EnvoysTurn, Busy
    <2>6. CASE envoy[s].pc = "waiting" /\ envoy[s].inbox # None
      <3>1. task[s].pc = "reading" /\ task[s].inbox = None
        BY <2>1, <2>6 DEF Pair
      <3>2. ~TasksTurn(s)
        BY <2>6, <3>1 DEF TasksTurn, Closed
      <3>3. envoy[s].inbox.kind \in {envoy[s].phase, "immediate"}
        BY <2>1, <2>6 DEF Pair, Fits
      <3>4. EnvoysTurn(s)
        BY <2>1, <2>6, <3>3 DEF OnCourse, EnvoysTurn, AnyPhase, ResponsePhase
      <3>5. QED
        BY <3>2, <3>4
    <2>7. QED
      BY <2>1, <2>3, <2>4, <2>5, <2>6 DEF Pair
  <1>2. Coursing /\ [Next]_vars => Coursing'
    BY StepGoes
  <1>3. QED
    BY <1>1, <1>2, CourseStarts, PTL DEF Spec
=============================================================================
