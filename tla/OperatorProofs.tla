--------------------------- MODULE OperatorProofs ---------------------------
(***************************************************************************)
(* Proofs about what the ext_proc service tells an operator, for any       *)
(* streams, requests and moves of tenants: the setting confirmed last is   *)
(* one that holds, and a dry run promises a write no route its tenant has  *)
(* left.                                                                   *)
(***************************************************************************)
EXTENDS ExtProcProofs

-----------------------------------------------------------------------------
(* The directive.                                                           *)

\* The request is an order, and its token is right.
Orderly(e) == e.pc # "idle" /\ e.x.raw.path = AdminPath /\ Authorized(e.x)

\* Of one stream: a reply without the token has no orders to carry out.
Meek(e, t) ==
    t.pc = "observing" /\ e.x.raw.path = AdminPath /\ ~Authorized(e.x) => t.seen = <<>>

\* The flag is as it was at first, or somebody will still read it, or was told it.
Directed ==
    \/ \E s \in Streams : Orderly(envoy[s]) /\ task[s].verdict = None
    \/ \E s \in Streams : /\ Orderly(envoy[s]) /\ task[s].verdict # None
                          /\ task[s].verdict.code = emit
    \/ (\A s \in Streams : ~Orderly(envoy[s])) /\ emit = EmitAtStart

Operated == Directed /\ \A s \in Streams : Meek(envoy[s], task[s])

\* A stream that is no operator's does not matter, nor one that was told before.
LEMMA DirectedStays ==
    ASSUME Directed, NEW s \in Streams,
           \A r \in Streams \ {s} : envoy'[r] = envoy[r] /\ task'[r] = task[r],
           UNCHANGED emit, Orderly(envoy'[s]) <=> Orderly(envoy[s]),
           Orderly(envoy[s]) => task'[s].verdict = task[s].verdict
    PROVE  Directed'
  <1>1. \A r \in Streams : Orderly(envoy'[r]) <=> Orderly(envoy[r])
    OBVIOUS
  <1>2. \A r \in Streams : Orderly(envoy[r]) => task'[r].verdict = task[r].verdict
    OBVIOUS
  <1>3. CASE \E r \in Streams : Orderly(envoy[r]) /\ task[r].verdict = None
    BY <1>1, <1>2, <1>3 DEF Directed
  <1>4. CASE \E r \in Streams : /\ Orderly(envoy[r]) /\ task[r].verdict # None
                                /\ task[r].verdict.code = emit
    BY <1>1, <1>2, <1>4 DEF Directed
  <1>5. CASE (\A r \in Streams : ~Orderly(envoy[r])) /\ emit = EmitAtStart
    BY <1>1, <1>5 DEF Directed
  <1>6. QED
    BY <1>3, <1>4, <1>5 DEF Directed

\* A stream that has been opened stays so (Send, Await, Close).
LEMMA StaysOpen ==
    ASSUME Inv, NEW s \in Streams, envoy[s].pc # "idle",
           Works(s) \/ GiveUp(s)
    PROVE  envoy'[s].pc # "idle"
  <1>1. IsRecord(envoy[s], EnvoyFields) /\ IsRecord(envoy, Streams)
    BY DEF Inv, Pair
  <1>2. CASE UNCHANGED envoy
    BY <1>2
  <1>3. ASSUME NEW t, NEW answer, Send(s, t, answer) PROVE envoy'[s].pc # "idle"
    <2>1. CASE envoy' = [envoy EXCEPT ![s].inbox = answer]
      BY <1>1, <2>1 DEF IsRecord, EnvoyFields
    <2>2. QED
      BY <1>3, <2>1 DEF Send
  <1>4. ASSUME NEW t, NEW verdict, Conclude(s, t, verdict) PROVE envoy'[s].pc # "idle"
    BY <1>2, <1>3, <1>4 DEF Conclude, SendReply, SendMutation, BeginProduce
  <1>5. ASSUME NEW t, NEW phase, NEW body, DispatchWrite(s, t, phase, body)
        PROVE  envoy'[s].pc # "idle"
    BY <1>2, <1>4, <1>5 DEF DispatchWrite
  <1>6. CASE OnRequestHeaders(s)
    <2> DEFINE t == [task[s] EXCEPT !.headers = task[s].inbox.content]
    <2>1. \/ UNCHANGED envoy
          \/ Send(s, t, Continue("request_headers"))
          \/ DispatchWrite(s, t, "request_headers", None)
      BY <1>6 DEF OnRequestHeaders, BeginReply
    <2>2. QED
      <3> HIDE DEF t
      <3> QED
        BY <1>2, <1>3, <1>5, <2>1
  <1>7. CASE OnRequestBody(s)
    BY <1>3, <1>5, <1>7 DEF OnRequestBody, SendReply
  <1>8. CASE OnRequestTrailers(s) \/ OnResponseBody(s) \/ OnResponseTrailers(s)
    BY <1>3, <1>8 DEF OnRequestTrailers, OnResponseBody, OnResponseTrailers
  <1>9. CASE OnResponseHeaders(s) \/ DecisionHeader(s)
    BY <1>2, <1>3, <1>9 DEF OnResponseHeaders, DecisionHeader
  <1>10. CASE Observing(s) \/ ResolveNow(s) \/ End(s)
    BY <1>2, <1>10 DEF Observing, ResolveNow, End
  <1>11. CASE Observed(s)
    BY <1>3, <1>11 DEF Observed, SendReply
  <1>12. CASE Gate(s)
    BY <1>4, <1>12 DEF Gate
  <1>13. CASE Produces(s)
    BY <1>3, <1>13 DEF Produces, Acknowledged, NotAcknowledged, Produced
  <1>14. ASSUME NEW e, envoy' = [envoy EXCEPT ![s] = e], e.pc # "idle"
         PROVE  envoy'[s].pc # "idle"
    BY <1>1, <1>14 DEF IsRecord
  <1>15. ASSUME NEW status, Close(s, status) PROVE envoy'[s].pc # "idle"
    <2> DEFINE e == [NoEnvoy EXCEPT !.pc = "closed", !.status = status, !.x = envoy[s].x,
                                    !.upstream = envoy[s].upstream,
                                    !.before = envoy[s].before]
    <2>1. e.pc # "idle"
      BY DEF NoEnvoy
    <2>2. envoy' = [envoy EXCEPT ![s] = e]
      BY <1>15 DEF Close
    <2>3. QED
      <3> HIDE DEF e
      <3> QED
        BY <1>14, <2>1, <2>2
  <1>16. ASSUME NEW e, NEW phase, Await(s, e, phase), IsRecord(e, EnvoyFields)
         PROVE  envoy'[s].pc # "idle"
    <2> DEFINE e2 == [e EXCEPT !.pc = "waiting", !.phase = phase, !.inbox = None]
    <2>1. e2.pc # "idle"
      BY <1>16 DEF IsRecord, EnvoyFields
    <2>2. envoy' = [envoy EXCEPT ![s] = e2]
      BY <1>16 DEF Await
    <2>3. QED
      <3> HIDE DEF e2
      <3> QED
        BY <1>14, <2>1, <2>2
  <1>17. CASE TakeReply(s) \/ FinishResponse(s) \/ GiveUp(s)
    BY <1>15, <1>17 DEF TakeReply, FinishResponse, GiveUp
  <1>18. CASE UpstreamResponds(s) \/ TakeResponse(s)
    BY <1>1, <1>16, <1>18 DEF UpstreamResponds, TakeResponse
  <1>19. CASE TakeMutation(s)
    <2> DEFINE next == envoy[s].done + 1
               held == IF envoy[s].inbox.what # None THEN envoy[s].inbox.what
                                                     ELSE envoy[s].held
               now == [envoy[s] EXCEPT !.done = next, !.held = held]
               e2  == [now EXCEPT !.pc = "upstream", !.phase = None, !.inbox = None,
                                  !.held = None, !.upstream = held]
    <2>1. IsRecord(now, EnvoyFields)
      <3> HIDE DEF next, held
      <3> QED
        BY <1>1 DEF IsRecord, EnvoyFields
    <2>2. e2.pc # "idle"
      <3> HIDE DEF now, held
      <3> QED
        BY <2>1 DEF IsRecord, EnvoyFields
    <2>3. (\E phase : Await(s, now, phase)) \/ envoy' = [envoy EXCEPT ![s] = e2]
      BY <1>19 DEF TakeMutation
    <2>4. QED
      <3> HIDE DEF now, e2
      <3> QED
        BY <1>14, <1>16, <2>1, <2>2, <2>3
  <1>20. QED
    BY <1>6, <1>7, <1>8, <1>9, <1>10, <1>11, <1>12, <1>13, <1>17, <1>18, <1>19
       DEF Works, Handles, Takes

\* What a task has of its request: the path and the token it came with.
LEMMA HeadersSame ==
    ASSUME NEW s \in Streams, NEW x \in Requests[s]
    PROVE  /\ Headers(x).raw.path = x.raw.path
           /\ Authorized(Headers(x)) <=> Authorized(x)
           /\ Headers(x).raw.header = x.raw.header
           /\ Headers(x).raw.presented = x.raw.presented
           /\ Headers(x).raw.principal = x.raw.principal
           /\ IsRecord(Headers(x).raw, RawFields)
  <1>1. IsRecord(x, RequestFields) /\ IsRecord(x.raw, RawFields)
    BY RequestsAssumption DEF IsRequest, RawFields
  <1> DEFINE raw == [x.raw EXCEPT !.body = None]
             h == [x EXCEPT !.raw = raw]
  <1>2. /\ raw.path = x.raw.path /\ raw.header = x.raw.header
        /\ raw.presented = x.raw.presented /\ raw.principal = x.raw.principal
        /\ IsRecord(raw, RawFields)
    BY <1>1 DEF IsRecord, RawFields
  <1>3. h.raw = raw /\ h.token = x.token
    <2> HIDE DEF raw
    <2> QED
      BY <1>1 DEF IsRecord, RequestFields
  <1>4. Headers(x) = h
    BY DEF Headers
  <1>5. QED
    <2> HIDE DEF h, raw
    <2> QED
      BY <1>2, <1>3, <1>4 DEF Authorized

\* Somebody was told the flag as it is, or will be.
LEMMA DirectedBy ==
    ASSUME NEW s \in Streams, Orderly(envoy'[s]),
           \/ task'[s].verdict = None
           \/ task'[s].verdict # None /\ task'[s].verdict.code = emit'
    PROVE  Directed'
  BY DEF Directed

\* The steps of a reply.
LEMMA RepliesDirect ==
    ASSUME Inv, NoneIsNoVerdict, NEW s \in Streams, Agree(envoy[s], task[s]),
           Directed, Meek(envoy[s], task[s]), Replies(s),
           \A r \in Streams \ {s} : envoy'[r] = envoy[r] /\ task'[r] = task[r]
    PROVE  Directed' /\ Meek(envoy'[s], task'[s])
  <1> DEFINE e == envoy[s]
             t == task[s]
  <1>1. IsRecord(t, TaskFields) /\ IsRecord(task, Streams)
    BY DEF Inv, Pair
  <1>2. t.verdict = None
    BY DEF Agree, Unheard, Replies, OnRequestHeaders, Reads, Observing, Observed
  <1>3. envoy'[s].x = e.x
    BY TaskLeaves DEF Replies, Handles
  <1>4. e.x \in Requests[s] /\ e.pc # "idle"
    BY DEF Inv, Pair, Replies, OnRequestHeaders, Reads, Observing, Observed
  <1>5. envoy'[s].pc # "idle"
    BY <1>4, StaysOpen DEF Replies, Works, Handles
  <1>6. Orderly(envoy'[s]) <=> Orderly(e)
    BY <1>3, <1>4, <1>5 DEF Orderly
  <1>7. ASSUME UNCHANGED emit, task'[s].verdict = None PROVE Directed'
    BY <1>2, <1>6, <1>7, DirectedStays
  <1>8. CASE OnRequestHeaders(s) /\ Reserved(t.inbox.content.raw.path)
    <2> DEFINE heard == [t EXCEPT !.headers = t.inbox.content]
               seen == Unseen(heard.headers)
               u == [heard EXCEPT !.inbox = None, !.pc = "observing", !.seen = seen]
    <2>1. task' = [task EXCEPT ![s] = u] /\ UNCHANGED emit
      BY <1>8 DEF OnRequestHeaders, BeginReply, settings
    <2>2. IsRecord(heard, TaskFields) /\ heard.headers = t.inbox.content /\ heard.verdict = None
      BY <1>1, <1>2 DEF IsRecord, TaskFields
    <2>3. u.verdict = None /\ u.seen = seen
      <3> HIDE DEF heard, seen
      <3> QED
        BY <2>2 DEF IsRecord, TaskFields
    <2>4. heard.headers = Headers(e.x)
      <3>1. t.inbox.content = Headers(e.x)
        BY <1>8 DEF Agree, OnRequestHeaders, Reads
      <3>2. QED
        <4> HIDE DEF heard
        <4> QED
          BY <2>2, <3>1
    <2>5. e.x.raw.path = AdminPath /\ ~Authorized(e.x) => seen = <<>>
      <3> HIDE DEF heard
      <3> QED
        BY <1>4, <2>4, HeadersSame, PlaneReplies
    <2>6. task'[s] = u
      BY <1>1, <2>1 DEF IsRecord
    <2>7. QED
      <3> HIDE DEF u, seen
      <3> QED
        BY <1>3, <1>7, <2>1, <2>3, <2>5, <2>6 DEF Meek
  <1>9. ASSUME t.pc = "observing" PROVE t.headers = Headers(e.x)
    BY <1>9 DEF Agree, HasHeaders, Busy
  <1>10. CASE Observing(s)
    <2>1. PICK seen \in Glances(t.headers, t.seen) : task' = [task EXCEPT ![s].seen = seen]
      BY <1>10 DEF Observing
    <2> DEFINE u == [t EXCEPT !.seen = seen]
    <2>2. u.verdict = None /\ u.seen = seen /\ u.pc = "observing"
      BY <1>1, <1>2, <1>10 DEF IsRecord, TaskFields, Observing
    <2>3. task'[s] = u
      BY <1>1, <2>1 DEF IsRecord
    <2>4. /\ t.headers.raw.path = e.x.raw.path
          /\ t.pc = "observing" /\ Obeys(t.headers, t.seen)
      BY <1>4, <1>9, <1>10, HeadersSame DEF Observing
    <2>5. e.x.raw.path = AdminPath => Authorized(e.x)
      <3> SUFFICES ASSUME e.x.raw.path = AdminPath, ~Authorized(e.x) PROVE FALSE
        OBVIOUS
      <3>1. t.seen = <<>>
        BY <2>4 DEF Meek
      <3>2. Glances(t.headers, t.seen) = {}
        BY <2>4, <3>1, PlaneReplies
      <3>3. QED
        BY <3>2
    <2>6. CASE Orderly(e)
      <3> HIDE DEF u
      <3> QED
        BY <1>3, <1>6, <2>2, <2>3, <2>5, <2>6, DirectedBy DEF Meek
    <2>7. CASE ~Orderly(e)
      <3>1. UNCHANGED emit
        BY <1>4, <2>4, <2>5, <2>7 DEF Orderly, Obeys
      <3>2. QED
        <4> HIDE DEF u
        <4> QED
          BY <1>3, <1>7, <2>2, <2>3, <2>5, <3>1 DEF Meek
    <2>8. QED
      BY <2>6, <2>7
  <1>11. CASE Observed(s)
    <2> DEFINE reply == Reply(t.headers, t.seen)
               told == Told(t, reply)
               pc == IF Closed(s) THEN "ended" ELSE "reading"
               u == [told EXCEPT !.inbox = None, !.pc = pc]
    <2>1. task' = [task EXCEPT ![s] = u] /\ t.pc = "observing" /\ UNCHANGED emit
      BY <1>11 DEF Observed, SendReply, Send, settings
    <2>2. IsRecord(told, TaskFields) /\ told.verdict = reply
      BY <1>1, ToldIs
    <2>3. u.verdict = reply /\ u.pc = pc /\ pc # "observing"
      <3> HIDE DEF told
      <3> QED
        BY <2>2 DEF IsRecord, TaskFields
    <2>4. task'[s] = u
      BY <1>1, <2>1 DEF IsRecord
    <2>5. Meek(envoy'[s], task'[s])
      <3> HIDE DEF u, pc, reply
      <3> QED
        BY <2>3, <2>4 DEF Meek
    <2>6. CASE Orderly(e)
      <3>1. t.headers.raw.path = AdminPath /\ Authorized(t.headers)
        BY <1>4, <1>9, <2>1, <2>6, HeadersSame DEF Orderly
      <3>2. reply = Immediate(200, emit)
        BY <3>1, PlaneReplies
      <3>3. reply # None /\ reply.code = emit
        <4> HIDE DEF reply
        <4> QED
          BY <3>2 DEF Immediate, NoneIsNoVerdict
      <3>4. QED
        <4> HIDE DEF u, pc, reply
        <4> QED
          BY <1>6, <2>1, <2>3, <2>4, <2>5, <2>6, <3>3, DirectedBy
    <2>7. CASE ~Orderly(e)
      BY <1>6, <2>1, <2>5, <2>7, DirectedStays
    <2>8. QED
      BY <2>6, <2>7
  <1>12. QED
    BY <1>8, <1>10, <1>11 DEF Replies

\* Requests that are not for a reserved path (Decides), with the books kept.
LEMMA DecidesUnreserved ==
    ASSUME Mapped, Balanced, NEW s \in Streams, Decides(s)
    PROVE  ~Reserved(envoy[s].x.raw.path)
  <1>1. CASE OnRequestHeaders(s) /\ ~Reserved(task[s].inbox.content.raw.path)
    <2>1. /\ task[s].inbox.content = Headers(envoy[s].x)
          /\ envoy[s].x \in Requests[s]
      BY <1>1 DEF Mapped, Agree, OnRequestHeaders, Reads, Inv, Pair
    <2>2. QED
      BY <1>1, <2>1, HeadersPath
  <1>2. CASE OnRequestBody(s) \/ ResolveNow(s) \/ Gate(s)
    BY <1>2 DEF Balanced, Books, Booked, Passing, OnRequestBody, Reads, ResolveNow, Gate
  <1>3. QED
    BY <1>1, <1>2 DEF Decides

\* A new stream: an operator's is still to be told.
LEMMA OpenDirects ==
    ASSUME Inv, NEW s \in Streams, Agree(envoy[s], task[s]), Directed,
           NEW x \in Requests[s], OpenStream(s, x),
           \A r \in Streams \ {s} : envoy'[r] = envoy[r] /\ task'[r] = task[r]
    PROVE  Directed' /\ Meek(envoy'[s], task'[s])
  <1>1. /\ envoy[s].pc = "idle" /\ UNCHANGED emit /\ IsRecord(task[s], TaskFields)
        /\ IsRecord(task, Streams) /\ task[s].verdict = None
    BY DEF OpenStream, Inv, Pair, Agree, settings
  <1>2. \E message : task' = [task EXCEPT ![s] = [@ EXCEPT !.pc = "reading", !.inbox = message]]
    BY DEF OpenStream, Await
  <1>3. PICK message : task' = [task EXCEPT ![s] = [@ EXCEPT !.pc = "reading", !.inbox = message]]
    BY <1>2
  <1> DEFINE u == [task[s] EXCEPT !.pc = "reading", !.inbox = message]
  <1>4. u.verdict = None /\ u.pc = "reading"
    BY <1>1 DEF IsRecord, TaskFields
  <1>5. task'[s] = u
    BY <1>1, <1>3 DEF IsRecord
  <1>6. task'[s].verdict = None /\ Meek(envoy'[s], task'[s])
    <2> HIDE DEF u
    <2> QED
      BY <1>4, <1>5 DEF Meek
  <1>7. CASE Orderly(envoy'[s])
    BY <1>6, <1>7, DirectedBy
  <1>8. CASE ~Orderly(envoy'[s])
    BY <1>1, <1>6, <1>8, DirectedStays DEF Orderly
  <1>9. QED
    BY <1>6, <1>7, <1>8

\* No step leaves an operator told what nobody has.
LEMMA StepOperates ==
    ASSUME Mapped, NoneIsNoVerdict, Balanced, Operated, [Next]_vars
    PROVE  Operated'
  <1>1. Inv /\ \A s \in Streams : /\ Agree(envoy[s], task[s])
                                  /\ Meek(envoy[s], task[s])
    BY DEF Mapped, Operated
  <1>2. CASE UNCHANGED <<envoy, task, emit>>
    BY <1>1, <1>2 DEF Operated, Directed
  <1>3. ASSUME NEW s \in Streams,
               \/ \E x \in Requests[s] : OpenStream(s, x)
               \/ Works(s) \/ GiveUp(s)
        PROVE  Operated'
    <2>1. \A r \in Streams \ {s} : envoy'[r] = envoy[r] /\ task'[r] = task[r]
      BY <1>3, StepGrows
    <2>2. \A r \in Streams \ {s} : Meek(envoy'[r], task'[r])
      BY <1>1, <2>1
    <2>3. ASSUME Directed', Meek(envoy'[s], task'[s]) PROVE Operated'
      BY <2>2, <2>3 DEF Operated
    <2>4. ASSUME UNCHANGED emit, Works(s) \/ GiveUp(s), envoy'[s].x = envoy[s].x,
                 envoy[s].pc # "idle", Meek(envoy'[s], task'[s]),
                 Orderly(envoy[s]) => task'[s].verdict = task[s].verdict
          PROVE  Operated'
      <3>1. envoy'[s].pc # "idle"
        BY <1>1, <2>4, StaysOpen
      <3>2. Orderly(envoy'[s]) <=> Orderly(envoy[s])
        BY <2>4, <3>1 DEF Orderly
      <3>3. Directed'
        BY <2>1, <2>4, <3>2, DirectedStays DEF Operated
      <3>4. QED
        BY <2>3, <2>4, <3>3
    <2>5. CASE Decides(s)
      <3>1. ~Reserved(envoy[s].x.raw.path)
        BY <2>5, DecidesUnreserved
      <3>2. envoy'[s].x = envoy[s].x
        BY <1>1, <2>5, TaskLeaves DEF Decides, Handles
      <3>3. UNCHANGED emit /\ envoy[s].pc # "idle" /\ Works(s)
        BY <1>1, <2>5 DEF Decides, OnRequestBody, ResolveNow, Gate, OnRequestHeaders, Reads,
           settings, Inv, Pair, Works, Handles
      <3>4. Meek(envoy'[s], task'[s]) /\ ~Orderly(envoy[s])
        BY <3>1, <3>2 DEF Meek, Orderly, Reserved
      <3>5. QED
        BY <2>4, <3>2, <3>3, <3>4
    <2>6. CASE PassesOn(s)
      <3>1. envoy'[s].x = envoy[s].x
        BY <1>1, <2>6, TaskLeaves DEF PassesOn, Handles
      <3>2. task'[s].verdict = task[s].verdict /\ Meek(envoy'[s], task'[s])
        BY <1>1, <2>6, PassingLeaves DEF Meek
      <3>3. UNCHANGED emit /\ Works(s)
        BY <2>6 DEF PassesOn, OnRequestTrailers, OnResponseHeaders, OnResponseBody,
           OnResponseTrailers, DecisionHeader, Produces, Acknowledged, NotAcknowledged,
           Produced, End, settings, Works, Handles
      <3>4. envoy[s].pc # "idle"
        BY <1>1, <2>6 DEF PassesOn, OnRequestTrailers, OnResponseHeaders, OnResponseBody,
           OnResponseTrailers, DecisionHeader, Produces, Acknowledged, NotAcknowledged,
           Produced, End, Reads, Inv, Pair
      <3>5. QED
        BY <2>4, <3>1, <3>2, <3>3, <3>4
    <2>7. CASE Takes(s) \/ GiveUp(s)
      <3>1. /\ envoy'[s].x = envoy[s].x /\ task'[s].verdict = task[s].verdict
            /\ Meek(envoy'[s], task'[s])
        BY <1>1, <2>7, EnvoyLeaves DEF Meek
      <3>2. UNCHANGED emit /\ envoy[s].pc # "idle" /\ (Works(s) \/ GiveUp(s))
        BY <2>7 DEF Takes, GiveUp, TakeReply, TakeMutation, UpstreamResponds, TakeResponse,
           FinishResponse, Got, settings, Works
      <3>3. QED
        BY <2>4, <3>1, <3>2
    <2>8. CASE Replies(s)
      BY <1>1, <2>1, <2>3, <2>8, RepliesDirect DEF Operated
    <2>9. CASE \E x \in Requests[s] : OpenStream(s, x)
      BY <1>1, <2>1, <2>3, <2>9, OpenDirects DEF Operated
    <2>10. QED
      BY <1>3, <2>5, <2>6, <2>7, <2>8, <2>9
         DEF Works, Handles, Decides, PassesOn, Replies
  <1>4. CASE Move /\ UNCHANGED <<sink, envoy, task, metrics, emit>>
    BY <1>2, <1>4
  <1>5. QED
    BY <1>2, <1>3, <1>4 DEF Next, vars

\* Whatever orders overtake each other, in any number of streams: once all of them were
\* answered, the directive is one that was confirmed, or none was and it is as it was set
\* when the process started (admin_reply).
THEOREM OrdersAgree ==
    ASSUME NoneIsNoVerdict, IsFiniteSet(Streams)
    PROVE  Spec => []DirectiveInForce
  <1>1. Init => Mapped /\ Balanced /\ Operated
    <2> SUFFICES ASSUME Init PROVE Operated
      BY BooksOpen
    <2>1. \A s \in Streams : envoy[s].pc = "idle" /\ task[s].pc = "none"
      BY DEF Init, NoEnvoy, NoTask
    <2>2. emit = EmitAtStart
      BY DEF Init, ObserveInit
    <2>3. QED
      BY <2>1, <2>2 DEF Operated, Directed, Orderly, Meek
  <1>2. Mapped /\ Balanced /\ Operated /\ [Next]_vars => Mapped' /\ Balanced' /\ Operated'
    BY StepMaps, StepBooks, StepOperates
  <1>3. Operated => DirectiveInForce
    <2> SUFFICES ASSUME Directed, \A s \in Ordering : task[s].verdict # None
                 PROVE  InForce(Confirmed)
      BY DEF Operated, DirectiveInForce
    <2>1. {r \in Ordering : Authorized(envoy[r].x)} = {r \in Streams : Orderly(envoy[r])}
      BY DEF Ordering, Orderly
    <2>2. Confirmed = {task[s].verdict.code : s \in {r \in Streams : Orderly(envoy[r])}}
      BY <2>1 DEF Confirmed
    <2>3. \A s \in Streams : Orderly(envoy[s]) => task[s].verdict # None
      BY DEF Ordering, Orderly
    <2>4. CASE \E s \in Streams : Orderly(envoy[s]) /\ task[s].verdict.code = emit
      BY <2>2, <2>4 DEF InForce
    <2>5. CASE (\A s \in Streams : ~Orderly(envoy[s])) /\ emit = EmitAtStart
      BY <2>2, <2>5 DEF InForce
    <2>6. QED
      BY <2>3, <2>4, <2>5 DEF Directed
  <1>4. QED
    BY <1>1, <1>2, <1>3, PTL DEF Spec

-----------------------------------------------------------------------------
(* Explanations.                                                            *)

\* What the router said of the request an explanation is about may be held against
\* the gate that is asked next.
Weighed(s) ==
    /\ task[s].pc = "observing" /\ Explains(envoy[s].x.raw.path) /\ task[s].seen # None
    => LookedInv(task[s].seen)

Weighs == \A s \in Streams : Weighed(s)

\* A move of tenants leaves what was found fresh, or the gate shut.
LEMMA MovesWeigh ==
    ASSUME Inv, Weighs, Move, UNCHANGED <<envoy, task>>
    PROVE  Weighs'
  <1>1. \A p \in Partitions : \A n, cluster : Fresh(p, n, cluster) => Fresh(p, n, cluster)'
    BY MoveKeeps DEF Inv
  <1>2. ASSUME NEW s \in Streams, LookedInv(task[s].seen) PROVE LookedInv(task[s].seen)'
    BY <1>1, <1>2 DEF LookedInv
  <1>3. QED
    BY <1>2 DEF Weighs, Weighed

\* A step of the reply to an explanation.
LEMMA RepliesWeigh ==
    ASSUME Inv, NEW s \in Streams, Agree(envoy[s], task[s]), Weighed(s), Replies(s)
    PROVE  Weighed(s)'
  <1> DEFINE e == envoy[s]
             t == task[s]
  <1>1. /\ IsRecord(t, TaskFields) /\ IsRecord(task, Streams) /\ PlacingInv
        /\ e.x \in Requests[s]
    BY DEF Inv, Pair, Replies, OnRequestHeaders, Reads, Observing, Observed
  <1>2. envoy'[s].x = e.x
    BY TaskLeaves DEF Replies, Handles
  <1>3. Headers(e.x).raw.path = e.x.raw.path
    BY <1>1, HeadersPath
  <1>4. CASE OnRequestHeaders(s) /\ Reserved(t.inbox.content.raw.path)
    <2> DEFINE heard == [t EXCEPT !.headers = t.inbox.content]
               seen == Unseen(heard.headers)
               u == [heard EXCEPT !.inbox = None, !.pc = "observing", !.seen = seen]
    <2>1. task' = [task EXCEPT ![s] = u]
      BY <1>4 DEF OnRequestHeaders, BeginReply
    <2>2. IsRecord(heard, TaskFields) /\ heard.headers = t.inbox.content
      BY <1>1 DEF IsRecord, TaskFields
    <2>3. u.seen = seen
      <3> HIDE DEF heard, seen
      <3> QED
        BY <2>2 DEF IsRecord, TaskFields
    <2>4. t.inbox.content = Headers(e.x)
      BY <1>4 DEF Agree, OnRequestHeaders, Reads
    <2>5. Explains(e.x.raw.path) => seen = None
      <3> HIDE DEF heard
      <3> QED
        BY <1>3, <2>2, <2>4, ExplainReplies
    <2>6. task'[s] = u
      BY <1>1, <2>1 DEF IsRecord
    <2>7. QED
      <3> HIDE DEF u, seen
      <3> QED
        BY <1>2, <2>3, <2>5, <2>6 DEF Weighed
  <1>5. CASE Observing(s)
    <2>1. PICK seen \in Glances(t.headers, t.seen) : task' = [task EXCEPT ![s].seen = seen]
      BY <1>5 DEF Observing
    <2> DEFINE u == [t EXCEPT !.seen = seen]
    <2>2. u.seen = seen
      BY <1>1 DEF IsRecord, TaskFields
    <2>3. task'[s] = u
      BY <1>1, <2>1 DEF IsRecord
    <2>4. t.headers = Headers(e.x)
      BY <1>5 DEF Agree, HasHeaders, Busy, Observing
    <2>5. ASSUME Explains(e.x.raw.path) PROVE LookedInv(seen)
      <3>1. seen = LookUp(CtxOf(Target(t.headers)))
        BY <1>3, <2>4, <2>5, ExplainReplies
      <3>2. ResolvePartition(cfg, CtxOf(Target(t.headers))) \in Partitions \cup {None}
        <4>1. /\ IsRecord(e.x.raw, RawFields) /\ NamesTenant(e.x.raw)
              /\ IsRecord(t.headers.raw, RawFields)
              /\ t.headers.raw.header = e.x.raw.header
              /\ t.headers.raw.presented = e.x.raw.presented
              /\ t.headers.raw.principal = e.x.raw.principal
          BY <1>1, <2>4, RequestsAssumption, HeadersSame DEF IsRequest, RawFields
        <4>2. QED
          BY <1>1, <4>1, TargetNamed DEF RawFields, RequestLine
      <3>3. QED
        BY <1>1, <3>1, <3>2, TargetFresh
    <2>6. UNCHANGED placing
      BY <1>5 DEF Observing
    <2>7. Explains(e.x.raw.path) => LookedInv(seen)'
      BY <2>5, <2>6 DEF LookedInv, Fresh, ClusterFor, placing
    <2>8. QED
      <3> HIDE DEF u
      <3> QED
        BY <1>2, <2>2, <2>3, <2>7 DEF Weighed
  <1>6. CASE Observed(s)
    <2>1. task'[s].pc # "observing"
      <3> DEFINE told == Told(t, Reply(t.headers, t.seen))
                 pc == IF Closed(s) THEN "ended" ELSE "reading"
                 u == [told EXCEPT !.inbox = None, !.pc = pc]
      <3>1. task' = [task EXCEPT ![s] = u]
        BY <1>6 DEF Observed, SendReply, Send
      <3>2. IsRecord(told, TaskFields)
        BY <1>1, ToldIs
      <3>3. u.pc = pc /\ pc # "observing"
        <4> HIDE DEF told
        <4> QED
          BY <3>2 DEF IsRecord, TaskFields
      <3>4. task'[s] = u
        BY <1>1, <3>1 DEF IsRecord
      <3>5. QED
        <4> HIDE DEF u, pc
        <4> QED
          BY <3>3, <3>4
    <2>2. QED
      BY <2>1 DEF Weighed
  <1>7. QED
    BY <1>4, <1>5, <1>6 DEF Replies

\* No step of a stream moves a tenant.
LEMMA Stays ==
    ASSUME NEW s \in Streams,
           \/ \E x \in Requests[s] : OpenStream(s, x)
           \/ Works(s) \/ GiveUp(s)
    PROVE  UNCHANGED placing
  <1>1. CASE (\E x \in Requests[s] : OpenStream(s, x)) \/ Takes(s) \/ GiveUp(s)
    BY <1>1 DEF OpenStream, Takes, GiveUp, TakeReply, TakeMutation, UpstreamResponds,
       TakeResponse, FinishResponse, settings
  <1>2. CASE Handles(s)
    BY <1>2 DEF Handles, OnRequestHeaders, OnRequestBody, OnRequestTrailers,
       OnResponseHeaders, OnResponseBody, OnResponseTrailers, Observing, Observed,
       DecisionHeader, ResolveNow, Gate, End, settings
  <1>3. CASE Produces(s)
    BY <1>3 DEF Produces, Acknowledged, NotAcknowledged, Produced, settings
  <1>4. QED
    BY <1>1, <1>2, <1>3 DEF Works

\* Steps that begin no reply, or leave one as it is.
LEMMA StepWeighs ==
    ASSUME Mapped, NoneIsNoVerdict, Balanced, Weighs, [Next]_vars
    PROVE  Weighs'
  <1>1. Inv /\ \A s \in Streams : Agree(envoy[s], task[s]) /\ Weighed(s)
    BY DEF Mapped, Weighs
  <1>2. CASE UNCHANGED vars
    BY <1>1, <1>2 DEF vars, placing, Weighs, Weighed, LookedInv, Fresh, ClusterFor
  <1>3. CASE Move /\ UNCHANGED <<sink, envoy, task, metrics, emit>>
    BY <1>1, <1>3, MovesWeigh DEF Weighs
  <1>4. ASSUME NEW s \in Streams,
               \/ \E x \in Requests[s] : OpenStream(s, x)
               \/ Works(s) \/ GiveUp(s)
        PROVE  Weighs'
    <2>1. \A r \in Streams \ {s} : envoy'[r] = envoy[r] /\ task'[r] = task[r]
      BY <1>4, StepGrows
    <2>2. UNCHANGED placing
      BY <1>4, Stays DEF Mapped
    <2>3. \A r \in Streams \ {s} : Weighed(r)'
      BY <1>1, <2>1, <2>2 DEF Weighed, LookedInv, Fresh, ClusterFor, placing
    <2>4. ASSUME Weighed(s)' PROVE Weighs'
      BY <2>3, <2>4 DEF Weighs
    <2>5. CASE Decides(s)
      <3>1. ~Reserved(envoy[s].x.raw.path)
        BY <2>5, DecidesUnreserved
      <3>2. envoy'[s].x = envoy[s].x
        BY <1>1, <2>5, TaskLeaves DEF Decides, Handles
      <3>3. QED
        BY <2>4, <3>1, <3>2 DEF Weighed, Reserved
    <2>6. CASE PassesOn(s)
      BY <1>1, <2>4, <2>6, PassingLeaves DEF Weighed
    <2>7. CASE Takes(s) \/ GiveUp(s)
      <3>1. /\ envoy'[s].x = envoy[s].x
            /\ task'[s].pc = "observing" =>
                   task[s].pc = "observing" /\ task'[s].seen = task[s].seen
        BY <1>1, <2>7, EnvoyLeaves
      <3>2. Weighed(s)'
        BY <1>1, <2>2, <3>1 DEF Weighed, LookedInv, Fresh, ClusterFor, placing
      <3>3. QED
        BY <2>4, <3>2
    <2>8. CASE Replies(s)
      BY <1>1, <2>4, <2>8, RepliesWeigh
    <2>9. CASE \E x \in Requests[s] : OpenStream(s, x)
      <3>1. task'[s].pc # "observing"
        <4>1. PICK message :
                  task' = [task EXCEPT ![s] = [@ EXCEPT !.pc = "reading", !.inbox = message]]
          BY <2>9 DEF OpenStream, Await
        <4> DEFINE u == [task[s] EXCEPT !.pc = "reading", !.inbox = message]
        <4>2. IsRecord(task[s], TaskFields) /\ IsRecord(task, Streams)
          BY <1>1 DEF Inv, Pair
        <4>3. u.pc = "reading"
          BY <4>2 DEF IsRecord, TaskFields
        <4>4. task'[s] = u
          BY <4>1, <4>2 DEF IsRecord
        <4>5. QED
          <5> HIDE DEF u
          <5> QED
            BY <4>3, <4>4
      <3>2. QED
        BY <2>4, <3>1 DEF Weighed
    <2>10. QED
      BY <1>4, <2>5, <2>6, <2>7, <2>8, <2>9
         DEF Works, Handles, Decides, PassesOn, Replies
  <1>5. QED
    BY <1>2, <1>3, <1>4 DEF Next

\* Whatever moves between the two questions a dry run asks, the route it promises a
\* write is its tenant's at the moment of the promise, and not in cutover
\* (Filter::explain, for any streams, requests and moves).
THEOREM PromisesHeld ==
    ASSUME NoneIsNoVerdict, IsFiniteSet(Streams)
    PROVE  Spec => ExplainsGated
  <1> DEFINE Held(s) ==
          LET was == task[s]
              now == task'[s].verdict
          IN  /\ was.pc = "observing" /\ now # None /\ Explains(was.headers.raw.path)
              /\ now.code.to = "route" /\ IsWriteRequest(Target(was.headers))
              => MeetsPlacement(was.seen, was.seen.r)
  <1>1. Init => Mapped /\ Balanced /\ Weighs
    <2> SUFFICES ASSUME Init PROVE Weighs
      BY BooksOpen
    <2>1. \A s \in Streams : task[s].pc = "none"
      BY DEF Init, NoTask
    <2>2. QED
      BY <2>1 DEF Weighs, Weighed
  <1>2. Mapped /\ Balanced /\ Weighs /\ [Next]_vars => Mapped' /\ Balanced' /\ Weighs'
    BY StepMaps, StepBooks, StepWeighs
  <1>3. ASSUME Mapped, Balanced, Weighs, [Next]_vars PROVE [\A s \in Streams : Held(s)]_vars
    <2> SUFFICES ASSUME NEW s \in Streams, Next PROVE Held(s)
      BY <1>3
    <2> DEFINE t == task[s]
    <2> SUFFICES ASSUME t.pc = "observing", task'[s].verdict # None,
                        Explains(t.headers.raw.path),
                        task'[s].verdict.code.to = "route", IsWriteRequest(Target(t.headers))
                 PROVE  MeetsPlacement(t.seen, t.seen.r)
      OBVIOUS
    <2>1. /\ Inv /\ IsRecord(t, TaskFields) /\ IsRecord(task, Streams)
          /\ t.verdict = None /\ t.headers = Headers(envoy[s].x)
          /\ envoy[s].x \in Requests[s] /\ envoy[s].pc # "idle" /\ t.inbox = None
      BY <1>3 DEF Mapped, Inv, Pair, Agree, Unheard, HasHeaders, Busy
    <2>2. Observed(s)
      <3>1. task'[s].verdict # t.verdict
        BY <2>1
      <3>2. ASSUME NEW r \in Streams, \/ \E x \in Requests[r] : OpenStream(r, x)
                                      \/ Works(r) \/ GiveUp(r)
            PROVE  r = s
        BY <1>3, <3>1, <3>2, StepGrows
      <3>3. (\E x \in Requests[s] : OpenStream(s, x)) \/ Works(s) \/ GiveUp(s)
        BY <3>1, <3>2 DEF Next
      <3>4. ~(Takes(s) \/ GiveUp(s))
        BY <2>1, <3>1, EnvoyLeaves
      <3>5. ~Observing(s)
        <4> SUFFICES ASSUME Observing(s) PROVE FALSE
          OBVIOUS
        <4>1. PICK seen : task' = [task EXCEPT ![s].seen = seen]
          BY DEF Observing
        <4>2. task'[s].verdict = t.verdict
          BY <2>1, <4>1 DEF IsRecord, TaskFields
        <4>3. QED
          BY <3>1, <4>2
      <3>6. QED
        BY <2>1, <3>3, <3>4, <3>5
           DEF OpenStream, Works, Handles, Produces, Acknowledged, NotAcknowledged, Produced,
               OnRequestHeaders, OnRequestBody, OnRequestTrailers, OnResponseHeaders,
               OnResponseBody, OnResponseTrailers, Reads, DecisionHeader, ResolveNow, Gate, End
    <2> DEFINE reply == Reply(t.headers, t.seen)
    <2>3. task'[s].verdict = reply
      <3> DEFINE told == Told(t, reply)
                 pc == IF Closed(s) THEN "ended" ELSE "reading"
                 u == [told EXCEPT !.inbox = None, !.pc = pc]
      <3>1. task' = [task EXCEPT ![s] = u]
        BY <2>2 DEF Observed, SendReply, Send
      <3>2. IsRecord(told, TaskFields) /\ told.verdict = reply
        BY <2>1, ToldIs
      <3>3. u.verdict = reply
        <4> HIDE DEF told, reply, pc
        <4> QED
          BY <3>2 DEF IsRecord, TaskFields
      <3>4. task'[s] = u
        BY <2>1, <3>1 DEF IsRecord
      <3>5. QED
        <4> HIDE DEF u, reply
        <4> QED
          BY <3>3, <3>4
    <2>4. reply = Immediate(200, Explanation(t.headers, t.seen))
      BY ExplainReplies
    <2>5. Explanation(t.headers, t.seen).to = "route"
      <3> HIDE DEF reply
      <3> QED
        BY <2>3, <2>4 DEF Immediate
    <2>6. t.headers.raw.method \in Methods
      BY <2>5 DEF Explanation, BadMethod, Immediate
    <2>7. t.seen # None
      <3>1. Glances(t.headers, t.seen) = {}
        BY <2>2 DEF Observed
      <3>2. QED
        BY <2>6, <3>1, ExplainReplies
    <2>8. LookedInv(t.seen)
      <3>1. t.headers.raw.path = envoy[s].x.raw.path
        BY <2>1, HeadersPath
      <3>2. QED
        BY <1>3, <2>7, <3>1 DEF Weighs, Weighed
    <2>9. QED
      BY <2>5, <2>6, <2>8, PromisesGated
  <1>4. QED
    BY <1>1, <1>2, <1>3, PTL DEF Spec, ExplainsGated
=============================================================================
