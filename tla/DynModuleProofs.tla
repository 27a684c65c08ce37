--------------------------- MODULE DynModuleProofs ---------------------------
(***************************************************************************)
(* Proofs about the dynamic-module backend, for any streams, workers,      *)
(* requests and moves of tenants: callbacks exclude each other on their    *)
(* worker, a write's decision is for the placement of its moment, the two  *)
(* routes through the code part company only over a move, what clients see *)
(* is one exchange each, the counters and a scrape of them tell what they  *)
(* saw, no stream is set back or stuck, and what an operator is told of    *)
(* the directive or of a route is so.                                      *)
(***************************************************************************)
EXTENDS DynModuleClaims, BackendProofs

StreamFields == {"pc", "worker", "x", "committed", "seen", "looked", "glanced", "verdict",
                 "upstream", "status", "before"}
RawFields    == {"method", "path", "header", "presented", "principal", "body"}

\* The phases before anything is decided.
Undecided == {"opened", "buffering", "resolving", "gating"}

\* A cluster committed at the header phase was the tenant's at the moment of `seen`.
CommitInv(t) ==
    t.committed # None =>
        LET p == Asking(Req(t))
        IN  p \in Partitions /\ Fresh(p, t.seen[p], t.committed)

\* If the placement has not changed in between, the two routes agree.
Agreed(t) ==
    t.looked.r.ok /\ t.committed # None /\ t.looked.epoch = t.seen[t.looked.r.partition]
        => t.committed = t.looked.r.cluster

\* What the router was asked was about the request's tenant.
Concerns(t) == t.looked.r.ok => t.looked.r.partition = Asking(Req(t))

\* What holds of one stream by itself.
StreamInv(s, t) ==
    /\ IsRecord(t, StreamFields)
    /\ t.pc \in Running \cup
           {"idle", "opened", "buffering", "decided", "upstream", "responding", "closed"}
    /\ t.pc # "idle" => t.x \in Requests[s]
    /\ t.pc = "producing" => t.x.async
    /\ t.pc \in {"resolving", "gating", "producing"} => (t.x.async => sink)
    /\ t.pc \in Undecided \cup {"idle", "observing"} => t.upstream = None
    /\ t.pc = "observing" => Ordered(t.x, t.glanced)
    /\ t.pc = "producing" => t.upstream = None /\ t.verdict.to # "local"
    /\ t.pc = "decided" => t.upstream = None /\ (t.status = 0 => t.verdict.to # "local")
    /\ t.upstream # None => t.verdict.to # "local"
    /\ t.pc \in {"idle", "opened"} => t.committed = None
    /\ t.pc \in Undecided => CommitInv(t)
    /\ t.pc = "gating" => LookedInv(t.looked) /\ Agreed(t) /\ Concerns(t)

OneCallback ==
    \A s, t \in Streams :
        s # t /\ stream[s].worker = stream[t].worker =>
            ~(stream[s].pc \in Running /\ stream[t].pc \in Running)

Inv ==
    /\ PlacingInv
    /\ Surface
    /\ IsRecord(stream, Streams)
    /\ \A s \in Streams : StreamInv(s, stream[s])
    /\ OneCallback

-----------------------------------------------------------------------------
\* What the filter is asked about, at the headers and with the body.
LEMMA BuiltIsRequest ==
    ASSUME NEW s \in Streams, NEW x \in Requests[s], NEW t, t.x = x
    PROVE  /\ IsRecord(Req(t), RawFields) /\ NamesTenant(Req(t))
           /\ x.orders \in Seq(BOOLEAN)
  <1>1. /\ IsRecord(x, RequestFields) /\ x.orders \in Seq(BOOLEAN)
        /\ IsRecord(x.raw, RawFields) /\ NamesTenant(BuildRequest(x).raw)
    BY RequestsAssumption DEF IsRequest, RawFields
  <1>2. BuildRequest(x).raw = [x.raw EXCEPT !.presented = FALSE, !.principal = None]
    BY <1>1 DEF BuildRequest, IsRecord, RequestFields
  <1>3. IsRecord(BuildRequest(x).raw, RawFields)
    BY <1>1, <1>2 DEF IsRecord, RawFields
  <1>4. QED
    BY <1>1, <1>3 DEF Req

\* A request's tenant is a tenant there is, or none, and the same at both phases.
LEMMA SameTenant ==
    ASSUME PlacingInv, NEW s \in Streams, NEW t, t.x \in Requests[s]
    PROVE  /\ Asking(Req(t)) \in Partitions \cup {None}
           /\ Asking([Req(t) EXCEPT !.body = None]) = Asking(Req(t))
  <1>1. IsRecord(Req(t), RawFields) /\ NamesTenant(Req(t))
    BY BuiltIsRequest
  <1>2. Req(t) = [Req(t) EXCEPT !.body = Req(t).body]
    BY <1>1 DEF IsRecord, RawFields
  <1>3. Asking(Req(t)) \in Partitions \cup {None}
    BY <1>1, <1>2, TenantNamed DEF RawFields
  <1>4. Asking([Req(t) EXCEPT !.body = None]) = Asking(Req(t))
    BY <1>1, TenantNamed DEF RawFields
  <1>5. QED
    BY <1>3, <1>4

\* A step of one stream keeps the invariant if it keeps it of that stream, and does
\* not begin a callback where one is under way.
LEMMA OneStream ==
    ASSUME Inv, NEW s \in Streams, NEW t, UNCHANGED <<placing, sink>>,
           Becomes(s, t), Surface', StreamInv(s, t),
           t.pc \in Running => /\ t.worker = stream[s].worker
                               /\ stream[s].pc \in Running \/ Idling(stream[s].worker)
    PROVE  Inv' /\ stream'[s] = t /\ \A r \in Streams \ {s} : stream'[r] = stream[r]
  <1>1. IsRecord(stream', Streams) /\ stream'[s] = t
    BY DEF Inv, IsRecord, Becomes
  <1>2. \A r \in Streams \ {s} : stream'[r] = stream[r]
    BY DEF Inv, IsRecord, Becomes
  <1>3. cfg' = cfg /\ epoch' = epoch /\ sink' = sink
    BY DEF placing
  <1>4. PlacingInv'
    BY <1>3 DEF Inv, PlacingInv
  <1>5. ASSUME NEW r \in Streams PROVE StreamInv(r, stream[r])'
    <2>1. StreamInv(r, stream'[r])
      BY <1>1, <1>2 DEF Inv
    <2>2. QED
      BY <1>3, <2>1, SMTT(60)
         DEF StreamInv, CommitInv, Agreed, Concerns, Asking, LookedInv, Fresh
  <1>6. OneCallback'
    BY <1>1, <1>2 DEF Inv, OneCallback, Idling
  <1>7. QED
    BY <1>1, <1>2, <1>4, <1>5, <1>6 DEF Inv

\* A reply of the filter's own decides the request (SendResponse).
LEMMA ResponseKeeps ==
    ASSUME Inv, NEW s \in Streams, NEW t, NEW reply, SendResponse(s, t, reply),
           IsRecord(t, StreamFields), t.x \in Requests[s], t.upstream = None,
           reply.to = "local", HasStatus(reply),
           UNCHANGED <<placing, sink>>, Surface'
    PROVE  /\ Inv' /\ stream'[s].verdict = reply /\ stream'[s].pc = "decided"
           /\ \A r \in Streams \ {s} : stream'[r] = stream[r]
  <1> DEFINE t2 == [Told(t, reply) EXCEPT !.pc = "decided", !.status = reply.status]
  <1>1. /\ IsRecord(t2, StreamFields) /\ t2.pc = "decided" /\ t2.status = reply.status
        /\ t2.verdict = reply /\ t2.x = t.x /\ t2.upstream = None
    BY DEF Told, IsRecord, StreamFields
  <1>2. StreamInv(s, t2) /\ t2.pc \notin Running
    <2> HIDE DEF t2
    <2> QED
      BY <1>1 DEF StreamInv, HasStatus, Undecided, Running
  <1>3. Becomes(s, t2)
    BY DEF SendResponse
  <1>4. QED
    <2> HIDE DEF t2
    <2> QED
      BY <1>1, <1>2, <1>3, OneStream

\* The filter's word is carried out (Conclude).
LEMMA ConcludeKeeps ==
    ASSUME Inv, NEW s \in Streams, NEW t, NEW verdict, Conclude(s, t, verdict),
           IsRecord(t, StreamFields), t.x \in Requests[s], t.upstream = None,
           HasStatus(verdict), verdict.to # "local" /\ t.x.async => sink,
           t.worker = stream[s].worker,
           stream[s].pc \in Running \/ Idling(stream[s].worker),
           UNCHANGED settings
    PROVE  /\ Inv' /\ stream'[s].verdict = verdict /\ stream'[s].pc # "gating"
           /\ \A r \in Streams \ {s} : stream'[r] = stream[r]
  <1> DEFINE told == Told(t, verdict)
  <1>1. Surface'
    BY Counting DEF Inv, Conclude, Counters, settings
  <1>2. /\ IsRecord(told, StreamFields) /\ told.verdict = verdict /\ told.x = t.x
        /\ told.upstream = None /\ told.worker = t.worker /\ UNCHANGED <<placing, sink>>
    BY DEF Told, IsRecord, StreamFields, settings
  <1>3. CASE verdict.to = "local"
    BY <1>1, <1>2, <1>3, ResponseKeeps DEF Conclude
  <1>4. CASE /\ verdict.to # "local" /\ t.x.async
             /\ Becomes(s, [told EXCEPT !.pc = "producing"])
    <2> DEFINE t2 == [told EXCEPT !.pc = "producing"]
    <2>1. /\ IsRecord(t2, StreamFields) /\ t2.pc = "producing" /\ t2.x = t.x
          /\ t2.verdict = verdict /\ t2.upstream = None /\ t2.worker = t.worker
      <3> HIDE DEF told
      <3> QED
        BY <1>2 DEF IsRecord, StreamFields
    <2>2. StreamInv(s, t2)
      <3> HIDE DEF t2
      <3> QED
        BY <1>4, <2>1 DEF StreamInv, Undecided, Running
    <2>3. Becomes(s, t2)
      BY <1>4
    <2>4. QED
      <3> HIDE DEF t2
      <3> QED
        BY <1>1, <1>2, <2>1, <2>2, <2>3, OneStream
  <1>5. CASE /\ verdict.to # "local"
             /\ Becomes(s, [told EXCEPT !.pc = "decided"])
    <2> DEFINE t2 == [told EXCEPT !.pc = "decided"]
    <2>1. /\ IsRecord(t2, StreamFields) /\ t2.pc = "decided" /\ t2.x = t.x
          /\ t2.verdict = verdict /\ t2.upstream = None
      <3> HIDE DEF told
      <3> QED
        BY <1>2 DEF IsRecord, StreamFields
    <2>2. StreamInv(s, t2) /\ t2.pc \notin Running
      <3> HIDE DEF t2
      <3> QED
        BY <1>5, <2>1 DEF StreamInv, Undecided, Running
    <2>3. Becomes(s, t2)
      BY <1>5
    <2>4. QED
      <3> HIDE DEF t2
      <3> QED
        BY <1>1, <1>2, <2>1, <2>2, <2>3, OneStream
  <1>6. QED
    BY <1>3, <1>4, <1>5 DEF Conclude

\* A request goes to the router only if an async write could be produced (Process).
LEMMA ProcessKeeps ==
    ASSUME Inv, NEW s \in Streams, Process(s, stream[s]),
           stream[s].pc \in {"opened", "buffering"}, Idling(stream[s].worker),
           UNCHANGED settings
    PROVE  /\ Inv' /\ stream'[s].pc # "gating"
           /\ \A r \in Streams \ {s} : stream'[r] = stream[r]
  <1> DEFINE t == stream[s]
             early == Early(cfg, sink, t.x.async, Req(t))
             t2 == [t EXCEPT !.pc = "resolving"]
  <1>1. /\ StreamInv(s, t) /\ IsRecord(t, StreamFields) /\ t.x \in Requests[s]
        /\ t.upstream = None /\ UNCHANGED <<placing, sink, emit>>
    BY DEF Inv, StreamInv, Undecided, settings
  <1>2. /\ HasStatus(early)
        /\ early.to # "local" /\ t.x.async => sink
    <2>1. HasStatus(early)
      BY RepliesHaveStatus
    <2>2. ASSUME t.x.async, ~sink PROVE early.to = "local"
      BY <2>2 DEF Early, Immediate
    <2>3. QED
      <3> HIDE DEF early
      <3> QED
        BY <2>1, <2>2
  <1>3. CASE Conclude(s, t, early)
    <2> HIDE DEF early
    <2> QED
      BY <1>1, <1>2, <1>3, ConcludeKeeps
  <1>4. CASE early = Pass /\ Uncounted /\ Becomes(s, t2)
    <2>1. IsRecord(t2, StreamFields) /\ t2 = [t EXCEPT !.pc = "resolving"]
      BY <1>1 DEF IsRecord, StreamFields
    <2>2. /\ t2.pc = "resolving" /\ t2.x = t.x /\ t2.upstream = t.upstream
          /\ t2.committed = t.committed /\ t2.seen = t.seen
          /\ t2.worker = t.worker /\ Req(t2) = Req(t)
      BY <1>1 DEF Req, IsRecord, StreamFields
    <2>3. t.x.async => sink
      BY <1>2, <1>4 DEF Pass
    <2>4. StreamInv(s, t2)
      <3> HIDE DEF t2, early
      <3> QED
        BY <1>1, <2>1, <2>2, <2>3 DEF StreamInv, Undecided, Running, CommitInv
    <2>5. Surface'
      BY <1>1, <1>4, Counting DEF Inv
    <2>6. QED
      <3> HIDE DEF t2, early
      <3> QED
        BY <1>1, <1>4, <2>2, <2>4, <2>5, OneStream
  <1>5. QED
    BY <1>3, <1>4 DEF Process

\* The cluster committed at the header phase is the tenant's of that moment (RouteNow).
LEMMA RouteKeeps ==
    ASSUME Inv, NEW s \in Streams, RouteNow(s, stream[s]), stream[s].pc = "opened",
           UNCHANGED settings
    PROVE  /\ Inv' /\ \A r \in Streams \ {s} : stream'[r] = stream[r]
  <1> DEFINE t == stream[s]
             route == RouteHeaders(cfg, [Req(t) EXCEPT !.body = None])
             commits == IF route.to = "cluster" THEN route.cluster ELSE None
             t2 == [t EXCEPT !.pc = "buffering", !.committed = commits, !.seen = epoch]
  <1>1. /\ IsRecord(t, StreamFields) /\ t.x \in Requests[s] /\ t.upstream = None
        /\ Surface' /\ PlacingInv /\ UNCHANGED <<placing, sink>>
    BY Counting DEF Inv, StreamInv, Undecided, RouteNow, settings
  <1>2. CASE route.to = "local" /\ SendResponse(s, t, route)
    <2>1. HasStatus(route)
      BY RepliesHaveStatus
    <2>2. QED
      <3> HIDE DEF route
      <3> QED
        BY <1>1, <1>2, <2>1, ResponseKeeps
  <1>3. CASE Becomes(s, t2)
    <2>1. /\ IsRecord(t2, StreamFields) /\ t2.pc = "buffering" /\ t2.x = t.x
          /\ t2.upstream = None /\ t2.committed = commits /\ t2.seen = epoch
          /\ Req(t2) = Req(t)
      <3> HIDE DEF commits
      <3> QED
        BY <1>1 DEF Req, IsRecord, StreamFields
    <2>2. ASSUME commits # None
          PROVE  /\ Asking(Req(t)) \in Partitions
                 /\ Fresh(Asking(Req(t)), epoch[Asking(Req(t))], commits)
      <3> DEFINE ctx == CtxOf(RewriteForPath(cfg, [Req(t) EXCEPT !.body = None]))
                 r == Resolve(cfg, ctx)
      <3>1. route.to = "cluster" /\ commits = route.cluster
        BY <2>2
      <3>2. route = [to |-> "cluster", cluster |-> r.cluster] /\ r.ok
        BY <3>1 DEF RouteHeaders, ResolveTarget, BadMethod, Immediate
      <3>3. /\ ResolvePartition(cfg, ctx) # None
            /\ r.cluster = ClusterFor(cfg, ResolvePartition(cfg, ctx))
        BY <3>2 DEF Resolve, Unresolved
      <3>4. Asking(Req(t)) = ResolvePartition(cfg, ctx)
        BY <1>1, SameTenant DEF Asking
      <3>5. Asking(Req(t)) \in Partitions
        BY <1>1, <3>3, <3>4, SameTenant
      <3>6. commits = ClusterFor(cfg, Asking(Req(t)))
        BY <3>1, <3>2, <3>3, <3>4
      <3>7. epoch[Asking(Req(t))] \in Nat
        BY <1>1, <3>5 DEF PlacingInv
      <3>8. QED
        <4> HIDE DEF commits
        <4> QED
          BY <3>5, <3>6, <3>7 DEF Fresh
    <2>3. CommitInv(t2)
      <3> HIDE DEF t2, commits
      <3> QED
        BY <2>1, <2>2 DEF CommitInv
    <2>4. StreamInv(s, t2) /\ t2.pc \notin Running
      <3> HIDE DEF t2
      <3> QED
        BY <1>1, <2>1, <2>3 DEF StreamInv, Undecided, Running
    <2>5. QED
      <3> HIDE DEF t2
      <3> QED
        BY <1>1, <1>3, <2>4, OneStream
  <1>4. QED
    BY <1>2, <1>3 DEF RouteNow

-----------------------------------------------------------------------------
(* The actions.                                                             *)

\* The two callbacks a request comes with.
LEMMA CallbacksKeep ==
    ASSUME Inv, NEW s \in Streams, OnRequestHeaders(s) \/ OnRequestBody(s)
    PROVE  /\ Inv' /\ stream[s].pc # "gating"
           /\ \A r \in Streams \ {s} : stream'[r] = stream[r]
  <1> DEFINE t == stream[s]
  <1>0. stream[s].pc # "gating"
    BY DEF OnRequestHeaders, OnRequestBody
  <1>1. CASE OnRequestBody(s)
    BY <1>1, ProcessKeeps DEF OnRequestBody
  <1>2. CASE OnRequestHeaders(s)
    <2>1. /\ t.pc = "opened" /\ Idling(stream[s].worker) /\ UNCHANGED <<settings, placing, sink, emit>>
          /\ IsRecord(t, StreamFields) /\ t.x \in Requests[s] /\ t.upstream = None
          /\ t.committed = None
      BY <1>2 DEF OnRequestHeaders, Inv, StreamInv, Undecided, settings
    <2>2. CASE Uncounted /\ BeginReply(s, t)
      <3> DEFINE glanced == Unseen(t.x)
                 t2 == [t EXCEPT !.pc = "observing", !.glanced = glanced]
      <3>1. /\ IsRecord(t2, StreamFields) /\ t2.pc = "observing" /\ t2.x = t.x
            /\ t2.upstream = None /\ t2.glanced = glanced /\ t2.worker = t.worker
        <4> HIDE DEF glanced
        <4> QED
          BY <2>1 DEF IsRecord, StreamFields
      <3>2. Ordered(t.x, glanced)
        BY <2>1, BuiltIsRequest, BeginsOrdered
      <3>3. StreamInv(s, t2)
        <4> HIDE DEF t2, glanced
        <4> QED
          BY <2>1, <3>1, <3>2 DEF StreamInv, Undecided, Running, CommitInv
      <3>4. Becomes(s, t2) /\ Surface'
        BY <2>1, <2>2, Counting DEF BeginReply, Inv
      <3>5. QED
        <4> HIDE DEF t2, glanced
        <4> QED
          BY <1>0, <2>1, <3>1, <3>3, <3>4, OneStream
    <2>3. CASE Process(s, t)
      BY <2>1, <2>3, ProcessKeeps
    <2>4. CASE RouteNow(s, t)
      BY <2>1, <2>4, RouteKeeps
    <2>5. CASE Uncounted /\ Becomes(s, [t EXCEPT !.pc = "buffering"])
      <3> DEFINE t2 == [t EXCEPT !.pc = "buffering"]
      <3>1. /\ IsRecord(t2, StreamFields) /\ t2.pc = "buffering" /\ t2.x = t.x
            /\ t2.upstream = None /\ t2.committed = None
        BY <2>1 DEF IsRecord, StreamFields
      <3>2. StreamInv(s, t2) /\ t2.pc \notin Running
        <4> HIDE DEF t2
        <4> QED
          BY <2>1, <3>1 DEF StreamInv, Undecided, Running, CommitInv
      <3>3. Surface'
        BY <2>1, <2>5, Counting DEF Inv
      <3>4. Becomes(s, t2)
        BY <2>5
      <3>5. QED
        <4> HIDE DEF t2
        <4> QED
          BY <1>0, <2>1, <3>2, <3>3, <3>4, OneStream
    <2>6. QED
      BY <1>2, <2>1, <2>2, <2>3, <2>4, <2>5 DEF OnRequestHeaders
  <1>3. QED
    BY <1>1, <1>2

\* The router's answer may be held against the gate, and against the header phase.
LEMMA ResolveKeeps ==
    ASSUME Inv, NEW s \in Streams, ResolveNow(s)
    PROVE  /\ Inv' /\ stream[s].pc # "gating"
           /\ \A r \in Streams \ {s} : stream'[r] = stream[r]
  <1> DEFINE req == Req(stream[s])
             looked == Look(req)
             t2 == [stream[s] EXCEPT !.pc = "gating", !.looked = looked]
  <1>1. /\ StreamInv(s, stream[s]) /\ IsRecord(stream[s], StreamFields)
        /\ stream[s].pc = "resolving" /\ stream[s].x \in Requests[s]
        /\ CommitInv(stream[s]) /\ PlacingInv
        /\ UNCHANGED <<placing, sink>> /\ Surface'
    BY DEF Inv, StreamInv, Undecided, ResolveNow, settings, Surface
  <1>2. /\ LookedInv(looked)
        /\ looked.r.ok => /\ looked.r.partition = Asking(req)
                          /\ looked.r.cluster = ClusterFor(cfg, Asking(req))
                          /\ looked.epoch = epoch[Asking(req)]
    BY <1>1, SameTenant, LookIsFresh
  <1>3. /\ IsRecord(t2, StreamFields) /\ t2.pc = "gating" /\ t2.looked = looked
        /\ t2.x = stream[s].x /\ t2.upstream = stream[s].upstream
        /\ t2.committed = stream[s].committed /\ t2.seen = stream[s].seen
        /\ t2.worker = stream[s].worker
    <2> HIDE DEF looked
    <2> QED
      BY <1>1 DEF IsRecord, StreamFields
  <1>8. Req(t2) = req
    BY <1>3 DEF Req
  <1>4. Agreed(t2)
    <2> HIDE DEF t2, looked
    <2> QED
      BY <1>1, <1>2, <1>3 DEF Agreed, CommitInv, Fresh
  <1>5. StreamInv(s, t2)
    <2> HIDE DEF t2, looked
    <2>1. Concerns(t2)
      BY <1>2, <1>3, <1>8 DEF Concerns
    <2> QED
      BY <1>1, <1>2, <1>3, <1>4, <1>8, <2>1 DEF StreamInv, Undecided, Running, CommitInv
  <1>6. Becomes(s, t2) /\ stream[s].pc \in Running
    BY <1>1 DEF Becomes, ResolveNow, Running
  <1>7. QED
    <2> HIDE DEF t2
    <2> QED
      BY <1>1, <1>3, <1>5, <1>6, OneStream

\* What the gate lets go is for the placement of the moment, and for the committed
\* cluster unless the tenant was moved.
GateSound(s) ==
    LET was == stream[s]
        t   == stream'[s]
    IN  t.verdict.to = "upstream" =>
            /\ was.looked.r.ok /\ \E ops : t.verdict = Upstream(was.looked.r, ops)
            /\ IsWriteRequest(RewriteForPath(cfg, Req(was))) =>
                   MeetsPlacement(was.looked, t.verdict)
            /\ was.committed \notin {None, t.verdict.cluster} =>
                   was.looked.epoch # was.seen[was.looked.r.partition]

\* The gate's own step (Gate).
LEMMA GateKeeps ==
    ASSUME Inv, NEW s \in Streams, Gate(s)
    PROVE  Inv' /\ GateSound(s) /\ \A r \in Streams \ {s} : stream'[r] = stream[r]
  <1> DEFINE t == stream[s]
             verdict == Verdict(cfg, Req(t), t.looked.r, Admits(t.looked))
  <1>1. /\ IsRecord(t, StreamFields) /\ t.pc = "gating" /\ t.x \in Requests[s]
        /\ t.upstream = None /\ (t.x.async => sink)
        /\ LookedInv(t.looked) /\ Agreed(t) /\ t.pc \in Running
        /\ UNCHANGED settings
    BY DEF Gate, Inv, StreamInv, Undecided, Running
  <1>2. HasStatus(verdict)
    BY RepliesHaveStatus
  <1>3. Conclude(s, t, verdict)
    BY DEF Gate
  <1>4. /\ Inv' /\ stream'[s].verdict = verdict
        /\ \A r \in Streams \ {s} : stream'[r] = stream[r]
    <2> HIDE DEF verdict
    <2> QED
      BY <1>1, <1>2, <1>3, ConcludeKeeps
  <1>5. ASSUME verdict.to = "upstream", IsWriteRequest(RewriteForPath(cfg, Req(t)))
        PROVE  MeetsPlacement(t.looked, verdict)
    BY <1>1, <1>5, GateHolds
  <1>6. ASSUME verdict.to = "upstream"
        PROVE  /\ t.looked.r.ok /\ verdict.cluster = t.looked.r.cluster
               /\ \E ops : verdict = Upstream(t.looked.r, ops)
    BY <1>6, VerdictForwards
  <1>7. GateSound(s)
    <2> HIDE DEF verdict
    <2> QED
      BY <1>1, <1>4, <1>5, <1>6 DEF GateSound, Agreed
  <1>8. QED
    BY <1>4, <1>7

\* A stream's place and its status change, and nothing else of it.
Moved(t, pc, status) == [t EXCEPT !.pc = pc, !.status = status]

\* What such a change leaves alone.
LEMMA MovedKeeps ==
    ASSUME NEW t, IsRecord(t, StreamFields), NEW pc, NEW status
    PROVE  /\ IsRecord(Moved(t, pc, status), StreamFields)
           /\ Moved(t, pc, status).pc = pc /\ Moved(t, pc, status).status = status
           /\ Moved(t, pc, status).x = t.x
           /\ Moved(t, pc, status).upstream = t.upstream
           /\ Moved(t, pc, status).verdict = t.verdict
           /\ Moved(t, pc, status).seen = t.seen
  BY DEF Moved, IsRecord, StreamFields

\* A request that is answered, on its way back, or over.
LEMMA MovedSound ==
    ASSUME Inv, NEW s \in Streams, NEW pc, NEW status,
           Becomes(s, Moved(stream[s], pc, status)), stream[s].pc # "idle",
           UNCHANGED <<placing, sink>>, Surface',
           \/ pc \in {"responding", "closed"}
           \/ pc = "decided" /\ status # 0 /\ stream[s].upstream = None
    PROVE  Inv' /\ \A r \in Streams \ {s} : stream'[r] = stream[r]
  <1> DEFINE t == Moved(stream[s], pc, status)
  <1>1. StreamInv(s, stream[s]) /\ IsRecord(stream[s], StreamFields)
    BY DEF Inv, StreamInv
  <1>2. /\ IsRecord(t, StreamFields) /\ t.pc = pc /\ t.status = status
        /\ t.x = stream[s].x /\ t.upstream = stream[s].upstream
        /\ t.verdict = stream[s].verdict
    BY <1>1, MovedKeeps
  <1>3. StreamInv(s, t) /\ t.pc \notin Running
    <2> HIDE DEF t
    <2> QED
      BY <1>1, <1>2 DEF StreamInv, Undecided, Running
  <1>4. Becomes(s, t)
    OBVIOUS
  <1>5. QED
    <2> HIDE DEF t
    <2> QED
      BY <1>3, <1>4, OneStream

\* A reserved path's reply, from its first look to its last (reserved_reply).
LEMMA ObserveKeeps ==
    ASSUME Inv, NEW s \in Streams, Observing(s) \/ Observed(s)
    PROVE  /\ Inv' /\ stream[s].pc # "gating"
           /\ \A r \in Streams \ {s} : stream'[r] = stream[r]
  <1> DEFINE t == stream[s]
  <1>1. /\ t.pc = "observing" /\ IsRecord(t, StreamFields) /\ t.x \in Requests[s]
        /\ t.upstream = None /\ Ordered(t.x, t.glanced) /\ UNCHANGED <<placing, sink>>
        /\ StreamInv(s, t)
    BY DEF Inv, StreamInv, Observing, Observed, settings
  <1>2. CASE Observing(s)
    <2>1. PICK glanced \in Glances(t.x, t.glanced) :
              Becomes(s, [t EXCEPT !.glanced = glanced])
      BY <1>2 DEF Observing
    <2> DEFINE t2 == [t EXCEPT !.glanced = glanced]
    <2>2. /\ IsRecord(t2, StreamFields) /\ t2.pc = "observing" /\ t2.x = t.x
          /\ t2.upstream = None /\ t2.glanced = glanced /\ t2.worker = t.worker
      BY <1>1 DEF IsRecord, StreamFields
    <2>3. Ordered(t.x, glanced)
      BY <1>1, StaysOrdered
    <2>4. StreamInv(s, t2) /\ t.pc \in Running
      <3> HIDE DEF t2
      <3> QED
        BY <1>1, <2>2, <2>3 DEF StreamInv, Undecided, Running, CommitInv
    <2>5. Surface'
      BY <1>1, <1>2, ObeysKeeps DEF Observing, Inv
    <2>6. Becomes(s, t2)
      BY <2>1
    <2>7. QED
      <3> HIDE DEF t2
      <3> QED
        BY <1>1, <2>2, <2>4, <2>5, <2>6, OneStream
  <1>3. CASE Observed(s)
    <2> DEFINE reply == Reply(t.x, t.glanced)
    <2>1. SendResponse(s, t, reply) /\ Surface'
      BY <1>3 DEF Observed, Inv, Surface, settings
    <2>2. reply.to = "local" /\ HasStatus(reply)
      BY DEF Reply, AdminReply, Immediate, HasStatus
    <2>3. QED
      <3> HIDE DEF reply
      <3> QED
        BY <1>1, <2>1, <2>2, ResponseKeeps
  <1>4. QED
    BY <1>2, <1>3

\* The response's headers, with their decision or without it.
LEMMA ResponseHeadersKeep ==
    ASSUME Inv, NEW s \in Streams, OnResponseHeaders(s) \/ DecisionHeader(s)
    PROVE  /\ Inv' /\ stream[s].pc # "gating"
           /\ \A r \in Streams \ {s} : stream'[r] = stream[r]
  <1> DEFINE t == stream[s]
  <1>1. /\ t.pc \in {"upstream", "shaping"} /\ IsRecord(t, StreamFields) /\ StreamInv(s, t)
        /\ UNCHANGED <<placing, sink>> /\ Surface'
    BY DEF Inv, StreamInv, OnResponseHeaders, DecisionHeader, settings, Surface
  <1>2. CASE PassHeaders(s)
    <2> DEFINE ok == 200
    <2>1. \/ Becomes(s, Moved(t, "responding", t.status))
          \/ Becomes(s, Moved(t, "closed", ok))
      <3>1. Moved(t, "responding", t.status) = [t EXCEPT !.pc = "responding"]
        BY <1>1 DEF Moved, IsRecord, StreamFields
      <3>2. Moved(t, "closed", ok) = [t EXCEPT !.pc = "closed", !.status = ok]
        BY DEF Moved
      <3>3. QED
        BY <1>2, <3>1, <3>2 DEF PassHeaders
    <2>2. QED
      <3> HIDE DEF ok
      <3> QED
        BY <1>1, <2>1, MovedSound
  <1>3. CASE OnResponseHeaders(s) /\ Becomes(s, [t EXCEPT !.pc = "shaping"])
    <2> DEFINE t2 == [t EXCEPT !.pc = "shaping"]
    <2>1. /\ IsRecord(t2, StreamFields) /\ t2.pc = "shaping" /\ t2.x = t.x
          /\ t2.upstream = t.upstream /\ t2.verdict = t.verdict /\ t2.worker = t.worker
      BY <1>1 DEF IsRecord, StreamFields
    <2>2. StreamInv(s, t2) /\ Idling(t.worker)
      <3> HIDE DEF t2
      <3> QED
        BY <1>1, <1>3, <2>1 DEF StreamInv, Undecided, Running, OnResponseHeaders
    <2>3. Becomes(s, t2)
      BY <1>3
    <2>4. QED
      <3> HIDE DEF t2
      <3> QED
        BY <1>1, <2>1, <2>2, <2>3, OneStream
  <1>4. QED
    BY <1>2, <1>3 DEF OnResponseHeaders, DecisionHeader

\* Everything that only moves a stream on: arrival, the sink's answer, the way to the
\* upstream and back, and the client's giving up.
LEMMA OthersKeep ==
    ASSUME Inv, NEW s \in Streams,
           \/ \E x \in Requests[s] : Open(s, x)
           \/ Produces(s) \/ Proceed(s) \/ OnResponseBody(s) \/ GiveUp(s)
    PROVE  /\ Inv' /\ stream[s].pc # "gating"
           /\ \A r \in Streams \ {s} : stream'[r] = stream[r]
  <1>0. IsRecord(stream, Streams)
    BY DEF Inv
  <1>1. /\ StreamInv(s, stream[s]) /\ IsRecord(stream[s], StreamFields)
    BY DEF Inv, StreamInv
  <1>2. UNCHANGED <<placing, sink>> /\ Surface'
    <2>1. /\ UNCHANGED metrics \/ \E c \in Counters : Count(c)
          /\ UNCHANGED <<placing, sink, emit>>
      BY DEF Open, Produces, Acknowledged, NotAcknowledged, Produced, Proceed,
             OnResponseBody, GiveUp, settings, Counters
    <2>2. QED
      BY <2>1, Counting DEF Inv, Uncounted
  <1>3. ASSUME NEW t, StreamInv(s, t), Becomes(s, t), t.pc \notin Running
        PROVE  Inv' /\ \A r \in Streams \ {s} : stream'[r] = stream[r]
    BY <1>2, <1>3, OneStream
  <1>4. stream[s].pc # "gating"
    BY DEF Open, Produces, Acknowledged, NotAcknowledged, Produced, Proceed,
           OnResponseBody, GiveUp
  <1>5. CASE \E x \in Requests[s] : Open(s, x)
    <2>1. PICK x \in Requests[s] : Open(s, x)
      BY <1>5
    <2>2. PICK w \in WorkersOf[s] : \E before :
              Becomes(s, [Unused EXCEPT !.pc = "opened", !.worker = w, !.x = x,
                                        !.before = before])
      BY <2>1 DEF Open
    <2>3. PICK before :
              Becomes(s, [Unused EXCEPT !.pc = "opened", !.worker = w, !.x = x,
                                        !.before = before])
      BY <2>2
    <2> DEFINE t == [Unused EXCEPT !.pc = "opened", !.worker = w, !.x = x, !.before = before]
    <2>4. /\ IsRecord(t, StreamFields) /\ t.pc = "opened" /\ t.x = x
          /\ t.upstream = None /\ t.committed = None
      BY DEF Unused, IsRecord, StreamFields
    <2>5. StreamInv(s, t) /\ t.pc \notin Running
      <3> HIDE DEF t
      <3> QED
        BY <2>4 DEF StreamInv, Undecided, Running, CommitInv
    <2>6. QED
      <3> HIDE DEF t
      <3> QED
        BY <1>3, <1>4, <2>3, <2>5 DEF t
  <1>6. CASE Produces(s)
    <2>1. PICK reply \in {Accepted202, Unavailable} :
              /\ stream[s].pc = "producing"
              /\ stream' = [stream EXCEPT ![s].pc = "decided", ![s].status = reply.status]
      BY <1>6 DEF Produces, Acknowledged, NotAcknowledged, Produced
    <2>2. stream[s].upstream = None /\ reply.status # 0
      BY <1>1, <2>1 DEF StreamInv, Accepted202, Unavailable, Immediate
    <2>3. Becomes(s, Moved(stream[s], "decided", reply.status))
      BY <1>0, <2>1 DEF Becomes, Moved, IsRecord
    <2>4. QED
      BY <1>2, <1>4, <2>1, <2>2, <2>3, MovedSound
  <1>7. CASE Proceed(s)
    <2> DEFINE u == Routed(stream[s], stream[s].verdict)
               t == IF stream[s].status # 0 THEN [stream[s] EXCEPT !.pc = "closed"]
                    ELSE [stream[s] EXCEPT !.pc = "upstream", !.upstream = u]
    <2>1. /\ IsRecord(t, StreamFields) /\ t.pc \in {"closed", "upstream"}
          /\ t.x = stream[s].x /\ t.verdict = stream[s].verdict
          /\ t.upstream = stream[s].upstream \/ stream[s].status = 0
      <3> HIDE DEF u
      <3> QED
        BY <1>1 DEF IsRecord, StreamFields
    <2>2. Becomes(s, t) /\ stream[s].pc = "decided"
      BY <1>7 DEF Proceed
    <2>3. StreamInv(s, t) /\ t.pc \notin Running
      <3> HIDE DEF t
      <3> QED
        BY <1>1, <2>1, <2>2 DEF StreamInv, Undecided, Running
    <2>4. QED
      <3> HIDE DEF t
      <3> QED
        BY <1>3, <1>4, <2>2, <2>3
  <1>9. CASE OnResponseBody(s) \/ GiveUp(s)
    <2>1. stream[s].pc # "idle"
      BY <1>9 DEF OnResponseBody, GiveUp
    <2>2. \E status : Becomes(s, Moved(stream[s], "closed", status))
      <3> DEFINE ok == 200
                 timeout == 504
      <3>1. CASE OnResponseBody(s)
        <4>1. Becomes(s, Moved(stream[s], "closed", ok))
          BY <3>1 DEF OnResponseBody, Moved
        <4>2. QED
          BY <4>1
      <3>2. CASE GiveUp(s)
        <4>1. stream' = [stream EXCEPT ![s].pc = "closed", ![s].status = timeout]
          BY <3>2 DEF GiveUp
        <4>2. Becomes(s, Moved(stream[s], "closed", timeout))
          <5> HIDE DEF timeout
          <5> QED
            BY <1>0, <4>1 DEF Becomes, Moved, IsRecord
        <4>3. QED
          BY <4>2
      <3>3. QED
        BY <1>9, <3>1, <3>2
    <2>3. QED
      BY <1>2, <1>4, <2>1, <2>2, MovedSound
  <1>10. QED
    BY <1>5, <1>6, <1>7, <1>9

-----------------------------------------------------------------------------
(* The specification.                                                       *)

\* Before the first request.
LEMMA StartsSound == Init => Inv
  <1> SUFFICES ASSUME Init PROVE Inv
    OBVIOUS
  <1>1. PlacingInv /\ Surface /\ IsRecord(stream, Streams)
    BY PlacingStarts, SurfaceStarts DEF Init, IsRecord
  <1>2. ASSUME NEW s \in Streams PROVE stream[s] = Unused
    BY DEF Init
  <1>3. ASSUME NEW s \in Streams PROVE StreamInv(s, Unused)
    <2>1. IsRecord(Unused, StreamFields)
      BY DEF Unused, IsRecord, StreamFields
    <2>2. QED
      BY <2>1 DEF StreamInv, Unused, Undecided, Running
  <1>4. OneCallback
    BY <1>2 DEF OneCallback, Unused, Running
  <1>5. QED
    BY <1>1, <1>2, <1>3, <1>4 DEF Inv

\* A move disturbs no stream.
LEMMA MoveSound ==
    ASSUME Inv, Move, UNCHANGED <<sink, stream, metrics, emit>>
    PROVE  Inv'
  <1>1. /\ PlacingInv'
        /\ \A p \in Partitions : \A n, cluster :
               Fresh(p, n, cluster) => Fresh(p, n, cluster)'
    BY MoveKeeps DEF Inv
  <1>2. ASSUME NEW s \in Streams PROVE StreamInv(s, stream[s])'
    <2>1. StreamInv(s, stream[s])
      BY DEF Inv
    <2>2. CommitInv(stream[s]) => CommitInv(stream[s])'
      <3>1. Asking(Req(stream[s]))' = Asking(Req(stream[s]))
        BY MoveKeepsTenants DEF Inv
      <3>2. QED
        BY <1>1, <3>1 DEF CommitInv
    <2>3. LookedInv(stream[s].looked) => LookedInv(stream[s].looked)'
      BY <1>1 DEF LookedInv
    <2>4. Concerns(stream[s]) => Concerns(stream[s])'
      BY MoveKeepsTenants DEF Inv, Concerns
    <2>5. QED
      BY <2>1, <2>2, <2>3, <2>4 DEF StreamInv, Agreed
  <1>3. QED
    BY <1>1, <1>2 DEF Inv, OneCallback, Surface

\* A step keeps the invariant, and what leaves the gate is sound.
LEMMA StepSound ==
    ASSUME Inv, [Next]_vars
    PROVE  /\ Inv'
           /\ \A s \in Streams :
                 stream'[s] = stream[s] \/ stream[s].pc # "gating" \/ GateSound(s)
  <1>1. CASE Move /\ UNCHANGED <<sink, stream, metrics, emit>>
    BY <1>1, MoveSound
  <1>2. ASSUME NEW s \in Streams,
               \/ \E x \in Requests[s] : Open(s, x)
               \/ Works(s) \/ Produces(s) \/ GiveUp(s)
        PROVE  /\ Inv' /\ (stream[s].pc # "gating" \/ GateSound(s))
               /\ \A r \in Streams \ {s} : stream'[r] = stream[r]
    <2>1. CASE OnRequestHeaders(s) \/ OnRequestBody(s) \/ ResolveNow(s)
      BY <2>1, CallbacksKeep, ResolveKeeps
    <2>2. CASE Gate(s)
      BY <2>2, GateKeeps
    <2>3. CASE \/ \E x \in Requests[s] : Open(s, x)
               \/ Produces(s) \/ Proceed(s) \/ OnResponseBody(s) \/ GiveUp(s)
      BY <2>3, OthersKeep
    <2>4. CASE Observing(s) \/ Observed(s) \/ OnResponseHeaders(s) \/ DecisionHeader(s)
      BY <2>4, ObserveKeeps, ResponseHeadersKeep
    <2>5. QED
      BY <1>2, <2>1, <2>2, <2>3, <2>4 DEF Works
  <1>3. CASE UNCHANGED vars
    <2>1. /\ cfg' = cfg /\ epoch' = epoch /\ sink' = sink /\ stream' = stream
          /\ metrics' = metrics /\ emit' = emit
      BY <1>3 DEF vars
    <2>2. QED
      BY <2>1, SMTT(60) DEF Inv, Surface, PlacingInv, StreamInv, CommitInv, Agreed,
         Concerns, Asking, LookedInv, Fresh,
                  OneCallback
  <1>4. QED
    BY <1>1, <1>2, <1>3 DEF Next

\* The invariant, in every behaviour.
LEMMA Sound == Spec => []Inv
  BY StartsSound, StepSound, PTL DEF Spec

\* Callbacks exclude each other on their worker, a produce happens only with a sink,
\* and nothing that was refused reaches an upstream (sdk.rs).
THEOREM TypeCorrect == Spec => []TypeOK
  <1>1. Inv => TypeOK
    BY DEF Inv, TypeOK, StreamInv, PlacingInv, Surface, OneCallback, Running
  <1>2. QED
    BY <1>1, Sound, PTL

\* The write gate of handle, whatever happens between its two awaits.
THEOREM WritesHeld == Spec => StaleWritesHeld
  <1> DEFINE Held(s) ==
          LET was == stream[s]
              t   == stream'[s]
          IN  /\ was.pc = "gating" /\ t.pc # "gating" /\ t.verdict.to = "upstream"
              /\ IsWriteRequest(RewriteForPath(cfg, Req(was)))
              => MeetsPlacement(was.looked, t.verdict)
  <1>1. ASSUME Inv, [Next]_vars PROVE [\A s \in Streams : Held(s)]_vars
    BY <1>1, StepSound DEF GateSound
  <1>2. QED
    BY <1>1, Sound, PTL DEF Spec, StaleWritesHeld

\* route_headers and handle name the same cluster unless the tenant was moved between.
THEOREM CommitmentHeld == Spec => SplitOnlyByMove
  <1> DEFINE Held(s) ==
          LET was == stream[s]
              t   == stream'[s]
          IN  /\ was.pc = "gating" /\ t.pc # "gating" /\ t.verdict.to = "upstream"
              /\ was.committed \notin {None, t.verdict.cluster}
              => was.looked.epoch # was.seen[was.looked.r.partition]
  <1>1. ASSUME Inv, [Next]_vars PROVE [\A s \in Streams : Held(s)]_vars
    BY <1>1, StepSound DEF GateSound
  <1>2. QED
    BY <1>1, Sound, PTL DEF Spec, SplitOnlyByMove

\* "Migration between placements is epoch-gated": a write that the gate lets go goes to
\* where its tenant lives, in every behaviour in which no move is completed.  One that is
\* completed between the header phase and the body phase is what the gate does not see,
\* for the cluster committed at the headers stays (route_headers, Routed).
THEOREM GatedUnlessMoved == Spec => (NobodyMoves => EpochGated)
  <1> DEFINE First == epoch = [p \in Partitions |-> 0]
             Goes(s) ==
          LET was == stream[s]
              t   == stream'[s]
          IN  /\ was.pc = "gating" /\ t.pc # "gating" /\ t.verdict.to = "upstream"
              /\ IsWriteRequest(RewriteForPath(cfg, Req(was)))
              => MeetsPlacement(was.looked, Routed(was, t.verdict))
  <1>1. Init => First
    BY DEF Init, PlacingInit
  <1>2. First /\ [UNCHANGED epoch]_vars => First'
    BY DEF vars
  <1>3. ASSUME Inv, First, [Next]_vars PROVE [\A s \in Streams : Goes(s)]_vars
    <2> SUFFICES ASSUME NEW s \in Streams, stream[s].pc = "gating", stream'[s].pc # "gating",
                        stream'[s].verdict.to = "upstream",
                        IsWriteRequest(RewriteForPath(cfg, Req(stream[s])))
                 PROVE  MeetsPlacement(stream[s].looked, Routed(stream[s], stream'[s].verdict))
      OBVIOUS
    <2>1. PICK was, verdict : was = stream[s] /\ verdict = stream'[s].verdict
      OBVIOUS
    <2>2. GateSound(s)
      BY <1>3, StepSound
    <2>3. /\ MeetsPlacement(was.looked, verdict) /\ verdict.to = "upstream"
          /\ was.looked.r.ok /\ \E ops : verdict = Upstream(was.looked.r, ops)
      BY <2>1, <2>2 DEF GateSound
    <2>4. /\ LookedInv(was.looked) /\ CommitInv(was) /\ Agreed(was) /\ Concerns(was)
          /\ was.x \in Requests[s]
      BY <1>3, <2>1 DEF Inv, StreamInv, Undecided
    <2>5. CASE was.committed = None
      BY <2>1, <2>3, <2>5 DEF Routed
    <2>6. CASE was.committed # None
      <3>1. PICK p : p = Asking(Req(was)) /\ p \in Partitions
                     /\ Fresh(p, was.seen[p], was.committed)
        BY <2>4, <2>6 DEF CommitInv
      <3>2. was.committed = ClusterFor(cfg, p)
        BY <1>3, <3>1 DEF Fresh
      <3>3. was.looked.r.partition = p
        BY <2>3, <2>4, <3>1 DEF Concerns
      <3>4. Routed(was, verdict).cluster = was.committed
        <4>1. Routed(was, verdict) = [verdict EXCEPT !.cluster = was.committed]
          BY <2>3, <2>6 DEF Routed
        <4>2. "cluster" \in DOMAIN verdict
          BY <2>3 DEF Upstream
        <4>3. QED
          BY <4>1, <4>2
      <3>5. QED
        BY <2>1, <2>3, <3>2, <3>3, <3>4 DEF MeetsPlacement
    <2>7. QED
      BY <2>1, <2>5, <2>6
  <1>4. QED
    BY <1>1, <1>2, <1>3, Sound, PTL DEF Spec, NobodyMoves, EpochGated

-----------------------------------------------------------------------------
(* One decision per request: the module implements Exchange.                *)

\* What the mapping rests on: a stream has a verdict from its decision on, and a
\* look-up only while it waits for the gate.
MapInv(t) ==
    /\ t.pc \in Undecided \cup {"idle", "observing"} => t.verdict = None
    /\ t.pc \in {"decided", "producing", "upstream", "shaping", "responding"} => Speaks(t.verdict)
    /\ t.pc # "gating" => t.looked = None
    /\ t.pc = "decided" /\ t.status = 0 => ~t.x.async

Mapped == Inv /\ \A s \in Streams : MapInv(stream[s])

\* A stream's change is its exchange's.
LEMMA OneExchange ==
    ASSUME Inv, NEW s \in Streams, NEW t, Becomes(s, t)
    PROVE  /\ Exchanges[s] = Exchanged(stream[s]) /\ Exchanges'[s] = Exchanged(t)
           /\ Exchanges' = [Exchanges EXCEPT ![s] = Exchanged(t)]
  <1>1. /\ stream'[s] = t /\ \A r \in Streams \ {s} : stream'[r] = stream[r]
    BY DEF Inv, IsRecord, Becomes
  <1>2. Exchanges' = [r \in Streams |-> Exchanged(stream'[r])]
    BY DEF Exchanges
  <1>3. [Exchanges EXCEPT ![s] = Exchanged(t)] =
            [r \in Streams |-> IF r = s THEN Exchanged(t) ELSE Exchanged(stream[r])]
    BY DEF Exchanges
  <1>4. QED
    BY <1>1, <1>2, <1>3 DEF Exchanges

\* What shows of a stream.
LEMMA Shown ==
    ASSUME NEW t
    PROVE  /\ IsRecord(Exchanged(t), ExchangeFields)
           /\ Exchanged(t).x = IF t.pc = "idle" THEN None ELSE BuildRequest(t.x)
           /\ Exchanged(t).looked = t.looked /\ Exchanged(t).outcome = t.verdict
           /\ Exchanged(t).upstream = IF t.upstream = None THEN None ELSE t.verdict
           /\ Exchanged(t).gone = (t.pc = "closed")
           /\ Exchanged(t).pc = IF t.pc = "idle" THEN "idle"
                                ELSE IF t.verdict # None THEN "decided"
                                ELSE IF t.pc = "gating" THEN "looked" ELSE "open"
  <1> DEFINE pc == IF t.pc = "idle" THEN "idle" ELSE IF t.verdict # None THEN "decided"
                   ELSE IF t.pc = "gating" THEN "looked" ELSE "open"
             x == IF t.pc = "idle" THEN None ELSE BuildRequest(t.x)
             upstream == IF t.upstream = None THEN None ELSE t.verdict
             gone == t.pc = "closed"
  <1>1. Exchanged(t) = [pc |-> pc, x |-> x, looked |-> t.looked, outcome |-> t.verdict,
                        upstream |-> upstream, gone |-> gone]
    BY DEF Exchanged
  <1>2. QED
    <2> HIDE DEF pc, x, upstream, gone
    <2>1. /\ IsRecord(Exchanged(t), ExchangeFields)
          /\ Exchanged(t).pc = pc /\ Exchanged(t).x = x /\ Exchanged(t).looked = t.looked
          /\ Exchanged(t).outcome = t.verdict /\ Exchanged(t).upstream = upstream
          /\ Exchanged(t).gone = gone
      BY <1>1 DEF IsRecord, ExchangeFields
    <2>2. QED
      BY <2>1 DEF pc, x, upstream, gone

\* A step that shows nothing is nobody's.
LEMMA Unseeable ==
    ASSUME Inv, NEW s \in Streams, NEW t, Becomes(s, t),
           t.pc \notin {"idle", "gating", "closed"},
           stream[s].pc \notin {"idle", "gating", "closed"},
           t.x = stream[s].x, t.looked = stream[s].looked, t.verdict = stream[s].verdict,
           t.upstream = stream[s].upstream
    PROVE  Backend!Next
  <1>1. Exchanged(t) = Exchanged(stream[s])
    BY DEF Exchanged
  <1>2. Exchanges' = [Exchanges EXCEPT ![s] = Exchanges[s]]
    BY <1>1, OneExchange
  <1>3. Exchanges' = Exchanges
    BY <1>2 DEF Exchanges
  <1>4. QED
    BY <1>3 DEF Backend!Next, Backend!Elsewhere

\* A stream gets its verdict (Told): the request is refused, sent on as it is, or
\* decided at the gate.
LEMMA Tells ==
    ASSUME Inv, NoneIsNoVerdict, NEW s \in Streams, MapInv(stream[s]),
           stream[s].pc \in Undecided \cup {"observing"}, stream[s].upstream = None,
           NEW t, NEW verdict, Becomes(s, t), UNCHANGED placing,
           t.x = stream[s].x, t.verdict = verdict, t.looked = None, t.upstream = None,
           t.pc \in {"decided", "producing"}, Speaks(verdict),
           \/ stream[s].pc # "gating" /\ verdict.to = "local"
           \/ /\ stream[s].pc # "gating" /\ verdict = [to |-> "continue"]
              /\ Front(cfg, Req(stream[s])) = [to |-> "continue"]
           \/ /\ stream[s].pc = "gating"
              /\ verdict = Verdict(cfg, Req(stream[s]), stream[s].looked.r,
                                   Admits(stream[s].looked))
    PROVE  Backend!Next
  <1> DEFINE e == Exchanged(stream[s])
             d == [e EXCEPT !.pc = "decided", !.looked = None, !.outcome = verdict]
  <1>1. verdict # None
    BY DEF NoneIsNoVerdict, Speaks
  <1>2. /\ e.x = BuildRequest(stream[s].x) /\ e.looked = stream[s].looked
        /\ e.upstream = None /\ e.gone = FALSE /\ IsRecord(e, ExchangeFields)
        /\ e.pc = IF stream[s].pc = "gating" THEN "looked" ELSE "open"
    BY Shown DEF MapInv, Undecided
  <1>3. /\ IsRecord(d, ExchangeFields) /\ d.pc = "decided" /\ d.looked = None
        /\ d.outcome = verdict /\ d.x = e.x /\ d.upstream = None /\ d.gone = FALSE
    <2> HIDE DEF e
    <2> QED
      BY <1>2 DEF IsRecord, ExchangeFields
  <1>4. Exchanged(t) = d
    <2> DEFINE f == Exchanged(t)
    <2>1. /\ f.x = BuildRequest(stream[s].x) /\ f.looked = None /\ f.outcome = verdict
          /\ f.upstream = None /\ f.gone = FALSE /\ IsRecord(f, ExchangeFields)
          /\ f.pc = "decided"
      BY <1>1, Shown
    <2>2. d.gone = f.gone
      <3> HIDE DEF d, e, f
      <3> QED
        BY <1>3, <2>1, Zenon
    <2>3. /\ IsRecord(d, ExchangeFields) /\ IsRecord(f, ExchangeFields) /\ d.pc = f.pc
          /\ d.x = f.x /\ d.looked = f.looked /\ d.outcome = f.outcome
          /\ d.upstream = f.upstream
      <3> HIDE DEF d, e, f
      <3> QED
        BY <1>2, <1>3, <2>1
    <2>4. d = f
      <3> HIDE DEF d, e, f
      <3> QED
        BY <2>2, <2>3, SameExchange, Zenon
    <2>5. QED
      BY <2>4
  <1>5. Exchanges[s] = e /\ Exchanges' = [Exchanges EXCEPT ![s] = d] /\ Exchanges'[s] = d
    BY <1>4, OneExchange
  <1>6. Backend!Decided(s, verdict)
    <2> HIDE DEF e
    <2> QED
      BY <1>5 DEF Backend!Decided, Backend!Becomes, placing
  <1>7. e.x.raw = Req(stream[s])
    BY <1>2 DEF Req
  <1>8. CASE stream[s].pc # "gating" /\ verdict.to = "local"
    <2>1. Backend!Refuse(s)
      <3> HIDE DEF e, d
      <3> QED
        BY <1>2, <1>3, <1>5, <1>6, <1>8 DEF Backend!Refuse
    <2>2. QED
      BY <2>1 DEF Backend!Next
  <1>9. CASE /\ stream[s].pc # "gating" /\ verdict = [to |-> "continue"]
             /\ Front(cfg, Req(stream[s])) = [to |-> "continue"]
    <2>1. Backend!PassThrough(s)
      <3> HIDE DEF e, d
      <3> QED
        BY <1>2, <1>5, <1>6, <1>7, <1>9 DEF Backend!PassThrough
    <2>2. QED
      BY <2>1 DEF Backend!Next
  <1>10. CASE /\ stream[s].pc = "gating"
              /\ verdict = Verdict(cfg, Req(stream[s]), stream[s].looked.r,
                                   Admits(stream[s].looked))
    <2>1. Backend!Decide(s)
      <3> HIDE DEF e, d
      <3> QED
        BY <1>2, <1>5, <1>6, <1>7, <1>10 DEF Backend!Decide, Admits
    <2>2. QED
      BY <2>1 DEF Backend!Next
  <1>11. QED
    BY <1>8, <1>9, <1>10

\* A step of stream s is a step of the exchange, and keeps what the mapping rests on.
Maps(s) == Backend!Next /\ \E t : Becomes(s, t) /\ MapInv(t)

\* What may be said of a request where stream s is.
Sayable(s, verdict) ==
    \/ stream[s].pc # "gating" /\ verdict.to = "local"
    \/ /\ stream[s].pc # "gating" /\ verdict = [to |-> "continue"]
       /\ Front(cfg, Req(stream[s])) = [to |-> "continue"]
    \/ /\ stream[s].pc = "gating"
       /\ verdict = Verdict(cfg, Req(stream[s]), stream[s].looked.r, Admits(stream[s].looked))

\* What has been told.
LEMMA ToldIs ==
    ASSUME NEW t, IsRecord(t, StreamFields), NEW verdict, NEW pc, NEW status
    PROVE  LET u == [Told(t, verdict) EXCEPT !.pc = pc, !.status = status]
               v == [Told(t, verdict) EXCEPT !.pc = pc]
           IN  /\ u.pc = pc /\ u.status = status /\ u.verdict = verdict /\ u.x = t.x
               /\ u.looked = None /\ u.upstream = t.upstream
               /\ v.pc = pc /\ v.verdict = verdict /\ v.x = t.x
               /\ v.looked = None /\ v.upstream = t.upstream
  BY DEF Told, IsRecord, StreamFields

\* A reply of the backend's own (SendResponse).
LEMMA ResponseMaps ==
    ASSUME Inv, NoneIsNoVerdict, NEW s \in Streams, MapInv(stream[s]), UNCHANGED placing,
           stream[s].pc \in Undecided \cup {"observing"}, stream[s].upstream = None,
           NEW reply, SendResponse(s, stream[s], reply),
           Speaks(reply), HasStatus(reply), reply.to = "local", Sayable(s, reply)
    PROVE  Maps(s)
  <1> DEFINE t == [Told(stream[s], reply) EXCEPT !.pc = "decided", !.status = reply.status]
  <1>1. Becomes(s, t)
    BY DEF SendResponse
  <1>2. /\ t.pc = "decided" /\ t.status = reply.status /\ t.verdict = reply
        /\ t.x = stream[s].x /\ t.looked = None /\ t.upstream = None
    BY ToldIs DEF Inv, StreamInv
  <1>3. MapInv(t)
    <2> HIDE DEF t
    <2> QED
      BY <1>2 DEF MapInv, Undecided, HasStatus
  <1>4. Backend!Next
    <2> HIDE DEF t
    <2> QED
      BY <1>1, <1>2, Tells DEF Sayable
  <1>5. QED
    BY <1>1, <1>3, <1>4 DEF Maps

\* The filter's word, carried out (Conclude).
LEMMA ConcludeMaps ==
    ASSUME Inv, NoneIsNoVerdict, NEW s \in Streams, MapInv(stream[s]), UNCHANGED placing,
           stream[s].pc \in Undecided, stream[s].upstream = None,
           NEW verdict, Conclude(s, stream[s], verdict),
           Speaks(verdict), HasStatus(verdict), Sayable(s, verdict)
    PROVE  Maps(s)
  <1>1. CASE verdict.to = "local"
    BY <1>1, ResponseMaps DEF Conclude
  <1>2. CASE \E pc \in {"producing", "decided"} :
                 /\ Becomes(s, [Told(stream[s], verdict) EXCEPT !.pc = pc])
                 /\ pc = "decided" => ~stream[s].x.async
    <2>1. PICK pc \in {"producing", "decided"} :
                 /\ Becomes(s, [Told(stream[s], verdict) EXCEPT !.pc = pc])
                 /\ pc = "decided" => ~stream[s].x.async
      BY <1>2
    <2> DEFINE t == [Told(stream[s], verdict) EXCEPT !.pc = pc]
    <2>2. /\ t.pc = pc /\ t.verdict = verdict
          /\ t.x = stream[s].x /\ t.looked = None /\ t.upstream = None
      BY ToldIs DEF Inv, StreamInv
    <2>3. MapInv(t) /\ Becomes(s, t)
      <3> HIDE DEF t
      <3> QED
        BY <2>1, <2>2 DEF MapInv, Undecided, t
    <2>4. Backend!Next
      <3> HIDE DEF t
      <3> QED
        BY <2>2, <2>3, Tells DEF Sayable
    <2>5. QED
      BY <2>3, <2>4 DEF Maps
  <1>3. QED
    BY <1>1, <1>2 DEF Conclude

\* A request is refused early, passes through, or goes to the router (Process).
LEMMA ProcessMaps ==
    ASSUME Inv, NoneIsNoVerdict, NEW s \in Streams, MapInv(stream[s]), UNCHANGED settings,
           stream[s].pc \in {"opened", "buffering"}, Process(s, stream[s])
    PROVE  Maps(s)
  <1> DEFINE t == stream[s]
             early == Early(cfg, sink, t.x.async, Req(t))
             u == [t EXCEPT !.pc = "resolving"]
  <1>1. /\ IsRecord(t, StreamFields) /\ t.upstream = None /\ UNCHANGED placing
        /\ t.pc \in Undecided /\ t.pc # "gating"
    BY DEF Inv, StreamInv, Undecided, settings
  <1>2. CASE early # Pass /\ Conclude(s, t, early)
    <2>1. Speaks(early) /\ HasStatus(early) /\ Sayable(s, early)
      <3>1. HasStatus(early)
        BY RepliesHaveStatus
      <3>2. /\ Speaks(early)
            /\ \/ early.to = "local"
               \/ early = [to |-> "continue"] /\ Front(cfg, Req(t)) = [to |-> "continue"]
        BY <1>2, VerdictsSpeak
      <3>3. QED
        <4> HIDE DEF early
        <4> QED
          BY <1>1, <3>1, <3>2 DEF Sayable
    <2>2. QED
      <3> HIDE DEF early
      <3> QED
        BY <1>1, <1>2, <2>1, ConcludeMaps
  <1>3. CASE Becomes(s, u)
    <2>1. /\ u.pc = "resolving" /\ u.x = t.x /\ u.looked = t.looked
          /\ u.verdict = t.verdict /\ u.upstream = t.upstream
      BY <1>1 DEF IsRecord, StreamFields
    <2>2. MapInv(u)
      <3> HIDE DEF u
      <3> QED
        BY <1>1, <2>1 DEF MapInv, Undecided
    <2>3. Backend!Next
      <3> HIDE DEF u
      <3> QED
        BY <1>1, <1>3, <2>1, Unseeable
    <2>4. QED
      BY <1>3, <2>2, <2>3 DEF Maps
  <1>4. QED
    BY <1>2, <1>3 DEF Process

\* A stream's place changes before its decision, and nothing shows of it.
LEMMA GoesOn ==
    ASSUME Inv, NEW s \in Streams, MapInv(stream[s]), NEW t, Becomes(s, t),
           t.pc \in {"buffering", "resolving", "observing"},
           stream[s].pc \in {"opened", "observing"},
           t.x = stream[s].x, t.looked = stream[s].looked, t.verdict = stream[s].verdict,
           t.upstream = stream[s].upstream
    PROVE  Maps(s)
  <1>1. MapInv(t)
    BY DEF MapInv, Undecided
  <1>2. Backend!Next
    BY Unseeable
  <1>3. QED
    BY <1>1, <1>2 DEF Maps

\* The header phase, with a body to come (RouteNow).
LEMMA RouteMaps ==
    ASSUME Inv, NoneIsNoVerdict, NEW s \in Streams, MapInv(stream[s]), UNCHANGED settings,
           stream[s].pc = "opened", RouteNow(s, stream[s])
    PROVE  Maps(s)
  <1> DEFINE t == stream[s]
             route == RouteHeaders(cfg, [Req(t) EXCEPT !.body = None])
             commits == IF route.to = "cluster" THEN route.cluster ELSE None
             u == [t EXCEPT !.pc = "buffering", !.committed = commits, !.seen = epoch]
  <1>1. /\ IsRecord(t, StreamFields) /\ t.upstream = None /\ UNCHANGED placing
        /\ t.pc \in Undecided
    BY DEF Inv, StreamInv, Undecided, settings
  <1>2. CASE route.to = "local" /\ SendResponse(s, t, route)
    <2>1. Speaks(route) /\ HasStatus(route)
      BY <1>2, RepliesHaveStatus, VerdictsSpeak
    <2>2. QED
      <3> HIDE DEF route
      <3> QED
        BY <1>1, <1>2, <2>1, ResponseMaps DEF Sayable
  <1>3. CASE Becomes(s, u)
    <2>1. /\ u.pc = "buffering" /\ u.x = t.x /\ u.looked = t.looked
          /\ u.verdict = t.verdict /\ u.upstream = t.upstream
      <3> HIDE DEF commits
      <3> QED
        BY <1>1 DEF IsRecord, StreamFields
    <2>2. QED
      <3> HIDE DEF u
      <3> QED
        BY <1>3, <2>1, GoesOn
  <1>4. QED
    BY <1>2, <1>3 DEF RouteNow

\* The two callbacks a request comes with.
LEMMA CallbacksMap ==
    ASSUME Inv, NoneIsNoVerdict, NEW s \in Streams, MapInv(stream[s]),
           OnRequestHeaders(s) \/ OnRequestBody(s)
    PROVE  Maps(s)
  <1> DEFINE t == stream[s]
  <1>1. IsRecord(t, StreamFields) /\ UNCHANGED settings /\ t.pc \in {"opened", "buffering"}
    BY DEF Inv, StreamInv, OnRequestHeaders, OnRequestBody
  <1>2. CASE Process(s, t)
    BY <1>1, <1>2, ProcessMaps
  <1>3. CASE t.pc = "opened" /\ RouteNow(s, t)
    BY <1>1, <1>3, RouteMaps
  <1>4. CASE t.pc = "opened" /\ BeginReply(s, t)
    <2> DEFINE glanced == Unseen(t.x)
               u == [t EXCEPT !.pc = "observing", !.glanced = glanced]
    <2>1. /\ u.pc = "observing" /\ u.x = t.x /\ u.looked = t.looked
          /\ u.verdict = t.verdict /\ u.upstream = t.upstream
      <3> HIDE DEF glanced
      <3> QED
        BY <1>1 DEF IsRecord, StreamFields
    <2>2. Becomes(s, u)
      BY <1>4 DEF BeginReply
    <2>3. QED
      <3> HIDE DEF u
      <3> QED
        BY <1>4, <2>1, <2>2, GoesOn
  <1>5. CASE t.pc = "opened" /\ Becomes(s, [t EXCEPT !.pc = "buffering"])
    <2> DEFINE u == [t EXCEPT !.pc = "buffering"]
    <2>1. /\ u.pc = "buffering" /\ u.x = t.x /\ u.looked = t.looked
          /\ u.verdict = t.verdict /\ u.upstream = t.upstream /\ Becomes(s, u)
      BY <1>1, <1>5 DEF IsRecord, StreamFields
    <2>2. QED
      <3> HIDE DEF u
      <3> QED
        BY <1>5, <2>1, GoesOn
  <1>6. QED
    BY <1>2, <1>3, <1>4, <1>5 DEF OnRequestHeaders, OnRequestBody

\* A reserved path's reply is the backend's own (reserved_reply).
LEMMA ObserveMaps ==
    ASSUME Inv, NoneIsNoVerdict, NEW s \in Streams, MapInv(stream[s]),
           Observing(s) \/ Observed(s)
    PROVE  Maps(s)
  <1> DEFINE t == stream[s]
  <1>1. /\ IsRecord(t, StreamFields) /\ t.pc = "observing" /\ t.upstream = None
        /\ UNCHANGED placing
    BY DEF Inv, StreamInv, Observing, Observed, settings
  <1>2. CASE Observing(s)
    <2>1. PICK glanced : Becomes(s, [t EXCEPT !.glanced = glanced])
      BY <1>2 DEF Observing
    <2> DEFINE u == [t EXCEPT !.glanced = glanced]
    <2>2. /\ u.pc = "observing" /\ u.x = t.x /\ u.looked = t.looked
          /\ u.verdict = t.verdict /\ u.upstream = t.upstream /\ Becomes(s, u)
      BY <1>1, <2>1 DEF IsRecord, StreamFields
    <2>3. QED
      <3> HIDE DEF u
      <3> QED
        BY <1>1, <2>2, GoesOn
  <1>3. CASE Observed(s)
    <2> DEFINE reply == Reply(t.x, t.glanced)
    <2>1. SendResponse(s, t, reply)
      BY <1>3 DEF Observed
    <2>2. reply.to = "local" /\ HasStatus(reply) /\ Speaks(reply)
      BY DEF Reply, AdminReply, Immediate, HasStatus, Speaks
    <2>3. QED
      <3> HIDE DEF reply
      <3> QED
        BY <1>1, <2>1, <2>2, ResponseMaps DEF Sayable
  <1>4. QED
    BY <1>2, <1>3

\* The two awaits of prepare are the two questions of an exchange.
LEMMA QuestionsMap ==
    ASSUME Inv, NoneIsNoVerdict, NEW s \in Streams, MapInv(stream[s]),
           ResolveNow(s) \/ Gate(s)
    PROVE  Maps(s)
  <1> DEFINE t == stream[s]
  <1>1. /\ IsRecord(t, StreamFields) /\ t.upstream = None /\ UNCHANGED placing
        /\ t.pc \in Undecided
    BY DEF Inv, StreamInv, ResolveNow, Gate, settings, Undecided
  <1>2. CASE ResolveNow(s)
    <2> DEFINE looked == Look(Req(t))
               u == [t EXCEPT !.pc = "gating", !.looked = looked]
               e == Exchanged(t)
               d == [e EXCEPT !.pc = "looked", !.looked = looked]
               f == Exchanged(u)
    <2>1. /\ u.pc = "gating" /\ u.x = t.x /\ u.looked = looked
          /\ u.verdict = t.verdict /\ u.upstream = t.upstream
      <3> HIDE DEF looked
      <3> QED
        BY <1>1 DEF IsRecord, StreamFields
    <2>2. Becomes(s, u) /\ t.pc = "resolving" /\ t.verdict = None
      BY <1>2 DEF ResolveNow, Becomes, Inv, IsRecord, MapInv, Undecided
    <2>3. MapInv(u)
      <3> HIDE DEF u
      <3> QED
        BY <2>1, <2>2 DEF MapInv
    <2>4. /\ IsRecord(e, ExchangeFields) /\ e.pc = "open" /\ e.x = BuildRequest(t.x)
          /\ e.outcome = None /\ e.upstream = None
      BY <1>1, <2>2, Shown
    <2>5. /\ IsRecord(d, ExchangeFields) /\ d.pc = "looked" /\ d.x = e.x /\ d.looked = looked
          /\ d.outcome = e.outcome /\ d.upstream = e.upstream /\ d.gone = e.gone
      <3> HIDE DEF e, looked
      <3> QED
        BY <2>4 DEF IsRecord, ExchangeFields
    <2>6. /\ IsRecord(f, ExchangeFields) /\ f.pc = "looked" /\ f.x = BuildRequest(t.x)
          /\ f.looked = looked /\ f.outcome = None /\ f.upstream = None
      <3> HIDE DEF u, looked
      <3> QED
        BY <1>1, <2>1, <2>2, Shown
    <2>7. d.gone = f.gone
      <3>1. e.gone = (t.pc = "closed") /\ f.gone = (u.pc = "closed")
        <4> HIDE DEF u
        <4> QED
          BY Shown
      <3>2. e.gone = f.gone
        <4> HIDE DEF u, e, f
        <4> QED
          BY <2>1, <2>2, <3>1
      <3>3. QED
        <4> HIDE DEF d, e, f
        <4> QED
          BY <2>5, <3>2, Zenon
    <2>8. d = f
      <3> HIDE DEF d, e, f, looked
      <3>1. /\ d.pc = f.pc /\ d.x = f.x /\ d.looked = f.looked /\ d.outcome = f.outcome
            /\ d.upstream = f.upstream
        BY <2>4, <2>5, <2>6
      <3>2. QED
        BY <2>5, <2>6, <2>7, <3>1, SameExchange, Zenon
    <2>9. Exchanges[s] = e /\ Exchanges' = [Exchanges EXCEPT ![s] = d]
      <3> HIDE DEF d, u
      <3> QED
        BY <2>2, <2>8, OneExchange DEF f
    <2>10. looked = LookAt(cfg, epoch, e.x.raw)
      BY <2>4 DEF Look, Req
    <2>11. Backend!Ask(s)
      <3> HIDE DEF e, looked
      <3> QED
        BY <1>1, <2>4, <2>9, <2>10 DEF Backend!Ask, Backend!Becomes, placing
    <2>12. QED
      <3> HIDE DEF u
      <3> QED
        BY <2>2, <2>3, <2>11 DEF Maps, Backend!Next
  <1>3. CASE Gate(s)
    <2> DEFINE verdict == Verdict(cfg, Req(t), t.looked.r, Admits(t.looked))
    <2>1. Conclude(s, t, verdict) /\ t.pc = "gating"
      BY <1>3 DEF Gate
    <2>2. Speaks(verdict) /\ HasStatus(verdict)
      BY VerdictsSpeak, RepliesHaveStatus
    <2>3. Sayable(s, verdict)
      BY <2>1 DEF Sayable
    <2>4. QED
      <3> HIDE DEF verdict
      <3> QED
        BY <1>1, <2>1, <2>2, <2>3, ConcludeMaps
  <1>4. QED
    BY <1>2, <1>3

\* The client is answered, or gives up.
LEMMA Leaves ==
    ASSUME Inv, NEW s \in Streams, MapInv(stream[s]), NEW t, Becomes(s, t),
           t.pc = "closed", stream[s].pc \notin {"idle", "gating", "closed"},
           t.x = stream[s].x, t.looked = stream[s].looked, t.verdict = stream[s].verdict,
           t.upstream = stream[s].upstream, UNCHANGED placing
    PROVE  Maps(s)
  <1> DEFINE e == Exchanged(stream[s])
             d == [e EXCEPT !.gone = TRUE]
             f == Exchanged(t)
  <1>1. /\ IsRecord(e, ExchangeFields) /\ IsRecord(f, ExchangeFields)
        /\ f.pc = e.pc /\ f.x = e.x /\ f.looked = e.looked /\ f.outcome = e.outcome
        /\ f.upstream = e.upstream /\ e.pc # "idle"
    BY Shown
  <1>2. /\ IsRecord(d, ExchangeFields) /\ d.pc = e.pc /\ d.x = e.x /\ d.looked = e.looked
        /\ d.outcome = e.outcome /\ d.upstream = e.upstream /\ d.gone = TRUE
    <2> HIDE DEF e
    <2> QED
      BY <1>1 DEF IsRecord, ExchangeFields
  <1>3. ~e.gone /\ f.gone = TRUE
    <2>1. e.gone = (stream[s].pc = "closed") /\ f.gone = (t.pc = "closed")
      BY Shown
    <2>2. QED
      <3> HIDE DEF e, f
      <3> QED
        BY <2>1
  <1>4. d = f
    <2> HIDE DEF d, e, f
    <2>1. d.gone = f.gone
      BY <1>2, <1>3, Zenon
    <2>2. /\ d.pc = f.pc /\ d.x = f.x /\ d.looked = f.looked /\ d.outcome = f.outcome
          /\ d.upstream = f.upstream
      BY <1>1, <1>2
    <2>3. QED
      BY <1>1, <1>2, <2>1, <2>2, SameExchange, Zenon
  <1>5. Exchanges[s] = e /\ Exchanges' = [Exchanges EXCEPT ![s] = d]
    <2> HIDE DEF d
    <2> QED
      BY <1>4, OneExchange
  <1>6. Backend!Leave(s)
    <2> HIDE DEF e
    <2> QED
      BY <1>1, <1>3, <1>5 DEF Backend!Leave, Backend!Becomes, placing
  <1>7. MapInv(t)
    BY DEF MapInv, Undecided
  <1>8. QED
    BY <1>6, <1>7 DEF Maps, Backend!Next

\* A request leaves for the upstream, or its reply for the client (Proceed).
LEMMA ProceedMaps ==
    ASSUME Inv, NoneIsNoVerdict, NEW s \in Streams, MapInv(stream[s]), Proceed(s)
    PROVE  Maps(s)
  <1> DEFINE t == stream[s]
  <1>1. /\ IsRecord(t, StreamFields) /\ t.pc = "decided" /\ t.upstream = None
        /\ t.pc # "idle" /\ t.x \in Requests[s] /\ UNCHANGED placing
        /\ t.status = 0 => t.verdict.to # "local"
    BY DEF Inv, StreamInv, Proceed, settings
  <1>2. CASE t.status # 0
    <2> DEFINE u == [t EXCEPT !.pc = "closed"]
    <2>1. /\ u.pc = "closed" /\ u.x = t.x /\ u.looked = t.looked
          /\ u.verdict = t.verdict /\ u.upstream = t.upstream
      BY <1>1 DEF IsRecord, StreamFields
    <2>2. Becomes(s, u)
      BY <1>2 DEF Proceed
    <2>3. QED
      <3> HIDE DEF u
      <3> QED
        BY <1>1, <2>1, <2>2, Leaves
  <1>3. CASE t.status = 0
    <2> DEFINE to == Routed(t, t.verdict)
               u == [t EXCEPT !.pc = "upstream", !.upstream = to]
               e == Exchanged(t)
               d == [e EXCEPT !.upstream = t.verdict]
               f == Exchanged(u)
    <2>1. /\ u.pc = "upstream" /\ u.x = t.x /\ u.looked = t.looked
          /\ u.verdict = t.verdict /\ u.upstream = to
      <3> HIDE DEF to
      <3> QED
        BY <1>1 DEF IsRecord, StreamFields
    <2>2. Becomes(s, u)
      BY <1>3 DEF Proceed
    <2>3. Speaks(t.verdict) /\ t.verdict # None /\ t.verdict.to # "local" /\ ~t.x.async
          /\ t.looked = None
      BY <1>1, <1>3 DEF MapInv, Speaks, NoneIsNoVerdict
    <2>4. to # None
      <3>1. to.to = t.verdict.to
        BY <2>3 DEF Routed, Speaks
      <3>2. QED
        <4> HIDE DEF to
        <4> QED
          BY <2>3, <3>1 DEF Speaks, NoneIsNoVerdict
    <2>5. /\ IsRecord(e, ExchangeFields) /\ e.pc = "decided" /\ e.x = BuildRequest(t.x)
          /\ e.looked = None /\ e.outcome = t.verdict /\ e.upstream = None
      BY <1>1, <2>3, Shown
    <2>6. /\ IsRecord(f, ExchangeFields) /\ f.pc = "decided" /\ f.x = BuildRequest(t.x)
          /\ f.looked = None /\ f.outcome = t.verdict /\ f.upstream = t.verdict
      <3> HIDE DEF u, to
      <3> QED
        BY <2>1, <2>3, <2>4, Shown
    <2>7. /\ IsRecord(d, ExchangeFields) /\ d.pc = e.pc /\ d.x = e.x /\ d.looked = e.looked
          /\ d.outcome = e.outcome /\ d.upstream = t.verdict /\ d.gone = e.gone
      <3> HIDE DEF e
      <3> QED
        BY <2>5 DEF IsRecord, ExchangeFields
    <2>8. ~e.gone /\ d.gone = f.gone
      <3>1. e.gone = (t.pc = "closed") /\ f.gone = (u.pc = "closed")
        <4> HIDE DEF u
        <4> QED
          BY Shown
      <3>2. ~e.gone /\ e.gone = f.gone
        <4> HIDE DEF u, e, f
        <4> QED
          BY <1>1, <2>1, <3>1
      <3>3. QED
        <4> HIDE DEF d, e, f
        <4> QED
          BY <2>7, <3>2, Zenon
    <2>9. d = f
      <3> HIDE DEF d, e, f
      <3>1. /\ d.pc = f.pc /\ d.x = f.x /\ d.looked = f.looked /\ d.outcome = f.outcome
            /\ d.upstream = f.upstream
        BY <2>5, <2>6, <2>7
      <3>2. QED
        BY <2>6, <2>7, <2>8, <3>1, SameExchange, Zenon
    <2>10. Exchanges[s] = e /\ Exchanges' = [Exchanges EXCEPT ![s] = d]
      <3> HIDE DEF d, u
      <3> QED
        BY <2>2, <2>9, OneExchange DEF f
    <2>11. ~e.x.async
      <3>1. IsRecord(t.x, RequestFields)
        BY <1>1, RequestsAssumption DEF IsRequest
      <3>2. BuildRequest(t.x).async = t.x.async
        BY <3>1 DEF BuildRequest, IsRecord, RequestFields
      <3>3. QED
        BY <2>3, <2>5, <3>2
    <2>12. d = [e EXCEPT !.upstream = e.outcome]
      BY <2>5
    <2>13. Backend!Deliver(s)
      <3> HIDE DEF e, d
      <3> QED
        BY <1>1, <2>3, <2>5, <2>8, <2>10, <2>11, <2>12
           DEF Backend!Deliver, Backend!Becomes, placing
    <2>14. MapInv(u)
      <3> HIDE DEF u
      <3> QED
        BY <2>1, <2>3 DEF MapInv, Undecided
    <2>15. QED
      <3> HIDE DEF u
      <3> QED
        BY <2>2, <2>13, <2>14 DEF Maps, Backend!Next
  <1>4. QED
    BY <1>2, <1>3

\* A request arrives (Open).
LEMMA OpenMaps ==
    ASSUME Inv, NEW s \in Streams, NEW x \in Requests[s], Open(s, x)
    PROVE  Maps(s)
  <1>1. PICK w \in WorkersOf[s] : \E before :
            Becomes(s, [Unused EXCEPT !.pc = "opened", !.worker = w, !.x = x, !.before = before])
    BY DEF Open
  <1>2. PICK before :
            Becomes(s, [Unused EXCEPT !.pc = "opened", !.worker = w, !.x = x, !.before = before])
    BY <1>1
  <1> DEFINE t == [Unused EXCEPT !.pc = "opened", !.worker = w, !.x = x, !.before = before]
             d == [Backend!Idle EXCEPT !.pc = "open", !.x = BuildRequest(x)]
             f == Exchanged(t)
  <1>3. /\ t.pc = "opened" /\ t.x = x /\ t.looked = None /\ t.verdict = None
        /\ t.upstream = None
    BY DEF Unused
  <1>4. /\ IsRecord(f, ExchangeFields) /\ f.pc = "open" /\ f.x = BuildRequest(x)
        /\ f.looked = None /\ f.outcome = None /\ f.upstream = None
    <2> HIDE DEF t
    <2> QED
      BY <1>3, Shown
  <1>5. /\ IsRecord(d, ExchangeFields) /\ d.pc = "open" /\ d.x = BuildRequest(x)
        /\ d.looked = None /\ d.outcome = None /\ d.upstream = None /\ d.gone = FALSE
    BY DEF Backend!Idle, IsRecord, ExchangeFields
  <1>6. d = f
    <2>1. f.gone = FALSE
      <3>1. f.gone = (t.pc = "closed")
        <4> HIDE DEF t
        <4> QED
          BY Shown
      <3>2. QED
        <4> HIDE DEF t, f
        <4> QED
          BY <1>3, <3>1
    <2> HIDE DEF d, f
    <2>2. d.gone = f.gone
      BY <1>5, <2>1, Zenon
    <2>3. /\ d.pc = f.pc /\ d.x = f.x /\ d.looked = f.looked /\ d.outcome = f.outcome
          /\ d.upstream = f.upstream
      BY <1>4, <1>5
    <2>4. QED
      BY <1>4, <1>5, <2>2, <2>3, SameExchange, Zenon
  <1>7. Exchanges[s] = Exchanged(stream[s]) /\ Exchanges' = [Exchanges EXCEPT ![s] = d]
    <2> HIDE DEF d, t
    <2> QED
      BY <1>2, <1>6, OneExchange DEF f, t
  <1>8. Exchanges[s].pc = "idle"
    BY <1>7, Shown DEF Open
  <1>9. BuildRequest(x) \in Built[s]
    BY DEF Built
  <1>10. Backend!Open(s, BuildRequest(x))
    BY <1>7, <1>8 DEF Backend!Open, Backend!Becomes, Open, settings, placing
  <1>11. MapInv(t)
    <2> HIDE DEF t
    <2> QED
      BY <1>3 DEF MapInv, Undecided
  <1>12. QED
    BY <1>2, <1>9, <1>10, <1>11 DEF Maps, Backend!Next

\* The sink's answer, the response's way back, and a client that gives up.
LEMMA OthersMap ==
    ASSUME Inv, NEW s \in Streams, MapInv(stream[s]),
           \/ Produces(s) \/ OnResponseHeaders(s) \/ DecisionHeader(s)
           \/ OnResponseBody(s) \/ GiveUp(s)
    PROVE  Maps(s)
  <1> DEFINE t == stream[s]
  <1>1. IsRecord(t, StreamFields) /\ UNCHANGED placing /\ IsRecord(stream, Streams)
    BY DEF Inv, StreamInv, Produces, Acknowledged, NotAcknowledged, Produced,
           OnResponseHeaders, DecisionHeader, OnResponseBody, GiveUp, settings
  <1>2. ASSUME NEW pc, NEW status
        PROVE  LET u == Moved(t, pc, status)
               IN  /\ u.pc = pc /\ u.status = status /\ u.x = t.x /\ u.looked = t.looked
                   /\ u.verdict = t.verdict /\ u.upstream = t.upstream
    BY <1>1 DEF Moved, IsRecord, StreamFields
  <1>3. ASSUME NEW status, Becomes(s, Moved(t, "closed", status)),
               t.pc \notin {"idle", "gating", "closed"}
        PROVE  Maps(s)
    <2> DEFINE u == Moved(t, "closed", status)
    <2>1. /\ u.pc = "closed" /\ u.x = t.x /\ u.looked = t.looked
          /\ u.verdict = t.verdict /\ u.upstream = t.upstream
      BY <1>2
    <2>2. QED
      <3> HIDE DEF u
      <3> QED
        BY <1>1, <1>3, <2>1, Leaves DEF u
  <1>4. ASSUME NEW pc \in {"decided", "responding", "shaping"}, NEW status,
               Becomes(s, Moved(t, pc, status)), pc = "decided" => status # 0,
               t.pc \in {"producing", "upstream", "shaping"}
        PROVE  Maps(s)
    <2> DEFINE u == Moved(t, pc, status)
    <2>1. /\ u.pc = pc /\ u.status = status /\ u.x = t.x /\ u.looked = t.looked
          /\ u.verdict = t.verdict /\ u.upstream = t.upstream
      BY <1>2
    <2>2. MapInv(u)
      <3> HIDE DEF u
      <3> QED
        BY <1>4, <2>1 DEF MapInv, Undecided
    <2>3. Backend!Next
      <3> HIDE DEF u
      <3> QED
        BY <1>4, <2>1, Unseeable DEF u
    <2>4. QED
      BY <1>4, <2>2, <2>3 DEF Maps
  <1>5. CASE Produces(s)
    <2>1. PICK reply \in {Accepted202, Unavailable} :
              /\ t.pc = "producing"
              /\ stream' = [stream EXCEPT ![s].pc = "decided", ![s].status = reply.status]
      BY <1>5 DEF Produces, Acknowledged, NotAcknowledged, Produced
    <2>2. reply.status # 0
      BY DEF Accepted202, Unavailable, Immediate
    <2>3. Becomes(s, Moved(t, "decided", reply.status))
      BY <1>1, <2>1 DEF Becomes, Moved, IsRecord
    <2>4. QED
      BY <1>4, <2>1, <2>2, <2>3
  <1>6. ASSUME PassHeaders(s), t.pc \in {"upstream", "shaping"} PROVE Maps(s)
    <2> DEFINE ok == 200
    <2>1. \/ Becomes(s, Moved(t, "responding", t.status))
          \/ Becomes(s, Moved(t, "closed", ok))
      <3>1. Moved(t, "responding", t.status) = [t EXCEPT !.pc = "responding"]
        BY <1>1 DEF Moved, IsRecord, StreamFields
      <3>2. Moved(t, "closed", ok) = [t EXCEPT !.pc = "closed", !.status = ok]
        BY DEF Moved
      <3>3. QED
        BY <1>6, <3>1, <3>2 DEF PassHeaders
    <2>2. QED
      <3> HIDE DEF ok
      <3> QED
        BY <1>3, <1>4, <1>6, <2>1
  <1>7. CASE OnResponseHeaders(s) \/ DecisionHeader(s)
    <2>1. CASE Becomes(s, [t EXCEPT !.pc = "shaping"]) /\ t.pc = "upstream"
      <3>1. Moved(t, "shaping", t.status) = [t EXCEPT !.pc = "shaping"]
        BY <1>1 DEF Moved, IsRecord, StreamFields
      <3>2. QED
        BY <1>4, <2>1, <3>1
    <2>2. QED
      BY <1>6, <1>7, <2>1 DEF OnResponseHeaders, DecisionHeader
  <1>8. CASE OnResponseBody(s)
    <2> DEFINE ok == 200
    <2>1. Becomes(s, Moved(t, "closed", ok)) /\ t.pc = "responding"
      BY <1>8 DEF OnResponseBody, Moved
    <2>2. QED
      <3> HIDE DEF ok
      <3> QED
        BY <1>3, <2>1
  <1>9. CASE GiveUp(s)
    <2> DEFINE timeout == 504
    <2>1. stream' = [stream EXCEPT ![s].pc = "closed", ![s].status = timeout]
          /\ t.pc \in {"opened", "buffering", "decided", "upstream", "responding"}
      BY <1>9 DEF GiveUp
    <2>2. Becomes(s, Moved(t, "closed", timeout))
      <3> HIDE DEF timeout
      <3> QED
        BY <1>1, <2>1 DEF Becomes, Moved, IsRecord
    <2>3. QED
      <3> HIDE DEF timeout
      <3> QED
        BY <1>3, <2>1, <2>2
  <1>10. QED
    BY <1>5, <1>7, <1>8, <1>9

\* Every step is a step of the exchange, or nobody's.
LEMMA StepMaps ==
    ASSUME Mapped, NoneIsNoVerdict, [Next]_vars
    PROVE  Mapped' /\ [Backend!Next]_(Backend!vars)
  <1>1. Inv /\ Inv' /\ \A s \in Streams : MapInv(stream[s])
    BY StepSound DEF Mapped
  <1>2. ASSUME UNCHANGED stream PROVE Mapped' /\ [Backend!Next]_(Backend!vars)
    <2>1. Exchanges' = Exchanges
      BY <1>2 DEF Exchanges
    <2>2. QED
      BY <1>1, <1>2, <2>1 DEF Mapped, Backend!Next, Backend!Elsewhere
  <1>3. ASSUME NEW s \in Streams, Maps(s) PROVE Mapped' /\ [Backend!Next]_(Backend!vars)
    <2>1. PICK t : Becomes(s, t) /\ MapInv(t)
      BY <1>3 DEF Maps
    <2>2. \A r \in Streams : MapInv(stream'[r])
      BY <1>1, <2>1 DEF Becomes, Inv, IsRecord
    <2>3. QED
      BY <1>1, <1>3, <2>2 DEF Mapped, Maps, MapInv
  <1>4. ASSUME NEW s \in Streams,
               \/ \E x \in Requests[s] : Open(s, x)
               \/ Works(s) \/ Produces(s) \/ GiveUp(s)
        PROVE  Maps(s)
    BY <1>1, <1>4, CallbacksMap, ObserveMaps, QuestionsMap, ProceedMaps, OpenMaps, OthersMap
       DEF Works
  <1>5. QED
    BY <1>2, <1>3, <1>4 DEF Next, vars

\* Before the first request nothing has been exchanged.
LEMMA Opens ==
    ASSUME Init
    PROVE  Mapped /\ Backend!Init
  <1>1. ASSUME NEW s \in Streams PROVE stream[s] = Unused
    BY DEF Init
  <1>2. MapInv(Unused)
    BY DEF MapInv, Unused, Undecided
  <1>3. Exchanged(Unused) = Backend!Idle
    BY DEF Exchanged, Unused, Backend!Idle
  <1>4. QED
    BY <1>1, <1>2, <1>3, StartsSound DEF Mapped, Backend!Init, Exchanges

\* The dynamic module implements the exchange, step by step, for any streams, workers,
\* requests and moves: one decision per request, taken on the whole request, its gate
\* after its look-up, and at most one forward, of that decision (sdk.rs).
THEOREM Implements ==
    ASSUME NoneIsNoVerdict
    PROVE  Spec => ImplementsExchange
  <1>1. Init => Mapped /\ Backend!Init
    BY Opens
  <1>2. Mapped /\ [Next]_vars => Mapped' /\ [Backend!Next]_(Backend!vars)
    BY StepMaps
  <1>3. QED
    BY <1>1, <1>2, PTL DEF Spec, ImplementsExchange, Backend!Spec

-----------------------------------------------------------------------------
(* The counters tell what clients saw: behind each stands the set of the    *)
(* requests it has counted, none of them twice.                             *)

\* None is assumed to be no epoch where what a stream has seen tells whether its body
\* was let in.
NoneIsNoEpoch == None \notin [Partitions -> Nat]

\* A client that is answered so has been counted so.
Answers(s, t, R, J) ==
    /\ t.status = 202 => s \in R
    /\ t.status \notin {0, 200, 202, 504} =>
           s \in J \/ Reserved(t.x.raw.path) \/ NotLetIn(t)

\* Of one stream, given the requests counted as routed and as rejected.
Booked(s, t, R, J) ==
    /\ s \in R \cup J <=> /\ t.verdict # None /\ t.pc # "producing"
                          /\ ~Reserved(t.x.raw.path) /\ ~NotLetIn(t)
    /\ t.upstream # None \/ (t.pc = "decided" /\ t.status = 0) => s \in R
    /\ Answers(s, t, R, J)
    /\ t.pc \in {"buffering", "resolving", "gating", "producing"} =>
           ~Reserved(t.x.raw.path) /\ ~NotLetIn(t)
    /\ t.pc = "observing" => Reserved(t.x.raw.path)
    /\ t.pc \in {"idle", "opened"} => t.seen = None /\ t.status = 0

Books(R, J) ==
    /\ Tally(Streams, R, J)
    /\ \A s \in Streams : Booked(s, stream[s], R, J)

\* After a step there are such sets again.
Balanced == \E R, J : Books(R, J)

\* A step that counts nothing.
LEMMA BooksStay ==
    ASSUME Inv, NEW R, NEW J, Books(R, J), NEW s \in Streams, NEW t, Becomes(s, t),
           UNCHANGED metrics, Booked(s, t, R, J)
    PROVE  Balanced'
  <1>1. \A r \in Streams : Booked(r, stream'[r], R, J)
    BY DEF Books, Becomes, Inv, IsRecord
  <1>2. Tally(Streams, R, J)'
    BY DEF Books, Tally
  <1>3. QED
    BY <1>1, <1>2 DEF Balanced, Books, Booked, Answers, NotLetIn

\* A step that counts its stream, for the first time.
LEMMA BooksGrow ==
    ASSUME Inv, IsFiniteSet(Streams), NEW R, NEW J, Books(R, J),
           NEW s \in Streams, s \notin R \cup J, NEW t, Becomes(s, t),
           NEW counter \in Counters, Count(counter),
           Booked(s, t, With(R, counter, "routed", s), With(J, counter, "rejected", s))
    PROVE  Balanced'
  <1> DEFINE R2 == With(R, counter, "routed", s)
             J2 == With(J, counter, "rejected", s)
  <1>1. ASSUME NEW r \in Streams \ {s} PROVE Booked(r, stream'[r], R2, J2)
    <2>1. /\ r \in R2 <=> r \in R
          /\ r \in J2 <=> r \in J
      BY DEF With
    <2>2. Booked(r, stream[r], R, J) /\ stream'[r] = stream[r]
      BY DEF Books, Becomes, Inv, IsRecord
    <2>3. QED
      <3> HIDE DEF R2, J2
      <3> QED
        BY <2>1, <2>2 DEF Booked, Answers
  <1>2. stream'[s] = t
    BY DEF Becomes, Inv, IsRecord
  <1>3. Tally(Streams, R2, J2)'
    BY TallyGrows DEF Books, Inv
  <1>4. \A r \in Streams : Booked(r, stream'[r], R2, J2)
    BY <1>1, <1>2
  <1>5. QED
    <2> HIDE DEF R2, J2
    <2> QED
      BY <1>3, <1>4 DEF Balanced, Books, Booked, Answers, NotLetIn

\* Who is counted now stands behind the counter.
LEMMA NowCounted ==
    ASSUME NEW R, NEW J, NEW s
    PROVE  /\ s \in With(R, "routed", "routed", s) /\ s \in With(J, "rejected", "rejected", s)
           /\ With(J, "routed", "rejected", s) = J /\ With(R, "rejected", "routed", s) = R
  BY DEF With

\* What has been told, and what telling leaves alone.
LEMMA ToldLeaves ==
    ASSUME NEW t, IsRecord(t, StreamFields), NEW verdict, NEW pc, NEW status
    PROVE  LET u == [Told(t, verdict) EXCEPT !.pc = pc, !.status = status]
               v == [Told(t, verdict) EXCEPT !.pc = pc]
           IN  /\ u.pc = pc /\ u.status = status /\ u.verdict = verdict /\ u.x = t.x
               /\ u.upstream = t.upstream /\ u.seen = t.seen
               /\ v.pc = pc /\ v.status = t.status /\ v.verdict = verdict /\ v.x = t.x
               /\ v.upstream = t.upstream /\ v.seen = t.seen
  BY DEF Told, IsRecord, StreamFields

\* A reply that counts nothing (SendResponse): a reserved path's, or a refusal at the
\* headers with a body to come.
LEMMA ReplyBooks ==
    ASSUME Inv, NEW s \in Streams, NEW reply, SendResponse(s, stream[s], reply),
           UNCHANGED metrics, HasStatus(reply), reply.to = "local", stream[s].verdict = None,
           Reserved(stream[s].x.raw.path) \/ NotLetIn(stream[s]),
           NEW R, NEW J, Books(R, J)
    PROVE  Balanced'
  <1> DEFINE t == stream[s]
             u == [Told(t, reply) EXCEPT !.pc = "decided", !.status = reply.status]
  <1>1. IsRecord(t, StreamFields) /\ Booked(s, t, R, J)
    BY DEF Inv, StreamInv, Books
  <1>2. /\ u.pc = "decided" /\ u.status = reply.status /\ u.verdict = reply /\ u.x = t.x
        /\ u.upstream = t.upstream /\ u.seen = t.seen
    BY <1>1, ToldLeaves
  <1>3. reply.status \notin {0, 202}
    BY DEF HasStatus
  <1>4. Booked(s, u, R, J)
    <2> HIDE DEF u
    <2> QED
      BY <1>1, <1>2, <1>3 DEF Booked, Answers, NotLetIn
  <1>5. Becomes(s, u)
    BY DEF SendResponse
  <1>6. QED
    <2> HIDE DEF u
    <2> QED
      BY <1>4, <1>5, BooksStay

\* The filter's word is counted, once, or after the produce (Conclude).
LEMMA ConcludeBooks ==
    ASSUME Inv, IsFiniteSet(Streams), NEW s \in Streams, NEW verdict,
           Conclude(s, stream[s], verdict), stream[s].verdict = None,
           verdict # None, HasStatus(verdict), ~Reserved(stream[s].x.raw.path),
           ~NotLetIn(stream[s]), NEW R, NEW J, Books(R, J)
    PROVE  Balanced'
  <1> DEFINE t == stream[s]
  <1>1. IsRecord(t, StreamFields) /\ Booked(s, t, R, J)
    BY DEF Inv, StreamInv, Books
  <1>2. s \notin R \cup J
    BY <1>1 DEF Booked
  <1>3. CASE verdict.to = "local" /\ Count("rejected") /\ SendResponse(s, t, verdict)
    <2> DEFINE u == [Told(t, verdict) EXCEPT !.pc = "decided", !.status = verdict.status]
               R2 == With(R, "rejected", "routed", s)
               J2 == With(J, "rejected", "rejected", s)
    <2>1. /\ u.pc = "decided" /\ u.status = verdict.status /\ u.verdict = verdict
          /\ u.x = t.x /\ u.upstream = t.upstream /\ u.seen = t.seen
      BY <1>1, ToldLeaves
    <2>2. verdict.status \notin {0, 202}
      BY <1>3 DEF HasStatus
    <2>3. s \in J2 /\ R2 = R
      BY NowCounted
    <2>4. Booked(s, u, R2, J2)
      <3> HIDE DEF u, R2, J2
      <3> QED
        BY <1>1, <1>2, <2>1, <2>2, <2>3 DEF Booked, Answers, NotLetIn
    <2>5. Becomes(s, u)
      BY <1>3 DEF SendResponse
    <2>6. QED
      <3> HIDE DEF u
      <3> QED
        BY <1>2, <1>3, <2>4, <2>5, BooksGrow DEF Counters
  <1>4. CASE Uncounted /\ Becomes(s, [Told(t, verdict) EXCEPT !.pc = "producing"])
    <2> DEFINE u == [Told(t, verdict) EXCEPT !.pc = "producing"]
    <2>1. /\ u.pc = "producing" /\ u.status = t.status /\ u.verdict = verdict
          /\ u.x = t.x /\ u.upstream = t.upstream /\ u.seen = t.seen
      BY <1>1, ToldLeaves
    <2>2. Booked(s, u, R, J)
      <3> HIDE DEF u
      <3> QED
        BY <1>1, <1>2, <2>1 DEF Booked, Answers, NotLetIn
    <2>3. Becomes(s, u) /\ UNCHANGED metrics
      BY <1>4 DEF Uncounted
    <2>4. QED
      <3> HIDE DEF u
      <3> QED
        BY <2>2, <2>3, BooksStay
  <1>5. CASE Count("routed") /\ Becomes(s, [Told(t, verdict) EXCEPT !.pc = "decided"])
    <2> DEFINE u == [Told(t, verdict) EXCEPT !.pc = "decided"]
               R2 == With(R, "routed", "routed", s)
               J2 == With(J, "routed", "rejected", s)
    <2>1. /\ u.pc = "decided" /\ u.status = t.status /\ u.verdict = verdict
          /\ u.x = t.x /\ u.upstream = t.upstream /\ u.seen = t.seen
      BY <1>1, ToldLeaves
    <2>2. s \in R2 /\ J2 = J
      BY NowCounted
    <2>3. Booked(s, u, R2, J2)
      <3> HIDE DEF u, R2, J2
      <3> QED
        BY <1>1, <1>2, <2>1, <2>2 DEF Booked, Answers, NotLetIn
    <2>4. Becomes(s, u) /\ Count("routed")
      BY <1>5
    <2>5. QED
      <3> HIDE DEF u
      <3> QED
        BY <1>2, <2>3, <2>4, BooksGrow DEF Counters
  <1>6. QED
    BY <1>3, <1>4, <1>5 DEF Conclude

\* A request is refused early, passes through, or goes to the router (Process).
LEMMA ProcessBooks ==
    ASSUME Inv, NoneIsNoVerdict, IsFiniteSet(Streams), NEW s \in Streams,
           Process(s, stream[s]), stream[s].verdict = None,
           ~Reserved(stream[s].x.raw.path), ~NotLetIn(stream[s]),
           NEW R, NEW J, Books(R, J)
    PROVE  Balanced'
  <1> DEFINE t == stream[s]
             early == Early(cfg, sink, t.x.async, Req(t))
             u == [t EXCEPT !.pc = "resolving"]
  <1>1. IsRecord(t, StreamFields) /\ Booked(s, t, R, J)
    BY DEF Inv, StreamInv, Books
  <1>2. CASE early # Pass /\ Conclude(s, t, early)
    <2>1. early # None /\ HasStatus(early)
      BY <1>2, VerdictsSpeak, RepliesHaveStatus DEF Speaks, NoneIsNoVerdict
    <2>2. QED
      <3> HIDE DEF early
      <3> QED
        BY <1>2, <2>1, ConcludeBooks
  <1>3. CASE Uncounted /\ Becomes(s, u)
    <2>1. /\ u.pc = "resolving" /\ u.x = t.x /\ u.status = t.status
          /\ u.verdict = t.verdict /\ u.upstream = t.upstream /\ u.seen = t.seen
      BY <1>1 DEF IsRecord, StreamFields
    <2>2. Booked(s, u, R, J)
      <3> HIDE DEF u
      <3> QED
        BY <1>1, <2>1 DEF Booked, Answers, NotLetIn
    <2>3. QED
      <3> HIDE DEF u
      <3> QED
        BY <1>3, <2>2, BooksStay DEF Uncounted
  <1>4. QED
    BY <1>2, <1>3 DEF Process

\* The two callbacks a request comes with.
LEMMA CallbacksBook ==
    ASSUME Inv, NoneIsNoVerdict, NoneIsNoEpoch, IsFiniteSet(Streams), NEW s \in Streams,
           MapInv(stream[s]), OnRequestHeaders(s) \/ OnRequestBody(s),
           NEW R, NEW J, Books(R, J)
    PROVE  Balanced'
  <1> DEFINE t == stream[s]
  <1>1. /\ IsRecord(t, StreamFields) /\ Booked(s, t, R, J)
        /\ t.pc \in {"opened", "buffering"}
    BY DEF Inv, StreamInv, Books, OnRequestHeaders, OnRequestBody
  <1>2. t.verdict = None /\ (t.pc = "opened" => t.seen = None /\ t.status = 0)
    BY <1>1 DEF MapInv, Undecided, Booked
  <1>3. CASE Process(s, t) /\ ~Reserved(t.x.raw.path) /\ ~NotLetIn(t)
    BY <1>2, <1>3, ProcessBooks
  <1>4. CASE /\ t.pc = "opened" /\ Uncounted /\ BeginReply(s, t)
             /\ Reserved(t.x.raw.path)
    <2> DEFINE glanced == Unseen(t.x)
               u == [t EXCEPT !.pc = "observing", !.glanced = glanced]
    <2>1. /\ u.pc = "observing" /\ u.x = t.x /\ u.status = t.status
          /\ u.verdict = t.verdict /\ u.upstream = t.upstream /\ u.seen = t.seen
      <3> HIDE DEF glanced
      <3> QED
        BY <1>1 DEF IsRecord, StreamFields
    <2>2. Booked(s, u, R, J)
      <3> HIDE DEF u
      <3> QED
        BY <1>1, <1>4, <2>1 DEF Booked, Answers, NotLetIn
    <2>3. Becomes(s, u) /\ UNCHANGED metrics
      BY <1>4 DEF BeginReply, Uncounted
    <2>4. QED
      <3> HIDE DEF u
      <3> QED
        BY <2>2, <2>3, BooksStay
  <1>5. CASE /\ t.pc = "opened" /\ Uncounted /\ ~Reserved(t.x.raw.path)
             /\ t.x.async /\ Becomes(s, [t EXCEPT !.pc = "buffering"])
    <2> DEFINE u == [t EXCEPT !.pc = "buffering"]
    <2>1. /\ u.pc = "buffering" /\ u.x = t.x /\ u.status = t.status
          /\ u.verdict = t.verdict /\ u.upstream = t.upstream /\ u.seen = t.seen
      BY <1>1 DEF IsRecord, StreamFields
    <2>2. Booked(s, u, R, J)
      <3> HIDE DEF u
      <3> QED
        BY <1>1, <1>5, <2>1 DEF Booked, Answers, NotLetIn
    <2>3. Becomes(s, u) /\ UNCHANGED metrics
      BY <1>5 DEF Uncounted
    <2>4. QED
      <3> HIDE DEF u
      <3> QED
        BY <2>2, <2>3, BooksStay
  <1>6. CASE /\ t.pc = "opened" /\ ~Reserved(t.x.raw.path) /\ RouteNow(s, t)
             /\ t.x.bodied /\ ~t.x.async
    <2> DEFINE route == RouteHeaders(cfg, [Req(t) EXCEPT !.body = None])
               commits == IF route.to = "cluster" THEN route.cluster ELSE None
               u == [t EXCEPT !.pc = "buffering", !.committed = commits, !.seen = epoch]
    <2>1. CASE route.to = "local" /\ SendResponse(s, t, route)
      <3>1. HasStatus(route) /\ NotLetIn(t) /\ UNCHANGED metrics
        BY <1>2, <1>6, RepliesHaveStatus DEF NotLetIn, RouteNow, Uncounted
      <3>2. QED
        <4> HIDE DEF route
        <4> QED
          BY <1>2, <2>1, <3>1, ReplyBooks
    <2>2. CASE route.to # "local" /\ Becomes(s, u)
      <3>1. /\ u.pc = "buffering" /\ u.x = t.x /\ u.status = t.status
            /\ u.verdict = t.verdict /\ u.upstream = t.upstream /\ u.seen = epoch
        <4> HIDE DEF commits
        <4> QED
          BY <1>1 DEF IsRecord, StreamFields
      <3>2. t.status = 0 /\ epoch # None
        BY <1>1, <1>6, <1>2 DEF NoneIsNoEpoch, Inv, PlacingInv
      <3>3. Booked(s, u, R, J)
        <4> HIDE DEF u
        <4> QED
          BY <1>1, <1>2, <1>6, <3>1, <3>2 DEF Booked, Answers, NotLetIn
      <3>4. QED
        <4> HIDE DEF u
        <4> QED
          BY <1>6, <2>2, <3>3, BooksStay DEF RouteNow, Uncounted
    <2>3. QED
      BY <1>6, <2>1, <2>2 DEF RouteNow
  <1>7. t.pc = "buffering" => ~Reserved(t.x.raw.path) /\ ~NotLetIn(t)
    BY <1>1 DEF Booked
  <1>8. QED
    BY <1>1, <1>3, <1>4, <1>5, <1>6, <1>7 DEF OnRequestHeaders, OnRequestBody, NotLetIn

\* A reserved path's reply, from its first look to its last (reserved_reply).
LEMMA ObserveBooks ==
    ASSUME Inv, NEW s \in Streams, MapInv(stream[s]), Observing(s) \/ Observed(s),
           NEW R, NEW J, Books(R, J)
    PROVE  Balanced'
  <1> DEFINE t == stream[s]
  <1>1. /\ IsRecord(t, StreamFields) /\ Booked(s, t, R, J) /\ t.pc = "observing"
        /\ UNCHANGED metrics
    BY DEF Inv, StreamInv, Books, Observing, Observed
  <1>2. t.verdict = None /\ Reserved(t.x.raw.path)
    BY <1>1 DEF MapInv, Booked
  <1>3. CASE Observing(s)
    <2>1. PICK glanced : Becomes(s, [t EXCEPT !.glanced = glanced])
      BY <1>3 DEF Observing
    <2> DEFINE u == [t EXCEPT !.glanced = glanced]
    <2>2. /\ u.pc = t.pc /\ u.x = t.x /\ u.status = t.status
          /\ u.verdict = t.verdict /\ u.upstream = t.upstream /\ u.seen = t.seen
      BY <1>1 DEF IsRecord, StreamFields
    <2>3. Booked(s, u, R, J)
      <3> HIDE DEF u
      <3> QED
        BY <1>1, <2>2 DEF Booked, Answers, NotLetIn
    <2>4. Becomes(s, u)
      BY <2>1
    <2>5. QED
      <3> HIDE DEF u
      <3> QED
        BY <1>1, <2>3, <2>4, BooksStay
  <1>4. CASE Observed(s)
    <2> DEFINE reply == Reply(t.x, t.glanced)
    <2>1. SendResponse(s, t, reply)
      BY <1>4 DEF Observed
    <2>2. reply.to = "local" /\ HasStatus(reply)
      BY DEF Reply, AdminReply, Immediate, HasStatus
    <2>3. QED
      <3> HIDE DEF reply
      <3> QED
        BY <1>1, <1>2, <2>1, <2>2, ReplyBooks
  <1>5. QED
    BY <1>3, <1>4

\* The two awaits: the router's answer counts nothing, the gate's is counted.
LEMMA QuestionsBook ==
    ASSUME Inv, NoneIsNoVerdict, IsFiniteSet(Streams), NEW s \in Streams,
           MapInv(stream[s]), ResolveNow(s) \/ Gate(s), NEW R, NEW J, Books(R, J)
    PROVE  Balanced'
  <1> DEFINE t == stream[s]
  <1>1. /\ IsRecord(t, StreamFields) /\ Booked(s, t, R, J)
        /\ t.pc \in {"resolving", "gating"}
    BY DEF Inv, StreamInv, Books, ResolveNow, Gate
  <1>2. t.verdict = None /\ ~Reserved(t.x.raw.path) /\ ~NotLetIn(t)
    BY <1>1 DEF MapInv, Booked, Undecided
  <1>3. CASE ResolveNow(s)
    <2> DEFINE looked == Look(Req(t))
               u == [t EXCEPT !.pc = "gating", !.looked = looked]
    <2>1. /\ u.pc = "gating" /\ u.x = t.x /\ u.status = t.status
          /\ u.verdict = t.verdict /\ u.upstream = t.upstream /\ u.seen = t.seen
      <3> HIDE DEF looked
      <3> QED
        BY <1>1 DEF IsRecord, StreamFields
    <2>2. Booked(s, u, R, J)
      <3> HIDE DEF u
      <3> QED
        BY <1>1, <1>2, <2>1 DEF Booked, Answers, NotLetIn
    <2>3. Becomes(s, u) /\ UNCHANGED metrics
      BY <1>3 DEF ResolveNow, Becomes, Inv, IsRecord
    <2>4. QED
      <3> HIDE DEF u
      <3> QED
        BY <2>2, <2>3, BooksStay
  <1>4. CASE Gate(s)
    <2> DEFINE verdict == Verdict(cfg, Req(t), t.looked.r, Admits(t.looked))
    <2>1. Conclude(s, t, verdict)
      BY <1>4 DEF Gate
    <2>2. verdict # None /\ HasStatus(verdict)
      BY VerdictsSpeak, RepliesHaveStatus DEF Speaks, NoneIsNoVerdict
    <2>3. QED
      <3> HIDE DEF verdict
      <3> QED
        BY <1>2, <2>1, <2>2, ConcludeBooks
  <1>5. QED
    BY <1>3, <1>4

\* The produce of an async write ends, and is counted as it ended (send_reply).
LEMMA ProducedBooks ==
    ASSUME Inv, IsFiniteSet(Streams), NEW s \in Streams, MapInv(stream[s]),
           Produces(s), NoneIsNoVerdict, NEW R, NEW J, Books(R, J)
    PROVE  Balanced'
  <1> DEFINE t == stream[s]
  <1>1. /\ IsRecord(t, StreamFields) /\ Booked(s, t, R, J) /\ t.pc = "producing"
        /\ IsRecord(stream, Streams)
    BY DEF Inv, StreamInv, Books, Produces, Acknowledged, NotAcknowledged, Produced
  <1>2. /\ t.verdict # None /\ s \notin R \cup J /\ ~Reserved(t.x.raw.path)
        /\ ~NotLetIn(t)
    BY <1>1 DEF MapInv, Booked, Speaks, NoneIsNoVerdict
  <1>3. ASSUME NEW counter \in Counters, NEW status, Count(counter),
               Becomes(s, Moved(t, "decided", status)), status # 0,
               status = 202 => counter = "routed",
               counter = "routed" => status = 202
        PROVE  Balanced'
    <2> DEFINE u == Moved(t, "decided", status)
               R2 == With(R, counter, "routed", s)
               J2 == With(J, counter, "rejected", s)
    <2>1. /\ u.pc = "decided" /\ u.status = status /\ u.x = t.x
          /\ u.verdict = t.verdict /\ u.upstream = t.upstream /\ u.seen = t.seen
      BY <1>1, MovedKeeps
    <2>2. /\ counter = "routed" => s \in R2
          /\ counter # "routed" => s \in J2
          /\ R \subseteq R2
      BY DEF With, Counters
    <2>3. Booked(s, u, R2, J2)
      <3> HIDE DEF u, R2, J2
      <3> QED
        BY <1>1, <1>2, <1>3, <2>1, <2>2 DEF Booked, Answers, NotLetIn
    <2>4. Becomes(s, u)
      BY <1>3
    <2>5. QED
      <3> HIDE DEF u
      <3> QED
        BY <1>2, <1>3, <2>3, <2>4, BooksGrow
  <1>4. Accepted202.status = 202 /\ Unavailable.status = 503
    BY DEF Accepted202, Unavailable, Immediate
  <1>5. ASSUME NEW reply, stream' = [stream EXCEPT ![s].pc = "decided", ![s].status = reply.status]
        PROVE  Becomes(s, Moved(t, "decided", reply.status))
    BY <1>1, <1>5 DEF Becomes, Moved, IsRecord
  <1>6. CASE Acknowledged(s)
    <2>1. Count("routed") /\ Becomes(s, Moved(t, "decided", Accepted202.status))
      BY <1>5, <1>6 DEF Acknowledged, Produced
    <2>2. QED
      BY <1>3, <1>4, <2>1 DEF Counters
  <1>7. CASE NotAcknowledged(s)
    <2>1. Count("rejected") /\ Becomes(s, Moved(t, "decided", Unavailable.status))
      BY <1>5, <1>7 DEF NotAcknowledged, Produced
    <2>2. QED
      BY <1>3, <1>4, <2>1 DEF Counters
  <1>8. QED
    BY <1>6, <1>7 DEF Produces

\* A request arrives (Open).
LEMMA OpenBooks ==
    ASSUME Inv, NEW s \in Streams, MapInv(stream[s]), NEW x \in Requests[s], Open(s, x),
           NEW R, NEW J, Books(R, J)
    PROVE  Balanced'
  <1>1. PICK w \in WorkersOf[s] : \E before :
            Becomes(s, [Unused EXCEPT !.pc = "opened", !.worker = w, !.x = x, !.before = before])
    BY DEF Open
  <1>2. PICK before :
            Becomes(s, [Unused EXCEPT !.pc = "opened", !.worker = w, !.x = x, !.before = before])
    BY <1>1
  <1> DEFINE u == [Unused EXCEPT !.pc = "opened", !.worker = w, !.x = x, !.before = before]
  <1>3. /\ u.pc = "opened" /\ u.x = x /\ u.status = 0 /\ u.verdict = None
        /\ u.upstream = None /\ u.seen = None
    BY DEF Unused
  <1>4. /\ Booked(s, stream[s], R, J) /\ stream[s].verdict = None
        /\ UNCHANGED metrics
    BY DEF Books, Open, MapInv
  <1>5. Booked(s, u, R, J) /\ Becomes(s, u)
    <2> HIDE DEF u
    <2> QED
      BY <1>2, <1>3, <1>4 DEF Booked, Answers, u
  <1>6. QED
    <2> HIDE DEF u
    <2> QED
      BY <1>4, <1>5, BooksStay

\* The way to the upstream and back, the client's answer, and a client that gives up.
LEMMA OthersBook ==
    ASSUME Inv, NEW s \in Streams, MapInv(stream[s]), NEW R, NEW J, Books(R, J),
           \/ Proceed(s) \/ OnResponseHeaders(s) \/ DecisionHeader(s)
           \/ OnResponseBody(s) \/ GiveUp(s)
    PROVE  Balanced'
  <1> DEFINE t == stream[s]
  <1>1. /\ IsRecord(t, StreamFields) /\ Booked(s, t, R, J) /\ IsRecord(stream, Streams)
        /\ UNCHANGED metrics
        /\ t.pc \in {"opened", "buffering", "decided", "upstream", "shaping", "responding"}
    BY DEF Inv, StreamInv, Books, Proceed, OnResponseHeaders, DecisionHeader,
           OnResponseBody, GiveUp
  <1>2. ASSUME NEW pc \in {"shaping", "responding", "closed"}, NEW status \in {t.status, 200, 504},
               Becomes(s, Moved(t, pc, status))
        PROVE  Balanced'
    <2> DEFINE u == Moved(t, pc, status)
    <2>1. /\ u.pc = pc /\ u.status = status /\ u.x = t.x /\ u.verdict = t.verdict
          /\ u.upstream = t.upstream /\ u.seen = t.seen
      BY <1>1, MovedKeeps
    <2>3. Booked(s, u, R, J)
      <3> HIDE DEF u
      <3> QED
        BY <1>1, <1>2, <2>1 DEF Booked, Answers, NotLetIn
    <2>4. Becomes(s, u)
      BY <1>2
    <2>5. QED
      <3> HIDE DEF u
      <3> QED
        BY <1>1, <2>3, <2>4, BooksStay
  <1>3. ASSUME NEW pc PROVE Moved(t, pc, t.status) = [t EXCEPT !.pc = pc]
    BY <1>1 DEF Moved, IsRecord, StreamFields
  <1>4. ASSUME NEW pc, NEW status
        PROVE  Moved(t, pc, status) = [t EXCEPT !.pc = pc, !.status = status]
    BY DEF Moved
  <1>5. CASE PassHeaders(s)
    <2> DEFINE ok == 200
    <2>1. \/ Becomes(s, [t EXCEPT !.pc = "responding"])
          \/ Becomes(s, [t EXCEPT !.pc = "closed", !.status = ok])
      BY <1>5 DEF PassHeaders
    <2>2. Moved(t, "responding", t.status) = [t EXCEPT !.pc = "responding"]
      <3> HIDE DEF t
      <3> QED
        BY <1>3
    <2>3. Moved(t, "closed", ok) = [t EXCEPT !.pc = "closed", !.status = ok]
      BY DEF Moved
    <2>4. \/ Becomes(s, Moved(t, "responding", t.status))
          \/ Becomes(s, Moved(t, "closed", ok))
      <3> HIDE DEF t, ok
      <3> QED
        BY <2>1, <2>2, <2>3
    <2>5. QED
      BY <1>2, <2>4
  <1>6. CASE OnResponseHeaders(s) \/ DecisionHeader(s)
    <2>1. CASE Becomes(s, [t EXCEPT !.pc = "shaping"])
      <3>1. Becomes(s, Moved(t, "shaping", t.status))
        BY <1>3, <2>1
      <3>2. QED
        BY <1>2, <3>1
    <2>2. QED
      BY <1>5, <1>6, <2>1 DEF OnResponseHeaders, DecisionHeader
  <1>7. CASE OnResponseBody(s)
    <2> DEFINE ok == 200
    <2>1. Becomes(s, Moved(t, "closed", ok))
      BY <1>7 DEF OnResponseBody, Moved
    <2>2. QED
      BY <1>2, <2>1
  <1>8. CASE GiveUp(s)
    <2> DEFINE timeout == 504
    <2>1. stream' = [stream EXCEPT ![s].pc = "closed", ![s].status = timeout]
      BY <1>8 DEF GiveUp
    <2>2. Becomes(s, Moved(t, "closed", timeout))
      <3> HIDE DEF timeout
      <3> QED
        BY <1>1, <2>1 DEF Becomes, Moved, IsRecord
    <2>3. QED
      BY <1>2, <2>2
  <1>9. CASE Proceed(s) /\ t.status # 0
    <2>1. Becomes(s, Moved(t, "closed", t.status))
      BY <1>3, <1>9 DEF Proceed
    <2>2. QED
      BY <1>2, <2>1
  <1>10. CASE Proceed(s) /\ t.status = 0
    <2> DEFINE to == Routed(t, t.verdict)
               u == [t EXCEPT !.pc = "upstream", !.upstream = to]
    <2>1. /\ u.pc = "upstream" /\ u.x = t.x /\ u.verdict = t.verdict /\ u.status = t.status
          /\ u.upstream = to /\ u.seen = t.seen
      <3> HIDE DEF to
      <3> QED
        BY <1>1 DEF IsRecord, StreamFields
    <2>2. t.pc = "decided" /\ Becomes(s, u)
      BY <1>10 DEF Proceed
    <2>3. Booked(s, u, R, J)
      <3> HIDE DEF u, to
      <3> QED
        BY <1>1, <1>10, <2>1, <2>2 DEF Booked, Answers, NotLetIn
    <2>4. QED
      <3> HIDE DEF u
      <3> QED
        BY <1>1, <2>2, <2>3, BooksStay
  <1>11. QED
    BY <1>6, <1>7, <1>8, <1>9, <1>10

\* The books balance after every step.
LEMMA StepBooks ==
    ASSUME Mapped, NoneIsNoVerdict, NoneIsNoEpoch, IsFiniteSet(Streams), Balanced, [Next]_vars
    PROVE  Balanced'
  <1>1. PICK R : \E J : Books(R, J)
    BY DEF Balanced
  <1>2. PICK J : Books(R, J)
    BY <1>1
  <1>3. CASE UNCHANGED <<stream, metrics>>
    BY <1>2, <1>3 DEF Balanced, Books, Booked, Answers, NotLetIn, Tally
  <1>4. ASSUME NEW s \in Streams,
               \/ \E x \in Requests[s] : Open(s, x)
               \/ Works(s) \/ Produces(s) \/ GiveUp(s)
        PROVE  Balanced'
    <2>1. Inv /\ MapInv(stream[s])
      BY DEF Mapped
    <2>2. QED
      BY <1>2, <1>4, <2>1, CallbacksBook, ObserveBooks, QuestionsBook, ProducedBooks,
         OpenBooks, OthersBook DEF Works
  <1>5. QED
    BY <1>3, <1>4 DEF Next, vars

\* Before the first request nobody is counted.
LEMMA BooksOpen ==
    ASSUME Init
    PROVE  Mapped /\ Balanced
  <1>1. Tally(Streams, {}, {})
    BY TallyStarts DEF Init
  <1>2. ASSUME NEW s \in Streams PROVE Booked(s, stream[s], {}, {})
    BY DEF Init, Unused, Booked, Answers
  <1>3. QED
    BY <1>1, <1>2, Opens DEF Balanced, Books

\* The sets behind the counters hold whom clients count, and nobody but those who
\* are settled.
LEMMA BooksTell ==
    ASSUME IsFiniteSet(Streams), Balanced
    PROVE  CountersTell
  <1>1. PICK R : \E J : Books(R, J)
    BY DEF Balanced
  <1>2. PICK J : Books(R, J)
    BY <1>1
  <1>3. Served \in SUBSET R
    BY <1>2 DEF Books, Tally, Booked, Answers, Served
  <1>4. Refused \ RefusedAtHeaders \in SUBSET J
    BY <1>2 DEF Books, Booked, Answers, Refused, RefusedAtHeaders
  <1>5. R \cup J = Settled
    BY <1>2 DEF Books, Tally, Booked, Settled
  <1>6. Tally(Streams, R, J)
    BY <1>2 DEF Books
  <1>7. /\ Cardinality(Served) <= metrics["routed"]
        /\ Cardinality(Refused \ RefusedAtHeaders) <= metrics["rejected"]
    <2>1. \A served \in SUBSET R : \A refused \in SUBSET J : \A asked \in SUBSET Streams :
              R \cup J \subseteq asked =>
                  /\ Cardinality(served) <= metrics["routed"]
                  /\ Cardinality(refused) <= metrics["rejected"]
      BY <1>6, TallyTells
    <2>2. R \cup J \in SUBSET Streams
      BY <1>6 DEF Tally
    <2>3. QED
      BY <1>3, <1>4, <2>1, <2>2, Zenon
  <1>8. metrics["routed"] + metrics["rejected"] = Cardinality(Settled)
    BY <1>5, <1>6, TallyAdds
  <1>9. QED
    BY <1>7, <1>8 DEF CountersTell

\* Every request that the filter is done with is counted, once, for any number of streams
\* and workers, whoever gives up when, and what clients were answered is in the counter it
\* belongs to; a request that is refused at its headers, with a body to come, is in
\* neither (sdk.rs).
THEOREM CountersAdd ==
    ASSUME NoneIsNoVerdict, NoneIsNoEpoch, IsFiniteSet(Streams)
    PROVE  Spec => []CountersTell
  <1>1. Init => Mapped /\ Balanced
    BY BooksOpen
  <1>2. Mapped /\ Balanced /\ [Next]_vars => Mapped' /\ Balanced'
    BY StepMaps, StepBooks
  <1>3. Balanced => CountersTell
    BY BooksTell
  <1>4. QED
    BY <1>1, <1>2, <1>3, PTL DEF Spec

\* Where no body comes but with an async write, every client that was refused is counted,
\* as the documentation has it of all (sdk.rs).
THEOREM RejectionsAdd ==
    ASSUME NoneIsNoVerdict, NoneIsNoEpoch, IsFiniteSet(Streams), NoBodies
    PROVE  Spec => []RejectionsCounted
  <1>1. Init => Mapped /\ Balanced
    BY BooksOpen
  <1>2. Mapped /\ Balanced /\ [Next]_vars => Mapped' /\ Balanced'
    BY StepMaps, StepBooks
  <1>3. ASSUME Mapped, Balanced
        PROVE  RejectionsCounted
    <2>1. \A s \in Streams : stream[s].pc = "idle" => stream[s].status = 0
      BY <1>3 DEF Balanced, Books, Booked
    <2>2. \A s \in Refused : stream[s].x \in Requests[s]
      BY <1>3, <2>1 DEF Refused, Mapped, Inv, StreamInv
    <2>3. Refused \ RefusedAtHeaders = Refused
      BY <2>2 DEF NoBodies, RefusedAtHeaders, NotLetIn, Refused
    <2>4. QED
      BY <1>3, <2>3, BooksTell DEF CountersTell, RejectionsCounted
  <1>4. QED
    BY <1>1, <1>2, <1>3, PTL DEF Spec

-----------------------------------------------------------------------------
(* A scrape reports what the counters were, each at a moment since it began.*)

\* Of one stream, given the counters.
Scraping(t, m) ==
    t.before # None =>
        /\ t.x.raw.path = MetricsPath
        /\ Begun(t.before, m)
        /\ t.pc = "observing" => Glanced(t.before, t.glanced, m)
        /\ t.verdict # None => Scraped(t.before, t.verdict.code, m)

Scrapes == \A s \in Streams : Scraping(stream[s], metrics)

\* A step of another stream may count.
LEMMA ScrapingStays ==
    ASSUME NEW t, NEW m, NEW n, Later(m, n), Scraping(t, m)
    PROVE  Scraping(t, n)
  BY ReadingsStay DEF Scraping

\* The callbacks on a request that is not for a reserved path.
Decides(s) ==
    \/ OnRequestBody(s) \/ ResolveNow(s) \/ Gate(s)
    \/ OnRequestHeaders(s) /\ ~Reserved(stream[s].x.raw.path)

\* The steps that leave a reply as it is.
PassesOn(s) ==
    \/ Produces(s) \/ Proceed(s) \/ OnResponseHeaders(s) \/ DecisionHeader(s)
    \/ OnResponseBody(s) \/ GiveUp(s)

\* What was telling a verdict leaves alone.
LEMMA TellingLeaves ==
    ASSUME Inv, NEW s \in Streams, NEW verdict,
           \/ SendResponse(s, stream[s], verdict)
           \/ Conclude(s, stream[s], verdict)
    PROVE  stream'[s].x = stream[s].x /\ stream'[s].before = stream[s].before
  <1>1. IsRecord(stream[s], StreamFields) /\ IsRecord(stream, Streams)
    BY DEF Inv, StreamInv
  <1>2. PICK t : /\ Becomes(s, t)
                 /\ \/ t = [Told(stream[s], verdict) EXCEPT !.pc = "decided",
                                                            !.status = verdict.status]
                    \/ \E pc : t = [Told(stream[s], verdict) EXCEPT !.pc = pc]
    BY DEF SendResponse, Conclude
  <1>3. t.x = stream[s].x /\ t.before = stream[s].before
    BY <1>1, <1>2 DEF Told, IsRecord, StreamFields
  <1>4. QED
    BY <1>1, <1>2, <1>3 DEF Becomes, IsRecord

\* A request's callbacks leave the request as it is.
LEMMA DecidingLeaves ==
    ASSUME Inv, NEW s \in Streams, Decides(s)
    PROVE  stream'[s].x = stream[s].x /\ stream'[s].before = stream[s].before
  <1> DEFINE t == stream[s]
  <1>1. IsRecord(t, StreamFields) /\ IsRecord(stream, Streams)
    BY DEF Inv, StreamInv
  <1>0. ASSUME NEW u, stream' = [stream EXCEPT ![s] = u], u.x = t.x, u.before = t.before
        PROVE  stream'[s].x = t.x /\ stream'[s].before = t.before
    BY <1>0, <1>1 DEF IsRecord
  <1>2. ASSUME NEW pc, Becomes(s, [t EXCEPT !.pc = pc])
        PROVE  stream'[s].x = t.x /\ stream'[s].before = t.before
    <2> DEFINE u == [t EXCEPT !.pc = pc]
    <2>1. u.x = t.x /\ u.before = t.before
      BY <1>1 DEF IsRecord, StreamFields
    <2>2. stream' = [stream EXCEPT ![s] = u]
      BY <1>2 DEF Becomes
    <2>3. QED
      <3> HIDE DEF u
      <3> QED
        BY <1>0, <2>1, <2>2
  <1>3. CASE Process(s, t)
    BY <1>2, <1>3, TellingLeaves DEF Process
  <1>4. CASE RouteNow(s, t)
    <2> DEFINE route == RouteHeaders(cfg, [Req(t) EXCEPT !.body = None])
               commits == IF route.to = "cluster" THEN route.cluster ELSE None
               u == [t EXCEPT !.pc = "buffering", !.committed = commits, !.seen = epoch]
    <2>1. SendResponse(s, t, route) \/ stream' = [stream EXCEPT ![s] = u]
      BY <1>4 DEF RouteNow, Becomes
    <2>2. u.x = t.x /\ u.before = t.before
      <3> HIDE DEF commits
      <3> QED
        BY <1>1 DEF IsRecord, StreamFields
    <2>3. QED
      <3> HIDE DEF route, u
      <3> QED
        BY <1>0, <2>1, <2>2, TellingLeaves
  <1>5. CASE ResolveNow(s)
    <2> DEFINE looked == Look(Req(t))
               u == [t EXCEPT !.pc = "gating", !.looked = looked]
    <2>1. u.x = t.x /\ u.before = t.before
      <3> HIDE DEF looked
      <3> QED
        BY <1>1 DEF IsRecord, StreamFields
    <2>2. stream' = [stream EXCEPT ![s] = u]
      BY <1>1, <1>5 DEF ResolveNow, IsRecord
    <2>3. QED
      <3> HIDE DEF u
      <3> QED
        BY <1>0, <2>1, <2>2
  <1>6. CASE Gate(s)
    BY <1>6, TellingLeaves DEF Gate
  <1>7. CASE OnRequestBody(s) \/ (OnRequestHeaders(s) /\ ~Reserved(stream[s].x.raw.path))
    <2>1. Process(s, t) \/ RouteNow(s, t) \/ Becomes(s, [t EXCEPT !.pc = "buffering"])
      BY <1>7 DEF OnRequestBody, OnRequestHeaders
    <2>2. QED
      BY <1>2, <1>3, <1>4, <2>1
  <1>8. QED
    BY <1>5, <1>6, <1>7 DEF Decides

\* What was said stays said.
LEMMA PassingLeaves ==
    ASSUME Inv, NEW s \in Streams, PassesOn(s)
    PROVE  /\ stream'[s].x = stream[s].x /\ stream'[s].before = stream[s].before
           /\ stream'[s].verdict = stream[s].verdict /\ stream'[s].pc # "observing"
  <1>1. IsRecord(stream[s], StreamFields) /\ IsRecord(stream, Streams)
    BY DEF Inv, StreamInv
  <1>2. ASSUME NEW u, Becomes(s, u), u.x = stream[s].x, u.before = stream[s].before,
               u.verdict = stream[s].verdict, u.pc # "observing"
        PROVE  /\ stream'[s].x = stream[s].x /\ stream'[s].before = stream[s].before
               /\ stream'[s].verdict = stream[s].verdict /\ stream'[s].pc # "observing"
    BY <1>1, <1>2 DEF Becomes, IsRecord
  <1>3. ASSUME NEW pc, pc # "observing", NEW status, Becomes(s, Moved(stream[s], pc, status))
        PROVE  /\ stream'[s].x = stream[s].x /\ stream'[s].before = stream[s].before
               /\ stream'[s].verdict = stream[s].verdict /\ stream'[s].pc # "observing"
    <2> DEFINE u == Moved(stream[s], pc, status)
    <2>1. /\ u.x = stream[s].x /\ u.before = stream[s].before
          /\ u.verdict = stream[s].verdict /\ u.pc = pc
      BY <1>1 DEF Moved, IsRecord, StreamFields
    <2>2. QED
      <3> HIDE DEF u
      <3> QED
        BY <1>2, <1>3, <2>1 DEF u
  <1>4. ASSUME NEW pc
        PROVE  [stream[s] EXCEPT !.pc = pc] = Moved(stream[s], pc, stream[s].status)
    BY <1>1 DEF Moved, IsRecord, StreamFields
  <1>5. CASE Produces(s) \/ GiveUp(s)
    <2>1. PICK pc \in {"decided", "closed"} : \E status :
              stream' = [stream EXCEPT ![s].pc = pc, ![s].status = status]
      BY <1>5 DEF Produces, Acknowledged, NotAcknowledged, Produced, GiveUp
    <2>2. PICK status : stream' = [stream EXCEPT ![s].pc = pc, ![s].status = status]
      BY <2>1
    <2>3. Becomes(s, Moved(stream[s], pc, status))
      BY <1>1, <2>2 DEF Becomes, Moved, IsRecord
    <2>4. QED
      BY <1>3, <2>1, <2>3
  <1>6. CASE Proceed(s)
    <2> DEFINE to == Routed(stream[s], stream[s].verdict)
               u == [stream[s] EXCEPT !.pc = "upstream", !.upstream = to]
    <2>1. /\ u.x = stream[s].x /\ u.before = stream[s].before
          /\ u.verdict = stream[s].verdict /\ u.pc = "upstream"
      <3> HIDE DEF to
      <3> QED
        BY <1>1 DEF IsRecord, StreamFields
    <2>2. Becomes(s, u) \/ Becomes(s, [stream[s] EXCEPT !.pc = "closed"])
      BY <1>6 DEF Proceed
    <2>3. QED
      <3> HIDE DEF u
      <3> QED
        BY <1>2, <1>3, <1>4, <2>1, <2>2
  <1>7. CASE OnResponseHeaders(s) \/ DecisionHeader(s) \/ OnResponseBody(s)
    <2> DEFINE ok == 200
    <2>1. Moved(stream[s], "closed", ok) = [stream[s] EXCEPT !.pc = "closed", !.status = ok]
      BY DEF Moved
    <2>2. \/ \E pc \in {"shaping", "responding"} : Becomes(s, [stream[s] EXCEPT !.pc = pc])
          \/ Becomes(s, [stream[s] EXCEPT !.pc = "closed", !.status = ok])
      BY <1>7 DEF OnResponseHeaders, DecisionHeader, OnResponseBody, PassHeaders
    <2>3. QED
      BY <1>3, <1>4, <2>1, <2>2
  <1>8. QED
    BY <1>5, <1>6, <1>7 DEF PassesOn

\* Every step of a stream counts at most once.
LEMMA StepGrows ==
    ASSUME Inv, NEW s \in Streams,
           \/ \E x \in Requests[s] : Open(s, x)
           \/ Works(s) \/ Produces(s) \/ GiveUp(s)
    PROVE  /\ Later(metrics, metrics')
           /\ \A r \in Streams \ {s} : stream'[r] = stream[r]
  <1>1. Uncounted \/ UNCHANGED metrics \/ (\E c \in Counters : Count(c))
    BY DEF Open, Works, OnRequestHeaders, OnRequestBody, Process, Conclude, RouteNow, Gate,
           ResolveNow, Observing, Observed, Proceed, OnResponseHeaders, DecisionHeader,
           OnResponseBody, GiveUp, Produces, Acknowledged, NotAcknowledged, Produced, Counters
  <1>2. Surface
    BY DEF Inv
  <1>3. \A r \in Streams \ {s} : stream'[r] = stream[r]
    BY CallbacksKeep, ResolveKeeps, GateKeeps, OthersKeep, ObserveKeeps, ResponseHeadersKeep
       DEF Works
  <1>4. QED
    BY <1>1, <1>2, <1>3, OnlyGrow

\* A scrape's own steps, from its callback to its reply.
LEMMA ReplyScrapes ==
    ASSUME Inv, NEW s \in Streams, MapInv(stream[s]), Scraping(stream[s], metrics),
           \/ OnRequestHeaders(s) /\ Reserved(stream[s].x.raw.path)
           \/ Observing(s) \/ Observed(s)
    PROVE  Scraping(stream'[s], metrics')
  <1> DEFINE t == stream[s]
  <1>1. /\ IsRecord(t, StreamFields) /\ IsRecord(stream, Streams) /\ Surface
        /\ UNCHANGED metrics
    BY DEF Inv, StreamInv, OnRequestHeaders, Observing, Observed, Uncounted
  <1>2. t.verdict = None
    BY DEF MapInv, Undecided, OnRequestHeaders, Observing, Observed
  <1>3. CASE OnRequestHeaders(s) /\ Reserved(t.x.raw.path)
    <2> DEFINE glanced == Unseen(t.x)
               u == [t EXCEPT !.pc = "observing", !.glanced = glanced]
    <2>1. Becomes(s, u)
      BY <1>3 DEF OnRequestHeaders, BeginReply
    <2>2. /\ u.pc = "observing" /\ u.x = t.x /\ u.before = t.before /\ u.verdict = None
          /\ u.glanced = glanced
      <3> HIDE DEF glanced
      <3> QED
        BY <1>1, <1>2 DEF IsRecord, StreamFields
    <2>3. stream'[s] = u
      BY <1>1, <2>1 DEF Becomes, IsRecord
    <2>4. Scraping(u, metrics)
      <3> HIDE DEF u
      <3> QED
        BY <1>1, <2>2, GlancesRead DEF Scraping
    <2>5. QED
      <3> HIDE DEF u
      <3> QED
        BY <1>1, <2>3, <2>4
  <1>4. CASE Observing(s)
    <2>1. PICK glanced \in Glances(t.x, t.glanced) :
              Becomes(s, [t EXCEPT !.glanced = glanced])
      BY <1>4 DEF Observing
    <2> DEFINE u == [t EXCEPT !.glanced = glanced]
    <2>2. /\ u.pc = t.pc /\ u.x = t.x /\ u.before = t.before /\ u.verdict = None
          /\ u.glanced = glanced /\ t.pc = "observing"
      BY <1>1, <1>2, <1>4 DEF IsRecord, StreamFields, Observing
    <2>3. stream'[s] = u
      BY <1>1, <2>1 DEF Becomes, IsRecord
    <2>4. Scraping(u, metrics)
      <3> HIDE DEF u
      <3> QED
        BY <1>1, <2>1, <2>2, GlancesRead DEF Scraping
    <2>5. QED
      <3> HIDE DEF u
      <3> QED
        BY <1>1, <2>3, <2>4
  <1>5. CASE Observed(s)
    <2> DEFINE reply == Reply(t.x, t.glanced)
               u == [Told(t, reply) EXCEPT !.pc = "decided", !.status = reply.status]
    <2>1. Becomes(s, u) /\ t.pc = "observing"
      BY <1>5 DEF Observed, SendResponse
    <2>2. /\ u.pc = "decided" /\ u.x = t.x /\ u.before = t.before /\ u.verdict = reply
      <3> HIDE DEF reply
      <3> QED
        BY <1>1 DEF Told, IsRecord, StreamFields
    <2>3. stream'[s] = u
      BY <1>1, <2>1 DEF Becomes, IsRecord
    <2>4. t.before # None => Scraped(t.before, reply.code, metrics)
      BY <1>1, <2>1, SnapshotReads DEF Scraping
    <2>5. Scraping(u, metrics)
      <3> HIDE DEF u, reply
      <3> QED
        BY <2>2, <2>4 DEF Scraping
    <2>6. QED
      <3> HIDE DEF u
      <3> QED
        BY <1>1, <2>3, <2>5
  <1>6. QED
    BY <1>3, <1>4, <1>5

\* A scrape begins (Open).
LEMMA OpenScrapes ==
    ASSUME Inv, IsFiniteSet(Streams), CountersTell, NEW s \in Streams,
           NEW x \in Requests[s], Open(s, x)
    PROVE  Scraping(stream'[s], metrics')
  <1> DEFINE before == IF x.raw.path = MetricsPath
                       THEN [served |-> Cardinality(Served),
                             refused |-> Cardinality(Refused \ RefusedAtHeaders)]
                       ELSE None
  <1>1. PICK w \in WorkersOf[s] :
            Becomes(s, [Unused EXCEPT !.pc = "opened", !.worker = w, !.x = x, !.before = before])
    BY DEF Open
  <1> DEFINE u == [Unused EXCEPT !.pc = "opened", !.worker = w, !.x = x, !.before = before]
  <1>2. stream'[s] = u /\ UNCHANGED metrics /\ Surface
    BY <1>1 DEF Becomes, Inv, IsRecord, Open
  <1>3. u.pc = "opened" /\ u.x = x /\ u.before = before /\ u.verdict = None
    <2> HIDE DEF before
    <2> QED
      BY DEF Unused
  <1>4. /\ before # None => x.raw.path = MetricsPath
        /\ x.raw.path = MetricsPath =>
               /\ before.served = Cardinality(Served)
               /\ before.refused = Cardinality(Refused \ RefusedAtHeaders)
    OBVIOUS
  <1>5. Cardinality(Served) \in Nat /\ Cardinality(Refused \ RefusedAtHeaders) \in Nat
    <2>1. Served \subseteq Streams /\ Refused \ RefusedAtHeaders \subseteq Streams
      BY DEF Served, Refused
    <2>2. IsFiniteSet(Served) /\ IsFiniteSet(Refused \ RefusedAtHeaders)
      BY <2>1, FS_Subset
    <2>3. QED
      BY <2>2, FS_CardinalityType
  <1>6. before # None => Begun(before, metrics)
    <2> HIDE DEF before
    <2> QED
      BY <1>2, <1>4, <1>5, ScrapeBegins DEF CountersTell
  <1>7. Scraping(u, metrics)
    <2> HIDE DEF u, before
    <2> QED
      BY <1>3, <1>4, <1>6 DEF Scraping
  <1>8. QED
    <2> HIDE DEF u
    <2> QED
      BY <1>2, <1>7

\* No step spoils a scrape.
LEMMA StepScrapes ==
    ASSUME Mapped, IsFiniteSet(Streams), Balanced, CountersTell, Scrapes, [Next]_vars
    PROVE  Scrapes'
  <1>1. Inv /\ \A s \in Streams : MapInv(stream[s]) /\ Scraping(stream[s], metrics)
    BY DEF Mapped, Scrapes
  <1>2. CASE UNCHANGED <<stream, metrics>>
    BY <1>1, <1>2 DEF Scrapes
  <1>3. ASSUME NEW s \in Streams,
               \/ \E x \in Requests[s] : Open(s, x)
               \/ Works(s) \/ Produces(s) \/ GiveUp(s)
        PROVE  Scrapes'
    <2>1. /\ Later(metrics, metrics')
          /\ \A r \in Streams \ {s} : stream'[r] = stream[r]
      BY <1>1, <1>3, StepGrows
    <2>2. \A r \in Streams \ {s} : Scraping(stream'[r], metrics')
      BY <1>1, <2>1, ScrapingStays
    <2>3. Scraping(stream[s], metrics')
      BY <1>1, <2>1, ScrapingStays
    <2>4. CASE Decides(s)
      <3>1. ~Reserved(stream[s].x.raw.path)
        BY <1>1, <2>4 DEF Balanced, Books, Booked, Decides, OnRequestBody, ResolveNow, Gate
      <3>2. stream[s].before = None
        BY <1>1, <3>1 DEF Scraping, Reserved
      <3>3. Scraping(stream'[s], metrics')
        BY <1>1, <2>4, <3>2, DecidingLeaves DEF Scraping
      <3>4. QED
        BY <2>2, <3>3 DEF Scrapes
    <2>5. CASE PassesOn(s)
      <3>1. Scraping(stream'[s], metrics')
        BY <1>1, <2>3, <2>5, PassingLeaves DEF Scraping
      <3>2. QED
        BY <2>2, <3>1 DEF Scrapes
    <2>6. CASE \/ OnRequestHeaders(s) /\ Reserved(stream[s].x.raw.path)
               \/ Observing(s) \/ Observed(s)
      <3>1. Scraping(stream'[s], metrics')
        BY <1>1, <2>6, ReplyScrapes
      <3>2. QED
        BY <2>2, <3>1 DEF Scrapes
    <2>7. CASE \E x \in Requests[s] : Open(s, x)
      <3>1. Scraping(stream'[s], metrics')
        BY <1>1, <2>7, OpenScrapes
      <3>2. QED
        BY <2>2, <3>1 DEF Scrapes
    <2>8. QED
      BY <1>3, <2>4, <2>5, <2>6, <2>7 DEF Works, Decides, PassesOn
  <1>4. QED
    BY <1>2, <1>3 DEF Next, vars

\* What a scrape reports, for any number of streams: no client that had its answer when
\* the scrape began is missing, and no request is invented (snapshot_json).
THEOREM ScrapesAdd ==
    ASSUME NoneIsNoVerdict, NoneIsNoEpoch, IsFiniteSet(Streams)
    PROVE  Spec => []ScrapesTell
  <1>1. Init => Mapped /\ Balanced /\ Scrapes
    <2> SUFFICES ASSUME Init PROVE Scrapes
      BY BooksOpen
    <2>1. \A s \in Streams : stream[s].before = None
      BY DEF Init, Unused
    <2>2. QED
      BY <2>1 DEF Scrapes, Scraping
  <1>2. Mapped /\ Balanced /\ Scrapes /\ [Next]_vars => Mapped' /\ Balanced' /\ Scrapes'
    BY StepMaps, StepBooks, StepScrapes, BooksTell
  <1>3. Mapped /\ Balanced /\ Scrapes => ScrapesTell
    <2> SUFFICES ASSUME Mapped, Balanced, Scrapes, NEW s \in Streams,
                        stream[s].verdict # None, stream[s].before # None
                 PROVE  ScrapeTells(stream[s].verdict.code, stream[s].before.served,
                                    stream[s].before.refused, Cardinality(Settled))
      BY DEF ScrapesTell
    <2>1. Surface /\ Scraped(stream[s].before, stream[s].verdict.code, metrics)
      BY DEF Mapped, Inv, Scrapes, Scraping
    <2>2. metrics["routed"] + metrics["rejected"] = Cardinality(Settled)
      BY BooksTell DEF CountersTell
    <2>3. Cardinality(Settled) \in Nat
      <3>1. Settled \subseteq Streams
        BY DEF Settled
      <3>2. IsFiniteSet(Settled)
        BY <3>1, FS_Subset
      <3>3. QED
        BY <3>2, FS_CardinalityType
    <2>4. QED
      BY <2>1, <2>2, <2>3, ReportTells
  <1>4. QED
    BY <1>1, <1>2, <1>3, PTL DEF Spec

-----------------------------------------------------------------------------
(* A stream goes on.                                                        *)

\* How far each place is from the end.
LEMMA StepsCount ==
    ASSUME NEW t
    PROVE  /\ t.pc = "idle" => StepsAhead(t) = 10
           /\ t.pc = "opened" => StepsAhead(t) = 9
           /\ t.pc = "buffering" => StepsAhead(t) = 8
           /\ t.pc \in {"observing", "resolving"} => StepsAhead(t) = 7
           /\ t.pc = "gating" => StepsAhead(t) = 6
           /\ t.pc = "producing" => StepsAhead(t) = 5
           /\ t.pc = "decided" => StepsAhead(t) = 4
           /\ t.pc = "upstream" => StepsAhead(t) = 3
           /\ t.pc = "shaping" => StepsAhead(t) = 2
           /\ t.pc = "responding" => StepsAhead(t) = 1
           /\ t.pc = "closed" => StepsAhead(t) = 0
  BY DEF StepsAhead

\* Where a stream is after a step of its own.
Gets(s, places) ==
    stream'[s].pc \in places /\ \A r \in Streams \ {s} : stream'[r] = stream[r]

\* A stream changes its place, whatever else of it changes.
LEMMA GetsTo ==
    ASSUME Inv, NEW s \in Streams, NEW t, NEW places, Becomes(s, t), t.pc \in places
    PROVE  Gets(s, places)
  BY DEF Inv, IsRecord, Becomes, Gets

\* The filter has spoken (SendResponse, Conclude).
LEMMA TellingGets ==
    ASSUME Inv, NEW s \in Streams, NEW verdict,
           \/ SendResponse(s, stream[s], verdict)
           \/ Conclude(s, stream[s], verdict)
    PROVE  Gets(s, {"decided", "producing"})
  <1>1. IsRecord(stream[s], StreamFields)
    BY DEF Inv, StreamInv
  <1>2. PICK t : /\ Becomes(s, t)
                 /\ \/ t = [Told(stream[s], verdict) EXCEPT !.pc = "decided",
                                                            !.status = verdict.status]
                    \/ \E pc \in {"decided", "producing"} :
                           t = [Told(stream[s], verdict) EXCEPT !.pc = pc]
    BY DEF SendResponse, Conclude
  <1>3. t.pc \in {"decided", "producing"}
    BY <1>1, <1>2 DEF Told, IsRecord, StreamFields
  <1>4. QED
    BY <1>2, <1>3, GetsTo

\* The callbacks of a request and their steps.
LEMMA CallbacksGet ==
    ASSUME Inv, NEW s \in Streams
    PROVE  /\ Process(s, stream[s]) => Gets(s, {"resolving", "decided", "producing"})
           /\ OnRequestHeaders(s) =>
                  Gets(s, {"observing", "buffering", "resolving", "decided", "producing"})
           /\ ResolveNow(s) => Gets(s, {"gating"})
           /\ Gate(s) => Gets(s, {"decided", "producing"})
           /\ Observed(s) => Gets(s, {"decided", "producing"})
  <1> DEFINE t == stream[s]
  <1>1. IsRecord(t, StreamFields) /\ IsRecord(stream, Streams)
    BY DEF Inv, StreamInv
  <1>2. ASSUME NEW places, NEW pc \in places, Becomes(s, [t EXCEPT !.pc = pc])
        PROVE  Gets(s, places)
    <2> DEFINE u == [t EXCEPT !.pc = pc]
    <2>1. u.pc = pc
      BY <1>1 DEF IsRecord, StreamFields
    <2>2. QED
      <3> HIDE DEF u
      <3> QED
        BY <1>2, <2>1, GetsTo DEF u
  <1>3. ASSUME Process(s, t) PROVE Gets(s, {"resolving", "decided", "producing"})
    <2>1. CASE Becomes(s, [t EXCEPT !.pc = "resolving"])
      BY <1>2, <2>1
    <2>2. CASE \E verdict : Conclude(s, t, verdict)
      BY <2>2, TellingGets DEF Gets
    <2>3. QED
      BY <1>3, <2>1, <2>2 DEF Process
  <1>4. ASSUME OnRequestHeaders(s)
        PROVE  Gets(s, {"observing", "buffering", "resolving", "decided", "producing"})
    <2>1. CASE BeginReply(s, t)
      <3> DEFINE glanced == Unseen(t.x)
                 u == [t EXCEPT !.pc = "observing", !.glanced = glanced]
      <3>1. u.pc = "observing"
        <4> HIDE DEF glanced
        <4> QED
          BY <1>1 DEF IsRecord, StreamFields
      <3>2. Becomes(s, u)
        BY <2>1 DEF BeginReply
      <3>3. QED
        <4> HIDE DEF u
        <4> QED
          BY <3>1, <3>2, GetsTo
    <2>2. CASE RouteNow(s, t)
      <3> DEFINE route == RouteHeaders(cfg, [Req(t) EXCEPT !.body = None])
                 commits == IF route.to = "cluster" THEN route.cluster ELSE None
                 u == [t EXCEPT !.pc = "buffering", !.committed = commits, !.seen = epoch]
      <3>1. SendResponse(s, t, route) \/ Becomes(s, u)
        BY <2>2 DEF RouteNow
      <3>2. u.pc = "buffering"
        <4> HIDE DEF commits
        <4> QED
          BY <1>1 DEF IsRecord, StreamFields
      <3>3. CASE SendResponse(s, t, route)
        BY <3>3, TellingGets DEF Gets
      <3>4. CASE Becomes(s, u)
        <4> HIDE DEF u
        <4> QED
          BY <3>2, <3>4, GetsTo
      <3>5. QED
        BY <3>1, <3>3, <3>4
    <2>3. CASE Process(s, t)
      BY <1>3, <2>3 DEF Gets
    <2>4. CASE Becomes(s, [t EXCEPT !.pc = "buffering"])
      BY <1>2, <2>4
    <2>5. QED
      BY <1>4, <2>1, <2>2, <2>3, <2>4 DEF OnRequestHeaders
  <1>5. ASSUME ResolveNow(s) PROVE Gets(s, {"gating"})
    <2> DEFINE looked == Look(Req(t))
               u == [t EXCEPT !.pc = "gating", !.looked = looked]
    <2>1. u.pc = "gating"
      <3> HIDE DEF looked
      <3> QED
        BY <1>1 DEF IsRecord, StreamFields
    <2>2. Becomes(s, u)
      BY <1>1, <1>5 DEF ResolveNow, IsRecord, Becomes
    <2>3. QED
      <3> HIDE DEF u
      <3> QED
        BY <2>1, <2>2, GetsTo
  <1>6. QED
    BY <1>3, <1>4, <1>5, TellingGets DEF Gate, Observed

\* The steps of a reply on a reserved path, in full.
LEMMA RepliesAre ==
    ASSUME Inv, NEW s \in Streams
    PROVE  LET t == stream[s] IN
           /\ OnRequestHeaders(s) /\ Reserved(t.x.raw.path) =>
                  /\ stream'[s].pc = "observing" /\ stream'[s].x = t.x
                  /\ stream'[s].glanced = Unseen(t.x) /\ stream'[s].verdict = t.verdict
           /\ Observing(s) =>
                  /\ stream'[s].pc = "observing" /\ stream'[s].x = t.x
                  /\ stream'[s].glanced \in Glances(t.x, t.glanced)
                  /\ stream'[s].verdict = t.verdict
           /\ Observed(s) =>
                  /\ stream'[s].pc = "decided" /\ stream'[s].x = t.x
                  /\ stream'[s].verdict = Reply(t.x, t.glanced)
  <1> DEFINE t == stream[s]
  <1>1. IsRecord(t, StreamFields) /\ IsRecord(stream, Streams)
    BY DEF Inv, StreamInv
  <1>2. ASSUME NEW u, Becomes(s, u) PROVE stream'[s] = u
    BY <1>1, <1>2 DEF Becomes, IsRecord
  <1>3. ASSUME NEW pc, NEW glanced, Becomes(s, [t EXCEPT !.pc = pc, !.glanced = glanced])
        PROVE  /\ stream'[s].pc = pc /\ stream'[s].x = t.x /\ stream'[s].glanced = glanced
               /\ stream'[s].verdict = t.verdict
    <2> DEFINE u == [t EXCEPT !.pc = pc, !.glanced = glanced]
    <2>1. u.pc = pc /\ u.x = t.x /\ u.glanced = glanced /\ u.verdict = t.verdict
      BY <1>1 DEF IsRecord, StreamFields
    <2>2. stream'[s] = u
      BY <1>2, <1>3
    <2>3. QED
      <3> HIDE DEF u
      <3> QED
        BY <2>1, <2>2
  <1>4. ASSUME OnRequestHeaders(s), Reserved(t.x.raw.path)
        PROVE  /\ stream'[s].pc = "observing" /\ stream'[s].x = t.x
               /\ stream'[s].glanced = Unseen(t.x) /\ stream'[s].verdict = t.verdict
    <2>1. Becomes(s, [t EXCEPT !.pc = "observing", !.glanced = Unseen(t.x)])
      BY <1>4 DEF OnRequestHeaders, BeginReply
    <2>2. QED
      BY <1>3, <2>1
  <1>5. ASSUME Observing(s)
        PROVE  /\ stream'[s].pc = "observing" /\ stream'[s].x = t.x
               /\ stream'[s].glanced \in Glances(t.x, t.glanced)
               /\ stream'[s].verdict = t.verdict
    <2>1. PICK glanced \in Glances(t.x, t.glanced) : Becomes(s, [t EXCEPT !.glanced = glanced])
      BY <1>5 DEF Observing
    <2>2. [t EXCEPT !.glanced = glanced] = [t EXCEPT !.pc = "observing", !.glanced = glanced]
      BY <1>1, <1>5 DEF Observing, IsRecord, StreamFields
    <2>3. QED
      BY <1>3, <2>1, <2>2
  <1>6. ASSUME Observed(s)
        PROVE  /\ stream'[s].pc = "decided" /\ stream'[s].x = t.x
               /\ stream'[s].verdict = Reply(t.x, t.glanced)
    <2> DEFINE reply == Reply(t.x, t.glanced)
               u == [Told(t, reply) EXCEPT !.pc = "decided", !.status = reply.status]
    <2>1. u.pc = "decided" /\ u.x = t.x /\ u.verdict = reply
      BY <1>1, ToldIs
    <2>2. stream'[s] = u
      BY <1>2, <1>6 DEF Observed, SendResponse
    <2>3. QED
      <3> HIDE DEF u
      <3> QED
        BY <2>1, <2>2
  <1>7. QED
    BY <1>4, <1>5, <1>6

\* Everything that only moves a stream on.
LEMMA PassingGets ==
    ASSUME Inv, NEW s \in Streams
    PROVE  /\ (\E x \in Requests[s] : Open(s, x)) => Gets(s, {"opened"})
           /\ Produces(s) => Gets(s, {"decided"})
           /\ GiveUp(s) \/ OnResponseBody(s) => Gets(s, {"closed"})
           /\ Proceed(s) => Gets(s, {"upstream", "closed"})
           /\ OnResponseHeaders(s) => Gets(s, {"shaping", "responding", "closed"})
           /\ DecisionHeader(s) => Gets(s, {"responding", "closed"})
  <1> DEFINE t == stream[s]
  <1>1. IsRecord(t, StreamFields) /\ IsRecord(stream, Streams)
    BY DEF Inv, StreamInv
  <1>2. ASSUME NEW places, NEW pc \in places, NEW status, Becomes(s, Moved(t, pc, status))
        PROVE  Gets(s, places)
    <2>1. Moved(t, pc, status).pc = pc
      BY <1>1, MovedKeeps
    <2>2. QED
      BY <1>2, <2>1, GetsTo
  <1>3. ASSUME NEW places, NEW pc \in places, Becomes(s, [t EXCEPT !.pc = pc])
        PROVE  Gets(s, places)
    <2>1. [t EXCEPT !.pc = pc] = Moved(t, pc, t.status)
      BY <1>1 DEF Moved, IsRecord, StreamFields
    <2>2. QED
      BY <1>2, <1>3, <2>1
  <1>4. ASSUME NEW x \in Requests[s], Open(s, x) PROVE Gets(s, {"opened"})
    <2>1. PICK w \in WorkersOf[s] : \E before :
              Becomes(s, [Unused EXCEPT !.pc = "opened", !.worker = w, !.x = x,
                                        !.before = before])
      BY <1>4 DEF Open
    <2>2. PICK before :
              Becomes(s, [Unused EXCEPT !.pc = "opened", !.worker = w, !.x = x,
                                        !.before = before])
      BY <2>1
    <2> DEFINE u == [Unused EXCEPT !.pc = "opened", !.worker = w, !.x = x, !.before = before]
    <2>3. u.pc = "opened"
      BY DEF Unused
    <2>4. QED
      <3> HIDE DEF u
      <3> QED
        BY <2>2, <2>3, GetsTo DEF u
  <1>5. ASSUME NEW places, NEW pc \in places, NEW status,
               stream' = [stream EXCEPT ![s].pc = pc, ![s].status = status]
        PROVE  Gets(s, places)
    <2>1. Becomes(s, Moved(t, pc, status))
      BY <1>1, <1>5 DEF Becomes, Moved, IsRecord
    <2>2. QED
      BY <1>2, <2>1
  <1>6. ASSUME Produces(s) PROVE Gets(s, {"decided"})
    BY <1>5, <1>6 DEF Produces, Acknowledged, NotAcknowledged, Produced
  <1>7. ASSUME NEW places, "closed" \in places, NEW status,
               Becomes(s, [t EXCEPT !.pc = "closed", !.status = status])
        PROVE  Gets(s, places)
    BY <1>2, <1>7 DEF Moved
  <1>8. ASSUME GiveUp(s) \/ OnResponseBody(s) PROVE Gets(s, {"closed"})
    BY <1>5, <1>7, <1>8 DEF GiveUp, OnResponseBody
  <1>9. ASSUME Proceed(s) PROVE Gets(s, {"upstream", "closed"})
    <2> DEFINE to == Routed(t, t.verdict)
               u == [t EXCEPT !.pc = "upstream", !.upstream = to]
    <2>1. u.pc = "upstream"
      <3> HIDE DEF to
      <3> QED
        BY <1>1 DEF IsRecord, StreamFields
    <2>2. Becomes(s, u) \/ Becomes(s, [t EXCEPT !.pc = "closed"])
      BY <1>9 DEF Proceed
    <2>3. QED
      <3> HIDE DEF u
      <3> QED
        BY <1>3, <2>1, <2>2, GetsTo
  <1>10. ASSUME PassHeaders(s) PROVE Gets(s, {"responding", "closed"})
    BY <1>3, <1>7, <1>10 DEF PassHeaders
  <1>11. ASSUME OnResponseHeaders(s) PROVE Gets(s, {"shaping", "responding", "closed"})
    BY <1>3, <1>10, <1>11 DEF OnResponseHeaders, Gets
  <1>12. QED
    BY <1>4, <1>6, <1>8, <1>9, <1>10, <1>11 DEF DecisionHeader

\* A step of a stream takes it nearer to its end, or its reply nearer to its last step.
Advances(was, now) ==
    \/ now = was
    \/ StepsAhead(now) < StepsAhead(was)
    \/ /\ was.pc = "observing" /\ now.pc = "observing"
       /\ GlancesAhead(now.x, now.glanced) < GlancesAhead(was.x, was.glanced)

LEMMA StepAdvances ==
    ASSUME Inv, NEW s \in Streams,
           \/ \E x \in Requests[s] : Open(s, x)
           \/ Works(s) \/ Produces(s) \/ GiveUp(s)
    PROVE  /\ Advances(stream[s], stream'[s])
           /\ \A r \in Streams \ {s} : stream'[r] = stream[r]
  <1> SUFFICES Advances(stream[s], stream'[s])
    BY StepGrows
  <1>1. ASSUME NEW places, Gets(s, places),
               \A t : t.pc \in places => StepsAhead(t) < StepsAhead(stream[s])
        PROVE  Advances(stream[s], stream'[s])
    BY <1>1 DEF Gets, Advances
  <1>2. CASE \E x \in Requests[s] : Open(s, x)
    <2>1. Gets(s, {"opened"}) /\ stream[s].pc = "idle"
      BY <1>2, PassingGets DEF Open
    <2>2. QED
      BY <1>1, <2>1, StepsCount
  <1>3. CASE OnRequestHeaders(s)
    <2>1. Gets(s, {"observing", "buffering", "resolving", "decided", "producing"}) /\ stream[s].pc = "opened"
      BY <1>3, CallbacksGet DEF OnRequestHeaders
    <2>2. QED
      BY <1>1, <2>1, StepsCount
  <1>4. CASE OnRequestBody(s)
    <2>1. Gets(s, {"resolving", "decided", "producing"}) /\ stream[s].pc = "buffering"
      BY <1>4, CallbacksGet DEF OnRequestBody
    <2>2. QED
      BY <1>1, <2>1, StepsCount
  <1>5. CASE ResolveNow(s)
    <2>1. Gets(s, {"gating"}) /\ stream[s].pc = "resolving"
      BY <1>5, CallbacksGet DEF ResolveNow
    <2>2. QED
      BY <1>1, <2>1, StepsCount
  <1>6. CASE Gate(s)
    <2>1. Gets(s, {"decided", "producing"}) /\ stream[s].pc = "gating"
      BY <1>6, CallbacksGet DEF Gate
    <2>2. QED
      BY <1>1, <2>1, StepsCount
  <1>7. CASE Observed(s)
    <2>1. Gets(s, {"decided", "producing"}) /\ stream[s].pc = "observing"
      BY <1>7, CallbacksGet DEF Observed
    <2>2. QED
      BY <1>1, <2>1, StepsCount
  <1>8. CASE Observing(s)
    <2> DEFINE t == stream[s]
    <2>1. PICK glanced \in Glances(t.x, t.glanced) :
              Becomes(s, [t EXCEPT !.glanced = glanced])
      BY <1>8 DEF Observing
    <2> DEFINE u == [t EXCEPT !.glanced = glanced]
    <2>2. t.pc = "observing" /\ IsRecord(t, StreamFields) /\ Ordered(t.x, t.glanced)
      BY <1>8 DEF Observing, Inv, StreamInv
    <2>3. /\ u.pc = "observing" /\ u.x = t.x /\ u.glanced = glanced
          /\ glanced = t.glanced => u = t
      BY <2>2 DEF IsRecord, StreamFields
    <2>4. stream'[s] = u
      BY <2>1 DEF Becomes, Inv, IsRecord
    <2>5. glanced # t.glanced => GlancesAhead(t.x, glanced) < GlancesAhead(t.x, t.glanced)
      BY <2>2, GlancesEnd
    <2>6. QED
      <3> HIDE DEF u
      <3> QED
        BY <2>2, <2>3, <2>4, <2>5 DEF Advances
  <1>9. CASE Produces(s)
    <2>1. Gets(s, {"decided"}) /\ stream[s].pc = "producing"
      BY <1>9, PassingGets DEF Produces, Acknowledged, NotAcknowledged, Produced
    <2>2. QED
      BY <1>1, <2>1, StepsCount
  <1>10. CASE Proceed(s)
    <2>1. Gets(s, {"upstream", "closed"}) /\ stream[s].pc = "decided"
      BY <1>10, PassingGets DEF Proceed
    <2>2. QED
      BY <1>1, <2>1, StepsCount
  <1>11. CASE OnResponseHeaders(s)
    <2>1. Gets(s, {"shaping", "responding", "closed"}) /\ stream[s].pc = "upstream"
      BY <1>11, PassingGets DEF OnResponseHeaders
    <2>2. QED
      BY <1>1, <2>1, StepsCount
  <1>12. CASE DecisionHeader(s)
    <2>1. Gets(s, {"responding", "closed"}) /\ stream[s].pc = "shaping"
      BY <1>12, PassingGets DEF DecisionHeader
    <2>2. QED
      BY <1>1, <2>1, StepsCount
  <1>13. CASE OnResponseBody(s)
    <2>1. Gets(s, {"closed"}) /\ stream[s].pc = "responding"
      BY <1>13, PassingGets DEF OnResponseBody
    <2>2. QED
      BY <1>1, <2>1, StepsCount
  <1>14. CASE GiveUp(s)
    <2>1. Gets(s, {"closed"}) /\ stream[s].pc \in {"opened", "buffering", "decided", "upstream", "responding"}
      BY <1>14, PassingGets DEF GiveUp
    <2>2. QED
      BY <1>1, <2>1, StepsCount
  <1>15. QED
    BY <1>2, <1>3, <1>4, <1>5, <1>6, <1>7, <1>8, <1>9, <1>10, <1>11, <1>12, <1>13,
       <1>14 DEF Works

\* Nothing that happens to a stream sets it back: with one worker or many, whatever is
\* moved and whoever gives up, it has at most ten steps ahead of it and those of a reply
\* (sdk.rs).
THEOREM ProgressMade == Spec => StreamsProgress
  <1>1. ASSUME Inv, [Next]_vars
        PROVE  [\A s \in Streams : Advances(stream[s], stream'[s])]_vars
    <2>1. CASE UNCHANGED stream
      BY <2>1 DEF Advances
    <2>2. QED
      BY <1>1, <2>1, StepAdvances DEF Next, vars, Advances
  <1>2. QED
    BY <1>1, Sound, PTL DEF Spec, StreamsProgress, Advances

\* A request is held back only for a body.
Buffered == \A s \in Streams : stream[s].pc = "buffering" => stream[s].x.bodied

\* No step holds a request back for nothing.
LEMMA StepBuffers ==
    ASSUME Inv, Buffered, [Next]_vars
    PROVE  Buffered'
  <1>1. CASE UNCHANGED stream
    BY <1>1 DEF Buffered
  <1>2. ASSUME NEW s \in Streams,
               \/ \E x \in Requests[s] : Open(s, x)
               \/ Works(s) \/ Produces(s) \/ GiveUp(s)
        PROVE  Buffered'
    <2>1. \A r \in Streams \ {s} : stream'[r] = stream[r]
      BY <1>2, StepGrows
    <2>2. ASSUME stream'[s].pc = "buffering" => stream'[s].x.bodied
          PROVE  Buffered'
      BY <2>1, <2>2 DEF Buffered
    <2>3. CASE OnRequestHeaders(s)
      <3>1. CASE Reserved(stream[s].x.raw.path)
        <4>1. stream'[s].pc = "observing"
          BY <2>3, <3>1, RepliesAre
        <4>2. QED
          BY <2>2, <4>1
      <3>2. CASE ~Reserved(stream[s].x.raw.path) /\ ~stream[s].x.bodied
        <4>1. Process(s, stream[s])
          BY <2>3, <3>2 DEF OnRequestHeaders
        <4>2. stream'[s].pc # "buffering"
          BY <4>1, CallbacksGet DEF Gets
        <4>3. QED
          BY <2>2, <4>2
      <3>3. CASE ~Reserved(stream[s].x.raw.path) /\ stream[s].x.bodied
        <4>1. stream'[s].x = stream[s].x
          BY <2>3, <3>3, DecidingLeaves DEF Decides
        <4>2. QED
          BY <2>2, <3>3, <4>1
      <3>4. QED
        BY <3>1, <3>2, <3>3
    <2>4. CASE OnRequestBody(s)
      <3>1. stream'[s].pc # "buffering"
        BY <2>4, CallbacksGet DEF OnRequestBody, Gets
      <3>2. QED
        BY <2>2, <3>1
    <2>5. CASE ResolveNow(s) \/ Gate(s) \/ Observed(s)
      <3>1. stream'[s].pc # "buffering"
        BY <2>5, CallbacksGet DEF Gets
      <3>2. QED
        BY <2>2, <3>1
    <2>6. CASE Observing(s)
      <3>1. stream'[s].pc # "buffering"
        BY <2>6, RepliesAre
      <3>2. QED
        BY <2>2, <3>1
    <2>7. CASE \/ \E x \in Requests[s] : Open(s, x)
               \/ Produces(s) \/ GiveUp(s) \/ OnResponseBody(s)
               \/ Proceed(s) \/ OnResponseHeaders(s) \/ DecisionHeader(s)
      <3>1. stream'[s].pc # "buffering"
        BY <2>7, PassingGets DEF Gets
      <3>2. QED
        BY <2>2, <3>1
    <2>8. QED
      BY <1>2, <2>3, <2>4, <2>5, <2>6, <2>7 DEF Works
  <1>3. QED
    BY <1>1, <1>2 DEF Next, vars

\* With any number of streams on any number of workers, a stream that is not over can
\* go on, or waits for a callback of its worker that can, or for the broker (sdk.rs).
THEOREM WorkersFreed == Spec => []NobodyStuck
  <1>1. Init => Inv /\ Buffered
    <2> SUFFICES ASSUME Init PROVE Buffered
      BY StartsSound
    <2>1. \A s \in Streams : stream[s].pc = "idle"
      BY DEF Init, Unused
    <2>2. QED
      BY <2>1 DEF Buffered
  <1>2. Inv /\ Buffered /\ [Next]_vars => Inv' /\ Buffered'
    BY StepSound, StepBuffers
  <1>3. ASSUME Inv, Buffered PROVE NobodyStuck
    <2> SUFFICES ASSUME NEW s \in Streams, stream[s].pc \notin {"idle", "closed"}
                 PROVE  \E r \in Streams : /\ stream[r].worker = stream[s].worker
                                           /\ Ready(r) \/ stream[r].pc = "producing"
      BY DEF NobodyStuck
    <2>1. ASSUME NEW r \in Streams, stream[r].pc \in Running
          PROVE  Ready(r) \/ stream[r].pc = "producing"
      BY <2>1 DEF Running, Ready
    <2>2. CASE ~Idling(stream[s].worker)
      BY <2>1, <2>2 DEF Idling
    <2>3. CASE Idling(stream[s].worker)
      <3>1. stream[s].pc \in {"opened", "buffering", "decided", "upstream", "responding"}
        BY <1>3, <2>3 DEF Inv, StreamInv, Idling
      <3>2. Ready(s)
        BY <1>3, <2>3, <3>1 DEF Ready, Buffered
      <3>3. QED
        BY <3>2
    <2>4. QED
      BY <2>2, <2>3
  <1>4. QED
    BY <1>1, <1>2, <1>3, PTL DEF Spec

-----------------------------------------------------------------------------
(* The directive.                                                           *)

\* The request is an order, and its token is right.
Orderly(t) == t.pc # "idle" /\ t.x.raw.path = AdminPath /\ Authorized(t.x)

\* A reply without the token has no orders to carry out.
Meek(t) ==
    t.pc = "observing" /\ t.x.raw.path = AdminPath /\ ~Authorized(t.x) => t.glanced = <<>>

\* Somebody will still read the flag, or was told it as it is, or nobody has ordered.
Directed ==
    \/ \E s \in Streams : Orderly(stream[s]) /\ stream[s].pc = "observing"
    \/ \E s \in Streams : /\ Orderly(stream[s]) /\ stream[s].verdict # None
                          /\ stream[s].verdict.code = emit
    \/ /\ \A s \in Streams : Orderly(stream[s]) => stream[s].verdict = None
       /\ emit = EmitAtStart

Operated == Directed /\ \A s \in Streams : Meek(stream[s])

\* A step that orders nothing and tells no operator anything.
LEMMA DirectedStays ==
    ASSUME Directed, NEW s \in Streams, \A r \in Streams \ {s} : stream'[r] = stream[r],
           UNCHANGED emit,
           Orderly(stream[s]) => /\ Orderly(stream'[s])
                                 /\ stream'[s].verdict = stream[s].verdict
                                 /\ stream[s].pc = "observing" => stream'[s].pc = "observing",
           Orderly(stream'[s]) /\ ~Orderly(stream[s]) => stream'[s].verdict = None
    PROVE  Directed'
  <1>1. CASE \E r \in Streams : Orderly(stream[r]) /\ stream[r].pc = "observing"
    <2>1. PICK r \in Streams : Orderly(stream[r]) /\ stream[r].pc = "observing"
      BY <1>1
    <2>2. Orderly(stream'[r]) /\ stream'[r].pc = "observing"
      BY <2>1
    <2>3. QED
      BY <2>2 DEF Directed
  <1>2. CASE \E r \in Streams : /\ Orderly(stream[r]) /\ stream[r].verdict # None
                                /\ stream[r].verdict.code = emit
    <2>1. PICK r \in Streams : /\ Orderly(stream[r]) /\ stream[r].verdict # None
                               /\ stream[r].verdict.code = emit
      BY <1>2
    <2>2. Orderly(stream'[r]) /\ stream'[r].verdict = stream[r].verdict
      BY <2>1
    <2>3. QED
      BY <2>1, <2>2 DEF Directed
  <1>3. CASE /\ \A r \in Streams : Orderly(stream[r]) => stream[r].verdict = None
             /\ emit = EmitAtStart
    <2>1. ASSUME NEW r \in Streams, Orderly(stream'[r]) PROVE stream'[r].verdict = None
      BY <1>3, <2>1
    <2>2. QED
      BY <1>3, <2>1 DEF Directed
  <1>4. QED
    BY <1>1, <1>2, <1>3 DEF Directed

\* Whatever was ordered, somebody will still read it, or was told it.
LEMMA DirectedBy ==
    ASSUME NEW s \in Streams, Orderly(stream'[s]),
           \/ stream'[s].pc = "observing"
           \/ stream'[s].verdict # None /\ stream'[s].verdict.code = emit'
    PROVE  Directed'
  BY DEF Directed

\* The steps of a reply, and the operator's stake in them.
LEMMA RepliesDirect ==
    ASSUME Inv, NoneIsNoVerdict, NEW s \in Streams, MapInv(stream[s]),
           Directed, Meek(stream[s]), \A r \in Streams \ {s} : stream'[r] = stream[r],
           \/ OnRequestHeaders(s) /\ Reserved(stream[s].x.raw.path)
           \/ Observing(s) \/ Observed(s)
    PROVE  Directed' /\ Meek(stream'[s])
  <1> DEFINE t == stream[s]
  <1>1. /\ t.verdict = None /\ t.pc \in {"opened", "observing"}
        /\ t.pc # "idle" /\ stream'[s].x = t.x /\ stream'[s].pc \in {"observing", "decided"}
    BY RepliesAre DEF OnRequestHeaders, Observing, Observed, MapInv, Undecided
  <1>2. Orderly(stream'[s]) <=> Orderly(t)
    BY <1>1 DEF Orderly
  <1>3. CASE OnRequestHeaders(s) /\ Reserved(t.x.raw.path)
    <2>1. UNCHANGED emit
      BY <1>3 DEF OnRequestHeaders, settings
    <2>2. Directed'
      BY <1>1, <1>2, <1>3, <2>1, RepliesAre, DirectedStays
    <2>3. Meek(stream'[s])
      BY <1>1, <1>3, RepliesAre, PlaneReplies DEF Meek
    <2>4. QED
      BY <2>2, <2>3
  <1>4. CASE Observing(s)
    <2>1. t.pc = "observing" /\ Obeys(t.x, t.glanced) /\ Glances(t.x, t.glanced) # {}
      BY <1>4 DEF Observing
    <2>2. t.x.raw.path = AdminPath => Authorized(t.x)
      BY <2>1, PlaneReplies DEF Meek
    <2>3. Meek(stream'[s])
      BY <1>1, <2>2 DEF Meek
    <2>4. CASE Orderly(t)
      BY <1>2, <1>4, <2>3, <2>4, RepliesAre, DirectedBy
    <2>5. CASE ~Orderly(t)
      <3>1. UNCHANGED emit
        BY <1>1, <2>1, <2>2, <2>5 DEF Orderly, Obeys
      <3>2. QED
        BY <1>2, <2>3, <2>5, <3>1, DirectedStays
    <2>6. QED
      BY <2>4, <2>5
  <1>5. CASE Observed(s)
    <2>1. UNCHANGED emit
      BY <1>5 DEF Observed, settings
    <2>2. Meek(stream'[s])
      BY <1>5, RepliesAre DEF Meek
    <2>3. CASE Orderly(t)
      <3>1. stream'[s].verdict = Immediate(200, emit)
        BY <1>5, <2>3, RepliesAre, PlaneReplies DEF Orderly
      <3>2. stream'[s].verdict # None /\ stream'[s].verdict.code = emit
        BY <3>1 DEF Immediate, NoneIsNoVerdict
      <3>3. QED
        BY <1>2, <2>1, <2>2, <2>3, <3>2, DirectedBy
    <2>4. CASE ~Orderly(t)
      BY <1>2, <2>1, <2>2, <2>4, DirectedStays
    <2>5. QED
      BY <2>3, <2>4
  <1>6. QED
    BY <1>3, <1>4, <1>5

\* A request that reaches the filter is not for a reserved path, nor was it.
LEMMA DecidesUnreserved ==
    ASSUME Mapped, Balanced, NEW s \in Streams, Decides(s)
    PROVE  ~Reserved(stream[s].x.raw.path) /\ stream'[s].x = stream[s].x
  BY DecidingLeaves DEF Mapped, Balanced, Books, Booked, Decides, OnRequestBody, ResolveNow, Gate

\* A request arrives.
LEMMA OpenIs ==
    ASSUME Inv, NEW s \in Streams, NEW x \in Requests[s], Open(s, x)
    PROVE  stream'[s].pc = "opened" /\ stream'[s].verdict = None /\ UNCHANGED <<placing, emit>>
  <1>1. PICK w, before : Becomes(s, [Unused EXCEPT !.pc = "opened", !.worker = w, !.x = x,
                                                   !.before = before])
    BY DEF Open
  <1> DEFINE u == [Unused EXCEPT !.pc = "opened", !.worker = w, !.x = x, !.before = before]
  <1>2. u.pc = "opened" /\ u.verdict = None
    BY DEF Unused
  <1>3. stream'[s] = u
    BY <1>1 DEF Becomes, Inv, IsRecord
  <1>4. QED
    <2> HIDE DEF u
    <2> QED
      BY <1>2, <1>3 DEF Open, settings

\* No step leaves an operator told what nobody has.
LEMMA StepOperates ==
    ASSUME Mapped, NoneIsNoVerdict, Balanced, Operated, [Next]_vars
    PROVE  Operated'
  <1>1. Inv /\ Directed /\ \A s \in Streams : MapInv(stream[s]) /\ Meek(stream[s])
    BY DEF Mapped, Operated
  <1>2. CASE UNCHANGED <<stream, emit>>
    BY <1>1, <1>2 DEF Operated, Directed
  <1>3. ASSUME NEW s \in Streams,
               \/ \E x \in Requests[s] : Open(s, x)
               \/ Works(s) \/ Produces(s) \/ GiveUp(s)
        PROVE  Operated'
    <2>1. \A r \in Streams \ {s} : stream'[r] = stream[r]
      BY <1>1, <1>3, StepGrows
    <2>2. ASSUME Directed', Meek(stream'[s]) PROVE Operated'
      BY <1>1, <2>1, <2>2 DEF Operated
    <2>3. CASE Decides(s)
      <3>1. ~Reserved(stream[s].x.raw.path) /\ stream'[s].x = stream[s].x
        BY <2>3, DecidesUnreserved
      <3>2. UNCHANGED emit
        BY <2>3 DEF Decides, OnRequestHeaders, OnRequestBody, ResolveNow, Gate, settings
      <3>3. Meek(stream'[s]) /\ ~Orderly(stream[s]) /\ ~Orderly(stream'[s])
        BY <3>1 DEF Meek, Orderly, Reserved
      <3>4. QED
        BY <1>1, <2>1, <2>2, <3>2, <3>3, DirectedStays
    <2>4. CASE PassesOn(s)
      <3>1. /\ stream'[s].x = stream[s].x /\ stream'[s].verdict = stream[s].verdict
            /\ stream'[s].pc # "observing"
        BY <1>1, <2>4, PassingLeaves
      <3>2. UNCHANGED emit /\ stream[s].pc \notin {"idle", "observing"}
        BY <2>4 DEF PassesOn, Produces, Acknowledged, NotAcknowledged, Produced, Proceed,
           OnResponseHeaders, DecisionHeader, OnResponseBody, GiveUp, settings
      <3>3. stream'[s].pc # "idle"
        BY <1>1, <2>4, PassingGets DEF PassesOn, Gets
      <3>4. Meek(stream'[s]) /\ (Orderly(stream'[s]) <=> Orderly(stream[s]))
        BY <3>1, <3>2, <3>3 DEF Meek, Orderly
      <3>5. QED
        BY <1>1, <2>1, <2>2, <3>1, <3>2, <3>4, DirectedStays
    <2>5. CASE \/ OnRequestHeaders(s) /\ Reserved(stream[s].x.raw.path)
               \/ Observing(s) \/ Observed(s)
      BY <1>1, <2>1, <2>2, <2>5, RepliesDirect
    <2>6. CASE \E x \in Requests[s] : Open(s, x)
      <3>1. /\ stream'[s].pc = "opened" /\ stream'[s].verdict = None /\ UNCHANGED emit
            /\ stream[s].pc = "idle"
        BY <1>1, <2>6, OpenIs DEF Open
      <3>2. Meek(stream'[s]) /\ ~Orderly(stream[s])
        BY <3>1 DEF Meek, Orderly
      <3>3. QED
        BY <1>1, <2>1, <2>2, <3>1, <3>2, DirectedStays
    <2>7. QED
      BY <1>3, <2>3, <2>4, <2>5, <2>6 DEF Works, Decides, PassesOn
  <1>4. QED
    BY <1>2, <1>3 DEF Next, vars

\* Whatever orders overtake each other, on any number of workers: once none is being
\* carried out, the directive is one that was confirmed, or none was and it is as it was
\* set when the process started (admin_reply).
THEOREM OrdersAgree ==
    ASSUME NoneIsNoVerdict, NoneIsNoEpoch, IsFiniteSet(Streams)
    PROVE  Spec => []DirectiveInForce
  <1>1. Init => Mapped /\ Balanced /\ Operated
    <2> SUFFICES ASSUME Init PROVE Operated
      BY BooksOpen
    <2>1. \A s \in Streams : stream[s].pc = "idle"
      BY DEF Init, Unused
    <2>2. emit = EmitAtStart
      BY DEF Init, ObserveInit
    <2>3. QED
      BY <2>1, <2>2 DEF Operated, Directed, Orderly, Meek
  <1>2. Mapped /\ Balanced /\ Operated /\ [Next]_vars => Mapped' /\ Balanced' /\ Operated'
    BY StepMaps, StepBooks, StepOperates
  <1>3. Operated => DirectiveInForce
    <2> SUFFICES ASSUME Directed, \A s \in Directing : stream[s].pc # "observing"
                 PROVE  InForce(Confirmed)
      BY DEF Operated, DirectiveInForce
    <2>1. Directing = {s \in Streams : Orderly(stream[s])}
      BY DEF Directing, Orderly
    <2>2. CASE \E s \in Streams : /\ Orderly(stream[s]) /\ stream[s].verdict # None
                                  /\ stream[s].verdict.code = emit
      BY <2>1, <2>2 DEF Confirmed, InForce
    <2>3. CASE /\ \A s \in Streams : Orderly(stream[s]) => stream[s].verdict = None
               /\ emit = EmitAtStart
      <3>1. {r \in Directing : stream[r].verdict # None} = {}
        BY <2>1, <2>3
      <3>2. QED
        BY <2>3, <3>1 DEF Confirmed, InForce
    <2>4. QED
      BY <2>1, <2>2, <2>3 DEF Directed
  <1>4. QED
    BY <1>1, <1>2, <1>3, PTL DEF Spec

-----------------------------------------------------------------------------
(* Explanations.                                                            *)

\* What the router said of the request an explanation is about may be held against
\* the gate that is asked next.
Weighed(t) ==
    t.pc = "observing" /\ Explains(t.x.raw.path) /\ t.glanced # None => LookedInv(t.glanced)

Weighs == \A s \in Streams : Weighed(stream[s])

\* No step of a stream moves a tenant.
LEMMA Stays ==
    ASSUME NEW s \in Streams,
           \/ \E x \in Requests[s] : Open(s, x)
           \/ Works(s) \/ Produces(s) \/ GiveUp(s)
    PROVE  UNCHANGED placing
  BY DEF Open, Works, OnRequestHeaders, OnRequestBody, Gate, ResolveNow, Observing, Observed,
         Proceed, OnResponseHeaders, DecisionHeader, OnResponseBody, GiveUp, Produces,
         Acknowledged, NotAcknowledged, Produced, settings

\* The router is asked for a tenant there is, or for none.
LEMMA ExplainedTenant ==
    ASSUME PlacingInv, NEW s \in Streams, NEW x \in Requests[s]
    PROVE  ResolvePartition(cfg, CtxOf(Target(x))) \in Partitions \cup {None}
  <1>1. IsRecord(x.raw, RequestLine) /\ NamesTenant(x.raw)
    BY RequestsAssumption DEF IsRequest, RequestLine
  <1>2. QED
    BY <1>1, TargetNamed

\* Steps that begin no reply, or leave one as it is.
LEMMA StepWeighs ==
    ASSUME Mapped, NoneIsNoVerdict, Balanced, Weighs, [Next]_vars
    PROVE  Weighs'
  <1>1. Inv /\ \A s \in Streams : MapInv(stream[s]) /\ Weighed(stream[s])
    BY DEF Mapped, Weighs
  <1>2. CASE UNCHANGED vars
    BY <1>1, <1>2 DEF vars, Weighs, Weighed, LookedInv, Fresh, ClusterFor
  <1>3. CASE Move /\ UNCHANGED <<sink, stream, metrics, emit>>
    <2>1. \A p \in Partitions : \A n, cluster : Fresh(p, n, cluster) => Fresh(p, n, cluster)'
      BY <1>1, <1>3, MoveKeeps DEF Inv
    <2>2. ASSUME NEW s \in Streams, LookedInv(stream[s].glanced)
          PROVE  LookedInv(stream[s].glanced)'
      BY <1>3, <2>1, <2>2 DEF LookedInv
    <2>3. QED
      BY <1>1, <1>3, <2>2 DEF Weighs, Weighed
  <1>4. ASSUME NEW s \in Streams,
               \/ \E x \in Requests[s] : Open(s, x)
               \/ Works(s) \/ Produces(s) \/ GiveUp(s)
        PROVE  Weighs'
    <2>1. UNCHANGED placing /\ \A r \in Streams \ {s} : stream'[r] = stream[r]
      BY <1>1, <1>4, StepGrows, Stays
    <2>2. ASSUME Weighed(stream[s])' PROVE Weighs'
      <3>1. \A r \in Streams \ {s} : Weighed(stream[r])'
        BY <1>1, <2>1 DEF Weighed, LookedInv, Fresh, ClusterFor, placing
      <3>2. QED
        BY <2>2, <3>1 DEF Weighs
    <2>3. CASE Decides(s)
      <3>1. ~Explains(stream'[s].x.raw.path)
        BY <2>3, DecidesUnreserved DEF Reserved
      <3>2. QED
        BY <2>2, <3>1 DEF Weighed
    <2>4. CASE PassesOn(s)
      BY <1>1, <2>2, <2>4, PassingLeaves DEF Weighed
    <2>5. CASE OnRequestHeaders(s) /\ Reserved(stream[s].x.raw.path)
      <3>1. /\ stream'[s].x = stream[s].x
            /\ stream'[s].glanced = Unseen(stream[s].x)
        BY <1>1, <2>5, RepliesAre
      <3>2. Explains(stream'[s].x.raw.path) => stream'[s].glanced = None
        BY <3>1, ExplainReplies
      <3>3. QED
        BY <2>2, <3>2 DEF Weighed
    <2>6. CASE Observing(s)
      <3>1. /\ stream'[s].x = stream[s].x
            /\ stream'[s].glanced \in Glances(stream[s].x, stream[s].glanced)
            /\ stream[s].x \in Requests[s] /\ PlacingInv
        BY <1>1, <2>6, RepliesAre DEF Observing, Inv, StreamInv
      <3>2. ASSUME Explains(stream[s].x.raw.path) PROVE LookedInv(stream'[s].glanced)
        <4>1. stream'[s].glanced = LookUp(CtxOf(Target(stream[s].x)))
          BY <3>1, <3>2, ExplainReplies
        <4>2. QED
          BY <3>1, <4>1, ExplainedTenant, TargetFresh
      <3>3. Explains(stream[s].x.raw.path) => LookedInv(stream[s].glanced)'
        BY <2>1, <3>2 DEF LookedInv, Fresh, ClusterFor, placing
      <3>4. QED
        BY <2>2, <3>1, <3>3 DEF Weighed
    <2>7. CASE Observed(s)
      <3>1. stream'[s].pc # "observing"
        BY <1>1, <2>7, RepliesAre
      <3>2. QED
        BY <2>2, <3>1 DEF Weighed
    <2>8. CASE \E x \in Requests[s] : Open(s, x)
      BY <1>1, <2>2, <2>8, OpenIs DEF Weighed
    <2>9. QED
      BY <1>4, <2>3, <2>4, <2>5, <2>6, <2>7, <2>8 DEF Works, Decides, PassesOn
  <1>5. QED
    BY <1>2, <1>3, <1>4 DEF Next

\* Whatever moves between the two questions a dry run asks inside its callback, the route
\* it promises a write is its tenant's at the moment of the promise, and not in cutover
\* (Filter::explain, for any streams, workers, requests and moves).
THEOREM PromisesHeld ==
    ASSUME NoneIsNoVerdict, NoneIsNoEpoch, IsFiniteSet(Streams)
    PROVE  Spec => ExplainsGated
  <1> DEFINE Held(s) ==
          LET was == stream[s]
              now == stream'[s].verdict
          IN  /\ was.pc = "observing" /\ now # None /\ Explains(was.x.raw.path)
              /\ now.code.to = "route" /\ IsWriteRequest(Target(was.x))
              => MeetsPlacement(was.glanced, was.glanced.r)
  <1>1. Init => Mapped /\ Balanced /\ Weighs
    <2> SUFFICES ASSUME Init PROVE Weighs
      BY BooksOpen
    <2>1. \A s \in Streams : stream[s].pc = "idle"
      BY DEF Init, Unused
    <2>2. QED
      BY <2>1 DEF Weighs, Weighed
  <1>2. Mapped /\ Balanced /\ Weighs /\ [Next]_vars => Mapped' /\ Balanced' /\ Weighs'
    BY StepMaps, StepBooks, StepWeighs
  <1>3. ASSUME Mapped, Balanced, Weighs, [Next]_vars PROVE [\A s \in Streams : Held(s)]_vars
    <2> SUFFICES ASSUME NEW s \in Streams, Next PROVE Held(s)
      BY <1>3
    <2> DEFINE t == stream[s]
    <2> SUFFICES ASSUME t.pc = "observing", stream'[s].verdict # None,
                        Explains(t.x.raw.path), stream'[s].verdict.code.to = "route",
                        IsWriteRequest(Target(t.x))
                 PROVE  MeetsPlacement(t.glanced, t.glanced.r)
      OBVIOUS
    <2>1. Inv /\ t.verdict = None /\ Weighed(t)
      BY <1>3 DEF Mapped, MapInv, Weighs
    <2>2. Observed(s)
      <3>1. stream'[s].verdict # t.verdict
        BY <2>1
      <3>2. ASSUME NEW r \in Streams, \/ \E x \in Requests[r] : Open(r, x)
                                      \/ Works(r) \/ Produces(r) \/ GiveUp(r)
            PROVE  r = s
        BY <2>1, <3>1, <3>2, StepGrows
      <3>3. \/ \E x \in Requests[s] : Open(s, x)
            \/ Works(s) \/ Produces(s) \/ GiveUp(s)
        BY <3>1, <3>2 DEF Next
      <3>4. ~Observing(s)
        BY <2>1, <3>1, RepliesAre
      <3>5. QED
        BY <3>3, <3>4 DEF Open, Works, OnRequestHeaders, OnRequestBody, Gate, ResolveNow,
           Proceed, OnResponseHeaders, DecisionHeader, OnResponseBody, GiveUp, Produces,
           Acknowledged, NotAcknowledged, Produced
    <2>3. /\ stream'[s].verdict = Immediate(200, Explanation(t.x, t.glanced))
          /\ Glances(t.x, t.glanced) = {}
      BY <2>1, <2>2, RepliesAre, ExplainReplies DEF Observed
    <2>4. Explanation(t.x, t.glanced).to = "route"
      BY <2>3 DEF Immediate
    <2>5. t.x.raw.method \in Methods
      BY <2>4 DEF Explanation, BadMethod, Immediate
    <2>6. t.glanced # None
      BY <2>3, <2>5, ExplainReplies
    <2>7. LookedInv(t.glanced)
      BY <2>1, <2>6 DEF Weighed
    <2>8. QED
      BY <2>4, <2>5, <2>7, PromisesGated
  <1>4. QED
    BY <1>1, <1>2, <1>3, PTL DEF Spec, ExplainsGated
=============================================================================
