--------------------------- MODULE BackendProofs ---------------------------
(***************************************************************************)
(* What the proofs of both backends rest on.  Of the placements that       *)
(* change between the router's two answers: an epoch that still holds      *)
(* means a placement that still holds.  Of the observe surface: the        *)
(* counters stay counters and the directive stays a flag, whatever is      *)
(* ordered; what two sets of requests say of the counters they stand       *)
(* behind; and how a reply on a reserved path is put together.             *)
(***************************************************************************)
EXTENDS Observe, TLAPS, FiniteSetTheorems

-----------------------------------------------------------------------------
(* Placements.                                                              *)

ConfigFields == {"isolation", "source", "default", "cluster", "clusterBy", "indexOf",
                 "shared", "routing", "migrating", "phase", "passthrough", "requireMtls"}

\* Moves change where tenants live, and nothing else of the configuration.
PlacingInv ==
    /\ IsRecord(cfg, ConfigFields)
    /\ \E c \in Configs : cfg.source = c.source /\ cfg.default = c.default
    /\ epoch \in [Partitions -> Nat]

\* A cluster found for tenant p at epoch n is still its cluster if n still holds.
Fresh(p, n, cluster) ==
    /\ n \in Nat /\ n <= epoch[p]
    /\ n = epoch[p] => cluster = ClusterFor(cfg, p)

\* An answer of the router that may be held against a later gate.
LookedInv(looked) ==
    looked.r.ok =>
        /\ looked.r.partition \in Partitions
        /\ Fresh(looked.r.partition, looked.epoch, looked.r.cluster)

-----------------------------------------------------------------------------
\* The invariant holds of the placements a run starts with.
LEMMA PlacingStarts == PlacingInit => PlacingInv
  <1> SUFFICES ASSUME PlacingInit PROVE PlacingInv
    OBVIOUS
  <1>1. cfg \in Configs /\ cfg \in Config
    BY MovesAssumption DEF PlacingInit, MovesAssumption
  <1>2. IsRecord(cfg, ConfigFields)
    BY <1>1 DEF Config, IsRecord, ConfigFields
  <1>3. epoch \in [Partitions -> Nat]
    BY DEF PlacingInit
  <1>4. QED
    BY <1>1, <1>2, <1>3 DEF PlacingInv

\* A step of a migration keeps the invariant, keeps what is fresh, and keeps the
\* partition every request resolves to (Drain, CutOver, Flip, Abort).
LEMMA MoveKeeps ==
    ASSUME PlacingInv, Move
    PROVE  /\ PlacingInv'
           /\ \A p \in Partitions : \A n, cluster :
                  Fresh(p, n, cluster) => Fresh(p, n, cluster)'
  <1>1. CASE (\E p \in Movable : Drain(p)) \/ CutOver
    <2>1. /\ epoch' = epoch
          /\ cfg'.clusterBy = cfg.clusterBy /\ cfg'.cluster = cfg.cluster
          /\ cfg'.source = cfg.source /\ cfg'.default = cfg.default
          /\ IsRecord(cfg', ConfigFields)
      BY <1>1 DEF Drain, CutOver, PlacingInv, IsRecord, ConfigFields
    <2>2. QED
      BY <2>1 DEF PlacingInv, Fresh, ClusterFor
  <1>2. ASSUME NEW f, Ended(f)
        PROVE  /\ cfg'.clusterBy = f /\ cfg'.cluster = cfg.cluster
               /\ cfg'.source = cfg.source /\ cfg'.default = cfg.default
               /\ IsRecord(cfg', ConfigFields)
    BY <1>2 DEF Ended, PlacingInv, IsRecord, ConfigFields
  <1>3. CASE Abort
    <2>1. /\ epoch' = epoch
          /\ cfg'.clusterBy = cfg.clusterBy /\ cfg'.cluster = cfg.cluster
          /\ cfg'.source = cfg.source /\ cfg'.default = cfg.default
          /\ IsRecord(cfg', ConfigFields)
      BY <1>2, <1>3 DEF Abort
    <2>2. QED
      BY <2>1 DEF PlacingInv, Fresh, ClusterFor
  <1>4. ASSUME NEW to \in Clusters, Flip(to)
        PROVE  /\ PlacingInv'
               /\ \A p \in Partitions : \A n, cluster :
                      Fresh(p, n, cluster) => Fresh(p, n, cluster)'
    <2> DEFINE m == cfg.migrating
               f == [q \in DOMAIN cfg.clusterBy \cup {m} |->
                        IF q = m THEN to ELSE cfg.clusterBy[q]]
    <2>1. /\ cfg'.clusterBy = f /\ cfg'.cluster = cfg.cluster
          /\ cfg'.source = cfg.source /\ cfg'.default = cfg.default
          /\ IsRecord(cfg', ConfigFields)
      BY <1>2, <1>4 DEF Flip
    <2>2. epoch' = [epoch EXCEPT ![m] = @ + 1]
      BY <1>4 DEF Flip
    <2>3. PlacingInv'
      <3>1. epoch' \in [Partitions -> Nat]
        <4>1. epoch \in [Partitions -> Nat]
          BY DEF PlacingInv
        <4>2. DOMAIN epoch' = Partitions /\ epoch' = [q \in Partitions |-> epoch'[q]]
          BY <2>2, <4>1
        <4>3. ASSUME NEW q \in Partitions PROVE epoch'[q] \in Nat
          <5>1. epoch[q] \in Nat
            BY <4>1
          <5>2. epoch'[q] \in {epoch[q], epoch[q] + 1}
            BY <2>2, <4>1
          <5>3. QED
            BY <5>1, <5>2
        <4>4. QED
          BY <4>2, <4>3
      <3>2. \E c \in Configs : cfg'.source = c.source /\ cfg'.default = c.default
        BY <2>1 DEF PlacingInv
      <3>3. QED
        <4> HIDE DEF f
        <4> QED
          BY <2>1, <3>1, <3>2 DEF PlacingInv
    <2>4. ASSUME NEW p \in Partitions, NEW n, NEW cluster, Fresh(p, n, cluster)
          PROVE  Fresh(p, n, cluster)'
      <3>1. epoch[p] \in Nat /\ n \in Nat /\ n <= epoch[p]
        BY <2>4 DEF PlacingInv, Fresh
      <3>2. CASE p = m
        <4>1. epoch'[p] = epoch[p] + 1
          BY <2>2, <3>2 DEF PlacingInv
        <4>2. QED
          BY <3>1, <4>1 DEF Fresh
      <3>3. CASE p # m
        <4>1. epoch'[p] = epoch[p]
          BY <2>2, <3>3 DEF PlacingInv
        <4>2. ClusterFor(cfg', p) = ClusterFor(cfg, p)
          BY <2>1, <3>3 DEF ClusterFor
        <4>3. QED
          BY <2>4, <4>1, <4>2 DEF Fresh
      <3>4. QED
        BY <3>2, <3>3
    <2>5. QED
      BY <2>3, <2>4
  <1>5. QED
    BY <1>1, <1>3, <1>4 DEF Move

\* The tenant the router finds for a request, now.
Asking(req) == ResolvePartition(cfg, CtxOf(RewriteForPath(cfg, req)))

\* A step of a migration leaves every request with its tenant.
LEMMA MoveKeepsTenants ==
    ASSUME PlacingInv, Move, NEW req
    PROVE  Asking(req)' = Asking(req)
  <1>1. cfg'.source = cfg.source /\ cfg'.default = cfg.default
    BY DEF Move, Drain, CutOver, Flip, Abort, Ended, PlacingInv, IsRecord, ConfigFields
  <1> DEFINE a == RewriteForPath(cfg', req)
             b == RewriteForPath(cfg, req)
  <1>2. a = b
    BY <1>1 DEF RewriteForPath, SplitsTenant
  <1>3. ResolvePartition(cfg', CtxOf(a)) = ResolvePartition(cfg, CtxOf(b))
    <2> HIDE DEF a, b
    <2> QED
      BY <1>1, <1>2 DEF ResolvePartition
  <1>4. QED
    BY <1>3 DEF Asking

\* A request's tenant does not depend on its body, nor on where tenants live.
LEMMA TenantNamed ==
    ASSUME PlacingInv, NEW raw, NEW body, NEW req,
           IsRecord(raw, {"method", "path", "header", "presented", "principal", "body"}),
           NamesTenant(raw), req = [raw EXCEPT !.body = body]
    PROVE  Asking(req) \in Partitions \cup {None} /\ Asking(req) = Asking(raw)
  <1>1. PICK c \in Configs : cfg.source = c.source /\ cfg.default = c.default
    BY DEF PlacingInv
  <1> DEFINE fields == {"method", "path", "header", "presented", "principal", "body"}
             a == RewriteForPath(c, raw)
             b == RewriteForPath(cfg, raw)
             d == RewriteForPath(cfg, req)
  <1>2. /\ req.path = raw.path /\ req.header = raw.header
        /\ req.presented = raw.presented /\ req.principal = raw.principal
        /\ IsRecord(req, fields)
    BY DEF IsRecord
  <1>3. a = b
    BY <1>1 DEF RewriteForPath, SplitsTenant
  <1>4. /\ d.header = b.header /\ d.presented = b.presented
        /\ d.principal = b.principal
    BY <1>2 DEF RewriteForPath, SplitsTenant, IsRecord
  <1>5. /\ CtxOf(d).header = CtxOf(b).header
        /\ CtxOf(d).principal = CtxOf(b).principal
    <2> HIDE DEF b, d
    <2> QED
      BY <1>4 DEF CtxOf, PrincipalOf
  <1>6. ResolvePartition(cfg, CtxOf(d)) = ResolvePartition(cfg, CtxOf(b))
    <2> HIDE DEF b, d
    <2> QED
      BY <1>5 DEF ResolvePartition
  <1>7. ResolvePartition(cfg, CtxOf(b)) = ResolvePartition(c, CtxOf(a))
    <2> HIDE DEF a, b
    <2> QED
      BY <1>1, <1>3 DEF ResolvePartition
  <1>8. ResolvePartition(c, CtxOf(a)) \in Partitions \cup {None}
    BY DEF NamesTenant
  <1>9. QED
    BY <1>6, <1>7, <1>8 DEF Asking

\* What the router answers is fresh.
LEMMA LookIsFresh ==
    ASSUME PlacingInv, NEW req, Asking(req) \in Partitions \cup {None}
    PROVE  /\ LookedInv(Look(req))
           /\ Look(req).r.ok => /\ Look(req).r.partition = Asking(req)
                                /\ Look(req).r.cluster = ClusterFor(cfg, Asking(req))
                                /\ Look(req).epoch = epoch[Asking(req)]
  <1> DEFINE ctx == CtxOf(RewriteForPath(cfg, req))
             p == ResolvePartition(cfg, ctx)
             r == Resolve(cfg, ctx)
  <1>1. Look(req) = [r |-> r, epoch |-> IF r.ok THEN epoch[r.partition] ELSE 0]
    BY DEF Look, LookAt, LookUpAt
  <1>2. ASSUME r.ok
        PROVE  /\ r.partition = p /\ r.cluster = ClusterFor(cfg, p)
               /\ p \in Partitions /\ epoch[p] \in Nat
    <2>1. p # None
      BY <1>2 DEF Resolve, Unresolved
    <2>2. r.partition = p /\ r.cluster = ClusterFor(cfg, p)
      BY <2>1 DEF Resolve
    <2>3. p \in Partitions
      BY <2>1 DEF Asking
    <2>4. QED
      BY <2>2, <2>3 DEF PlacingInv
  <1>3. Asking(req) = p
    BY DEF Asking
  <1>4. QED
    <2> HIDE DEF p, r
    <2> QED
      BY <1>1, <1>2, <1>3 DEF LookedInv, Fresh

-----------------------------------------------------------------------------
\* A forward is for the cluster its placement names (the forward builders).
LEMMA DispatchCluster ==
    ASSUME NEW r, NEW ctx, Dispatch(r, ctx).to = "upstream"
    PROVE  Dispatch(r, ctx).cluster = r.cluster
  BY DEF Dispatch, WriteForward, BulkForward, ByIdForward, QueryForward,
         MultiGetForward, MultiSearchForward, Upstream, RewriteFailed, Immediate

\* A forward is of some operations, for the cluster of the router's answer.
LEMMA ForwardShape ==
    ASSUME NEW r, NEW ctx, Dispatch(r, ctx).to = "upstream"
    PROVE  \E ops : Dispatch(r, ctx) = Upstream(r, ops)
  <1>1. RewriteFailed.to # "upstream"
    BY DEF RewriteFailed, Immediate
  <1>2. QED
    BY <1>1 DEF Dispatch, WriteForward, BulkForward, ByIdForward, QueryForward,
                MultiGetForward, MultiSearchForward

\* A verdict that forwards was resolved and, if a write, admitted; it is for the
\* cluster of the look-up.
LEMMA VerdictForwards ==
    ASSUME NEW req, NEW r, NEW admitted, Verdict(cfg, req, r, admitted).to = "upstream"
    PROVE  /\ r.ok
           /\ Verdict(cfg, req, r, admitted).cluster = r.cluster
           /\ \E ops : Verdict(cfg, req, r, admitted) = Upstream(r, ops)
           /\ IsWriteRequest(RewriteForPath(cfg, req)) => admitted
  <1> DEFINE ctx == CtxOf(RewriteForPath(cfg, req))
             refusal == Refusal(r, admitted, ctx.kind)
  <1>1. Front(cfg, req).to # "upstream"
    BY DEF Front, BadMethod, Immediate, Pass
  <1>2. Verdict(cfg, req, r, admitted) = Prepare(r, admitted, ctx)
    BY <1>1 DEF Verdict
  <1>3. Prepare(r, admitted, ctx) = Dispatch(r, ctx) /\ refusal.to # "local"
    <2>1. refusal.to # "upstream"
      BY DEF Refusal, Immediate, Pass
    <2>2. QED
      BY <1>2, <2>1 DEF Prepare
  <1>4. r.ok /\ (IsWrite(ctx.kind) => admitted)
    <2> HIDE DEF ctx
    <2> QED
      BY <1>3 DEF Refusal, Immediate, Pass
  <1>5. QED
    <2>1. Dispatch(r, ctx).to = "upstream"
      BY <1>2, <1>3
    <2>2. Dispatch(r, ctx).cluster = r.cluster
      BY <2>1, DispatchCluster
    <2>3. \E ops : Dispatch(r, ctx) = Upstream(r, ops)
      BY <2>1, ForwardShape
    <2>4. QED
      BY <1>2, <1>3, <1>4, <2>2, <2>3 DEF IsWriteRequest

\* A reply of the filter's own carries a status.
HasStatus(verdict) == verdict.to = "local" => verdict.status \notin {0, 202}

\* Every reply of prepare, handle and route_headers does.
LEMMA RepliesHaveStatus ==
    ASSUME NEW c, NEW req, NEW r, NEW admitted, NEW wired, NEW async
    PROVE  /\ HasStatus(Early(c, wired, async, req))
           /\ HasStatus(Verdict(c, req, r, admitted))
           /\ HasStatus(RouteHeaders(c, req))
  <1>1. ASSUME NEW code PROVE SpiStatus(code) \notin {0, 202}
    BY DEF SpiStatus
  <1>2. HasStatus(Front(c, req)) /\ HasStatus(Early(c, wired, async, req))
    BY DEF HasStatus, Front, Early, BadMethod, Immediate, Pass
  <1>3. ASSUME NEW q, NEW kind
        PROVE  HasStatus(Refusal(q, admitted, kind)) /\ HasStatus(ResolveTarget(q, kind))
    BY <1>1 DEF HasStatus, Refusal, ResolveTarget, Immediate, Pass
  <1>4. ASSUME NEW ctx PROVE HasStatus(Dispatch(r, ctx))
    BY DEF HasStatus, Dispatch, WriteForward, BulkForward, ByIdForward, QueryForward,
           MultiGetForward, MultiSearchForward, Upstream, RewriteFailed, Immediate
  <1>5. HasStatus(Verdict(c, req, r, admitted))
    BY <1>2, <1>3, <1>4 DEF Verdict, Prepare
  <1>6. HasStatus(RouteHeaders(c, req))
    <2>1. HasStatus(BadMethod) /\ HasStatus([to |-> "continue"])
      BY DEF HasStatus, BadMethod, Immediate
    <2>2. \/ RouteHeaders(c, req) \in {BadMethod, [to |-> "continue"]}
          \/ \E q, kind : RouteHeaders(c, req) = ResolveTarget(q, kind)
      BY DEF RouteHeaders
    <2>3. ASSUME NEW q, NEW kind, RouteHeaders(c, req) = ResolveTarget(q, kind)
          PROVE  HasStatus(RouteHeaders(c, req))
      BY <1>3, <2>3
    <2>4. QED
      BY <2>1, <2>2, <2>3
  <1>7. QED
    BY <1>2, <1>5, <1>6

\* What is said of a request, and said as a record.
Speaks(verdict) ==
    /\ verdict.to \in {"local", "upstream", "continue"}
    /\ "to" \in DOMAIN verdict

\* Whatever handle returns speaks, and says before the router is asked only a refusal
\* or that the request goes upstream as it is.
LEMMA VerdictsSpeak ==
    ASSUME NEW c, NEW req, NEW r, NEW admitted, NEW wired, NEW async
    PROVE  /\ \/ Early(c, wired, async, req) = Pass
              \/ Speaks(Early(c, wired, async, req)) /\ Early(c, wired, async, req).to = "local"
              \/ /\ Early(c, wired, async, req) = [to |-> "continue"]
                 /\ Front(c, req) = [to |-> "continue"]
           /\ Speaks(Verdict(c, req, r, admitted))
           /\ Speaks([to |-> "continue"])
           /\ RouteHeaders(c, req).to = "local" => Speaks(RouteHeaders(c, req))
  <1>1. ASSUME NEW status, NEW code
        PROVE  Speaks(Immediate(status, code)) /\ Immediate(status, code).to = "local"
    BY DEF Speaks, Immediate
  <1>2. Speaks([to |-> "continue"]) /\ [to |-> "continue"] # Pass
    BY DEF Speaks, Pass
  <1>3. \/ Front(c, req) \in {Pass, [to |-> "continue"]}
        \/ \E status, code : Front(c, req) = Immediate(status, code)
    BY DEF Front, BadMethod
  <1>4. \/ Early(c, wired, async, req) \in {Pass, Front(c, req)}
        \/ \E status, code : Early(c, wired, async, req) = Immediate(status, code)
    BY DEF Early
  <1>5. ASSUME NEW kind
        PROVE  \/ Refusal(r, admitted, kind) = Pass
               \/ \E status, code : Refusal(r, admitted, kind) = Immediate(status, code)
    BY DEF Refusal
  <1>6. ASSUME NEW ctx PROVE Speaks(Dispatch(r, ctx))
    BY DEF Speaks, Dispatch, WriteForward, BulkForward, ByIdForward, QueryForward,
           MultiGetForward, MultiSearchForward, Upstream, RewriteFailed, Immediate
  <1>7. ASSUME NEW ctx PROVE Speaks(Prepare(r, admitted, ctx))
    BY <1>1, <1>5, <1>6 DEF Prepare, Pass
  <1>8. Speaks(Verdict(c, req, r, admitted))
    BY <1>1, <1>2, <1>3, <1>7 DEF Verdict
  <1>9. ASSUME RouteHeaders(c, req).to = "local" PROVE Speaks(RouteHeaders(c, req))
    <2>1. ASSUME NEW q, NEW kind, ResolveTarget(q, kind).to = "local"
          PROVE  Speaks(ResolveTarget(q, kind))
      BY <2>1 DEF ResolveTarget, Immediate, Speaks
    <2>2. \/ RouteHeaders(c, req) \in {BadMethod, [to |-> "continue"]}
          \/ \E q, kind : RouteHeaders(c, req) = ResolveTarget(q, kind)
      BY DEF RouteHeaders
    <2>3. QED
      BY <1>1, <1>2, <1>9, <2>1, <2>2 DEF BadMethod
  <1>10. QED
    BY <1>1, <1>2, <1>3, <1>4, <1>8, <1>9

\* The write gate, asked with the epoch of the look-up: a write is let go only for
\* the placement of the moment.
LEMMA GateHolds ==
    ASSUME NEW req, NEW looked, LookedInv(looked),
           Verdict(cfg, req, looked.r, Admits(looked)).to = "upstream",
           IsWriteRequest(RewriteForPath(cfg, req))
    PROVE  MeetsPlacement(looked, Verdict(cfg, req, looked.r, Admits(looked)))
  <1>1. /\ looked.r.ok /\ Admits(looked)
        /\ Verdict(cfg, req, looked.r, Admits(looked)).cluster = looked.r.cluster
    BY VerdictForwards
  <1>2. looked.r.cluster = ClusterFor(cfg, looked.r.partition)
    BY <1>1 DEF LookedInv, Admits, AdmitsAt, Fresh
  <1>3. PhaseOf(cfg, looked.r.partition) # "cutover"
    BY <1>1 DEF Admits, AdmitsAt, AdmitWrite
  <1>4. QED
    BY <1>1, <1>2, <1>3 DEF MeetsPlacement

-----------------------------------------------------------------------------
(* The exchange a backend shows (module Exchange).                          *)

ExchangeFields == {"pc", "x", "looked", "outcome", "upstream", "gone"}

\* Two exchanges are one if their fields are.
LEMMA SameExchange ==
    ASSUME NEW d, NEW e, IsRecord(d, ExchangeFields), IsRecord(e, ExchangeFields),
           d.pc = e.pc, d.x = e.x, d.looked = e.looked, d.outcome = e.outcome,
           d.upstream = e.upstream, d.gone = e.gone
    PROVE  d = e
  <1>1. \A f \in ExchangeFields : d[f] = e[f]
    BY DEF ExchangeFields
  <1>2. QED
    BY <1>1 DEF IsRecord

\* None is assumed to be no verdict where a backend's place is told by whether it has one.
NoneIsNoVerdict == None.to \notin {"local", "upstream", "continue"}

-----------------------------------------------------------------------------
(* The observe surface.                                                     *)

Surface == metrics \in [Counters -> Nat] /\ emit \in BOOLEAN

\* What is left of an operator's orders, in a reply under way.
Ordered(x, seen) == x.raw.path = AdminPath => seen \in Seq(BOOLEAN)

\* The surface at first.
LEMMA SurfaceStarts == ObserveInit => Surface
  BY EmitAssumption DEF ObserveInit, Surface, EmitAssumption

\* A counter goes up by one, or does not (record_routed, record_rejected).
LEMMA Counting ==
    ASSUME Surface, UNCHANGED emit,
           Uncounted \/ (\E c \in Counters : Count(c))
    PROVE  Surface'
  <1>1. CASE Uncounted
    BY <1>1 DEF Uncounted, Surface
  <1>2. ASSUME NEW c \in Counters, Count(c) PROVE Surface'
    <2>1. metrics[c] \in Nat
      BY DEF Surface
    <2>2. QED
      BY <1>2, <2>1 DEF Count, Surface
  <1>3. QED
    BY <1>1, <1>2

\* The two fixed paths are two.
LEMMA PathsDiffer == MetricsPath # AdminPath
  <1>1. Len(MetricsPath) = 2
    BY DEF MetricsPath
  <1>2. Len(AdminPath) = 3
    BY DEF AdminPath
  <1>3. QED
    BY <1>1, <1>2

\* A reply begins with the orders of its query, or with none.
LEMMA BeginsOrdered ==
    ASSUME NEW x, x.orders \in Seq(BOOLEAN)
    PROVE  Ordered(x, Unseen(x))
  <1>1. ASSUME x.raw.path = AdminPath
        PROVE  Unseen(x) = IF Authorized(x) THEN x.orders ELSE <<>>
    BY <1>1, PathsDiffer, Zenon DEF Unseen
  <1>2. <<>> \in Seq(BOOLEAN)
    OBVIOUS
  <1>3. QED
    BY <1>1, <1>2 DEF Ordered

\* One order less is still orders.
LEMMA StaysOrdered ==
    ASSUME NEW x, NEW seen, Ordered(x, seen), NEW next \in Glances(x, seen)
    PROVE  Ordered(x, next)
  <1> SUFFICES ASSUME x.raw.path = AdminPath PROVE next \in Seq(BOOLEAN)
    BY DEF Ordered
  <1>1. Glances(x, seen) = IF seen = <<>> THEN {} ELSE {Tail(seen)}
    BY PathsDiffer, Zenon DEF Glances
  <1>2. seen \in Seq(BOOLEAN) /\ seen # <<>> /\ next = Tail(seen)
    BY <1>1 DEF Ordered
  <1>3. QED
    BY <1>2

\* An order sets the flag to one of its two values (apply_query).
LEMMA ObeysKeeps ==
    ASSUME Surface, NEW x, NEW seen, Ordered(x, seen), Obeys(x, seen), UNCHANGED metrics
    PROVE  Surface'
  BY DEF Surface, Ordered, Obeys

-----------------------------------------------------------------------------
(* Two sets of requests of S stand behind the two counters.                 *)

Tally(S, routed, rejected) ==
    /\ routed \subseteq S /\ rejected \subseteq S /\ routed \cap rejected = {}
    /\ Cardinality(routed) = metrics["routed"]
    /\ Cardinality(rejected) = metrics["rejected"]

With(set, counter, c, s) == IF counter = c THEN set \cup {s} ELSE set

\* Nobody stands behind the counters at first.
LEMMA TallyStarts ==
    ASSUME ObserveInit, NEW S
    PROVE  Tally(S, {}, {})
  BY FS_EmptySet DEF ObserveInit, Tally, Counters

\* A request that is counted for the first time goes to the one set or the other.
LEMMA TallyGrows ==
    ASSUME Surface, NEW S, IsFiniteSet(S), NEW R, NEW J, Tally(S, R, J),
           NEW s \in S, s \notin R \cup J, NEW counter \in Counters, Count(counter)
    PROVE  Tally(S, With(R, counter, "routed", s), With(J, counter, "rejected", s))'
  <1> DEFINE R2 == With(R, counter, "routed", s)
             J2 == With(J, counter, "rejected", s)
  <1>1. IsFiniteSet(R) /\ IsFiniteSet(J)
    BY FS_Subset DEF Tally
  <1>2. /\ Cardinality(R2) = IF counter = "routed" THEN Cardinality(R) + 1 ELSE Cardinality(R)
        /\ Cardinality(J2) = IF counter = "rejected" THEN Cardinality(J) + 1
                                                     ELSE Cardinality(J)
    BY <1>1, FS_AddElement DEF With
  <1>3. /\ metrics'["routed"] = IF counter = "routed" THEN metrics["routed"] + 1
                                                      ELSE metrics["routed"]
        /\ metrics'["rejected"] = IF counter = "rejected" THEN metrics["rejected"] + 1
                                                          ELSE metrics["rejected"]
    BY DEF Count, Surface, Counters
  <1>4. R2 \subseteq S /\ J2 \subseteq S /\ R2 \cap J2 = {}
    BY DEF Tally, With, Counters
  <1>5. QED
    <2> HIDE DEF R2, J2
    <2>1. Cardinality(R2) = metrics'["routed"] /\ Cardinality(J2) = metrics'["rejected"]
      BY <1>2, <1>3 DEF Tally
    <2>2. QED
      BY <1>4, <2>1 DEF Tally, R2, J2

\* Both counters together count both sets.
LEMMA TallyAdds ==
    ASSUME NEW S, IsFiniteSet(S), NEW R, NEW J, Tally(S, R, J)
    PROVE  metrics["routed"] + metrics["rejected"] = Cardinality(R \cup J)
  <1>1. IsFiniteSet(R) /\ IsFiniteSet(J)
    BY FS_Subset DEF Tally
  <1>2. Cardinality(R \cup J) = Cardinality(R) + Cardinality(J) - Cardinality(R \cap J)
    BY <1>1, FS_Union
  <1>3. Cardinality(R \cap J) = 0
    BY FS_EmptySet DEF Tally
  <1>4. Cardinality(R) \in Nat /\ Cardinality(J) \in Nat
    BY <1>1, FS_CardinalityType
  <1>5. QED
    BY <1>2, <1>3, <1>4 DEF Tally

\* What the sets say of the counters.
LEMMA TallyTells ==
    ASSUME NEW S, IsFiniteSet(S), NEW R, NEW J, Tally(S, R, J),
           NEW served \in SUBSET R, NEW refused \in SUBSET J, NEW asked \in SUBSET S,
           R \cup J \subseteq asked
    PROVE  /\ Cardinality(served) <= metrics["routed"]
           /\ Cardinality(refused) <= metrics["rejected"]
           /\ metrics["routed"] + metrics["rejected"] <= Cardinality(asked)
  <1>1. IsFiniteSet(R) /\ IsFiniteSet(J) /\ IsFiniteSet(asked)
    BY FS_Subset DEF Tally
  <1>2. Cardinality(served) <= Cardinality(R) /\ Cardinality(refused) <= Cardinality(J)
    BY <1>1, FS_Subset
  <1>3. metrics["routed"] + metrics["rejected"] = Cardinality(R \cup J)
    BY TallyAdds
  <1>4. Cardinality(R \cup J) <= Cardinality(asked)
    BY <1>1, FS_Subset
  <1>5. QED
    BY <1>2, <1>3, <1>4 DEF Tally

-----------------------------------------------------------------------------
(* A scrape reads the counters one after the other, and they only grow.     *)

Later(m, n) == m \in [Counters -> Nat] /\ n \in [Counters -> Nat]
               /\ \A c \in Counters : m[c] <= n[c]

\* What a scrape must know of, by counter.
Least(before, c) == IF c = "routed" THEN before.served ELSE before.refused

\* A reading of a counter no older than the scrape, and no newer than m.
ReadSince(before, c, n, m) == n \in Nat /\ Least(before, c) <= n /\ n <= m[c]

Begun(before, m) ==
    \A c \in Counters : Least(before, c) \in Nat /\ Least(before, c) <= m[c]

Glanced(before, seen, m) ==
    \A c \in Counters : seen[c] = None \/ ReadSince(before, c, seen[c], m)

Scraped(before, code, m) == \A c \in Counters : ReadSince(before, c, code[c], m)

\* The counters never go back.
LEMMA OnlyGrow ==
    ASSUME Surface, Uncounted \/ UNCHANGED metrics \/ (\E c \in Counters : Count(c))
    PROVE  Later(metrics, metrics')
  <1>1. CASE UNCHANGED metrics
    BY <1>1 DEF Later, Surface
  <1>2. ASSUME NEW c \in Counters, Count(c) PROVE Later(metrics, metrics')
    BY <1>2 DEF Later, Surface, Count
  <1>3. QED
    BY <1>1, <1>2 DEF Uncounted

\* What was read stays a reading.
LEMMA ReadingsStay ==
    ASSUME NEW m, NEW n, Later(m, n), NEW before, NEW seen
    PROVE  /\ Begun(before, m) => Begun(before, n)
           /\ Begun(before, m) /\ Glanced(before, seen, m) => Glanced(before, seen, n)
           /\ Begun(before, m) /\ Scraped(before, seen, m) => Scraped(before, seen, n)
  <1>1. ASSUME NEW c \in Counters, NEW k, Begun(before, m), ReadSince(before, c, k, m)
        PROVE  ReadSince(before, c, k, n)
    BY <1>1 DEF Begun, ReadSince, Later
  <1>2. ASSUME Begun(before, m) PROVE Begun(before, n)
    BY <1>2 DEF Begun, Later
  <1>3. QED
    BY <1>1, <1>2 DEF Glanced, Scraped

\* One glance more (Glances).
LEMMA GlancesRead ==
    ASSUME Surface, NEW before, Begun(before, metrics), NEW x, x.raw.path = MetricsPath
    PROVE  /\ Glanced(before, Unseen(x), metrics)
           /\ \A seen : Glanced(before, seen, metrics) =>
                  \A next \in Glances(x, seen) : Glanced(before, next, metrics)
  <1>1. Unseen(x) = [c \in Counters |-> None]
    BY PathsDiffer, Zenon DEF Unseen
  <1>2. ASSUME NEW seen
        PROVE  Glances(x, seen) =
                   IF seen = Unseen(x) THEN {[seen EXCEPT ![c] = metrics[c]] : c \in Counters}
                                       ELSE {}
    BY PathsDiffer, Zenon DEF Glances
  <1>3. ASSUME NEW c \in Counters PROVE ReadSince(before, c, metrics[c], metrics)
    BY DEF ReadSince, Begun, Surface
  <1>4. ASSUME NEW seen, seen = Unseen(x), NEW c \in Counters
        PROVE  Glanced(before, [seen EXCEPT ![c] = metrics[c]], metrics)
    BY <1>1, <1>3, <1>4 DEF Glanced
  <1>5. QED
    BY <1>1, <1>2, <1>4 DEF Glanced

\* The last step reads what is missing (snapshot_json).
LEMMA SnapshotReads ==
    ASSUME Surface, NEW before, Begun(before, metrics), NEW x, x.raw.path = MetricsPath,
           NEW seen, Glanced(before, seen, metrics)
    PROVE  Scraped(before, Reply(x, seen).code, metrics)
  <1>1. Reply(x, seen) = Immediate(200, Snapshot(seen))
    BY PathsDiffer, Zenon DEF Reply
  <1>2. Reply(x, seen).code = Snapshot(seen)
    BY <1>1 DEF Immediate
  <1>3. ASSUME NEW c \in Counters PROVE ReadSince(before, c, Snapshot(seen)[c], metrics)
    <2>1. Snapshot(seen)[c] = IF seen[c] # None THEN seen[c] ELSE metrics[c]
      BY DEF Snapshot, OrElse
    <2>2. QED
      BY <2>1 DEF Glanced, ReadSince, Begun, Surface
  <1>4. QED
    BY <1>2, <1>3 DEF Scraped

\* A scrape's report against the counters of a later moment.
LEMMA ReportTells ==
    ASSUME Surface, NEW before, NEW code, Scraped(before, code, metrics), NEW asked \in Nat,
           metrics["routed"] + metrics["rejected"] <= asked
    PROVE  ScrapeTells(code, before.served, before.refused, asked)
  <1>1. /\ ReadSince(before, "routed", code["routed"], metrics)
        /\ ReadSince(before, "rejected", code["rejected"], metrics)
    BY DEF Scraped, Counters
  <1>2. QED
    BY <1>1 DEF ScrapeTells, ReadSince, Least, Surface, Counters

\* A scrape begins with what is in the counters.
LEMMA ScrapeBegins ==
    ASSUME Surface, NEW before, before.served \in Nat, before.refused \in Nat,
           before.served <= metrics["routed"], before.refused <= metrics["rejected"]
    PROVE  Begun(before, metrics)
  BY DEF Begun, Least, Counters

-----------------------------------------------------------------------------
(* Replies on reserved paths (reserved_reply).                              *)

RequestLine == {"method", "path", "header", "presented", "principal", "body"}

\* A reply begins with at most the orders of its request, or one look.
LEMMA GlancesBegin ==
    ASSUME NEW x, x.orders \in Seq(BOOLEAN)
    PROVE  GlancesAhead(x, Unseen(x)) \in 0 .. 1 + Len(x.orders)
  <1>1. CASE x.raw.path = AdminPath
    <2>1. Unseen(x) = IF Authorized(x) THEN x.orders ELSE <<>>
      BY <1>1, PathsDiffer, Zenon DEF Unseen
    <2>2. Len(Unseen(x)) \in 0 .. Len(x.orders)
      BY <2>1
    <2>3. QED
      BY <1>1, <2>2 DEF GlancesAhead
  <1>2. CASE x.raw.path # AdminPath
    BY <1>2 DEF GlancesAhead
  <1>3. QED
    BY <1>1, <1>2

\* A look leaves fewer to take, or has seen nothing.
LEMMA GlancesEnd ==
    ASSUME NEW x, NEW seen, Ordered(x, seen), NEW next \in Glances(x, seen), next # seen
    PROVE  GlancesAhead(x, next) < GlancesAhead(x, seen)
  <1>1. CASE x.raw.path = AdminPath
    <2>1. Glances(x, seen) = IF seen = <<>> THEN {} ELSE {Tail(seen)}
      BY <1>1, PathsDiffer, Zenon DEF Glances
    <2>2. seen \in Seq(BOOLEAN) /\ seen # <<>> /\ next = Tail(seen)
      BY <1>1, <2>1 DEF Ordered
    <2>3. Len(next) < Len(seen)
      BY <2>2
    <2>4. QED
      BY <1>1, <2>3 DEF GlancesAhead
  <1>2. CASE x.raw.path # AdminPath
    <2>1. seen = Unseen(x)
      <3>1. CASE x.raw.path = MetricsPath
        <4>1. Glances(x, seen) = IF seen = Unseen(x)
                                 THEN {[seen EXCEPT ![c] = metrics[c]] : c \in Counters}
                                 ELSE {}
          BY <3>1, PathsDiffer, Zenon DEF Glances
        <4>2. QED
          BY <4>1
      <3>2. CASE x.raw.path # MetricsPath
        <4>1. Unseen(x) = None
          BY <1>2, <3>2, Zenon DEF Unseen
        <4>2. seen = None
          BY <1>2, <3>2 DEF Glances
        <4>3. QED
          BY <4>1, <4>2
      <3>3. QED
        BY <3>1, <3>2
    <2>2. QED
      BY <1>2, <2>1 DEF GlancesAhead
  <1>3. QED
    BY <1>1, <1>2

\* A reply on the directive plane: begun with its orders, one less at a time, and
\* answered with what is read when there are none left.
LEMMA PlaneReplies ==
    ASSUME NEW x, x.raw.path = AdminPath, NEW seen
    PROVE  /\ ~Authorized(x) => Unseen(x) = <<>>
           /\ Glances(x, seen) = IF seen = <<>> THEN {} ELSE {Tail(seen)}
           /\ Authorized(x) => Reply(x, seen) = Immediate(200, emit)
  <1>1. Unseen(x) = IF Authorized(x) THEN x.orders ELSE <<>>
    BY PathsDiffer, Zenon DEF Unseen
  <1>2. Glances(x, seen) = IF seen = <<>> THEN {} ELSE {Tail(seen)}
    BY PathsDiffer, Zenon DEF Glances
  <1>3. Reply(x, seen) = AdminReply(x)
    BY PathsDiffer, Zenon DEF Reply
  <1>4. QED
    BY <1>1, <1>2, <1>3 DEF AdminReply

\* The explained paths are neither of the two fixed ones.
LEMMA ExplainedPaths ==
    ASSUME NEW path, Explains(path)
    PROVE  path # MetricsPath /\ path # AdminPath
  <1>1. Len(path) > 2 /\ SubSeq(path, 1, 2) = <<"_evoxy", "explain">>
    BY Zenon DEF Explains
  <1>2. Len(MetricsPath) = 2
    BY DEF MetricsPath
  <1>3. path # MetricsPath
    <2> SUFFICES ASSUME path = MetricsPath PROVE FALSE
      OBVIOUS
    <2>1. 2 > 2
      BY <1>1, <1>2, Zenon
    <2>2. QED
      BY <2>1
  <1> DEFINE S == {"_evoxy", "admin", "directives"}
  <1>4. AdminPath \in Seq(S) /\ Len(AdminPath) = 3 /\ AdminPath[2] = "admin"
    <2>1. ASSUME NEW T, NEW a \in T, NEW b \in T, NEW c \in T
          PROVE  <<a, b, c>> \in Seq(T)
      OBVIOUS
    <2>2. AdminPath \in Seq(S)
      BY <2>1, Zenon DEF AdminPath
    <2>3. Len(AdminPath) = 3
      BY DEF AdminPath
    <2>4. AdminPath[2] = "admin"
      BY DEF AdminPath
    <2>5. QED
      BY <2>2, <2>3, <2>4
  <1>5. SubSeq(AdminPath, 1, 2)[2] = "admin"
    BY <1>4
  <1>6. <<"_evoxy", "explain">>[2] # "admin"
    OBVIOUS
  <1>7. QED
    BY <1>1, <1>3, <1>5, <1>6, Zenon

\* An explanation begins with nothing, asks the router once, and answers then; a
\* method nobody knows is not asked about.
LEMMA ExplainReplies ==
    ASSUME NEW x, Explains(x.raw.path), NEW seen
    PROVE  /\ Unseen(x) = None
           /\ Glances(x, seen) = IF seen = None /\ x.raw.method \in Methods
                                 THEN {LookUp(CtxOf(Target(x)))} ELSE {}
           /\ Reply(x, seen) = Immediate(200, Explanation(x, seen))
  <1>1. x.raw.path # MetricsPath /\ x.raw.path # AdminPath
    BY ExplainedPaths
  <1>2. Unseen(x) = None
    BY <1>1, Zenon DEF Unseen
  <1>3. Glances(x, seen) = IF seen = None /\ x.raw.method \in Methods
                           THEN {LookUp(CtxOf(Target(x)))} ELSE {}
    BY <1>1, Zenon DEF Glances
  <1>4. Reply(x, seen) = Immediate(200, Explanation(x, seen))
    BY <1>1, Zenon DEF Reply
  <1>5. QED
    BY <1>2, <1>3, <1>4

\* The router is asked for the tenant of the request itself, or for the default's.
LEMMA TargetNamed ==
    ASSUME PlacingInv, NEW raw, IsRecord(raw, RequestLine), NamesTenant(raw),
           NEW h, IsRecord(h.raw, RequestLine), h.raw.header = raw.header,
           h.raw.presented = raw.presented, h.raw.principal = raw.principal
    PROVE  ResolvePartition(cfg, CtxOf(Target(h))) \in Partitions \cup {None}
  <1>1. PICK c \in Configs : cfg.source = c.source /\ cfg.default = c.default
    BY DEF PlacingInv
  <1>2. c.default \in Partitions \cup {None}
    BY MovesAssumption DEF MovesAssumption, Config
  <1> DEFINE target == Target(h)
             moved == RewriteForPath(c, raw)
  <1>3. /\ target.header = raw.header /\ target.presented = raw.presented
        /\ target.principal = raw.principal
    BY DEF Target, IsRecord, RequestLine
  <1>4. CtxOf(target).header = raw.header /\ CtxOf(target).principal = PrincipalOf(raw)
    <2> HIDE DEF target
    <2> QED
      BY <1>3 DEF CtxOf, PrincipalOf
  <1>5. /\ CtxOf(moved).header = moved.header /\ CtxOf(moved).principal = PrincipalOf(moved)
        /\ ResolvePartition(c, CtxOf(moved)) \in Partitions \cup {None}
    BY DEF CtxOf, NamesTenant
  <1>6. CASE ~SplitsTenant(c, raw)
    <2>1. moved = raw
      BY <1>6 DEF RewriteForPath
    <2>2. ResolvePartition(cfg, CtxOf(target)) \in Partitions \cup {None}
      <3> HIDE DEF target, moved
      <3> QED
        BY <1>1, <1>4, <1>5, <2>1 DEF ResolvePartition
    <2>3. QED
      BY <2>2
  <1>7. CASE SplitsTenant(c, raw)
    <2>1. c.source = "path" /\ (raw.header # None => moved.header = raw.header)
      BY <1>7 DEF SplitsTenant, RewriteForPath, OrElse, IsRecord, RequestLine
    <2>2. ResolvePartition(cfg, CtxOf(target)) \in Partitions \cup {None}
      <3> HIDE DEF target, moved
      <3> QED
        BY <1>1, <1>2, <1>4, <1>5, <2>1 DEF ResolvePartition
    <2>3. QED
      BY <2>2
  <1>8. QED
    BY <1>6, <1>7

\* What the router says of it is fresh.
LEMMA TargetFresh ==
    ASSUME PlacingInv, NEW ctx, ResolvePartition(cfg, ctx) \in Partitions \cup {None}
    PROVE  LookedInv(LookUp(ctx))
  <1> DEFINE p == ResolvePartition(cfg, ctx)
             r == Resolve(cfg, ctx)
  <1>1. LookUp(ctx) = [r |-> r, epoch |-> IF r.ok THEN epoch[r.partition] ELSE 0]
    BY DEF LookUp, LookUpAt
  <1>2. ASSUME r.ok
        PROVE  /\ r.partition = p /\ r.cluster = ClusterFor(cfg, p)
               /\ p \in Partitions /\ epoch[p] \in Nat
    <2>1. p # None
      BY <1>2 DEF Resolve, Unresolved
    <2>2. r.partition = p /\ r.cluster = ClusterFor(cfg, p)
      BY <2>1 DEF Resolve
    <2>3. p \in Partitions
      BY <2>1
    <2>4. QED
      BY <2>2, <2>3 DEF PlacingInv
  <1>3. QED
    <2> HIDE DEF p, r
    <2> QED
      BY <1>1, <1>2 DEF LookedInv, Fresh

\* A route is promised only to what was found and, if it writes, admitted.
LEMMA PromisesGated ==
    ASSUME NEW x, NEW seen, LookedInv(seen), x.raw.method \in Methods,
           Explanation(x, seen).to = "route", IsWriteRequest(Target(x))
    PROVE  MeetsPlacement(seen, seen.r)
  <1> DEFINE kind == CtxOf(Target(x)).kind
             refusal == Refusal(seen.r, Admits(seen), kind)
  <1>1. Explanation(x, seen) = ExplainRoute(seen.r, Admits(seen), kind)
    BY DEF Explanation
  <1>2. refusal.to # "local"
    <2> HIDE DEF kind
    <2> QED
      BY <1>1 DEF ExplainRoute, Refusal, Immediate, Pass
  <1>3. IsWrite(kind)
    BY DEF IsWriteRequest
  <1>4. seen.r.ok /\ Admits(seen)
    <2> HIDE DEF kind
    <2> QED
      BY <1>2, <1>3 DEF Refusal, Immediate, Pass
  <1>5. seen.r.cluster = ClusterFor(cfg, seen.r.partition)
    BY <1>4 DEF LookedInv, Admits, AdmitsAt, Fresh
  <1>6. PhaseOf(cfg, seen.r.partition) # "cutover"
    BY <1>4 DEF Admits, AdmitsAt, AdmitWrite
  <1>7. QED
    BY <1>5, <1>6 DEF MeetsPlacement
=============================================================================
