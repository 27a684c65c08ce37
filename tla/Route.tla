------------------------------- MODULE Route -------------------------------
(***************************************************************************)
(* crates/evoxy-route: what happens to one classified request once it is   *)
(* resolved.  `Prepare` yields either an immediate fail-closed reply or a  *)
(* forward; the forward's request line and body are abstracted to the      *)
(* sequence of physical operations the upstream will execute (one for a    *)
(* single-document or search request, one per item for _bulk, _mget and    *)
(* _msearch).                                                              *)
(*                                                                         *)
(* A document is [id, tenant, val]: its `id` field, its injected field and *)
(* the rest.  A client that itself sends the injected field makes `tenant` *)
(* non-None.  `Malformed` is a body that does not parse as what its        *)
(* endpoint expects.                                                       *)
(***************************************************************************)
EXTENDS Tenancy, Sequences, Naturals
CONSTANT Malformed

SupportedKinds ==
    {"ingest_doc", "ingest_bulk", "get_by_id", "delete_by_id",
     "search", "count", "multi_get", "multi_search"}

\* EndpointKind::is_write: ingest, _bulk and delete.
IsWrite(kind) == kind \in {"ingest_doc", "ingest_bulk", "delete_by_id"}

Immediate(status, code) ==
    [to |-> "local", status |-> status, code |-> code]

SpiStatus(code) ==
    CASE code = "unsupported_endpoint"                      -> 501
      [] code \in {"placement_missing", "placement_backend"} -> 503
      [] code = "id_rule_missing_partition"                 -> 500
      [] OTHER                                              -> 400

RewriteFailed == Immediate(400, "body_rewrite_failed")

Upstream(r, ops) == [to |-> "upstream", cluster |-> r.cluster, ops |-> ops]

Op(op, index, id, routing, doc, filter) ==
    [op |-> op, index |-> index, id |-> id, routing |-> routing,
     doc |-> doc, filter |-> filter]

-----------------------------------------------------------------------------
(* The body transform (transform.rs).                                      *)

RoutingOf(r) == IF r.idRule /\ r.routing THEN r.partition ELSE None

\* Injection refuses a body that already has the field; an id template
\* cannot be expanded over a body without an id.
ApplyFails(r, doc) ==
    \/ doc = Malformed
    \/ r.inject /\ doc.tenant # None
    \/ r.idRule /\ doc.id = None

\* Mutant: the template's two fields swapped.
BuiltIdSwapped(r, doc) ==
    IF r.idRule THEN Template(doc.id, r.partition) ELSE None

\* Mutant: the id of the body as it is.
BuiltIdPlain(r, doc) == IF r.idRule THEN doc.id ELSE None

BuiltId(r, doc) == IF r.idRule THEN Template(r.partition, doc.id) ELSE None

Injected(r, doc) ==
    IF r.inject THEN [doc EXCEPT !.tenant = r.partition] ELSE doc

\* Mutant: a client's id is used as it is.
PhysicalIdRaw(r, id) == id

\* read::physical_id and bulk::map_id.
PhysicalId(r, id) == IF r.idRule THEN Template(r.partition, id) ELSE id

\* Mutant: no filter on reads.
FilterOfDropped(r) == None

\* read::filter_terms: the partition term, or no filter at all.
FilterOf(r) == IF r.inject THEN r.partition ELSE None

\* read::filtered_query: without a filter the query is not even parsed.
QueryFails(r, query) == FilterOf(r) # None /\ query = Malformed

OrElse(a, b) == IF a # None THEN a ELSE b

-----------------------------------------------------------------------------
(* The forward builders (lib.rs, bulk.rs, demux.rs).                        *)

\* A constructed id wins over the id in the path.
WriteForward(r, ctx) ==
    IF ApplyFails(r, ctx.body) THEN RewriteFailed
    ELSE Upstream(r, <<Op("index", r.index,
                          OrElse(BuiltId(r, ctx.body), ctx.docId),
                          RoutingOf(r), Injected(r, ctx.body), None)>>)

ByIdForward(r, ctx) ==
    Upstream(r, <<Op(IF ctx.kind = "delete_by_id" THEN "delete" ELSE "get",
                     r.index, PhysicalId(r, ctx.docId), RoutingOf(r),
                     None, None)>>)

QueryForward(r, ctx) ==
    IF QueryFails(r, ctx.body) THEN RewriteFailed
    ELSE Upstream(r, <<Op(ctx.kind, r.index, None, None, None, FilterOf(r))>>)

\* A bulk item is [verb, index, id, source]; only a delete has no source.
\* The source is transformed, id construction included, before the item's
\* own id is looked at.
ItemFails(r, item) == item.source # None /\ ApplyFails(r, item.source)

ItemId(r, item) ==
    IF item.id # None THEN PhysicalId(r, item.id)
    ELSE IF item.source # None THEN BuiltId(r, item.source) ELSE None

ItemOp(r, item) ==
    Op(item.verb, r.index, ItemId(r, item), RoutingOf(r),
       IF item.source # None THEN Injected(r, item.source) ELSE None, None)

BulkForward(r, ctx) ==
    LET items == ctx.body
    IN  IF items = Malformed \/ \E i \in DOMAIN items : ItemFails(r, items[i])
        THEN RewriteFailed
        ELSE Upstream(r, [i \in DOMAIN items |-> ItemOp(r, items[i])])

\* The index an _mget item names is replaced by the placement's.
MultiGetForward(r, ctx) ==
    LET ids == ctx.body
    IN  IF ids = Malformed THEN RewriteFailed
        ELSE Upstream(r, [i \in DOMAIN ids |->
                 Op("get", r.index, PhysicalId(r, ids[i]), RoutingOf(r),
                    None, None)])

MultiSearchForward(r, ctx) ==
    LET queries == ctx.body
    IN  IF queries = Malformed
              \/ \E i \in DOMAIN queries : QueryFails(r, queries[i])
        THEN RewriteFailed
        ELSE Upstream(r, [i \in DOMAIN queries |->
                 Op("search", r.index, None, None, None, FilterOf(r))])

-----------------------------------------------------------------------------
(***************************************************************************)
(* prepare: `r` is what router.resolve answered and `admitted` what        *)
(* admit_write answered when it was asked.  The two answers may come from  *)
(* different moments, so they are parameters.                              *)
(***************************************************************************)
Dispatch(r, ctx) ==
    CASE ctx.kind = "ingest_doc"                    -> WriteForward(r, ctx)
      [] ctx.kind = "ingest_bulk"                   -> BulkForward(r, ctx)
      [] ctx.kind \in {"get_by_id", "delete_by_id"} -> ByIdForward(r, ctx)
      [] ctx.kind \in {"search", "count"}           -> QueryForward(r, ctx)
      [] ctx.kind = "multi_get"                     -> MultiGetForward(r, ctx)
      [] OTHER                                      -> MultiSearchForward(r, ctx)

Pass == [to |-> "route"]

\* Mutant: only single documents ask the write gate.
RefusalOfSingles(r, admitted, kind) ==
    IF kind \notin SupportedKinds
    THEN Immediate(501, "endpoint_not_supported_yet")
    ELSE IF ~r.ok THEN Immediate(SpiStatus(r.code), r.code)
    ELSE IF kind = "ingest_doc" /\ ~admitted THEN Immediate(409, "stale_epoch")
    ELSE Pass

\* The guard shared by prepare and explain: Pass when the request may route.
Refusal(r, admitted, kind) ==
    IF kind \notin SupportedKinds
    THEN Immediate(501, "endpoint_not_supported_yet")
    ELSE IF ~r.ok THEN Immediate(SpiStatus(r.code), r.code)
    ELSE IF IsWrite(kind) /\ ~admitted THEN Immediate(409, "stale_epoch")
    ELSE Pass

Prepare(r, admitted, ctx) ==
    LET refusal == Refusal(r, admitted, ctx.kind)
    IN  IF refusal.to = "local" THEN refusal ELSE Dispatch(r, ctx)

\* resolve_target: the header-phase cluster; no write gate.
ResolveTarget(r, kind) ==
    IF kind \notin SupportedKinds
    THEN Immediate(501, "endpoint_not_supported_yet")
    ELSE IF ~r.ok THEN Immediate(SpiStatus(r.code), r.code)
    ELSE [to |-> "cluster", cluster |-> r.cluster]

\* Mutant: the injected field is not reported.
DecisionShapePlain(r) == [inject |-> FALSE, idRule |-> r.idRule, phase |-> r.phase]

DecisionShape(r) == [inject |-> r.inject, idRule |-> r.idRule, phase |-> r.phase]

\* Mutant: explain without the write gate.
ExplainRouteUngated(r, admitted, kind) ==
    LET refusal == Refusal(r, TRUE, kind)
    IN  IF refusal.to = "local" THEN refusal
        ELSE [to |-> "route", decision |-> DecisionShape(r)]

\* explain: the same verdict as prepare up to the body, without the body.
ExplainRoute(r, admitted, kind) ==
    LET refusal == Refusal(r, admitted, kind)
    IN  IF refusal.to = "local" THEN refusal
        ELSE [to |-> "route", decision |-> DecisionShape(r)]

-----------------------------------------------------------------------------
(***************************************************************************)
(* Response shaping (response.rs).  An upstream response is one set of     *)
(* hits per operation, a hit being [index, id, doc].                       *)
(***************************************************************************)
ShapedKinds == {"get_by_id", "search", "ingest_bulk", "multi_get", "multi_search"}

\* Mutant: the injected field is left in.
StrippedNot(r, doc) == doc

Stripped(r, doc) ==
    IF doc # None /\ r.inject THEN [doc EXCEPT !.tenant = None] ELSE doc

\* Best effort: an id the template does not explain is left as it is.
ShapedId(r, ctx, id) ==
    IF ctx.kind = "get_by_id" THEN ctx.docId
    ELSE IF r.idRule THEN OrElse(LogicalId(r.partition, id), id) ELSE id

\* Mutant: the physical index is left in.
ShapeHitInPlace(r, ctx, hit) ==
    [hit EXCEPT !.id  = ShapedId(r, ctx, hit.id), !.doc = Stripped(r, hit.doc)]

ShapeHit(r, ctx, hit) ==
    [hit EXCEPT !.index = ctx.index,
                !.id    = ShapedId(r, ctx, hit.id),
                !.doc   = Stripped(r, hit.doc)]

\* shape_read_response; the caller keeps the upstream body when this is None.
ShapeReadResponse(r, ctx, results) ==
    IF r.ok /\ ctx.kind \in ShapedKinds
    THEN [i \in DOMAIN results |-> {ShapeHit(r, ctx, h) : h \in results[i]}]
    ELSE None
=============================================================================
