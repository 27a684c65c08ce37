------------------------------- MODULE Brain -------------------------------
(***************************************************************************)
(* crates/evoxy-filter/src/lib.rs and the crates it stands on: one raw     *)
(* request, as a backend hands it over, classified (evoxy-adapter),        *)
(* checked, and routed (module Route).  No state: the backends and the     *)
(* stores it talks to are state machines of their own.                     *)
(*                                                                         *)
(* A raw request is [method, path, header, presented, principal, body]:    *)
(* `path` is the sequence of its "/"-separated segments, empty ones        *)
(* included, without the query; `header` the value of the partition        *)
(* header; `presented` and `principal` what Envoy validated of the         *)
(* client's certificate (None: no usable stable id).                       *)
(***************************************************************************)
EXTENDS Route

Methods == {"GET", "PUT", "POST", "DELETE", "HEAD"}

-----------------------------------------------------------------------------
(* Classification (classify.rs).                                            *)

At(index, kind, docId) == [index |-> index, kind |-> kind, docId |-> docId]
Unclassified(index)    == At(index, "unknown", None)

\* Verbs that mean the same with and without an index in front of them.
VerbKind ==
    [_bulk    |-> "ingest_bulk",  _mget  |-> "multi_get",
     _msearch |-> "multi_search", _search |-> "search", _count |-> "count"]

DocVerbs   == {"_doc", "_create", "_update"}
AdminRoots == {"_cat", "_cluster", "_nodes", "_aliases", "_tasks", "_snapshot"}

DocEndpoint(method, verb) ==
    CASE verb = "_doc" /\ method \in {"GET", "HEAD"} -> "get_by_id"
      [] verb = "_doc" /\ method = "DELETE"          -> "delete_by_id"
      [] OTHER                                       -> "ingest_doc"

IndexScoped(method, segs) ==
    LET verb == segs[2]
    IN  CASE verb \in DocVerbs ->
                 At(segs[1], DocEndpoint(method, verb),
                    IF Len(segs) > 2 THEN segs[3] ELSE None)
          [] verb \in DOMAIN VerbKind  -> At(segs[1], VerbKind[verb], None)
          [] verb = "_delete_by_query" -> At(segs[1], "delete_by_query", None)
          [] verb = "_pit"             -> At(segs[1], "cursor", None)
          [] OTHER                     -> Unclassified(segs[1])

IsSegment(s) == s # ""

\* Leading, trailing and doubled slashes do not count.
Classify(method, path) ==
    LET segs == SelectSeq(path, IsSegment)
    IN  CASE Len(segs) = 0 -> Unclassified("")
          [] Len(segs) = 1 /\ segs[1] \in DOMAIN VerbKind ->
                 At("", VerbKind[segs[1]], None)
          [] Len(segs) > 1 /\ segs[1] = "_search" /\ segs[2] = "scroll" ->
                 At("", "cursor", None)
          [] Len(segs) > 0 /\ segs[1] \in AdminRoots -> At("", "admin", None)
          [] Len(segs) > 1 /\ segs[1] \notin AdminRoots
                           /\ ~(segs[1] = "_search" /\ segs[2] = "scroll") ->
                 IndexScoped(method, segs)
          [] OTHER -> Unclassified(segs[1])

-----------------------------------------------------------------------------
(* From a raw request to a routing context (evoxy-adapter/src/lib.rs).      *)

PrincipalOf(req) ==
    IF req.presented /\ req.principal # None THEN req.principal ELSE Anonymous

CtxOf(req) ==
    LET c == Classify(req.method, req.path)
    IN  [kind   |-> c.kind,  index     |-> c.index,  docId |-> c.docId,
         header |-> req.header, principal |-> PrincipalOf(req), body |-> req.body]

\* The leading segment names the tenant when something is left behind it.
SplitsTenant(cfg, req) ==
    cfg.source = "path" /\ Len(req.path) > 1 /\ req.path[1] # ""

\* The tenant moves to the partition header; a header already there is found
\* first by every later look-up.
RewriteForPath(cfg, req) ==
    IF SplitsTenant(cfg, req)
    THEN [req EXCEPT !.path   = Tail(req.path),
                     !.header = OrElse(req.header, req.path[1])]
    ELSE req

-----------------------------------------------------------------------------
(* What classification and parsing leave of a request.                      *)

Doc  == [id : Ids \cup {None}, tenant : Partitions \cup {None}, val : Nat]
Item == [verb : {"index", "create", "delete"}, index : Indices \cup {None},
         id : Ids \cup {None}, source : Doc \cup {None}]

BodyOf(kind) ==
    CASE kind = "ingest_doc"  -> Doc \cup {Malformed}
      [] kind = "ingest_bulk" -> Seq(Item) \cup {Malformed}
      [] kind = "multi_get"   -> Seq(Ids) \cup {Malformed}
      [] kind = "multi_search" -> Seq({None, Malformed}) \cup {Malformed}
      [] kind \in {"search", "count"} -> {None, Malformed}
      [] OTHER -> {None}

WellFormed(x) ==
    /\ x.index \in Indices \cup {""}
    /\ x.docId \in Ids \cup {None}
    /\ x.header \in Partitions \cup {None}
    /\ x.principal \in Partitions
    /\ x.body \in BodyOf(x.kind)
    /\ x.kind \in {"get_by_id", "delete_by_id"} => x.docId # None
    /\ x.kind = "ingest_bulk" /\ x.body # Malformed =>
           \A i \in DOMAIN x.body :
               (x.body[i].verb = "delete") = (x.body[i].source = None)

-----------------------------------------------------------------------------
(***************************************************************************)
(* Filter::handle.  "continue" is the passthrough outcome: the request     *)
(* goes upstream as it is, only the tenant segment removed.                *)
(***************************************************************************)
Admitted(cfg, r) == r.ok => AdmitWrite(cfg, r.partition)

BadMethod == Immediate(400, "unsupported_method")

\* What handle decides before it asks the router: Pass, or its verdict.
Front(cfg, req) ==
    LET ctx == CtxOf(RewriteForPath(cfg, req))
    IN  IF req.method \notin Methods THEN BadMethod
        ELSE IF cfg.requireMtls /\ IsWrite(ctx.kind) /\ ~req.presented
        THEN Immediate(403, "mtls_required_for_mutation")
        ELSE IF ctx.index \in cfg.passthrough THEN [to |-> "continue"]
        ELSE Pass

\* The verdict once the router has answered: r from resolve, admitted from the
\* gate, which may have been asked later.
Verdict(cfg, req, r, admitted) ==
    IF Front(cfg, req) # Pass THEN Front(cfg, req)
    ELSE Prepare(r, admitted, CtxOf(RewriteForPath(cfg, req)))

Handle(cfg, req) ==
    LET r == Resolve(cfg, CtxOf(RewriteForPath(cfg, req)))
    IN  Verdict(cfg, req, r, Admitted(cfg, r))

\* route_headers: the same front, then only the cluster.
RouteHeaders(cfg, req) ==
    LET ctx == CtxOf(RewriteForPath(cfg, req))
    IN  IF req.method \notin Methods THEN BadMethod
        ELSE IF ctx.index \in cfg.passthrough THEN [to |-> "continue"]
        ELSE ResolveTarget(Resolve(cfg, ctx), ctx.kind)

-----------------------------------------------------------------------------
(* The look-ups that work on the request as the client sent it: none of     *)
(* them moves the tenant out of the path first.                             *)

ShapeResponse(cfg, req, results) ==
    LET ctx == CtxOf(req)
    IN  IF req.method \notin Methods THEN None
        ELSE ShapeReadResponse(Resolve(cfg, ctx), ctx, results)

IsWriteRequest(req) ==
    req.method \in Methods /\ IsWrite(CtxOf(req).kind)

DecisionShapeOf(cfg, req) ==
    LET r == Resolve(cfg, CtxOf(req))
    IN  IF req.method \in Methods /\ r.ok THEN DecisionShape(r) ELSE None

Explain(cfg, req) ==
    LET ctx == CtxOf(req)
        r   == Resolve(cfg, ctx)
    IN  IF req.method \notin Methods THEN BadMethod
        ELSE ExplainRoute(r, Admitted(cfg, r), ctx.kind)

-----------------------------------------------------------------------------
(* What leaves for an upstream, and for whom.                               *)

\* Envoy's default route takes a passthrough request as it is.
Untouched(c, ctx) ==
    [ok |-> TRUE, partition |-> None, cluster |-> c.cluster, index |-> ctx.index,
     inject |-> FALSE, idRule |-> FALSE, routing |-> FALSE, phase |-> "settled"]

Bypasses(c, ctx) == ctx.index \in c.passthrough

Plan(c, req) ==
    LET ctx == CtxOf(RewriteForPath(c, req))
        verdict == Handle(c, req)
    IN  IF verdict.to = "continue" THEN Dispatch(Untouched(c, ctx), ctx) ELSE verdict

TenantOf(c, req) ==
    LET ctx == CtxOf(RewriteForPath(c, req))
    IN  IF Bypasses(c, ctx) THEN None ELSE Resolve(c, ctx).partition

-----------------------------------------------------------------------------
(***************************************************************************)
(* What a deployment has to see to.  Placements keep tenants apart where   *)
(* the configuration relies on them to: only a shared index is allowed to  *)
(* hold two tenants, and no tenant's index is a passthrough index.         *)
(***************************************************************************)
Apart(p, q, c) ==
    CASE c.isolation = "dedicated_cluster" -> ClusterFor(c, p) # ClusterFor(c, q)
      [] c.isolation = "dedicated_index"   ->
             <<ClusterFor(c, p), c.indexOf[p]>> # <<ClusterFor(c, q), c.indexOf[q]>>
      [] OTHER -> TRUE

KeepsApart(c) ==
    /\ c \in Config
    /\ \A p, q \in Partitions : p # q => Apart(p, q, c)
    /\ c.isolation = "dedicated_index" =>
           \A p \in Partitions : c.indexOf[p] \notin c.passthrough
    /\ c.shared \notin c.passthrough

\* The place (cluster, index) is one of tenant t's.
Home(c, t, cluster, index) ==
    IF t = None THEN index \in c.passthrough
    ELSE /\ cluster = ClusterFor(c, t)
         /\ index \notin c.passthrough
         /\ c.isolation = "dedicated_index" => index = c.indexOf[t]

Shares(c, t) == t # None /\ c.isolation = "shared_index"
OwnId(t, id) == \E i \in Ids : id = Template(t, i)

\* Requests past the tenancy are of the supported kinds.
Sendable(c, req) ==
    LET ctx == CtxOf(RewriteForPath(c, req))
    IN  WellFormed(ctx) /\ (Bypasses(c, ctx) => ctx.kind \in SupportedKinds)
=============================================================================
