----------------------------- MODULE RouteProofs -----------------------------
(***************************************************************************)
(* What leaves the filter for a tenant stays at the tenant's home: every   *)
(* operation of a forwarded request is scoped (OpScoped).  A home is a     *)
(* place of one's own in a dedicated placement, and a share of a common    *)
(* place - own ids, own mark - in the shared index.  The lemmas go through *)
(* the code in its order: ids and documents, the forward builders, the     *)
(* dispatch, the resolution, the plan.                                     *)
(***************************************************************************)
EXTENDS Brain, TLAPS

Operation ==
    [op : {"index", "create", "delete", "get", "search", "count"},
     index : Indices \cup {""}, id : PhysIds \cup {None},
     routing : Partitions \cup {None}, doc : Doc \cup {None},
     filter : Partitions \cup {None}]

OpScoped(c, t, cluster, op) ==
    /\ Home(c, t, cluster, op.index)
    /\ op.op \in {"index", "create"} => op.doc \in Doc
    /\ Shares(c, t) =>
         /\ op.id # None => OwnId(t, op.id)
         /\ op.op \in {"index", "create"} => op.id # None /\ op.doc.tenant = t
         /\ op.op \in {"search", "count"} => op.filter = t

-----------------------------------------------------------------------------
(* Requests become scoped operations.                                       *)

\* What a resolved (or passed-through) request for tenant t looks like.
Routed(c, t, r) ==
    /\ r.cluster \in Clusters
    /\ r.index \in Indices \cup {""}
    /\ t \in Partitions \cup {None}
    /\ Home(c, t, r.cluster, r.index)
    /\ r.partition = t
    /\ r.inject <=> Shares(c, t)
    /\ r.idRule <=> Shares(c, t)

ScopedPlan(c, t, plan) ==
    /\ plan.cluster \in Clusters
    /\ plan.ops \in Seq(Operation)
    /\ \A i \in DOMAIN plan.ops : OpScoped(c, t, plan.cluster, plan.ops[i])

\* A tenant's physical ids are physical ids, and its own.
LEMMA TemplateFacts ==
    ASSUME NEW p \in Partitions, NEW i \in Ids
    PROVE  /\ Template(p, i) \in PhysIds
           /\ Template(p, i) # None
           /\ OwnId(p, Template(p, i))
  <1>1. Template(p, i) \in PhysIds
    BY DEF PhysIds
  <1>2. Template(p, i) # None
    BY NamesDiffer DEF NamesDiffer
  <1>3. OwnId(p, Template(p, i))
    BY DEF OwnId
  <1>4. QED
    BY <1>1, <1>2, <1>3

\* An id is absent, the client's own, or its tenant's template of it.
LEMMA PhysicalIdFacts ==
    ASSUME NEW c, NEW t, NEW r, Routed(c, t, r), NEW id \in Ids \cup {None}, id # None
    PROVE  /\ PhysicalId(r, id) \in PhysIds
           /\ PhysicalId(r, id) # None
           /\ Shares(c, t) => OwnId(t, PhysicalId(r, id))
  <1>1. CASE Shares(c, t)
    <2>1. t \in Partitions /\ id \in Ids
      BY <1>1 DEF Shares, Routed
    <2>2. PhysicalId(r, id) = Template(t, id)
      BY <1>1 DEF Routed, PhysicalId
    <2>3. QED
      BY <2>1, <2>2, TemplateFacts
  <1>2. CASE ~Shares(c, t)
    <2>1. PhysicalId(r, id) = id
      BY <1>2 DEF Routed, PhysicalId
    <2>2. QED
      BY <1>2, <2>1 DEF PhysIds
  <1>3. QED
    BY <1>1, <1>2

\* An id is built in a shared index, and there it is one of the tenant's (BuiltId).
LEMMA BuiltIdFacts ==
    ASSUME NEW c, NEW t, NEW r, Routed(c, t, r), NEW doc \in Doc, ~ApplyFails(r, doc)
    PROVE  /\ BuiltId(r, doc) \in PhysIds \cup {None}
           /\ Shares(c, t) => BuiltId(r, doc) # None /\ OwnId(t, BuiltId(r, doc))
           /\ ~Shares(c, t) => BuiltId(r, doc) = None
  <1>1. CASE Shares(c, t)
    <2>1. t \in Partitions /\ doc.id \in Ids
      BY <1>1 DEF Shares, Routed, ApplyFails, Doc
    <2>2. BuiltId(r, doc) = Template(t, doc.id)
      BY <1>1 DEF Routed, BuiltId
    <2>3. QED
      BY <1>1, <2>1, <2>2, TemplateFacts
  <1>2. CASE ~Shares(c, t)
    BY <1>2 DEF Routed, BuiltId
  <1>3. QED
    BY <1>1, <1>2

\* Injection marks a document with its tenant (Injected).
LEMMA InjectedFacts ==
    ASSUME NEW c, NEW t, NEW r, Routed(c, t, r), NEW doc \in Doc
    PROVE  /\ Injected(r, doc) \in Doc
           /\ Shares(c, t) => Injected(r, doc).tenant = t
  BY DEF Routed, Injected, Doc, Shares

\* In a shared index a query is filtered by the tenant (FilterOf); routing is well-typed.
LEMMA RoutingFacts ==
    ASSUME NEW c, NEW t, NEW r, Routed(c, t, r)
    PROVE  /\ RoutingOf(r) \in Partitions \cup {None}
           /\ FilterOf(r) \in Partitions \cup {None}
           /\ Shares(c, t) => FilterOf(r) = t
  BY DEF Routed, RoutingOf, FilterOf, Shares

\* A forward of one scoped operation is a scoped plan.
LEMMA SingletonPlan ==
    ASSUME NEW c, NEW t, NEW r, Routed(c, t, r), NEW op \in Operation,
           OpScoped(c, t, r.cluster, op)
    PROVE  ScopedPlan(c, t, Upstream(r, <<op>>))
  <1> DEFINE plan == Upstream(r, <<op>>)
  <1>1. plan.cluster = r.cluster /\ plan.ops = <<op>>
    BY DEF Upstream
  <1>2. r.cluster \in Clusters
    BY DEF Routed
  <1>3. <<op>> \in Seq(Operation) /\ DOMAIN <<op>> = {1} /\ <<op>>[1] = op
    OBVIOUS
  <1>4. QED
    BY <1>1, <1>2, <1>3 DEF ScopedPlan

\* A forward of scoped operations is a scoped plan.
LEMMA SequencePlan ==
    ASSUME NEW c, NEW t, NEW r, Routed(c, t, r), NEW n \in Nat, NEW ops,
           ops = [i \in 1..n |-> ops[i]],
           \A i \in 1..n : ops[i] \in Operation /\ OpScoped(c, t, r.cluster, ops[i])
    PROVE  ScopedPlan(c, t, Upstream(r, ops))
  <1>1. ops \in Seq(Operation) /\ DOMAIN ops = 1..n
    OBVIOUS
  <1>2. QED
    BY <1>1 DEF ScopedPlan, Upstream, Routed

-----------------------------------------------------------------------------
(* One lemma per forward builder.                                           *)

\* An operation is scoped when its id, document and filter are.
LEMMA ScopedOp ==
    ASSUME NEW c, NEW t, NEW r, Routed(c, t, r),
           NEW verb \in {"index", "create", "delete", "get", "search", "count"},
           NEW id \in PhysIds \cup {None}, NEW doc \in Doc \cup {None},
           NEW routing \in Partitions \cup {None}, NEW filter \in Partitions \cup {None},
           verb \in {"index", "create"} => doc \in Doc,
           Shares(c, t) /\ id # None => OwnId(t, id),
           Shares(c, t) /\ verb \in {"index", "create"} => id # None /\ doc.tenant = t,
           Shares(c, t) /\ verb \in {"search", "count"} => filter = t
    PROVE  /\ Op(verb, r.index, id, routing, doc, filter) \in Operation
           /\ OpScoped(c, t, r.cluster, Op(verb, r.index, id, routing, doc, filter))
  <1> DEFINE x == Op(verb, r.index, id, routing, doc, filter)
  <1>1. r.index \in Indices \cup {""} /\ Home(c, t, r.cluster, r.index)
    BY DEF Routed
  <1>2. x \in Operation
    BY <1>1 DEF Op, Operation
  <1>3. x.op = verb /\ x.index = r.index /\ x.id = id /\ x.doc = doc /\ x.filter = filter
    BY DEF Op
  <1>4. OpScoped(c, t, r.cluster, x)
    <2> HIDE DEF x
    <2> QED
      BY <1>1, <1>3 DEF OpScoped
  <1>5. QED
    BY <1>2, <1>4

\* A document's write is scoped (write_forward).
LEMMA WriteForwardScoped ==
    ASSUME NEW c, NEW t, NEW r, Routed(c, t, r), NEW ctx,
           ctx.body \in Doc \cup {Malformed}, ctx.docId \in Ids \cup {None},
           WriteForward(r, ctx).to = "upstream"
    PROVE  ScopedPlan(c, t, WriteForward(r, ctx))
  <1> DEFINE doc == ctx.body
             id  == OrElse(BuiltId(r, doc), ctx.docId)
             op  == Op("index", r.index, id, RoutingOf(r), Injected(r, doc), None)
  <1>1. ~ApplyFails(r, doc)
    BY DEF WriteForward, RewriteFailed, Immediate
  <1>2. doc \in Doc
    BY <1>1 DEF ApplyFails
  <1>3. WriteForward(r, ctx) = Upstream(r, <<op>>)
    BY <1>1 DEF WriteForward
  <1>4. /\ id \in PhysIds \cup {None}
        /\ Shares(c, t) => id # None /\ OwnId(t, id)
    BY <1>1, <1>2, BuiltIdFacts DEF OrElse, PhysIds
  <1>5. Injected(r, doc) \in Doc /\ (Shares(c, t) => Injected(r, doc).tenant = t)
    BY <1>2, InjectedFacts
  <1>6. op \in Operation /\ OpScoped(c, t, r.cluster, op)
    <2> HIDE DEF id, doc
    <2> QED
      BY <1>4, <1>5, RoutingFacts, ScopedOp
  <1>7. QED
    BY <1>3, <1>6, SingletonPlan

\* A read or deletion by id is scoped (by_id_forward).
LEMMA ByIdForwardScoped ==
    ASSUME NEW c, NEW t, NEW r, Routed(c, t, r), NEW ctx,
           ctx.docId \in Ids \cup {None}, ctx.docId # None
    PROVE  ScopedPlan(c, t, ByIdForward(r, ctx))
  <1> DEFINE verb == IF ctx.kind = "delete_by_id" THEN "delete" ELSE "get"
             id   == PhysicalId(r, ctx.docId)
             op   == Op(verb, r.index, id, RoutingOf(r), None, None)
  <1>1. id \in PhysIds /\ (Shares(c, t) => OwnId(t, id))
    BY PhysicalIdFacts
  <1>2. verb \in {"delete", "get"}
    OBVIOUS
  <1>3. op \in Operation /\ OpScoped(c, t, r.cluster, op)
    <2> HIDE DEF id, verb
    <2> QED
      BY <1>1, <1>2, RoutingFacts, ScopedOp, ZenonT(60)
  <1>4. QED
    BY <1>3, SingletonPlan DEF ByIdForward

\* Searches carry no id; the filter is what scopes them.
LEMMA FilteredOp ==
    ASSUME NEW c, NEW t, NEW r, Routed(c, t, r), NEW verb \in {"search", "count"}
    PROVE  /\ Op(verb, r.index, None, None, None, FilterOf(r)) \in Operation
           /\ OpScoped(c, t, r.cluster,
                       Op(verb, r.index, None, None, None, FilterOf(r)))
  <1>1. FilterOf(r) \in Partitions \cup {None} /\ (Shares(c, t) => FilterOf(r) = t)
    BY RoutingFacts
  <1>2. QED
    BY <1>1, ScopedOp, ZenonT(60)

\* A search or count is scoped (query_forward).
LEMMA QueryForwardScoped ==
    ASSUME NEW c, NEW t, NEW r, Routed(c, t, r), NEW ctx,
           ctx.kind \in {"search", "count"},
           QueryForward(r, ctx).to = "upstream"
    PROVE  ScopedPlan(c, t, QueryForward(r, ctx))
  <1> DEFINE op == Op(ctx.kind, r.index, None, None, None, FilterOf(r))
  <1>1. QueryForward(r, ctx) = Upstream(r, <<op>>)
    BY DEF QueryForward, RewriteFailed, Immediate
  <1>2. op \in Operation /\ OpScoped(c, t, r.cluster, op)
    BY FilteredOp
  <1>3. QED
    BY <1>1, <1>2, SingletonPlan

\* What a well-formed bulk item becomes.
LEMMA ItemScoped ==
    ASSUME NEW c, NEW t, NEW r, Routed(c, t, r), NEW item \in Item,
           (item.verb = "delete") = (item.source = None),
           ~ItemFails(r, item)
    PROVE  ItemOp(r, item) \in Operation /\ OpScoped(c, t, r.cluster, ItemOp(r, item))
  <1> DEFINE id  == ItemId(r, item)
             doc == IF item.source # None THEN Injected(r, item.source) ELSE None
  <1>1. /\ item.verb \in {"index", "create", "delete"}
        /\ item.id \in Ids \cup {None}
        /\ item.source \in Doc \cup {None}
    BY DEF Item
  <1>2. item.source # None => item.source \in Doc /\ ~ApplyFails(r, item.source)
    BY <1>1 DEF ItemFails
  <1>3. item.source # None =>
            /\ BuiltId(r, item.source) \in PhysIds \cup {None}
            /\ Shares(c, t) => /\ BuiltId(r, item.source) # None
                               /\ OwnId(t, BuiltId(r, item.source))
    BY <1>2, BuiltIdFacts
  <1>4. item.id # None =>
            /\ PhysicalId(r, item.id) \in PhysIds
            /\ PhysicalId(r, item.id) # None
            /\ Shares(c, t) => OwnId(t, PhysicalId(r, item.id))
    BY <1>1, PhysicalIdFacts
  <1>5. /\ id \in PhysIds \cup {None}
        /\ Shares(c, t) /\ id # None => OwnId(t, id)
        /\ Shares(c, t) /\ item.verb # "delete" => id # None
    BY <1>3, <1>4 DEF ItemId
  <1>6. item.source # None => /\ Injected(r, item.source) \in Doc
                              /\ Shares(c, t) => Injected(r, item.source).tenant = t
    BY <1>2, InjectedFacts
  <1>7. /\ doc \in Doc \cup {None}
        /\ item.verb # "delete" => doc \in Doc /\ (Shares(c, t) => doc.tenant = t)
    BY <1>1, <1>6
  <1>8. ItemOp(r, item) = Op(item.verb, r.index, id, RoutingOf(r), doc, None)
    BY DEF ItemOp
  <1>9. QED
    <2> DEFINE verb == item.verb
    <2>1. /\ verb \in {"index", "create", "delete", "get", "search", "count"}
          /\ verb \notin {"search", "count"}
          /\ verb \in {"index", "create"} => verb # "delete"
      BY <1>1
    <2>2. RoutingOf(r) \in Partitions \cup {None}
      BY RoutingFacts
    <2> HIDE DEF id, doc
    <2>3. /\ Op(verb, r.index, id, RoutingOf(r), doc, None) \in Operation
          /\ OpScoped(c, t, r.cluster, Op(verb, r.index, id, RoutingOf(r), doc, None))
      <3> HIDE DEF verb
      <3> QED
        BY <1>5, <1>7, <2>1, <2>2, ScopedOp, ZenonT(60) DEF verb
    <2>4. QED
      BY <1>8, <2>3

\* Every item of a _bulk is scoped (bulk_forward).
LEMMA BulkForwardScoped ==
    ASSUME NEW c, NEW t, NEW r, Routed(c, t, r), NEW ctx,
           ctx.kind = "ingest_bulk", WellFormed(ctx),
           BulkForward(r, ctx).to = "upstream"
    PROVE  ScopedPlan(c, t, BulkForward(r, ctx))
  <1> DEFINE items == ctx.body
             ops   == [i \in DOMAIN items |-> ItemOp(r, items[i])]
  <1>1. /\ items # Malformed /\ \A i \in DOMAIN items : ~ItemFails(r, items[i])
        /\ BulkForward(r, ctx) = Upstream(r, ops)
    BY DEF BulkForward, RewriteFailed, Immediate
  <1>2. /\ items \in Seq(Item)
        /\ \A i \in DOMAIN items : (items[i].verb = "delete") = (items[i].source = None)
    BY <1>1 DEF WellFormed, BodyOf
  <1>3. Len(items) \in Nat /\ DOMAIN items = 1..Len(items)
    BY <1>2
  <1>4. ASSUME NEW i \in 1..Len(items)
        PROVE  ops[i] \in Operation /\ OpScoped(c, t, r.cluster, ops[i])
    <2>1. items[i] \in Item
      BY <1>2, <1>3
    <2>2. ops[i] = ItemOp(r, items[i])
      BY <1>3
    <2>3. QED
      BY <1>1, <1>2, <1>3, <2>1, <2>2, ItemScoped
  <1>5. ops = [i \in 1..Len(items) |-> ops[i]]
    BY <1>3
  <1>6. QED
    <2> HIDE DEF ops
    <2> QED
      BY <1>1, <1>3, <1>4, <1>5, SequencePlan

\* Every item of an _mget is scoped (multi_get_forward).
LEMMA MultiGetForwardScoped ==
    ASSUME NEW c, NEW t, NEW r, Routed(c, t, r), NEW ctx,
           ctx.body \in Seq(Ids) \cup {Malformed},
           MultiGetForward(r, ctx).to = "upstream"
    PROVE  ScopedPlan(c, t, MultiGetForward(r, ctx))
  <1> DEFINE ids == ctx.body
             ops == [i \in DOMAIN ids |->
                        Op("get", r.index, PhysicalId(r, ids[i]), RoutingOf(r), None, None)]
  <1>1. ids # Malformed /\ MultiGetForward(r, ctx) = Upstream(r, ops)
    BY DEF MultiGetForward, RewriteFailed, Immediate
  <1>2. ids \in Seq(Ids) /\ Len(ids) \in Nat /\ DOMAIN ids = 1..Len(ids)
    BY <1>1
  <1>3. ASSUME NEW i \in 1..Len(ids)
        PROVE  ops[i] \in Operation /\ OpScoped(c, t, r.cluster, ops[i])
    <2> DEFINE id == PhysicalId(r, ids[i])
    <2>1. ids[i] \in Ids
      BY <1>2
    <2>2. ids[i] # None
      BY <2>1, NamesDiffer DEF NamesDiffer
    <2>3. id \in PhysIds /\ (Shares(c, t) => OwnId(t, id))
      BY <2>1, <2>2, PhysicalIdFacts
    <2> DEFINE op == Op("get", r.index, id, RoutingOf(r), None, None)
    <2>4. op \in Operation /\ OpScoped(c, t, r.cluster, op)
      <3> HIDE DEF id
      <3> QED
        BY <2>3, RoutingFacts, ScopedOp
    <2>5. ops[i] = op
      BY <1>2
    <2>6. QED
      BY <2>4, <2>5
  <1>4. ops = [i \in 1..Len(ids) |-> ops[i]]
    BY <1>2
  <1>5. QED
    <2> HIDE DEF ops
    <2> QED
      BY <1>1, <1>2, <1>3, <1>4, SequencePlan

\* Every query of an _msearch is scoped (multi_search_forward).
LEMMA MultiSearchForwardScoped ==
    ASSUME NEW c, NEW t, NEW r, Routed(c, t, r), NEW ctx,
           ctx.body \in Seq({None, Malformed}) \cup {Malformed},
           MultiSearchForward(r, ctx).to = "upstream"
    PROVE  ScopedPlan(c, t, MultiSearchForward(r, ctx))
  <1> DEFINE queries == ctx.body
             op  == Op("search", r.index, None, None, None, FilterOf(r))
             ops == [i \in DOMAIN queries |-> op]
  <1>1. queries # Malformed /\ MultiSearchForward(r, ctx) = Upstream(r, ops)
    BY DEF MultiSearchForward, RewriteFailed, Immediate
  <1>2. Len(queries) \in Nat /\ DOMAIN queries = 1..Len(queries)
    BY <1>1
  <1>3. op \in Operation /\ OpScoped(c, t, r.cluster, op)
    BY FilteredOp
  <1>4. ASSUME NEW i \in 1..Len(queries)
        PROVE  ops[i] \in Operation /\ OpScoped(c, t, r.cluster, ops[i])
    <2>1. ops[i] = op
      BY <1>2
    <2>2. QED
      BY <1>3, <2>1
  <1>5. ops = [i \in 1..Len(queries) |-> ops[i]]
    BY <1>2
  <1>6. QED
    <2> HIDE DEF ops
    <2> QED
      BY <1>1, <1>2, <1>4, <1>5, SequencePlan

\* Whatever the endpoint, the forward is scoped (prepare's dispatch).
LEMMA DispatchScoped ==
    ASSUME NEW c, NEW t, NEW r, Routed(c, t, r), NEW ctx, WellFormed(ctx),
           ctx.kind \in SupportedKinds, Dispatch(r, ctx).to = "upstream"
    PROVE  ScopedPlan(c, t, Dispatch(r, ctx))
  <1>1. CASE ctx.kind = "ingest_doc"
    <2>1. ctx.body \in Doc \cup {Malformed} /\ ctx.docId \in Ids \cup {None}
      BY <1>1 DEF WellFormed, BodyOf
    <2>2. Dispatch(r, ctx) = WriteForward(r, ctx)
      BY <1>1 DEF Dispatch
    <2>3. QED
      BY <2>1, <2>2, WriteForwardScoped
  <1>2. CASE ctx.kind = "ingest_bulk"
    <2>1. Dispatch(r, ctx) = BulkForward(r, ctx)
      BY <1>2 DEF Dispatch
    <2>2. QED
      BY <1>2, <2>1, BulkForwardScoped
  <1>3. CASE ctx.kind \in {"get_by_id", "delete_by_id"}
    <2>1. ctx.docId \in Ids \cup {None} /\ ctx.docId # None
      BY <1>3 DEF WellFormed
    <2>2. Dispatch(r, ctx) = ByIdForward(r, ctx)
      BY <1>3 DEF Dispatch
    <2>3. QED
      BY <2>1, <2>2, ByIdForwardScoped
  <1>4. CASE ctx.kind \in {"search", "count"}
    <2>1. Dispatch(r, ctx) = QueryForward(r, ctx)
      BY <1>4 DEF Dispatch
    <2>2. QED
      BY <1>4, <2>1, QueryForwardScoped
  <1>5. CASE ctx.kind = "multi_get"
    <2>1. ctx.body \in Seq(Ids) \cup {Malformed}
      BY <1>5 DEF WellFormed, BodyOf
    <2>2. Dispatch(r, ctx) = MultiGetForward(r, ctx)
      BY <1>5 DEF Dispatch
    <2>3. QED
      BY <2>1, <2>2, MultiGetForwardScoped
  <1>6. CASE ctx.kind = "multi_search"
    <2>1. ctx.body \in Seq({None, Malformed}) \cup {Malformed}
      BY <1>6 DEF WellFormed, BodyOf
    <2>2. Dispatch(r, ctx) = MultiSearchForward(r, ctx)
      BY <1>6 DEF Dispatch
    <2>3. QED
      BY <2>1, <2>2, MultiSearchForwardScoped
  <1>7. QED
    BY <1>1, <1>2, <1>3, <1>4, <1>5, <1>6 DEF SupportedKinds

-----------------------------------------------------------------------------
(* Resolution.                                                              *)

\* A resolved request goes to its tenant's home.
LEMMA ResolveRouted ==
    ASSUME NEW c, KeepsApart(c), NEW ctx, WellFormed(ctx), ~Bypasses(c, ctx),
           Resolve(c, ctx).ok
    PROVE  Routed(c, Resolve(c, ctx).partition, Resolve(c, ctx))
  <1> DEFINE p == ResolvePartition(c, ctx)
             r == Resolve(c, ctx)
  <1>1. c \in Config
    BY DEF KeepsApart
  <1>2. p \in Partitions
    <2>1. /\ c.default \in Partitions \cup {None}
          /\ ctx.header \in Partitions \cup {None}
          /\ ctx.principal \in Partitions
      BY <1>1 DEF Config, WellFormed
    <2>2. p # None
      BY DEF Resolve, Unresolved
    <2>3. QED
      BY <2>1, <2>2 DEF ResolvePartition
  <1>3. p # None
    BY <1>2, NamesDiffer DEF NamesDiffer
  <1>4. /\ r.partition = p
        /\ r.cluster = ClusterFor(c, p)
        /\ r.index = IndexFor(c, p, ctx.index)
        /\ r.inject = Injects(c)
        /\ r.idRule = HasIdRule(c)
    BY <1>3 DEF Resolve
  <1>5. ClusterFor(c, p) \in Clusters
    <2>1. c.cluster \in Clusters
      BY <1>1 DEF Config
    <2>2. PICK S \in SUBSET Partitions : c.clusterBy \in [S -> Clusters]
      BY <1>1 DEF Config
    <2>3. QED
      BY <2>1, <2>2 DEF ClusterFor
  <1>6. /\ IndexFor(c, p, ctx.index) \in Indices \cup {""}
        /\ IndexFor(c, p, ctx.index) \notin c.passthrough
        /\ c.isolation = "dedicated_index" => IndexFor(c, p, ctx.index) = c.indexOf[p]
    <2>1. c.isolation \in Isolations /\ c.shared \in Indices /\ c.indexOf[p] \in Indices
      BY <1>1, <1>2 DEF Config
    <2>2. /\ c.shared \notin c.passthrough
          /\ c.isolation = "dedicated_index" => c.indexOf[p] \notin c.passthrough
      BY <1>2 DEF KeepsApart
    <2>3. ctx.index \in Indices \cup {""} /\ ctx.index \notin c.passthrough
      BY DEF WellFormed, Bypasses
    <2>4. QED
      BY <2>1, <2>2, <2>3 DEF IndexFor, Isolations
  <1>7. Injects(c) <=> Shares(c, p)
    BY <1>3 DEF Injects, Shares
  <1>8. HasIdRule(c) <=> Shares(c, p)
    BY <1>3 DEF HasIdRule, Shares
  <1>9. Home(c, p, ClusterFor(c, p), IndexFor(c, p, ctx.index))
    BY <1>3, <1>6 DEF Home
  <1>10. QED
    <2> HIDE DEF p, r
    <2> QED
      BY <1>2, <1>4, <1>5, <1>6, <1>7, <1>8, <1>9 DEF Routed, r

\* A passthrough request stays in the passthrough indices.
LEMMA UntouchedRouted ==
    ASSUME NEW c, KeepsApart(c), NEW ctx, WellFormed(ctx), Bypasses(c, ctx)
    PROVE  Routed(c, None, Untouched(c, ctx))
  <1>1. c.cluster \in Clusters
    BY DEF KeepsApart, Config
  <1>2. ctx.index \in Indices \cup {""} /\ ctx.index \in c.passthrough
    BY DEF WellFormed, Bypasses
  <1>3. QED
    BY <1>1, <1>2 DEF Routed, Untouched, Home, Shares

\* A forward builder forwards or refuses (prepare's dispatch).
LEMMA ForwardTo ==
    ASSUME NEW r, NEW ctx
    PROVE  Dispatch(r, ctx).to \in {"local", "upstream"}
  BY DEF Dispatch, WriteForward, BulkForward, ByIdForward, QueryForward,
         MultiGetForward, MultiSearchForward, Upstream, RewriteFailed, Immediate

\* What leaves the filter for a tenant is scoped (handle).
LEMMA PlanScoped ==
    ASSUME NEW c, KeepsApart(c), NEW req, Sendable(c, req), Plan(c, req).to = "upstream"
    PROVE  /\ TenantOf(c, req) \in Partitions \cup {None}
           /\ ScopedPlan(c, TenantOf(c, req), Plan(c, req))
  <1> DEFINE ctx == CtxOf(RewriteForPath(c, req))
             r   == Resolve(c, ctx)
  <1>1. WellFormed(ctx) /\ (ctx.index \in c.passthrough => ctx.kind \in SupportedKinds)
    BY DEF Sendable, Bypasses
  <1>2. CASE Bypasses(c, ctx)
    <2>1. Handle(c, req).to # "continue" => Handle(c, req).to = "local"
      BY <1>2 DEF Handle, Verdict, Front, Pass, BadMethod, Immediate, Bypasses
    <2>2. Plan(c, req) = Dispatch(Untouched(c, ctx), ctx)
      BY <2>1 DEF Plan
    <2>3. Routed(c, None, Untouched(c, ctx)) /\ ctx.kind \in SupportedKinds
      BY <1>1, <1>2, UntouchedRouted DEF Bypasses
    <2>4. TenantOf(c, req) = None
      BY <1>2 DEF TenantOf
    <2>5. QED
      <3> HIDE DEF ctx
      <3> QED
        BY <1>1, <2>2, <2>3, <2>4, DispatchScoped
  <1>3. CASE ~Bypasses(c, ctx)
    <2>1. \/ Handle(c, req).to = "local"
          \/ Handle(c, req) = Prepare(r, Admitted(c, r), ctx)
      BY <1>3 DEF Handle, Verdict, Front, Pass, BadMethod, Immediate, Bypasses
    <2>2. \/ Prepare(r, Admitted(c, r), ctx).to = "local"
          \/ /\ ctx.kind \in SupportedKinds /\ r.ok
             /\ Prepare(r, Admitted(c, r), ctx) = Dispatch(r, ctx)
      <3> HIDE DEF ctx, r
      <3> QED
        BY DEF Prepare, Refusal, Immediate
    <2>3. /\ ctx.kind \in SupportedKinds /\ r.ok
          /\ Plan(c, req) = Dispatch(r, ctx)
      <3>1. Dispatch(r, ctx).to # "continue"
        BY ForwardTo
      <3>2. Plan(c, req) = Handle(c, req) \/ Handle(c, req).to = "continue"
        BY DEF Plan
      <3>3. QED
        <4> HIDE DEF ctx, r
        <4> QED
          BY <2>1, <2>2, <3>1, <3>2
    <2>4. Routed(c, r.partition, r)
      BY <1>1, <1>3, <2>3, ResolveRouted
    <2>5. TenantOf(c, req) = r.partition
      BY <1>3 DEF TenantOf
    <2>6. r.partition \in Partitions \cup {None}
      BY <2>4 DEF Routed
    <2>7. QED
      <3> HIDE DEF ctx, r
      <3> QED
        BY <1>1, <2>3, <2>4, <2>5, <2>6, DispatchScoped
  <1>4. QED
    BY <1>2, <1>3

-----------------------------------------------------------------------------
(* Homes.                                                                   *)

\* Two tenants meet in one index only when it is the shared one.
LEMMA HomesApart ==
    ASSUME NEW c, KeepsApart(c), NEW t \in Partitions \cup {None},
           NEW u \in Partitions \cup {None}, NEW cluster, NEW index,
           Home(c, t, cluster, index), Home(c, u, cluster, index)
    PROVE  t = u \/ (Shares(c, t) /\ Shares(c, u))
  <1>1. CASE t = None \/ u = None
    BY <1>1 DEF Home
  <1>2. CASE t # None /\ u # None
    <2>1. t \in Partitions /\ u \in Partitions
      BY <1>2
    <2>2. ClusterFor(c, t) = ClusterFor(c, u)
      BY <1>2 DEF Home
    <2>3. c.isolation = "dedicated_index" => c.indexOf[t] = c.indexOf[u]
      BY <1>2 DEF Home
    <2>4. c.isolation \in Isolations
      BY DEF KeepsApart, Config
    <2>5. t # u => Apart(t, u, c)
      BY <2>1 DEF KeepsApart
    <2>6. CASE c.isolation = "shared_index"
      BY <1>2, <2>6 DEF Shares
    <2>7. CASE c.isolation = "dedicated_index"
      BY <2>2, <2>3, <2>5, <2>7 DEF Apart
    <2>8. CASE c.isolation = "dedicated_cluster"
      BY <2>2, <2>5, <2>8 DEF Apart
    <2>9. QED
      BY <2>4, <2>6, <2>7, <2>8 DEF Isolations
  <1>3. QED
    BY <1>1, <1>2

\* No physical id is the absent one.
LEMMA NonePhysical == None \notin PhysIds
  <1>1. None \notin Ids
    BY NamesDiffer DEF NamesDiffer
  <1>2. \A p \in Partitions, i \in Ids : Template(p, i) # None
    BY NamesDiffer DEF NamesDiffer
  <1>3. SUFFICES ASSUME None \in PhysIds PROVE FALSE
    OBVIOUS
  <1>4. PICK p \in Partitions, i \in Ids : None = Template(p, i)
    BY <1>1, <1>3 DEF PhysIds
  <1>5. QED
    BY <1>2, <1>4

-----------------------------------------------------------------------------
(* The write gate.                                                          *)

Reads == {"get", "search", "count"}

\* What is not a write only reads (the forwards of the read endpoints).
LEMMA ReadsOnly ==
    ASSUME NEW r, NEW ctx, ctx.kind \in SupportedKinds, ~IsWrite(ctx.kind),
           Dispatch(r, ctx).to = "upstream"
    PROVE  \A i \in DOMAIN Dispatch(r, ctx).ops : Dispatch(r, ctx).ops[i].op \in Reads
  <1>1. CASE ctx.kind = "get_by_id"
    <2>1. Dispatch(r, ctx) = ByIdForward(r, ctx)
      BY <1>1 DEF Dispatch
    <2>2. QED
      BY <1>1, <2>1 DEF ByIdForward, Upstream, Op, Reads
  <1>2. CASE ctx.kind \in {"search", "count"}
    <2>1. Dispatch(r, ctx) = QueryForward(r, ctx)
      BY <1>2 DEF Dispatch
    <2>2. QED
      BY <1>2, <2>1 DEF QueryForward, RewriteFailed, Immediate, Upstream, Op, Reads
  <1>3. CASE ctx.kind = "multi_get"
    <2>1. Dispatch(r, ctx) = MultiGetForward(r, ctx)
      BY <1>3 DEF Dispatch
    <2>2. QED
      BY <2>1 DEF MultiGetForward, RewriteFailed, Immediate, Upstream, Op, Reads
  <1>4. CASE ctx.kind = "multi_search"
    <2>1. Dispatch(r, ctx) = MultiSearchForward(r, ctx)
      BY <1>4 DEF Dispatch
    <2>2. QED
      BY <2>1 DEF MultiSearchForward, RewriteFailed, Immediate, Upstream, Op, Reads
  <1>5. QED
    BY <1>1, <1>2, <1>3, <1>4 DEF SupportedKinds, IsWrite

\* What leaves for a tenant in cutover only reads (prepare's gate, asked for every
\* endpoint that writes).
LEMMA PlanHeld ==
    ASSUME NEW c, NEW req, Plan(c, req).to = "upstream", c.phase = "cutover",
           c.migrating # None, TenantOf(c, req) = c.migrating
    PROVE  \A i \in DOMAIN Plan(c, req).ops : Plan(c, req).ops[i].op \in Reads
  <1>0. PICK ctx, r : ctx = CtxOf(RewriteForPath(c, req)) /\ r = Resolve(c, ctx)
    OBVIOUS
  <1>1. ~Bypasses(c, ctx) /\ r.partition = c.migrating
    BY <1>0 DEF TenantOf
  <1>2. \/ Handle(c, req).to = "local"
        \/ Handle(c, req) = Prepare(r, Admitted(c, r), ctx)
    BY <1>0, <1>1 DEF Handle, Verdict, Front, Pass, BadMethod, Immediate, Bypasses
  <1>3. r.ok => ~Admitted(c, r)
    BY <1>1 DEF Admitted, AdmitWrite, PhaseOf
  <1>4. \/ Prepare(r, Admitted(c, r), ctx).to = "local"
        \/ /\ ctx.kind \in SupportedKinds /\ ~IsWrite(ctx.kind)
           /\ Prepare(r, Admitted(c, r), ctx) = Dispatch(r, ctx)
    BY <1>3 DEF Prepare, Refusal, Immediate
  <1>5. Handle(c, req).to \in {"local", "upstream"}
    BY <1>2, <1>4, ForwardTo
  <1>6. Plan(c, req) = Handle(c, req)
    BY <1>5 DEF Plan
  <1>7. QED
    BY <1>2, <1>4, <1>6, ReadsOnly

\* A search is filtered as its route says (the forwards of the searching endpoints).
LEMMA SearchesFiltered ==
    ASSUME NEW r, NEW ctx, ctx.kind \in SupportedKinds, WellFormed(ctx),
           Dispatch(r, ctx).to = "upstream", NEW i \in DOMAIN Dispatch(r, ctx).ops,
           Dispatch(r, ctx).ops[i].op \in {"search", "count"}
    PROVE  Dispatch(r, ctx).ops[i].filter = FilterOf(r)
  <1>1. CASE ctx.kind = "ingest_doc"
    BY <1>1 DEF Dispatch, WriteForward, RewriteFailed, Immediate, Upstream, Op
  <1>2. CASE ctx.kind = "ingest_bulk"
    <2>1. ctx.body \in Seq(Item) \cup {Malformed} /\ Dispatch(r, ctx) = BulkForward(r, ctx)
      BY <1>2 DEF WellFormed, BodyOf, Dispatch
    <2>2. ctx.body # Malformed
          /\ BulkForward(r, ctx)
                = Upstream(r, [k \in DOMAIN ctx.body |-> ItemOp(r, ctx.body[k])])
      BY <2>1 DEF BulkForward, RewriteFailed, Immediate
    <2>3. Dispatch(r, ctx).ops[i] = ItemOp(r, ctx.body[i]) /\ i \in DOMAIN ctx.body
      BY <2>1, <2>2 DEF Upstream
    <2>4. ctx.body[i] \in Item
      BY <2>1, <2>2, <2>3
    <2>5. QED
      BY <2>3, <2>4 DEF ItemOp, Op, Item
  <1>3. CASE ctx.kind \in {"get_by_id", "delete_by_id"}
    BY <1>3 DEF Dispatch, ByIdForward, Upstream, Op
  <1>4. CASE ctx.kind \in {"search", "count"}
    BY <1>4 DEF Dispatch, QueryForward, RewriteFailed, Immediate, Upstream, Op
  <1>5. CASE ctx.kind = "multi_get"
    BY <1>5 DEF Dispatch, MultiGetForward, RewriteFailed, Immediate, Upstream, Op
  <1>6. CASE ctx.kind = "multi_search"
    BY <1>6 DEF Dispatch, MultiSearchForward, RewriteFailed, Immediate, Upstream, Op
  <1>7. QED
    BY <1>1, <1>2, <1>3, <1>4, <1>5, <1>6 DEF SupportedKinds

\* A dry run and the request it speaks for are judged alike up to the body (explain
\* and prepare, which share the refusals and the route).
LEMMA DryRun ==
    ASSUME NEW c, NEW req, c.source # "path"
    PROVE  \/ Bypasses(c, CtxOf(req))
           \/ Handle(c, req) = Immediate(403, "mtls_required_for_mutation")
           \/ Explain(c, req).to = "local" /\ Handle(c, req) = Explain(c, req)
           \/ \E ctx, r :
                 /\ ctx = CtxOf(RewriteForPath(c, req)) /\ r = Resolve(c, ctx) /\ r.ok
                 /\ Explain(c, req) = [to |-> "route", decision |-> DecisionShape(r)]
                 /\ ctx.kind \in SupportedKinds
                 /\ IsWrite(ctx.kind) => Admitted(c, r)
                 /\ ~Bypasses(c, ctx)
                 /\ Handle(c, req) = Dispatch(r, ctx)
                 /\ Handle(c, req).to = "upstream" \/ Handle(c, req) = RewriteFailed
  <1>0. PICK ctx, r : ctx = CtxOf(req) /\ r = Resolve(c, ctx)
    OBVIOUS
  <1>1. RewriteForPath(c, req) = req
    BY DEF RewriteForPath, SplitsTenant
  <1>2. Handle(c, req) = Verdict(c, req, r, Admitted(c, r))
    BY <1>0, <1>1 DEF Handle
  <1>3. CASE Front(c, req) # Pass
    <2>1. Handle(c, req) = Front(c, req)
      BY <1>2, <1>3 DEF Verdict
    <2>2. CASE req.method \notin Methods
      <3>1. Front(c, req) = BadMethod /\ Explain(c, req) = BadMethod
        BY <2>2 DEF Front, Explain
      <3>2. QED
        BY <2>1, <3>1 DEF BadMethod, Immediate
    <2>3. CASE req.method \in Methods
      BY <1>0, <1>1, <1>3, <2>1, <2>3 DEF Front, Bypasses
    <2>4. QED
      BY <2>2, <2>3
  <1>4. CASE Front(c, req) = Pass
    <2>1. req.method \in Methods
      BY <1>4 DEF Front, BadMethod, Immediate, Pass
    <2>2. PICK refusal : refusal = Refusal(r, Admitted(c, r), ctx.kind)
      OBVIOUS
    <2>3. /\ Handle(c, req) = IF refusal.to = "local" THEN refusal ELSE Dispatch(r, ctx)
          /\ Explain(c, req) = IF refusal.to = "local" THEN refusal
                               ELSE [to |-> "route", decision |-> DecisionShape(r)]
      BY <1>0, <1>1, <1>2, <1>4, <2>1, <2>2
         DEF Verdict, Prepare, Explain, ExplainRoute
    <2>4. Dispatch(r, ctx).to = "upstream" \/ Dispatch(r, ctx) = RewriteFailed
      BY DEF Dispatch, WriteForward, BulkForward, ByIdForward, QueryForward,
             MultiGetForward, MultiSearchForward, Upstream
    <2>5. CASE refusal.to = "local"
      BY <2>3, <2>5
    <2>6. CASE refusal.to # "local"
      <3>1. ctx.kind \in SupportedKinds /\ r.ok /\ (IsWrite(ctx.kind) => Admitted(c, r))
        BY <2>2, <2>6 DEF Refusal, Immediate
      <3>2. ~Bypasses(c, ctx)
        BY <1>0, <1>1, <1>4 DEF Front, Pass, BadMethod, Immediate, Bypasses
      <3>3. QED
        BY <1>0, <1>1, <2>3, <2>4, <2>6, <3>1, <3>2
    <2>7. QED
      BY <2>5, <2>6
  <1>5. QED
    BY <1>3, <1>4
==============================================================================
