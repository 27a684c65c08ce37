-------------------------- MODULE RefinementProofs --------------------------
(***************************************************************************)
(* SharedStore implements TenantStore, for every instance.  The filter is  *)
(* a translator: every physical operation is the image (OpOf) of what the  *)
(* client asked for, every entry and every hit the image of a private      *)
(* document, and what comes back is translated into what was asked.        *)
(***************************************************************************)
EXTENDS SharedStoreProofs, SharedStoreClaims, FiniteSetTheorems

-----------------------------------------------------------------------------
(* The translation.                                                         *)

Marked(c, t, doc) ==
    IF doc = None \/ ~Shares(c, t) THEN doc ELSE [doc EXCEPT !.tenant = t]

\* The physical operation a private one becomes.
OpOf(c, t, a) ==
    IF a.op \in {"search", "count"}
    THEN Op(a.op, Place(c, t, a.index), None, None, None, MarkOf(c, t))
    ELSE Op(a.op, Place(c, t, a.index), PhysOf(c, t, a.id), RouteFor(c, t),
            Marked(c, t, a.doc), None)

\* An operation of tenant t that makes sense.
Proper(c, t, a) ==
    /\ a \in Abstract!Ask
    /\ a.space = SpaceOf(c, t, a.index)
    /\ a.op \in Writes => /\ a.doc \in Doc /\ Plain(c, a.doc)
                          /\ Shares(c, t) => a.id # None
    /\ a.op \notin Writes => a.doc = None

\* What a forward amounts to: the request's operations, translated.
Amounts(c, t, ctx, asks, plan) ==
    /\ plan.cluster = HomeOf(c, t)
    /\ asks \in Seq(Abstract!Ask)
    /\ plan.ops = [i \in DOMAIN asks |-> OpOf(c, t, asks[i])]
    /\ \A i \in DOMAIN asks :
         /\ Proper(c, t, asks[i])
         /\ asks[i].index = ctx.index
         /\ asks[i].op = "count" <=> ctx.kind = "count"
         /\ ctx.kind = "get_by_id" => asks[i].op = "get" /\ asks[i].id = ctx.docId

-----------------------------------------------------------------------------
(* What the assumptions say of a request.                                   *)

NoneIsNothing == None \notin Doc /\ None \notin Seq(SUBSET Hit)

\* What the router answers for tenant t.
Lands(c, t, ctx, r) ==
    /\ t \in Owners
    /\ r.cluster = HomeOf(c, t)
    /\ r.index = Place(c, t, ctx.index)
    /\ r.partition = t
    /\ r.inject = Shares(c, t)
    /\ r.idRule = Shares(c, t)
    /\ RoutingOf(r) = RouteFor(c, t)

\* What the assumptions on requests leave for the builders.
Consistent(c, t, ctx, asks) ==
    /\ t = None => \A i \in DOMAIN asks : asks[i].op \in Writes => Plain(c, asks[i].doc)
    /\ Shares(c, t) /\ ctx.kind = "ingest_doc" /\ ctx.docId # None /\ ctx.body # Malformed =>
           ctx.body.id = ctx.docId

-----------------------------------------------------------------------------
(* One lemma per forward builder.                                           *)

\* The space of a name is one of the spaces (SpaceOf).
LEMMA SpaceType ==
    ASSUME NEW c, NEW t, NEW index \in Indices \cup {""}
    PROVE  SpaceOf(c, t, index) \in Indices \cup {"", "all"}
  BY DEF SpaceOf

\* What is asked is an operation on a private store.
LEMMA AskType ==
    ASSUME NEW c, NEW t, NEW ctx, ctx.index \in Indices \cup {""},
           NEW op \in {"index", "create", "delete", "get", "search", "count"},
           NEW id \in Ids \cup {None}, NEW doc \in Doc \cup {None}
    PROVE  Ask(c, t, ctx, op, id, doc) \in Abstract!Ask
  BY SpaceType DEF Ask, Abstract!Ask

\* What a sequence is.
LEMMA SeqFacts ==
    ASSUME NEW S, NEW s \in Seq(S)
    PROVE  \E n \in Nat : n = Len(s) /\ DOMAIN s = 1..n /\ \A i \in 1..n : s[i] \in S
  <1>1. Len(s) \in Nat /\ DOMAIN s = 1..Len(s) /\ \A i \in 1..Len(s) : s[i] \in S
    OBVIOUS
  <1>2. QED
    BY <1>1

\* A forward of one operation.
LEMMA OneAsk ==
    ASSUME NEW c, NEW t, NEW ctx, NEW r, Lands(c, t, ctx, r), NEW a, Proper(c, t, a),
           a.index = ctx.index, a.op = "count" <=> ctx.kind = "count",
           ctx.kind = "get_by_id" => a.op = "get" /\ a.id = ctx.docId
    PROVE  Amounts(c, t, ctx, <<a>>, Upstream(r, <<OpOf(c, t, a)>>))
  <1> DEFINE asks == <<a>>
             op   == OpOf(c, t, a)
             plan == Upstream(r, <<op>>)
  <1>1. DOMAIN asks = {1} /\ asks[1] = a /\ a \in Abstract!Ask
    BY DEF Proper
  <1>2. asks \in Seq(Abstract!Ask)
    BY <1>1
  <1>3. plan.cluster = r.cluster /\ plan.ops = <<op>>
    BY DEF Upstream
  <1>4. <<op>> = [i \in DOMAIN asks |-> OpOf(c, t, asks[i])]
    <2>1. [i \in DOMAIN asks |-> OpOf(c, t, asks[i])] = [i \in {1} |-> op]
      BY <1>1
    <2> HIDE DEF op
    <2>2. <<op>> = [i \in {1} |-> op]
      OBVIOUS
    <2>3. QED
      BY <2>1, <2>2
  <1>5. plan.cluster = HomeOf(c, t)
    BY <1>3 DEF Lands
  <1>6. QED
    <2> HIDE DEF asks, plan, op
    <2>1. Amounts(c, t, ctx, asks, plan)
      BY <1>1, <1>2, <1>3, <1>4, <1>5 DEF Amounts
    <2>2. QED
      BY <2>1 DEF asks, plan, op

\* A forward of n operations.
LEMMA ManyAsks ==
    ASSUME NEW c, NEW t, NEW ctx, NEW r, Lands(c, t, ctx, r), NEW n \in Nat,
           NEW asks, asks = [i \in 1..n |-> asks[i]],
           NEW ops, ops = [i \in 1..n |-> OpOf(c, t, asks[i])],
           \A i \in 1..n : Proper(c, t, asks[i]) /\ asks[i].index = ctx.index
                           /\ asks[i].op # "count",
           ctx.kind \notin {"count", "get_by_id"}
    PROVE  Amounts(c, t, ctx, asks, Upstream(r, ops))
  <1>1. DOMAIN asks = 1..n
    OBVIOUS
  <1>2. asks \in Seq(Abstract!Ask)
    BY <1>1 DEF Proper
  <1>3. Upstream(r, ops).cluster = HomeOf(c, t) /\ Upstream(r, ops).ops = ops
    BY DEF Upstream, Lands
  <1>4. QED
    BY <1>1, <1>2, <1>3 DEF Amounts

\* The id of a written document is the image of the one that was asked for.
LEMMA WrittenId ==
    ASSUME NoneIsNothing, NEW c, NEW t, NEW ctx, NEW r, Lands(c, t, ctx, r), NEW doc \in Doc,
           ~ApplyFails(r, doc)
    PROVE  /\ Shares(c, t) => doc.id \in Ids /\ doc.id # None /\ doc.tenant = None
           /\ BuiltId(r, doc) = IF Shares(c, t) THEN PhysOf(c, t, doc.id) ELSE None
           /\ Injected(r, doc) = Marked(c, t, doc)
           /\ Shares(c, t) => PhysOf(c, t, doc.id) # None
  <1>1. Shares(c, t) => doc.id \in Ids /\ doc.id # None /\ doc.tenant = None /\ t \in Partitions
    BY DEF ApplyFails, Doc, Lands, Shares, Owners
  <1>2. BuiltId(r, doc) = IF Shares(c, t) THEN PhysOf(c, t, doc.id) ELSE None
    BY <1>1 DEF BuiltId, Lands, PhysOf
  <1>3. Injected(r, doc) = Marked(c, t, doc)
    BY DEF Injected, Marked, Lands, NoneIsNothing
  <1>4. Shares(c, t) => PhysOf(c, t, doc.id) # None
    BY <1>1, TemplateFacts DEF PhysOf
  <1>5. QED
    BY <1>1, <1>2, <1>3, <1>4

\* write_forward: the id in the body wins, and is the one in the path.
LEMMA WriteForwardAmounts ==
    ASSUME NoneIsNothing, NEW c, NEW t, NEW ctx, NEW r, Lands(c, t, ctx, r),
           WellFormed(ctx), ctx.kind = "ingest_doc",
           NEW asks, asks = AskedBy(c, t, ctx), Consistent(c, t, ctx, asks),
           WriteForward(r, ctx).to = "upstream"
    PROVE  Amounts(c, t, ctx, asks, WriteForward(r, ctx))
  <1> DEFINE doc == ctx.body
             id  == ChosenId(c, t, ctx.docId, doc)
             a   == Ask(c, t, ctx, "index", id, doc)
             op  == Op("index", r.index, OrElse(BuiltId(r, doc), ctx.docId),
                       RoutingOf(r), Injected(r, doc), None)
  <1>1. ~ApplyFails(r, doc) /\ WriteForward(r, ctx) = Upstream(r, <<op>>)
    BY DEF WriteForward, RewriteFailed, Immediate
  <1>2. /\ doc \in Doc /\ doc # None /\ doc # Malformed
        /\ ctx.docId \in Ids \cup {None} /\ ctx.index \in Indices \cup {""}
    BY <1>1 DEF ApplyFails, WellFormed, BodyOf, NoneIsNothing
  <1>3. asks = <<a>>
    BY DEF AskedBy
  <1>4. /\ id \in Ids \cup {None}
        /\ Shares(c, t) => id = doc.id /\ id # None
        /\ ~Shares(c, t) => id = ctx.docId
    BY <1>1, <1>2, WrittenId DEF ChosenId, Consistent, Shares, Bypassed, HasIdRule
  <1>5. /\ a.op = "index" /\ a.space = SpaceOf(c, t, ctx.index) /\ a.index = ctx.index
        /\ a.id = id /\ a.doc = doc
    BY DEF Ask
  <1>6. a \in Abstract!Ask
    <2>1. SpaceOf(c, t, ctx.index) \in Indices \cup {"", "all"}
      BY <1>2, SpaceType
    <2> HIDE DEF id, doc
    <2>2. QED
      BY <1>2, <1>4, <2>1 DEF Ask, Abstract!Ask
  <1>7. Plain(c, doc)
    <2>1. CASE t = None
      <3>1. asks[1].op \in Writes /\ asks[1].doc = doc /\ 1 \in DOMAIN asks
        BY <1>3, <1>5 DEF Writes
      <3>2. QED
        BY <2>1, <3>1 DEF Consistent
    <2>2. CASE t # None
      BY <1>1, <1>2, <2>2, WrittenId DEF Plain, Shares
    <2>3. QED
      BY <2>1, <2>2
  <1>8. Proper(c, t, a)
    <2> HIDE DEF a, id, doc
    <2> QED
      BY <1>2, <1>4, <1>5, <1>6, <1>7 DEF Proper, Writes
  <1>9. op = OpOf(c, t, a)
    <2>1. OrElse(BuiltId(r, doc), ctx.docId) = PhysOf(c, t, id)
      <3>1. /\ BuiltId(r, doc) = IF Shares(c, t) THEN PhysOf(c, t, doc.id) ELSE None
            /\ Shares(c, t) => PhysOf(c, t, doc.id) # None
        BY <1>1, <1>2, WrittenId
      <3> HIDE DEF id, doc
      <3>2. QED
        BY <1>4, <3>1 DEF OrElse, PhysOf
    <2>2. Injected(r, doc) = Marked(c, t, doc)
      BY <1>1, <1>2, WrittenId
    <2>3. r.index = Place(c, t, ctx.index) /\ RoutingOf(r) = RouteFor(c, t)
      BY DEF Lands
    <2> HIDE DEF a, id, doc
    <2>4. QED
      BY <1>5, <2>1, <2>2, <2>3 DEF OpOf, op
  <1>10. QED
    <2> HIDE DEF a, op, id, doc
    <2> QED
      BY <1>1, <1>3, <1>5, <1>8, <1>9, OneAsk

\* by_id_forward.
LEMMA ByIdForwardAmounts ==
    ASSUME NEW c, NEW t, NEW ctx, NEW r, Lands(c, t, ctx, r),
           WellFormed(ctx), ctx.kind \in {"get_by_id", "delete_by_id"},
           NEW asks, asks = AskedBy(c, t, ctx)
    PROVE  Amounts(c, t, ctx, asks, ByIdForward(r, ctx))
  <1> DEFINE verb == IF ctx.kind = "delete_by_id" THEN "delete" ELSE "get"
             a    == Ask(c, t, ctx, verb, ctx.docId, None)
             op   == Op(verb, r.index, PhysicalId(r, ctx.docId), RoutingOf(r), None, None)
  <1>1. ctx.docId \in Ids /\ ctx.docId # None /\ ctx.index \in Indices \cup {""}
    BY DEF WellFormed
  <1>2. asks = <<a>> /\ ByIdForward(r, ctx) = Upstream(r, <<op>>)
    BY DEF AskedBy, ByIdForward
  <1>3. /\ a.op = verb /\ a.space = SpaceOf(c, t, ctx.index) /\ a.index = ctx.index
        /\ a.id = ctx.docId /\ a.doc = None /\ verb \in {"delete", "get"}
    BY DEF Ask
  <1>4. a \in Abstract!Ask
    <2>1. SpaceOf(c, t, ctx.index) \in Indices \cup {"", "all"}
      BY <1>1, SpaceType
    <2> HIDE DEF verb
    <2>2. QED
      BY <1>1, <1>3, <2>1 DEF Ask, Abstract!Ask
  <1>5. Proper(c, t, a)
    <2> HIDE DEF a, verb
    <2> QED
      BY <1>3, <1>4 DEF Proper, Writes
  <1>6. op = OpOf(c, t, a)
    <2>1. PhysicalId(r, ctx.docId) = PhysOf(c, t, ctx.docId)
      BY <1>1 DEF PhysicalId, PhysOf, Lands
    <2>2. r.index = Place(c, t, ctx.index) /\ RoutingOf(r) = RouteFor(c, t)
      BY DEF Lands
    <2> HIDE DEF a, verb
    <2>3. QED
      BY <1>3, <2>1, <2>2 DEF OpOf, op, Marked
  <1>7. /\ a.op = "count" <=> ctx.kind = "count"
        /\ ctx.kind = "get_by_id" => a.op = "get" /\ a.id = ctx.docId
    BY <1>3
  <1>8. QED
    <2> HIDE DEF a, op, verb
    <2> QED
      BY <1>2, <1>3, <1>5, <1>6, <1>7, OneAsk

\* query_forward: the filter is the tenant's mark.
LEMMA QueryForwardAmounts ==
    ASSUME NEW c, NEW t, NEW ctx, NEW r, Lands(c, t, ctx, r),
           WellFormed(ctx), ctx.kind \in {"search", "count"},
           NEW asks, asks = AskedBy(c, t, ctx),
           QueryForward(r, ctx).to = "upstream"
    PROVE  Amounts(c, t, ctx, asks, QueryForward(r, ctx))
  <1> DEFINE verb == ctx.kind
             a    == Ask(c, t, ctx, verb, None, None)
             op   == Op(verb, r.index, None, None, None, FilterOf(r))
  <1>1. asks = <<a>> /\ QueryForward(r, ctx) = Upstream(r, <<op>>)
    BY DEF AskedBy, QueryForward, RewriteFailed, Immediate
  <1>2. /\ a.op = verb /\ a.space = SpaceOf(c, t, ctx.index) /\ a.index = ctx.index
        /\ a.id = None /\ a.doc = None /\ ctx.index \in Indices \cup {""}
    BY DEF Ask, WellFormed
  <1>3. a \in Abstract!Ask
    <2>1. SpaceOf(c, t, ctx.index) \in Indices \cup {"", "all"}
      BY <1>2, SpaceType
    <2>2. QED
      BY <1>2, <2>1 DEF Ask, Abstract!Ask
  <1>4. Proper(c, t, a)
    <2> HIDE DEF a
    <2> QED
      BY <1>2, <1>3 DEF Proper, Writes
  <1>5. op = OpOf(c, t, a)
    <2>1. FilterOf(r) = MarkOf(c, t)
      BY DEF FilterOf, MarkOf, Lands
    <2>2. r.index = Place(c, t, ctx.index)
      BY DEF Lands
    <2> HIDE DEF a
    <2>3. QED
      BY <1>2, <2>1, <2>2 DEF OpOf, op
  <1>6. QED
    <2> HIDE DEF a, op
    <2> QED
      BY <1>1, <1>2, <1>4, <1>5, OneAsk

\* One item of a bulk.
ItemAsk(c, t, ctx, item) ==
    Ask(c, t, ctx, item.verb, ChosenId(c, t, item.id, item.source), item.source)

ItemFits(c, t, ctx, r, item, a) ==
    /\ Proper(c, t, a) /\ a.index = ctx.index /\ a.op # "count"
    /\ ItemOp(r, item) = OpOf(c, t, a)

\* An item that does not fail is one operation, the image of its ask.
LEMMA ItemAmounts ==
    ASSUME NoneIsNothing, NEW c, NEW t, NEW ctx, NEW r, Lands(c, t, ctx, r),
           ctx.index \in Indices \cup {""}, NEW item \in Item,
           item.verb = "delete" <=> item.source = None, ~ItemFails(r, item),
           NEW a, a = ItemAsk(c, t, ctx, item),
           t = None /\ a.op \in Writes => Plain(c, a.doc)
    PROVE  ItemFits(c, t, ctx, r, item, a)
  <1> DEFINE id   == ChosenId(c, t, item.id, item.source)
             src  == item.source
             doc  == IF src # None THEN Injected(r, src) ELSE None
  <1>1. /\ item.verb \in {"index", "create", "delete"}
        /\ item.id \in Ids \cup {None} /\ src \in Doc \cup {None}
    BY DEF Item
  <1>2. src # None => src \in Doc /\ ~ApplyFails(r, src)
    BY <1>1 DEF ItemFails
  <1>3. /\ a.op = item.verb /\ a.space = SpaceOf(c, t, ctx.index) /\ a.index = ctx.index
        /\ a.id = id /\ a.doc = src
    BY DEF Ask, ItemAsk
  <1>4. item.id # None => id = item.id
    BY DEF ChosenId
  <1>5. item.id = None => id = IF Shares(c, t) /\ src # None THEN src.id ELSE None
    BY DEF ChosenId, Shares, Bypassed, HasIdRule
  <1>6. /\ id \in Ids \cup {None}
        /\ Shares(c, t) /\ src # None => id # None
    BY <1>1, <1>2, <1>4, <1>5, WrittenId
  <1>7. a \in Abstract!Ask
    <2>1. SpaceOf(c, t, ctx.index) \in Indices \cup {"", "all"}
      BY SpaceType
    <2> HIDE DEF id, src
    <2>2. QED
      BY <1>1, <1>6, <2>1 DEF Ask, Abstract!Ask, id, src, ItemAsk
  <1>8. item.verb \in Writes <=> src # None
    BY <1>1 DEF Writes
  <1>9. src # None => Plain(c, src)
    <2>1. CASE t = None
      BY <1>3, <1>8, <2>1
    <2>2. CASE t # None
      BY <1>2, <2>2, WrittenId DEF Plain, Shares
    <2>3. QED
      BY <2>1, <2>2
  <1>10. Proper(c, t, a)
    <2> HIDE DEF id, src
    <2> QED
      BY <1>2, <1>3, <1>6, <1>7, <1>8, <1>9 DEF Proper
  <1>11. ItemId(r, item) = PhysOf(c, t, id)
    <2>1. CASE item.id # None
      BY <1>4, <2>1 DEF ItemId, PhysicalId, PhysOf, Lands
    <2>2. CASE item.id = None /\ src # None
      <3>1. ItemId(r, item) = BuiltId(r, src)
        BY <2>2 DEF ItemId
      <3>2. BuiltId(r, src) = IF Shares(c, t) THEN PhysOf(c, t, src.id) ELSE None
        BY <1>2, <2>2, WrittenId
      <3>3. id = IF Shares(c, t) THEN src.id ELSE None
        BY <1>5, <2>2
      <3> HIDE DEF id, src
      <3>4. QED
        BY <3>1, <3>2, <3>3 DEF PhysOf
    <2>3. CASE item.id = None /\ src = None
      BY <1>5, <2>3 DEF ItemId, PhysOf
    <2>4. QED
      BY <2>1, <2>2, <2>3
  <1>12. doc = Marked(c, t, src)
    <2>1. CASE src = None
      BY <2>1 DEF Marked
    <2>2. CASE src # None
      <3>1. Injected(r, src) = Marked(c, t, src)
        <4> HIDE DEF src
        <4> QED
          BY <1>2, <2>2, WrittenId
      <3>2. QED
        BY <2>2, <3>1
    <2>3. QED
      BY <2>1, <2>2
  <1>13. ItemOp(r, item) = OpOf(c, t, a)
    <2>1. ItemOp(r, item) = Op(item.verb, Place(c, t, ctx.index), PhysOf(c, t, id),
                               RouteFor(c, t), Marked(c, t, src), None)
      BY <1>11, <1>12 DEF ItemOp, Lands
    <2> HIDE DEF id, src
    <2>2. QED
      BY <1>1, <1>3, <2>1 DEF OpOf
  <1>14. QED
    BY <1>1, <1>3, <1>10, <1>13 DEF ItemFits

\* bulk_forward.
LEMMA BulkForwardAmounts ==
    ASSUME NoneIsNothing, NEW c, NEW t, NEW ctx, NEW r, Lands(c, t, ctx, r),
           WellFormed(ctx), ctx.kind = "ingest_bulk",
           NEW asks, asks = AskedBy(c, t, ctx), Consistent(c, t, ctx, asks),
           BulkForward(r, ctx).to = "upstream"
    PROVE  Amounts(c, t, ctx, asks, BulkForward(r, ctx))
  <1> DEFINE items  == ctx.body
             ops    == [i \in DOMAIN items |-> ItemOp(r, items[i])]
             Of(i)  == ItemAsk(c, t, ctx, items[i])
  <1>1. /\ items # Malformed /\ \A i \in DOMAIN items : ~ItemFails(r, items[i])
        /\ BulkForward(r, ctx) = Upstream(r, ops)
    BY DEF BulkForward, RewriteFailed, Immediate
  <1>2. /\ items \in Seq(Item) /\ ctx.index \in Indices \cup {""}
        /\ \A i \in DOMAIN items : (items[i].verb = "delete") = (items[i].source = None)
    BY <1>1 DEF WellFormed, BodyOf
  <1>3. PICK n \in Nat : DOMAIN items = 1..n /\ \A i \in 1..n : items[i] \in Item
    <2> HIDE DEF items
    <2> QED
      BY <1>2, SeqFacts
  <1>4. asks = [i \in 1..n |-> Of(i)]
    BY <1>3 DEF AskedBy, ItemAsk
  <1>5. ASSUME NEW i \in 1..n
        PROVE  /\ Proper(c, t, asks[i]) /\ asks[i].index = ctx.index
               /\ asks[i].op # "count" /\ ItemOp(r, items[i]) = OpOf(c, t, asks[i])
    <2>1. PICK item \in Item : item = items[i]
      BY <1>3
    <2>2. ~ItemFails(r, item) /\ (item.verb = "delete" <=> item.source = None)
      <3> HIDE DEF items
      <3> QED
        BY <1>1, <1>2, <1>3, <2>1
    <2>3. asks[i] = ItemAsk(c, t, ctx, item) /\ i \in DOMAIN asks
      BY <1>4, <2>1
    <2>4. t = None /\ asks[i].op \in Writes => Plain(c, asks[i].doc)
      BY <2>3 DEF Consistent
    <2>5. ctx.index \in Indices \cup {""}
      BY <1>2
    <2>6. PICK a : a = asks[i] /\ a = ItemAsk(c, t, ctx, item)
      BY <2>3
    <2>7. t = None /\ a.op \in Writes => Plain(c, a.doc)
      BY <2>4, <2>6
    <2>8. ItemFits(c, t, ctx, r, item, a)
      <3> HIDE DEF items, ops, Of
      <3> QED
        BY <2>1, <2>2, <2>5, <2>6, <2>7, ItemAmounts
    <2>9. QED
      BY <2>1, <2>6, <2>8 DEF ItemFits
  <1>6. asks = [i \in 1..n |-> asks[i]] /\ ops = [i \in 1..n |-> OpOf(c, t, asks[i])]
    <2>1. asks = [i \in 1..n |-> asks[i]]
      BY <1>4
    <2>2. ops = [i \in 1..n |-> ItemOp(r, items[i])]
      BY <1>3
    <2>3. QED
      <3> HIDE DEF items
      <3> QED
        BY <1>5, <2>1, <2>2
  <1>7. QED
    <2> HIDE DEF ops, items
    <2> QED
      BY SMTT(20), <1>1, <1>5, <1>6, ManyAsks

\* multi_get_forward.
LEMMA MultiGetForwardAmounts ==
    ASSUME NEW c, NEW t, NEW ctx, NEW r, Lands(c, t, ctx, r),
           WellFormed(ctx), ctx.kind = "multi_get",
           NEW asks, asks = AskedBy(c, t, ctx),
           MultiGetForward(r, ctx).to = "upstream"
    PROVE  Amounts(c, t, ctx, asks, MultiGetForward(r, ctx))
  <1> DEFINE ids   == ctx.body
             Gets(i) == Op("get", r.index, PhysicalId(r, ids[i]), RoutingOf(r), None, None)
             ops   == [i \in DOMAIN ids |-> Gets(i)]
             Of(i) == Ask(c, t, ctx, "get", ids[i], None)
  <1>1. ids # Malformed /\ MultiGetForward(r, ctx) = Upstream(r, ops)
    BY DEF MultiGetForward, RewriteFailed, Immediate
  <1>2. ids \in Seq(Ids) /\ ctx.index \in Indices \cup {""}
    BY <1>1 DEF WellFormed, BodyOf
  <1>3. PICK n \in Nat : DOMAIN ids = 1..n /\ \A i \in 1..n : ids[i] \in Ids
    <2> HIDE DEF ids
    <2> QED
      BY <1>2, SeqFacts
  <1>4. asks = [i \in 1..n |-> Of(i)]
    BY <1>3 DEF AskedBy
  <1>6. ASSUME NEW i \in 1..n
        PROVE  /\ Proper(c, t, asks[i]) /\ asks[i].index = ctx.index
               /\ asks[i].op # "count" /\ Gets(i) = OpOf(c, t, asks[i])
    <2>1. ids[i] \in Ids
      BY <1>3
    <2>2. ids[i] # None
      BY <2>1, NamesDiffer DEF NamesDiffer
    <2>3. PICK id \in Ids : id = ids[i] /\ id # None
      BY <2>1, <2>2
    <2>4. asks[i] = Ask(c, t, ctx, "get", id, None)
      BY <1>4, <2>3
    <2>5. Proper(c, t, asks[i])
      <3>1. PICK a : a = Ask(c, t, ctx, "get", id, None)
        OBVIOUS
      <3>2. a.op = "get" /\ a.doc = None /\ a.index = ctx.index
            /\ a.space = SpaceOf(c, t, ctx.index)
        BY <3>1 DEF Ask
      <3>3. a \in Abstract!Ask
        BY <1>2, <3>1, AskType
      <3>4. QED
        BY <2>4, <3>1, <3>2, <3>3 DEF Proper, Writes
    <2>6. PhysicalId(r, id) = PhysOf(c, t, id)
      BY <2>3 DEF PhysicalId, PhysOf, Lands
    <2>7. Gets(i) = Op("get", Place(c, t, ctx.index), PhysOf(c, t, id), RouteFor(c, t),
                       None, None)
      BY <2>3, <2>6 DEF Lands
    <2>8. OpOf(c, t, asks[i]) = Op("get", Place(c, t, ctx.index), PhysOf(c, t, id),
                                   RouteFor(c, t), None, None)
      BY <2>4 DEF OpOf, Ask, Marked
    <2>9. QED
      BY <2>4, <2>5, <2>7, <2>8 DEF Ask
  <1>7. asks = [i \in 1..n |-> asks[i]] /\ ops = [i \in 1..n |-> OpOf(c, t, asks[i])]
    <2>1. asks = [i \in 1..n |-> asks[i]]
      BY <1>4
    <2>2. ops = [i \in 1..n |-> Gets(i)]
      BY <1>3
    <2>3. QED
      <3> HIDE DEF Gets
      <3> QED
        BY <1>6, <2>1, <2>2
  <1>8. QED
    <2>1. \A i \in 1..n : Proper(c, t, asks[i]) /\ asks[i].index = ctx.index
                           /\ asks[i].op # "count"
      BY <1>6
    <2> HIDE DEF ops, ids, Gets, Of
    <2>2. QED
      BY <1>1, <1>7, <2>1, ManyAsks

\* multi_search_forward.
LEMMA MultiSearchForwardAmounts ==
    ASSUME NEW c, NEW t, NEW ctx, NEW r, Lands(c, t, ctx, r),
           WellFormed(ctx), ctx.kind = "multi_search",
           NEW asks, asks = AskedBy(c, t, ctx),
           MultiSearchForward(r, ctx).to = "upstream"
    PROVE  Amounts(c, t, ctx, asks, MultiSearchForward(r, ctx))
  <1> DEFINE queries == ctx.body
             op  == Op("search", r.index, None, None, None, FilterOf(r))
             ops == [i \in DOMAIN queries |-> op]
             a   == Ask(c, t, ctx, "search", None, None)
  <1>1. queries # Malformed /\ MultiSearchForward(r, ctx) = Upstream(r, ops)
    BY DEF MultiSearchForward, RewriteFailed, Immediate
  <1>2. queries \in Seq({None, Malformed}) /\ ctx.index \in Indices \cup {""}
    BY <1>1 DEF WellFormed, BodyOf
  <1>3. PICK n \in Nat : DOMAIN queries = 1..n /\ \A i \in 1..n : queries[i] \in {None, Malformed}
    <2> HIDE DEF queries
    <2> QED
      BY <1>2, SeqFacts
  <1>4. asks = [i \in 1..n |-> a]
    BY <1>3 DEF AskedBy
  <1>5. Proper(c, t, a) /\ a.index = ctx.index /\ a.op = "search"
    <2>1. SpaceOf(c, t, ctx.index) \in Indices \cup {"", "all"}
      BY <1>2, SpaceType
    <2>2. QED
      BY <1>2, <2>1 DEF Proper, Ask, Abstract!Ask, Writes
  <1>6. op = OpOf(c, t, a)
    <2>1. FilterOf(r) = MarkOf(c, t) /\ r.index = Place(c, t, ctx.index)
      BY DEF FilterOf, MarkOf, Lands
    <2>2. QED
      BY <2>1 DEF OpOf, Ask
  <1>7. asks = [i \in 1..n |-> asks[i]] /\ ops = [i \in 1..n |-> OpOf(c, t, asks[i])]
    <2> HIDE DEF a, op
    <2> QED
      BY <1>3, <1>4, <1>6
  <1>8. QED
    <2>1. \A i \in 1..n : asks[i] = a
      BY <1>4
    <2> HIDE DEF ops, queries, a
    <2>2. QED
      BY SMTT(20), <1>1, <1>5, <1>7, <2>1, ManyAsks

\* Whatever the endpoint (prepare's dispatch).
LEMMA DispatchAmounts ==
    ASSUME NoneIsNothing, NEW c, NEW t, NEW ctx, NEW r, Lands(c, t, ctx, r),
           WellFormed(ctx), ctx.kind \in SupportedKinds,
           NEW asks, asks = AskedBy(c, t, ctx), Consistent(c, t, ctx, asks),
           Dispatch(r, ctx).to = "upstream"
    PROVE  Amounts(c, t, ctx, asks, Dispatch(r, ctx))
  <1>1. CASE ctx.kind = "ingest_doc"
    <2>1. Dispatch(r, ctx) = WriteForward(r, ctx)
      BY <1>1 DEF Dispatch
    <2>2. QED
      BY <1>1, <2>1, WriteForwardAmounts
  <1>2. CASE ctx.kind = "ingest_bulk"
    <2>1. Dispatch(r, ctx) = BulkForward(r, ctx)
      BY <1>2 DEF Dispatch
    <2>2. QED
      BY <1>2, <2>1, BulkForwardAmounts
  <1>3. CASE ctx.kind \in {"get_by_id", "delete_by_id"}
    <2>1. Dispatch(r, ctx) = ByIdForward(r, ctx)
      BY <1>3 DEF Dispatch
    <2>2. QED
      BY <1>3, <2>1, ByIdForwardAmounts
  <1>4. CASE ctx.kind \in {"search", "count"}
    <2>1. Dispatch(r, ctx) = QueryForward(r, ctx)
      BY <1>4 DEF Dispatch
    <2>2. QED
      BY <1>4, <2>1, QueryForwardAmounts
  <1>5. CASE ctx.kind = "multi_get"
    <2>1. Dispatch(r, ctx) = MultiGetForward(r, ctx)
      BY <1>5 DEF Dispatch
    <2>2. QED
      BY <1>5, <2>1, MultiGetForwardAmounts
  <1>6. CASE ctx.kind = "multi_search"
    <2>1. Dispatch(r, ctx) = MultiSearchForward(r, ctx)
      BY <1>6 DEF Dispatch
    <2>2. QED
      BY <1>6, <2>1, MultiSearchForwardAmounts
  <1>7. QED
    BY <1>1, <1>2, <1>3, <1>4, <1>5, <1>6 DEF SupportedKinds

-----------------------------------------------------------------------------
(* Resolution.                                                              *)

\* What the router answers puts the request at its tenant's home.
LEMMA ResolveLands ==
    ASSUME NEW c, KeepsApart(c), NEW ctx, WellFormed(ctx), Resolve(c, ctx).ok
    PROVE  LET r == Resolve(c, ctx)
           IN  r.partition # None /\ Lands(c, r.partition, ctx, r)
  <1> DEFINE p == ResolvePartition(c, ctx)
             r == Resolve(c, ctx)
  <1>1. p \in Partitions
    <2>1. /\ c.default \in Partitions \cup {None}
          /\ ctx.header \in Partitions \cup {None}
          /\ ctx.principal \in Partitions
      BY DEF KeepsApart, Config, WellFormed
    <2>2. p # None
      BY DEF Resolve, Unresolved
    <2>3. QED
      BY <2>1, <2>2 DEF ResolvePartition
  <1>2. p # None
    BY <1>1, NamesDiffer DEF NamesDiffer
  <1>3. /\ r.partition = p
        /\ r.cluster = ClusterFor(c, p)
        /\ r.index = IndexFor(c, p, ctx.index)
        /\ r.inject = Injects(c)
        /\ r.idRule = HasIdRule(c)
        /\ r.routing = c.routing
    BY <1>2 DEF Resolve
  <1>4. Injects(c) = Shares(c, p) /\ HasIdRule(c) = Shares(c, p)
    BY <1>2 DEF Injects, HasIdRule, Shares
  <1> HIDE DEF p, r
  <1>5. RoutingOf(r) = RouteFor(c, p)
    BY <1>3, <1>4 DEF RoutingOf, RouteFor
  <1>6. Lands(c, p, ctx, r)
    BY <1>1, <1>2, <1>3, <1>4, <1>5 DEF Lands, Owners, HomeOf, Place
  <1>7. QED
    BY <1>2, <1>3, <1>6 DEF r

\* Envoy's default route leaves a passthrough request where it is.
LEMMA UntouchedLands ==
    ASSUME NEW c, NEW ctx
    PROVE  Lands(c, None, ctx, Untouched(c, ctx))
  BY DEF Lands, Untouched, Owners, HomeOf, Place, Shares, RoutingOf, RouteFor

\* What leaves the filter amounts to what was asked.
LEMMA PlanAmounts ==
    ASSUME NoneIsNothing, NEW c \in Configs, NEW req \in Requests[c], Faithful(c, req),
           Plan(c, req).to = "upstream",
           NEW ctx, ctx = CtxOf(RewriteForPath(c, req)), NEW t, t = TenantOf(c, req)
    PROVE  /\ Amounts(c, t, ctx, Asks(c, req), Plan(c, req))
           /\ t \in Owners /\ WellFormed(ctx) /\ ctx.kind \in SupportedKinds
           /\ t = None <=> Bypasses(c, ctx)
           /\ t # None => /\ Resolve(c, ctx).ok
                          /\ Lands(c, t, ctx, Resolve(c, ctx))
  <1>1. PICK r, asks : r = Resolve(c, ctx) /\ asks = Asks(c, req)
    OBVIOUS
  <1>2. asks = AskedBy(c, t, ctx)
    BY <1>1 DEF Asks
  <1>3. /\ WellFormed(ctx)
        /\ Bypasses(c, ctx) => ctx.kind \in SupportedKinds
        /\ KeepsApart(c)
    BY ConfigsAssumption, RequestsAssumption
    DEF ConfigsAssumption, RequestsAssumption, Sendable
  <1>4. CASE Bypasses(c, ctx)
    <2>1. t = None
      BY <1>4 DEF TenantOf
    <2>2. Handle(c, req).to # "continue" => Handle(c, req).to = "local"
      BY <1>4 DEF Handle, Verdict, Front, Pass, BadMethod, Immediate, Bypasses
    <2>3. Plan(c, req) = Dispatch(Untouched(c, ctx), ctx)
      BY <2>2 DEF Plan
    <2>4. Consistent(c, t, ctx, asks)
      <3>1. c.isolation = "shared_index" =>
              \A i \in DOMAIN asks : asks[i].op \in Writes => Plain(c, asks[i].doc)
        BY <1>1, <1>4 DEF Faithful
      <3>2. QED
        BY <2>1, <3>1 DEF Consistent, Plain, Shares
    <2>5. Amounts(c, t, ctx, asks, Plan(c, req))
      BY <1>2, <1>3, <1>4, <2>1, <2>3, <2>4, UntouchedLands, DispatchAmounts
    <2>6. QED
      BY <1>1, <1>3, <1>4, <2>1, <2>5 DEF Owners
  <1>5. CASE ~Bypasses(c, ctx)
    <2>1. t = r.partition
      BY <1>1, <1>5 DEF TenantOf
    <2>2. \/ Handle(c, req).to = "local"
          \/ Handle(c, req) = Prepare(r, Admitted(c, r), ctx)
      BY <1>1, <1>5 DEF Handle, Verdict, Front, Pass, BadMethod, Immediate, Bypasses
    <2>3. \/ Prepare(r, Admitted(c, r), ctx).to = "local"
          \/ /\ ctx.kind \in SupportedKinds /\ r.ok
             /\ Prepare(r, Admitted(c, r), ctx) = Dispatch(r, ctx)
      BY DEF Prepare, Refusal, Immediate
    <2>4. ctx.kind \in SupportedKinds /\ r.ok /\ Plan(c, req) = Dispatch(r, ctx)
      <3>1. Dispatch(r, ctx).to # "continue"
        BY ForwardTo
      <3>2. Plan(c, req) = Handle(c, req) \/ Handle(c, req).to = "continue"
        BY DEF Plan
      <3>3. QED
        BY <2>2, <2>3, <3>1, <3>2
    <2>5. t # None /\ Lands(c, t, ctx, r)
      BY <1>1, <1>3, <2>1, <2>4, ResolveLands
    <2>6. Consistent(c, t, ctx, asks)
      <3>1. c.isolation = "shared_index" =>
              (ctx.kind = "ingest_doc" /\ ctx.docId # None /\ ctx.body # Malformed =>
                 ctx.body.id = ctx.docId)
        BY <1>5 DEF Faithful
      <3>2. QED
        BY <2>5, <3>1 DEF Consistent, Shares
    <2>7. Amounts(c, t, ctx, asks, Plan(c, req))
      BY <1>2, <1>3, <2>4, <2>5, <2>6, DispatchAmounts
    <2>8. QED
      BY <1>1, <1>3, <1>5, <2>4, <2>5, <2>7 DEF Lands
  <1>6. QED
    BY <1>4, <1>5

-----------------------------------------------------------------------------
(* And back.                                                                *)

\* An id comes back as it was sent (map_physical_to_logical undoes the template).
LEMMA IdBack ==
    ASSUME NEW c, NEW t \in Owners, NEW i \in Ids \cup {None}
    PROVE  LogicalIdOf(c, t, PhysOf(c, t, i)) = i
  <1>1. CASE ~Shares(c, t)
    BY <1>1 DEF LogicalIdOf, PhysOf, Shares, Bypassed, HasIdRule
  <1>2. CASE Shares(c, t) /\ i = None
    <2>1. t \in Partitions
      BY <1>2 DEF Owners, Shares
    <2>2. ~\E j \in Ids : Template(t, j) = None
      BY <2>1, NamesDiffer DEF NamesDiffer
    <2>3. QED
      BY <1>2, <2>2 DEF LogicalIdOf, PhysOf, LogicalId
  <1>3. CASE Shares(c, t) /\ i # None
    <2>1. t \in Partitions /\ i \in Ids
      BY <1>3 DEF Owners, Shares
    <2>2. \A j \in Ids : Template(t, j) = Template(t, i) => j = i
      BY <2>1, TemplateInjective DEF TemplateInjective
    <2>3. LogicalId(t, Template(t, i)) = i
      BY <2>1, <2>2 DEF LogicalId
    <2>4. QED
      BY <1>3, <2>3 DEF LogicalIdOf, PhysOf, Shares, Bypassed, HasIdRule
  <1>4. QED
    BY <1>1, <1>2, <1>3

\* So does a document: the mark goes in and out (injection and stripping).
LEMMA DocBack ==
    ASSUME NoneIsNothing, NEW c, NEW t \in Owners, NEW doc \in Doc, Plain(c, doc)
    PROVE  /\ Marked(c, t, doc) \in Doc
           /\ c.isolation = "shared_index" => Marked(c, t, doc).tenant = MarkOf(c, t)
           /\ Unmarked(c, t, Marked(c, t, doc)) = doc
  <1>0. doc # None
    BY DEF NoneIsNothing
  <1>1. CASE ~Shares(c, t)
    <2>1. Marked(c, t, doc) = doc
      BY <1>1 DEF Marked
    <2>2. QED
      BY <1>1, <2>1 DEF Unmarked, Shares, Bypassed, Injects, Plain, MarkOf
  <1>2. CASE Shares(c, t)
    <2>1. t \in Partitions /\ doc.tenant = None
      BY <1>2 DEF Owners, Shares, Plain
    <2>2. PICK d : d = [doc EXCEPT !.tenant = t]
      OBVIOUS
    <2>3. d \in Doc /\ d.tenant = t /\ [d EXCEPT !.tenant = None] = doc
      BY <2>1, <2>2 DEF Doc
    <2>4. Marked(c, t, doc) = d
      BY <1>0, <1>2, <2>2 DEF Marked
    <2>5. Unmarked(c, t, d) = [d EXCEPT !.tenant = None]
      BY <1>2, <2>3 DEF Unmarked, Shares, Bypassed, Injects, NoneIsNothing
    <2>6. QED
      BY <1>2, <2>3, <2>4, <2>5 DEF MarkOf
  <1>3. QED
    BY <1>1, <1>2

\* A name is in the tenant's space of what it is translated to.
LEMMA SpaceBack ==
    ASSUME NEW c, c.isolation \in Isolations, NEW t, NEW i, NEW j
    PROVE  /\ SpaceOf(c, t, Place(c, t, i)) = SpaceOf(c, t, i)
           /\ SpaceOf(c, t, i) = SpaceOf(c, t, j) <=> Place(c, t, i) = Place(c, t, j)
  BY DEF SpaceOf, Place, IndexFor, Bypassed, Isolations

-----------------------------------------------------------------------------
(* What the clusters hold, and return, is a translation.                    *)

Translated(c, set) ==
    /\ IsFiniteSet(set)
    /\ StoreInv(c, set)
    /\ \A e \in set : EntryGood(c, e)

\* An operation that is one of tenant t's, translated, at t's home.
Issued(c, t, cluster, a, op) ==
    /\ c \in Configs /\ t \in Owners
    /\ cluster = HomeOf(c, t) /\ cluster \in Clusters
    /\ Proper(c, t, a)
    /\ op = OpOf(c, t, a) /\ op \in Operation
    /\ OpScoped(c, t, cluster, op)

\* The fields of a translated operation.
LEMMA OpFields ==
    ASSUME NEW c, NEW t, NEW cluster, NEW a, NEW op, Issued(c, t, cluster, a, op)
    PROVE  /\ op.op = a.op /\ op.index = Place(c, t, a.index)
           /\ a.op \in {"search", "count"} =>
                  op.id = None /\ op.routing = None /\ op.doc = None /\ op.filter = MarkOf(c, t)
           /\ a.op \notin {"search", "count"} =>
                  /\ op.id = PhysOf(c, t, a.id) /\ op.routing = RouteFor(c, t)
                  /\ op.doc = Marked(c, t, a.doc) /\ op.filter = None
           /\ a.id \in Ids \cup {None} /\ a.doc \in Doc \cup {None}
           /\ a.op \in {"index", "create", "delete", "get", "search", "count"}
           /\ c.isolation \in Isolations
           /\ a.space = SpaceOf(c, t, a.index)
  <1>1. a \in Abstract!Ask /\ a.space = SpaceOf(c, t, a.index) /\ op = OpOf(c, t, a)
    BY DEF Issued, Proper
  <1>2. /\ a.id \in Ids \cup {None} /\ a.doc \in Doc \cup {None}
        /\ a.op \in {"index", "create", "delete", "get", "search", "count"}
    BY <1>1 DEF Abstract!Ask
  <1>3. c.isolation \in Isolations
    BY ConfigsAssumption DEF Issued, ConfigsAssumption, KeepsApart, Config
  <1>4. QED
    BY <1>1, <1>2, <1>3 DEF OpOf, Op

\* By id, the cluster finds the entry of the document that was asked for.
LEMMA FindsById ==
    ASSUME NEW c, NEW t, NEW cluster, NEW a, NEW op, Issued(c, t, cluster, a, op),
           a.op \notin {"search", "count"}, NEW set, Translated(c, set),
           NEW i \in Ids \cup {None}, NEW e \in set, e.author = t
    PROVE  e \in Located(set, cluster, op, PhysOf(c, t, i))
              <=> Private(c, t, e).space = a.space /\ Private(c, t, e).id = i
  <1>1. /\ op.index = Place(c, t, a.index) /\ op.routing = RouteFor(c, t)
        /\ a.space = SpaceOf(c, t, a.index) /\ c.isolation \in Isolations
    BY OpFields
  <1>2. PICK j \in Ids : e.id = PhysOf(c, t, j)
    BY DEF Translated, EntryGood
  <1>3. /\ e.cluster = cluster /\ e.routing = op.routing /\ e.index = Place(c, t, e.index)
        /\ t \in Owners
    BY <1>1 DEF Translated, EntryGood, Issued
  <1>4. e.id = PhysOf(c, t, i) <=> LogicalIdOf(c, t, e.id) = i
    BY <1>2, <1>3, IdBack
  <1>5. e.index = op.index <=> SpaceOf(c, t, e.index) = a.space
    BY <1>1, <1>3, SpaceBack
  <1>6. e \in Located(set, cluster, op, PhysOf(c, t, i))
           <=> e.index = op.index /\ e.id = PhysOf(c, t, i)
    BY <1>3 DEF Located, InIndex
  <1>7. QED
    BY <1>4, <1>5, <1>6 DEF Private

\* By search, those of the tenant's space.
LEMMA FindsBySearch ==
    ASSUME NEW c, NEW t, NEW cluster, NEW a, NEW op, Issued(c, t, cluster, a, op),
           a.op \in {"search", "count"}, NEW set, Translated(c, set),
           NEW e \in set, e.author = t
    PROVE  e \in Matching(set, cluster, op) <=> Private(c, t, e).space = a.space
  <1>1. /\ op.index = Place(c, t, a.index) /\ op.filter = MarkOf(c, t)
        /\ a.space = SpaceOf(c, t, a.index) /\ c.isolation \in Isolations
    BY OpFields
  <1>2. /\ e.cluster = cluster /\ e.index = Place(c, t, e.index) /\ t \in Owners
        /\ c.isolation = "shared_index" => e.doc.tenant = MarkOf(c, t)
    BY <1>1 DEF Translated, EntryGood, Issued
  <1>3. e.index = op.index <=> SpaceOf(c, t, e.index) = a.space
    BY <1>1, <1>2, SpaceBack
  <1>4. op.filter # None => e.doc.tenant = op.filter
    BY <1>1, <1>2 DEF MarkOf, Shares
  <1>5. QED
    BY <1>2, <1>3, <1>4 DEF Matching, InIndex, Private

\* An id the operation may run on: the one it names, where it has to name one.
Aimed(c, t, a, i) == a.id # None \/ Shares(c, t) => i = a.id

\* What is found by id is the tenant's own.
LEMMA LocatedOwn ==
    ASSUME NEW c, NEW t, NEW cluster, NEW a, NEW op, Issued(c, t, cluster, a, op),
           a.op \notin {"search", "count"}, NEW set, Translated(c, set),
           NEW i \in Ids \cup {None}, Aimed(c, t, a, i),
           NEW e \in Located(set, cluster, op, PhysOf(c, t, i))
    PROVE  e \in set /\ e.author = t
  <1>1. op.id = PhysOf(c, t, a.id)
    BY OpFields
  <1>2. op.id # None => PhysOf(c, t, i) = op.id
    BY <1>1 DEF PhysOf, Aimed
  <1>3. Shares(c, t) => PhysOf(c, t, i) = op.id
    BY <1>1 DEF Aimed
  <1>4. e.author = t
    BY <1>2, <1>3, LocatedIsOwn DEF Issued, Translated, Owners
  <1>5. QED
    BY <1>4 DEF Located, InIndex

\* The private documents entries stand for.
Images(c, t, found) == {Private(c, t, e) : e \in found}

\* The private documents of what is found by id, and of what is left.
LEMMA ById ==
    ASSUME NEW c, NEW t, NEW cluster, NEW a, NEW op, Issued(c, t, cluster, a, op),
           a.op \notin {"search", "count"}, NEW set, Translated(c, set),
           NEW i \in Ids \cup {None}, Aimed(c, t, a, i),
           NEW found, found = Located(set, cluster, op, PhysOf(c, t, i))
    PROVE  LET docs == PrivateDocs(c, set, t)
           IN  /\ Abstract!At(docs, a.space, i) = Images(c, t, found)
               /\ PrivateDocs(c, set \ found, t) = docs \ Abstract!At(docs, a.space, i)
  <1>1. \A e \in found : e \in set /\ e.author = t
    BY LocatedOwn
  <1>2. \A e \in set : e.author = t =>
          (e \in found <=> Private(c, t, e).space = a.space /\ Private(c, t, e).id = i)
    BY FindsById
  <1>3. QED
    BY <1>1, <1>2 DEF PrivateDocs, Abstract!At, Images

\* The private documents of what a search finds.
LEMMA BySearch ==
    ASSUME NEW c, NEW t, NEW cluster, NEW a, NEW op, Issued(c, t, cluster, a, op),
           a.op \in {"search", "count"}, NEW set, Translated(c, set),
           NEW found, found = Matching(set, cluster, op)
    PROVE  Abstract!InSpace(PrivateDocs(c, set, t), a.space)
              = Images(c, t, found)
  <1>1. op.op = a.op
    BY OpFields
  <1>2. \A e \in found : e \in set /\ e.author = t
    <2>1. \A e \in found : e.author = t
      BY <1>1, MatchingIsOwn DEF Issued, Translated, Owners
    <2>2. QED
      BY <2>1 DEF Matching, InIndex
  <1>3. \A e \in set : e.author = t => (e \in found <=> Private(c, t, e).space = a.space)
    BY FindsBySearch
  <1>4. QED
    BY <1>2, <1>3 DEF PrivateDocs, Abstract!InSpace, Images

-----------------------------------------------------------------------------
(* One operation.                                                           *)

\* A hit as tenant t names it.
NameOf(c, t, index, h) ==
    [index |-> index, id |-> LogicalIdOf(c, t, h.id), doc |-> Unmarked(c, t, h.doc)]

Names(c, t, a, result) == {NameOf(c, t, a.index, h) : h \in result}

Looks == {"get", "search", "count"}

HitGood(c, t, a, h) ==
    /\ h \in Hit
    /\ h.author = t
    /\ h.index = Place(c, t, a.index)
    /\ \E i \in Ids \cup {None} : h.id = PhysOf(c, t, i)
    /\ h.doc # None /\ c.isolation = "shared_index" => h.doc.tenant = MarkOf(c, t)
    /\ a.op = "get" => h.id = PhysOf(c, t, a.id)
    /\ a.op \in Looks => h.id # None

ResultGood(c, t, a, result) ==
    IsFiniteSet(result) /\ \A h \in result : HitGood(c, t, a, h)

\* An outcome on the clusters is an outcome on the tenant's private store.
OutcomeMaps(c, t, a, set, o) ==
    /\ Abstract!Outcome(PrivateDocs(c, o.store, t), Names(c, t, a, o.result))
          \in Abstract!Outcomes(PrivateDocs(c, set, t), a)
    /\ Translated(c, o.store)
    /\ ResultGood(c, t, a, o.result)

\* An id an operation of tenant t may have is a physical one, or none.
LEMMA PhysType ==
    ASSUME NEW c, NEW t \in Owners, NEW i \in Ids \cup {None}
    PROVE  /\ PhysOf(c, t, i) \in PhysIds \cup {None}
           /\ i # None => PhysOf(c, t, i) # None
           /\ i \in Ids => PhysOf(c, t, i) \in PhysIds /\ PhysOf(c, t, i) # None
  <1>1. i \in Ids => i # None
    BY NamesDiffer DEF NamesDiffer
  <1>2. CASE ~Shares(c, t)
    BY <1>1, <1>2 DEF PhysOf, PhysIds
  <1>3. CASE Shares(c, t)
    <2>1. t \in Partitions
      BY <1>3 DEF Shares, Owners
    <2>2. QED
      BY <1>1, <1>3, <2>1, TemplateFacts DEF PhysOf
  <1>4. QED
    BY <1>2, <1>3

\* An entry, as it is returned.
LEMMA HitOfGood ==
    ASSUME NoneIsNothing, NEW c, NEW t \in Owners, NEW set, Translated(c, set), NEW a,
           NEW e \in set, e.author = t, e.index = Place(c, t, a.index),
           a.op = "get" => e.id = PhysOf(c, t, a.id)
    PROVE  /\ HitGood(c, t, a, HitOf(e))
           /\ NameOf(c, t, a.index, HitOf(e)) =
                 [index |-> a.index, id |-> Private(c, t, e).id, doc |-> Private(c, t, e).doc]
  <1>1. PICK h : h = HitOf(e)
    OBVIOUS
  <1>2. h.index = e.index /\ h.id = e.id /\ h.doc = e.doc /\ h.author = e.author
    BY <1>1 DEF HitOf
  <1>3. h \in Hit
    BY <1>1, HitFacts DEF Translated, StoreInv
  <1>4. EntryGood(c, e)
    BY DEF Translated
  <1>5. HitGood(c, t, a, h)
    <2>1. h.id # None
      BY <1>2, <1>4, PhysType DEF EntryGood
    <2>2. QED
      BY <1>2, <1>3, <1>4, <2>1 DEF HitGood, EntryGood
  <1>6. NameOf(c, t, a.index, h) =
          [index |-> a.index, id |-> Private(c, t, e).id, doc |-> Private(c, t, e).doc]
    BY <1>2 DEF NameOf, Private
  <1>7. QED
    BY <1>1, <1>5, <1>6

\* What the clusters return of what they find.
Hits(found) == {HitOf(e) : e \in found}

\* What is found and returned, as the tenant names it.
LEMMA ReadMaps ==
    ASSUME NoneIsNothing, NEW c, NEW t \in Owners, NEW set, Translated(c, set), NEW a,
           NEW found \in SUBSET set,
           \A e \in found : e.author = t /\ e.index = Place(c, t, a.index)
                            /\ (a.op = "get" => e.id = PhysOf(c, t, a.id)),
           NEW docs, docs = Images(c, t, found),
           NEW result, result = Hits(found)
    PROVE  /\ Names(c, t, a, result) = Abstract!View(docs, a)
           /\ ResultGood(c, t, a, result)
  <1>1. \A e \in found :
           /\ HitGood(c, t, a, HitOf(e))
           /\ NameOf(c, t, a.index, HitOf(e)) =
                 [index |-> a.index, id |-> Private(c, t, e).id, doc |-> Private(c, t, e).doc]
    BY HitOfGood
  <1>2. IsFiniteSet(found)
    BY FS_Subset DEF Translated
  <1>3. IsFiniteSet(result)
    <2>1. PICK f : f = [e \in found |-> HitOf(e)]
      OBVIOUS
    <2>2. f \in Surjection(found, result)
      BY <2>1 DEF Surjection, Hits
    <2>3. QED
      BY <1>2, <2>2, FS_Surjection
  <1>4. Names(c, t, a, result)
           = {NameOf(c, t, a.index, HitOf(e)) : e \in found}
    BY DEF Names, Hits
  <1>5. {NameOf(c, t, a.index, HitOf(e)) : e \in found} =
          {[index |-> a.index, id |-> Private(c, t, e).id, doc |-> Private(c, t, e).doc] :
             e \in found}
    BY <1>1
  <1>6. Abstract!View(docs, a) =
          {[index |-> a.index, id |-> Private(c, t, e).id, doc |-> Private(c, t, e).doc] :
             e \in found}
    BY DEF Abstract!View, Images
  <1>7. ResultGood(c, t, a, result)
    BY <1>1, <1>3 DEF ResultGood, Hits
  <1>8. QED
    BY <1>4, <1>5, <1>6, <1>7

\* An acknowledgement.
LEMMA AckGood ==
    ASSUME NEW c, NEW t, NEW cluster, NEW a, NEW op, Issued(c, t, cluster, a, op),
           a.op \in {"index", "create", "delete"},
           NEW i \in Ids \cup {None}, PhysOf(c, t, i) \in PhysIds \cup {None},
           NEW result, result = {Ack(op, PhysOf(c, t, i), t)}
    PROVE  /\ Names(c, t, a, result) = Abstract!Named(a, i)
           /\ ResultGood(c, t, a, result)
  <1>1. PICK h : h = Ack(op, PhysOf(c, t, i), t)
    OBVIOUS
  <1>2. op.index = Place(c, t, a.index) /\ op.index \in Indices \cup {""} /\ t \in Owners
    <2>1. op.index = Place(c, t, a.index)
      BY OpFields
    <2>2. QED
      BY <2>1 DEF Issued, Operation
  <1>3. h = [index |-> op.index, id |-> PhysOf(c, t, i), doc |-> None, author |-> t]
    BY <1>1 DEF Ack
  <1>4. h \in Hit
    BY <1>2, <1>3 DEF Hit, Owners
  <1>5. HitGood(c, t, a, h)
    BY <1>2, <1>3, <1>4 DEF HitGood, Looks
  <1>6. NameOf(c, t, a.index, h) = [index |-> a.index, id |-> i, doc |-> None]
    <2>1. LogicalIdOf(c, t, h.id) = i
      BY <1>2, <1>3, IdBack
    <2>2. Unmarked(c, t, h.doc) = None
      BY <1>3 DEF Unmarked
    <2>3. QED
      BY <2>1, <2>2 DEF NameOf
  <1>7. result = {h}
    BY <1>1
  <1>8. Names(c, t, a, result) = {NameOf(c, t, a.index, h)}
    BY <1>7 DEF Names
  <1>9. IsFiniteSet(result)
    BY <1>7, FS_Singleton
  <1>10. QED
    BY <1>5, <1>6, <1>7, <1>8, <1>9 DEF ResultGood, Abstract!Named

\* A deletion.
LEMMA DeletedMaps ==
    ASSUME NoneIsNothing, NEW c, NEW t, NEW cluster, NEW a, NEW op,
           Issued(c, t, cluster, a, op), a.op = "delete",
           NEW set, Translated(c, set), NEW o \in Deleted(set, cluster, op, t),
           StoreInv(c, o.store)
    PROVE  OutcomeMaps(c, t, a, set, o)
  <1>1. PICK found, docs, i :
           /\ i = a.id
           /\ found = Located(set, cluster, op, PhysOf(c, t, i))
           /\ docs = PrivateDocs(c, set, t)
    OBVIOUS
  <1>2. /\ i \in Ids \cup {None} /\ op.id = PhysOf(c, t, i) /\ t \in Owners
        /\ Aimed(c, t, a, i)
    BY <1>1, OpFields DEF Issued, Aimed
  <1>3. o.store = set \ found /\ o.result = {Ack(op, PhysOf(c, t, i), t)}
    BY <1>1, <1>2 DEF Deleted, Outcome
  <1>4. PrivateDocs(c, o.store, t) = docs \ Abstract!At(docs, a.space, i)
    BY <1>1, <1>2, <1>3, ById
  <1>5. /\ Names(c, t, a, o.result) = Abstract!Named(a, i)
        /\ ResultGood(c, t, a, o.result)
    BY <1>2, <1>3, PhysType, AckGood
  <1>6. Translated(c, o.store)
    <2>1. IsFiniteSet(o.store)
      BY <1>3, FS_Subset DEF Translated
    <2>2. QED
      BY <1>3, <2>1 DEF Translated
  <1>7. Abstract!Outcome(PrivateDocs(c, o.store, t), Names(c, t, a, o.result))
           \in Abstract!Outcomes(docs, a)
    BY <1>1, <1>4, <1>5 DEF Abstract!Outcomes, Abstract!Deleted
  <1>8. QED
    BY <1>1, <1>5, <1>6, <1>7 DEF OutcomeMaps

\* A read by id.
LEMMA GotMaps ==
    ASSUME NoneIsNothing, NEW c, NEW t, NEW cluster, NEW a, NEW op,
           Issued(c, t, cluster, a, op), a.op = "get",
           NEW set, Translated(c, set), NEW o,
           o = Outcome(set, Hits(Located(set, cluster, op, op.id)))
    PROVE  OutcomeMaps(c, t, a, set, o)
  <1>1. PICK found, docs, i :
           /\ i = a.id
           /\ found = Located(set, cluster, op, PhysOf(c, t, i))
           /\ docs = PrivateDocs(c, set, t)
    OBVIOUS
  <1>2. /\ i \in Ids \cup {None} /\ op.id = PhysOf(c, t, i) /\ t \in Owners
        /\ op.index = Place(c, t, a.index) /\ Aimed(c, t, a, i)
    BY <1>1, OpFields DEF Issued, Aimed
  <1>3. o.store = set /\ o.result = Hits(found)
    BY <1>1, <1>2 DEF Outcome
  <1>4. /\ Abstract!At(docs, a.space, i) = Images(c, t, found)
        /\ PrivateDocs(c, set \ found, t) = docs \ Abstract!At(docs, a.space, i)
    <2>1. i \in Ids \cup {None} /\ Aimed(c, t, a, i) /\ a.op \notin {"search", "count"}
      BY <1>2
    <2>2. found = Located(set, cluster, op, PhysOf(c, t, i)) /\ docs = PrivateDocs(c, set, t)
      BY <1>1
    <2>3. QED
      BY <2>1, <2>2, ById
  <1>5. \A e \in found : /\ e \in set /\ e.author = t
                         /\ e.index = Place(c, t, a.index) /\ e.id = PhysOf(c, t, a.id)
    <2>1. \A e \in found : e \in set /\ e.author = t
      BY <1>1, <1>2, LocatedOwn
    <2>2. \A e \in found : e.index = op.index /\ e.id = PhysOf(c, t, i)
      BY <1>1 DEF Located, InIndex
    <2>3. QED
      BY <1>1, <1>2, <2>1, <2>2
  <1>6. found \in SUBSET set
    BY <1>5
  <1>7. /\ Names(c, t, a, o.result) = Abstract!View(Abstract!At(docs, a.space, i), a)
        /\ ResultGood(c, t, a, o.result)
    BY <1>2, <1>3, <1>4, <1>5, <1>6, ReadMaps
  <1>8. Abstract!Outcome(PrivateDocs(c, o.store, t), Names(c, t, a, o.result))
           \in Abstract!Outcomes(docs, a)
    BY <1>1, <1>3, <1>7 DEF Abstract!Outcomes
  <1>9. QED
    BY <1>1, <1>3, <1>7, <1>8 DEF OutcomeMaps

\* A search or a count.
LEMMA SearchedMaps ==
    ASSUME NoneIsNothing, NEW c, NEW t, NEW cluster, NEW a, NEW op,
           Issued(c, t, cluster, a, op), a.op \in {"search", "count"},
           NEW set, Translated(c, set), NEW o,
           o = Outcome(set, Hits(Matching(set, cluster, op)))
    PROVE  OutcomeMaps(c, t, a, set, o)
  <1>1. PICK found, docs :
           found = Matching(set, cluster, op) /\ docs = PrivateDocs(c, set, t)
    OBVIOUS
  <1>2. t \in Owners /\ op.op = a.op /\ op.index = Place(c, t, a.index)
    BY OpFields DEF Issued
  <1>3. o.store = set /\ o.result = Hits(found)
    BY <1>1 DEF Outcome
  <1>4. Abstract!InSpace(docs, a.space) = Images(c, t, found)
    BY <1>1, BySearch
  <1>5. \A e \in found : e \in set /\ e.author = t /\ e.index = Place(c, t, a.index)
    <2>1. \A e \in found : e.author = t
      BY <1>1, <1>2, MatchingIsOwn DEF Issued, Translated, Owners
    <2>2. \A e \in found : e \in set /\ e.index = op.index
      BY <1>1 DEF Matching, InIndex
    <2>3. QED
      BY <1>2, <2>1, <2>2
  <1>6. found \in SUBSET set
    BY <1>5
  <1>7. /\ Names(c, t, a, o.result) = Abstract!View(Abstract!InSpace(docs, a.space), a)
        /\ ResultGood(c, t, a, o.result)
    BY <1>2, <1>3, <1>4, <1>5, <1>6, ReadMaps
  <1>8. Abstract!Outcome(PrivateDocs(c, o.store, t), Names(c, t, a, o.result))
           \in Abstract!Outcomes(docs, a)
    BY <1>1, <1>3, <1>7 DEF Abstract!Outcomes
  <1>9. QED
    BY <1>1, <1>3, <1>7, <1>8 DEF OutcomeMaps

\* The id a write lands on is one its private counterpart may land on.
LEMMA LandingId ==
    ASSUME NEW c, NEW t, NEW cluster, NEW a, NEW op, Issued(c, t, cluster, a, op),
           a.op \in Writes, NEW set, Translated(c, set), NEW docs,
           docs = PrivateDocs(c, set, t), NEW id \in Landing(set, cluster, op)
    PROVE  \E i \in Ids : /\ id = PhysOf(c, t, i)
                          /\ i \in Abstract!Landing(docs, a)
                          /\ Aimed(c, t, a, i)
  <1>1. /\ a.op \notin {"search", "count"} /\ t \in Owners
        /\ op.id = PhysOf(c, t, a.id) /\ a.id \in Ids \cup {None}
    <2>1. a.op \notin {"search", "count"}
      BY DEF Writes
    <2>2. op.id = PhysOf(c, t, a.id) /\ a.id \in Ids \cup {None}
      BY <2>1, OpFields
    <2>3. QED
      BY <2>1, <2>2 DEF Issued
  <1>2. CASE a.id # None
    <2>1. op.id # None /\ a.id \in Ids
      BY <1>1, <1>2, PhysType
    <2>2. id = op.id
      BY <2>1 DEF Landing
    <2>3. a.id \in Abstract!Landing(docs, a)
      BY <1>2 DEF Abstract!Landing
    <2>4. QED
      BY <1>1, <2>1, <2>2, <2>3 DEF Aimed
  <1>3. CASE a.id = None
    <2>1. op.id = None /\ ~Shares(c, t)
      BY <1>1, <1>3 DEF PhysOf, Issued, Proper
    <2>2. id \in Ids /\ \A e \in InIndex(set, cluster, op.index) : e.id # id
      BY <2>1 DEF Landing
    <2>3. id = PhysOf(c, t, id)
      BY <2>1 DEF PhysOf
    <2>4. PICK found : found = Located(set, cluster, op, PhysOf(c, t, id))
      OBVIOUS
    <2>5. found = {}
      BY <2>2, <2>3, <2>4 DEF Located
    <2>6. /\ Abstract!At(docs, a.space, id) = Images(c, t, found)
          /\ PrivateDocs(c, set \ found, t) = docs \ Abstract!At(docs, a.space, id)
      <3>1. id \in Ids \cup {None} /\ Aimed(c, t, a, id) /\ a.op \notin {"search", "count"}
        BY <1>1, <1>3, <2>1, <2>2 DEF Aimed
      <3>2. QED
        BY <2>4, <3>1, ById
    <2>7. Abstract!At(docs, a.space, id) = {}
      BY <2>5, <2>6 DEF Images
    <2>8. id \in Abstract!Landing(docs, a)
      BY <1>3, <2>2, <2>7 DEF Abstract!Landing
    <2>9. QED
      BY <1>3, <2>1, <2>2, <2>3, <2>8 DEF Aimed
  <1>4. QED
    BY <1>2, <1>3

\* What is written is the image of what was asked to be.
LEMMA EntryMaps ==
    ASSUME NoneIsNothing, NEW c, NEW t, NEW cluster, NEW a, NEW op,
           Issued(c, t, cluster, a, op), a.op \in Writes,
           NEW i \in Ids, NEW e, e = Entry(cluster, op, PhysOf(c, t, i), t)
    PROVE  /\ EntryGood(c, e) /\ e.author = t
           /\ Private(c, t, e) = [space |-> a.space, id |-> i, doc |-> a.doc]
  <1>1. a.op \notin {"search", "count"}
    BY DEF Writes
  <1>2. /\ op.index = Place(c, t, a.index) /\ op.routing = RouteFor(c, t)
        /\ op.doc = Marked(c, t, a.doc) /\ c.isolation \in Isolations
        /\ a.space = SpaceOf(c, t, a.index)
    BY <1>1, OpFields
  <1>3. a.doc \in Doc /\ Plain(c, a.doc) /\ t \in Owners /\ cluster = HomeOf(c, t)
    BY DEF Issued, Proper
  <1>4. /\ e.cluster = cluster /\ e.index = op.index /\ e.id = PhysOf(c, t, i)
        /\ e.routing = op.routing /\ e.doc = op.doc /\ e.author = t
    BY DEF Entry
  <1>5. /\ Place(c, t, op.index) = op.index
        /\ SpaceOf(c, t, op.index) = a.space
    <2>1. SpaceOf(c, t, Place(c, t, a.index)) = SpaceOf(c, t, a.index)
      BY <1>2, SpaceBack
    <2>2. Place(c, t, Place(c, t, a.index)) = Place(c, t, a.index)
      BY <1>2 DEF Place, IndexFor, Isolations
    <2>3. QED
      BY <1>2, <2>1, <2>2
  <1>6. c.isolation = "shared_index" => e.doc.tenant = MarkOf(c, t)
    BY <1>2, <1>3, <1>4, DocBack
  <1>7. EntryGood(c, e)
    BY <1>2, <1>3, <1>4, <1>5, <1>6 DEF EntryGood
  <1>8. LogicalIdOf(c, t, e.id) = i /\ Unmarked(c, t, e.doc) = a.doc
    <2>1. LogicalIdOf(c, t, PhysOf(c, t, i)) = i
      <3>1. i \in Ids \cup {None}
        OBVIOUS
      <3>2. QED
        BY <1>3, <3>1, IdBack
    <2>2. Unmarked(c, t, Marked(c, t, a.doc)) = a.doc
      BY <1>3, DocBack
    <2>3. QED
      BY <1>2, <1>4, <2>1, <2>2
  <1>9. QED
    BY <1>4, <1>5, <1>7, <1>8 DEF Private

\* A write.
LEMMA WrittenMaps ==
    ASSUME NoneIsNothing, NEW c, NEW t, NEW cluster, NEW a, NEW op,
           Issued(c, t, cluster, a, op), a.op \in Writes,
           NEW set, Translated(c, set), NEW o \in Written(set, cluster, op, t),
           StoreInv(c, o.store)
    PROVE  OutcomeMaps(c, t, a, set, o)
  <1>1. PICK docs : docs = PrivateDocs(c, set, t)
    OBVIOUS
  <1>2. PICK id \in Landing(set, cluster, op) :
          /\ op.op = "create" => Located(set, cluster, op, id) = {}
          /\ o = Outcome((set \ Located(set, cluster, op, id)) \cup {Entry(cluster, op, id, t)},
                         {Ack(op, id, t)})
    BY DEF Written
  <1>3. PICK i \in Ids : /\ id = PhysOf(c, t, i)
                         /\ i \in Abstract!Landing(docs, a)
                         /\ Aimed(c, t, a, i)
    BY <1>1, <1>2, LandingId
  <1>4. PICK found, e : /\ found = Located(set, cluster, op, PhysOf(c, t, i))
                        /\ e = Entry(cluster, op, PhysOf(c, t, i), t)
    OBVIOUS
  <1>5. o.store = (set \ found) \cup {e} /\ o.result = {Ack(op, PhysOf(c, t, i), t)}
    <2>1. o = Outcome((set \ found) \cup {e}, {Ack(op, PhysOf(c, t, i), t)})
      BY <1>2, <1>3, <1>4
    <2>2. QED
      BY <2>1 DEF Outcome
  <1>6. /\ Abstract!At(docs, a.space, i) = Images(c, t, found)
        /\ PrivateDocs(c, set \ found, t) = docs \ Abstract!At(docs, a.space, i)
    <2>1. a.op \notin {"search", "count"} /\ i \in Ids \cup {None}
      BY DEF Writes
    <2>2. Aimed(c, t, a, i)
      BY <1>3
    <2>3. QED
      BY <1>1, <1>4, <2>1, <2>2, ById
  <1>7. /\ EntryGood(c, e) /\ e.author = t
        /\ Private(c, t, e) = [space |-> a.space, id |-> i, doc |-> a.doc]
    BY <1>4, EntryMaps
  <1>8. PrivateDocs(c, o.store, t) = (docs \ Abstract!At(docs, a.space, i))
                                       \cup {[space |-> a.space, id |-> i, doc |-> a.doc]}
    <2>1. PrivateDocs(c, (set \ found) \cup {e}, t)
             = PrivateDocs(c, set \ found, t) \cup {Private(c, t, e)}
      BY <1>7 DEF PrivateDocs
    <2>2. QED
      BY <1>5, <1>6, <1>7, <2>1
  <1>9. /\ Names(c, t, a, o.result) = Abstract!Named(a, i)
        /\ ResultGood(c, t, a, o.result)
    <2>1. a.op \in {"index", "create", "delete"} /\ i \in Ids \cup {None}
      BY DEF Writes
    <2>2. PhysOf(c, t, i) \in PhysIds \cup {None}
      BY <2>1, PhysType DEF Issued
    <2>3. QED
      BY <1>5, <2>1, <2>2, AckGood
  <1>10. a.op = "create" => Abstract!At(docs, a.space, i) = {}
    <2>1. op.op = a.op
      BY OpFields
    <2>2. a.op = "create" => found = {}
      <3>1. op.op = "create" => Located(set, cluster, op, id) = {}
        BY <1>2
      <3>2. id = PhysOf(c, t, i)
        BY <1>3
      <3>3. found = Located(set, cluster, op, PhysOf(c, t, i))
        BY <1>4
      <3>4. QED
        BY <2>1, <3>1, <3>2, <3>3
    <2>3. QED
      BY <1>6, <2>2 DEF Images
  <1>11. Abstract!Outcome(PrivateDocs(c, o.store, t), Names(c, t, a, o.result))
            \in Abstract!Outcomes(docs, a)
    <2>1. Abstract!Outcome(PrivateDocs(c, o.store, t), Names(c, t, a, o.result))
             \in Abstract!Written(docs, a)
      <3>1. i \in {j \in Abstract!Landing(docs, a) :
                     a.op = "create" => Abstract!At(docs, a.space, j) = {}}
        BY <1>3, <1>10
      <3>2. Abstract!Outcome((docs \ Abstract!At(docs, a.space, i))
                                \cup {[space |-> a.space, id |-> i, doc |-> a.doc]},
                             Abstract!Named(a, i)) \in Abstract!Written(docs, a)
        BY <3>1, Zenon DEF Abstract!Written
      <3>3. QED
        BY <1>8, <1>9, <3>2
    <2>2. QED
      BY <2>1 DEF Abstract!Outcomes, Writes
  <1>12. Translated(c, o.store)
    <2>1. IsFiniteSet(set \ found)
      BY FS_Subset DEF Translated
    <2>2. IsFiniteSet(o.store)
      BY <1>5, <2>1, FS_AddElement
    <2>3. \A x \in o.store : EntryGood(c, x)
      BY <1>5, <1>7 DEF Translated
    <2>4. QED
      BY <2>2, <2>3 DEF Translated
  <1>13. QED
    BY <1>1, <1>9, <1>11, <1>12 DEF OutcomeMaps

\* However an operation ends.
LEMMA EveryOutcomeMaps ==
    ASSUME NoneIsNothing, NEW c, NEW t, NEW cluster, NEW a, NEW op,
           Issued(c, t, cluster, a, op),
           NEW set, Translated(c, set), NEW o \in Outcomes(set, cluster, op, t)
    PROVE  OutcomeMaps(c, t, a, set, o)
  <1>1. op.op = a.op /\ a.op \in {"index", "create", "delete", "get", "search", "count"}
    BY OpFields
  <1>2. StoreInv(c, o.store)
    <2>1. OutcomeInv(c, set, t, o)
      BY OutcomeScoped DEF Issued, Owners, Translated
    <2>2. QED
      BY <2>1 DEF OutcomeInv
  <1>3. CASE o = Outcome(set, {})
    <2>1. o.store = set /\ o.result = {}
      BY <1>3 DEF Outcome
    <2>2. Names(c, t, a, o.result) = {}
      BY <2>1 DEF Names
    <2>3. ResultGood(c, t, a, o.result)
      BY <2>1, FS_EmptySet DEF ResultGood
    <2>4. QED
      BY <2>1, <2>2, <2>3 DEF OutcomeMaps, Abstract!Outcomes
  <1>4. CASE a.op \in Writes /\ o # Outcome(set, {})
    <2>1. o \in Written(set, cluster, op, t)
      BY <1>1, <1>4 DEF Outcomes, Writes
    <2>2. QED
      BY <1>2, <1>4, <2>1, WrittenMaps
  <1>5. CASE a.op = "delete" /\ o # Outcome(set, {})
    <2>1. o \in Deleted(set, cluster, op, t)
      BY <1>1, <1>5 DEF Outcomes
    <2>2. QED
      BY <1>2, <1>5, <2>1, DeletedMaps
  <1>6. CASE a.op = "get" /\ o # Outcome(set, {})
    <2>1. o = Outcome(set, Hits(Located(set, cluster, op, op.id)))
      BY <1>1, <1>6 DEF Outcomes, Hits
    <2>2. QED
      BY <1>6, <2>1, GotMaps
  <1>7. CASE a.op \in {"search", "count"} /\ o # Outcome(set, {})
    <2>1. o = Outcome(set, Hits(Matching(set, cluster, op)))
      BY <1>1, <1>7 DEF Outcomes, Hits
    <2>2. QED
      BY <1>7, <2>1, SearchedMaps
  <1>8. QED
    BY <1>1, <1>3, <1>4, <1>5, <1>6, <1>7 DEF Writes

-----------------------------------------------------------------------------
(* The reply.                                                               *)

\* A hit as the client reads it.
AsName(h) == [index |-> h.index, id |-> h.id, doc |-> h.doc]

\* Where nothing is translated, a hit is named as it is.
LEMMA SameName ==
    ASSUME NEW c, NEW t, t = None \/ c.isolation = "dedicated_cluster",
           NEW a, NEW h, HitGood(c, t, a, h)
    PROVE  AsName(h) = NameOf(c, t, a.index, h)
  <1>1. h.index = a.index
    BY DEF HitGood, Place, IndexFor
  <1>2. LogicalIdOf(c, t, h.id) = h.id /\ Unmarked(c, t, h.doc) = h.doc
    BY DEF LogicalIdOf, Unmarked, Bypassed, HasIdRule, Injects
  <1>3. QED
    BY <1>1, <1>2 DEF AsName, NameOf

\* A physical id, shaped: the id the client used.
LEMMA ShapedIdBack ==
    ASSUME TemplatesApart, NEW c, KeepsApart(c), NEW ctx, WellFormed(ctx),
           NEW r, r = Resolve(c, ctx), r.ok, NEW t \in Owners, t # None => r.partition = t,
           NEW i \in Ids \cup {None}, NEW id, id = PhysOf(c, t, i),
           ctx.kind = "get_by_id" => i = ctx.docId
    PROVE  ShapedId(r, ctx, id) = i
  <1>1. r.partition # None /\ Lands(c, r.partition, ctx, r)
    BY ResolveLands
  <1>2. PICK p : p = r.partition /\ p \in Partitions /\ r.idRule = Shares(c, p)
    BY <1>1 DEF Lands, Owners
  <1>3. CASE ctx.kind = "get_by_id"
    BY <1>3 DEF ShapedId
  <1>4. CASE ctx.kind # "get_by_id" /\ ~r.idRule
    <2>1. ~Shares(c, t)
      BY <1>1, <1>2, <1>4 DEF Shares
    <2>2. QED
      BY <1>4, <2>1 DEF ShapedId, PhysOf
  <1>5. CASE ctx.kind # "get_by_id" /\ r.idRule /\ t # None
    <2>1. Shares(c, t) /\ p = t
      BY <1>2, <1>5
    <2>2. LogicalIdOf(c, t, id) = i
      BY IdBack
    <2>3. LogicalId(t, id) = i
      BY <1>5, <2>1, <2>2 DEF LogicalIdOf, Bypassed, HasIdRule, Shares
    <2>4. i = None => id = None
      BY DEF PhysOf
    <2>5. QED
      BY <1>2, <1>5, <2>1, <2>3, <2>4 DEF ShapedId, OrElse
  <1>6. CASE ctx.kind # "get_by_id" /\ r.idRule /\ t = None
    <2>1. id = i
      BY <1>6 DEF PhysOf, Shares
    <2>2. ~\E j \in Ids : Template(p, j) = id
      BY <1>2, <2>1, NamesDiffer DEF TemplatesApart, NamesDiffer
    <2>3. LogicalId(p, id) = None
      BY <2>2 DEF LogicalId
    <2>4. QED
      BY <1>2, <1>6, <2>1, <2>3 DEF ShapedId, OrElse
  <1>7. QED
    BY <1>3, <1>4, <1>5, <1>6

\* A document, shaped: what the client wrote.
LEMMA StrippedBack ==
    ASSUME NEW c, KeepsApart(c), NEW ctx, WellFormed(ctx),
           NEW r, r = Resolve(c, ctx), r.ok, NEW t \in Owners, t # None => r.partition = t,
           NEW doc \in Doc \cup {None},
           doc # None /\ c.isolation = "shared_index" => doc.tenant = MarkOf(c, t)
    PROVE  Stripped(r, doc) = Unmarked(c, t, doc) /\ Stripped(r, doc) \in Doc \cup {None}
  <1>1. r.inject = Injects(c)
    <2>1. Lands(c, r.partition, ctx, r) /\ r.partition # None
      BY ResolveLands
    <2>2. QED
      BY <2>1 DEF Lands, Shares, Injects
  <1>2. CASE doc = None
    BY <1>2 DEF Stripped, Unmarked
  <1>3. CASE doc # None /\ ~Injects(c)
    BY <1>1, <1>3 DEF Stripped, Unmarked
  <1>4. CASE doc # None /\ Injects(c)
    <2>1. doc \in Doc /\ Stripped(r, doc) = [doc EXCEPT !.tenant = None]
      BY <1>1, <1>4 DEF Stripped
    <2>2. [doc EXCEPT !.tenant = None] \in Doc
      BY <2>1 DEF Doc
    <2>3. t = None => doc.tenant = None
      BY <1>4 DEF Injects, MarkOf, Shares
    <2>4. t = None => [doc EXCEPT !.tenant = None] = doc
      BY <2>1, <2>3 DEF Doc
    <2>5. QED
      BY <1>4, <2>1, <2>2, <2>4 DEF Unmarked, Bypassed
  <1>5. QED
    BY <1>2, <1>3, <1>4

\* A hit, shaped.
LEMMA ShapedName ==
    ASSUME TemplatesApart, NEW c, KeepsApart(c), NEW ctx, WellFormed(ctx),
           NEW r, r = Resolve(c, ctx), r.ok, NEW t \in Owners, t # None => r.partition = t,
           NEW a, a.index = ctx.index, a.id \in Ids \cup {None},
           ctx.kind = "get_by_id" => a.op = "get" /\ a.id = ctx.docId,
           NEW h, HitGood(c, t, a, h)
    PROVE  /\ ShapeHit(r, ctx, h) \in Hit
           /\ AsName(ShapeHit(r, ctx, h)) = NameOf(c, t, ctx.index, h)
  <1>1. h \in Hit /\ h.author = t
    BY DEF HitGood
  <1>2. h.doc \in Doc \cup {None} /\ h.id \in PhysIds \cup {None}
    BY <1>1 DEF Hit
  <1>3. PICK i \in Ids \cup {None} :
           h.id = PhysOf(c, t, i) /\ (ctx.kind = "get_by_id" => i = ctx.docId)
    <2>1. CASE ctx.kind = "get_by_id"
      BY <2>1 DEF HitGood
    <2>2. CASE ctx.kind # "get_by_id"
      BY <2>2 DEF HitGood
    <2>3. QED
      BY <2>1, <2>2
  <1>4. ShapedId(r, ctx, h.id) = i
    BY <1>3, ShapedIdBack
  <1>5. LogicalIdOf(c, t, h.id) = i
    BY <1>3, IdBack
  <1>6. Stripped(r, h.doc) = Unmarked(c, t, h.doc) /\ Stripped(r, h.doc) \in Doc \cup {None}
    BY <1>2, StrippedBack DEF HitGood
  <1>7. PICK g : g = ShapeHit(r, ctx, h)
    OBVIOUS
  <1>8. /\ g.index = ctx.index /\ g.id = i /\ g.doc = Stripped(r, h.doc) /\ g.author = t
        /\ g = [index |-> g.index, id |-> g.id, doc |-> g.doc, author |-> g.author]
    BY <1>1, <1>4, <1>7 DEF ShapeHit, Hit
  <1>9. g \in Hit
    <2>1. ctx.index \in Indices \cup {""} /\ i \in PhysIds \cup {None}
      <3>1. ctx.index \in Indices \cup {""}
        BY DEF WellFormed
      <3>2. i \in PhysIds \cup {None}
        BY <1>3 DEF PhysIds
      <3>3. QED
        BY <3>1, <3>2
    <2>2. t \in Partitions \cup {None}
      BY DEF Owners
    <2>3. QED
      BY <1>6, <1>8, <2>1, <2>2 DEF Hit
  <1>10. AsName(g) = NameOf(c, t, ctx.index, h)
    BY <1>5, <1>6, <1>8 DEF AsName, NameOf
  <1>11. QED
    BY <1>7, <1>9, <1>10

\* Two hits with one name are one hit.
LEMMA NamesDistinct ==
    ASSUME NoneIsNothing, NEW c, NEW t \in Owners, NEW a,
           NEW g, HitGood(c, t, a, g), NEW h, HitGood(c, t, a, h),
           NameOf(c, t, a.index, g) = NameOf(c, t, a.index, h)
    PROVE  g = h
  <1>1. g \in Hit /\ h \in Hit /\ g.author = h.author /\ g.index = h.index
    BY DEF HitGood
  <1>2. LogicalIdOf(c, t, g.id) = LogicalIdOf(c, t, h.id)
        /\ Unmarked(c, t, g.doc) = Unmarked(c, t, h.doc)
    BY DEF NameOf
  <1>3. g.id = h.id
    <2>1. PICK i \in Ids \cup {None}, j \in Ids \cup {None} :
             g.id = PhysOf(c, t, i) /\ h.id = PhysOf(c, t, j)
      BY DEF HitGood
    <2>2. LogicalIdOf(c, t, PhysOf(c, t, i)) = i /\ LogicalIdOf(c, t, PhysOf(c, t, j)) = j
      BY <2>1, IdBack
    <2>3. QED
      BY <1>2, <2>1, <2>2
  <1>4. g.doc = h.doc
    <2>1. PICK d, e : d = g.doc /\ e = h.doc /\ d \in Doc \cup {None} /\ e \in Doc \cup {None}
      BY <1>1 DEF Hit
    <2>2. CASE t = None \/ ~Injects(c)
      BY <1>2, <2>2 DEF Unmarked, Bypassed
    <2>3. CASE t # None /\ Injects(c)
      <3>1. (d # None => d.tenant = t) /\ (e # None => e.tenant = t)
        BY <2>1, <2>3 DEF HitGood, MarkOf, Shares, Injects
      <3>2. CASE d = None
        BY <1>2, <2>1, <2>3, <3>2 DEF Unmarked, Bypassed, Doc, NoneIsNothing
      <3>3. CASE e = None
        BY <1>2, <2>1, <2>3, <3>3 DEF Unmarked, Bypassed, Doc, NoneIsNothing
      <3>4. CASE d # None /\ e # None
        <4>1. [d EXCEPT !.tenant = None] = [e EXCEPT !.tenant = None]
          BY <1>2, <2>1, <2>3, <3>4 DEF Unmarked, Bypassed
        <4>2. d \in Doc /\ e \in Doc /\ d.tenant = e.tenant
          BY <2>1, <3>1, <3>4
        <4>3. d.id = e.id /\ d.val = e.val
          BY <4>1, <4>2 DEF Doc
        <4>4. QED
          BY <2>1, <4>2, <4>3 DEF Doc
      <3>5. QED
        BY <3>2, <3>3, <3>4
    <2>4. QED
      BY <2>2, <2>3
  <1>5. /\ g = [index |-> g.index, id |-> g.id, doc |-> g.doc, author |-> g.author]
        /\ h = [index |-> h.index, id |-> h.id, doc |-> h.doc, author |-> h.author]
    BY <1>1 DEF Hit
  <1>6. QED
    BY <1>1, <1>3, <1>4, <1>5

\* So a count is the same on both sides.
LEMMA SameCount ==
    ASSUME NoneIsNothing, NEW c, NEW t \in Owners, NEW a,
           NEW result, ResultGood(c, t, a, result)
    PROVE  Cardinality(Names(c, t, a, result)) = Cardinality(result)
  <1>1. PICK f : f = [h \in result |-> NameOf(c, t, a.index, h)]
    OBVIOUS
  <1>2. PICK names : names = Names(c, t, a, result)
    OBVIOUS
  <1>3. f \in Surjection(result, names)
    BY <1>1, <1>2 DEF Surjection, Names
  <1>4. f \in Injection(result, names)
    BY <1>1, <1>2, NamesDistinct DEF Injection, Names, ResultGood, IsInjective
  <1>5. f \in Bijection(result, names)
    BY <1>3, <1>4 DEF Bijection
  <1>6. ExistsBijection(result, names)
    BY <1>5 DEF ExistsBijection
  <1>7. QED
    BY <1>2, <1>6, FS_Bijection DEF ResultGood

-----------------------------------------------------------------------------
(* Sessions.                                                                *)

\* A request the clusters are working on, and what they have returned.
Opens(c, s) ==
    /\ c \in Configs /\ s.req \in Requests[c]
    /\ <<c, s.req>> \in Accepted
    /\ s.ctx = CtxOf(RewriteForPath(c, s.req))
    /\ s.tenant = TenantOf(c, s.req)
    /\ s.cluster = Plan(c, s.req).cluster
    /\ s.ops = Plan(c, s.req).ops
    /\ s.asks = Asks(c, s.req)
    /\ s.reply = NoReply

Running(c, s) ==
    s.pc = "upstream" =>
        /\ Opens(c, s)
        /\ Len(s.results) <= Len(s.ops)
        /\ \A i \in DOMAIN s.results : ResultGood(c, s.tenant, s.asks[i], s.results[i])

\* The invariant of the refinement.
RefInv ==
    /\ IInv
    /\ Translated(cfg, store)
    /\ \A k \in Clients : Running(cfg, session[k])

\* What is known of an open request.
LEMMA OpenFacts ==
    ASSUME NoneIsNothing, FaithfulRequests, NEW c, NEW s, Opens(c, s)
    PROVE  /\ s.req \in Requests[c] /\ Plan(c, s.req).to = "upstream"
           /\ Amounts(c, s.tenant, s.ctx, s.asks, Plan(c, s.req))
           /\ s.tenant \in Owners /\ WellFormed(s.ctx) /\ s.ctx.kind \in SupportedKinds
           /\ s.tenant = None <=> Bypasses(c, s.ctx)
           /\ s.tenant # None => /\ Resolve(c, s.ctx).ok
                                 /\ Lands(c, s.tenant, s.ctx, Resolve(c, s.ctx))
  <1>1. PICK req \in Requests[c] : req = s.req
    BY DEF Opens
  <1>2. Faithful(c, req) /\ c \in Configs
    BY <1>1 DEF FaithfulRequests, Opens
  <1>3. Plan(c, req).to = "upstream"
    BY <1>1 DEF Opens, Accepted, Plans
  <1>4. s.ctx = CtxOf(RewriteForPath(c, req)) /\ s.tenant = TenantOf(c, req)
        /\ s.asks = Asks(c, req)
    BY <1>1 DEF Opens
  <1>5. QED
    BY <1>1, <1>2, <1>3, <1>4, PlanAmounts

\* The operations of an open request are its asks, translated.
LEMMA OpenIssues ==
    ASSUME NoneIsNothing, FaithfulRequests, NEW c, NEW s, Opens(c, s), SessionInv(c, s),
           s.pc = "upstream"
    PROVE  /\ s.asks \in Seq(Abstract!Ask) /\ Len(s.ops) = Len(s.asks)
           /\ \A i \in DOMAIN s.asks :
                /\ Issued(c, s.tenant, s.cluster, s.asks[i], s.ops[i])
                /\ s.asks[i].index = s.ctx.index
                /\ s.asks[i].id \in Ids \cup {None}
                /\ s.asks[i].op = "count" <=> s.ctx.kind = "count"
                /\ s.ctx.kind = "get_by_id" => s.asks[i].op = "get"
                                               /\ s.asks[i].id = s.ctx.docId
  <1>1. PICK plan, asks : plan = Plan(c, s.req) /\ asks = s.asks
    OBVIOUS
  <1>2. Amounts(c, s.tenant, s.ctx, asks, plan) /\ s.tenant \in Owners
    BY <1>1, OpenFacts
  <1>3. s.cluster = plan.cluster /\ s.ops = plan.ops /\ c \in Configs
    BY <1>1 DEF Opens
  <1>4. /\ asks \in Seq(Abstract!Ask)
        /\ s.ops = [i \in DOMAIN asks |-> OpOf(c, s.tenant, asks[i])]
        /\ s.cluster = HomeOf(c, s.tenant)
    BY <1>2, <1>3 DEF Amounts
  <1>5. DOMAIN s.ops = DOMAIN asks /\ Len(s.ops) = Len(asks)
    <2>1. s.ops \in Seq(Operation)
      BY DEF SessionInv
    <2>2. DOMAIN s.ops = DOMAIN asks
      BY <1>4
    <2>3. DOMAIN s.ops = 1..Len(s.ops) /\ Len(s.ops) \in Nat
      BY <2>1
    <2>4. DOMAIN asks = 1..Len(asks) /\ Len(asks) \in Nat
      BY <1>4
    <2>5. PICK m \in Nat, n \in Nat : m = Len(s.ops) /\ n = Len(asks)
      BY <2>3, <2>4
    <2>6. 1..m = 1..n
      BY <2>2, <2>3, <2>4, <2>5
    <2>7. m + 1 \notin 1..n /\ n + 1 \notin 1..m
      BY <2>6
    <2>8. m = n
      BY <2>5, <2>7
    <2>9. QED
      BY <2>2, <2>5, <2>8
  <1>6. ASSUME NEW i \in DOMAIN asks
        PROVE  Issued(c, s.tenant, s.cluster, asks[i], s.ops[i])
    <2>1. s.ops[i] = OpOf(c, s.tenant, asks[i])
      BY <1>4
    <2>2. s.ops[i] \in Operation /\ OpScoped(c, s.tenant, s.cluster, s.ops[i])
          /\ s.cluster \in Clusters
      BY <1>5 DEF SessionInv
    <2>3. Proper(c, s.tenant, asks[i])
      BY <1>2 DEF Amounts
    <2>4. QED
      BY <1>2, <1>3, <1>4, <2>1, <2>2, <2>3 DEF Issued
  <1>7. ASSUME NEW i \in DOMAIN asks
        PROVE  /\ asks[i].index = s.ctx.index
               /\ asks[i].id \in Ids \cup {None}
               /\ asks[i].op = "count" <=> s.ctx.kind = "count"
               /\ s.ctx.kind = "get_by_id" => asks[i].op = "get" /\ asks[i].id = s.ctx.docId
    <2>1. asks[i] \in Abstract!Ask
      BY <1>2 DEF Amounts, Proper
    <2>2. asks[i].id \in Ids \cup {None}
      BY <2>1 DEF Abstract!Ask
    <2>3. QED
      BY <1>2, <2>2 DEF Amounts
  <1>8. QED
    BY <1>1, <1>4, <1>5, <1>6, <1>7

\* Results, all named.
LEMMA NamedResults ==
    ASSUME NEW c, NEW s, NEW results, NEW i \in DOMAIN results
    PROVE  /\ DOMAIN AllNamed(c, s, results) = DOMAIN results
           /\ \A a : a.index = s.ctx.index =>
                 AllNamed(c, s, results)[i] = Names(c, s.tenant, a, results[i])
  <1>1. DOMAIN AllNamed(c, s, results) = DOMAIN results
    BY DEF AllNamed
  <1>2. AllNamed(c, s, results)[i] = {Named(c, s, h) : h \in results[i]}
    BY DEF AllNamed
  <1>3. \A h : Named(c, s, h) = NameOf(c, s.tenant, s.ctx.index, h)
    BY DEF Named, NameOf
  <1>4. \A a : a.index = s.ctx.index =>
          {Named(c, s, h) : h \in results[i]} = Names(c, s.tenant, a, results[i])
    BY <1>3 DEF Names
  <1>5. QED
    BY <1>1, <1>2, <1>4

\* A forwarded request has a method the adapter knows.
LEMMA ForwardedMethod ==
    ASSUME NEW c, NEW req, Plan(c, req).to = "upstream"
    PROVE  req.method \in Methods
  <1> SUFFICES ASSUME req.method \notin Methods PROVE FALSE
    OBVIOUS
  <1>1. Front(c, req) = BadMethod
    BY DEF Front
  <1>2. Handle(c, req) = BadMethod
    BY <1>1 DEF Handle, Verdict, Pass, BadMethod, Immediate
  <1>3. QED
    BY <1>2 DEF Plan, BadMethod, Immediate

\* The response phase looks at the request that was routed, or at nothing.
LEMMA ShapesRouted ==
    ASSUME NoneIsNothing, FaithfulRequests, NEW c, NEW s, Opens(c, s)
    PROVE  \/ /\ c.isolation = "dedicated_cluster"
              /\ ShapeResponse(c, s.req, s.results) = None
           \/ ShapeResponse(c, s.req, s.results)
                = ShapeReadResponse(Resolve(c, s.ctx), s.ctx, s.results)
  <1>1. PICK req \in Requests[c] : req = s.req
    BY DEF Opens
  <1>2. Faithful(c, req) /\ s.ctx = CtxOf(RewriteForPath(c, req))
    BY <1>1 DEF FaithfulRequests, Opens
  <1>3. req.method \in Methods
    BY <1>1, OpenFacts, ForwardedMethod
  <1>4. CASE SplitsTenant(c, req)
    <2>1. c.isolation = "dedicated_cluster" /\ c.default = None /\ req.header = None
      BY <1>2, <1>4 DEF Faithful
    <2>2. c.source = "path"
      BY <1>4 DEF SplitsTenant
    <2>3. ResolvePartition(c, CtxOf(req)) = None
      BY <2>1, <2>2 DEF ResolvePartition, CtxOf
    <2>4. ~Resolve(c, CtxOf(req)).ok
      BY <2>3 DEF Resolve, Unresolved
    <2>5. ShapeResponse(c, req, s.results) = None
      BY <2>4 DEF ShapeResponse, ShapeReadResponse
    <2>6. QED
      BY <1>1, <2>1, <2>5
  <1>5. CASE ~SplitsTenant(c, req)
    <2>1. CtxOf(req) = s.ctx
      BY <1>2, <1>5 DEF RewriteForPath
    <2>2. QED
      BY <1>1, <1>3, <2>1 DEF ShapeResponse
  <1>6. QED
    BY <1>4, <1>5

\* A response, shaped hit by hit.
Shaped(r, ctx, results) == [i \in DOMAIN results |-> {ShapeHit(r, ctx, h) : h \in results[i]}]

\* Results, as they were asked for.
AllNames(c, t, asks, results) == [i \in DOMAIN results |-> Names(c, t, asks[i], results[i])]

\* An operation of the request ctx.
AskOf(ctx, a) ==
    /\ a.index = ctx.index /\ a.id \in Ids \cup {None}
    /\ ctx.kind = "get_by_id" => a.op = "get" /\ a.id = ctx.docId

AllGood(c, t, ctx, asks, results) ==
    /\ results \in Seq(SUBSET Hit)
    /\ \A i \in DOMAIN results :
          ResultGood(c, t, asks[i], results[i]) /\ AskOf(ctx, asks[i])

\* What a shaped response reads as.
LEMMA ShapedReads ==
    ASSUME NoneIsNothing, TemplatesApart, NEW c, KeepsApart(c), NEW ctx, WellFormed(ctx),
           NEW r, r = Resolve(c, ctx), r.ok, NEW t \in Owners, t # None => r.partition = t,
           NEW asks, NEW results, AllGood(c, t, ctx, asks, results)
    PROVE  /\ Shaped(r, ctx, results) # None
           /\ AsRead(Shaped(r, ctx, results))
                = AllNames(c, t, asks, results)
  <1>1. ASSUME NEW i \in DOMAIN results, NEW h \in results[i]
        PROVE  /\ ShapeHit(r, ctx, h) \in Hit
               /\ AsName(ShapeHit(r, ctx, h)) = NameOf(c, t, asks[i].index, h)
    <2>1. PICK a : a = asks[i]
      OBVIOUS
    <2>2. /\ HitGood(c, t, a, h) /\ a.index = ctx.index /\ a.id \in Ids \cup {None}
          /\ ctx.kind = "get_by_id" => a.op = "get" /\ a.id = ctx.docId
      BY <2>1 DEF AllGood, ResultGood, AskOf
    <2>3. QED
      BY <2>1, <2>2, ShapedName
  <1>2. PICK shaped : shaped = Shaped(r, ctx, results)
    OBVIOUS
  <1>3. /\ DOMAIN shaped = DOMAIN results
        /\ shaped = [i \in DOMAIN results |-> shaped[i]]
        /\ \A i \in DOMAIN results : shaped[i] = {ShapeHit(r, ctx, h) : h \in results[i]}
    BY <1>2 DEF Shaped
  <1>4. \A i \in DOMAIN results : shaped[i] \in SUBSET Hit
    BY <1>1, <1>3
  <1>5. shaped \in Seq(SUBSET Hit)
    <2>1. DOMAIN results = 1..Len(results) /\ Len(results) \in Nat
      BY DEF AllGood
    <2>2. QED
      BY <1>3, <1>4, <2>1
  <1>6. \A i \in DOMAIN results :
           {[index |-> g.index, id |-> g.id, doc |-> g.doc] : g \in shaped[i]}
             = Names(c, t, asks[i], results[i])
    <2> TAKE i \in DOMAIN results
    <2>1. {[index |-> g.index, id |-> g.id, doc |-> g.doc] : g \in shaped[i]}
             = {AsName(ShapeHit(r, ctx, h)) : h \in results[i]}
      BY <1>3 DEF AsName
    <2>2. {AsName(ShapeHit(r, ctx, h)) : h \in results[i]}
             = {NameOf(c, t, asks[i].index, h) : h \in results[i]}
      BY <1>1
    <2>3. QED
      BY <2>1, <2>2 DEF Names
  <1>7. AsRead(shaped) = AllNames(c, t, asks, results)
    BY <1>3, <1>6 DEF AsRead, AllNames
  <1>8. QED
    BY <1>2, <1>5, <1>7 DEF NoneIsNothing

\* What a response nobody shaped reads as, where nothing is translated.
LEMMA PlainReads ==
    ASSUME NEW c, NEW t, t = None \/ c.isolation = "dedicated_cluster",
           NEW asks, NEW results,
           \A i \in DOMAIN results : ResultGood(c, t, asks[i], results[i])
    PROVE  AsRead(results) = AllNames(c, t, asks, results)
  <1>1. ASSUME NEW i \in DOMAIN results, NEW h \in results[i]
        PROVE  AsName(h) = NameOf(c, t, asks[i].index, h)
    <2>1. PICK a : a = asks[i]
      OBVIOUS
    <2>2. HitGood(c, t, a, h)
      BY <2>1 DEF ResultGood
    <2>3. QED
      BY <2>1, <2>2, SameName
  <1>2. \A i \in DOMAIN results :
           {[index |-> h.index, id |-> h.id, doc |-> h.doc] : h \in results[i]}
             = Names(c, t, asks[i], results[i])
    <2> TAKE i \in DOMAIN results
    <2>1. {[index |-> h.index, id |-> h.id, doc |-> h.doc] : h \in results[i]}
             = {AsName(h) : h \in results[i]}
      BY DEF AsName
    <2>2. {AsName(h) : h \in results[i]} = {NameOf(c, t, asks[i].index, h) : h \in results[i]}
      BY <1>1
    <2>3. QED
      BY <2>1, <2>2 DEF Names
  <1>3. QED
    BY <1>2 DEF AsRead, AllNames

\* The module's cardinality is the library's.
LEMMA OneCardinality == \A S : Abstract!Cardinality(S) = Cardinality(S)
  BY Zenon DEF Abstract!Cardinality, Cardinality

\* What the client reads is what was asked of its private store.
LEMMA AnswerMaps ==
    ASSUME NoneIsNothing, TemplatesApart, FaithfulRequests, NEW c, NEW s,
           SessionInv(c, s), Running(c, s), s.pc = "upstream", Len(s.results) = Len(s.ops),
           NEW reply, reply = ReplyTo(c, s)
    PROVE  Abstract!Answer(s.asks, AllNamed(c, s, s.results)) =
              IF s.ctx.kind = "count" THEN reply
              ELSE IF s.ctx.kind \in Unshaped THEN AllNamed(c, s, reply)
              ELSE AsRead(reply)
  <1>1. PICK results, asks, t, ctx, named :
           /\ results = s.results /\ asks = s.asks /\ t = s.tenant /\ ctx = s.ctx
           /\ named = AllNamed(c, s, s.results)
    OBVIOUS
  <1>2. Opens(c, s) /\ \A i \in DOMAIN results : ResultGood(c, t, asks[i], results[i])
    BY <1>1 DEF Running
  <1>3. results \in Seq(SUBSET Hit) /\ DOMAIN results = DOMAIN asks
    <2>1. results \in Seq(SUBSET Hit) /\ Len(results) = Len(s.ops)
      BY <1>1 DEF SessionInv
    <2>2. Len(s.ops) = Len(asks) /\ asks \in Seq(Abstract!Ask)
      BY <1>1, <1>2, OpenIssues
    <2>3. DOMAIN results = 1..Len(results) /\ DOMAIN asks = 1..Len(asks)
      BY <2>1, <2>2
    <2>4. QED
      BY <2>1, <2>2, <2>3
  <1>4. \A i \in DOMAIN results :
           /\ asks[i].index = ctx.index /\ asks[i].id \in Ids \cup {None}
           /\ asks[i].op = "count" <=> ctx.kind = "count"
           /\ ctx.kind = "get_by_id" => asks[i].op = "get" /\ asks[i].id = ctx.docId
    BY <1>1, <1>2, <1>3, OpenIssues
  <1>5. named = AllNames(c, t, asks, results)
    <2>1. \A i \in DOMAIN results : named[i] = Names(c, t, asks[i], results[i])
      BY <1>1, <1>4, NamedResults
    <2>2. named = [i \in DOMAIN results |-> named[i]]
      BY <1>1 DEF AllNamed
    <2>3. QED
      BY <2>1, <2>2 DEF AllNames
  <1>6. /\ WellFormed(ctx) /\ t \in Owners /\ ctx.kind \in SupportedKinds
        /\ t # None => Resolve(c, ctx).ok /\ Resolve(c, ctx).partition = t
        /\ KeepsApart(c)
    <2>1. c \in Configs
      BY <1>2 DEF Opens
    <2>2. QED
      BY <1>1, <1>2, <2>1, OpenFacts, ConfigsAssumption DEF ConfigsAssumption, Lands
  <1>7. CASE ctx.kind = "count"
    <2>1. reply = [i \in DOMAIN results |-> Cardinality(results[i])]
      BY <1>1, <1>7 DEF ReplyTo
    <2>2. \A i \in DOMAIN results : Cardinality(Names(c, t, asks[i], results[i]))
                                       = Cardinality(results[i])
      BY <1>2, <1>6, SameCount
    <2>3. Abstract!Answer(asks, named) = reply
      <3>1. DOMAIN named = DOMAIN results
        BY <1>5 DEF AllNames
      <3>2. \A i \in DOMAIN results : asks[i].op = "count"
                                       /\ Cardinality(named[i]) = Cardinality(results[i])
        BY <1>4, <1>5, <1>7, <2>2 DEF AllNames
      <3>3. Abstract!Answer(asks, named) = [i \in DOMAIN results |-> Cardinality(results[i])]
        BY <3>1, <3>2, OneCardinality DEF Abstract!Answer
      <3>4. QED
        BY <2>1, <3>3
    <2>4. QED
      BY <1>1, <1>7, <2>3
  <1>8. CASE ctx.kind # "count"
    <2>1. Abstract!Answer(asks, named) = named
      BY <1>4, <1>5, <1>8 DEF Abstract!Answer, AllNames
    <2>2. reply = IF ShapeResponse(c, s.req, results) = None THEN results
                  ELSE ShapeResponse(c, s.req, results)
      BY <1>1, <1>8 DEF ReplyTo
    <2>3. \/ /\ c.isolation = "dedicated_cluster"
             /\ ShapeResponse(c, s.req, results) = None
          \/ ShapeResponse(c, s.req, results) = ShapeReadResponse(Resolve(c, ctx), ctx, results)
      BY <1>1, <1>2, ShapesRouted
    <2>4. CASE ctx.kind \in Unshaped
      <3>1. reply = results
        BY <2>2, <2>3, <2>4 DEF ShapeReadResponse, Unshaped, ShapedKinds
      <3>2. QED
        BY <1>1, <1>8, <2>1, <2>4, <3>1
    <2>5. CASE ctx.kind \notin Unshaped
      <3>1. ctx.kind \in ShapedKinds
        BY <1>6, <1>8, <2>5 DEF Unshaped, ShapedKinds, SupportedKinds
      <3>2. AsRead(reply) = named
        <4>1. CASE c.isolation = "dedicated_cluster"
                   /\ ShapeResponse(c, s.req, results) = None
          <5>1. reply = results
            BY <2>2, <4>1
          <5>2. QED
            BY <1>2, <1>5, <4>1, <5>1, PlainReads
        <4>2. CASE ~Resolve(c, ctx).ok
          <5>1. reply = results /\ t = None
            BY <1>6, <2>2, <2>3, <4>2 DEF ShapeReadResponse
          <5>2. QED
            BY <1>2, <1>5, <5>1, PlainReads
        <4>3. CASE Resolve(c, ctx).ok
                   /\ ShapeResponse(c, s.req, results)
                        = ShapeReadResponse(Resolve(c, ctx), ctx, results)
          <5>1. PICK r : r = Resolve(c, ctx)
            OBVIOUS
          <5>2. ShapeResponse(c, s.req, results) = Shaped(r, ctx, results)
            BY <3>1, <4>3, <5>1 DEF ShapeReadResponse, Shaped
          <5>3. /\ Shaped(r, ctx, results) # None
                /\ AsRead(Shaped(r, ctx, results))
                     = AllNames(c, t, asks, results)
            <6>1. AllGood(c, t, ctx, asks, results)
              BY <1>2, <1>3, <1>4 DEF AllGood, AskOf
            <6>2. t # None => r.partition = t
              BY <1>6, <5>1
            <6>3. QED
              BY <1>6, <4>3, <5>1, <6>1, <6>2, ShapedReads
          <5>4. reply = Shaped(r, ctx, results)
            BY <2>2, <5>2, <5>3
          <5>5. QED
            BY <1>5, <5>3, <5>4
        <4>4. QED
          BY <2>3, <4>1, <4>2, <4>3
      <3>3. QED
        BY <1>1, <1>8, <2>1, <2>5, <3>2
    <2>6. QED
      BY <2>4, <2>5
  <1>9. QED
    BY <1>7, <1>8

-----------------------------------------------------------------------------
(* Every step is a step of TenantStore.                                     *)

\* A call, as the abstract store sees it.
CallOf(pc, s, named, reply) ==
    [pc |-> pc, tenant |-> s.tenant, asks |-> s.asks, results |-> named,
     reply |-> [refused |-> FALSE, results |-> reply]]

\* An idle client has no call.
LEMMA IdleCall ==
    ASSUME NEW c
    PROVE  AbsCall(c, Idle) = Abstract!Idle
  BY DEF AbsCall, Idle, NoReply, Reply, Abstract!Idle, Abstract!NoReply

\* A refused one has a refused call.
LEMMA RefusedCall ==
    ASSUME NEW c, NEW req
    PROVE  AbsCall(c, [Idle EXCEPT !.pc = "answered", !.req = req,
                                   !.reply = Reply(TRUE, <<>>)])
             = [Abstract!Idle EXCEPT !.pc = "answered",
                                     !.reply = [Abstract!NoReply EXCEPT !.refused = TRUE]]
  <1>1. PICK s : s = [Idle EXCEPT !.pc = "answered", !.req = req, !.reply = Reply(TRUE, <<>>)]
    OBVIOUS
  <1>2. s.pc = "answered" /\ s.reply = [refused |-> TRUE, results |-> <<>>]
    BY <1>1 DEF Idle, Reply
  <1>3. AbsCall(c, s) = [pc |-> "answered", tenant |-> None, asks |-> <<>>, results |-> <<>>,
                         reply |-> [refused |-> TRUE, results |-> <<>>]]
    BY <1>2 DEF AbsCall
  <1>4. [Abstract!NoReply EXCEPT !.refused = TRUE] = [refused |-> TRUE, results |-> <<>>]
    <2>1. PICK r : r = Abstract!NoReply
      OBVIOUS
    <2>2. r = [refused |-> FALSE, results |-> <<>>]
      BY <2>1 DEF Abstract!NoReply
    <2>3. PICK s2 : s2 = [r EXCEPT !.refused = TRUE]
      OBVIOUS
    <2>4. s2 = [refused |-> TRUE, results |-> <<>>]
      BY <2>2, <2>3
    <2>5. QED
      BY <2>1, <2>3, <2>4
  <1>5. [Abstract!Idle EXCEPT !.pc = "answered",
                              !.reply = [Abstract!NoReply EXCEPT !.refused = TRUE]]
          = [pc |-> "answered", tenant |-> None, asks |-> <<>>, results |-> <<>>,
             reply |-> [refused |-> TRUE, results |-> <<>>]]
    <2>1. PICK r, reply : r = Abstract!Idle /\ reply = Abstract!NoReply
      OBVIOUS
    <2>2. PICK refusal : refusal = [reply EXCEPT !.refused = TRUE]
      OBVIOUS
    <2>3. r = [pc |-> "idle", tenant |-> None, asks |-> <<>>, results |-> <<>>, reply |-> reply]
      BY <2>1 DEF Abstract!Idle
    <2>4. PICK s2 : s2 = [r EXCEPT !.pc = "answered", !.reply = refusal]
      OBVIOUS
    <2>5. s2 = [pc |-> "answered", tenant |-> None, asks |-> <<>>, results |-> <<>>,
                reply |-> refusal]
      BY <2>3, <2>4
    <2>6. QED
      BY <1>4, <2>1, <2>2, <2>4, <2>5
  <1>6. QED
    BY <1>1, <1>3, <1>5

\* An open one is running.
LEMMA RunningCall ==
    ASSUME NEW c, NEW s, s.pc = "upstream", s.reply = NoReply
    PROVE  AbsCall(c, s) = CallOf("running", s, AllNamed(c, s, s.results), <<>>)
  <1>1. s.reply.refused = FALSE /\ s.reply.results = <<>>
    BY DEF NoReply, Reply
  <1>2. AllNamed(c, s, <<>>) = <<>> /\ AsRead(<<>>) = <<>>
    <2>1. DOMAIN <<>> = {}
      OBVIOUS
    <2>2. QED
      BY <2>1 DEF AllNamed, AsRead
  <1>3. AbsReply(c, s) = [refused |-> FALSE, results |-> <<>>]
    BY <1>1, <1>2 DEF AbsReply
  <1>4. QED
    BY <1>1, <1>3 DEF AbsCall, CallOf

\* The calls after a step of client k.
LEMMA CallsStep ==
    ASSUME IInv, NEW k \in Clients, NEW s,
           cfg' = cfg, session' = [session EXCEPT ![k] = s]
    PROVE  /\ AbsCalls[k] = AbsCall(cfg, session[k])
           /\ AbsCalls' = [AbsCalls EXCEPT ![k] = AbsCall(cfg, s)]
           /\ AbsCalls'[k] = AbsCall(cfg, s)
  <1>1. session = [x \in Clients |-> session[x]]
    BY DEF IInv
  <1>2. \A x \in Clients : session'[x] = IF x = k THEN s ELSE session[x]
    BY <1>1
  <1>3. AbsCalls = [x \in Clients |-> AbsCall(cfg, session[x])]
    BY DEF AbsCalls
  <1>4. AbsCalls' = [x \in Clients |-> AbsCall(cfg, session'[x])]
    BY DEF AbsCalls
  <1>5. AbsCalls' = [x \in Clients |-> IF x = k THEN AbsCall(cfg, s)
                                       ELSE AbsCall(cfg, session[x])]
    BY <1>2, <1>4
  <1>6. AbsCalls' = [AbsCalls EXCEPT ![k] = AbsCall(cfg, s)]
    BY <1>3, <1>5
  <1>7. QED
    BY <1>3, <1>5, <1>6

\* The documents of a step that leaves the clusters alone.
LEMMA DocsStep ==
    ASSUME cfg' = cfg, store' = store
    PROVE  AbsDocs' = AbsDocs
  BY DEF AbsDocs

\* The rest of the invariant, after a step of client k that leaves the clusters
\* alone.
LEMMA RefStep ==
    ASSUME RefInv, IInv', NEW k \in Clients, NEW s, Running(cfg, s),
           cfg' = cfg, store' = store, session' = [session EXCEPT ![k] = s]
    PROVE  RefInv'
  <1>1. session = [x \in Clients |-> session[x]]
    BY DEF RefInv, IInv
  <1>2. \A x \in Clients : session'[x] = IF x = k THEN s ELSE session[x]
    BY <1>1
  <1>3. \A x \in Clients : Running(cfg', session'[x])
    BY <1>2 DEF RefInv
  <1>4. Translated(cfg', store')
    BY DEF RefInv
  <1>5. QED
    BY <1>3, <1>4 DEF RefInv

\* A request that is let through is a call.
LEMMA ForwardMaps ==
    ASSUME NoneIsNothing, FaithfulRequests, RefInv, IInv',
           NEW k \in Clients, NEW req \in Requests[cfg], Forward(k, req)
    PROVE  Abstract!Call(k) /\ RefInv'
  <1>1. PICK s : s = Opened[<<cfg, req>>]
    OBVIOUS
  <1>2. /\ session[k].pc = "idle" /\ <<cfg, req>> \in Accepted
        /\ session' = [session EXCEPT ![k] = s]
        /\ cfg' = cfg /\ store' = store
        /\ IInv /\ cfg \in Configs
    BY <1>1 DEF Forward, RefInv, IInv
  <1>3. s = [pc |-> "upstream", req |-> req, ctx |-> CtxOf(RewriteForPath(cfg, req)),
             tenant |-> TenantOf(cfg, req), cluster |-> Plan(cfg, req).cluster,
             ops |-> Plan(cfg, req).ops, asks |-> Asks(cfg, req), results |-> <<>>,
             reply |-> NoReply]
    <2>1. <<cfg, req>> \in Pairs
      BY <1>2 DEF Accepted
    <2>2. QED
      BY <1>1, <1>2, <2>1 DEF Opened, Idle, Contexts, Plans
  <1>4. Opens(cfg, s) /\ s.pc = "upstream" /\ s.results = <<>> /\ s.reply = NoReply
    BY <1>2, <1>3 DEF Opens
  <1>5. SessionInv(cfg, s)
    BY <1>1, <1>2, OpenedScoped
  <1>6. s.asks \in Seq(Abstract!Ask) /\ s.tenant \in Owners
    BY <1>4, <1>5, OpenIssues, OpenFacts
  <1>7. Running(cfg, s)
    <2>1. Len(s.results) = 0 /\ DOMAIN s.results = {}
      BY <1>4
    <2>2. s.ops \in Seq(Operation)
      BY <1>5 DEF SessionInv
    <2>3. Len(s.results) <= Len(s.ops)
      BY <2>1, <2>2
    <2>4. QED
      BY <1>4, <2>1, <2>3 DEF Running
  <1>8. RefInv'
    BY <1>2, <1>7, RefStep
  <1>9. /\ AbsCalls[k].pc = "idle"
        /\ AbsCalls' = [AbsCalls EXCEPT ![k] = AbsCall(cfg, s)]
        /\ AbsCalls'[k] = AbsCall(cfg, s)
    <2>1. AbsCall(cfg, session[k]).pc = "idle"
      BY <1>2 DEF AbsCall
    <2>2. QED
      BY <1>2, <2>1, CallsStep
  <1>10. AbsCall(cfg, s) = [Abstract!Idle EXCEPT !.pc = "running", !.tenant = s.tenant,
                                                !.asks = s.asks]
    <2>1. AllNamed(cfg, s, s.results) = <<>>
      <3>1. DOMAIN s.results = {}
        BY <1>4
      <3>2. QED
        BY <3>1 DEF AllNamed
    <2>2. AbsCall(cfg, s) = CallOf("running", s, <<>>, <<>>)
      BY <1>4, <2>1, RunningCall
    <2>3. CallOf("running", s, <<>>, <<>>) =
             [pc |-> "running", tenant |-> s.tenant, asks |-> s.asks, results |-> <<>>,
              reply |-> [refused |-> FALSE, results |-> <<>>]]
      BY DEF CallOf
    <2>4. PICK t, asks : t = s.tenant /\ asks = s.asks
      OBVIOUS
    <2>5. [Abstract!Idle EXCEPT !.pc = "running", !.tenant = t, !.asks = asks] =
             [pc |-> "running", tenant |-> t, asks |-> asks, results |-> <<>>,
              reply |-> [refused |-> FALSE, results |-> <<>>]]
      <3>1. PICK r : r = Abstract!Idle
        OBVIOUS
      <3>2. r = [pc |-> "idle", tenant |-> None, asks |-> <<>>, results |-> <<>>,
                 reply |-> Abstract!NoReply]
        BY <3>1 DEF Abstract!Idle
      <3>3. PICK u : u = [r EXCEPT !.pc = "running", !.tenant = t, !.asks = asks]
        OBVIOUS
      <3>4. u = [pc |-> "running", tenant |-> t, asks |-> asks, results |-> <<>>,
                 reply |-> Abstract!NoReply]
        BY <3>2, <3>3
      <3>5. QED
        BY <3>1, <3>3, <3>4 DEF Abstract!NoReply
    <2>6. QED
      BY <2>2, <2>3, <2>4, <2>5
  <1>11. AbsCall(cfg, s).tenant = s.tenant /\ AbsCall(cfg, s).asks = s.asks
    BY <1>10 DEF Abstract!Idle
  <1>12. AbsDocs' = AbsDocs
    BY <1>2, DocsStep
  <1>13. Abstract!Call(k)
    BY <1>6, <1>9, <1>10, <1>11, <1>12 DEF Abstract!Call
  <1>14. QED
    BY <1>8, <1>13

\* A request that is answered by the filter is a refusal.
LEMMA RejectMaps ==
    ASSUME RefInv, IInv', NEW k \in Clients, NEW req, Reject(k, req)
    PROVE  Abstract!Refuse(k) /\ RefInv'
  <1>1. PICK s : s = [Idle EXCEPT !.pc = "answered", !.req = req, !.reply = Reply(TRUE, <<>>)]
    OBVIOUS
  <1>2. /\ session[k].pc = "idle" /\ session' = [session EXCEPT ![k] = s]
        /\ cfg' = cfg /\ store' = store /\ IInv
    BY <1>1 DEF Reject, RefInv
  <1>3. Running(cfg, s)
    BY <1>1 DEF Running, Idle
  <1>4. AbsCall(cfg, session[k]).pc = "idle"
    BY <1>2 DEF AbsCall
  <1>5. AbsCalls[k].pc = "idle" /\ AbsCalls' = [AbsCalls EXCEPT ![k] = AbsCall(cfg, s)]
    BY <1>2, <1>4, CallsStep
  <1>6. QED
    BY <1>1, <1>2, <1>3, <1>5, RefStep, RefusedCall, DocsStep DEF Abstract!Refuse

\* A client that takes its reply, or leaves, has no call.
LEMMA FinishMaps ==
    ASSUME RefInv, IInv', NEW k \in Clients, Finish(k)
    PROVE  Abstract!Finish(k) /\ RefInv'
  <1>1. /\ session[k].pc # "idle" /\ session' = [session EXCEPT ![k] = Idle]
        /\ cfg' = cfg /\ store' = store /\ IInv
    BY DEF Finish, RefInv
  <1>2. Running(cfg, Idle)
    BY DEF Running, Idle
  <1>3. AbsCall(cfg, session[k]).pc # "idle"
    BY <1>1 DEF AbsCall
  <1>4. AbsCalls[k].pc # "idle" /\ AbsCalls' = [AbsCalls EXCEPT ![k] = AbsCall(cfg, Idle)]
    BY <1>1, <1>3, CallsStep
  <1>5. QED
    BY <1>1, <1>2, <1>4, RefStep, IdleCall, DocsStep DEF Abstract!Finish

\* A response is a return.
LEMMA RespondMaps ==
    ASSUME NoneIsNothing, TemplatesApart, FaithfulRequests, RefInv, IInv',
           NEW k \in Clients, Respond(k)
    PROVE  Abstract!Return(k) /\ RefInv'
  <1>1. PICK c, s, reply : c = cfg /\ s = session[k] /\ reply = ReplyTo(c, s)
    OBVIOUS
  <1>2. PICK s2 : s2 = [s EXCEPT !.pc = "answered", !.reply = Reply(FALSE, reply)]
    OBVIOUS
  <1>3. /\ s.pc = "upstream" /\ Len(s.results) = Len(s.ops)
        /\ cfg' = cfg /\ store' = store /\ IInv
        /\ SessionInv(c, s) /\ Running(c, s)
    BY <1>1 DEF Respond, RefInv, IInv
  <1>4. session' = [session EXCEPT ![k] = s2]
    BY <1>1, <1>2 DEF Respond
  <1>5. /\ s2.pc = "answered" /\ s2.tenant = s.tenant /\ s2.asks = s.asks /\ s2.ctx = s.ctx
        /\ s2.results = s.results
        /\ s2.reply.refused = FALSE /\ s2.reply.results = reply
    <2>1. IsSession(s)
      BY <1>3 DEF SessionInv
    <2>2. s2.reply = Reply(FALSE, reply)
      BY <1>2, <2>1 DEF IsSession
    <2>3. s2.reply.refused = FALSE /\ s2.reply.results = reply
      BY <2>2 DEF Reply
    <2>4. /\ s2.pc = "answered" /\ s2.tenant = s.tenant /\ s2.asks = s.asks
          /\ s2.ctx = s.ctx /\ s2.results = s.results
      BY <1>2, <2>1 DEF IsSession
    <2>5. QED
      BY <2>3, <2>4
  <1>6. \A results : AllNamed(c, s2, results) = AllNamed(c, s, results)
    BY <1>5 DEF AllNamed, Named
  <1>7. PICK named, answer : /\ named = AllNamed(c, s, s.results)
                             /\ answer = Abstract!Answer(s.asks, named)
    OBVIOUS
  <1>8. AbsReply(c, s2) = [refused |-> FALSE, results |-> answer]
    <2>1. answer = IF s.ctx.kind = "count" THEN reply
                   ELSE IF s.ctx.kind \in Unshaped THEN AllNamed(c, s, reply)
                   ELSE AsRead(reply)
      BY <1>1, <1>3, <1>7, AnswerMaps
    <2>2. AbsReply(c, s2) = [refused |-> FALSE,
             results |-> IF s.ctx.kind = "count" THEN reply
                         ELSE IF s.ctx.kind \in Unshaped THEN AllNamed(c, s2, reply)
                         ELSE AsRead(reply)]
      BY <1>5 DEF AbsReply
    <2>3. QED
      BY <1>6, <2>1, <2>2
  <1>9. AbsCall(c, s2) = CallOf("answered", s, named, answer)
    BY <1>5, <1>6, <1>7, <1>8 DEF AbsCall, CallOf
  <1>10. AbsCall(c, s) = CallOf("running", s, named, <<>>)
    BY <1>3, <1>7, RunningCall DEF Running, Opens
  <1>11. AbsCalls[k] = AbsCall(c, s) /\ AbsCalls' = [AbsCalls EXCEPT ![k] = AbsCall(c, s2)]
    BY <1>1, <1>3, <1>4, CallsStep
  <1>12. Len(named) = Len(s.asks)
    <2>1. Len(s.ops) = Len(s.asks)
      BY <1>3, OpenIssues DEF Running
    <2>2. DOMAIN named = DOMAIN s.results
      BY <1>7 DEF AllNamed
    <2>3. s.results \in Seq(SUBSET Hit)
      BY <1>3 DEF SessionInv
    <2>4. named \in Seq(UNION {{named[i]} : i \in DOMAIN s.results}) /\ Len(named) = Len(s.results)
      BY <1>7, <2>2, <2>3 DEF AllNamed
    <2>5. QED
      BY <1>3, <2>1, <2>4
  <1>13. Abstract!Return(k)
    <2>1. PICK call : call = AbsCalls[k]
      OBVIOUS
    <2>2. call = CallOf("running", s, named, <<>>)
      BY <1>10, <1>11, <2>1
    <2>3. call.pc = "running" /\ call.results = named /\ call.asks = s.asks
      BY <2>2 DEF CallOf
    <2>4. [call EXCEPT !.pc = "answered", !.reply.results = answer]
             = CallOf("answered", s, named, answer)
      <3>1. PICK t, asks : t = s.tenant /\ asks = s.asks
        OBVIOUS
      <3>2. PICK r : r = [refused |-> FALSE, results |-> <<>>]
        OBVIOUS
      <3>3. call = [pc |-> "running", tenant |-> t, asks |-> asks, results |-> named,
                    reply |-> r]
        BY <2>2, <3>1, <3>2 DEF CallOf
      <3>4. [call EXCEPT !.pc = "answered", !.reply.results = answer]
               = [pc |-> "answered", tenant |-> t, asks |-> asks, results |-> named,
                  reply |-> [refused |-> FALSE, results |-> answer]]
        <4>1. PICK more : more = [r EXCEPT !.results = answer]
          OBVIOUS
        <4>2. more = [refused |-> FALSE, results |-> answer]
          BY <3>2, <4>1
        <4>3. PICK after : after = [call EXCEPT !.pc = "answered", !.reply = more]
          OBVIOUS
        <4>4. after = [pc |-> "answered", tenant |-> t, asks |-> asks, results |-> named,
                       reply |-> more]
          BY <3>3, <4>3
        <4>5. [call EXCEPT !.pc = "answered", !.reply.results = answer] = after
          BY <3>3, <4>1, <4>3
        <4>6. QED
          BY <4>2, <4>4, <4>5
      <3>5. QED
        BY <3>1, <3>4 DEF CallOf
    <2>5. AbsCalls' = [AbsCalls EXCEPT ![k] =
                          [call EXCEPT !.pc = "answered", !.reply.results = answer]]
      BY <1>9, <1>11, <2>4
    <2>6. AbsCalls' = [AbsCalls EXCEPT ![k].pc = "answered", ![k].reply.results = answer]
      <3>1. AbsCalls = [x \in Clients |-> AbsCalls[x]]
        BY DEF AbsCalls
      <3>2. QED
        BY <2>1, <2>5, <3>1
    <2>7. AbsDocs' = AbsDocs
      BY <1>3, DocsStep
    <2>8. QED
      BY <1>7, <1>12, <2>1, <2>3, <2>6, <2>7 DEF Abstract!Return
  <1>14. RefInv'
    <2>1. Running(c, s2)
      BY <1>5 DEF Running
    <2>2. QED
      BY <1>1, <1>3, <1>4, <2>1, RefStep
  <1>15. QED
    BY <1>13, <1>14

\* One more result, named.
LEMMA NamedMore ==
    ASSUME NEW c, NEW s, NEW results \in Seq(SUBSET Hit), NEW result \in SUBSET Hit,
           NEW a, a.index = s.ctx.index
    PROVE  AllNamed(c, s, Append(results, result))
             = Append(AllNamed(c, s, results), Names(c, s.tenant, a, result))
  <1> DEFINE more  == Append(results, result)
             named == AllNamed(c, s, results)
             last  == Names(c, s.tenant, a, result)
             n     == Len(results)
  <1>1. /\ DOMAIN results = 1..n /\ n \in Nat
        /\ DOMAIN more = 1..(n + 1)
        /\ \A i \in 1..n : more[i] = results[i]
        /\ more[n + 1] = result
    OBVIOUS
  <1>2. named = [i \in 1..n |-> named[i]]
    BY <1>1 DEF AllNamed
  <1>3. \A i \in 1..n : AllNamed(c, s, more)[i] = named[i]
    BY <1>1 DEF AllNamed
  <1>4. AllNamed(c, s, more)[n + 1] = last
    <2>1. n + 1 \in DOMAIN more
      BY <1>1
    <2> HIDE DEF more
    <2>2. AllNamed(c, s, more)[n + 1] = Names(c, s.tenant, a, more[n + 1])
      BY <2>1, NamedResults
    <2>3. QED
      BY <1>1, <2>2
  <1>5. DOMAIN AllNamed(c, s, more) = 1..(n + 1)
        /\ AllNamed(c, s, more) = [i \in 1..(n + 1) |-> AllNamed(c, s, more)[i]]
    BY <1>1 DEF AllNamed
  <1>6. QED
    <2>0. PICK m \in Nat : m = n
      BY <1>1
    <2>1. PICK longer, short, end :
             longer = AllNamed(c, s, more) /\ short = named /\ end = last
      OBVIOUS
    <2>2. /\ short = [i \in 1..m |-> short[i]]
          /\ longer = [i \in 1..(m + 1) |-> longer[i]]
          /\ \A i \in 1..m : longer[i] = short[i]
          /\ longer[m + 1] = end
      BY <1>2, <1>3, <1>4, <1>5, <2>0, <2>1
    <2>3. PICK S : (\A i \in 1..m : short[i] \in S) /\ end \in S
      <3>1. PICK S : S = {short[i] : i \in 1..m} \cup {end}
        OBVIOUS
      <3>2. QED
        BY <3>1
    <2>4. short \in Seq(S) /\ Len(short) = m
      BY <2>0, <2>2, <2>3
    <2>5. longer = Append(short, end)
      <3>1. PICK both : both = Append(short, end)
        OBVIOUS
      <3>2. both \in Seq(S) /\ Len(both) = m + 1
        BY <2>3, <2>4, <3>1
      <3>3. both = [i \in 1..(m + 1) |-> both[i]]
        BY <3>2
      <3>4. \A i \in 1..m : both[i] = short[i]
        BY <2>3, <2>4, <3>1
      <3>5. both[m + 1] = end
        BY <2>3, <2>4, <3>1
      <3>6. \A i \in 1..(m + 1) : both[i] = longer[i]
        BY <2>0, <2>2, <3>4, <3>5
      <3>7. QED
        BY <2>2, <3>1, <3>3, <3>6
    <2>6. QED
      BY <2>1, <2>5

\* The other tenants' documents stand still.
LEMMA OthersStand ==
    ASSUME NEW c, NEW set, NEW cluster, NEW op, NEW t,
           NEW o \in Outcomes(set, cluster, op, t), OutcomeInv(c, set, t, o),
           NEW u, u # t
    PROVE  PrivateDocs(c, o.store, u) = PrivateDocs(c, set, u)
  <1>1. (\A e \in o.store \ set : e.author = t) /\ (\A e \in set \ o.store : e.author = t)
    BY OutcomeAuthors DEF OutcomeInv
  <1>2. {e \in o.store : e.author = u} = {e \in set : e.author = u}
    BY <1>1
  <1>3. QED
    BY <1>2 DEF PrivateDocs

\* A session that takes in a result.
WithResult(s, result) == [s EXCEPT !.results = Append(@, result)]

\* A session with one more good result is still running.
LEMMA RunningMore ==
    ASSUME NEW c, NEW s, SessionInv(c, s), Running(c, s), s.pc = "upstream",
           Len(s.results) + 1 <= Len(s.ops),
           NEW result \in SUBSET Hit,
           ResultGood(c, s.tenant, s.asks[Len(s.results) + 1], result),
           NEW s2, s2 = WithResult(s, result)
    PROVE  /\ Running(c, s2) /\ s2.pc = "upstream" /\ s2.reply = NoReply
           /\ s2.tenant = s.tenant /\ s2.ctx = s.ctx /\ s2.asks = s.asks
           /\ s2.results = Append(s.results, result)
  <1>1. IsSession(s) /\ s.results \in Seq(SUBSET Hit) /\ s.ops \in Seq(Operation)
    BY DEF SessionInv
  <1>2. PICK more : more = Append(s.results, result)
    OBVIOUS
  <1>3. s2 = [s EXCEPT !.results = more]
    BY <1>2 DEF WithResult
  <1>4. /\ s2.pc = s.pc /\ s2.req = s.req /\ s2.ctx = s.ctx /\ s2.tenant = s.tenant
        /\ s2.cluster = s.cluster
    BY <1>1, <1>3 DEF IsSession
  <1>5. s2.ops = s.ops /\ s2.asks = s.asks /\ s2.reply = s.reply /\ s2.results = more
    BY <1>1, <1>3 DEF IsSession
  <1>6. Opens(c, s2)
    BY <1>4, <1>5 DEF Running, Opens
  <1>7. PICK n \in Nat : n = Len(s.results)
    BY <1>1
  <1>8. /\ DOMAIN s.results = 1..n /\ DOMAIN more = 1..(n + 1) /\ Len(more) = n + 1
        /\ \A i \in 1..n : more[i] = s.results[i]
        /\ more[n + 1] = result
    BY <1>1, <1>2, <1>7
  <1>9. ASSUME NEW i \in DOMAIN s2.results
        PROVE  ResultGood(c, s2.tenant, s2.asks[i], s2.results[i])
    <2>1. CASE i \in 1..n
      BY <1>4, <1>5, <1>8, <2>1 DEF Running
    <2>2. CASE i = n + 1
      BY <1>4, <1>5, <1>7, <1>8, <2>2
    <2>3. QED
      BY <1>5, <1>7, <1>8, <2>1, <2>2
  <1>10. Len(s2.results) <= Len(s2.ops)
    BY <1>5, <1>7, <1>8
  <1>11. QED
    BY <1>2, <1>4, <1>5, <1>6, <1>9, <1>10 DEF Running, Opens

\* An operation on the clusters is one on the private store of its tenant.
LEMMA ExecuteMaps ==
    ASSUME NoneIsNothing, FaithfulRequests, RefInv, IInv', NEW k \in Clients, Execute(k)
    PROVE  Abstract!Step(k) /\ RefInv'
  <1>1. PICK c, s, t, next : /\ c = cfg /\ s = session[k] /\ t = s.tenant
                             /\ next = Len(s.results) + 1
    OBVIOUS
  <1>2. /\ s.pc = "upstream" /\ next <= Len(s.ops) /\ cfg' = cfg /\ IInv
        /\ SessionInv(c, s) /\ Running(c, s) /\ Opens(c, s)
        /\ StoreInv(c, store) /\ Translated(c, store) /\ c \in Configs
    BY <1>1 DEF Execute, RefInv, IInv, Running
  <1>3. PICK o \in Outcomes(store, s.cluster, s.ops[next], t) :
           /\ store' = o.store
           /\ session' = [session EXCEPT ![k].results = Append(@, o.result)]
    BY <1>1 DEF Execute
  <1>4. PICK a, op : a = s.asks[next] /\ op = s.ops[next]
    OBVIOUS
  <1>5. /\ s.asks \in Seq(Abstract!Ask) /\ Len(s.ops) = Len(s.asks)
        /\ next \in DOMAIN s.asks
    <2>1. s.asks \in Seq(Abstract!Ask) /\ Len(s.ops) = Len(s.asks)
      BY <1>2, OpenIssues
    <2>2. s.results \in Seq(SUBSET Hit)
      BY <1>2 DEF SessionInv
    <2>3. QED
      BY <1>1, <1>2, <2>1, <2>2
  <1>6. Issued(c, t, s.cluster, a, op) /\ a.index = s.ctx.index
    BY <1>1, <1>2, <1>4, <1>5, OpenIssues
  <1>7. o \in Outcomes(store, s.cluster, op, t)
    BY <1>3, <1>4
  <1>8. OutcomeMaps(c, t, a, store, o)
    BY <1>2, <1>6, <1>7, EveryOutcomeMaps
  <1>9. OutcomeInv(c, store, t, o)
    BY <1>2, <1>6, <1>7, OutcomeScoped DEF Issued, Owners
  <1>10. PICK s2 : s2 = [s EXCEPT !.results = Append(@, o.result)]
    OBVIOUS
  <1>11. session' = [session EXCEPT ![k] = s2]
    BY <1>1, <1>3, <1>10
  <1>12. o.result \in SUBSET Hit /\ ResultGood(c, t, a, o.result)
    BY <1>8, <1>9 DEF OutcomeInv, OutcomeMaps
  <1>13. /\ Running(c, s2) /\ s2.pc = "upstream" /\ s2.reply = NoReply
         /\ s2.tenant = t /\ s2.ctx = s.ctx /\ s2.asks = s.asks
         /\ s2.results = Append(s.results, o.result)
    <2>1. Len(s.results) + 1 <= Len(s.ops) /\ s.tenant = t
      BY <1>1, <1>2
    <2>2. ResultGood(c, s.tenant, s.asks[Len(s.results) + 1], o.result)
      BY <1>1, <1>4, <1>12
    <2>3. PICK result \in SUBSET Hit : result = o.result
      BY <1>12
    <2>4. s2 = WithResult(s, result)
      BY <1>10, <2>3 DEF WithResult
    <2>5. ResultGood(c, s.tenant, s.asks[Len(s.results) + 1], result)
      BY <2>2, <2>3
    <2>6. /\ Running(c, s2) /\ s2.pc = "upstream" /\ s2.reply = NoReply
          /\ s2.tenant = s.tenant /\ s2.ctx = s.ctx /\ s2.asks = s.asks
          /\ s2.results = Append(s.results, result)
      BY <1>2, <2>1, <2>3, <2>4, <2>5, RunningMore
    <2>7. QED
      BY <2>1, <2>3, <2>6
  <1>14. RefInv'
    <2>1. session = [x \in Clients |-> session[x]]
      BY <1>2 DEF IInv
    <2>2. \A x \in Clients : session'[x] = IF x = k THEN s2 ELSE session[x]
      BY <1>11, <2>1
    <2>3. \A x \in Clients : Running(cfg', session'[x])
      BY <1>1, <1>2, <1>13, <2>2 DEF RefInv
    <2>4. Translated(cfg', store')
      BY <1>1, <1>2, <1>3, <1>8 DEF OutcomeMaps
    <2>5. QED
      BY <2>3, <2>4 DEF RefInv
  <1>15. PICK named, last, docs :
           /\ named = AllNamed(c, s, s.results) /\ last = Names(c, t, a, o.result)
           /\ docs = PrivateDocs(c, o.store, t)
    OBVIOUS
  <1>16. AbsCall(c, s2) = CallOf("running", s, Append(named, last), <<>>)
    <2>1. s.results \in Seq(SUBSET Hit)
      BY <1>2 DEF SessionInv
    <2>2. AllNamed(c, s2, Append(s.results, o.result))
             = Append(AllNamed(c, s2, s.results), Names(c, t, a, o.result))
      <3>1. a.index = s2.ctx.index /\ s2.tenant = t
        BY <1>6, <1>13
      <3>2. QED
        BY <1>12, <2>1, <3>1, NamedMore
    <2>3. AllNamed(c, s2, s.results) = named
      BY <1>1, <1>13, <1>15 DEF AllNamed, Named
    <2>4. AllNamed(c, s2, s2.results) = Append(named, last)
      BY <1>13, <1>15, <2>2, <2>3
    <2>5. AbsCall(c, s2) = CallOf("running", s2, Append(named, last), <<>>)
      BY <1>13, <2>4, RunningCall
    <2>6. QED
      BY <1>1, <1>13, <2>5 DEF CallOf
  <1>17. AbsCall(c, s) = CallOf("running", s, named, <<>>)
    BY <1>2, <1>15, RunningCall DEF Opens
  <1>18. AbsCalls[k] = AbsCall(c, s) /\ AbsCalls' = [AbsCalls EXCEPT ![k] = AbsCall(c, s2)]
    BY <1>1, <1>2, <1>11, CallsStep
  <1>19. PICK call : call = AbsCalls[k]
    OBVIOUS
  <1>20. /\ call.pc = "running" /\ call.results = named /\ call.asks = s.asks
         /\ call.tenant = t
    BY <1>1, <1>17, <1>18, <1>19 DEF CallOf
  <1>21. AbsCalls' = [AbsCalls EXCEPT ![k].results = Append(@, last)]
    <2>1. PICK more, u, asks : more = Append(named, last) /\ u = s.tenant /\ asks = s.asks
      OBVIOUS
    <2>2. PICK none : none = [refused |-> FALSE, results |-> <<>>]
      OBVIOUS
    <2>3. call = [pc |-> "running", tenant |-> u, asks |-> asks, results |-> named,
                  reply |-> none]
      BY <1>17, <1>18, <1>19, <2>1, <2>2 DEF CallOf
    <2>4. PICK after : after = [call EXCEPT !.results = more]
      OBVIOUS
    <2>5. after = [pc |-> "running", tenant |-> u, asks |-> asks, results |-> more,
                   reply |-> none]
      BY <2>3, <2>4
    <2>6. AbsCall(c, s2) = after
      BY <1>16, <2>1, <2>2, <2>5 DEF CallOf
    <2>7. after = [call EXCEPT !.results = Append(@, last)]
      BY <1>20, <2>1, <2>4
    <2>8. AbsCalls = [x \in Clients |-> AbsCalls[x]]
      BY DEF AbsCalls
    <2>9. QED
      BY <1>18, <1>19, <2>6, <2>7, <2>8
  <1>22. AbsDocs' = [AbsDocs EXCEPT ![t] = docs] /\ AbsDocs[t] = PrivateDocs(c, store, t)
    <2>1. t \in Owners
      BY <1>6 DEF Issued
    <2>2. AbsDocs = [u \in Owners |-> PrivateDocs(c, store, u)]
      BY <1>1 DEF AbsDocs
    <2>3. AbsDocs' = [u \in Owners |-> PrivateDocs(c, o.store, u)]
      BY <1>1, <1>2, <1>3 DEF AbsDocs
    <2>4. \A u \in Owners : u # t => PrivateDocs(c, o.store, u) = PrivateDocs(c, store, u)
      BY <1>7, <1>9, OthersStand
    <2>5. QED
      BY <1>15, <2>1, <2>2, <2>3, <2>4
  <1>23. Len(named) = Len(s.results)
    <2>1. s.results \in Seq(SUBSET Hit)
      BY <1>2 DEF SessionInv
    <2>2. DOMAIN named = DOMAIN s.results
      BY <1>15 DEF AllNamed
    <2>3. named \in Seq(UNION {{named[i]} : i \in DOMAIN s.results}) /\ Len(named) = Len(s.results)
      BY <1>15, <2>1, <2>2 DEF AllNamed
    <2>4. QED
      BY <2>3
  <1>24. Abstract!Step(k)
    <2>1. PICK out : out = Abstract!Outcome(docs, last)
      OBVIOUS
    <2>2. out \in Abstract!Outcomes(AbsDocs[t], a)
      BY <1>8, <1>15, <1>22, <2>1 DEF OutcomeMaps
    <2>3. out.docs = docs /\ out.result = last
      BY <2>1 DEF Abstract!Outcome
    <2>4. Len(call.results) + 1 = next /\ next <= Len(call.asks)
      BY <1>1, <1>2, <1>5, <1>20, <1>23
    <2>5. out \in Abstract!Outcomes(AbsDocs[call.tenant], call.asks[Len(call.results) + 1])
      BY <1>4, <1>20, <2>2, <2>4
    <2>6. AbsDocs' = [AbsDocs EXCEPT ![call.tenant] = out.docs]
      BY <1>20, <1>22, <2>3
    <2>7. AbsCalls' = [AbsCalls EXCEPT ![k].results = Append(@, out.result)]
      BY <1>21, <2>3
    <2>8. QED
      BY <1>19, <1>20, <2>4, <2>5, <2>6, <2>7 DEF Abstract!Step
  <1>25. QED
    BY <1>14, <1>24

\* A private document is one (what FaithfulStores says of the entry it stands for).
LEMMA PrivateTyped ==
    ASSUME NoneIsNothing, TemplatesApart, NEW c \in Configs, NEW set, Translated(c, set),
           NEW t \in Owners, NEW e \in set, e.author = t
    PROVE  Private(c, t, e) \in Abstract!Document
  <1>1. e \in Stored /\ c.isolation \in Isolations
    BY ConfigsAssumption DEF Translated, StoreInv, ConfigsAssumption, KeepsApart, Config
  <1>2. e.index \in Indices \cup {""} /\ e.doc \in Doc
    BY <1>1 DEF Stored
  <1>3. PICK i \in Ids : e.id = PhysOf(c, t, i)
    BY DEF Translated, EntryGood
  <1>4. LogicalIdOf(c, t, e.id) = i
    BY <1>1, <1>3, IdBack
  <1>5. SpaceOf(c, t, e.index) \in Indices \cup {"", "all"}
    BY <1>2 DEF SpaceOf
  <1>6. Unmarked(c, t, e.doc) \in Doc
    BY <1>2 DEF Unmarked, Doc
  <1>7. QED
    BY <1>4, <1>5, <1>6 DEF Private, Abstract!Document

\* At the start every tenant has what it had, and nobody calls.
LEMMA RefInit ==
    ASSUME NoneIsNothing, TemplatesApart, FaithfulStores
    PROVE  Init => RefInv /\ Abstract!Init
  <1> SUFFICES ASSUME Init PROVE RefInv /\ Abstract!Init
    OBVIOUS
  <1>1. IInv /\ cfg \in Configs
    BY InvInit DEF IInv
  <1>2. Translated(cfg, store)
    BY <1>1 DEF Translated, IInv, Init, FaithfulStores
  <1>3. \A k \in Clients : Running(cfg, session[k])
    BY DEF Init, Running, Idle
  <1>4. AbsDocs \in [Owners -> SUBSET Abstract!Document]
    <2>1. ASSUME NEW t \in Owners PROVE PrivateDocs(cfg, store, t) \subseteq Abstract!Document
      BY <1>1, <1>2, PrivateTyped DEF PrivateDocs
    <2>2. QED
      BY <2>1 DEF AbsDocs
  <1>5. AbsCalls = [k \in Clients |-> Abstract!Idle]
    <2>1. \A k \in Clients : AbsCall(cfg, session[k]) = Abstract!Idle
      BY IdleCall DEF Init
    <2>2. QED
      BY <2>1 DEF AbsCalls
  <1>6. QED
    BY <1>1, <1>2, <1>3, <1>4, <1>5 DEF RefInv, Abstract!Init

\* Every step keeps the invariant and is a step of TenantStore, or none.
LEMMA RefNext ==
    ASSUME NoneIsNothing, TemplatesApart, FaithfulRequests
    PROVE  RefInv /\ [Next]_vars => RefInv' /\ [Abstract!Next]_(Abstract!vars)
  <1> SUFFICES ASSUME RefInv, [Next]_vars
               PROVE  RefInv' /\ [Abstract!Next]_(Abstract!vars)
    OBVIOUS
  <1>1. IInv'
    BY InvNext DEF RefInv
  <1>2. cfg \in Configs
    BY DEF RefInv, IInv
  <1>3. ASSUME NEW k \in Clients, NEW req \in Requests[cfg], Forward(k, req)
        PROVE  RefInv' /\ Abstract!Next
    BY <1>1, <1>3, ForwardMaps DEF Abstract!Next
  <1>4. ASSUME NEW k \in Clients, NEW req \in Requests[cfg], Reject(k, req)
        PROVE  RefInv' /\ Abstract!Next
    BY <1>1, <1>4, RejectMaps DEF Abstract!Next
  <1>5. ASSUME NEW k \in Clients, Execute(k)
        PROVE  RefInv' /\ Abstract!Next
    BY <1>1, <1>5, ExecuteMaps DEF Abstract!Next
  <1>6. ASSUME NEW k \in Clients, Respond(k)
        PROVE  RefInv' /\ Abstract!Next
    BY <1>1, <1>6, RespondMaps DEF Abstract!Next
  <1>7. ASSUME NEW k \in Clients, Finish(k)
        PROVE  RefInv' /\ Abstract!Next
    BY <1>1, <1>7, FinishMaps DEF Abstract!Next
  <1>8. CASE UNCHANGED vars
    <2>1. cfg' = cfg /\ store' = store /\ session' = session
      BY <1>8 DEF vars
    <2>2. AbsDocs' = AbsDocs /\ AbsCalls' = AbsCalls
      BY <2>1 DEF AbsDocs, AbsCalls
    <2>3. RefInv'
      BY <1>1, <2>1 DEF RefInv
    <2>4. QED
      BY <2>2, <2>3 DEF Abstract!vars
  <1>9. QED
    BY <1>3, <1>4, <1>5, <1>6, <1>7, <1>8 DEF Next

\* SharedStore implements TenantStore: whatever the tenants and however their
\* requests interleave, behind the filter each has an OpenSearch of its own
\* (prepare and shape_read_response taken together).
THEOREM ImplementsStore ==
    ASSUME NoneIsNothing, TemplatesApart, FaithfulStores, FaithfulRequests
    PROVE  Spec => ImplementsTenantStore
  <1>1. Init => RefInv /\ Abstract!Init
    BY RefInit
  <1>2. RefInv /\ [Next]_vars => RefInv' /\ [Abstract!Next]_(Abstract!vars)
    BY RefNext
  <1>3. QED
    BY <1>1, <1>2, PTL DEF Spec, ImplementsTenantStore, Abstract!Spec

-----------------------------------------------------------------------------
(***************************************************************************)
(* What the documentation says of reads, and when it is so.  Where the     *)
(* response phase sees the request that was routed (FaithfulRequests), a   *)
(* tenant's reads are answered in its own terms; the run over a path-keyed *)
(* shared index shows what happens where it does not.                      *)
(***************************************************************************)
LookingKinds == {"get_by_id", "search"}

\* A get or a search looks, and does nothing else (AskedBy).
LEMMA LookingAsks ==
    ASSUME NEW c, NEW t, NEW ctx, ctx.kind \in LookingKinds,
           NEW i \in DOMAIN AskedBy(c, t, ctx)
    PROVE  AskedBy(c, t, ctx)[i].op \in {"get", "search"}
  <1>1. CASE ctx.kind = "get_by_id"
    <2>1. AskedBy(c, t, ctx) = <<Ask(c, t, ctx, "get", ctx.docId, None)>>
      BY <1>1 DEF AskedBy
    <2>2. i = 1
      BY <2>1
    <2>3. QED
      BY <2>1, <2>2 DEF Ask
  <1>2. CASE ctx.kind = "search"
    <2>1. AskedBy(c, t, ctx) = <<Ask(c, t, ctx, "search", None, None)>>
      BY <1>2 DEF AskedBy
    <2>2. i = 1
      BY <2>1
    <2>3. QED
      BY <2>1, <2>2 DEF Ask
  <1>3. QED
    BY <1>1, <1>2 DEF LookingKinds

\* What is found, as the tenant names it, is the tenant's (LogicalId, Stripped).
LEMMA FoundIsLogical ==
    ASSUME NoneIsNothing, NEW c, NEW t \in Partitions, NEW a, a.op \in Looks,
           NEW h, HitGood(c, t, a, h), NEW name, name = NameOf(c, t, a.index, h)
    PROVE  /\ name.index = a.index /\ name.id \in Ids
           /\ name.doc # None /\ Injects(c) => name.doc.tenant = None
  <1>1. name.index = a.index /\ name.id = LogicalIdOf(c, t, h.id)
        /\ name.doc = Unmarked(c, t, h.doc)
    BY DEF NameOf
  <1>2. PICK i \in Ids \cup {None} : h.id = PhysOf(c, t, i)
    BY DEF HitGood
  <1>3. h.id # None /\ h \in Hit
    BY DEF HitGood
  <1>4. i \in Ids
    BY <1>2, <1>3 DEF PhysOf
  <1>5. name.id = i
    BY <1>1, <1>2, IdBack DEF Owners
  <1>6. ASSUME name.doc # None, Injects(c)
        PROVE  name.doc.tenant = None
    <2>1. t # None
      BY NamesDiffer DEF NamesDiffer
    <2>2. h.doc \in Doc /\ h.doc # None
      BY <1>1, <1>3, <1>6 DEF Hit, Unmarked
    <2>3. name.doc = [h.doc EXCEPT !.tenant = None]
      BY <1>1, <1>6, <2>1, <2>2 DEF Unmarked, Bypassed
    <2>4. QED
      BY <2>2, <2>3 DEF Doc
  <1>7. QED
    BY <1>1, <1>4, <1>5, <1>6

\* Hit h answers a request of context ctx in the tenant's terms.
SpeaksOf(c, ctx, h) ==
    /\ h.index = ctx.index
    /\ h.id \in Ids
    /\ h.doc # None /\ Injects(c) => h.doc.tenant = None

\* So is what the filter answers (shape_read_response and its caller).
LEMMA AnswersLogically ==
    ASSUME NoneIsNothing, TemplatesApart, FaithfulRequests, NEW c, NEW s,
           SessionInv(c, s), Running(c, s), s.pc = "upstream", Len(s.results) = Len(s.ops),
           s.ctx.kind \in LookingKinds, s.tenant # None,
           NEW reply, reply = ReplyTo(c, s), NEW i \in DOMAIN reply, NEW h \in reply[i]
    PROVE  SpeaksOf(c, s.ctx, h)
  <1>1. PICK named, results, asks, t, ctx :
           /\ named = AllNamed(c, s, s.results) /\ results = s.results /\ asks = s.asks
           /\ t = s.tenant /\ ctx = s.ctx
    OBVIOUS
  <1>2. Abstract!Answer(asks, named) = AsRead(reply)
    BY <1>1, AnswerMaps DEF LookingKinds, Unshaped
  <1>3. Opens(c, s) /\ \A j \in DOMAIN results : ResultGood(c, t, asks[j], results[j])
    BY <1>1 DEF Running
  <1>4. DOMAIN named = DOMAIN results /\ DOMAIN AsRead(reply) = DOMAIN reply
    BY <1>1 DEF AllNamed, AsRead
  <1>5. DOMAIN Abstract!Answer(asks, named) = DOMAIN named
    BY DEF Abstract!Answer
  <1>6. i \in DOMAIN results
    BY <1>2, <1>4, <1>5
  <1>7. i \in DOMAIN asks
    <2>1. results \in Seq(SUBSET Hit) /\ Len(results) = Len(s.ops)
      BY <1>1 DEF SessionInv
    <2>2. Len(s.ops) = Len(asks) /\ asks \in Seq(Abstract!Ask)
      BY <1>1, <1>3, OpenIssues
    <2>3. DOMAIN results = 1..Len(results) /\ DOMAIN asks = 1..Len(asks)
      BY <2>1, <2>2
    <2>4. QED
      BY <1>6, <2>1, <2>2, <2>3
  <1>8. PICK a : a = asks[i] /\ a.op \in {"get", "search"} /\ a.index = ctx.index
    <2>1. asks = AskedBy(c, TenantOf(c, s.req), ctx)
      BY <1>1, <1>3 DEF Opens, Asks
    <2>2. asks[i].op \in {"get", "search"}
      BY <1>1, <1>7, <2>1, LookingAsks
    <2>3. asks[i].index = ctx.index
      BY <1>1, <1>3, <1>7, OpenIssues
    <2>4. QED
      BY <2>2, <2>3
  <1>9. AsRead(reply)[i] = named[i]
    BY <1>2, <1>4, <1>5, <1>6, <1>8 DEF Abstract!Answer
  <1>10. AsRead(reply)[i] = {[index |-> g.index, id |-> g.id, doc |-> g.doc] : g \in reply[i]}
    BY DEF AsRead
  <1>11. named[i] = Names(c, t, a, results[i])
    BY <1>1, <1>6, <1>8, NamedResults
  <1>12. PICK g \in results[i] :
            [index |-> h.index, id |-> h.id, doc |-> h.doc] = NameOf(c, t, a.index, g)
    BY <1>9, <1>10, <1>11 DEF Names
  <1>13. HitGood(c, t, a, g)
    BY <1>3, <1>6, <1>8 DEF ResultGood
  <1>14. t \in Partitions
    BY <1>1 DEF SessionInv
  <1>15. PICK name : name = NameOf(c, t, a.index, g)
    OBVIOUS
  <1>16. name.index = h.index /\ name.id = h.id /\ name.doc = h.doc
    BY <1>12, <1>15
  <1>17. /\ name.index = a.index /\ name.id \in Ids
         /\ name.doc # None /\ Injects(c) => name.doc.tenant = None
    BY <1>8, <1>13, <1>14, <1>15, FoundIsLogical DEF Looks
  <1>18. QED
    BY <1>1, <1>8, <1>16, <1>17 DEF SpeaksOf

\* A session that is answered, and how.
ReadsWell(c, s) ==
    s.pc = "answered" /\ ~s.reply.refused /\ s.ctx.kind \in LookingKinds /\ s.tenant # None =>
        \A i \in DOMAIN s.reply.results : \A h \in s.reply.results[i] : SpeaksOf(c, s.ctx, h)

\* Every step leaves answers in the client's terms (Respond, the only one to answer).
LEMMA ReadsNext ==
    ASSUME NoneIsNothing, TemplatesApart, FaithfulRequests, RefInv, [Next]_vars,
           \A k \in Clients : ReadsWell(cfg, session[k])
    PROVE  \A k \in Clients : ReadsWell(cfg', session'[k])
  <1>1. session = [x \in Clients |-> session[x]]
    BY DEF RefInv, IInv
  <1>2. ReadsWell(cfg, Idle)
    BY DEF ReadsWell, Idle
  <1>3. ASSUME NEW k \in Clients, NEW req \in Requests[cfg], Forward(k, req)
        PROVE  \A x \in Clients : ReadsWell(cfg', session'[x])
    <2>1. PICK s : s = Opened[<<cfg, req>>]
      OBVIOUS
    <2>2. s.pc = "upstream" /\ cfg' = cfg /\ session' = [session EXCEPT ![k] = s]
      BY <1>3, <2>1 DEF Forward, Opened, Idle
    <2>3. ReadsWell(cfg, s)
      BY <2>2 DEF ReadsWell
    <2>4. QED
      BY <1>1, <2>2, <2>3
  <1>4. ASSUME NEW k \in Clients, NEW req \in Requests[cfg], Reject(k, req)
        PROVE  \A x \in Clients : ReadsWell(cfg', session'[x])
    <2>1. PICK s : s = [Idle EXCEPT !.pc = "answered", !.req = req,
                                    !.reply = Reply(TRUE, <<>>)]
      OBVIOUS
    <2>2. cfg' = cfg /\ session' = [session EXCEPT ![k] = s]
      BY <1>4, <2>1 DEF Reject
    <2>3. ReadsWell(cfg, s)
      <3>1. s.reply = Reply(TRUE, <<>>)
        BY <2>1 DEF Idle
      <3>2. s.reply.refused
        BY <3>1 DEF Reply
      <3>3. QED
        BY <3>2 DEF ReadsWell
    <2>4. QED
      BY <1>1, <2>2, <2>3
  <1>5. ASSUME NEW k \in Clients, Execute(k)
        PROVE  \A x \in Clients : ReadsWell(cfg', session'[x])
    <2>1. IsSession(session[k]) /\ session[k].pc = "upstream" /\ cfg' = cfg
      BY <1>5 DEF RefInv, IInv, SessionInv, Execute
    <2>2. PICK result : session' = [session EXCEPT ![k].results = Append(@, result)]
      BY <1>5 DEF Execute
    <2>3. session'[k].pc = "upstream" /\ \A x \in Clients : x # k => session'[x] = session[x]
      BY <1>1, <2>1, <2>2 DEF IsSession
    <2>4. ReadsWell(cfg', session'[k])
      BY <2>3 DEF ReadsWell
    <2>5. QED
      BY <2>1, <2>3, <2>4
  <1>6. ASSUME NEW k \in Clients, Respond(k)
        PROVE  \A x \in Clients : ReadsWell(cfg', session'[x])
    <2>1. PICK c, s, reply : c = cfg /\ s = session[k] /\ reply = ReplyTo(c, s)
      OBVIOUS
    <2>2. /\ s.pc = "upstream" /\ Len(s.results) = Len(s.ops) /\ cfg' = c
          /\ SessionInv(c, s) /\ Running(c, s) /\ IsSession(s)
      BY <1>6, <2>1 DEF Respond, RefInv, IInv, SessionInv
    <2>3. PICK s2 : s2 = [s EXCEPT !.pc = "answered", !.reply = Reply(FALSE, reply)]
      OBVIOUS
    <2>4. session' = [session EXCEPT ![k] = s2]
      BY <1>6, <2>1, <2>3 DEF Respond
    <2>5. s2.ctx = s.ctx /\ s2.tenant = s.tenant /\ s2.reply = Reply(FALSE, reply)
      BY <2>2, <2>3 DEF IsSession
    <2>6. s2.reply.results = reply
      BY <2>5 DEF Reply
    <2>7. ASSUME s.ctx.kind \in LookingKinds, s.tenant # None,
                 NEW i \in DOMAIN reply, NEW h \in reply[i]
          PROVE  SpeaksOf(c, s.ctx, h)
      BY <2>1, <2>2, <2>7, AnswersLogically
    <2>8. ReadsWell(c, s2)
      BY <2>5, <2>6, <2>7 DEF ReadsWell
    <2>9. QED
      BY <1>1, <2>1, <2>2, <2>4, <2>8
  <1>7. ASSUME NEW k \in Clients, Finish(k)
        PROVE  \A x \in Clients : ReadsWell(cfg', session'[x])
    <2>1. cfg' = cfg /\ session' = [session EXCEPT ![k] = Idle]
      BY <1>7 DEF Finish
    <2>2. QED
      BY <1>1, <1>2, <2>1
  <1>8. CASE UNCHANGED vars
    BY <1>8 DEF vars
  <1>9. QED
    BY <1>3, <1>4, <1>5, <1>6, <1>7, <1>8 DEF Next

\* "The client sends and receives its own orders/_doc/42", wherever the response
\* phase can see what was routed: no hit of an answered read names a physical
\* index, a physical id or the injected field (shape_response and read.rs).
THEOREM ReadsInOwnTerms ==
    ASSUME NoneIsNothing, TemplatesApart, FaithfulStores, FaithfulRequests
    PROVE  Spec => []ReadsAreLogical
  <1> DEFINE Well == \A k \in Clients : ReadsWell(cfg, session[k])
  <1>1. Init => RefInv /\ Well
    <2> SUFFICES ASSUME Init PROVE RefInv /\ Well
      OBVIOUS
    <2>1. RefInv
      BY RefInit
    <2>2. Well
      BY DEF Init, ReadsWell, Idle
    <2>3. QED
      BY <2>1, <2>2
  <1>2. RefInv /\ Well /\ [Next]_vars => (RefInv /\ Well)'
    BY RefNext, ReadsNext
  <1>3. Well => ReadsAreLogical
    BY DEF ReadsWell, SpeaksOf, ReadsAreLogical, Answered, Logical, Bypassed, LookingKinds
  <1>4. QED
    BY <1>1, <1>2, <1>3, PTL DEF Spec

-----------------------------------------------------------------------------
(***************************************************************************)
(* What it says of dry runs, and when it is so.  A dry run looks at the    *)
(* request as it was sent, and at nothing that comes before the router.    *)
(***************************************************************************)
\* Then it disagrees with the real route about the body at most (explain, prepare).
LEMMA SeenIsTold ==
    ASSUME NEW c, NEW req, DryRunSees(c, req), Handle(c, req) # RewriteFailed
    PROVE  (Explain(c, req).to = "local") = (Handle(c, req).to = "local")
  <1>1. RewriteForPath(c, req) = req
    BY DEF RewriteForPath, DryRunSees
  <1>2. Front(c, req) = Pass \/ req.method \notin Methods
    BY <1>1 DEF Front, DryRunSees, Bypasses
  <1>3. CASE req.method \notin Methods
    <2>1. Front(c, req) = BadMethod /\ Explain(c, req) = BadMethod
      BY <1>3 DEF Front, Explain
    <2>2. Handle(c, req) = BadMethod
      BY <2>1 DEF Handle, Verdict, BadMethod, Immediate, Pass
    <2>3. QED
      BY <2>1, <2>2
  <1>4. CASE Front(c, req) = Pass /\ req.method \in Methods
    <2>1. PICK ctx, r, refusal : /\ ctx = CtxOf(req) /\ r = Resolve(c, ctx)
                                 /\ refusal = Refusal(r, Admitted(c, r), ctx.kind)
      OBVIOUS
    <2>2. Handle(c, req) = IF refusal.to = "local" THEN refusal ELSE Dispatch(r, ctx)
      BY <1>1, <1>4, <2>1 DEF Handle, Verdict, Prepare
    <2>3. Explain(c, req) = IF refusal.to = "local" THEN refusal
                            ELSE [to |-> "route", decision |-> DecisionShape(r)]
      BY <1>4, <2>1 DEF Explain, ExplainRoute
    <2>4. Dispatch(r, ctx).to = "upstream" \/ Dispatch(r, ctx) = RewriteFailed
      BY DEF Dispatch, WriteForward, BulkForward, ByIdForward, QueryForward,
             MultiGetForward, MultiSearchForward, Upstream
    <2>5. QED
      BY <2>2, <2>3, <2>4
  <1>5. QED
    BY <1>2, <1>3, <1>4

\* "The explain can never disagree with the real route", of every request a dry
\* run sees all of; what it does not see is all that can make it disagree.
THEOREM DryRunsAgree ==
    ASSUME DryRunsSeeAll
    PROVE  Spec => []ExplainNeverDisagrees
  <1> DEFINE AllSent == \A k \in Clients : Sent(cfg, session[k])
  <1>1. Init => AllSent
    BY DEF Init, Sent, Idle
  <1>2. IInv /\ AllSent /\ [Next]_vars => AllSent'
    BY SentNext
  <1>3. IInv /\ AllSent => ExplainNeverDisagrees
    BY SeenIsTold DEF IInv, Sent, ExplainNeverDisagrees, DryRunsSeeAll
  <1>4. QED
    BY <1>1, <1>2, <1>3, Inductive, PTL DEF Spec

-----------------------------------------------------------------------------
(***************************************************************************)
(* And of bulk requests.  It is the id of the source that counts: an       *)
(* explicit id on the action line is looked at after the source has been   *)
(* transformed.                                                            *)
(***************************************************************************)
\* Nothing is wrong with its items (ItemFails, for a tenant and past the tenancy).
LEMMA ReadyItems ==
    ASSUME NEW c, NEW req, BulkReady(c, req), CtxOf(req).kind = "ingest_bulk",
           NEW r, c.isolation # "shared_index" => ~r.inject /\ ~r.idRule,
           NEW ctx, ctx.body = req.body
    PROVE  BulkForward(r, ctx).to = "upstream"
  <1>1. \A i \in DOMAIN ctx.body : ~ItemFails(r, ctx.body[i])
    BY DEF BulkReady, Transforms, ItemFails, ApplyFails
  <1>2. ctx.body # Malformed
    BY DEF BulkReady
  <1>3. PICK items : items = ctx.body
    OBVIOUS
  <1>4. BulkForward(r, ctx) = Upstream(r, [i \in DOMAIN items |-> ItemOp(r, items[i])])
    BY <1>1, <1>2, <1>3 DEF BulkForward
  <1>5. PICK ops : BulkForward(r, ctx) = Upstream(r, ops)
    BY <1>4
  <1>6. QED
    BY <1>5 DEF Upstream

\* So it goes upstream when its tenant is known (handle, prepare).
LEMMA ReadyGoes ==
    ASSUME NEW c, NEW req, BulkReady(c, req), CtxOf(req).kind = "ingest_bulk",
           Resolve(c, CtxOf(req)).ok
    PROVE  Plan(c, req).to = "upstream"
  <1>1. PICK ctx, r : ctx = CtxOf(req) /\ r = Resolve(c, ctx)
    OBVIOUS
  <1>2. RewriteForPath(c, req) = req /\ ctx.kind = "ingest_bulk" /\ ctx.body = req.body
    BY <1>1 DEF BulkReady, RewriteForPath, CtxOf
  <1>3. r.inject = Injects(c) /\ r.idRule = HasIdRule(c)
    BY <1>1 DEF Resolve, Unresolved
  <1>4. CASE Bypasses(c, ctx)
    <2>1. Handle(c, req) = [to |-> "continue"]
      BY <1>1, <1>2, <1>4 DEF BulkReady, Handle, Verdict, Front, Bypasses, Pass
    <2>2. Plan(c, req) = BulkForward(Untouched(c, ctx), ctx)
      BY <1>1, <1>2, <2>1 DEF Plan, Dispatch
    <2>3. ~Untouched(c, ctx).inject /\ ~Untouched(c, ctx).idRule
      BY DEF Untouched
    <2>4. QED
      BY <1>1, <1>2, <2>2, <2>3, ReadyItems
  <1>5. CASE ~Bypasses(c, ctx)
    <2>1. Front(c, req) = Pass
      BY <1>1, <1>2, <1>5 DEF BulkReady, Front, Bypasses
    <2>2. Handle(c, req) = Prepare(r, Admitted(c, r), ctx)
      BY <1>1, <1>2, <2>1 DEF Handle, Verdict
    <2>3. Admitted(c, r)
      BY <1>1 DEF Admitted, BulkReady
    <2>4. Refusal(r, Admitted(c, r), ctx.kind) = Pass
      BY <1>1, <1>2, <2>3 DEF Refusal, SupportedKinds
    <2>5. Handle(c, req) = BulkForward(r, ctx)
      BY <1>2, <2>2, <2>4 DEF Prepare, Pass, Dispatch
    <2>6. BulkForward(r, ctx).to = "upstream"
      <3>1. c.isolation # "shared_index" => ~r.inject /\ ~r.idRule
        BY <1>3, Zenon DEF Injects, HasIdRule
      <3>2. CtxOf(req).kind = "ingest_bulk" /\ ctx.body = req.body
        BY <1>1, <1>2
      <3>3. QED
        BY <3>1, <3>2, ReadyItems
    <2>7. QED
      BY <2>5, <2>6 DEF Plan
  <1>6. QED
    BY <1>4, <1>5

\* Only what is not let through is refused.
RefusedFairly(c, s) ==
    s.pc = "answered" /\ s.reply.refused => <<c, s.req>> \notin Accepted

\* Every step keeps it so (Reject refuses, Respond does not).
LEMMA RefusedNext ==
    ASSUME IInv, [Next]_vars, \A k \in Clients : RefusedFairly(cfg, session[k])
    PROVE  \A k \in Clients : RefusedFairly(cfg', session'[k])
  <1>1. /\ session = [x \in Clients |-> session[x]]
        /\ \A x \in Clients : IsSession(session[x])
    BY DEF IInv, SessionInv
  <1>2. ASSUME NEW k \in Clients, NEW s, cfg' = cfg, RefusedFairly(cfg, s),
               session' = [session EXCEPT ![k] = s]
        PROVE  \A x \in Clients : RefusedFairly(cfg', session'[x])
    BY <1>1, <1>2
  <1>3. ASSUME NEW k \in Clients, NEW req \in Requests[cfg], Forward(k, req)
        PROVE  \A x \in Clients : RefusedFairly(cfg', session'[x])
    <2>1. RefusedFairly(cfg, Opened[<<cfg, req>>])
      BY <1>3 DEF Forward, Opened, Idle, RefusedFairly
    <2>2. QED
      BY <1>2, <1>3, <2>1 DEF Forward
  <1>4. ASSUME NEW k \in Clients, NEW req \in Requests[cfg], Reject(k, req)
        PROVE  \A x \in Clients : RefusedFairly(cfg', session'[x])
    <2>1. PICK s : s = [Idle EXCEPT !.pc = "answered", !.req = req,
                                    !.reply = Reply(TRUE, <<>>)]
      OBVIOUS
    <2>2. s.req = req
      BY <2>1 DEF Idle
    <2>3. RefusedFairly(cfg, s)
      BY <1>4, <2>2 DEF Reject, RefusedFairly
    <2>4. QED
      BY <1>2, <1>4, <2>1, <2>3 DEF Reject
  <1>5. ASSUME NEW k \in Clients, Execute(k)
        PROVE  \A x \in Clients : RefusedFairly(cfg', session'[x])
    <2>1. PICK result, s : s = [session[k] EXCEPT !.results = Append(@, result)]
                           /\ session' = [session EXCEPT ![k].results = Append(@, result)]
      BY <1>5 DEF Execute
    <2>2. session' = [session EXCEPT ![k] = s]
      BY <2>1
    <2>3. s.pc = session[k].pc /\ session[k].pc = "upstream"
      BY <1>1, <1>5, <2>1 DEF IsSession, Execute
    <2>4. RefusedFairly(cfg, s)
      BY <2>3 DEF RefusedFairly
    <2>5. QED
      BY <1>2, <1>5, <2>2, <2>4 DEF Execute
  <1>6. ASSUME NEW k \in Clients, Respond(k)
        PROVE  \A x \in Clients : RefusedFairly(cfg', session'[x])
    <2>1. PICK s : s = [session[k] EXCEPT !.pc = "answered",
                                          !.reply = Reply(FALSE, ReplyTo(cfg, session[k]))]
      OBVIOUS
    <2>2. session' = [session EXCEPT ![k] = s]
      BY <1>6, <2>1 DEF Respond
    <2>3. s.reply = Reply(FALSE, ReplyTo(cfg, session[k]))
      BY <1>1, <2>1 DEF IsSession
    <2>4. ~s.reply.refused
      BY <2>3 DEF Reply
    <2>5. RefusedFairly(cfg, s)
      BY <2>4 DEF RefusedFairly
    <2>6. QED
      BY <1>2, <1>6, <2>2, <2>5 DEF Respond
  <1>7. ASSUME NEW k \in Clients, Finish(k)
        PROVE  \A x \in Clients : RefusedFairly(cfg', session'[x])
    <2>1. RefusedFairly(cfg, Idle)
      BY DEF RefusedFairly, Idle
    <2>2. QED
      BY <1>2, <1>7, <2>1 DEF Finish
  <1>8. CASE UNCHANGED vars
    BY <1>8 DEF vars
  <1>9. QED
    BY <1>3, <1>4, <1>5, <1>6, <1>7, <1>8 DEF Next

\* "Construct the id from the source unless the action line carried an explicit
\* id": a bulk request is accepted when every source carries an id, whatever its
\* action lines carry; an explicit id alone does not do (demux.rs, bulk.rs).
THEOREM SourceIdsSuffice ==
    ASSUME BulksReady
    PROVE  Spec => []ExplicitIdsSuffice
  <1> DEFINE Fair == \A k \in Clients : Sent(cfg, session[k])
                                        /\ RefusedFairly(cfg, session[k])
  <1>1. Init => Fair
    BY DEF Init, Sent, RefusedFairly, Idle
  <1>2. IInv /\ Fair /\ [Next]_vars => Fair'
    BY SentNext, RefusedNext
  <1>3. IInv /\ Fair => ExplicitIdsSuffice
    <2> SUFFICES ASSUME IInv, Fair, NEW k \in Clients, session[k].pc = "answered",
                        CtxOf(session[k].req).kind = "ingest_bulk",
                        session[k].reply.refused, Resolve(cfg, CtxOf(session[k].req)).ok
                 PROVE  FALSE
      BY DEF ExplicitIdsSuffice
    <2>1. PICK c, req : /\ c = cfg /\ req = session[k].req
                        /\ c \in Configs /\ req \in Requests[c]
      BY DEF IInv, Sent
    <2>2. Plan(c, req).to = "upstream"
      BY <2>1, ReadyGoes DEF BulksReady
    <2>3. <<c, req>> \in Accepted
      <3>1. <<c, req>> \in {c} \X Requests[c]
        BY <2>1
      <3>2. <<c, req>> \in Pairs
        BY <2>1, <3>1 DEF Pairs
      <3>3. Plans[<<c, req>>] = Plan(c, req)
        BY <3>2 DEF Plans
      <3>4. QED
        BY <2>2, <3>2, <3>3 DEF Accepted
    <2>4. QED
      BY <2>1, <2>3 DEF RefusedFairly
  <1>4. QED
    BY <1>1, <1>2, <1>3, Inductive, PTL DEF Spec

=============================================================================
