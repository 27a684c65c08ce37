----------------------- MODULE SharedStoreRefinement -----------------------
(***************************************************************************)
(* Behind the filter every tenant has an OpenSearch of its own: SharedStore *)
(* implements TenantStore.  The mapping says which private document a      *)
(* physical entry stands for, and - independently of the request path of   *)
(* the filter - what a client asked for.                                   *)
(***************************************************************************)
EXTENDS SharedStore

LogicalIdOf(c, tenant, id) ==
    IF Bypassed(tenant) \/ ~HasIdRule(c) THEN id ELSE LogicalId(tenant, id)

Unmarked(c, tenant, doc) ==
    IF doc = None \/ Bypassed(tenant) \/ ~Injects(c) THEN doc
    ELSE [doc EXCEPT !.tenant = None]

Private(c, tenant, e) ==
    [space |-> SpaceOf(c, tenant, e.index), id |-> LogicalIdOf(c, tenant, e.id),
     doc   |-> Unmarked(c, tenant, e.doc)]

PrivateDocs(c, set, tenant) ==
    {Private(c, tenant, e) : e \in {x \in set : x.author = tenant}}

AbsDocs == [t \in Owners |-> PrivateDocs(cfg, store, t)]

-----------------------------------------------------------------------------
(* A client's open request.                                                 *)

\* A physical hit as the tenant of session s would name it.
Named(c, s, hit) ==
    [index |-> s.ctx.index,
     id    |-> LogicalIdOf(c, s.tenant, hit.id),
     doc   |-> Unmarked(c, s.tenant, hit.doc)]

AllNamed(c, s, results) ==
    [i \in DOMAIN results |-> {Named(c, s, h) : h \in results[i]}]

\* The reply as the client reads it.  The answer to a single-document write is
\* the one reply the filter leaves in physical terms, and is translated here.
Unshaped == {"ingest_doc", "delete_by_id"}

AsRead(results) ==
    [i \in DOMAIN results |->
        {[index |-> h.index, id |-> h.id, doc |-> h.doc] : h \in results[i]}]

AbsReply(c, s) ==
    LET seen == s.reply.results
    IN  [refused |-> FALSE,
         results |-> IF s.ctx.kind = "count" THEN seen
                     ELSE IF s.ctx.kind \in Unshaped THEN AllNamed(c, s, seen)
                     ELSE AsRead(seen)]

AbsCall(c, s) ==
    IF s.pc = "idle" \/ s.reply.refused
    THEN [pc |-> s.pc, tenant |-> None, asks |-> <<>>, results |-> <<>>,
          reply |-> [refused |-> s.reply.refused, results |-> <<>>]]
    ELSE [pc      |-> IF s.pc = "upstream" THEN "running" ELSE s.pc,
          tenant  |-> s.tenant,
          asks    |-> s.asks,
          results |-> AllNamed(c, s, s.results),
          reply   |-> AbsReply(c, s)]

AbsCalls == [k \in Clients |-> AbsCall(cfg, session[k])]

Abstract == INSTANCE TenantStore WITH
    Tenants  <- Owners,
    Spaces   <- Indices \cup {"", "all"},
    Names    <- Indices \cup {""},
    Docs     <- Doc,
    docs     <- AbsDocs,
    calls    <- AbsCalls

\* Every step the filter and the clusters take is a step of the private store
\* of one tenant, or changes nothing a tenant can see.
ImplementsTenantStore == Abstract!Spec

-----------------------------------------------------------------------------
(***************************************************************************)
(* What it takes.  The response phase sees the request that was routed, or *)
(* reshapes nothing; in a shared index a document that is sent under an id *)
(* says the same id in its body, and what is written past the tenancy      *)
(* carries no mark.  And no tenant's physical id is one a client may       *)
(* choose.                                                                 *)
(***************************************************************************)
Writes == {"index", "create"}

Plain(c, doc) == c.isolation = "shared_index" => doc.tenant = None

Faithful(c, req) ==
    LET ctx == CtxOf(RewriteForPath(c, req))
    IN  /\ SplitsTenant(c, req) =>
             c.isolation = "dedicated_cluster" /\ c.default = None /\ req.header = None
        /\ c.isolation = "shared_index" =>
             IF Bypasses(c, ctx)
             THEN \A i \in DOMAIN Asks(c, req) :
                     Asks(c, req)[i].op \in Writes => Plain(c, Asks(c, req)[i].doc)
             ELSE ctx.kind = "ingest_doc" /\ ctx.docId # None /\ ctx.body # Malformed =>
                     ctx.body.id = ctx.docId

\* Where the filter puts what is a tenant's, and how it marks it.
HomeOf(c, t)       == IF t = None THEN c.cluster ELSE ClusterFor(c, t)
Place(c, t, index) == IF t = None THEN index ELSE IndexFor(c, t, index)
PhysOf(c, t, id)   == IF id = None \/ ~Shares(c, t) THEN id ELSE Template(t, id)
RouteFor(c, t)     == IF Shares(c, t) /\ c.routing THEN t ELSE None
MarkOf(c, t)       == IF Shares(c, t) THEN t ELSE None

EntryGood(c, e) ==
    /\ e.cluster = HomeOf(c, e.author)
    /\ e.index = Place(c, e.author, e.index)
    /\ e.routing = RouteFor(c, e.author)
    /\ \E i \in Ids : e.id = PhysOf(c, e.author, i)
    /\ c.isolation = "shared_index" => e.doc.tenant = MarkOf(c, e.author)

\* What was there before was written under the same placements.
FaithfulStores ==
    \A c \in Configs : \A set \in Stores[c] :
        IsFiniteSet(set) /\ \A e \in set : EntryGood(c, e)

FaithfulRequests == \A c \in Configs : \A req \in Requests[c] : Faithful(c, req)

TemplatesApart == \A p \in Partitions, i \in Ids : Template(p, i) \notin Ids
=============================================================================
