---------------------------- MODULE SharedStore ----------------------------
(***************************************************************************)
(* Clients, the filter and the upstream clusters.  Every request crosses   *)
(* the filter on its way in (Brain!Handle) and every upstream response on  *)
(* its way out (Brain!ShapeResponse); between the two the clusters run the *)
(* request's physical operations one at a time, interleaved with those of  *)
(* every other client.  The clusters are external: what they do with an    *)
(* operation is what the code expects of OpenSearch.                       *)
(*                                                                         *)
(* The configuration is chosen once; a placement that changes under        *)
(* running requests is a model of its own.                                 *)
(***************************************************************************)
EXTENDS Brain, FiniteSets
CONSTANTS
    Clients,      \* client sessions, each with one request open at a time
    Configs,      \* the filter configurations considered
    Requests,     \* Requests[c]: the raw requests clients send under c
    Stores        \* Stores[c]: what the clusters may hold when a filter with
                  \* configuration c starts

VARIABLES
    cfg,          \* the filter's configuration
    store,        \* the documents of all clusters
    session       \* session[c]: the request client c has open

vars == <<cfg, store, session>>

-----------------------------------------------------------------------------
ASSUME ConfigsAssumption == \A c \in Configs : KeepsApart(c)

ASSUME RequestsAssumption ==
    \A c \in Configs : \A req \in Requests[c] : Sendable(c, req)

Stored == [cluster : Clusters, index : Indices \cup {""}, id : PhysIds,
           routing : Partitions \cup {None}, doc : Doc,
           author : Partitions \cup {None}]

\* A document lies at its tenant's home; where tenants share it, it has an id and
\* a mark of its tenant's.
EntryScoped(c, e) ==
    /\ Home(c, e.author, e.cluster, e.index)
    /\ Shares(c, e.author) => OwnId(e.author, e.id) /\ e.doc.tenant = e.author

StoreInv(c, set) ==
    /\ set \subseteq Stored
    /\ \A e \in set : EntryScoped(c, e)

\* The clusters hold what earlier runs of the filter left, whatever phase a
\* migration was in then; every run leaves this (StoreInv is invariant).
ASSUME StoresAssumption ==
    \A c \in Configs : \A set \in Stores[c] : StoreInv(c, set)

-----------------------------------------------------------------------------
(***************************************************************************)
(* What the clusters do with one operation: an entry is a document with    *)
(* its place, [cluster, index, id, routing, doc], plus `author`, the       *)
(* tenant whose request wrote it (None: a passthrough request), which no   *)
(* code can see.  Any operation may also be refused without effect.        *)
(***************************************************************************)
Entry(cluster, op, id, author) ==
    [cluster |-> cluster, index |-> op.index, id |-> id,
     routing |-> op.routing, doc |-> op.doc, author |-> author]

InIndex(set, cluster, index) ==
    {e \in set : e.cluster = cluster /\ e.index = index}

\* A by-id operation reaches one shard: the id alone does not find a document.
Located(set, cluster, op, id) ==
    {e \in InIndex(set, cluster, op.index) : e.id = id /\ e.routing = op.routing}

Matching(set, cluster, op) ==
    {e \in InIndex(set, cluster, op.index) :
        op.filter # None => e.doc.tenant = op.filter}

\* A document without an id is given one its index has not used.
Landing(set, cluster, op) ==
    IF op.id # None THEN {op.id}
    ELSE {i \in Ids : \A e \in InIndex(set, cluster, op.index) : e.id # i}

HitOf(e) == [index |-> e.index, id |-> e.id, doc |-> e.doc, author |-> e.author]
Ack(op, id, author) == [index |-> op.index, id |-> id, doc |-> None, author |-> author]

Outcome(set, result) == [store |-> set, result |-> result]

Written(set, cluster, op, author) ==
    {Outcome((set \ Located(set, cluster, op, i)) \cup {Entry(cluster, op, i, author)},
             {Ack(op, i, author)}) :
        i \in {j \in Landing(set, cluster, op) :
                 op.op = "create" => Located(set, cluster, op, j) = {}}}

Deleted(set, cluster, op, author) ==
    {Outcome(set \ Located(set, cluster, op, op.id), {Ack(op, op.id, author)})}

Outcomes(set, cluster, op, author) ==
    {Outcome(set, {})} \cup
    CASE op.op \in {"index", "create"} -> Written(set, cluster, op, author)
      [] op.op = "delete" -> Deleted(set, cluster, op, author)
      [] op.op = "get"    ->
             {Outcome(set, {HitOf(e) : e \in Located(set, cluster, op, op.id)})}
      [] OTHER ->
             {Outcome(set, {HitOf(e) : e \in Matching(set, cluster, op)})}

-----------------------------------------------------------------------------
(***************************************************************************)
(* What a request asks for in the client's own terms, read off the request *)
(* alone: the operations on a private store that the physical ones have to *)
(* amount to.  No code computes this; it is what the refinement needs.     *)
(***************************************************************************)
\* The passthrough indices count as one more tenant, None.
Owners == Partitions \cup {None}
Bypassed(tenant) == tenant = None

\* A dedicated cluster keeps a tenant's indices apart; in the other placements
\* every index name of a tenant denotes the same documents.
SpaceOf(c, tenant, index) ==
    IF Bypassed(tenant) \/ c.isolation = "dedicated_cluster" THEN index ELSE "all"

ChosenId(c, tenant, id, doc) ==
    IF id # None THEN id
    ELSE IF ~Bypassed(tenant) /\ HasIdRule(c) /\ doc # None THEN doc.id ELSE None

Ask(c, tenant, ctx, op, id, doc) ==
    [op |-> op, space |-> SpaceOf(c, tenant, ctx.index), index |-> ctx.index,
     id |-> id, doc |-> doc]

AskedBy(c, tenant, ctx) ==
    LET Asking(op, id, doc) == Ask(c, tenant, ctx, op, id, doc)
        body == ctx.body
    IN  CASE ctx.kind = "ingest_doc" ->
                 <<Asking("index", ChosenId(c, tenant, ctx.docId, body), body)>>
          [] ctx.kind = "get_by_id"    -> <<Asking("get", ctx.docId, None)>>
          [] ctx.kind = "delete_by_id" -> <<Asking("delete", ctx.docId, None)>>
          [] ctx.kind \in {"search", "count"} -> <<Asking(ctx.kind, None, None)>>
          [] ctx.kind = "ingest_bulk" ->
                 [i \in DOMAIN body |->
                     Asking(body[i].verb, ChosenId(c, tenant, body[i].id, body[i].source),
                            body[i].source)]
          [] ctx.kind = "multi_get" -> [i \in DOMAIN body |-> Asking("get", body[i], None)]
          [] OTHER                  -> [i \in DOMAIN body |-> Asking("search", None, None)]

Asks(c, req) == AskedBy(c, TenantOf(c, req), CtxOf(RewriteForPath(c, req)))

-----------------------------------------------------------------------------
\* An open request; `tenant` and `asks` are for the properties alone.
Reply(refused, results) == [refused |-> refused, results |-> results]
NoReply == Reply(FALSE, <<>>)
Idle == [pc |-> "idle", req |-> None, ctx |-> None, tenant |-> None,
         cluster |-> None, ops |-> <<>>, asks |-> <<>>, results |-> <<>>,
         reply |-> NoReply]

\* The filter is deterministic once its configuration is: one table of what it
\* makes of every request.
Pairs    == UNION {{c} \X Requests[c] : c \in Configs}
Contexts == [x \in Pairs |-> CtxOf(RewriteForPath(x[1], x[2]))]
Plans    == [x \in Pairs |-> Plan(x[1], x[2])]
Accepted == {x \in Pairs : Plans[x].to = "upstream"}
Opened   == [x \in Accepted |->
                [Idle EXCEPT !.pc = "upstream", !.req = x[2], !.ctx = Contexts[x],
                             !.tenant = TenantOf(x[1], x[2]),
                             !.cluster = Plans[x].cluster, !.ops = Plans[x].ops,
                             !.asks = Asks(x[1], x[2])]]

Init ==
    /\ cfg \in Configs
    /\ store \in Stores[cfg]
    /\ session = [c \in Clients |-> Idle]

\* A request the filter lets through.
Forward(c, req) ==
    /\ session[c].pc = "idle"
    /\ <<cfg, req>> \in Accepted
    /\ session' = [session EXCEPT ![c] = Opened[<<cfg, req>>]]
    /\ UNCHANGED <<cfg, store>>

\* A request the filter answers itself, fail closed.
Reject(c, req) ==
    /\ session[c].pc = "idle"
    /\ <<cfg, req>> \notin Accepted
    /\ session' = [session EXCEPT ![c] =
           [Idle EXCEPT !.pc = "answered", !.req = req, !.reply = Reply(TRUE, <<>>)]]
    /\ UNCHANGED <<cfg, store>>

\* The cluster runs the next operation of c's request.
Execute(c) ==
    LET s == session[c]
        next == Len(s.results) + 1
    IN  /\ s.pc = "upstream"
        /\ next <= Len(s.ops)
        /\ \E o \in Outcomes(store, s.cluster, s.ops[next], s.tenant) :
             /\ store' = o.store
             /\ session' = [session EXCEPT ![c].results = Append(@, o.result)]
        /\ UNCHANGED cfg

\* The upstream response crosses the filter; a count carries only numbers.
ReplyTo(c, s) ==
    LET shaped == ShapeResponse(c, s.req, s.results)
    IN  IF s.ctx.kind = "count"
        THEN [i \in DOMAIN s.results |-> Cardinality(s.results[i])]
        ELSE IF shaped = None THEN s.results ELSE shaped

Respond(c) ==
    LET s == session[c]
    IN  /\ s.pc = "upstream"
        /\ Len(s.results) = Len(s.ops)
        /\ session' = [session EXCEPT
               ![c].pc = "answered",
               ![c].reply = Reply(FALSE, ReplyTo(cfg, s))]
        /\ UNCHANGED <<cfg, store>>

\* The client takes the reply, or stops waiting with operations left undone.
Finish(c) ==
    /\ session[c].pc # "idle"
    /\ session' = [session EXCEPT ![c] = Idle]
    /\ UNCHANGED <<cfg, store>>

Next == \E c \in Clients :
    \/ \E req \in Requests[cfg] : Forward(c, req) \/ Reject(c, req)
    \/ Execute(c) \/ Respond(c) \/ Finish(c)

Spec == Init /\ [][Next]_vars

-----------------------------------------------------------------------------
(* Properties.                                                              *)

Hit == [index  : Indices \cup {""},
        id     : PhysIds \cup {None},
        doc    : Doc \cup {None},
        author : Partitions \cup {None}]

\* Type correctness of the physical side: what the clusters hold and return.
TypeOK ==
    /\ cfg \in Configs
    /\ store \subseteq Stored
    /\ \A c \in Clients :
         /\ session[c].pc \in {"idle", "upstream", "answered"}
         /\ session[c].tenant \in Partitions \cup {None}
         /\ session[c].results \in Seq(SUBSET Hit)

\* Tenant isolation: whatever is interleaved with it, no operation of a
\* request returns a document another tenant wrote (the partition filter of
\* read.rs, the partition-scoped ids of read.rs, bulk.rs and demux.rs).
TenantIsolation ==
    \A c \in Clients : \A i \in DOMAIN session[c].results :
        \A h \in session[c].results[i] : h.author = session[c].tenant

\* No request replaces or deletes a document of another tenant: an entry
\* that disappears was written by the tenant whose operation ran.
WritesStayHome ==
    [][\A e \in store \ store' :
          \E c \in Clients : session[c].pc = "upstream" /\ e.author = session[c].tenant
                             /\ session'[c].results # session[c].results]_vars

\* While a tenant is in cutover the documents it had stay as they were, and none
\* appears: whichever endpoint it uses, bulks and deletions included, and whatever
\* the others write beside it (the write gate of prepare).
FrozenInCutover ==
    [][cfg.phase = "cutover" =>
          {e \in store : e.author = cfg.migrating}
             = {e \in store' : e.author = cfg.migrating}]_vars

\* An operation sent as a dry run's decision has it: marked, filtered and named for
\* the tenant, and a read where writes are held.
Shows(decision, tenant, op) ==
    /\ decision.inject /\ op.op \in {"index", "create"} => op.doc.tenant = tenant
    /\ op.op \in {"search", "count"} =>
           op.filter = IF decision.inject THEN tenant ELSE None
    /\ decision.idRule /\ op.id # None => OwnId(tenant, op.id)
    /\ decision.phase = "cutover" => op.op \in {"get", "search", "count"}

\* A dry run tells the truth: where it refuses, the request is refused with the
\* same status and code, and where it routes, only the body can still be found
\* wanting, and every operation that leaves has the decision reported (explain and
\* prepare in evoxy-route).  What happens before prepare - the certificate policy,
\* passthrough, the path's tenant - is not in it.
ExplainMatches ==
    \A c \in Clients :
        LET req     == session[c].req
            verdict == Handle(cfg, req)
            dry     == Explain(cfg, req)
        IN  session[c].pc # "idle" /\ cfg.source # "path" =>
              \/ Bypasses(cfg, CtxOf(req))
              \/ verdict = Immediate(403, "mtls_required_for_mutation")
              \/ dry.to = "local" /\ verdict = dry
              \/ /\ dry.to = "route"
                 /\ \/ verdict = RewriteFailed
                    \/ /\ verdict.to = "upstream"
                       /\ \A i \in DOMAIN verdict.ops :
                             Shows(dry.decision, TenantOf(cfg, req), verdict.ops[i])
=============================================================================
