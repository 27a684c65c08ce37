------------------------- MODULE SharedStoreClaims -------------------------
(* What the documentation says of the filter and the code does not do.      *)
EXTENDS SharedStoreRefinement

Answered(c) == session[c].pc = "answered" /\ ~session[c].reply.refused

\* A tenant's reply speaks of its own index and its own document ids, and what
\* the filter put into a document is taken out again.
Logical(c, hit) ==
    /\ hit.index = session[c].ctx.index
    /\ hit.id \in Ids
    /\ hit.doc # None /\ Injects(cfg) => hit.doc.tenant = None

\* A read is answered in the client's terms: "the client sends and receives its
\* own orders/_doc/42" (docs/guide/02-tenancy.md).
ReadsAreLogical ==
    \A c \in Clients :
        Answered(c) /\ session[c].ctx.kind \in {"get_by_id", "search"}
                    /\ ~Bypassed(session[c].tenant) =>
            \A i \in DOMAIN session[c].reply.results :
                \A h \in session[c].reply.results[i] : Logical(c, h)

\* "construct the id from the source unless the action line carried an explicit
\* id" (bulk.rs): a body whose items all have one id or the other is accepted.
HasSomeId(item) == item.id # None \/ item.source.id # None

ExplicitIdsSuffice ==
    \A c \in Clients :
        session[c].pc = "answered" /\ CtxOf(session[c].req).kind = "ingest_bulk" =>
            ~( /\ session[c].reply.refused
               /\ \A i \in DOMAIN session[c].req.body : HasSomeId(session[c].req.body[i])
               /\ Resolve(cfg, CtxOf(session[c].req)).ok )

\* "the explain can never disagree with the real route" (docs/11-roadmap.md),
\* the body aside, which a dry run does not have.
ExplainNeverDisagrees ==
    \A c \in Clients :
        LET verdict == Handle(cfg, session[c].req)
            dry     == Explain(cfg, session[c].req)
        IN  session[c].pc # "idle" /\ verdict # RewriteFailed =>
              (dry.to = "local") = (verdict.to = "local")

-----------------------------------------------------------------------------
(* What it takes for the last two; FaithfulRequests is what the first takes. *)

\* The tenant is not in the path, the index is not a passthrough index, and the
\* certificate policy has nothing against the request.
DryRunSees(c, req) ==
    /\ ~SplitsTenant(c, req)
    /\ ~Bypasses(c, CtxOf(req))
    /\ c.requireMtls /\ IsWrite(CtxOf(req).kind) => req.presented

DryRunsSeeAll == \A c \in Configs : \A req \in Requests[c] : DryRunSees(c, req)

\* A document the transform has nothing against.
Transforms(c, doc) ==
    /\ doc # Malformed
    /\ c.isolation = "shared_index" => doc.id # None /\ doc.tenant = None

\* A bulk request that nothing but its documents could have against it.
BulkReady(c, req) ==
    LET r == Resolve(c, CtxOf(req))
    IN  CtxOf(req).kind = "ingest_bulk" =>
          /\ req.method \in Methods /\ ~SplitsTenant(c, req)
          /\ c.requireMtls => req.presented
          /\ r.ok => AdmitWrite(c, r.partition)
          /\ req.body # Malformed
          /\ \A i \in DOMAIN req.body :
                req.body[i].source # None => Transforms(c, req.body[i].source)

BulksReady == \A c \in Configs : \A req \in Requests[c] : BulkReady(c, req)
=============================================================================
