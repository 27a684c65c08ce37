-------------------------- MODULE AsyncWriteClaims --------------------------
(* What the documentation says of async writes and of the bridge.           *)
EXTENDS AsyncWriteRefinement

\* "A `202` promises the write will happen" (asyncwrite.rs:9): the record of an
\* accepted write that had anything in its body carries it.
AcceptedCarriesTheWrite ==
    \A e \in Logged :
        e.n \in accepted[e.client] /\ e.req.body \notin {None, <<>>}
            => e.record.payload # <<>>

\* "The record is the physical write, so the consumer needs no tenancy logic
\* either" (docs/guide/09-capture-and-fanout.md:66): what one tenant's record
\* does to a replica never touches another tenant's document.
ConsumerNeedsNoTenancy == RecordsKeepTenantsApart

\* "Records for the same document land on the same partition - preserving
\* per-document order" (evoxy-bridge/src/lib.rs:24), however the document is written.
PerDocumentOrder ==
    [][\A q \in Queues : applied'[q] # applied[q] =>
          LET entry == log[q][applied'[q]]
          IN  \A x \in replica :
                 x.place \in Places(entry.record) => ~Undone(x, entry)]_vars

-----------------------------------------------------------------------------
(* What it takes for the first and the last of them.                         *)

Governed(c, req) == IsWriteRequest(req) => ~Bypasses(c, CtxOf(RewriteForPath(c, req)))

\* Nobody writes to an index the tenancy is told to leave alone.
NoWriteBypasses == \A c \in Configs : \A req \in Requests[c] : Governed(c, req)

\* Writes that have a place in common are of one form: a document is never written both
\* by a bulk and on its own, and past the tenancy always under the same path and query.
OneForm(c, req, other) ==
    LetsGo(c, TRUE, req) /\ LetsGo(c, TRUE, other)
        /\ Touches(c, req) \cap Touches(c, other) # {}
            => Form(c, req) = Form(c, other)

FormsAgree == \A c \in Configs : \A req, other \in Requests[c] : OneForm(c, req, other)
=============================================================================
