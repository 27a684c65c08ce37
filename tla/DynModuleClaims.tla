-------------------------- MODULE DynModuleClaims --------------------------
(* What the documentation says and the dynamic module does not do.          *)
EXTENDS DynModule

\* "Migration between placements is epoch-gated, so a tenant can move clusters or
\* indices without a stop-the-world cutover" (docs/guide/README.md:42): when the
\* gate lets a write go, it goes to where its tenant lives.
EpochGated ==
    [][\A s \in Streams :
          LET was == stream[s]
              t   == stream'[s]
          IN  /\ was.pc = "gating" /\ t.pc # "gating" /\ t.verdict.to = "upstream"
              /\ IsWriteRequest(RewriteForPath(cfg, Req(was)))
              => MeetsPlacement(was.looked, Routed(was, t.verdict))]_vars

\* What it takes: tenants drain and are held, but no move is ever completed.
NobodyMoves == [][UNCHANGED epoch]_vars

\* "`rejected` is fail-closed replies (unresolved partition, ...)", and /_evoxy/metrics
\* behaves identically in both backends (docs/guide/07-observability.md:18-20, 31-32;
\* observe.rs:58-59): every client that was refused has been counted.
RejectionsCounted == Cardinality(Refused) <= metrics.rejected

\* What it takes: no request has a body, but for the async writes.
NoBodies == \A s \in Streams : \A x \in Requests[s] : x.bodied => x.async
=============================================================================
