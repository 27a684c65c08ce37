----------------------------- MODULE Placements -----------------------------
(***************************************************************************)
(* Placements that change while requests run.  The router behind the       *)
(* Router trait is a user's own; what the code expects of one that moves   *)
(* tenants is what crates/evoxy-route/src/lib.rs says of its two           *)
(* questions: resolve answers with the placement as it is and its epoch,   *)
(* admit_write refuses a write whose placement is "now in the cutover      *)
(* window (or superseded)".  The router of the repository (module Tenancy) *)
(* answers from a configuration that never changes, and so meets this.     *)
(***************************************************************************)
EXTENDS Brain
CONSTANTS
    Configs,      \* the configurations a run starts from
    Movable,      \* the tenants that may be moved
    Moves         \* bound: how often one tenant is moved

ASSUME MovesAssumption ==
    Moves \in Nat /\ Movable \subseteq Partitions /\ Configs \subseteq Config

VARIABLES
    cfg,          \* the placements of this moment, and the fixed settings
    epoch         \* epoch[p]: how often tenant p has been moved

placing == <<cfg, epoch>>

PlacingInit ==
    /\ cfg \in Configs
    /\ epoch = [p \in Partitions |-> 0]

\* A migration: writes go on, writes are held, the tenant lives elsewhere.
Drain(p) ==
    /\ cfg.phase = "settled" /\ epoch[p] < Moves
    /\ cfg' = [cfg EXCEPT !.migrating = p, !.phase = "draining"]
    /\ UNCHANGED epoch

CutOver ==
    /\ cfg.phase = "draining"
    /\ cfg' = [cfg EXCEPT !.phase = "cutover"]
    /\ UNCHANGED epoch

Ended(changed) ==
    cfg' = [cfg EXCEPT !.migrating = None, !.phase = "settled", !.clusterBy = changed]

Flip(cluster) ==
    LET p == cfg.migrating
    IN  /\ cfg.phase = "cutover"
        /\ cluster # ClusterFor(cfg, p)
        /\ Ended([q \in DOMAIN cfg.clusterBy \cup {p} |->
                     IF q = p THEN cluster ELSE cfg.clusterBy[q]])
        /\ epoch' = [epoch EXCEPT ![p] = @ + 1]

Abort ==
    /\ cfg.phase # "settled"
    /\ Ended(cfg.clusterBy)
    /\ UNCHANGED epoch

Move ==
    \/ \E p \in Movable : Drain(p)
    \/ CutOver
    \/ \E cluster \in Clusters : Flip(cluster)
    \/ Abort

-----------------------------------------------------------------------------
(* The router's two questions, each answered from one moment.               *)

LookUpAt(c, epochs, ctx) ==
    LET r == Resolve(c, ctx)
    IN  [r |-> r, epoch |-> IF r.ok THEN epochs[r.partition] ELSE 0]

LookAt(c, epochs, req) == LookUpAt(c, epochs, CtxOf(RewriteForPath(c, req)))

AdmitsAt(c, epochs, looked) ==
    looked.r.ok => /\ AdmitWrite(c, looked.r.partition)
                   /\ epochs[looked.r.partition] = looked.epoch

\* The same, asked now.
LookUp(ctx)    == LookUpAt(cfg, epoch, ctx)
Look(req)      == LookAt(cfg, epoch, req)
Admits(looked) == AdmitsAt(cfg, epoch, looked)

-----------------------------------------------------------------------------
(***************************************************************************)
(* What a backend is handed, besides the raw request: whether a body       *)
(* follows the headers, whether the request asks for async write mode,     *)
(* whether its body is over the cap, whether trailers follow, and what it  *)
(* brings for the directive plane (module Observe).                        *)
(***************************************************************************)
IsRecord(x, fields) == DOMAIN x = fields /\ x = [f \in fields |-> x[f]]

RequestFields == {"raw", "bodied", "async", "big", "trailers", "token", "orders"}

IsRequest(x) ==
    /\ IsRecord(x, RequestFields)
    /\ IsRecord(x.raw, {"method", "path", "header", "presented", "principal", "body"})
    /\ x.orders \in Seq(BOOLEAN)

\* The request belongs to a tenant there is, or to none.
NamesTenant(req) ==
    \A c \in Configs :
        ResolvePartition(c, CtxOf(RewriteForPath(c, req))) \in Partitions \cup {None}

Headers(x) == [x EXCEPT !.raw.body = None]

\* What is decided before the router is asked; the sink and the verb of an
\* async write are looked at before anything else, the endpoint last.
Early(c, wired, async, req) ==
    IF async /\ ~IsWriteRequest(req) THEN Immediate(400, "async_write_read_unsupported")
    ELSE IF async /\ ~wired THEN Immediate(503, "async_write_unavailable")
    ELSE IF Front(c, req) # Pass THEN Front(c, req)
    ELSE IF CtxOf(RewriteForPath(c, req)).kind \notin SupportedKinds
    THEN Immediate(501, "endpoint_not_supported_yet")
    ELSE Pass

Accepted202 == Immediate(202, "accepted")
Unavailable == Immediate(503, "fanout_unavailable")

\* A write's forward is for where its tenant lives at this moment, and it lives
\* there undisturbed.
MeetsPlacement(looked, verdict) ==
    LET p == looked.r.partition
    IN  verdict.cluster = ClusterFor(cfg, p) /\ PhaseOf(cfg, p) # "cutover"
=============================================================================
