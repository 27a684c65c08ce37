------------------------------ MODULE Tenancy ------------------------------
(***************************************************************************)
(* The reference tenancy of crates/evoxy-filter/src/reference.rs and the   *)
(* way the external osproxy router turns its answers into a routing        *)
(* decision.  Everything is an operator over a configuration record, so    *)
(* that a state machine can pick any configuration in its initial state.   *)
(*                                                                         *)
(* A name (partition, cluster, index, id) is an opaque value.  `cluster`   *)
(* stands for the pair the code carries side by side: the cluster name and *)
(* the endpoint's authority; both are chosen by the same per-partition     *)
(* override with the same default.                                         *)
(***************************************************************************)
CONSTANTS
    Partitions,       \* partition (tenant) ids
    Clusters,         \* upstream clusters
    Indices,          \* index names, logical and physical
    Ids,              \* document ids as a client names them
    None,             \* an absent Option
    Anonymous,        \* the principal of a request without a certificate
    Template(_, _)    \* Template(p, i): the id template expanded for p and i

(***************************************************************************)
(* The one fact about id templates everything rests on: the physical id    *)
(* determines the partition and the logical id.  The default template      *)
(* "{partition}:{body.id}" has it when no partition contains the           *)
(* separator.                                                              *)
(***************************************************************************)
ASSUME TemplateInjective ==
    \A p, q \in Partitions, i, j \in Ids :
        Template(p, i) = Template(q, j) => p = q /\ i = j

ASSUME NamesDiffer ==
    /\ Anonymous \in Partitions
    /\ None \notin Partitions \cup Ids \cup Indices
    /\ "" \notin Indices
    /\ \A p \in Partitions, i \in Ids : Template(p, i) # None

Isolations == {"dedicated_cluster", "dedicated_index", "shared_index"}
Sources    == {"header", "principal", "path"}
Phases     == {"settled", "draining", "cutover"}

(***************************************************************************)
(* FilterConfig as the running filter sees it.  `indexOf` is the index     *)
(* template expanded for every partition; `migrating` is the one partition *)
(* with_migration marks, or None.                                          *)
(***************************************************************************)
Config ==
    [isolation   : Isolations,
     source      : Sources,
     default     : Partitions \cup {None},
     cluster     : Clusters,
     clusterBy   : UNION {[S -> Clusters] : S \in SUBSET Partitions},
     indexOf     : [Partitions -> Indices],
     shared      : Indices,
     routing     : BOOLEAN,
     migrating   : Partitions \cup {None},
     phase       : Phases,
     passthrough : SUBSET Indices,
     requireMtls : BOOLEAN]

PhysIds == Ids \cup {Template(p, i) : p \in Partitions, i \in Ids}

\* A request's partition: the principal or the header, else the default.
ResolvePartition(cfg, ctx) ==
    LET raw == IF cfg.source = "principal" THEN ctx.principal ELSE ctx.header
    IN  IF raw # None THEN raw ELSE cfg.default

ClusterFor(cfg, p) ==
    IF p \in DOMAIN cfg.clusterBy THEN cfg.clusterBy[p] ELSE cfg.cluster

PhaseOf(cfg, p) == IF p = cfg.migrating THEN cfg.phase ELSE "settled"

\* The write gate: only cutover holds a write; the epoch plays no part.
AdmitWrite(cfg, p) == PhaseOf(cfg, p) # "cutover"

\* Mutant: a tenant's own index is not pinned.
IndexForLogical(cfg, p, logical) ==
    IF cfg.isolation = "shared_index" THEN cfg.shared ELSE logical

\* The physical index a placement pins; a dedicated cluster keeps the client's.
IndexFor(cfg, p, logical) ==
    CASE cfg.isolation = "dedicated_cluster" -> logical
      [] cfg.isolation = "dedicated_index"   -> cfg.indexOf[p]
      [] OTHER                               -> cfg.shared

\* injected_fields and doc_id_rule answer for the shared index only.
Injects(cfg)   == cfg.isolation = "shared_index"
HasIdRule(cfg) == cfg.isolation = "shared_index"

Unresolved(code) == [ok |-> FALSE, code |-> code]

(***************************************************************************)
(* Router::resolve: partition, then placement, then the body transform     *)
(* they imply ("inject" and "idRule" together are BodyTransform::Both,     *)
(* neither is BodyTransform::None).                                        *)
(***************************************************************************)
Resolve(cfg, ctx) ==
    LET p == ResolvePartition(cfg, ctx)
    IN  IF p = None THEN Unresolved("partition_unresolved")
        ELSE [ok        |-> TRUE,
              partition |-> p,
              cluster   |-> ClusterFor(cfg, p),
              index     |-> IndexFor(cfg, p, ctx.index),
              inject    |-> Injects(cfg),
              idRule    |-> HasIdRule(cfg),
              routing   |-> cfg.routing,
              phase     |-> PhaseOf(cfg, p)]

\* map_physical_to_logical: the id the template was expanded for, if any.
LogicalId(p, phys) ==
    IF \E i \in Ids : Template(p, i) = phys
    THEN CHOOSE i \in Ids : Template(p, i) = phys
    ELSE None
=============================================================================
