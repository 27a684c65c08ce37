--------------------------- MODULE MCSharedStore ---------------------------
(* Instances of SharedStore: two tenants, two document ids, three clusters. *)
EXTENDS SharedStoreClaims, TLC
CONSTANTS d1, d2      \* document ids

\* A template value is opaque: all that counts is that it is injective.
MCTemplate(p, i) == <<p, i>>
MCPartitions == {"acme", "globex", "anonymous"}
MCClusters   == {"c1", "c2", "c3"}
MCIndices    == {"orders", "shared", "o_acme", "o_globex", "o_anon", "catalog"}

BaseConfig ==
    [isolation |-> "dedicated_cluster", source |-> "header", default |-> None,
     cluster |-> "c1", clusterBy |-> "acme" :> "c2" @@ "globex" :> "c3",
     indexOf |-> "acme" :> "o_acme" @@ "globex" :> "o_globex" @@ "anonymous" :> "o_anon",
     shared |-> "shared", routing |-> FALSE, migrating |-> None, phase |-> "settled",
     passthrough |-> {"catalog"}, requireMtls |-> FALSE]

Shared == [BaseConfig EXCEPT !.isolation = "shared_index", !.clusterBy = <<>>]
Gated  == [Shared EXCEPT !.source = "principal", !.requireMtls = TRUE]

Draining == [Gated EXCEPT !.migrating = "globex", !.phase = "draining"]
Cutover  == [Gated EXCEPT !.migrating = "acme",   !.phase = "cutover"]

\* Tenants of one index, routing off and on; a keyed-by-certificate filter with the
\* mutation policy and a tenant being moved; tenants kept apart by index
\* (header-keyed) and by cluster (path-keyed).
SharedConfigs == {[Shared EXCEPT !.routing = r] : r \in BOOLEAN}
TenantConfigs ==
    SharedConfigs \cup {Draining, Cutover}
        \cup {[BaseConfig EXCEPT !.isolation = "dedicated_index", !.clusterBy = <<>>],
               [BaseConfig EXCEPT !.source = "path"]}

ClientSymmetry == Permutations(Clients)

-----------------------------------------------------------------------------
DocOf(i) == [id |-> i, tenant |-> None, val |-> 1]
Raw(method, path, tenant, body) ==
    [method |-> method, path |-> path, header |-> tenant, presented |-> tenant # None,
     principal |-> tenant, body |-> body]

BulkItem(verb, id, source) ==
    [verb |-> verb, index |-> None, id |-> id, source |-> source]
Bulk == <<BulkItem("create", d1, DocOf(d1)), BulkItem("index", None, DocOf(d2)),
          BulkItem("delete", d1, None)>>

\* Everything one tenant asks for; the other one writes, reads and deletes.
AcmeRequests ==
    {Raw("PUT",    <<"orders", "_doc", d1>>,  "acme", DocOf(d1)),
     Raw("POST",   <<"orders", "_doc">>,      "acme", DocOf(d2)),
     Raw("POST",   <<"orders", "_doc">>,      "acme", DocOf(None)),
     Raw("GET",    <<"orders", "_doc", d1>>,  "acme", None),
     Raw("DELETE", <<"orders", "_doc", d1>>,  "acme", None),
     Raw("POST",   <<"orders", "_search">>,   "acme", None),
     Raw("POST",   <<"orders", "_count">>,    "acme", None),
     Raw("POST",   <<"", "_bulk">>,           "acme", Bulk),
     Raw("POST",   <<"orders", "_mget">>,     "acme", <<d2, d1>>),
     Raw("POST",   <<"_msearch">>,            "acme", <<None, None>>)}
OtherRequests ==
    {Raw("PUT",    <<"orders", "_doc", d1>>,  "globex", DocOf(d1)),
     Raw("DELETE", <<"orders", "_doc", d1>>,  "globex", None),
     Raw("GET",    <<"orders", "_search">>,   "globex", Malformed),
     Raw("PUT",    <<"catalog", "_doc", d1>>, None,     DocOf(d1)),
     Raw("GET",    <<"catalog", "_search">>,  "acme",   None),
     Raw("PATCH",  <<"orders", "_doc", d1>>,  "acme",   DocOf(d1)),
     Raw("PUT",    <<"orders", "_doc", d1>>,  "acme",   Malformed),
     Raw("GET",    <<"_cat", "indices">>,     "acme",   None)}
HeaderRequests == AcmeRequests \cup OtherRequests

\* A placement without an id rule lets the cluster generate ids; fewer creations
\* keep the instance small.
Creates(r) == r.method = "POST" /\ r.path = <<"orders", "_doc">>
Shorter(r) == IF r.path = <<"", "_bulk">> THEN [r EXCEPT !.body = SubSeq(Bulk, 2, 3)] ELSE r
DedicatedRequests == {Shorter(r) : r \in {x \in HeaderRequests : ~Creates(x)}}

\* Path-keyed requests: the tenant leads, no header is sent.
PathRequests ==
    {[r EXCEPT !.header = None, !.path = <<r.principal>> \o @] :
        r \in {x \in DedicatedRequests : x.principal # None}}

RequestsFor(c) ==
    IF c.source = "path" THEN PathRequests
    ELSE IF c.isolation = "shared_index" THEN HeaderRequests
    ELSE DedicatedRequests

MCRequests == [c \in Configs |-> RequestsFor(c)]

\* What a tenant left in the shared index before.
Left(tenant, i) ==
    [cluster |-> "c1", index |-> "shared", id |-> MCTemplate(tenant, i), routing |-> None,
     doc |-> [DocOf(i) EXCEPT !.tenant = tenant], author |-> tenant]

\* The tenant in cutover has documents, and so has the other; everybody else
\* starts with nothing.
MCStores ==
    [c \in Configs |->
        {IF c.phase = "cutover" THEN {Left("acme", d1), Left("acme", d2), Left("globex", d1)}
         ELSE {}}]

\* The refinement is checked on instances that meet what its theorem assumes.
ASSUME InstancesAreFaithful ==
    /\ TemplatesApart /\ FaithfulStores
    /\ \A c \in TenantConfigs : \A req \in RequestsFor(c) : Faithful(c, req)

\* There are requests that meet what the documentation's claims take.
ASSUME ClaimsFitSome ==
    \A req \in AcmeRequests : DryRunSees(Shared, req) /\ BulkReady(Shared, req)

-----------------------------------------------------------------------------
(* Instances for the documentation's claims.                                *)

PathSharedConfigs == {[Shared EXCEPT !.source = "path"]}
GatedConfigs      == {Draining}
BaseConfigs       == {BaseConfig}

\* Bulk bodies in which every item has an id, or names its index.
ClaimRequests ==
    [c \in Configs |->
        {Raw("POST", <<"_bulk">>, "acme",
             <<[BulkItem("index", d1, DocOf(i)) EXCEPT !.index = "orders"]>>) :
            i \in {d1, None}}]
=============================================================================
