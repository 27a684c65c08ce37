---------------------------- MODULE MCAsyncWrite ----------------------------
(* Instances of AsyncWrite: two tenants, two documents, two queues.         *)
EXTENDS AsyncWriteClaims, TLC
CONSTANTS
    d1, d2,     \* document ids
    a, b        \* clients

MCTemplate(p, i) == <<p, i>>
MCPartitions == {"acme", "globex", "anonymous"}
MCClusters   == {"c1", "c2", "c3"}
MCIndices    == {"orders", "shared", "o_acme", "o_globex", "o_anon", "catalog"}

\* A hash of the key: one document's records in one queue, the rest in another.
MCQueueOf(key) ==
    IF key.verb = "_doc" /\ key.id \in {d1, <<"acme", d1>>} /\ key.spelling = None THEN "q1"
    ELSE "q2"

\* One client sends twice, the other once.
MCSends == a :> 2 @@ b :> 1

BaseConfig ==
    [isolation |-> "dedicated_cluster", source |-> "header", default |-> None,
     cluster |-> "c1", clusterBy |-> "acme" :> "c2" @@ "globex" :> "c3",
     indexOf |-> "acme" :> "o_acme" @@ "globex" :> "o_globex" @@ "anonymous" :> "o_anon",
     shared |-> "shared", routing |-> FALSE, migrating |-> "globex", phase |-> "cutover",
     passthrough |-> {"catalog"}, requireMtls |-> FALSE]

\* A shared index; one index per tenant, with globex held.
SharedConfig == [BaseConfig EXCEPT !.isolation = "shared_index", !.clusterBy = <<>>,
                                   !.phase = "draining"]
IndexConfig  == [BaseConfig EXCEPT !.isolation = "dedicated_index", !.clusterBy = <<>>]
LogConfigs     == {SharedConfig, IndexConfig}
SharedConfigs  == {SharedConfig}
ClusterConfigs == {[BaseConfig EXCEPT !.phase = "settled"]}

-----------------------------------------------------------------------------
DocOf(i, v) == [id |-> i, tenant |-> None, val |-> v]
Raw(method, path, tenant, body) ==
    [method |-> method, path |-> path, header |-> tenant, presented |-> FALSE,
     principal |-> None, body |-> body, query |-> None]

Put(tenant, v) == Raw("PUT", <<"orders", "_doc", d1>>, tenant, DocOf(d1, v))
Delete(tenant) == Raw("DELETE", <<"orders", "_doc", d1>>, tenant, None)
Bulk(tenant)   == Raw("POST", <<"_bulk">>, tenant,
                      <<[verb |-> "index", index |-> None, id |-> d1,
                         source |-> DocOf(d1, 2)]>>)

\* Past the tenancy: two ways to write one document.
Global == Raw("PUT", <<"catalog", "_doc", d1>>, None, DocOf(d1, 1))
Create == [Global EXCEPT !.path = <<"catalog", "_create", d1>>, !.query = "refresh"]

Read           == Raw("GET", <<"orders", "_doc", d1>>, "acme", None)

\* Writes of both tenants to one document; where tenants share an index a bulk, where
\* one of them is held a read and writes past the tenancy.
LogRequests ==
    [c \in Configs |->
        {Put("acme", 1), Put("globex", 1)}
        \cup IF c = SharedConfig THEN {Delete("acme"), Bulk("acme")}
             ELSE {Read, Global, Create}]
BulkRequests   == [c \in Configs |-> {Put("acme", 1), Bulk("acme")}]
PutRequests    == [c \in Configs |-> {Put("acme", 1), Put("globex", 1)}]
GlobalRequests == [c \in Configs |-> {Global}]

\* There are requests for which the documentation's claims hold.
ASSUME ClaimsFitSome ==
    \A c \in Configs : \A t, u \in {"acme", "globex"} :
        \A req \in {Put(t, 1), Delete(t)} : \A other \in {Put(u, 1), Delete(u), Create} :
            Governed(c, req) /\ OneForm(c, req, other)
=============================================================================
