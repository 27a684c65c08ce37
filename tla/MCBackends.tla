----------------------------- MODULE MCBackends -----------------------------
(* What the instances of ExtProc and DynModule share: two tenants with a     *)
(* cluster each, one of them movable, and a request of every sort.           *)
EXTENDS Observe, TLC

MCTemplate(p, i) == <<p, i>>
MCPartitions == {"acme", "anonymous"}
MCClusters   == {"c1", "c2"}
MCIndices    == {"orders", "shared", "catalog"}
MCMovable    == {"acme"}

HeaderKeyed ==
    [isolation |-> "dedicated_cluster", source |-> "header", default |-> None,
     cluster |-> "c1", clusterBy |-> "acme" :> "c2",
     indexOf |-> [p \in MCPartitions |-> "orders"],
     shared |-> "shared", routing |-> FALSE, migrating |-> None, phase |-> "settled",
     passthrough |-> {"catalog"}, requireMtls |-> FALSE]
SharedKeyed == [HeaderKeyed EXCEPT !.isolation = "shared_index"]

-----------------------------------------------------------------------------
DocOf(i) == [id |-> i, tenant |-> None, val |-> 1]
Raw(method, path, tenant, body) ==
    [method |-> method, path |-> path, header |-> tenant, presented |-> tenant # None,
     principal |-> tenant, body |-> body]
Request(raw) ==
    [raw |-> raw, bodied |-> raw.body # None, async |-> FALSE, big |-> FALSE,
     trailers |-> FALSE, token |-> None, orders |-> <<>>]

PutDoc == Request(Raw("PUT",    <<"orders", "_doc", "d1">>, "acme", DocOf("d1")))
Delete == Request(Raw("DELETE", <<"orders", "_doc", "d1">>, "acme", None))
Search == Request(Raw("GET",    <<"orders", "_search">>,    "acme", None))
Lost   == Request(Raw("PUT",    <<"orders", "_doc", "d1">>, None,   DocOf("d1")))
Nobody == Request(Raw("GET",    <<"orders", "_search">>,    None,   None))
Global == Request(Raw("PUT",    <<"catalog", "_doc", "d1">>, None,  DocOf("d1")))
Alien  == Request(Raw("GET",    <<"_cat", "indices">>,      "acme", None))
Probe  == Request(Raw("GET",    <<"_evoxy", "metrics">>,    None,   None))

Dry    == Request(Raw("PUT",    <<"_evoxy", "explain", "orders", "_doc", "d1">>, "acme", None))

\* An operator sets the decision header, with the right token.
Orders(orders) ==
    [Request(Raw("POST", AdminPath, None, None)) EXCEPT !.token = AdminToken, !.orders = orders]
Guessing(x) == [x EXCEPT !.token = "guess"]

Queued(x) == [x EXCEPT !.async = TRUE]
=============================================================================
