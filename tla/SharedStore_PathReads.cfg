SPECIFICATION Spec
CONSTANTS
    d1 = d1
    d2 = d2
    None = None
    Malformed = Malformed
    Anonymous = "anonymous"
    Ids = {d1, d2}
    Partitions <- MCPartitions
    Clusters <- MCClusters
    Indices <- MCIndices
    Template <- MCTemplate
    Clients = {c1, c2}
    Configs <- PathSharedConfigs
    Stores <- MCStores
    Requests <- MCRequests
INVARIANT
    ReadsAreLogical
