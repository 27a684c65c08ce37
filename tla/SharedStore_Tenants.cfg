SPECIFICATION Spec
SYMMETRY ClientSymmetry
CONSTANTS
    d1 = d1
    d2 = d2
    None = None
    Malformed = Malformed
    Anonymous = "anonymous"
    Ids = {d1, d2}
    Partitions <- MCPartitions
    Clusters <- MCClusters
    Indices <- MCIndices
    Template <- MCTemplate
    Clients = {c1, c2}
    Configs <- TenantConfigs
    Stores <- MCStores
    Requests <- MCRequests
INVARIANTS
    TypeOK
    TenantIsolation
    ExplainMatches
    ReadsAreLogical
PROPERTIES
    WritesStayHome
    FrozenInCutover
    ImplementsTenantStore
