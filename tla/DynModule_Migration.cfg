SPECIFICATION Spec
CONSTANTS
    s1 = s1
    s2 = s2
    w1 = w1
    w2 = w2
    None = None
    Malformed = Malformed
    Anonymous = "anonymous"
    AdminToken = "secret"
    EmitAtStart = TRUE
    Ids = {"d1"}
    Partitions <- MCPartitions
    Clusters <- MCClusters
    Indices <- MCIndices
    Template <- MCTemplate
    Configs <- MCConfigs
    Movable <- MCMovable
    Moves = 1
    Streams = {s1, s2}
    Workers = {w1, w2}
    WorkersOf <- MCWorkersOf
    Requests <- LoneRequests
PROPERTY
    EpochGated
CHECK_DEADLOCK FALSE
