SPECIFICATION Spec
CONSTANTS
    s1 = s1
    s2 = s2
    w1 = w1
    w2 = w2
    None = None
    Malformed = Malformed
    Anonymous = "anonymous"
    AdminToken = "secret"
    EmitAtStart = TRUE
    Ids = {"d1"}
    Partitions <- MCPartitions
    Clusters <- MCClusters
    Indices <- MCIndices
    Template <- MCTemplate
    Configs <- MCConfigs
    Movable <- MCMovable
    Moves = 1
    Streams = {s1, s2}
    Workers = {w1, w2}
    WorkersOf <- MCWorkersOf
    Requests <- MCRequests
INVARIANTS
    TypeOK
    CountersTell
    ScrapesTell
    DirectiveInForce
    NobodyStuck
PROPERTIES
    ImplementsExchange
    SplitOnlyByMove
    StaleWritesHeld
    ExplainsGated
    StreamsProgress
    AnsweredUnlessBlocked
CHECK_DEADLOCK FALSE
