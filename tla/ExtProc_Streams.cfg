SPECIFICATION Spec
CONSTANTS
    s1 = s1
    s2 = s2
    None = None
    Malformed = Malformed
    Anonymous = "anonymous"
    AdminToken = "secret"
    EmitAtStart = TRUE
    Ids = {"d1"}
    Partitions <- MCPartitions
    Clusters <- MCClusters
    Indices <- MCIndices
    Template <- MCTemplate
    Configs <- MCConfigs
    Movable <- MCMovable
    Moves = 1
    Streams = {s1, s2}
    Requests <- MCRequests
INVARIANTS
    TypeOK
    AnswersMatch
    CountersTell
    ScrapesTell
    DirectiveInForce
    TurnsTaken
PROPERTIES
    ImplementsExchange
    StaleWritesHeld
    ExplainsGated
    StreamsProgress
    StreamsEnd
CHECK_DEADLOCK FALSE
