SPECIFICATION Spec
CONSTANTS
    d1 = d1
    d2 = d2
    a = a
    b = b
    None = None
    Malformed = Malformed
    Anonymous = "anonymous"
    Ids = {d1, d2}
    Partitions <- MCPartitions
    Clusters <- MCClusters
    Indices <- MCIndices
    Template <- MCTemplate
    Clients = {a, b}
    Configs <- SharedConfigs
    Requests <- GlobalRequests
    Queues = {"q1", "q2"}
    QueueOf <- MCQueueOf
    Sends <- MCSends
CHECK_DEADLOCK FALSE
INVARIANTS
    AcceptedCarriesTheWrite
