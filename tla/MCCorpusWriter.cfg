CONSTANTS
    b1 = b1
    b2 = b2
    b3 = b3
    today = today
    tomorrow = tomorrow
    Batches <- MCBatches
    HasRaw <- MCHasRaw
    Partitions <- MCPartitions
    PartitionOf <- MCPartitionOf
    QueueCapacity = 1
    GroupSize = 2
    DirSync = "ancestors"
SPECIFICATION Spec
INVARIANTS TypeOK AckDurable PublicationOrder
PROPERTIES AckLogSpec LockExcludesWrites EveryRequestAnswered
