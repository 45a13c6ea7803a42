\* Uploads that cross the threshold, requests at once and stopped, pages.
SPECIFICATION ContentSpec
CONSTANTS
    Space = {"s1"}
    Root = {1, 2}
    Shard = {1, 2, 3}
    Threshold = 3
    Batches <- AllBatches
    Limit = 2
    MaxTime = 1
    Listings <- Pages
    MaxPage = 2
    DefaultPage = 2
    Faults = {"stop", "metrics"}
    MaxFaults = 1
    Location = {"l1", "l2"}
    Block = {1, 2, 3, 4}
    Publications <- AllPublications
    MaxDigests = 3
    MaxEntries = 2
    QueueBatch = 2
    TableBatch = 2
    MaxIndexFaults = 2
INVARIANTS ShardsKept UploadsCounted ListingsComplete PublishedIsIndexed
CHECK_DEADLOCK FALSE
