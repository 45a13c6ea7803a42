\* Requests and answers written at once, stopped anywhere, and both consumers.
SPECIFICATION FairSpec
CONSTANTS
    Task = {1, 2, 3, 4}
    Ability <- Abilities
    Oversize <- ReceiptOf3
    Batches <- AllBatches
    Provider = {"p1", "p2"}
    BatchSize = 2
    Limit = 2
    MaxFaults = 1
INVARIANTS AnsweredIsReadable AnsweredIsOnStream AggregatesCounted ReceiptsBilledOnce
PROPERTIES StreamConsumed
CHECK_DEADLOCK FALSE
