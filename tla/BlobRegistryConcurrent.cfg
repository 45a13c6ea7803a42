\* Requests at once, processes that stop, an invocation sent twice.
SPECIFICATION Spec
CONSTANTS
    Space = {"s1", "s2"}
    Blob = {"b1", "b2"}
    Provider = {"p1", "p2"}
    Size <- Sizes
    Consumers <- TwoProviders
    Requests <- Churn
    Limit = 2
    Faults = {"stop", "metrics", "stale"}
    MaxFaults = 2
INVARIANTS DiffsMatchRegistry MetricsMatchRegistry PartedIsAnswered
PROPERTY ImplementsLog
CHECK_DEADLOCK FALSE
