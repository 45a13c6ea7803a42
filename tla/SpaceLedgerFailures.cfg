\* Handlers that run when they can, and what ends in the dead letter queues.
SPECIFICATION FairSpec
CONSTANTS
    Space = {s1}
    Worker = {w1}
    Day = 2
    Horizon = 5
    MonthStarts <- OneMonth
    CronDelay = 1
    MaxLag = 1
    BlobSizes = {3}
    MaxDiffs = 1
    MaxCopies = 1
    MaxReceive = 1
    MaxRetry = 0
    MaxFaults = 2
    Faults = {"space_handler", "diff_list", "usage_handler", "inactive"}
    ManualPeriods <- NoPeriods
    Prompt = TRUE
INVARIANTS NoInstructionLost ReportHasBase
PROPERTY LedgerSettles
CHECK_DEADLOCK FALSE
