\* Three days over a month boundary, reports retried while later days are billed.
SPECIFICATION Spec
CONSTANTS
    Space = {s1}
    Worker = {w1}
    Day = 2
    Horizon = 7
    MonthStarts <- TwoDayMonths
    CronDelay = 1
    MaxLag = 1
    BlobSizes = {3}
    MaxDiffs = 2
    MaxCopies = 1
    MaxReceive = 2
    MaxRetry = 1
    MaxFaults = 1
    Faults = {"space_handler", "usage_handler"}
    ManualPeriods <- NoPeriods
    Prompt = TRUE
INVARIANT MeterTotalIsAverage
PROPERTIES RetrySendsTheSame ImplementsAccount
CHECK_DEADLOCK FALSE
