\* Two handlers at once over three days of a month, duplicated instructions, a
\* dead letter.
SPECIFICATION Spec
CONSTANTS
    Space = {s1}
    Worker = {w1, w2}
    Day = 2
    Horizon = 7
    MonthStarts <- OneMonth
    CronDelay = 1
    MaxLag = 1
    BlobSizes = {3}
    MaxDiffs = 1
    MaxCopies = 2
    MaxReceive = 1
    MaxRetry = 0
    MaxFaults = 1
    Faults = {"space_handler", "usage_handler"}
    ManualPeriods <- FirstDay
    Prompt = TRUE
INVARIANTS TypeOK SnapshotExact UsageOfBilledDays ReportedOnce
SYMMETRY Symmetric
CHECK_DEADLOCK FALSE
