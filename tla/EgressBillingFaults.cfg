\* Duplicate messages, invocations that die at any step, calls that fail with or
\* without effect, answers that are lost, beside the
\* scripts that bring the totals up to what was saved before.
SPECIFICATION BothFairSpec
CONSTANTS
    Day = 1
    Horizon = 3
    MonthStarts <- SecondMonth
    Events <- WithUnknown
    Worker = {w1, w2}
    Accounts = {"c1"}
    NoAccounts = {"c2"}
    StripeOff = FALSE
    BatchSize = 2
    MaxCopies <- FirstTwice
    MaxReceive = 2
    Retries = 3
    MaxFaults = 2
    Faults = {"crash", "answer", "call"}
    History <- Before
    From = 0
    To = 2
    Concurrency = 2
    MaxSent = 2
    MaxBeside = 1
INVARIANTS NoEventLost MonthlyIsSum ReportsAgree
PROPERTY EventsEnd
CHECK_DEADLOCK FALSE
