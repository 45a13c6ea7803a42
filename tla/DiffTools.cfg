\* A blob added, removed and added again, two days, two runs of tools and a failure.
SPECIFICATION ToolsSpec
CONSTANTS
    Blob = {1}
    Size <- Sizes
    DayLength = 2
    EndOfTime = 2
    MaxChanges = 3
    MaxAgain = 1
    Runs = {c1, c2}
    Mode = {"current", "previous-month"}
    QueryPage = 2
    MaxWrites = 2
    MaxUses = 2
    MaxToolFaults = 1
SYMMETRY RunsAlike
INVARIANTS SizeAccounted DuplicatesGone
CHECK_DEADLOCK FALSE
