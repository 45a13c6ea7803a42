\* Runs and handlers that fail half way and go on, pages read while spaces are
\* provisioned.
SPECIFICATION FairFanoutSpec
CONSTANTS
    Customer = {1, 2}
    Billable = {2}
    Space = {1, 2}
    Owner <- BothOfSecond
    PageSize = 1
    Invocation = {w1, w2}
    MaxRuns = 1
    MaxReceives = 2
    MaxFailures = 2
INVARIANT NoSpaceForgotten
PROPERTY SpacesReached
CHECK_DEADLOCK FALSE
