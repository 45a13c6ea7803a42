\* Runs of the migration, one of which may fail or be stopped anywhere, against
\* what the README beside the script says of those that come after it.
SPECIFICATION Spec
CONSTANTS
    Batches <- Migrations
    MaxFaults = 1
    Provider = {"new", "old"}
    Account = {1, 2, 3, 4}
    Customer = {"alice", "bob", "b+b"}
    Standing <- StandingAccounts
    None = None
    Trial = Trial
    Escaped = {"b+b"}
    PageSize = 2
    NewPlan <- NewPlans
PROPERTY ReleasedFirst
CHECK_DEADLOCK FALSE
