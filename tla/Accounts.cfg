\* The parts of the account subsystem, in scenarios of two to five requests at
\* once, one of which may fail anywhere.
SPECIFICATION Spec
CONSTANTS
    Batches <- AllBatches
    MaxFaults = 1
    Provider = {"new", "old"}
    Account = {1, 2, 3, 4}
    Customer = {"alice", "bob", "b+b"}
    Standing <- StandingAccounts
    None = None
    Trial = Trial
    Escaped = {"b+b"}
    PageSize = 2
    NewPlan <- NewPlans
INVARIANTS SpaceHasOneCustomer AccessIsKept MigratedOnce CustomersMatchStripe
CHECK_DEADLOCK FALSE
