--------------------------- MODULE EgressBillingMC ---------------------------
(* An instance of egress billing for TLC. *)
EXTENDS EgressBillingProperties

Download(space, customer, at, bytes, cause) ==
    [space |-> space, customer |-> customer, at |-> at, bytes |-> bytes, cause |-> cause]

\* Downloads either side of a month boundary.
TwoMonths == {Download("s1", "c1", 1, 1, "x"), Download("s1", "c2", 2, 2, "y")}

\* One of a customer who is not in the customer table.
WithUnknown == TwoMonths \union {Download("s1", "c3", 1, 16, "z")}

\* Downloads of the first month that were saved before there were totals.
Before == {Download("s1", "c1", 0, 4, "v"), Download("s1", "c2", 1, 8, "w")}

SecondMonth == {0, 2}

\* The event of the customer that Stripe bills may come twice.
FirstTwice == [e \in WithUnknown |-> IF e.customer = "c1" THEN 2 ELSE 1]
=============================================================================
