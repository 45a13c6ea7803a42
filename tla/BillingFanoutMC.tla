--------------------------- MODULE BillingFanoutMC ---------------------------
(* An instance of the billing fan-out for TLC. *)
EXTENDS BillingFanout, TLC

\* The second of two customers has both spaces, listed in pages of one.
BothOfSecond == 1 :> 2 @@ 2 :> 2
=============================================================================
