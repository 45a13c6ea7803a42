------------------------ MODULE SpaceLedgerRefinement ------------------------
(***************************************************************************)
(* The ledger implements the account: its steps, whatever failures the     *)
(* retries absorb and however handlers interleave, come to days billed and *)
(* reported atomically.                                                    *)
(***************************************************************************)
EXTENDS SpaceLedgerMC

\* A diff counts from its receiptAt, so also while it is not written yet. A
\* record is billed when it is put, reported when Stripe has the event.
Account == INSTANCE StorageAccount
    WITH changes <- pending \union diffs, billed <- usage, reported <- meter

(***************************************************************************)
(* Every behaviour of the handlers is one of the account: a usage record   *)
(* appears once, is never rewritten and holds the month so far; a report   *)
(* is made once and holds the change of the average.                       *)
(***************************************************************************)
ImplementsAccount == Account!Spec

=============================================================================
