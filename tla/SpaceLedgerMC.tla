---------------------------- MODULE SpaceLedgerMC ----------------------------
(* Instances of the space ledger for TLC. *)
EXTENDS SpaceLedgerProperties, TLC

\* Two-day months: the third day's billing starts a new one.
TwoDayMonths == {0, 2 * Day}

\* One month that is not over at the horizon.
OneMonth == {0}

NoPeriods == {}

\* The first day, by hand.
FirstDay == {<<0, Day>>}

\* Invocations of a handler are interchangeable.
Symmetric == Permutations(Worker)
=============================================================================
