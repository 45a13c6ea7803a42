--------------------------- MODULE BillingPeriods ---------------------------
(***************************************************************************)
(* The calendar of the billing code (billing/lib/util.js): UTC instants    *)
(* are natural numbers of ticks, a day is Day ticks long and instant 0 is  *)
(* midnight at the start of a month.                                       *)
(***************************************************************************)
EXTENDS Integers

CONSTANTS
    Day,          \* ticks in 24 hours (ONE_DAY_MS)
    MonthStarts,  \* the instants that are 00:00 UTC on the first of a month
    Horizon       \* last instant considered: bounds the clock

ASSUME PeriodsAssumption ==
    /\ Day \in Nat \ {0}
    /\ Horizon \in Nat
    /\ MonthStarts \subseteq Nat
    /\ 0 \in MonthStarts
    /\ \A m \in MonthStarts : m % Day = 0
    \* every instant has a latest month start at or before it
    /\ \A t \in 0..Horizon :
         \E m \in MonthStarts : m <= t /\ \A n \in MonthStarts : n <= t => n <= m

Time == 0..Horizon

StartOfToday(now) == now - (now % Day)

StartOfYesterday(now) == StartOfToday(now) - Day

StartOfMonth(t) ==
    CHOOSE m \in MonthStarts : m <= t /\ \A n \in MonthStarts : n <= t => n <= m

IsMonthStart(t) == t \in MonthStarts

SameMonth(t, u) == StartOfMonth(t) = StartOfMonth(u)
=============================================================================
