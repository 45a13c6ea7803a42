----------------------- MODULE EgressBillingProperties -----------------------
(* The monthly totals of egress against the events saved, and the reports  *)
(* made from them.                                                         *)
EXTENDS EgressBackfill

\* The reports sum over the events of a period and the keys they have.
ASSUME ReportsAssumption == IsFiniteSet(Events)

\* An event of a customer who is not in the customer table is saved and not counted.
Countable == {e \in raw : ~Unknown(e)}

\* Events saved by an invocation that has yet to add them to the total.
InFlight ==
    {e \in Events : \E w \in Worker : /\ worker[w] \in AtRecord
                                      /\ worker[w].event = e /\ ~worker[w].duplicate}

\* How often the sum of a key may have been added: in each run as often as it is tried.
Times(k) ==
    IF k \in unsure THEN 0..((Retries + 1) * (faults + 1))
    ELSE IF k \in added THEN {1}
    ELSE {0}

\* What the events that are done with come to, each counted so many times.
Live(done, counts, k) ==
    LET of == {e \in done : KeyOf(e) = k}
    IN  [bytes |-> SumFunction([e \in of |-> counts[e] * e.bytes]),
         eventCount |-> SumFunction([e \in of |-> counts[e]])]

(***************************************************************************)
(* The monthly totals are the sums of the events saved, less those of      *)
(* customers nobody knows and those an invocation is still at work on, but *)
(* for at most one event of each failure, which is left out or counted as  *)
(* often as its increment was tried: neither a message delivered twice,    *)
(* nor an invocation beside it, nor a retry of either counts an event      *)
(* again or leaves a second one out ("Skip monthly increment to prevent    *)
(* over-counting", egress-traffic-queue.js).                               *)
(* To them the scripts add each sum of what was saved before once, also    *)
(* when they are resumed, but for those that failed, were under way when a *)
(* run stopped or were done in a run whose file another has written over   *)
(* (2-write-aggregates-to-monthly-table.js).                               *)
(***************************************************************************)
MonthlyIsSum ==
    LET done == Countable \ InFlight
    IN  \E counts \in [done -> 0..(Retries + 1)] :
          /\ Cardinality({e \in done : counts[e] # 1}) <= faults
          /\ \A k \in MonthKey : \E times \in Times(k) :
               monthly[k] = Plus(Live(done, counts, k), SumOf(aggregates, k), times)

-----------------------------------------------------------------------------
MonthlyBytes(ks) == SumFunction([k \in ks |-> monthly[k].bytes])

\* Slip: the month of the end of the period is left out.
SumOfMonthsExclusive(space, from, to) ==
    MonthlyBytes({k \in MonthKey : /\ k.space = space
                                   /\ StartOfMonth(from) <= k.month /\ k.month < StartOfMonth(to)})

\* reportEgress as it is deployed: the totals of the months of the period.
SumOfMonths(space, from, to) ==
    MonthlyBytes({k \in MonthKey : /\ k.space = space
                                   /\ StartOfMonth(from) <= k.month /\ k.month <= StartOfMonth(to)})

\* Without the monthly store: the events of the period, its end included.
SumOfEvents(es, space, from, to) ==
    Bytes({e \in es : e.space = space /\ from <= e.at /\ e.at <= to})

\* The third script compares, for a customer and a month, the monthly table with
\* Stripe and with the events of the spaces the customer has.
ListedTotal(customer, month) ==
    MonthlyBytes({k \in MonthKey : k.customer = customer /\ k.month = month})

StripeTotal(customer, month) ==
    Bytes({e \in meter : e.customer = customer /\ StartOfMonth(e.at) = month})

SpacesOf(customer) == {e.space : e \in {e \in Events \union History : e.customer = customer}}

RawTotal(es, customer, month) ==
    SumFunction([s \in SpacesOf(customer) |->
                   SumOfEvents({e \in es : StartOfMonth(e.at) = month}, s, 0, Horizon)])

MonthlyVsStripe(customer, month) == ListedTotal(customer, month) - StripeTotal(customer, month)

MonthlyVsRaw(es, customer, month) == ListedTotal(customer, month) - RawTotal(es, customer, month)

\* Nothing failed or is under way, and the scripts have not run or have run over
\* nothing that was counted without them.
Undisturbed ==
    /\ faults = 0 /\ InFlight = {} /\ script = Idle
    /\ added # {} => added = Keys(aggregates) /\ aggregates \intersect raw = {}

Counted == Countable \union (IF added = {} THEN {} ELSE aggregates)

LastOfMonth(t) == t = Horizon \/ IsMonthStart(t + 1)

(***************************************************************************)
(* When nothing has failed and no event is being processed, the report of  *)
(* a period of whole months is the sum of the events counted in the period *)
(* ("Sum total egress bytes for a space within a time period", as          *)
(* sumBySpace of tables/egress-traffic.js had it). Of other periods it is  *)
(* not: a part of a month counts as the month. And the comparison the      *)
(* third script makes comes out even: a customer's total is what Stripe    *)
(* was told of and what was saved before, and the events of its spaces are *)
(* no fewer; more, where another customer had a space too.                 *)
(***************************************************************************)
ReportsAgree ==
    Undisturbed =>
        /\ \A e \in Counted, from \in MonthStarts, to \in Time :
             from <= to /\ LastOfMonth(to) =>
                SumOfMonths(e.space, from, to) = SumOfEvents(Counted, e.space, from, to)
        /\ \A customer \in {e.customer : e \in Events}, month \in MonthStarts :
             LET earlier == {e \in Counted \ raw : e.customer = customer /\ StartOfMonth(e.at) = month}
             IN  /\ (customer \in Accounts /\ ~StripeOff) =>
                      MonthlyVsStripe(customer, month) = Bytes(earlier)
                 /\ MonthlyVsRaw(Counted, customer, month) <= 0
=============================================================================
