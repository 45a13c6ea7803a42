---------------------------- MODULE StorageAccount ----------------------------
(***************************************************************************)
(* What storage billing promises of one customer's spaces, with no         *)
(* handlers, queues or snapshots: a day of a space is billed in one step,  *)
(* from the changes themselves, and reported in one step, once.            *)
(***************************************************************************)
EXTENDS BillingPeriods, FiniteSetsExt

CONSTANT Space

VARIABLES
    changes,   \* the changes of the spaces' sizes
    billed,    \* the usage records
    reported   \* what was sent to Stripe

vars == <<changes, billed, reported>>

Init == changes = {} /\ billed = {} /\ reported = {}

BilledTo(s) == {r.to : r \in {q \in billed : q.space = s}}

\* A change is never of a time that was billed already.
Change(d) ==
    /\ d \notin changes
    /\ \A t \in BilledTo(d.space) : t <= d.at
    /\ changes' = changes \union {d}
    /\ UNCHANGED <<billed, reported>>

\* Size x time of space s over [from, to), of the changes since `start`.
Held(s, start, from, to) ==
    MapThenSumSet(
        LAMBDA d : d.delta * (to - (IF d.at < from THEN from ELSE d.at)),
        {d \in changes : d.space = s /\ start <= d.at /\ d.at < to})

\* The days of a space are billed in order. The record of a day adds the day to
\* the record of the last day billed in the month.
Bill(s, from, to) ==
    LET before == {r \in billed : r.space = s}
        sameMonth == {r \in before : SameMonth(r.from, from)}
        carried == IF sameMonth = {} THEN 0
                   ELSE (CHOOSE r \in sameMonth : \A q \in sameMonth : q.to <= r.to).usage
        start == Min({r.from : r \in before} \union {from})
    IN  /\ from < to
        /\ \A t \in BilledTo(s) : t <= from
        /\ billed' = billed \union
             {[space |-> s, from |-> from, to |-> to,
               usage |-> carried + Held(s, start, from, to)]}
        /\ UNCHANGED <<changes, reported>>

\* The month-to-date average in bytes, and the average at the day before if it
\* was billed.
Average(u, from, to) == u \div (to - StartOfMonth(from))

Report(r) ==
    LET last == {q \in billed : q.space = r.space /\ q.to = r.from /\ SameMonth(q.from, r.from)}
        previous == IF last = {} THEN 0
                    ELSE LET q == CHOOSE q \in last : TRUE IN Average(q.usage, q.from, q.to)
        delta == Average(r.usage, r.from, r.to) - previous
    IN  /\ delta # 0
        /\ \A e \in reported : ~(e.space = r.space /\ e.from = r.from /\ e.to = r.to)
        /\ reported' = reported \union
             {[space |-> r.space, from |-> r.from, to |-> r.to, bytes |-> delta]}
        /\ UNCHANGED <<changes, billed>>

Next ==
    \/ \E d \in changes' : Change(d)
    \/ \E s \in Space, from, to \in Time : Bill(s, from, to)
    \/ \E r \in billed : Report(r)

Spec == Init /\ [][Next]_vars
=============================================================================
