------------------------ MODULE SpaceLedgerProperties ------------------------
(***************************************************************************)
(* What the billing of a space must come to, stated over sums of diffs, of *)
(* usage records and of meter events.                                      *)
(***************************************************************************)
EXTENDS SpaceLedger, FiniteSetsExt, Functions

\* Start of the first period a space was billed for (periods of one day). A
\* space with no snapshot is taken to be empty: what was stored before is not
\* seen by the ledger.
LedgerStart(s) == Min({p.at : p \in SnapshotsOf(s)}) - Day

LedgerDiffs(s, end) ==
    {d \in pending \union diffs : d.space = s /\ LedgerStart(s) <= d.at /\ d.at < end}

\* Size x time of space s over [from, to).
Integral(s, from, to) ==
    SumFunction([d \in LedgerDiffs(s, to) |-> d.delta * (to - (IF d.at < from THEN from ELSE d.at))])

\* The periods of the month of r that were billed for its space, up to its own.
BilledWith(r) ==
    {PeriodOf(q) : q \in {x \in UsageOf(r.space) : SameMonth(x.from, r.from) /\ x.from <= r.from}}

\* A snapshot of the month, at or before r, is of a period without its record.
BaseLost(r) ==
    \E p \in SnapshotsOf(r.space) :
        /\ p.at <= r.from /\ ~IsMonthStart(p.at) /\ SameMonth(p.at, r.from)
        /\ ~\E q \in UsageOf(r.space) : q.to = p.at

InMonth(S, s, m) == {x \in S : x.space = s /\ StartOfMonth(x.from) = m}

\* No day of the month before `to` is missing from the usage table.
NoGap(s, to) ==
    \A t \in Time :
        (t % Day = 0 /\ t < to /\ SameMonth(t, to - 1))
            => \E r \in usage : r.space = s /\ r.from = t

-----------------------------------------------------------------------------

(***************************************************************************)
(* A snapshot holds the size of the space at its date, exactly: every diff *)
(* with an earlier receiptAt is counted once, whatever days were missed in *)
(* between, and whatever was retried or handled concurrently               *)
(* (findSnapshotAtOrBefore, iterateSpaceDiffs, calculatePeriodUsage).      *)
(***************************************************************************)
SnapshotExact ==
    \A p \in snapshots :
        p.size = SumFunction([d \in LedgerDiffs(p.space, p.at) |-> d.delta])

(***************************************************************************)
(* A usage record is the integral of the true size over the days of its    *)
(* month that were billed, its own included: no interval is counted twice  *)
(* or left out of a billed day, and nothing is carried over a month's      *)
(* start (calculatePeriodUsage's previousCumulative). Not so once a day of *)
(* the month ended between its snapshot and its record, and was dead-      *)
(* lettered: the days that follow find its snapshot and count from zero.   *)
(***************************************************************************)
UsageOfBilledDays ==
    \A r \in usage :
        \/ r.usage = SumFunction([i \in BilledWith(r) |-> Integral(i.space, i.from, i.to)])
        \/ BaseLost(r)

(***************************************************************************)
(* Stripe's meter adds the events of a month up. When no day is missing    *)
(* and every report of the month was made, the total is the month-to-date  *)
(* average of the last record settled: no delta is lost or counted twice   *)
(* by a retry (calculateDeltaMetrics, createIdempotencyKey).               *)
(***************************************************************************)
MeterTotalIsAverage ==
    \A s \in Space, m \in MonthStarts :
        LET done == InMonth(settled, s, m)
        IN  \A x \in done :
              ( /\ \A y \in done : y.from <= x.from /\ y.how \in {"sent", "zero"}
                /\ NoGap(s, x.to)
                /\ report = Idle )
              => SumFunction([e \in InMonth(meter, s, m) |-> e.bytes])
                   = Average(x.usage, x.from, x.to)

(***************************************************************************)
(* A retry of a report sends what the first attempt sent, so that it does  *)
(* not matter which of them Stripe keeps (reportUsage reads the previous   *)
(* record again on each attempt, while later days are being billed).       *)
(***************************************************************************)
RetrySendsTheSame ==
    [][SendMeterEvent =>
         \A e \in meter : PeriodOf(e) = PeriodOf(Reported) => e.bytes = report.delta]_vars

=============================================================================
