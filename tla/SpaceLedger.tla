---------------------------- MODULE SpaceLedger -----------------------------
(***************************************************************************)
(* Daily storage billing of the spaces of one customer: the space billing  *)
(* queue, its handler (calculatePeriodUsage, storeSpaceUsage), the space   *)
(* diff, snapshot and usage tables, the usage table's DynamoDB stream and  *)
(* the handler that reports each new usage record to Stripe.               *)
(*                                                                         *)
(* Each awaited call of a handler is an action, so handlers interleave     *)
(* with each other and with writes to the tables, and an invocation may    *)
(* fail between any two calls; SQS redelivers its message, and dead-       *)
(* letters it on the last receive. The stream delivers the usage records   *)
(* of a customer one at a time, in order, and retries a failed one.        *)
(***************************************************************************)
EXTENDS BillingPeriods, Sequences, FiniteSets

CONSTANTS
    Space,         \* (provider, space) pairs of the customer's subscriptions
    Worker,        \* concurrent invocations of the space billing handler
    CronDelay,     \* ticks between midnight and the cron job (01:00 UTC)
    MaxLag,        \* a diff is written at most MaxLag ticks after its receiptAt
    BlobSizes,     \* sizes of the blobs that are stored
    MaxDiffs,      \* bound on the diffs accepted in a behaviour
    MaxCopies,     \* bound on the copies of one instruction that are enqueued
    MaxReceive,    \* maxReceiveCount of the space billing queue
    MaxRetry,      \* retryAttempts of the usage table stream
    MaxFaults,     \* bound on the failures injected in a behaviour
    Faults,        \* the kinds of failure considered, a subset of FaultKind
    ManualPeriods, \* <<from, to>> periods an operator may bill by hand
    Prompt         \* TRUE: instructions are consumed in order (see InOrder)

FaultKind == {"space_handler", "diff_list", "usage_handler", "inactive"}

ASSUME LedgerAssumption ==
    /\ CronDelay \in Nat
    /\ MaxLag \in Nat
    /\ BlobSizes \subseteq Nat \ {0}
    /\ MaxDiffs \in Nat
    /\ MaxCopies \in Nat \ {0}
    /\ MaxReceive \in Nat \ {0}
    /\ MaxRetry \in Nat
    /\ MaxFaults \in Nat
    /\ Faults \subseteq FaultKind
    /\ \A p \in ManualPeriods : p \in Time \X Time /\ p[1] < p[2]
    /\ Prompt \in BOOLEAN

VARIABLES
    now,        \* the current instant
    pending,    \* diffs accepted (receiptAt taken) and not yet written
    diffs,      \* the space diff table
    snapshots,  \* the space snapshot table
    usage,      \* the usage table
    issued,     \* copies of instructions sent to the space billing queue so far
    queue,      \* the space billing queue: visible messages
    worker,     \* the handler invocations in progress
    dlq,        \* instructions in the space billing dead letter queue
    stream,     \* usage records inserted and not yet consumed, in order
    report,     \* the usage table handler: progress with Head(stream)
    meter,      \* Stripe meter events of the customer
    settled,    \* stream records consumed, with the outcome of each
    faults      \* failures injected so far

tables == <<snapshots, usage>>
diffVars == <<pending, diffs>>
queueVars == <<issued, queue, worker, dlq>>
reportVars == <<report, meter, settled>>
vars == <<now, pending, diffs, snapshots, usage, issued, queue, worker, dlq,
          stream, report, meter, settled, faults>>

-----------------------------------------------------------------------------
(* Records.                                                                *)

Cause == 1..MaxDiffs

Diff == [space : Space, at : Time, delta : Int, cause : Cause,
         undoes : Cause \union {0}]    \* the cause of the blob a removal removes

Snapshot == [space : Space, at : Time, size : Int]

Usage == {r \in [space : Space, from : Time, to : Time, usage : Int] : r.from < r.to}

Instruction == {i \in [space : Space, from : Time, to : Time] : i.from < i.to}

\* An SQS message: copies are distinct messages with the same body.
Message == [body : Instruction, copy : 1..MaxCopies, receives : 0..MaxReceive]

Idle == [pc |-> "idle"]

\* An invocation of the space billing handler. lastAt, lastCause: the sort key
\* of the last diff it read; base: recordedAt of the snapshot it starts from.
Job == [pc : {"snapshot", "diffs", "previous", "putSnapshot", "putUsage", "delete"},
        msg : Message, found : BOOLEAN, base : Time, size : Int, prev : Time,
        usage : Int, lastAt : Time, lastCause : Cause \union {0}]

ReportJob == [pc : {"lookup", "check", "send", "ack"}, attempt : 0..MaxRetry, delta : Int]

MeterEvent == [space : Space, from : Time, to : Time, bytes : Int]

Outcome == {"sent", "zero", "inactive", "dead"}

Settled == [space : Space, from : Time, to : Time, usage : Int, how : Outcome]

PeriodOf(r) == [space |-> r.space, from |-> r.from, to |-> r.to]

\* The usage table's key has no `to`.
SameKey(r, q) == r.space = q.space /\ r.from = q.from

SnapshotsOf(s) == {p \in snapshots : p.space = s}

UsageOf(s) == {r \in usage : r.space = s}

Init ==
    /\ now = 0
    /\ pending = {} /\ diffs = {}
    /\ snapshots = {} /\ usage = {}
    /\ issued = {} /\ queue = {} /\ dlq = {}
    /\ worker = [w \in Worker |-> Idle]
    /\ stream = <<>>
    /\ report = Idle
    /\ meter = {} /\ settled = {}
    /\ faults = 0

-----------------------------------------------------------------------------
(* Time and storage changes. A diff is stamped with the time its receipt   *)
(* was produced and becomes visible in the table up to MaxLag later.       *)

Tick ==
    /\ now < Horizon
    /\ \A d \in pending : now < d.at + MaxLag
    /\ now' = now + 1
    /\ UNCHANGED <<diffVars, tables, queueVars, stream, reportVars, faults>>

Accept(s, delta, undoes) ==
    /\ Cardinality(pending \union diffs) < MaxDiffs
    /\ pending' = pending \union
         {[space |-> s, at |-> now, delta |-> delta, undoes |-> undoes,
           cause |-> Cardinality(pending \union diffs) + 1]}
    /\ UNCHANGED <<now, diffs, tables, queueVars, stream, reportVars, faults>>

AddBlob(s, size) == Accept(s, size, 0)

\* Only a stored blob can be removed, and it can be removed once.
RemoveBlob(d) ==
    /\ d.delta > 0
    /\ \A e \in pending \union diffs : e.undoes # d.cause
    /\ Accept(d.space, -d.delta, d.cause)

WriteDiff(d) ==
    /\ pending' = pending \ {d}
    /\ diffs' = diffs \union {d}
    /\ UNCHANGED <<now, tables, queueVars, stream, reportVars, faults>>

-----------------------------------------------------------------------------
(* Instructions arriving at the space billing queue.                       *)

Send(i, c) ==
    /\ c \in 1..MaxCopies
    /\ [body |-> i, copy |-> c] \notin issued
    /\ \A k \in 1..(c - 1) : [body |-> i, copy |-> k] \in issued
    /\ issued' = issued \union {[body |-> i, copy |-> c]}
    /\ queue' = queue \union {[body |-> i, copy |-> c, receives |-> 0]}
    /\ UNCHANGED <<now, diffVars, tables, worker, dlq, stream, reportVars, faults>>

\* Messages that will still cause work: visible ones and those being handled.
Unconsumed ==
    queue \union {worker[w].msg : w \in {v \in Worker : worker[v] # Idle}}

\* Instructions of a space are consumed in the order of their periods, except
\* that a period already recorded may be run again. The queue does not promise
\* it: it holds when a day's backlog is gone before the next day's cron.
InOrder(i) ==
    \/ \E r \in usage : PeriodOf(r) = i
    \/ /\ \A m \in Unconsumed : m.body.space = i.space => m.body.to >= i.to
       /\ \A j \in issued : j.body.space = i.space => j.body.to <= i.to

\* The run of some past day's cron (billing-cron.js: [startOfYesterday,
\* startOfToday)) reaches space s. Which spaces it reaches, when, and how often
\* is decided upstream: a retried customer instruction enqueues copies.
SendDaily(s, cronAt, c) ==
    LET i == [space |-> s, from |-> StartOfYesterday(cronAt), to |-> StartOfToday(cronAt)]
    IN  /\ Day + CronDelay <= cronAt /\ cronAt <= now
        /\ cronAt % Day = CronDelay
        /\ Prompt => InOrder(i)
        /\ Send(i, c)

\* An operator calls the cron handler's URL with an explicit period in the past.
SendManual(s, p, c) ==
    LET i == [space |-> s, from |-> p[1], to |-> p[2]]
    IN  /\ now >= p[2] + CronDelay
        /\ Prompt => InOrder(i)
        /\ Send(i, c)

-----------------------------------------------------------------------------
(* The space billing handler: calculatePeriodUsage.                        *)

\* `list` returns the newest snapshots only (size: 31, scanIndexForward: false).
SnapshotScan == 31

NewestSnapshots(s) ==
    {p \in SnapshotsOf(s) :
        Cardinality({q \in SnapshotsOf(s) : q.at > p.at}) < SnapshotScan}

\* findSnapshotAtOrBefore: the snapshot at the date, else the newest before it.
SnapshotAtOrBefore(s, date) ==
    LET exact == {p \in SnapshotsOf(s) : p.at = date}
        older == {p \in NewestSnapshots(s) : p.at <= date}
    IN  IF exact # {} THEN exact
        ELSE {p \in older : \A q \in older : q.at <= p.at}

Receive(w, m) ==
    /\ worker[w] = Idle
    /\ queue' = queue \ {m}
    /\ worker' = [worker EXCEPT ![w] =
         [pc |-> "snapshot", msg |-> [m EXCEPT !.receives = @ + 1],
          found |-> FALSE, base |-> m.body.from, size |-> 0, prev |-> m.body.from,
          usage |-> 0, lastAt |-> 0, lastCause |-> 0]]
    /\ UNCHANGED <<now, diffVars, tables, issued, dlq, stream, reportVars, faults>>

\* Slip: a space without a snapshot is waited for.
FindSnapshotStrict(w) ==
    LET i == worker[w].msg.body
    IN  /\ worker[w].pc = "snapshot"
        /\ \E p \in SnapshotAtOrBefore(i.space, i.from) :
                worker' = [worker EXCEPT ![w] =
                    [@ EXCEPT !.pc = "diffs", !.found = TRUE, !.base = p.at,
                              !.size = p.size, !.lastAt = p.at]]
        /\ UNCHANGED <<now, diffVars, tables, issued, queue, dlq, stream, reportVars, faults>>

\* The initial state of the integral: the snapshot's size, or an empty space.
FindSnapshot(w) ==
    LET i == worker[w].msg.body
        snap == SnapshotAtOrBefore(i.space, i.from)
    IN  /\ worker[w].pc = "snapshot"
        /\ \/ \E p \in snap :
                worker' = [worker EXCEPT ![w] =
                    [@ EXCEPT !.pc = "diffs", !.found = TRUE, !.base = p.at,
                              !.size = p.size, !.lastAt = p.at]]
           \/ /\ snap = {}
              /\ worker' = [worker EXCEPT ![w] =
                    [@ EXCEPT !.pc = "diffs", !.lastAt = i.from]]
        /\ UNCHANGED <<now, diffVars, tables, issued, queue, dlq, stream, reportVars, faults>>

\* Slip: the end of the period is inclusive.
RemainingInclusive(job) ==
    {d \in diffs :
        /\ d.space = job.msg.body.space
        /\ d.at <= job.msg.body.to
        /\ \/ d.at > job.lastAt
           \/ d.at = job.lastAt /\ d.cause > job.lastCause}

\* iterateSpaceDiffs: the sort key is receiptAt#cause, the first key listed is
\* the snapshot date (inclusive), and `to` is exclusive.
Remaining(job) ==
    {d \in diffs :
        /\ d.space = job.msg.body.space
        /\ d.at < job.msg.body.to
        /\ \/ d.at > job.lastAt
           \/ d.at = job.lastAt /\ d.cause > job.lastCause}

\* The first of a list of diffs.
IsFirst(d, ds) == \A e \in ds : d.at < e.at \/ (d.at = e.at /\ d.cause <= e.cause)

\* Slip: the interval always starts at the beginning of the period.
IntegratedFromStart(job, d) ==
    IF d.at < job.msg.body.from
    THEN [job EXCEPT !.size = @ + d.delta, !.lastAt = d.at, !.lastCause = d.cause]
    ELSE [job EXCEPT !.usage = @ + job.size * (d.at - job.msg.body.from),
                     !.size = @ + d.delta, !.prev = d.at,
                     !.lastAt = d.at, !.lastCause = d.cause]

\* One iteration: a diff before the period only changes the size; one in the
\* period first adds size x interval to the usage.
Integrated(job, d) ==
    IF d.at < job.msg.body.from
    THEN [job EXCEPT !.size = @ + d.delta, !.lastAt = d.at, !.lastCause = d.cause]
    ELSE [job EXCEPT !.usage = @ + job.size * (d.at - job.prev),
                     !.size = @ + d.delta, !.prev = d.at,
                     !.lastAt = d.at, !.lastCause = d.cause]

ReadDiff(w) ==
    /\ worker[w].pc = "diffs"
    /\ \E d \in Remaining(worker[w]) :
         /\ IsFirst(d, Remaining(worker[w]))
         /\ worker' = [worker EXCEPT ![w] = Integrated(worker[w], d)]
    /\ UNCHANGED <<now, diffVars, tables, issued, queue, dlq, stream, reportVars, faults>>

\* The final interval up to `to`.
Closed(job) ==
    [job EXCEPT !.pc = "previous",
                !.usage = @ + job.size * (job.msg.body.to - job.prev)]

EndOfDiffs(w) ==
    /\ worker[w].pc = "diffs"
    /\ Remaining(worker[w]) = {}
    /\ worker' = [worker EXCEPT ![w] = Closed(worker[w])]
    /\ UNCHANGED <<now, diffVars, tables, issued, queue, dlq, stream, reportVars, faults>>

\* Listing a page fails: the generator `return`s the error, which the caller's
\* `for await` does not see, so the loop ends as if there were no more diffs.
DiffListFails(w) ==
    /\ "diff_list" \in Faults
    /\ faults < MaxFaults
    /\ worker[w].pc = "diffs"
    /\ worker' = [worker EXCEPT ![w] = Closed(worker[w])]
    /\ faults' = faults + 1
    /\ UNCHANGED <<now, diffVars, tables, issued, queue, dlq, stream, reportVars>>

\* Slip: the newest record of the space is taken, whatever its date.
PreviousUsageNewest(s, date) ==
    LET newest == {r \in UsageOf(s) : \A q \in UsageOf(s) : q.from <= r.from}
    IN  IF IsMonthStart(date) \/ newest = {} THEN [found |-> IsMonthStart(date), usage |-> 0]
        ELSE [found |-> TRUE, usage |-> (CHOOSE r \in newest : TRUE).usage]

\* findPreviousUsageBySnapshotDate: nothing at a month start, else the record of
\* the day before, else the newest record that ends at the date.
PreviousUsage(s, date) ==
    LET ending == {r \in UsageOf(s) : r.to = date}
        daily == {r \in ending : r.from = date - Day}
        newest == {r \in ending : \A q \in ending : q.from <= r.from}
        found == IF daily # {} THEN daily ELSE newest
    IN  IF IsMonthStart(date) THEN [found |-> TRUE, usage |-> 0]
        ELSE IF found # {} THEN [found |-> TRUE, usage |-> (CHOOSE r \in found : TRUE).usage]
        ELSE [found |-> FALSE, usage |-> 0]

\* Slip: the record of the period itself is added to, when there is one.
PreviousCumulativeInPlace(job) ==
    LET old == {r \in UsageOf(job.msg.body.space) : r.from = job.msg.body.from}
    IN  IF old # {} THEN (CHOOSE r \in old : TRUE).usage
        ELSE IF job.found /\ StartOfMonth(job.base) >= StartOfMonth(job.msg.body.from)
        THEN PreviousUsage(job.msg.body.space, job.base).usage
        ELSE 0

\* The month-to-date usage at the snapshot, unless the snapshot is of an earlier
\* month or there is none. Whether a record was found is not looked at.
PreviousCumulative(job) ==
    IF job.found /\ StartOfMonth(job.base) >= StartOfMonth(job.msg.body.from)
    THEN PreviousUsage(job.msg.body.space, job.base).usage
    ELSE 0

LoadPrevious(w) ==
    LET job == worker[w]
        total == job.usage + PreviousCumulative(job)
    IN  /\ job.pc = "previous"
        /\ worker' = [worker EXCEPT ![w] = [job EXCEPT !.pc = "putSnapshot", !.usage = total]]
        /\ UNCHANGED <<now, diffVars, tables, issued, queue, dlq, stream, reportVars, faults>>

-----------------------------------------------------------------------------
(* The space billing handler: storeSpaceUsage, the snapshot first.         *)

\* The snapshot table with the size at the end of the period put in.
SnapshotWith(job) ==
    LET i == job.msg.body
    IN  {p \in snapshots : ~(p.space = i.space /\ p.at = i.to)}
          \union {[space |-> i.space, at |-> i.to, size |-> job.size]}

PutSnapshot(w) ==
    LET job == worker[w]
    IN  /\ job.pc = "putSnapshot"
        /\ snapshots' = SnapshotWith(job)
        /\ worker' = [worker EXCEPT ![w] = [@ EXCEPT !.pc = "putUsage"]]
        /\ UNCHANGED <<now, diffVars, usage, issued, queue, dlq, stream, reportVars, faults>>

\* Slip: overwriting a record emits it too.
EmittedAgain(old, new) == Append(stream, new)

\* The stream's filter lets INSERT events through: overwriting emits nothing.
Emitted(old, new) == IF old = {} THEN Append(stream, new) ELSE stream

\* An unconditional put on the key (customer, from#provider#space).
PutUsage(w) ==
    LET job == worker[w]
        i == job.msg.body
        old == {r \in usage : SameKey(r, i)}
        new == [space |-> i.space, from |-> i.from, to |-> i.to, usage |-> job.usage]
    IN  /\ job.pc = "putUsage"
        /\ usage' = (usage \ old) \union {new}
        /\ stream' = Emitted(old, new)
        /\ worker' = [worker EXCEPT ![w] = [@ EXCEPT !.pc = "delete"]]
        /\ UNCHANGED <<now, diffVars, snapshots, issued, queue, dlq, reportVars, faults>>

\* The invocation succeeded: SQS deletes the message.
Delete(w) ==
    /\ worker[w].pc = "delete"
    /\ worker' = [worker EXCEPT ![w] = Idle]
    /\ UNCHANGED <<now, diffVars, tables, issued, queue, dlq, stream, reportVars, faults>>

\* Slip: one receive too many.
ReturnedOnceMore(m) ==
    IF m.receives <= MaxReceive
    THEN queue' = queue \union {m} /\ UNCHANGED dlq
    ELSE dlq' = dlq \union {m.body} /\ UNCHANGED queue

\* Slip: the handler swallows the failure, so the message is deleted.
Swallowed(m) == UNCHANGED <<queue, dlq>>

\* The message of a failed invocation becomes visible again, or is dead-lettered.
Returned(m) ==
    IF m.receives < MaxReceive
    THEN queue' = queue \union {m} /\ UNCHANGED dlq
    ELSE dlq' = dlq \union {m.body} /\ UNCHANGED queue

\* The invocation throws, times out or crashes before its next step, or before
\* its message is deleted: the message is received again or dead-lettered.
SpaceHandlerFails(w) ==
    /\ "space_handler" \in Faults
    /\ faults < MaxFaults
    /\ worker[w] # Idle
    /\ faults' = faults + 1
    /\ worker' = [worker EXCEPT ![w] = Idle]
    /\ Returned(worker[w].msg)
    /\ UNCHANGED <<now, diffVars, tables, issued, stream, reportVars>>

-----------------------------------------------------------------------------
(* The usage table handler: reportUsage for the record at the head of the  *)
(* stream.                                                                 *)

Reported == Head(stream)

StartReport ==
    /\ report = Idle
    /\ stream # <<>>
    /\ report' = [pc |-> "lookup", attempt |-> 0, delta |-> 0]
    /\ UNCHANGED <<now, diffVars, tables, queueVars, stream, meter, settled, faults>>

\* calculateDeltaMetrics: the month-to-date average in bytes, rounded down.
Average(u, from, to) == u \div (to - StartOfMonth(from))

\* Slip: the previous average is taken over the current duration.
DeltaSameDuration(r, previous) ==
    Average(r.usage, r.from, r.to) - Average(previous, r.from, r.to)

Delta(r, previous) ==
    Average(r.usage, r.from, r.to)
      - (IF previous = 0 THEN 0 ELSE previous \div (r.from - StartOfMonth(r.from)))

Settle(how) ==
    /\ settled' = settled \union
         {[space |-> Reported.space, from |-> Reported.from, to |-> Reported.to,
           usage |-> Reported.usage, how |-> how]}
    /\ stream' = Tail(stream)
    /\ report' = Idle

\* Slip: the record is retried without end.
AttemptFailsForever ==
    /\ report' = [pc |-> "lookup", attempt |-> report.attempt, delta |-> 0]
    /\ UNCHANGED <<stream, settled>>

\* A failed attempt: the record is retried, then sent to the stream's DLQ.
AttemptFails ==
    IF report.attempt < MaxRetry
    THEN /\ report' = [pc |-> "lookup", attempt |-> report.attempt + 1, delta |-> 0]
         /\ UNCHANGED <<stream, settled>>
    ELSE Settle("dead")

\* validateStripeCustomerForBilling: the customer is deleted, or all of its
\* subscriptions are canceled or paused. The handler succeeds, nothing is sent.
SkipInactive ==
    /\ "inactive" \in Faults
    /\ faults < MaxFaults
    /\ report.pc = "lookup"
    /\ faults' = faults + 1
    /\ Settle("inactive")
    /\ UNCHANGED <<now, diffVars, tables, queueVars, meter>>

\* A delta of zero is not sent.
Decide(delta) ==
    \/ /\ delta = 0
       /\ Settle("zero")
    \/ /\ delta # 0
       /\ report' = [report EXCEPT !.pc = "send", !.delta = delta]
       /\ UNCHANGED <<stream, settled>>

LookupPrevious ==
    LET previous == PreviousUsage(Reported.space, Reported.from)
    IN  /\ report.pc = "lookup"
        /\ \/ /\ previous.found
              /\ Decide(Delta(Reported, previous.usage))
           \/ /\ ~previous.found
              /\ report' = [report EXCEPT !.pc = "check"]
              /\ UNCHANGED <<stream, settled>>
        /\ UNCHANGED <<now, diffVars, tables, queueVars, meter, faults>>

\* Slip: a missing record is taken for a new space, whatever the snapshots say.
BilledBeforeIgnored(r) == FALSE

\* The snapshot of the last period says that there was one.
BilledBefore(r) == \E p \in snapshots : p.space = r.space /\ p.at = r.from

\* No previous record: data loss, or the first period of a new space.
CheckSnapshot ==
    /\ report.pc = "check"
    /\ \/ BilledBefore(Reported) /\ AttemptFails
       \/ ~BilledBefore(Reported) /\ Decide(Delta(Reported, 0))
    /\ UNCHANGED <<now, diffVars, tables, queueVars, meter, faults>>

\* The identifier of a meter event is made of from, to, customer, provider and
\* space; Stripe keeps one event per identifier.
MeterWith(r, delta) ==
    IF \E e \in meter : PeriodOf(e) = PeriodOf(r)
    THEN meter
    ELSE meter \union {[space |-> r.space, from |-> r.from, to |-> r.to, bytes |-> delta]}

SendMeterEvent ==
    /\ report.pc = "send"
    /\ meter' = MeterWith(Reported, report.delta)
    /\ report' = [report EXCEPT !.pc = "ack"]
    /\ UNCHANGED <<now, diffVars, tables, queueVars, stream, settled, faults>>

EndReport ==
    /\ report.pc = "ack"
    /\ Settle("sent")
    /\ UNCHANGED <<now, diffVars, tables, queueVars, meter, faults>>

\* The invocation fails: Stripe or DynamoDB refuses a call, a crash, a timeout.
UsageHandlerFails ==
    /\ "usage_handler" \in Faults
    /\ faults < MaxFaults
    /\ report # Idle
    /\ faults' = faults + 1
    /\ AttemptFails
    /\ UNCHANGED <<now, diffVars, tables, queueVars, meter>>

-----------------------------------------------------------------------------

StorageChange ==
    \/ \E s \in Space, b \in BlobSizes : AddBlob(s, b)
    \/ \E d \in diffs : RemoveBlob(d)
    \/ \E d \in pending : WriteDiff(d)

Instruct ==
    \/ \E s \in Space, t \in Time, c \in 1..MaxCopies : SendDaily(s, t, c)
    \/ \E s \in Space, p \in ManualPeriods, c \in 1..MaxCopies : SendManual(s, p, c)

SpaceHandler(w) ==
    \/ \E m \in queue : Receive(w, m)
    \/ FindSnapshot(w) \/ ReadDiff(w) \/ EndOfDiffs(w) \/ LoadPrevious(w)
    \/ PutSnapshot(w) \/ PutUsage(w) \/ Delete(w)

UsageHandler ==
    StartReport \/ LookupPrevious \/ CheckSnapshot \/ SendMeterEvent \/ EndReport

Failure ==
    \/ \E w \in Worker : SpaceHandlerFails(w) \/ DiffListFails(w)
    \/ SkipInactive \/ UsageHandlerFails

Next ==
    \/ Tick \/ StorageChange \/ Instruct
    \/ \E w \in Worker : SpaceHandler(w)
    \/ UsageHandler \/ Failure

Spec == Init /\ [][Next]_vars

\* SQS and the DynamoDB stream poll their queues and invoke the handlers.
FairSpec ==
    /\ Spec
    /\ \A w \in Worker : WF_vars(SpaceHandler(w))
    /\ WF_vars(UsageHandler)

-----------------------------------------------------------------------------
TypeOK ==
    /\ now \in Time
    /\ pending \subseteq Diff /\ diffs \subseteq Diff
    /\ snapshots \subseteq Snapshot
    /\ usage \subseteq Usage
    /\ issued \subseteq [body : Instruction, copy : 1..MaxCopies]
    /\ queue \subseteq {m \in Message : m.receives < MaxReceive}
    /\ worker \in [Worker -> Job \union {Idle}]
    /\ dlq \subseteq Instruction
    /\ stream \in Seq(Usage)
    /\ report \in ReportJob \union {Idle}
    /\ report # Idle => stream # <<>>
    /\ meter \subseteq MeterEvent
    /\ settled \subseteq Settled
    /\ faults \in 0..MaxFaults

(***************************************************************************)
(* No instruction is lost: once the space billing queue has accepted it,   *)
(* it is waiting, being handled, dead-lettered, or there is a usage record *)
(* from its start (the space-billing-queue handler throws on every         *)
(* failure, so that SQS keeps the message).                                *)
(***************************************************************************)
Recorded(i) == \E r \in usage : SameKey(r, i)

InProgress(i) ==
    \/ \E m \in queue : m.body = i
    \/ \E w \in Worker : worker[w] # Idle /\ worker[w].msg.body = i

NoInstructionLost ==
    \A j \in issued : Recorded(j.body) \/ InProgress(j.body) \/ j.body \in dlq

(***************************************************************************)
(* storeSpaceUsage writes the snapshot before the usage record, which is   *)
(* what reportUsage's data loss test rests on: no snapshot at a date means *)
(* that no usage record ends there.                                        *)
(***************************************************************************)
SnapshotBeforeUsage ==
    \A r \in usage : \E p \in snapshots : p.space = r.space /\ p.at = r.to

(***************************************************************************)
(* Every usage record is accounted for by the reporting side: it waits in  *)
(* the stream, or the handler has settled it (sent, nothing to send,       *)
(* customer not billed by Stripe, or dead-lettered).                       *)
(***************************************************************************)
UsageAccounted ==
    \A r \in usage :
        \/ \E k \in DOMAIN stream : SameKey(stream[k], r)
        \/ \E x \in settled : SameKey(x, r)

(***************************************************************************)
(* A period reaches the reporting side once, however often it is billed:   *)
(* a record is in the stream once, and not when it was settled before      *)
(* (Stripe would not recognise the second report after 24 hours).          *)
(***************************************************************************)
EmittedOnce ==
    \A k \in DOMAIN stream :
        /\ \A l \in DOMAIN stream : SameKey(stream[k], stream[l]) => k = l
        /\ ~\E x \in settled : SameKey(x, stream[k])

(***************************************************************************)
(* The two together: a usage record is reported, and reported once.        *)
(***************************************************************************)
ReportedOnce == UsageAccounted /\ EmittedOnce

(***************************************************************************)
(* Nothing is sent for a day whose base is lost: when the meter has an     *)
(* event of a period inside a month, the record that ends where it starts  *)
(* is there, or the space was not billed up to there (reportUsage's data   *)
(* loss test: "cumulative usage must form an unbroken chain mid-month").   *)
(***************************************************************************)
ReportHasBase ==
    \A e \in meter :
        \/ IsMonthStart(e.from)
        \/ \E r \in usage : r.space = e.space /\ r.to = e.from
        \/ ~\E p \in snapshots : p.space = e.space /\ p.at = e.from

(***************************************************************************)
(* Every instruction the queue accepts is eventually recorded or dead-     *)
(* lettered, and every usage record inserted eventually settled.           *)
(***************************************************************************)
InstructionsEnd ==
    \A s \in Space, f \in Time, t \in Time :
        LET i == [space |-> s, from |-> f, to |-> t]
        IN  InProgress(i) ~> (Recorded(i) \/ i \in dlq)

ReportsEnd == []<>(stream = <<>>)

LedgerSettles == InstructionsEnd /\ ReportsEnd

=============================================================================
