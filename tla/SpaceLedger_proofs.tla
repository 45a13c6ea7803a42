-------------------------- MODULE SpaceLedger_proofs --------------------------
(***************************************************************************)
(* Theorems about the space ledger, for every set of spaces and handlers,  *)
(* every calendar and every bound.                                         *)
(***************************************************************************)
EXTENDS SpaceLedgerProperties, DataLemmas, FiniteSetTheorems, TLAPS

(* Every instant has a month start at or before it. *)
LEMMA MonthStartType ==
    ASSUME NEW t \in Time
    PROVE  /\ StartOfMonth(t) \in MonthStarts
           /\ StartOfMonth(t) \in Nat
           /\ StartOfMonth(t) <= t
  <1>1. PICK m \in MonthStarts : m <= t /\ \A n \in MonthStarts : n <= t => n <= m
    BY PeriodsAssumption DEF Time
  <1>2. /\ StartOfMonth(t) \in MonthStarts
        /\ StartOfMonth(t) <= t
    BY <1>1 DEF StartOfMonth
  <1>3. QED
    BY <1>2, PeriodsAssumption

(* An instant inside a month is later than the month's start. *)
LEMMA AfterMonthStart ==
    ASSUME NEW t \in Time, ~IsMonthStart(t)
    PROVE  t - StartOfMonth(t) \in Nat \ {0}
  BY MonthStartType, PeriodsAssumption DEF IsMonthStart, Time

(* The previous usage found is an integer, and 0 at a month start. *)
LEMMA PreviousUsageType ==
    ASSUME usage \subseteq Usage, NEW s, NEW date
    PROVE  /\ PreviousUsage(s, date).found \in BOOLEAN
           /\ PreviousUsage(s, date).usage \in Int
           /\ IsMonthStart(date) => PreviousUsage(s, date).usage = 0
           /\ ~PreviousUsage(s, date).found => PreviousUsage(s, date).usage = 0
  <1> DEFINE ending == {r \in UsageOf(s) : r.to = date}
             daily == {r \in ending : r.from = date - Day}
             newest == {r \in ending : \A q \in ending : q.from <= r.from}
             got == IF daily # {} THEN daily ELSE newest
             one == CHOOSE r \in got : TRUE
  <1>1. got \subseteq Usage
    BY DEF UsageOf
  <1>2. got # {} => one.usage \in Int
    <2>1. got # {} => one \in got
      OBVIOUS
    <2>2. QED
      BY <1>1, <2>1 DEF Usage
  <1>3. PreviousUsage(s, date) =
          IF IsMonthStart(date) THEN [found |-> TRUE, usage |-> 0]
          ELSE IF got # {} THEN [found |-> TRUE, usage |-> one.usage]
          ELSE [found |-> FALSE, usage |-> 0]
    BY DEF PreviousUsage
  <1> HIDE DEF got, one
  <1>4. QED
    BY <1>2, <1>3

(* A delta is an integer: neither average divides by zero. *)
LEMMA DeltaType ==
    ASSUME usage \subseteq Usage, NEW r \in Usage, NEW p \in Int,
           IsMonthStart(r.from) => p = 0
    PROVE  Delta(r, p) \in Int
  <1> USE DEF Usage
  <1>1. r.to - StartOfMonth(r.from) \in Nat \ {0}
    BY MonthStartType DEF Time
  <1>2. Average(r.usage, r.from, r.to) \in Int
    BY <1>1 DEF Average
  <1>3. p # 0 => p \div (r.from - StartOfMonth(r.from)) \in Int
    BY AfterMonthStart
  <1>4. QED
    BY <1>2, <1>3 DEF Delta

-----------------------------------------------------------------------------
(* Type correctness. Causes are numbered by counting the diffs, so the set *)
(* of diffs must be known to be finite.                                    *)

Finite == IsFiniteSet(pending) /\ IsFiniteSet(diffs)

TypeInv == TypeOK /\ Finite

LEMMA InitTypeInv == Init => TypeInv
  BY FS_EmptySet, PeriodsAssumption, LedgerAssumption
  DEF Init, TypeInv, Finite, TypeOK, Time

(* A handler that is past a step is at work on a message. *)
LEMMA WorkerIsJob ==
    ASSUME TypeOK, NEW w \in Worker, worker[w] # Idle
    PROVE  worker[w] \in Job
  BY DEF TypeOK

LEMMA PcIsJob ==
    ASSUME TypeOK, NEW w \in Worker, worker[w].pc # "idle"
    PROVE  worker[w] \in Job /\ worker[w] # Idle
  BY DEF TypeOK, Idle

LEMMA ReportIsJob ==
    ASSUME TypeOK, report.pc # "idle"
    PROVE  report \in ReportJob /\ report # Idle /\ stream # <<>> /\ Reported \in Usage
  BY DEF TypeOK, Idle, Reported

-----------------------------------------------------------------------------
(* Each action keeps the types.                                            *)

LEMMA StorageChangeTypeInv == TypeInv /\ StorageChange => TypeInv'
  <1> SUFFICES ASSUME TypeInv, StorageChange PROVE TypeInv'
    OBVIOUS
  <1> USE DEF TypeInv, Finite
  <1>1. ASSUME NEW s \in Space, NEW delta \in Int, NEW u \in Cause \union {0},
               Accept(s, delta, u)
        PROVE  TypeInv'
    <2> DEFINE n == Cardinality(pending \union diffs)
               d == [space |-> s, at |-> now, delta |-> delta, undoes |-> u, cause |-> n + 1]
    <2>1. n \in Nat /\ n < MaxDiffs
      BY <1>1, FS_Union, FS_CardinalityType DEF Accept
    <2>2. d \in Diff
      BY <2>1, LedgerAssumption DEF Diff, Cause, TypeOK
    <2>3. pending' = pending \union {d} /\ IsFiniteSet(pending')
      BY <1>1, FS_AddElement DEF Accept
    <2> HIDE DEF d
    <2>4. QED
      BY <1>1, <2>2, <2>3 DEF Accept, TypeOK, tables, queueVars, reportVars
  <1>2. ASSUME NEW s \in Space, NEW b \in BlobSizes, AddBlob(s, b)
        PROVE  TypeInv'
    BY <1>1, <1>2, LedgerAssumption DEF AddBlob
  <1>3. ASSUME NEW d \in diffs, RemoveBlob(d)
        PROVE  TypeInv'
    <2>1. d.space \in Space /\ -d.delta \in Int /\ d.cause \in Cause
      BY DEF TypeOK, Diff
    <2>2. QED
      BY <1>1, <1>3, <2>1 DEF RemoveBlob
  <1>4. ASSUME NEW d \in pending, WriteDiff(d)
        PROVE  TypeInv'
    BY <1>4, FS_AddElement, FS_RemoveElement
    DEF WriteDiff, TypeOK, tables, queueVars, reportVars
  <1>5. QED
    BY <1>2, <1>3, <1>4 DEF StorageChange

LEMMA InstructTypeInv == TypeInv /\ Instruct => TypeInv'
  <1> SUFFICES ASSUME TypeInv, Instruct PROVE TypeInv'
    OBVIOUS
  <1> USE DEF TypeInv, Finite
  <1>1. ASSUME NEW i \in Instruction, NEW c, Send(i, c)
        PROVE  TypeInv'
    BY <1>1, LedgerAssumption
    DEF Send, TypeOK, Message, diffVars, tables, reportVars
  <1>2. ASSUME NEW s \in Space, NEW t \in Time, NEW c \in 1..MaxCopies, SendDaily(s, t, c)
        PROVE  TypeInv'
    <2> DEFINE i == [space |-> s, from |-> StartOfYesterday(t), to |-> StartOfToday(t)]
    <2>1. StartOfToday(t) = t - CronDelay /\ Day + CronDelay <= t
      BY <1>2 DEF SendDaily, StartOfToday
    <2>2. i \in Instruction
      BY <2>1, PeriodsAssumption, LedgerAssumption
      DEF StartOfYesterday, Instruction, Time
    <2>3. Send(i, c)
      BY <1>2 DEF SendDaily
    <2>4. QED
      BY <1>1, <2>2, <2>3
  <1>3. ASSUME NEW s \in Space, NEW p \in ManualPeriods, NEW c \in 1..MaxCopies,
               SendManual(s, p, c)
        PROVE  TypeInv'
    <2> DEFINE i == [space |-> s, from |-> p[1], to |-> p[2]]
    <2>1. i \in Instruction
      BY LedgerAssumption DEF Instruction
    <2>2. Send(i, c)
      BY <1>3 DEF SendManual
    <2>3. QED
      BY <1>1, <2>1, <2>2
  <1>4. QED
    BY <1>2, <1>3 DEF Instruct

(* A step of a handler that leaves it with a job leaves the types alone. *)
LEMMA JobStep ==
    ASSUME TypeInv, NEW w \in Worker, NEW job \in Job,
           worker' = [worker EXCEPT ![w] = job],
           UNCHANGED <<now, diffVars, tables, issued, queue, dlq, stream, reportVars>>,
           faults' \in 0..MaxFaults
    PROVE  TypeInv'
  BY DEF TypeInv, Finite, TypeOK, diffVars, tables, reportVars

(* The numbers of a job are integers, and stay so as it reads diffs. *)
LEMMA JobInts ==
    ASSUME NEW job \in Job
    PROVE  /\ job.size \in Int /\ job.usage \in Int /\ job.prev \in Int
           /\ job.msg.body.from \in Int /\ job.msg.body.to \in Int
  <1>1. job.msg.body \in Instruction /\ Time \subseteq Int
    BY DEF Job, Message, Time
  <1>2. QED
    BY <1>1 DEF Job, Instruction

LEMMA ClosedType ==
    ASSUME NEW job \in Job
    PROVE  Closed(job) \in Job
  <1> DEFINE u == job.usage + job.size * (job.msg.body.to - job.prev)
  <1>1. u \in Int
    BY JobInts
  <1>2. Closed(job) = [job EXCEPT !.pc = "previous", !.usage = u]
    BY DEF Closed
  <1> HIDE DEF u
  <1>3. QED
    BY <1>1, <1>2 DEF Job

LEMMA IntegratedType ==
    ASSUME NEW job \in Job, NEW d \in Diff
    PROVE  Integrated(job, d) \in Job
  <1> DEFINE u == job.usage + job.size * (d.at - job.prev)
             z == job.size + d.delta
  <1>1. d.at \in Time /\ d.at \in Int /\ d.delta \in Int /\ d.cause \in Cause
    BY DEF Diff, Time
  <1>2. u \in Int /\ z \in Int
    BY <1>1, JobInts
  <1>3. Integrated(job, d) =
          IF d.at < job.msg.body.from
          THEN [job EXCEPT !.size = z, !.lastAt = d.at, !.lastCause = d.cause]
          ELSE [job EXCEPT !.usage = u, !.size = z, !.prev = d.at,
                           !.lastAt = d.at, !.lastCause = d.cause]
    BY DEF Integrated
  <1> HIDE DEF u, z
  <1>4. QED
    BY <1>1, <1>2, <1>3 DEF Job

LEMMA SpaceHandlerTypeInv ==
    ASSUME TypeInv, NEW w \in Worker, SpaceHandler(w)
    PROVE  TypeInv'
  <1> DEFINE job == worker[w]
  <1>0. faults \in 0..MaxFaults /\ TypeOK
    BY DEF TypeInv, TypeOK
  <1>1. ASSUME NEW m \in queue, Receive(w, m)
        PROVE  TypeInv'
    <2> DEFINE new == [pc |-> "snapshot", msg |-> [m EXCEPT !.receives = @ + 1],
                       found |-> FALSE, base |-> m.body.from, size |-> 0,
                       prev |-> m.body.from, usage |-> 0, lastAt |-> 0, lastCause |-> 0]
    <2>1. [m EXCEPT !.receives = @ + 1] \in Message
      BY <1>0, LedgerAssumption DEF TypeOK, Message
    <2>2. m.body.from \in Time /\ 0 \in Time
      BY <1>0, PeriodsAssumption DEF TypeOK, Message, Instruction, Time
    <2>3. new \in Job
      BY <2>1, <2>2 DEF Job
    <2>4. worker' = [worker EXCEPT ![w] = new] /\ queue' = queue \ {m}
      BY <1>1 DEF Receive
    <2> HIDE DEF new
    <2>5. QED
      BY <1>1, <2>3, <2>4
      DEF Receive, TypeInv, Finite, TypeOK, diffVars, tables, reportVars
  <1>2. CASE FindSnapshot(w)
    <2>1. job \in Job
      BY <1>0, <1>2, PcIsJob DEF FindSnapshot
    <2>2. job.msg.body.from \in Time
      BY <2>1 DEF Job, Message, Instruction
    <2>3. ASSUME NEW p \in SnapshotAtOrBefore(job.msg.body.space, job.msg.body.from),
                 worker' = [worker EXCEPT ![w] =
                    [@ EXCEPT !.pc = "diffs", !.found = TRUE, !.base = p.at,
                              !.size = p.size, !.lastAt = p.at]]
          PROVE  TypeInv'
      <3>1. p \in Snapshot
        BY <1>0, <2>3 DEF SnapshotAtOrBefore, NewestSnapshots, SnapshotsOf, TypeOK
      <3>2. [job EXCEPT !.pc = "diffs", !.found = TRUE, !.base = p.at,
                        !.size = p.size, !.lastAt = p.at] \in Job
        BY <2>1, <3>1 DEF Job, Snapshot
      <3>3. QED
        BY <1>0, <1>2, <2>3, <3>2, JobStep DEF FindSnapshot
    <2>4. ASSUME worker' = [worker EXCEPT ![w] =
                    [@ EXCEPT !.pc = "diffs", !.lastAt = job.msg.body.from]]
          PROVE  TypeInv'
      <3>1. [job EXCEPT !.pc = "diffs", !.lastAt = job.msg.body.from] \in Job
        BY <2>1, <2>2 DEF Job
      <3>2. QED
        BY <1>0, <1>2, <2>4, <3>1, JobStep DEF FindSnapshot
    <2>5. QED
      BY <1>2, <2>3, <2>4 DEF FindSnapshot
  <1>3. CASE ReadDiff(w)
    <2>1. job \in Job
      BY <1>0, <1>3, PcIsJob DEF ReadDiff
    <2>2. PICK d \in Remaining(job) : worker' = [worker EXCEPT ![w] = Integrated(job, d)]
      BY <1>3 DEF ReadDiff
    <2>3. d \in Diff
      BY <1>0 DEF Remaining, TypeOK
    <2>4. Integrated(job, d) \in Job
      BY <2>1, <2>3, IntegratedType
    <2>5. QED
      BY <1>0, <1>3, <2>2, <2>4, JobStep DEF ReadDiff
  <1>4. CASE EndOfDiffs(w)
    <2>1. job \in Job
      BY <1>0, <1>4, PcIsJob DEF EndOfDiffs
    <2>2. Closed(job) \in Job
      BY <2>1, ClosedType
    <2>3. QED
      BY <1>0, <1>4, <2>2, JobStep DEF EndOfDiffs
  <1>5. CASE LoadPrevious(w)
    <2> DEFINE u == job.usage + PreviousCumulative(job)
               new == [job EXCEPT !.pc = "putSnapshot", !.usage = u]
    <2>1. job \in Job
      BY <1>0, <1>5, PcIsJob DEF LoadPrevious
    <2>2. PreviousCumulative(job) \in Int
      BY <1>0, PreviousUsageType DEF PreviousCumulative, TypeOK
    <2>3. u \in Int
      BY <2>1, <2>2, JobInts
    <2>4. worker' = [worker EXCEPT ![w] = new]
      BY <1>5 DEF LoadPrevious
    <2> HIDE DEF u
    <2>5. new \in Job
      BY <2>1, <2>3 DEF Job
    <2> HIDE DEF new
    <2>6. QED
      BY <1>0, <1>5, <2>4, <2>5, JobStep DEF LoadPrevious
  <1>6. CASE PutSnapshot(w)
    <2>1. job \in Job
      BY <1>0, <1>6, PcIsJob DEF PutSnapshot
    <2>2. [job EXCEPT !.pc = "putUsage"] \in Job
      BY <2>1 DEF Job
    <2>3. SnapshotWith(job) \subseteq Snapshot
      BY <1>0, <2>1 DEF SnapshotWith, TypeOK, Snapshot, Job, Message, Instruction
    <2>4. QED
      BY <1>6, <2>2, <2>3 DEF PutSnapshot, TypeInv, Finite, TypeOK, diffVars, reportVars
  <1>7. CASE PutUsage(w)
    <2> DEFINE new == [space |-> job.msg.body.space, from |-> job.msg.body.from,
                       to |-> job.msg.body.to, usage |-> job.usage]
               old == {r \in usage : r.space = new.space /\ r.from = new.from}
    <2>1. job \in Job
      BY <1>0, <1>7, PcIsJob DEF PutUsage
    <2>2. [job EXCEPT !.pc = "delete"] \in Job
      BY <2>1 DEF Job
    <2>3. new \in Usage
      BY <2>1 DEF Job, Message, Instruction, Usage
    <2>4. /\ usage' = (usage \ old) \union {new}
          /\ stream' = IF old = {} THEN Append(stream, new) ELSE stream
      BY <1>7 DEF PutUsage, SameKey, Emitted
    <2> HIDE DEF new, old
    <2>5. stream' \in Seq(Usage) /\ (stream # <<>> => stream' # <<>>)
      BY <1>0, <2>3, <2>4 DEF TypeOK
    <2>6. QED
      BY <1>7, <2>2, <2>3, <2>4, <2>5
      DEF PutUsage, TypeInv, Finite, TypeOK, diffVars, reportVars
  <1>8. CASE Delete(w)
    BY <1>8 DEF Delete, TypeInv, Finite, TypeOK, diffVars, tables, reportVars
  <1>9. QED
    BY <1>1, <1>2, <1>3, <1>4, <1>5, <1>6, <1>7, <1>8 DEF SpaceHandler

(* Consuming the record at the head of the stream. *)
LEMMA SettleType ==
    ASSUME TypeInv, report \in ReportJob, stream # <<>>, NEW how \in Outcome, Settle(how)
    PROVE  /\ settled' \subseteq Settled
           /\ stream' \in Seq(Usage)
           /\ report' = Idle
  <1>1. Reported \in Usage /\ Tail(stream) \in Seq(Usage)
    BY DEF Reported, TypeInv, TypeOK
  <1>2. QED
    BY <1>1 DEF Settle, Settled, Usage, TypeInv, TypeOK

LEMMA AttemptFailsType ==
    ASSUME TypeInv, report \in ReportJob, stream # <<>>, AttemptFails
    PROVE  /\ settled' \subseteq Settled
           /\ stream' \in Seq(Usage)
           /\ report' \in ReportJob \union {Idle}
           /\ report' # Idle => stream' # <<>>
  <1>1. CASE report.attempt < MaxRetry
    BY <1>1, LedgerAssumption DEF AttemptFails, ReportJob, TypeInv, TypeOK
  <1>2. CASE ~(report.attempt < MaxRetry)
    BY <1>2, SettleType DEF AttemptFails, Outcome
  <1>3. QED
    BY <1>1, <1>2

LEMMA DecideType ==
    ASSUME TypeInv, report \in ReportJob, stream # <<>>, NEW delta \in Int, Decide(delta)
    PROVE  /\ settled' \subseteq Settled
           /\ stream' \in Seq(Usage)
           /\ report' \in ReportJob \union {Idle}
           /\ report' # Idle => stream' # <<>>
  <1>1. CASE delta = 0 /\ Settle("zero")
    BY <1>1, SettleType DEF Outcome
  <1>2. CASE delta # 0 /\ report' = [report EXCEPT !.pc = "send", !.delta = delta]
             /\ UNCHANGED <<stream, settled>>
    BY <1>2 DEF ReportJob, TypeInv, TypeOK
  <1>3. QED
    BY <1>1, <1>2 DEF Decide

(* A step of the reporting handler that ends so leaves the types alone. *)
LEMMA ReportStep ==
    ASSUME TypeInv, UNCHANGED <<now, diffVars, tables, queueVars>>,
           faults' \in 0..MaxFaults, meter' \subseteq MeterEvent,
           settled' \subseteq Settled, stream' \in Seq(Usage),
           report' \in ReportJob \union {Idle}, report' # Idle => stream' # <<>>
    PROVE  TypeInv'
  BY DEF TypeInv, Finite, TypeOK, diffVars, tables, queueVars

LEMMA UsageHandlerTypeInv == TypeInv /\ UsageHandler => TypeInv'
  <1> SUFFICES ASSUME TypeInv, UsageHandler PROVE TypeInv'
    OBVIOUS
  <1>0. TypeOK /\ faults \in 0..MaxFaults /\ meter \subseteq MeterEvent
        /\ settled \subseteq Settled /\ stream \in Seq(Usage) /\ usage \subseteq Usage
    BY DEF TypeInv, TypeOK
  <1>1. CASE StartReport
    <2>1. report' \in ReportJob
      BY <1>1, LedgerAssumption DEF StartReport, ReportJob
    <2>2. QED
      BY <1>0, <1>1, <2>1, ReportStep DEF StartReport
  <1>2. CASE LookupPrevious
    <2> DEFINE previous == PreviousUsage(Reported.space, Reported.from)
    <2>1. report \in ReportJob /\ stream # <<>> /\ Reported \in Usage
      BY <1>0, <1>2, ReportIsJob DEF LookupPrevious
    <2>2. Delta(Reported, previous.usage) \in Int
      BY <1>0, <2>1, PreviousUsageType, DeltaType
    <2>3. CASE Decide(Delta(Reported, previous.usage))
      BY <1>0, <1>2, <2>1, <2>2, <2>3, DecideType, ReportStep DEF LookupPrevious
    <2>4. CASE report' = [report EXCEPT !.pc = "check"] /\ UNCHANGED <<stream, settled>>
      <3>1. report' \in ReportJob
        BY <2>1, <2>4 DEF ReportJob
      <3>2. QED
        BY <1>0, <1>2, <2>1, <2>4, <3>1, ReportStep DEF LookupPrevious
    <2>5. QED
      BY <1>2, <2>3, <2>4 DEF LookupPrevious
  <1>3. CASE CheckSnapshot
    <2>1. report \in ReportJob /\ stream # <<>> /\ Reported \in Usage
      BY <1>0, <1>3, ReportIsJob DEF CheckSnapshot
    <2>2. Delta(Reported, 0) \in Int
      BY <1>0, <2>1, DeltaType
    <2>3. CASE AttemptFails
      BY <1>0, <1>3, <2>1, <2>3, AttemptFailsType, ReportStep DEF CheckSnapshot
    <2>4. CASE Decide(Delta(Reported, 0))
      BY <1>0, <1>3, <2>1, <2>2, <2>4, DecideType, ReportStep DEF CheckSnapshot
    <2>5. QED
      BY <1>3, <2>3, <2>4 DEF CheckSnapshot
  <1>4. CASE SendMeterEvent
    <2>1. report \in ReportJob /\ stream # <<>> /\ Reported \in Usage
      BY <1>0, <1>4, ReportIsJob DEF SendMeterEvent
    <2>2. report' \in ReportJob
      BY <1>4, <2>1 DEF SendMeterEvent, ReportJob
    <2>3. meter' \subseteq MeterEvent
      BY <1>0, <1>4, <2>1 DEF SendMeterEvent, MeterWith, MeterEvent, Usage, ReportJob
    <2>4. QED
      BY <1>0, <1>4, <2>1, <2>2, <2>3, ReportStep DEF SendMeterEvent
  <1>5. CASE EndReport
    <2>1. report \in ReportJob /\ stream # <<>>
      BY <1>0, <1>5, ReportIsJob DEF EndReport
    <2>2. QED
      BY <1>0, <1>5, <2>1, SettleType, ReportStep DEF EndReport, Outcome
  <1>6. QED
    BY <1>1, <1>2, <1>3, <1>4, <1>5 DEF UsageHandler

LEMMA FailureTypeInv == TypeInv /\ Failure => TypeInv'
  <1> SUFFICES ASSUME TypeInv, Failure PROVE TypeInv'
    OBVIOUS
  <1>0. TypeOK /\ meter \subseteq MeterEvent
    BY DEF TypeInv, TypeOK
  <1>1. faults < MaxFaults => faults + 1 \in 0..MaxFaults
    BY <1>0, LedgerAssumption DEF TypeOK
  <1>2. ASSUME NEW w \in Worker, SpaceHandlerFails(w)
        PROVE  TypeInv'
    <2> DEFINE m == worker[w].msg
    <2>1. m \in Message
      BY <1>0, <1>2, WorkerIsJob DEF SpaceHandlerFails, Job
    <2>2. /\ queue' \subseteq {x \in Message : x.receives < MaxReceive}
          /\ dlq' \subseteq Instruction
      BY <1>0, <1>2, <2>1 DEF SpaceHandlerFails, Returned, TypeOK, Message
    <2>3. QED
      BY <1>1, <1>2, <2>2
      DEF SpaceHandlerFails, TypeInv, Finite, TypeOK, diffVars, tables, reportVars
  <1>3. ASSUME NEW w \in Worker, DiffListFails(w)
        PROVE  TypeInv'
    <2>1. worker[w] \in Job
      BY <1>0, <1>3, PcIsJob DEF DiffListFails
    <2>2. Closed(worker[w]) \in Job
      BY <2>1, ClosedType
    <2>3. QED
      BY <1>1, <1>3, <2>2, JobStep DEF DiffListFails
  <1>4. CASE SkipInactive
    <2>1. report \in ReportJob /\ stream # <<>>
      BY <1>0, <1>4, ReportIsJob DEF SkipInactive
    <2>2. QED
      BY <1>0, <1>1, <1>4, <2>1, SettleType, ReportStep DEF SkipInactive, Outcome
  <1>5. CASE UsageHandlerFails
    <2>1. report \in ReportJob /\ stream # <<>>
      BY <1>0, <1>5 DEF UsageHandlerFails, TypeOK
    <2>2. QED
      BY <1>0, <1>1, <1>5, <2>1, AttemptFailsType, ReportStep DEF UsageHandlerFails
  <1>6. QED
    BY <1>2, <1>3, <1>4, <1>5 DEF Failure

LEMMA NextTypeInv == TypeInv /\ [Next]_vars => TypeInv'
  <1> SUFFICES ASSUME TypeInv, [Next]_vars PROVE TypeInv'
    OBVIOUS
  <1>1. CASE Tick
    BY <1>1, PeriodsAssumption
    DEF Tick, TypeInv, Finite, TypeOK, Time, diffVars, tables, queueVars, reportVars
  <1>2. CASE UNCHANGED vars
    BY <1>2 DEF vars, TypeInv, Finite, TypeOK
  <1>3. QED
    BY <1>1, <1>2, StorageChangeTypeInv, InstructTypeInv, SpaceHandlerTypeInv,
       UsageHandlerTypeInv, FailureTypeInv DEF Next

(***************************************************************************)
(* Every reachable state is well typed: the numbers the handlers compute   *)
(* are integers, an average never divides by zero, no message is received  *)
(* more often than the queue allows, and a report is of a record that is   *)
(* still in the stream.                                                    *)
(***************************************************************************)
THEOREM TypeCorrect == Spec => []TypeOK
  <1>1. TypeInv => TypeOK
    BY DEF TypeInv
  <1>2. QED
    BY <1>1, InitTypeInv, NextTypeInv, PTL DEF Spec

-----------------------------------------------------------------------------
(* What a step may do to the tables, the queue and the stream.             *)

(* The handler step under way, as far as the invariants below look at it. *)
LEMMA PutUsageEffect ==
    ASSUME TypeOK, NEW w \in Worker, PutUsage(w)
    PROVE  LET i == worker[w].msg.body
               new == [space |-> i.space, from |-> i.from, to |-> i.to,
                       usage |-> worker[w].usage]
               old == {r \in usage : SameKey(r, i)}
           IN  /\ worker[w] \in Job
               /\ new \in Usage
               /\ SameKey(new, i)
               /\ usage' = (usage \ old) \union {new}
               /\ stream' = IF old = {} THEN Append(stream, new) ELSE stream
               /\ UNCHANGED <<settled, snapshots>>
  <1>1. worker[w] \in Job
    BY PcIsJob DEF PutUsage
  <1>2. [space |-> worker[w].msg.body.space, from |-> worker[w].msg.body.from,
         to |-> worker[w].msg.body.to, usage |-> worker[w].usage] \in Usage
    BY <1>1 DEF Job, Message, Instruction, Usage
  <1>3. QED
    BY <1>1, <1>2 DEF PutUsage, Emitted, SameKey, reportVars

(* Only PutUsage changes the usage table. *)
LEMMA UsageChangesByPutUsage ==
    ASSUME [Next]_vars, \A w \in Worker : ~PutUsage(w)
    PROVE  UNCHANGED usage
  BY DEF Next, vars, Tick, StorageChange, AddBlob, RemoveBlob, Accept, WriteDiff, Instruct,
     SendDaily, SendManual, Send, SpaceHandler, Receive, FindSnapshot, ReadDiff, EndOfDiffs,
     LoadPrevious, PutSnapshot, Delete, UsageHandler, StartReport, LookupPrevious,
     CheckSnapshot, SendMeterEvent, EndReport, Failure, SpaceHandlerFails, DiffListFails,
     SkipInactive, UsageHandlerFails, tables

(* A key that has a usage record keeps one. *)
LEMMA RecordedStays ==
    ASSUME TypeOK, [Next]_vars, NEW i, Recorded(i)
    PROVE  Recorded(i)'
  <1>1. ASSUME NEW w \in Worker, PutUsage(w)
        PROVE  Recorded(i)'
    <2>1. PICK r \in usage : SameKey(r, i)
      BY DEF Recorded
    <2>2. CASE SameKey(r, worker[w].msg.body)
      BY <1>1, <2>1, <2>2, PutUsageEffect DEF Recorded, SameKey
    <2>3. CASE ~SameKey(r, worker[w].msg.body)
      BY <1>1, <2>1, <2>3, PutUsageEffect DEF Recorded
    <2>4. QED
      BY <2>2, <2>3
  <1>2. (\A w \in Worker : ~PutUsage(w)) => UNCHANGED usage
    BY UsageChangesByPutUsage
  <1>3. QED
    BY <1>1, <1>2 DEF Recorded

(* A date that has a snapshot of a space keeps one. *)
LEMMA SnapshotStays ==
    ASSUME TypeOK, [Next]_vars, NEW s, NEW t,
           \E p \in snapshots : p.space = s /\ p.at = t
    PROVE  \E p \in snapshots' : p.space = s /\ p.at = t
  <1>1. ASSUME NEW w \in Worker, PutSnapshot(w)
        PROVE  \E p \in snapshots' : p.space = s /\ p.at = t
    <2> DEFINE i == worker[w].msg.body
               new == [space |-> i.space, at |-> i.to, size |-> worker[w].size]
    <2>1. snapshots' = {p \in snapshots : ~(p.space = i.space /\ p.at = i.to)} \union {new}
      BY <1>1 DEF PutSnapshot, SnapshotWith
    <2>2. PICK p \in snapshots : p.space = s /\ p.at = t
      OBVIOUS
    <2>3. CASE s = i.space /\ t = i.to
      <3>1. new \in snapshots' /\ new.space = i.space /\ new.at = i.to
        BY <2>1
      <3>2. QED
        BY <2>3, <3>1
    <2>4. CASE ~(s = i.space /\ t = i.to)
      BY <2>1, <2>2, <2>4
    <2>5. QED
      BY <2>3, <2>4
  <1>2. (\A w \in Worker : ~PutSnapshot(w)) => UNCHANGED snapshots
    BY DEF Next, vars, Tick, StorageChange, AddBlob, RemoveBlob, Accept, WriteDiff, Instruct,
       SendDaily, SendManual, Send, SpaceHandler, Receive, FindSnapshot, ReadDiff, EndOfDiffs,
       LoadPrevious, PutUsage, Delete, UsageHandler, StartReport, LookupPrevious,
       CheckSnapshot, SendMeterEvent, EndReport, Failure, SpaceHandlerFails, DiffListFails,
       SkipInactive, UsageHandlerFails, tables
  <1>3. QED
    BY <1>1, <1>2

-----------------------------------------------------------------------------
(* A step of a handler that keeps its message, ending at pc. *)
Advances(w, pc) ==
    /\ worker[w] \in Job /\ worker[w] # Idle
    /\ worker'[w].pc = pc /\ worker'[w].msg = worker[w].msg /\ worker'[w] # Idle
    /\ \A v \in Worker : v # w => worker'[v] = worker[v]

LEMMA AdvancesTo ==
    ASSUME TypeOK, NEW w \in Worker, worker[w] \in Job, worker[w] # Idle,
           NEW job, worker' = [worker EXCEPT ![w] = job],
           job.msg = worker[w].msg, job.pc # "idle"
    PROVE  Advances(w, job.pc)
  <1>1. /\ worker'[w] = job
        /\ \A v \in Worker : v # w => worker'[v] = worker[v]
    BY DEF TypeOK
  <1>2. QED
    BY <1>1 DEF Advances, Idle

LEMMA FindSnapshotAdvances ==
    ASSUME TypeOK, NEW w \in Worker, FindSnapshot(w)
    PROVE  Advances(w, "diffs")
  <1> DEFINE job == worker[w]
             i == job.msg.body
             snap == SnapshotAtOrBefore(i.space, i.from)
             from(p) == [job EXCEPT !.pc = "diffs", !.found = TRUE, !.base = p.at,
                                    !.size = p.size, !.lastAt = p.at]
             empty == [job EXCEPT !.pc = "diffs", !.lastAt = i.from]
  <1>1. job \in Job /\ job # Idle
    BY PcIsJob DEF FindSnapshot
  <1>2. \A p : from(p).pc = "diffs" /\ from(p).msg = job.msg
    BY <1>1 DEF Job
  <1>3. empty.pc = "diffs" /\ empty.msg = job.msg
    BY <1>1 DEF Job
  <1>4. \/ \E p \in snap : worker' = [worker EXCEPT ![w] = from(p)]
        \/ worker' = [worker EXCEPT ![w] = empty]
    BY DEF FindSnapshot
  <1> HIDE DEF snap, from, empty
  <1>5. ASSUME NEW p, worker' = [worker EXCEPT ![w] = from(p)]
        PROVE  Advances(w, "diffs")
    BY <1>1, <1>2, <1>5, AdvancesTo
  <1>6. ASSUME worker' = [worker EXCEPT ![w] = empty]
        PROVE  Advances(w, "diffs")
    BY <1>1, <1>3, <1>6, AdvancesTo
  <1>7. QED
    BY <1>4, <1>5, <1>6

LEMMA ReadDiffAdvances ==
    ASSUME TypeOK, NEW w \in Worker, ReadDiff(w)
    PROVE  Advances(w, "diffs")
  <1> DEFINE job == worker[w]
  <1>1. job \in Job /\ job # Idle /\ job.pc = "diffs"
    BY PcIsJob DEF ReadDiff
  <1>2. PICK d : worker' = [worker EXCEPT ![w] = Integrated(job, d)]
    BY DEF ReadDiff
  <1>3. Integrated(job, d).pc = "diffs" /\ Integrated(job, d).msg = job.msg
    BY <1>1 DEF Integrated, Job
  <1>4. QED
    BY <1>1, <1>2, <1>3, AdvancesTo

LEMMA ClosedAdvances ==
    ASSUME TypeOK, NEW w \in Worker, worker[w].pc = "diffs",
           worker' = [worker EXCEPT ![w] = Closed(worker[w])]
    PROVE  Advances(w, "previous")
  <1>1. worker[w] \in Job /\ worker[w] # Idle
    BY PcIsJob
  <1>2. Closed(worker[w]).pc = "previous" /\ Closed(worker[w]).msg = worker[w].msg
    BY <1>1 DEF Closed, Job
  <1>3. QED
    BY <1>1, <1>2, AdvancesTo

LEMMA LoadPreviousAdvances ==
    ASSUME TypeOK, NEW w \in Worker, LoadPrevious(w)
    PROVE  Advances(w, "putSnapshot")
  <1> DEFINE job == worker[w]
             total == job.usage + PreviousCumulative(job)
             new == [job EXCEPT !.pc = "putSnapshot", !.usage = total]
  <1>1. job \in Job /\ job # Idle
    BY PcIsJob DEF LoadPrevious
  <1>2. worker' = [worker EXCEPT ![w] = new]
    BY DEF LoadPrevious
  <1> HIDE DEF total
  <1>3. new.pc = "putSnapshot" /\ new.msg = job.msg
    BY <1>1 DEF Job
  <1> HIDE DEF new
  <1>4. QED
    BY <1>1, <1>2, <1>3, AdvancesTo

LEMMA PutSnapshotAdvances ==
    ASSUME TypeOK, NEW w \in Worker, PutSnapshot(w)
    PROVE  Advances(w, "putUsage")
  <1> DEFINE new == [worker[w] EXCEPT !.pc = "putUsage"]
  <1>1. worker[w] \in Job /\ worker[w] # Idle
    BY PcIsJob DEF PutSnapshot
  <1>2. worker' = [worker EXCEPT ![w] = new]
    BY DEF PutSnapshot
  <1>3. new.pc = "putUsage" /\ new.msg = worker[w].msg
    BY <1>1 DEF Job
  <1> HIDE DEF new
  <1>4. QED
    BY <1>1, <1>2, <1>3, AdvancesTo

LEMMA PutUsageAdvances ==
    ASSUME TypeOK, NEW w \in Worker, PutUsage(w)
    PROVE  Advances(w, "delete")
  <1> DEFINE new == [worker[w] EXCEPT !.pc = "delete"]
  <1>1. worker[w] \in Job /\ worker[w] # Idle
    BY PcIsJob DEF PutUsage
  <1>2. worker' = [worker EXCEPT ![w] = new]
    BY DEF PutUsage
  <1>3. new.pc = "delete" /\ new.msg = worker[w].msg
    BY <1>1 DEF Job
  <1> HIDE DEF new
  <1>4. QED
    BY <1>1, <1>2, <1>3, AdvancesTo

(* The steps that begin and end the work on a message. *)
LEMMA ReceiveBegins ==
    ASSUME TypeOK, NEW w \in Worker, NEW m \in queue, Receive(w, m)
    PROVE  /\ worker[w] = Idle
           /\ worker'[w] # Idle /\ worker'[w].pc = "snapshot" /\ worker'[w].msg.body = m.body
           /\ \A v \in Worker : v # w => worker'[v] = worker[v]
           /\ queue' = queue \ {m} /\ UNCHANGED <<issued, dlq>>
  <1> DEFINE msg == [m EXCEPT !.receives = @ + 1]
             new == [pc |-> "snapshot", msg |-> msg,
                     found |-> FALSE, base |-> m.body.from, size |-> 0,
                     prev |-> m.body.from, usage |-> 0, lastAt |-> 0, lastCause |-> 0]
  <1>1. worker' = [worker EXCEPT ![w] = new]
    BY DEF Receive
  <1>2. msg.body = m.body
    BY DEF TypeOK, Message
  <1> HIDE DEF msg
  <1>3. new.pc = "snapshot" /\ new.msg = msg
    OBVIOUS
  <1> HIDE DEF new
  <1>4. /\ worker'[w] = new
        /\ \A v \in Worker : v # w => worker'[v] = worker[v]
    BY <1>1 DEF TypeOK
  <1>5. QED
    BY <1>2, <1>3, <1>4 DEF Receive, Idle

-----------------------------------------------------------------------------
(* No instruction is lost. The strengthening: a handler that is about to   *)
(* delete its message has recorded the period.                             *)

DeletedIsRecorded ==
    \A w \in Worker : worker[w].pc = "delete" => Recorded(worker[w].msg.body)

InstructionInv == NoInstructionLost /\ DeletedIsRecorded

(* A step of a handler that keeps its message keeps the invariant. *)
LEMMA InstructionAdvances ==
    ASSUME InstructionInv, \A i : Recorded(i) => Recorded(i)',
           NEW w \in Worker, NEW pc, Advances(w, pc),
           pc = "delete" => Recorded(worker[w].msg.body)',
           UNCHANGED <<issued, queue, dlq>>
    PROVE  InstructionInv'
  <1> USE DEF InstructionInv, NoInstructionLost, DeletedIsRecorded
  <1>1. \A i : InProgress(i) => InProgress(i)'
    <2> SUFFICES ASSUME NEW i, InProgress(i) PROVE InProgress(i)'
      OBVIOUS
    <2>1. ASSUME NEW v \in Worker, worker[v] # Idle, worker[v].msg.body = i
          PROVE  worker'[v] # Idle /\ worker'[v].msg.body = i
      BY <2>1 DEF Advances
    <2>2. QED
      BY <2>1 DEF InProgress
  <1>2. NoInstructionLost'
    BY <1>1
  <1>3. ASSUME NEW v \in Worker, worker'[v].pc = "delete"
        PROVE  Recorded(worker[v].msg.body)'
    <2>1. CASE v = w
      BY <1>3, <2>1 DEF Advances
    <2>2. CASE v # w
      <3>1. worker'[v] = worker[v]
        BY <2>2 DEF Advances
      <3>2. PICK i : i = worker[v].msg.body
        OBVIOUS
      <3>3. Recorded(i)
        BY <1>3, <3>1, <3>2
      <3>4. Recorded(i)'
        BY <3>3
      <3>5. QED
        BY <3>1, <3>2, <3>4
    <2>3. QED
      BY <2>1, <2>2
  <1>4. QED
    BY <1>2, <1>3

LEMMA InstructionStep ==
    ASSUME TypeInv, InstructionInv, [Next]_vars
    PROVE  InstructionInv'
  <1> USE DEF InstructionInv, NoInstructionLost, DeletedIsRecorded
  <1>0. TypeOK
    BY DEF TypeInv
  <1>1. \A i : Recorded(i) => Recorded(i)'
    BY <1>0, RecordedStays
  <1>2. ASSUME UNCHANGED <<issued, queue, worker, dlq>>
        PROVE  InstructionInv'
    BY <1>1, <1>2 DEF InProgress
  <1>3. ASSUME NEW i, NEW c, Send(i, c)
        PROVE  InstructionInv'
    <2>1. /\ issued' = issued \union {[body |-> i, copy |-> c]}
          /\ queue' = queue \union {[body |-> i, copy |-> c, receives |-> 0]}
          /\ UNCHANGED <<worker, dlq>>
      BY <1>3 DEF Send
    <2>2. InProgress(i)' /\ \A j : InProgress(j) => InProgress(j)'
      <3> DEFINE new == [body |-> i, copy |-> c, receives |-> 0]
      <3>1. new \in queue' /\ new.body = i
        BY <2>1
      <3>2. queue \subseteq queue' /\ worker' = worker
        BY <2>1
      <3>3. QED
        BY <3>1, <3>2 DEF InProgress
    <2>3. \A j \in issued' : j \in issued \/ j.body = i
      BY <2>1
    <2>4. NoInstructionLost'
      <3> SUFFICES ASSUME NEW j \in issued'
                   PROVE  Recorded(j.body)' \/ InProgress(j.body)' \/ j.body \in dlq'
        OBVIOUS
      <3>1. CASE j \in issued
        <4>1. Recorded(j.body) \/ InProgress(j.body) \/ j.body \in dlq
          BY <3>1
        <4>2. QED
          BY <1>1, <2>1, <2>2, <4>1
      <3>2. CASE j.body = i
        BY <2>2, <3>2
      <3>3. QED
        BY <2>3, <3>1, <3>2
    <2>5. DeletedIsRecorded'
      BY <1>1, <2>1 DEF Recorded
    <2>6. QED
      BY <2>4, <2>5
  <1>4. ASSUME NEW w \in Worker, SpaceHandler(w)
        PROVE  InstructionInv'
    <2>1. ASSUME NEW m \in queue, Receive(w, m)
          PROVE  InstructionInv'
      <3>1. /\ worker'[w] # Idle /\ worker'[w].pc # "delete" /\ worker'[w].msg.body = m.body
            /\ \A v \in Worker : v # w => worker'[v] = worker[v]
            /\ worker[w] = Idle
            /\ queue' = queue \ {m} /\ UNCHANGED <<issued, dlq>>
        BY <1>0, <2>1, ReceiveBegins
      <3>2. \A i : InProgress(i) => InProgress(i)'
        BY <3>1 DEF InProgress
      <3>3. QED
        BY <1>1, <3>1, <3>2
    <2>2. CASE FindSnapshot(w)
      BY <1>0, <1>1, <2>2, FindSnapshotAdvances, InstructionAdvances DEF FindSnapshot
    <2>3. CASE ReadDiff(w)
      BY <1>0, <1>1, <2>3, ReadDiffAdvances, InstructionAdvances DEF ReadDiff
    <2>4. CASE EndOfDiffs(w)
      BY <1>0, <1>1, <2>4, ClosedAdvances, InstructionAdvances DEF EndOfDiffs
    <2>5. CASE LoadPrevious(w)
      BY <1>0, <1>1, <2>5, LoadPreviousAdvances, InstructionAdvances DEF LoadPrevious
    <2>6. CASE PutSnapshot(w)
      BY <1>0, <1>1, <2>6, PutSnapshotAdvances, InstructionAdvances DEF PutSnapshot
    <2>7. CASE PutUsage(w)
      <3>1. Recorded(worker[w].msg.body)'
        <4>1. worker'[w].msg = worker[w].msg
          BY <1>0, <2>7, PutUsageAdvances DEF Advances
        <4>2. \E r \in usage' : SameKey(r, worker[w].msg.body)
          BY <1>0, <2>7, PutUsageEffect
        <4>3. QED
          BY <4>1, <4>2 DEF Recorded
      <3>2. QED
        BY <1>0, <1>1, <2>7, <3>1, PutUsageAdvances, InstructionAdvances DEF PutUsage
    <2>8. CASE Delete(w)
      <3>1. Recorded(worker[w].msg.body)
        BY <2>8 DEF Delete
      <3>2. /\ worker'[w] = Idle
            /\ \A v \in Worker : v # w => worker'[v] = worker[v]
        BY <1>0, <2>8 DEF Delete, TypeOK
      <3>3. \A i : InProgress(i) => InProgress(i)' \/ Recorded(i)
        BY <2>8, <3>1, <3>2 DEF InProgress, Delete
      <3>4. QED
        BY <1>1, <2>8, <3>2, <3>3 DEF Delete, Idle
    <2>9. QED
      BY <1>4, <2>1, <2>2, <2>3, <2>4, <2>5, <2>6, <2>7, <2>8 DEF SpaceHandler
  <1>5. ASSUME NEW w \in Worker, SpaceHandlerFails(w)
        PROVE  InstructionInv'
    <2> DEFINE m == worker[w].msg
    <2>1. /\ worker'[w] = Idle
          /\ \A v \in Worker : v # w => worker'[v] = worker[v]
      BY <1>0, <1>5 DEF SpaceHandlerFails, TypeOK
    <2>2. /\ queue \subseteq queue' /\ dlq \subseteq dlq'
          /\ m \in queue' \/ m.body \in dlq'
          /\ UNCHANGED issued
      BY <1>5 DEF SpaceHandlerFails, Returned
    <2>3. \A i : InProgress(i) => InProgress(i)' \/ i \in dlq'
      BY <2>1, <2>2 DEF InProgress
    <2>4. QED
      BY <1>1, <2>1, <2>2, <2>3 DEF Idle
  <1>6. ASSUME NEW w \in Worker, DiffListFails(w)
        PROVE  InstructionInv'
    BY <1>0, <1>1, <1>6, ClosedAdvances, InstructionAdvances DEF DiffListFails
  <1>7. Tick \/ StorageChange \/ UsageHandler \/ SkipInactive \/ UsageHandlerFails
          \/ UNCHANGED vars
        => UNCHANGED <<issued, queue, worker, dlq>>
    BY DEF Tick, StorageChange, AddBlob, RemoveBlob, Accept, WriteDiff, UsageHandler,
       StartReport, LookupPrevious, CheckSnapshot, SendMeterEvent, EndReport, SkipInactive,
       UsageHandlerFails, vars, queueVars
  <1>8. Instruct => \E i, c : Send(i, c)
    BY DEF Instruct, SendDaily, SendManual
  <1>9. QED
    BY <1>2, <1>3, <1>4, <1>5, <1>6, <1>7, <1>8 DEF Next, Failure

(***************************************************************************)
(* An instruction that the queue accepted is never lost, whatever fails    *)
(* and however often, until it is recorded or dead-lettered.               *)
(***************************************************************************)
THEOREM InstructionsAreKept == Spec => []NoInstructionLost
  <1>1. Init => InstructionInv
    BY DEF Init, InstructionInv, NoInstructionLost, DeletedIsRecorded, Idle
  <1>2. TypeInv /\ InstructionInv /\ [Next]_vars => InstructionInv'
    BY InstructionStep
  <1>3. InstructionInv => NoInstructionLost
    BY DEF InstructionInv
  <1>4. QED
    BY <1>1, <1>2, <1>3, InitTypeInv, NextTypeInv, PTL DEF Spec

-----------------------------------------------------------------------------
(* The snapshot comes first. The strengthening: a handler that is about to *)
(* put a usage record has put the snapshot at the end of its period.       *)

HasSnapshot(s, t) == \E p \in snapshots : p.space = s /\ p.at = t

PutUsageHasSnapshot ==
    \A w \in Worker :
        worker[w].pc = "putUsage"
            => HasSnapshot(worker[w].msg.body.space, worker[w].msg.body.to)

SnapshotInv == SnapshotBeforeUsage /\ PutUsageHasSnapshot

(* The only step that brings a handler to putUsage is PutSnapshot. *)
LEMMA PutUsageAfterPutSnapshot ==
    ASSUME TypeOK, [Next]_vars, NEW v \in Worker, worker'[v].pc = "putUsage"
    PROVE  worker'[v] = worker[v] \/ (PutSnapshot(v) /\ Advances(v, "putUsage"))
  <1>1. ASSUME NEW w \in Worker, SpaceHandler(w)
        PROVE  worker'[v] = worker[v] \/ (PutSnapshot(v) /\ Advances(v, "putUsage"))
    <2>1. ASSUME NEW m \in queue, Receive(w, m)
          PROVE  worker'[v] = worker[v]
      BY <2>1, ReceiveBegins
    <2>2. CASE FindSnapshot(w)
      BY <2>2, FindSnapshotAdvances DEF Advances
    <2>3. CASE ReadDiff(w)
      BY <2>3, ReadDiffAdvances DEF Advances
    <2>4. CASE EndOfDiffs(w)
      BY <2>4, ClosedAdvances DEF Advances, EndOfDiffs
    <2>5. CASE LoadPrevious(w)
      BY <2>5, LoadPreviousAdvances DEF Advances
    <2>6. CASE PutSnapshot(w)
      BY <2>6, PutSnapshotAdvances DEF Advances
    <2>7. CASE PutUsage(w)
      BY <2>7, PutUsageAdvances DEF Advances
    <2>8. CASE Delete(w)
      BY <2>8 DEF Delete, TypeOK, Idle
    <2>9. QED
      BY <1>1, <2>1, <2>2, <2>3, <2>4, <2>5, <2>6, <2>7, <2>8 DEF SpaceHandler
  <1>2. ASSUME NEW w \in Worker, SpaceHandlerFails(w)
        PROVE  worker'[v] = worker[v]
    BY <1>2 DEF SpaceHandlerFails, TypeOK, Idle
  <1>3. ASSUME NEW w \in Worker, DiffListFails(w)
        PROVE  worker'[v] = worker[v]
    BY <1>3, ClosedAdvances DEF Advances, DiffListFails
  <1>4. Tick \/ StorageChange \/ Instruct \/ UsageHandler \/ SkipInactive
          \/ UsageHandlerFails \/ UNCHANGED vars
        => UNCHANGED worker
    BY DEF Tick, StorageChange, AddBlob, RemoveBlob, Accept, WriteDiff, Instruct, SendDaily,
       SendManual, Send, UsageHandler, StartReport, LookupPrevious, CheckSnapshot,
       SendMeterEvent, EndReport, SkipInactive, UsageHandlerFails, vars, queueVars
  <1>5. QED
    BY <1>1, <1>2, <1>3, <1>4 DEF Next, Failure

LEMMA SnapshotStep ==
    ASSUME TypeOK, SnapshotInv, [Next]_vars
    PROVE  SnapshotInv'
  <1> USE DEF SnapshotInv
  <1>1. ASSUME NEW s, NEW t, HasSnapshot(s, t)
        PROVE  HasSnapshot(s, t)'
    BY <1>1, SnapshotStays DEF HasSnapshot
  <1>2. SnapshotBeforeUsage'
    <2>1. SUFFICES ASSUME NEW r \in usage'
                   PROVE  HasSnapshot(r.space, r.to)'
      BY DEF SnapshotBeforeUsage, HasSnapshot
    <2>2. CASE r \in usage
      BY <1>1, <2>2 DEF SnapshotBeforeUsage, HasSnapshot
    <2>3. CASE r \notin usage
      <3>1. PICK w \in Worker : PutUsage(w)
        BY <2>3, UsageChangesByPutUsage
      <3> DEFINE i == worker[w].msg.body
                 new == [space |-> i.space, from |-> i.from, to |-> i.to,
                         usage |-> worker[w].usage]
      <3>2. r.space = i.space /\ r.to = i.to
        <4>1. r = new
          BY <2>1, <2>3, <3>1, PutUsageEffect
        <4>2. QED
          BY <4>1
      <3>3. worker[w].pc = "putUsage"
        BY <3>1 DEF PutUsage
      <3>4. HasSnapshot(r.space, r.to)
        BY <3>2, <3>3 DEF PutUsageHasSnapshot
      <3>5. QED
        BY <1>1, <3>4
    <2>4. QED
      BY <2>2, <2>3
  <1>3. PutUsageHasSnapshot'
    <2>1. SUFFICES ASSUME NEW v \in Worker, worker'[v].pc = "putUsage"
                   PROVE  \E p \in snapshots' : /\ p.space = worker'[v].msg.body.space
                                                /\ p.at = worker'[v].msg.body.to
      BY DEF PutUsageHasSnapshot, HasSnapshot
    <2>2. CASE worker'[v] = worker[v]
      BY <1>1, <2>1, <2>2 DEF PutUsageHasSnapshot, HasSnapshot
    <2>3. CASE PutSnapshot(v) /\ Advances(v, "putUsage")
      <3> DEFINE i == worker[v].msg.body
                 new == [space |-> i.space, at |-> i.to, size |-> worker[v].size]
      <3>1. new \in snapshots' /\ new.space = i.space /\ new.at = i.to
        BY <2>3 DEF PutSnapshot, SnapshotWith
      <3>2. worker'[v].msg = worker[v].msg
        BY <2>3 DEF Advances
      <3>3. QED
        BY <3>1, <3>2
    <2>4. QED
      BY <2>1, <2>2, <2>3, PutUsageAfterPutSnapshot
  <1>4. QED
    BY <1>2, <1>3

(***************************************************************************)
(* No usage record is without the snapshot at its end, whatever handlers   *)
(* run at once and wherever they fail: a missing snapshot does say that    *)
(* the period before was never billed.                                     *)
(***************************************************************************)
THEOREM SnapshotComesFirst == Spec => []SnapshotBeforeUsage
  <1>1. Init => SnapshotInv
    BY DEF Init, SnapshotInv, SnapshotBeforeUsage, PutUsageHasSnapshot, Idle
  <1>2. TypeInv /\ SnapshotInv /\ [Next]_vars => SnapshotInv'
    BY SnapshotStep DEF TypeInv
  <1>3. SnapshotInv => SnapshotBeforeUsage
    BY DEF SnapshotInv
  <1>4. QED
    BY <1>1, <1>2, <1>3, InitTypeInv, NextTypeInv, PTL DEF Spec

-----------------------------------------------------------------------------
(* Reporting. The strengthening: what waits in the stream or is settled    *)
(* has a usage record, so the record of a new key is neither.              *)

StreamRecorded == \A k \in DOMAIN stream : Recorded(stream[k])

SettledRecorded == \A x \in settled : Recorded(x)

ReportingInv == UsageAccounted /\ EmittedOnce /\ StreamRecorded /\ SettledRecorded

(* A step that puts no usage record settles the head of the stream or      *)
(* leaves the stream alone.                                                *)
LEMMA ReportingFrame ==
    ASSUME TypeOK, [Next]_vars, \A w \in Worker : ~PutUsage(w)
    PROVE  /\ UNCHANGED usage
           /\ \/ UNCHANGED <<stream, settled>>
              \/ stream # <<>> /\ \E how \in Outcome : Settle(how)
  <1>1. AttemptFails => UNCHANGED <<stream, settled>> \/ Settle("dead")
    BY DEF AttemptFails
  <1>2. \A delta : Decide(delta) => UNCHANGED <<stream, settled>> \/ Settle("zero")
    BY DEF Decide
  <1>3. LookupPrevious \/ CheckSnapshot \/ EndReport \/ SkipInactive \/ UsageHandlerFails
          => stream # <<>>
    BY ReportIsJob DEF LookupPrevious, CheckSnapshot, EndReport, SkipInactive,
       UsageHandlerFails, TypeOK, Idle
  <1>4. UsageHandler \/ SkipInactive \/ UsageHandlerFails
          => \/ UNCHANGED <<stream, settled>>
             \/ stream # <<>> /\ \E how \in Outcome : Settle(how)
    BY <1>1, <1>2, <1>3 DEF UsageHandler, StartReport, LookupPrevious, CheckSnapshot,
       SendMeterEvent, EndReport, SkipInactive, UsageHandlerFails, Outcome
  <1>5. Tick \/ StorageChange \/ Instruct \/ UNCHANGED vars
          \/ (\E w \in Worker : SpaceHandler(w) \/ SpaceHandlerFails(w) \/ DiffListFails(w))
        => UNCHANGED <<stream, settled>>
    BY DEF Tick, StorageChange, AddBlob, RemoveBlob, Accept, WriteDiff, Instruct, SendDaily,
       SendManual, Send, SpaceHandler, Receive, FindSnapshot, ReadDiff, EndOfDiffs,
       LoadPrevious, PutSnapshot, Delete, SpaceHandlerFails, DiffListFails, vars, reportVars
  <1>6. QED
    BY <1>4, <1>5, UsageChangesByPutUsage DEF Next, Failure

LEMMA ReportingStep ==
    ASSUME TypeOK, ReportingInv, [Next]_vars
    PROVE  ReportingInv'
  <1> USE DEF ReportingInv
  <1>1. \A i : Recorded(i) => Recorded(i)'
    BY RecordedStays
  <1>2. stream \in Seq(Usage)
    BY DEF TypeOK
  <1>3. ASSUME NEW w \in Worker, PutUsage(w)
        PROVE  ReportingInv'
    <2> DEFINE i == worker[w].msg.body
               new == [space |-> i.space, from |-> i.from, to |-> i.to,
                       usage |-> worker[w].usage]
               old == {r \in usage : SameKey(r, i)}
    <2>1. /\ new \in Usage /\ SameKey(new, i) /\ new \in usage'
          /\ usage' = (usage \ old) \union {new}
          /\ stream' = IF old = {} THEN Append(stream, new) ELSE stream
          /\ UNCHANGED settled
      BY <1>3, PutUsageEffect
    <2> HIDE DEF new, i
    <2>2. CASE old = {}
      <3>1. /\ ~Recorded(new)
            /\ \A x \in settled : ~SameKey(x, new)
            /\ \A k \in DOMAIN stream : ~SameKey(stream[k], new)
        BY <2>1, <2>2 DEF SettledRecorded, StreamRecorded, Recorded, SameKey
      <3>2. /\ DOMAIN stream' = DOMAIN stream \union {Len(stream) + 1}
            /\ Len(stream) + 1 \notin DOMAIN stream
            /\ stream'[Len(stream) + 1] = new
            /\ \A k \in DOMAIN stream : stream'[k] = stream[k]
        BY <1>2, <2>1, <2>2
      <3>3. UsageAccounted'
        BY <2>1, <2>2, <3>2 DEF UsageAccounted, SameKey
      <3>4. EmittedOnce'
        BY <2>1, <3>1, <3>2 DEF EmittedOnce, SameKey
      <3>5. StreamRecorded'
        BY <1>1, <2>1, <3>2 DEF StreamRecorded, Recorded, SameKey
      <3>6. SettledRecorded'
        BY <1>1, <2>1 DEF SettledRecorded
      <3>7. QED
        BY <3>3, <3>4, <3>5, <3>6
    <2>3. CASE old # {}
      <3>1. UNCHANGED <<stream, settled>>
        BY <2>1, <2>3
      <3>2. PICK r \in usage : SameKey(r, new)
        BY <2>1, <2>3 DEF SameKey
      <3>3. UsageAccounted'
        BY <2>1, <3>1, <3>2 DEF UsageAccounted, SameKey
      <3>4. EmittedOnce'
        BY <3>1 DEF EmittedOnce
      <3>5. StreamRecorded' /\ SettledRecorded'
        BY <1>1, <3>1 DEF StreamRecorded, SettledRecorded
      <3>6. QED
        BY <3>3, <3>4, <3>5
    <2>4. QED
      BY <2>2, <2>3
  <1>4. ASSUME UNCHANGED <<usage, stream, settled>>
        PROVE  ReportingInv'
    BY <1>4 DEF UsageAccounted, EmittedOnce, StreamRecorded, SettledRecorded, Recorded
  <1>5. ASSUME UNCHANGED usage, stream # <<>>, NEW how \in Outcome, Settle(how)
        PROVE  ReportingInv'
    <2> DEFINE new == [space |-> Reported.space, from |-> Reported.from, to |-> Reported.to,
                       usage |-> Reported.usage, how |-> how]
    <2>1. /\ settled' = settled \union {new}
          /\ stream' = Tail(stream)
          /\ SameKey(new, stream[1])
      BY <1>2, <1>5 DEF Settle, Reported, SameKey
    <2> HIDE DEF new
    <2>2. /\ 1 \in DOMAIN stream
          /\ \A k \in DOMAIN stream' : k + 1 \in DOMAIN stream /\ stream'[k] = stream[k + 1]
          /\ \A k \in DOMAIN stream : k # 1 => k - 1 \in DOMAIN stream'
                                               /\ stream'[k - 1] = stream[k]
          /\ DOMAIN stream' \subseteq Nat \ {0}
      BY <1>2, <1>5, <2>1
    <2>3. UsageAccounted'
      <3> SUFFICES ASSUME NEW r \in usage
                   PROVE  \/ \E k \in DOMAIN stream' : SameKey(stream'[k], r)
                          \/ \E x \in settled' : SameKey(x, r)
        BY <1>5 DEF UsageAccounted
      <3>1. CASE \E x \in settled : SameKey(x, r)
        BY <2>1, <3>1
      <3>2. ASSUME NEW k \in DOMAIN stream, SameKey(stream[k], r)
            PROVE  \/ \E l \in DOMAIN stream' : SameKey(stream'[l], r)
                   \/ \E x \in settled' : SameKey(x, r)
        <4>1. CASE k = 1
          BY <2>1, <3>2, <4>1 DEF SameKey
        <4>2. CASE k # 1
          BY <2>2, <3>2, <4>2
        <4>3. QED
          BY <4>1, <4>2
      <3>3. QED
        BY <3>1, <3>2 DEF UsageAccounted
    <2>4. EmittedOnce'
      <3>1. ASSUME NEW k \in DOMAIN stream', NEW l \in DOMAIN stream',
                   SameKey(stream'[k], stream'[l])
            PROVE  k = l
        BY <2>2, <3>1 DEF EmittedOnce
      <3>2. ASSUME NEW k \in DOMAIN stream', NEW x \in settled', SameKey(x, stream'[k])
            PROVE  FALSE
        <4>1. k + 1 \in DOMAIN stream /\ stream'[k] = stream[k + 1] /\ k + 1 # 1
          BY <2>2
        <4>2. CASE x \in settled
          BY <3>2, <4>1, <4>2 DEF EmittedOnce
        <4>3. CASE x = new
          <5>1. SameKey(stream[1], stream[k + 1])
            BY <2>1, <3>2, <4>1, <4>3 DEF SameKey
          <5>2. QED
            BY <2>2, <4>1, <5>1 DEF EmittedOnce
        <4>4. QED
          BY <2>1, <4>2, <4>3
      <3>3. QED
        BY <3>1, <3>2 DEF EmittedOnce
    <2>5. StreamRecorded'
      BY <1>1, <2>2 DEF StreamRecorded
    <2>6. SettledRecorded'
      BY <1>5, <2>1, <2>2 DEF SettledRecorded, StreamRecorded, Recorded, SameKey
    <2>7. QED
      BY <2>3, <2>4, <2>5, <2>6
  <1>6. QED
    BY <1>3, <1>4, <1>5, ReportingFrame

LEMMA ReportingInvHolds == Spec => []ReportingInv
  <1>1. Init => ReportingInv
    BY DEF Init, ReportingInv, UsageAccounted, EmittedOnce, StreamRecorded, SettledRecorded
  <1>2. TypeInv /\ ReportingInv /\ [Next]_vars => ReportingInv'
    BY ReportingStep DEF TypeInv
  <1>3. QED
    BY <1>1, <1>2, InitTypeInv, NextTypeInv, PTL DEF Spec

(***************************************************************************)
(* No usage record is forgotten, whatever fails: it waits in the stream or *)
(* the reporting handler has settled it. And it is in the stream at most   *)
(* once, and never after it was settled: billing a period again does not   *)
(* report it again.                                                        *)
(***************************************************************************)
THEOREM RecordsAreReportedOnce == Spec => []ReportedOnce
  <1>1. ReportingInv => ReportedOnce
    BY DEF ReportingInv, ReportedOnce
  <1>2. QED
    BY <1>1, ReportingInvHolds, PTL

-----------------------------------------------------------------------------
(* No report on a lost base. What is needed of the outside: instructions   *)
(* of a space are consumed in order, and periods that start together end   *)
(* together. Without either, TLC finds a report on a lost base: the record *)
(* of a day is replaced by one that ends elsewhere, or a late handler puts *)
(* a snapshot in front of a record that was reported.                      *)

CronPeriods == {<<StartOfYesterday(t), StartOfToday(t)>> : t \in Day..Horizon}

Periods == ManualPeriods \union CronPeriods

OnePeriodPerStart == \A p, q \in Periods : p[1] = q[1] => p[2] = q[2]

\* What the messages that will still cause work ask for.
Bodies == {m.body : m \in Unconsumed}

IssuedBody(i) == \E j \in issued : j.body = i

HasRecord(i) == \E r \in usage : PeriodOf(r) = i

IssuedPeriods == \A j \in issued : <<j.body.from, j.body.to>> \in Periods

\* Everything the handlers work on or leave behind was asked for.
FromIssued ==
    /\ \A i \in Bodies : IssuedBody(i)
    /\ \A r \in usage : IssuedBody(PeriodOf(r))
    /\ \A k \in DOMAIN stream : IssuedBody(PeriodOf(stream[k]))
    /\ \A e \in meter : IssuedBody(PeriodOf(e))

\* A period that is behind another one asked for has its record.
Overtaken ==
    \A j \in issued, i \in Bodies :
        (i.space = j.body.space /\ i.to < j.body.to) => HasRecord(i)

\* The test that the reporting handler makes before it sends.
BaseOk(x) ==
    \/ IsMonthStart(x.from)
    \/ \E r \in usage : r.space = x.space /\ r.to = x.from
    \/ ~HasSnapshot(x.space, x.from)

SendsOnBase == report.pc = "send" => BaseOk(Reported)

BaseInv == IssuedPeriods /\ FromIssued /\ Overtaken /\ ReportHasBase /\ SendsOnBase

(* An instruction adds one period to those under way, in its order. *)
LEMMA Instructed ==
    ASSUME TypeOK, Prompt, Instruct
    PROVE  \E i \in Instruction :
             /\ <<i.from, i.to>> \in Periods
             /\ InOrder(i)
             /\ \A k : IssuedBody(k)' <=> (IssuedBody(k) \/ k = i)
             /\ Bodies' = Bodies \union {i}
             /\ UNCHANGED <<usage, snapshots, stream, report, meter>>
  <1>1. ASSUME NEW i \in Instruction, NEW c, Send(i, c)
        PROVE  /\ \A k : IssuedBody(k)' <=> (IssuedBody(k) \/ k = i)
               /\ Bodies' = Bodies \union {i}
               /\ UNCHANGED <<usage, snapshots, stream, report, meter>>
    <2> DEFINE new == [body |-> i, copy |-> c]
               msg == [body |-> i, copy |-> c, receives |-> 0]
    <2>1. /\ issued' = issued \union {new} /\ new.body = i
          /\ queue' = queue \union {msg} /\ msg.body = i
          /\ UNCHANGED worker
          /\ UNCHANGED <<usage, snapshots, stream, report, meter>>
      BY <1>1 DEF Send, tables, reportVars
    <2> HIDE DEF new, msg
    <2>2. Unconsumed' = Unconsumed \union {msg}
      BY <2>1 DEF Unconsumed
    <2>3. Bodies' = Bodies \union {i}
      BY <2>1, <2>2 DEF Bodies
    <2>4. QED
      BY <2>1, <2>3 DEF IssuedBody
  <1>2. ASSUME NEW s \in Space, NEW t \in Time, NEW c \in 1..MaxCopies, SendDaily(s, t, c)
        PROVE  \E i \in Instruction : /\ <<i.from, i.to>> \in Periods
                                      /\ InOrder(i) /\ Send(i, c)
    <2> DEFINE i == [space |-> s, from |-> StartOfYesterday(t), to |-> StartOfToday(t)]
    <2>1. StartOfToday(t) = t - CronDelay /\ Day + CronDelay <= t /\ t <= now
      BY <1>2 DEF SendDaily, StartOfToday
    <2>2. i \in Instruction
      BY <2>1, PeriodsAssumption, LedgerAssumption
      DEF StartOfYesterday, Instruction, Time
    <2>3. t \in Day..Horizon
      BY <2>1, PeriodsAssumption, LedgerAssumption DEF Time
    <2>4. <<i.from, i.to>> \in Periods
      BY <2>3 DEF Periods, CronPeriods
    <2>5. InOrder(i) /\ Send(i, c)
      BY <1>2 DEF SendDaily
    <2>6. QED
      BY <2>2, <2>4, <2>5
  <1>3. ASSUME NEW s \in Space, NEW p \in ManualPeriods, NEW c \in 1..MaxCopies,
               SendManual(s, p, c)
        PROVE  \E i \in Instruction : /\ <<i.from, i.to>> \in Periods
                                      /\ InOrder(i) /\ Send(i, c)
    <2> DEFINE i == [space |-> s, from |-> p[1], to |-> p[2]]
    <2>1. i \in Instruction
      BY LedgerAssumption DEF Instruction
    <2>2. p = <<p[1], p[2]>>
      BY LedgerAssumption
    <2>3. <<i.from, i.to>> \in Periods
      BY <2>2 DEF Periods
    <2>4. InOrder(i) /\ Send(i, c)
      BY <1>3 DEF SendManual
    <2>5. QED
      BY <2>1, <2>3, <2>4
  <1>4. PICK i \in Instruction : /\ <<i.from, i.to>> \in Periods /\ InOrder(i)
                                /\ \E c : Send(i, c)
    BY <1>2, <1>3 DEF Instruct
  <1>5. QED
    BY <1>1, <1>4

(* No other step adds to the messages. *)
LEMMA BodiesShrink ==
    ASSUME TypeOK, [Next]_vars, ~Instruct
    PROVE  Bodies' \subseteq Bodies /\ UNCHANGED issued
  <1>1. ASSUME UNCHANGED <<queue, worker>>
        PROVE  Bodies' \subseteq Bodies
    BY <1>1 DEF Bodies, Unconsumed
  <1>2. ASSUME NEW w \in Worker, NEW pc, Advances(w, pc), UNCHANGED queue
        PROVE  Bodies' \subseteq Bodies
    <2>1. \A v \in Worker : worker'[v] # Idle => worker[v] # Idle /\ worker'[v].msg = worker[v].msg
      BY <1>2 DEF Advances
    <2>2. Unconsumed' \subseteq Unconsumed
      BY <1>2, <2>1 DEF Unconsumed
    <2>3. QED
      BY <2>2 DEF Bodies
  <1>3. ASSUME NEW w \in Worker, SpaceHandler(w)
        PROVE  Bodies' \subseteq Bodies
    <2>1. ASSUME NEW m \in queue, Receive(w, m)
          PROVE  Bodies' \subseteq Bodies
      <3>1. /\ worker'[w].msg.body = m.body
            /\ \A v \in Worker : v # w => worker'[v] = worker[v]
            /\ queue' \subseteq queue
        BY <2>1, ReceiveBegins
      <3>2. \A n \in Unconsumed' : n \in Unconsumed \/ n.body = m.body
        BY <3>1 DEF Unconsumed
      <3>3. m \in Unconsumed
        BY DEF Unconsumed
      <3>4. QED
        BY <3>2, <3>3 DEF Bodies
    <2>2. CASE FindSnapshot(w)
      BY <1>2, <2>2, FindSnapshotAdvances DEF FindSnapshot
    <2>3. CASE ReadDiff(w)
      BY <1>2, <2>3, ReadDiffAdvances DEF ReadDiff
    <2>4. CASE EndOfDiffs(w)
      BY <1>2, <2>4, ClosedAdvances DEF EndOfDiffs
    <2>5. CASE LoadPrevious(w)
      BY <1>2, <2>5, LoadPreviousAdvances DEF LoadPrevious
    <2>6. CASE PutSnapshot(w)
      BY <1>2, <2>6, PutSnapshotAdvances DEF PutSnapshot
    <2>7. CASE PutUsage(w)
      BY <1>2, <2>7, PutUsageAdvances DEF PutUsage
    <2>8. CASE Delete(w)
      <3>1. /\ worker'[w] = Idle /\ queue' = queue
            /\ \A v \in Worker : v # w => worker'[v] = worker[v]
        BY <2>8 DEF Delete, TypeOK
      <3>2. Unconsumed' \subseteq Unconsumed
        BY <3>1 DEF Unconsumed
      <3>3. QED
        BY <3>2 DEF Bodies
    <2>9. QED
      BY <1>3, <2>1, <2>2, <2>3, <2>4, <2>5, <2>6, <2>7, <2>8 DEF SpaceHandler
  <1>4. ASSUME NEW w \in Worker, SpaceHandlerFails(w)
        PROVE  Bodies' \subseteq Bodies
    <2>1. /\ worker'[w] = Idle /\ worker[w] # Idle
          /\ \A v \in Worker : v # w => worker'[v] = worker[v]
          /\ queue' \subseteq queue \union {worker[w].msg}
      BY <1>4 DEF SpaceHandlerFails, Returned, TypeOK
    <2>2. Unconsumed' \subseteq Unconsumed
      BY <2>1 DEF Unconsumed
    <2>3. QED
      BY <2>2 DEF Bodies
  <1>5. ASSUME NEW w \in Worker, DiffListFails(w)
        PROVE  Bodies' \subseteq Bodies
    BY <1>2, <1>5, ClosedAdvances DEF DiffListFails
  <1>6. Tick \/ StorageChange \/ UsageHandler \/ SkipInactive \/ UsageHandlerFails
          \/ UNCHANGED vars
        => UNCHANGED <<queue, worker>>
    BY DEF Tick, StorageChange, AddBlob, RemoveBlob, Accept, WriteDiff, UsageHandler,
       StartReport, LookupPrevious, CheckSnapshot, SendMeterEvent, EndReport, SkipInactive,
       UsageHandlerFails, vars, queueVars
  <1>7. UNCHANGED issued
    BY DEF Next, vars, Tick, StorageChange, AddBlob, RemoveBlob, Accept, WriteDiff,
       SpaceHandler, Receive, FindSnapshot, ReadDiff, EndOfDiffs, LoadPrevious, PutSnapshot,
       PutUsage, Delete, UsageHandler, StartReport, LookupPrevious, CheckSnapshot,
       SendMeterEvent, EndReport, Failure, SpaceHandlerFails, DiffListFails, SkipInactive,
       UsageHandlerFails, queueVars
  <1>8. QED
    BY <1>1, <1>3, <1>4, <1>5, <1>6, <1>7 DEF Next, Failure

(* A message under way asks for a period that was issued, and two of them  *)
(* that start together end together.                                       *)
LEMMA SamePeriod ==
    ASSUME OnePeriodPerStart, IssuedPeriods, NEW i, NEW k,
           IssuedBody(i), IssuedBody(k), i.from = k.from
    PROVE  i.to = k.to
  <1>1. PICK a \in issued, b \in issued : a.body = i /\ b.body = k
    BY DEF IssuedBody
  <1>2. <<i.from, i.to>> \in Periods /\ <<k.from, k.to>> \in Periods
    BY <1>1 DEF IssuedPeriods
  <1>3. <<i.from, i.to>>[1] = <<k.from, k.to>>[1]
    OBVIOUS
  <1>4. <<i.from, i.to>>[2] = <<k.from, k.to>>[2]
    BY <1>2, <1>3 DEF OnePeriodPerStart
  <1>5. QED
    BY <1>4

(* A handler that is past a step has a body that was issued. *)
LEMMA WorkerBody ==
    ASSUME TypeOK, FromIssued, NEW w \in Worker, worker[w].pc # "idle"
    PROVE  /\ worker[w].msg.body \in Bodies /\ IssuedBody(worker[w].msg.body)
           /\ worker[w].msg.body \in Instruction
  <1>1. worker[w] # Idle /\ worker[w] \in Job
    BY PcIsJob
  <1>2. worker[w].msg \in Unconsumed
    BY <1>1 DEF Unconsumed
  <1>3. worker[w].msg.body \in Instruction
    BY <1>1 DEF Job, Message
  <1>4. QED
    BY <1>2, <1>3 DEF Bodies, FromIssued

(* A period that has its record keeps it. *)
LEMMA RecordStays ==
    ASSUME TypeOK, OnePeriodPerStart, IssuedPeriods, FromIssued, [Next]_vars,
           NEW i, HasRecord(i)
    PROVE  HasRecord(i)'
  <1>1. ASSUME NEW w \in Worker, PutUsage(w)
        PROVE  HasRecord(i)'
    <2> DEFINE b == worker[w].msg.body
               new == [space |-> b.space, from |-> b.from, to |-> b.to,
                       usage |-> worker[w].usage]
    <2>1. PICK r \in usage : PeriodOf(r) = i
      BY DEF HasRecord
    <2>2. usage' = (usage \ {x \in usage : SameKey(x, b)}) \union {new}
      BY <1>1, PutUsageEffect
    <2>3. CASE SameKey(r, b)
      <3>1. IssuedBody(b)
        BY <1>1, WorkerBody DEF PutUsage
      <3>2. IssuedBody(PeriodOf(r)) /\ PeriodOf(r).from = r.from /\ PeriodOf(r).to = r.to
        BY <2>1 DEF FromIssued, PeriodOf
      <3>3. r.space = b.space /\ r.from = b.from
        BY <2>3 DEF SameKey
      <3>4. r.to = b.to
        BY <3>1, <3>2, <3>3, SamePeriod
      <3>5. PeriodOf(new) = PeriodOf(r)
        BY <3>3, <3>4 DEF PeriodOf
      <3>6. QED
        BY <2>1, <2>2, <3>5 DEF HasRecord
    <2>4. CASE ~SameKey(r, b)
      BY <2>1, <2>2, <2>4 DEF HasRecord
    <2>5. QED
      BY <2>3, <2>4
  <1>2. (\A w \in Worker : ~PutUsage(w)) => UNCHANGED usage
    BY UsageChangesByPutUsage
  <1>3. QED
    BY <1>1, <1>2 DEF HasRecord

(* What was asked for stays, and what is new was asked for. *)
LEMMA IssuedStep ==
    ASSUME TypeOK, Prompt, BaseInv, [Next]_vars
    PROVE  /\ \A k : IssuedBody(k) => IssuedBody(k)'
           /\ \A i \in Bodies' : IssuedBody(i)'
           /\ IssuedPeriods'
  <1>1. CASE Instruct
    <2>1. PICK i \in Instruction :
             /\ <<i.from, i.to>> \in Periods
             /\ \A k : IssuedBody(k)' <=> (IssuedBody(k) \/ k = i)
             /\ Bodies' = Bodies \union {i}
      BY <1>1, Instructed
    <2>2. \A b \in Bodies' : IssuedBody(b)'
      BY <2>1 DEF BaseInv, FromIssued
    <2>3. ASSUME NEW j \in issued'
          PROVE  <<j.body.from, j.body.to>> \in Periods
      <3>1. IssuedBody(j.body)'
        BY DEF IssuedBody
      <3>2. IssuedBody(j.body) \/ j.body = i
        BY <2>1, <3>1
      <3>3. QED
        BY <2>1, <3>2 DEF BaseInv, IssuedPeriods, IssuedBody
    <2>4. QED
      BY <2>1, <2>2, <2>3 DEF IssuedPeriods
  <1>2. CASE ~Instruct
    <2>1. Bodies' \subseteq Bodies /\ UNCHANGED issued
      BY <1>2, BodiesShrink
    <2>2. \A k : IssuedBody(k)' <=> IssuedBody(k)
      BY <2>1 DEF IssuedBody
    <2>3. \A b \in Bodies' : IssuedBody(b)'
      BY <2>1, <2>2 DEF BaseInv, FromIssued
    <2>4. IssuedPeriods'
      BY <2>1 DEF BaseInv, IssuedPeriods
    <2>5. QED
      BY <2>2, <2>3, <2>4
  <1>3. QED
    BY <1>1, <1>2

(* Only SendMeterEvent adds a meter event, that of the record it reports. *)
LEMMA MeterGrows ==
    ASSUME TypeOK, [Next]_vars, NEW e \in meter', e \notin meter
    PROVE  /\ report.pc = "send" /\ stream # <<>> /\ Reported \in Usage
           /\ e.space = Reported.space /\ e.from = Reported.from /\ e.to = Reported.to
           /\ e.bytes = report.delta
           /\ UNCHANGED <<usage, snapshots>>
  <1>1. SendMeterEvent
    BY DEF Next, vars, Tick, StorageChange, AddBlob, RemoveBlob, Accept, WriteDiff, Instruct,
       SendDaily, SendManual, Send, SpaceHandler, Receive, FindSnapshot, ReadDiff, EndOfDiffs,
       LoadPrevious, PutSnapshot, PutUsage, Delete, UsageHandler, StartReport, LookupPrevious,
       CheckSnapshot, EndReport, Failure, SpaceHandlerFails, DiffListFails,
       SkipInactive, UsageHandlerFails, reportVars
  <1>2. stream # <<>> /\ Reported \in Usage
    BY <1>1, ReportIsJob DEF SendMeterEvent
  <1>3. e \in MeterWith(Reported, report.delta)
    BY <1>1 DEF SendMeterEvent
  <1>4. e = [space |-> Reported.space, from |-> Reported.from, to |-> Reported.to,
             bytes |-> report.delta]
    BY <1>3 DEF MeterWith
  <1>5. QED
    BY <1>1, <1>2, <1>4 DEF SendMeterEvent, tables

LEMMA FromIssuedStep ==
    ASSUME TypeOK, Prompt, BaseInv, [Next]_vars
    PROVE  FromIssued'
  <1> USE DEF BaseInv
  <1>0. stream \in Seq(Usage)
    BY DEF TypeOK
  <1>1. \A k : IssuedBody(k) => IssuedBody(k)'
    BY IssuedStep
  <1>2. \A i \in Bodies' : IssuedBody(i)'
    BY IssuedStep
  <1>3. ASSUME NEW w \in Worker, PutUsage(w)
        PROVE  /\ \A r \in usage' : IssuedBody(PeriodOf(r))
               /\ \A k \in DOMAIN stream' : IssuedBody(PeriodOf(stream'[k]))
    <2> DEFINE b == worker[w].msg.body
               new == [space |-> b.space, from |-> b.from, to |-> b.to,
                       usage |-> worker[w].usage]
               old == {x \in usage : SameKey(x, b)}
    <2>1. IssuedBody(b) /\ b \in Instruction
      BY <1>3, WorkerBody DEF PutUsage
    <2>2. PeriodOf(new) = b
      BY <2>1 DEF PeriodOf, Instruction
    <2>3. /\ usage' = (usage \ old) \union {new}
          /\ stream' = IF old = {} THEN Append(stream, new) ELSE stream
          /\ new \in Usage
      BY <1>3, PutUsageEffect
    <2>4. IssuedBody(PeriodOf(new))
      BY <2>1, <2>2
    <2> HIDE DEF new, old
    <2>5. \A r \in usage' : IssuedBody(PeriodOf(r))
      BY <2>3, <2>4 DEF FromIssued
    <2>6. ASSUME NEW k \in DOMAIN stream'
          PROVE  IssuedBody(PeriodOf(stream'[k]))
      <3>1. (k \in DOMAIN stream /\ stream'[k] = stream[k]) \/ stream'[k] = new
        BY <1>0, <2>3
      <3>2. QED
        BY <2>4, <3>1 DEF FromIssued
    <2>7. QED
      BY <2>5, <2>6
  <1>4. ASSUME \A w \in Worker : ~PutUsage(w)
        PROVE  /\ \A r \in usage' : IssuedBody(PeriodOf(r))
               /\ \A k \in DOMAIN stream' : IssuedBody(PeriodOf(stream'[k]))
    <2>1. UNCHANGED usage /\ (UNCHANGED stream \/ (stream # <<>> /\ stream' = Tail(stream)))
      BY <1>4, ReportingFrame DEF Settle
    <2>2. ASSUME NEW k \in DOMAIN stream'
          PROVE  \E l \in DOMAIN stream : stream'[k] = stream[l]
      <3>1. CASE UNCHANGED stream
        BY <3>1
      <3>2. CASE stream # <<>> /\ stream' = Tail(stream)
        <4>1. k + 1 \in DOMAIN stream /\ stream'[k] = stream[k + 1]
          BY <1>0, <3>2
        <4>2. QED
          BY <4>1
      <3>3. QED
        BY <2>1, <3>1, <3>2
    <2>3. QED
      BY <2>1, <2>2 DEF FromIssued
  <1>5. \A e \in meter' : IssuedBody(PeriodOf(e))
    <2>1. SUFFICES ASSUME NEW e \in meter', e \notin meter
                   PROVE  IssuedBody(PeriodOf(e))
      BY DEF FromIssued
    <2>2. /\ stream # <<>>
          /\ e.space = Reported.space /\ e.from = Reported.from /\ e.to = Reported.to
      BY <2>1, MeterGrows
    <2>3. PeriodOf(e) = PeriodOf(Reported)
      BY <2>2 DEF PeriodOf
    <2>4. 1 \in DOMAIN stream /\ Reported = stream[1]
      BY <1>0, <2>2 DEF Reported
    <2>5. QED
      BY <2>3, <2>4 DEF FromIssued
  <1>6. /\ \A r \in usage' : IssuedBody(PeriodOf(r))
        /\ \A k \in DOMAIN stream' : IssuedBody(PeriodOf(stream'[k]))
    BY <1>3, <1>4
  <1>7. \A r \in usage' : IssuedBody(PeriodOf(r))'
    BY <1>1, <1>6 DEF PeriodOf
  <1>8. \A k \in DOMAIN stream' : IssuedBody(PeriodOf(stream[k]))'
    BY <1>1, <1>6 DEF PeriodOf
  <1>9. \A e \in meter' : IssuedBody(PeriodOf(e))'
    BY <1>1, <1>5 DEF PeriodOf
  <1>10. QED
    BY <1>2, <1>7, <1>8, <1>9 DEF FromIssued

(* Order is what keeps late handlers harmless. *)
LEMMA OvertakenStep ==
    ASSUME TypeOK, Prompt, OnePeriodPerStart, BaseInv, [Next]_vars
    PROVE  Overtaken'
  <1> USE DEF BaseInv
  <1>1. \A i : HasRecord(i) => HasRecord(i)'
    BY RecordStays
  <1>2. CASE Instruct
    <2>1. PICK n \in Instruction :
             /\ InOrder(n)
             /\ \A k : IssuedBody(k)' <=> (IssuedBody(k) \/ k = n)
             /\ Bodies' = Bodies \union {n}
      BY <1>2, Instructed
    <2>2. HasRecord(n) \/ /\ \A i \in Bodies : i.space = n.space => i.to >= n.to
                          /\ \A j \in issued : j.body.space = n.space => j.body.to <= n.to
      BY <2>1 DEF InOrder, HasRecord, Bodies
    <2>3. /\ \A i \in Bodies : i.to \in Int
          /\ \A j \in issued : j.body.to \in Int
          /\ n.to \in Int
      <3>1. \A i \in Bodies : IssuedBody(i)
        BY DEF FromIssued
      <3>2. \A j \in issued : j.body \in Instruction
        BY DEF TypeOK
      <3>3. \A i \in Instruction : i.to \in Int
        BY DEF Instruction, Time
      <3>4. QED
        BY <3>1, <3>2, <3>3 DEF IssuedBody
    <2>4. SUFFICES ASSUME NEW j \in issued', NEW i \in Bodies',
                          i.space = j.body.space, i.to < j.body.to
                   PROVE  HasRecord(i)
      BY <1>1 DEF Overtaken
    <2>5. IssuedBody(j.body) \/ j.body = n
      <3>1. IssuedBody(j.body)'
        BY DEF IssuedBody
      <3>2. QED
        BY <2>1, <3>1
    <2>6. CASE HasRecord(n)
      <3>1. IssuedBody(n)
        BY <2>6 DEF FromIssued, HasRecord
      <3>2. PICK k \in issued : k.body = j.body
        BY <2>5, <3>1 DEF IssuedBody
      <3>3. QED
        BY <2>1, <2>4, <2>6, <3>2 DEF Overtaken
    <2>7. CASE /\ \A k \in Bodies : k.space = n.space => k.to >= n.to
               /\ \A k \in issued : k.body.space = n.space => k.body.to <= n.to
      <3>1. CASE i = n
        BY <2>3, <2>4, <2>5, <2>7, <3>1 DEF IssuedBody
      <3>2. CASE i \in Bodies /\ j.body = n
        BY <2>3, <2>4, <2>7, <3>2
      <3>3. CASE i \in Bodies /\ IssuedBody(j.body)
        BY <2>4, <3>3 DEF IssuedBody, Overtaken
      <3>4. QED
        BY <2>1, <2>5, <3>1, <3>2, <3>3
    <2>8. QED
      BY <2>2, <2>6, <2>7
  <1>3. CASE ~Instruct
    <2>1. Bodies' \subseteq Bodies /\ UNCHANGED issued
      BY <1>3, BodiesShrink
    <2>2. QED
      BY <1>1, <2>1 DEF Overtaken
  <1>4. QED
    BY <1>2, <1>3

(* A base stays: a handler that would put a snapshot where none was is     *)
(* late, and so is there for the second time.                              *)
LEMMA BaseStays ==
    ASSUME TypeOK, Prompt, OnePeriodPerStart, BaseInv, [Next]_vars,
           NEW x, IssuedBody(PeriodOf(x)), BaseOk(x)
    PROVE  \/ IsMonthStart(x.from)
           \/ \E r \in usage' : r.space = x.space /\ r.to = x.from
           \/ ~\E p \in snapshots' : p.space = x.space /\ p.at = x.from
  <1> USE DEF BaseInv
  <1>1. \A i : HasRecord(i) => HasRecord(i)'
    BY RecordStays
  <1>2. ASSUME NEW i, HasRecord(i), i.space = x.space, i.to = x.from
        PROVE  \E r \in usage' : r.space = x.space /\ r.to = x.from
    <2>1. PICK r \in usage' : PeriodOf(r) = i
      BY <1>1, <1>2 DEF HasRecord
    <2>2. r.space = i.space /\ r.to = i.to
      BY <2>1 DEF PeriodOf
    <2>3. QED
      BY <1>2, <2>2
  <1>3. CASE \E r \in usage : r.space = x.space /\ r.to = x.from
    <2>1. PICK r \in usage : r.space = x.space /\ r.to = x.from
      BY <1>3
    <2>2. /\ HasRecord(PeriodOf(r))
          /\ PeriodOf(r).space = x.space /\ PeriodOf(r).to = x.from
      BY <2>1 DEF HasRecord, PeriodOf
    <2>3. QED
      BY <1>2, <2>2
  <1>4. CASE ~HasSnapshot(x.space, x.from)
    <2>1. ASSUME NEW w \in Worker, PutSnapshot(w)
          PROVE  \/ \E r \in usage' : r.space = x.space /\ r.to = x.from
                 \/ ~\E p \in snapshots' : p.space = x.space /\ p.at = x.from
      <3> DEFINE b == worker[w].msg.body
                 new == [space |-> b.space, at |-> b.to, size |-> worker[w].size]
      <3>1. snapshots' \subseteq snapshots \union {new}
        BY <2>1 DEF PutSnapshot, SnapshotWith
      <3>2. CASE b.space = x.space /\ b.to = x.from
        <4>1. b \in Bodies
          BY <2>1, WorkerBody DEF PutSnapshot
        <4>2. PICK j \in issued : j.body = PeriodOf(x)
          BY DEF IssuedBody
        <4>3. j.body.space = x.space /\ j.body.from = x.from /\ j.body.from < j.body.to
          BY <4>2 DEF PeriodOf, TypeOK, Instruction
        <4>4. HasRecord(b)
          BY <3>2, <4>1, <4>3 DEF Overtaken
        <4>5. QED
          BY <1>2, <3>2, <4>4
      <3>3. CASE ~(b.space = x.space /\ b.to = x.from)
        BY <1>4, <3>1, <3>3 DEF HasSnapshot
      <3>4. QED
        BY <3>2, <3>3
    <2>2. (\A w \in Worker : ~PutSnapshot(w)) => UNCHANGED snapshots
      BY DEF Next, vars, Tick, StorageChange, AddBlob, RemoveBlob, Accept, WriteDiff, Instruct,
         SendDaily, SendManual, Send, SpaceHandler, Receive, FindSnapshot, ReadDiff, EndOfDiffs,
         LoadPrevious, PutUsage, Delete, UsageHandler, StartReport, LookupPrevious,
         CheckSnapshot, SendMeterEvent, EndReport, Failure, SpaceHandlerFails, DiffListFails,
         SkipInactive, UsageHandlerFails, tables
    <2>3. QED
      BY <1>4, <2>1, <2>2 DEF HasSnapshot
  <1>5. QED
    BY <1>3, <1>4 DEF BaseOk

(* A previous record that is found ends where it was looked for. *)
LEMMA FoundEnds ==
    ASSUME NEW s, NEW date, PreviousUsage(s, date).found
    PROVE  IsMonthStart(date) \/ \E r \in usage : r.space = s /\ r.to = date
  <1> DEFINE ending == {r \in UsageOf(s) : r.to = date}
             daily == {r \in ending : r.from = date - Day}
             newest == {r \in ending : \A q \in ending : q.from <= r.from}
             got == IF daily # {} THEN daily ELSE newest
             one == (CHOOSE r \in got : TRUE).usage
  <1>1. PreviousUsage(s, date) =
          IF IsMonthStart(date) THEN [found |-> TRUE, usage |-> 0]
          ELSE IF got # {} THEN [found |-> TRUE, usage |-> one]
          ELSE [found |-> FALSE, usage |-> 0]
    BY DEF PreviousUsage
  <1>2. got \subseteq ending /\ ending \subseteq {r \in usage : r.space = s /\ r.to = date}
    BY DEF UsageOf
  <1> HIDE DEF got, one, ending
  <1>3. IsMonthStart(date) \/ got # {}
    BY <1>1
  <1>4. QED
    BY <1>2, <1>3

(* What is about to be sent was tested, or it was to be sent before. *)
LEMMA SendsTested ==
    ASSUME TypeOK, [Next]_vars, report'.pc = "send"
    PROVE  /\ stream # <<>> /\ Reported' = Reported
           /\ report.pc = "send" \/ (BaseOk(Reported) /\ UNCHANGED <<usage, snapshots>>)
  <1>0. stream \in Seq(Usage)
    BY DEF TypeOK
  <1>1. \A delta : Decide(delta) /\ report'.pc = "send" => UNCHANGED stream
    BY DEF Decide, Settle, Idle
  <1>2. AttemptFails => report'.pc # "send"
    BY DEF AttemptFails, Settle, Idle
  <1>3. CASE LookupPrevious
    <2>1. report.pc = "lookup" /\ UNCHANGED <<usage, snapshots>>
      BY <1>3 DEF LookupPrevious, tables
    <2>2. stream # <<>> /\ report \in ReportJob
      BY <2>1, ReportIsJob
    <2>3. PreviousUsage(Reported.space, Reported.from).found /\ UNCHANGED stream
      <3>1. CASE report' = [report EXCEPT !.pc = "check"]
        BY <2>2, <3>1 DEF ReportJob
      <3>2. CASE ~(report' = [report EXCEPT !.pc = "check"])
        BY <1>1, <1>3, <3>2 DEF LookupPrevious
      <3>3. QED
        BY <3>1, <3>2
    <2>4. QED
      BY <2>1, <2>2, <2>3, FoundEnds DEF BaseOk, Reported
  <1>4. CASE CheckSnapshot
    <2>1. ~BilledBefore(Reported) /\ UNCHANGED stream
      BY <1>1, <1>2, <1>4 DEF CheckSnapshot
    <2>2. report.pc = "check" /\ UNCHANGED <<usage, snapshots>>
      BY <1>4 DEF CheckSnapshot, tables
    <2>3. stream # <<>>
      BY <2>2, ReportIsJob
    <2>4. QED
      BY <2>1, <2>2, <2>3 DEF BaseOk, BilledBefore, HasSnapshot, Reported
  <1>5. ASSUME UNCHANGED <<report, stream>>
        PROVE  /\ stream # <<>> /\ Reported' = Reported
               /\ report.pc = "send"
    BY <1>5, ReportIsJob DEF Reported
  <1>6. ASSUME NEW w \in Worker, PutUsage(w)
        PROVE  /\ stream # <<>> /\ Reported' = Reported
               /\ report.pc = "send"
    <2>1. UNCHANGED report /\ \E new \in Usage : stream' = stream \/ stream' = Append(stream, new)
      BY <1>6, PutUsageEffect DEF PutUsage, reportVars
    <2>2. stream # <<>>
      BY <2>1, ReportIsJob
    <2>3. Head(stream') = Head(stream)
      BY <1>0, <2>1, <2>2
    <2>4. QED
      BY <2>1, <2>2, <2>3 DEF Reported
  <1>7. ~StartReport /\ ~SendMeterEvent /\ ~EndReport /\ ~SkipInactive /\ ~UsageHandlerFails
    <2>1. ~StartReport
      BY DEF StartReport
    <2>2. ~SendMeterEvent
      <3>1. SUFFICES ASSUME SendMeterEvent PROVE FALSE
        OBVIOUS
      <3>2. report \in ReportJob /\ report' = [report EXCEPT !.pc = "ack"]
        BY <3>1, ReportIsJob DEF SendMeterEvent
      <3>3. QED
        BY <3>2 DEF ReportJob
    <2>3. ~EndReport /\ ~SkipInactive
      BY DEF EndReport, SkipInactive, Settle, Idle
    <2>4. ~UsageHandlerFails
      BY <1>2 DEF UsageHandlerFails
    <2>5. QED
      BY <2>1, <2>2, <2>3, <2>4
  <1>8. Tick \/ StorageChange \/ Instruct \/ UNCHANGED vars
          \/ (\E w \in Worker : \/ SpaceHandler(w) /\ ~PutUsage(w)
                                \/ SpaceHandlerFails(w) \/ DiffListFails(w))
        => UNCHANGED <<report, stream>>
    BY DEF Tick, StorageChange, AddBlob, RemoveBlob, Accept, WriteDiff, Instruct, SendDaily,
       SendManual, Send, SpaceHandler, Receive, FindSnapshot, ReadDiff, EndOfDiffs,
       LoadPrevious, PutSnapshot, Delete, SpaceHandlerFails, DiffListFails, vars, reportVars
  <1>9. QED
    BY <1>3, <1>4, <1>5, <1>6, <1>7, <1>8 DEF Next, Failure, UsageHandler

LEMMA BaseStep ==
    ASSUME TypeOK, Prompt, OnePeriodPerStart, BaseInv, [Next]_vars
    PROVE  BaseInv'
  <1>0. stream \in Seq(Usage) /\ (stream # <<>> => IssuedBody(PeriodOf(Reported)))
    BY DEF TypeOK, BaseInv, FromIssued, Reported
  <1>1. IssuedPeriods' /\ FromIssued' /\ Overtaken'
    BY IssuedStep, FromIssuedStep, OvertakenStep
  <1>2. ReportHasBase'
    <2>1. SUFFICES ASSUME NEW e \in meter'
                   PROVE  \/ IsMonthStart(e.from)
                          \/ \E r \in usage' : r.space = e.space /\ r.to = e.from
                          \/ ~\E p \in snapshots' : p.space = e.space /\ p.at = e.from
      BY DEF ReportHasBase
    <2>2. CASE e \in meter
      <3>1. IssuedBody(PeriodOf(e)) /\ BaseOk(e)
        BY <2>2 DEF BaseInv, FromIssued, ReportHasBase, BaseOk, HasSnapshot
      <3>2. QED
        BY <3>1, BaseStays
    <2>3. CASE e \notin meter
      <3>1. /\ BaseOk(Reported) /\ UNCHANGED <<usage, snapshots>>
            /\ e.space = Reported.space /\ e.from = Reported.from
        BY <2>3, MeterGrows DEF BaseInv, SendsOnBase
      <3>2. QED
        BY <3>1 DEF BaseOk, HasSnapshot
    <2>4. QED
      BY <2>2, <2>3
  <1>3. SendsOnBase'
    <2>1. SUFFICES ASSUME report'.pc = "send" PROVE BaseOk(Reported)'
      BY DEF SendsOnBase
    <2>2. /\ stream # <<>> /\ Reported' = Reported
          /\ report.pc = "send" \/ (BaseOk(Reported) /\ UNCHANGED <<usage, snapshots>>)
      BY <2>1, SendsTested
    <2>3. CASE report.pc = "send"
      <3>1. BaseOk(Reported)
        BY <2>3 DEF BaseInv, SendsOnBase
      <3>2. PICK x : x = Reported
        OBVIOUS
      <3>3. \/ IsMonthStart(x.from)
            \/ \E r \in usage' : r.space = x.space /\ r.to = x.from
            \/ ~\E p \in snapshots' : p.space = x.space /\ p.at = x.from
        BY <1>0, <2>2, <3>1, <3>2, BaseStays
      <3>4. QED
        BY <2>2, <3>2, <3>3 DEF BaseOk, HasSnapshot
    <2>4. CASE BaseOk(Reported) /\ UNCHANGED <<usage, snapshots>>
      BY <2>2, <2>4 DEF BaseOk, HasSnapshot
    <2>5. QED
      BY <2>2, <2>3, <2>4
  <1>4. QED
    BY <1>1, <1>2, <1>3 DEF BaseInv

(***************************************************************************)
(* Nothing is sent to Stripe on a base that is lost, whatever fails and    *)
(* however handlers interleave, as long as the days of a space are billed  *)
(* in order and periods that start together end together: the record that  *)
(* an event is the difference to stays, and no snapshot turns up later     *)
(* that would have stopped the report.                                     *)
(***************************************************************************)
THEOREM ReportsHaveTheirBase ==
    ASSUME Prompt, OnePeriodPerStart
    PROVE  Spec => []ReportHasBase
  <1>1. Init => BaseInv
    BY DEF Init, BaseInv, IssuedPeriods, FromIssued, Overtaken, ReportHasBase, SendsOnBase,
       Idle, Bodies, Unconsumed
  <1>2. TypeInv /\ BaseInv /\ [Next]_vars => BaseInv'
    BY BaseStep DEF TypeInv
  <1>3. BaseInv => ReportHasBase
    BY DEF BaseInv
  <1>4. QED
    BY <1>1, <1>2, <1>3, InitTypeInv, NextTypeInv, PTL DEF Spec


-----------------------------------------------------------------------------
(* Snapshots are exact. Of the outside this needs that instructions of a   *)
(* space are consumed in order, are of whole days, and are sent when what  *)
(* was stored in the day is in the table; of the handler, that no listing  *)
(* of diffs fails unnoticed and that the snapshots listed are all there    *)
(* are. TLC finds counterexamples without the third and the fourth.        *)

WholeDays == \A p \in ManualPeriods : p[1] % Day = 0 /\ p[2] = p[1] + Day

ExactAssumption ==
    /\ Prompt /\ WholeDays
    /\ MaxLag <= CronDelay
    /\ "diff_list" \notin Faults
    /\ Horizon <= SnapshotScan * Day

LEMMA WholeQuotient ==
    ASSUME NEW a \in Nat, NEW d \in Nat \ {0}, a % d = 0
    PROVE  a \div d \in Nat /\ a = d * (a \div d)
  <1>1. a \div d \in Nat
    OBVIOUS
  <1>2. a = d * (a \div d)
    OBVIOUS
  <1>3. QED
    BY <1>1, <1>2

\* A midnight.
Midnight(t) == \E n \in Nat : t = n * Day

LEMMA NextMidnight ==
    ASSUME NEW t, Midnight(t), NEW u, Midnight(u), t < u
    PROVE  t \in Nat /\ u \in Nat /\ t + Day <= u
  <1>1. PICK a \in Nat, b \in Nat : t = a * Day /\ u = b * Day
    BY DEF Midnight
  <1>2. Day \in Nat \ {0}
    BY PeriodsAssumption
  <1>3. a < b
    <2>1. CASE b <= a
      <3>1. b * Day <= a * Day
        BY <1>2, <2>1
      <3>2. QED
        BY <1>1, <1>2, <3>1
    <2>2. QED
      BY <1>1, <2>1
  <1>4. a * Day + Day <= b * Day
    BY <1>2, <1>3
  <1>5. QED
    BY <1>1, <1>2, <1>4

LEMMA WholePeriods ==
    ASSUME WholeDays, NEW p \in Periods
    PROVE  Midnight(p[1]) /\ Midnight(p[2]) /\ p[2] = p[1] + Day /\ p[1] \in Nat
  <1> USE PeriodsAssumption
  <1>1. CASE p \in ManualPeriods
    <2>1. p[1] % Day = 0 /\ p[2] = p[1] + Day /\ p[1] \in Nat
      BY <1>1, LedgerAssumption DEF WholeDays, Time
    <2>2. PICK n \in Nat : p[1] = Day * n
      <3>1. p[1] \div Day \in Nat /\ p[1] = Day * (p[1] \div Day)
        BY <2>1, WholeQuotient
      <3>2. QED
        BY <3>1
    <2>3. p[1] = n * Day /\ p[2] = (n + 1) * Day /\ n + 1 \in Nat
      BY <2>1, <2>2
    <2>4. QED
      BY <2>1, <2>3 DEF Midnight
  <1>2. CASE p \in CronPeriods
    <2>1. PICK t \in Day..Horizon : p = <<StartOfYesterday(t), StartOfToday(t)>>
      BY <1>2 DEF CronPeriods
    <2>2. t \in Nat /\ t >= Day
      BY <2>1
    <2>3. StartOfToday(t) = Day * (t \div Day) /\ t \div Day \in Nat
      BY <2>2 DEF StartOfToday
    <2>4. t \div Day # 0
      <3>1. t - (t % Day) > 0
        BY <2>2
      <3>2. QED
        BY <2>3, <3>1 DEF StartOfToday
    <2>5. PICK n \in Nat : t \div Day = n + 1
      <3>1. (t \div Day) - 1 \in Nat /\ t \div Day = ((t \div Day) - 1) + 1
        BY <2>3, <2>4
      <3>2. QED
        BY <3>1
    <2>6. StartOfToday(t) = (n + 1) * Day /\ StartOfYesterday(t) = n * Day /\ n + 1 \in Nat /\ n * Day \in Nat
      BY <2>3, <2>5 DEF StartOfYesterday
    <2>7. p[1] = n * Day /\ p[2] = (n + 1) * Day /\ p[2] = p[1] + Day
      BY <2>1, <2>6
    <2>8. QED
      BY <2>6, <2>7 DEF Midnight
  <1>3. QED
    BY <1>1, <1>2 DEF Periods

LEMMA WholeStarts == WholeDays => OnePeriodPerStart
  BY WholePeriods DEF OnePeriodPerStart

\* What was asked for is a day.
LEMMA IssuedDay ==
    ASSUME WholeDays, IssuedPeriods, TypeOK, NEW i, IssuedBody(i)
    PROVE  /\ i \in Instruction /\ i.space \in Space
           /\ i.from \in Time /\ i.to \in Time /\ i.from \in Nat /\ i.to \in Nat
           /\ i.to = i.from + Day
           /\ Midnight(i.from) /\ Midnight(i.to)
  <1>1. PICK j \in issued : j.body = i
    BY DEF IssuedBody
  <1>2. i \in Instruction
    BY <1>1 DEF TypeOK
  <1>3. <<i.from, i.to>> \in Periods
    BY <1>1 DEF IssuedPeriods
  <1>4. <<i.from, i.to>>[1] = i.from /\ <<i.from, i.to>>[2] = i.to
    OBVIOUS
  <1>5. Midnight(i.from) /\ Midnight(i.to) /\ i.to = i.from + Day
    BY <1>3, <1>4, WholePeriods
  <1>6. QED
    BY <1>2, <1>5 DEF Instruction, Time

-----------------------------------------------------------------------------
(* The clock. What is pending is late by MaxLag at most, and instructions  *)
(* are of days that ended CronDelay ago.                                   *)
Stored == pending \union diffs

ClockInv ==
    /\ \A d \in pending : now <= d.at + MaxLag
    /\ \A j \in issued : j.body.to + CronDelay <= now
    /\ \A d, e \in Stored : d.cause = e.cause => d = e
    /\ \A d \in Stored : d.cause <= Cardinality(Stored)

LEMMA SendsPast ==
    ASSUME TypeOK, Instruct
    PROVE  /\ \A j \in issued' : j \in issued \/ j.body.to + CronDelay <= now
           /\ UNCHANGED <<now, pending, diffs, snapshots, usage, worker>>
  <1> USE DEF Send, diffVars, tables
  <1>1. ASSUME NEW s \in Space, NEW t \in Time, NEW c \in 1..MaxCopies, SendDaily(s, t, c)
        PROVE  /\ \A j \in issued' : j \in issued \/ j.body.to + CronDelay <= now
               /\ UNCHANGED <<now, pending, diffs, snapshots, usage, worker>>
    <2>1. StartOfToday(t) = t - CronDelay /\ t <= now /\ t \in Nat /\ now \in Nat
      BY <1>1 DEF SendDaily, StartOfToday, TypeOK, Time
    <2>2. StartOfToday(t) + CronDelay <= now
      BY <2>1, LedgerAssumption
    <2>3. QED
      BY <1>1, <2>2 DEF SendDaily
  <1>2. ASSUME NEW s \in Space, NEW p \in ManualPeriods, NEW c \in 1..MaxCopies, SendManual(s, p, c)
        PROVE  /\ \A j \in issued' : j \in issued \/ j.body.to + CronDelay <= now
               /\ UNCHANGED <<now, pending, diffs, snapshots, usage, worker>>
    BY <1>2 DEF SendManual
  <1>3. QED
    BY <1>1, <1>2 DEF Instruct

\* A diff that is accepted has the present time and a cause of its own.
LEMMA AcceptIs ==
    ASSUME TypeInv, StorageChange
    PROVE  /\ UNCHANGED <<now, issued, snapshots, usage, worker>>
           /\ \/ Stored' = Stored /\ pending' \subseteq pending
              \/ \E d \in Diff : /\ d.at = now /\ d.cause = Cardinality(Stored) + 1
                                 /\ pending' = pending \union {d} /\ diffs' = diffs
  <1> USE DEF TypeInv
  <1>1. ASSUME NEW s \in Space, NEW delta \in Int, NEW u \in Cause \union {0}, Accept(s, delta, u)
        PROVE  \E d \in Diff : /\ d.at = now /\ d.cause = Cardinality(Stored) + 1
                               /\ pending' = pending \union {d} /\ diffs' = diffs
    <2> DEFINE d == [space |-> s, at |-> now, delta |-> delta, undoes |-> u,
                     cause |-> Cardinality(Stored) + 1]
    <2>1. IsFiniteSet(Stored)
      BY FS_Union DEF Finite, Stored
    <2>2. Cardinality(Stored) + 1 \in Cause
      BY <1>1, <2>1, FS_CardinalityType, LedgerAssumption DEF Accept, Cause, Stored
    <2>3. d \in Diff
      BY <2>2 DEF Diff, TypeOK
    <2>4. pending' = pending \union {d} /\ diffs' = diffs
      BY <1>1 DEF Accept, Stored
    <2>5. d.at = now /\ d.cause = Cardinality(Stored) + 1
      OBVIOUS
    <2> HIDE DEF d
    <2>6. QED
      BY <2>3, <2>4, <2>5
  <1>2. ASSUME NEW s \in Space, NEW b \in BlobSizes, AddBlob(s, b)
        PROVE  \E d \in Diff : /\ d.at = now /\ d.cause = Cardinality(Stored) + 1
                               /\ pending' = pending \union {d} /\ diffs' = diffs
    BY <1>1, <1>2, LedgerAssumption DEF AddBlob
  <1>3. ASSUME NEW e \in diffs, RemoveBlob(e)
        PROVE  \E d \in Diff : /\ d.at = now /\ d.cause = Cardinality(Stored) + 1
                               /\ pending' = pending \union {d} /\ diffs' = diffs
    <2>1. e.space \in Space /\ -e.delta \in Int /\ e.cause \in Cause \union {0}
      BY DEF TypeOK, Diff
    <2>2. QED
      BY <1>1, <1>3, <2>1 DEF RemoveBlob
  <1>4. ASSUME NEW d \in pending, WriteDiff(d)
        PROVE  Stored' = Stored /\ pending' \subseteq pending
    BY <1>4 DEF WriteDiff, Stored
  <1>5. UNCHANGED <<now, issued, snapshots, usage, worker>>
    BY DEF StorageChange, AddBlob, RemoveBlob, Accept, WriteDiff, tables, queueVars
  <1>6. QED
    BY <1>2, <1>3, <1>4, <1>5 DEF StorageChange

LEMMA OthersKeepStored ==
    ASSUME [Next]_vars, ~Tick, ~StorageChange, ~Instruct
    PROVE  UNCHANGED <<now, pending, diffs, issued>>
  BY DEF Next, vars, SpaceHandler, Receive, FindSnapshot, ReadDiff, EndOfDiffs, LoadPrevious,
         PutSnapshot, PutUsage, Delete, UsageHandler, StartReport, LookupPrevious, CheckSnapshot,
         SendMeterEvent, EndReport, Failure, SpaceHandlerFails, DiffListFails, SkipInactive,
         UsageHandlerFails, diffVars, queueVars

LEMMA ClockStep ==
    ASSUME TypeInv, ClockInv, [Next]_vars
    PROVE  ClockInv'
  <1> USE DEF TypeInv
  <1>1. /\ now \in Nat /\ MaxLag \in Nat /\ CronDelay \in Nat
        /\ \A d \in Stored : d.at \in Nat
        /\ \A j \in issued : j.body.to \in Nat
    <2>1. \A j \in issued : j.body \in Instruction
      BY DEF TypeOK
    <2>2. QED
      BY <2>1, LedgerAssumption DEF TypeOK, Stored, Diff, Time, Instruction
  <1>2. CASE Tick
    <2>1. /\ now' = now + 1 /\ UNCHANGED <<pending, diffs, issued>>
          /\ \A d \in pending : now < d.at + MaxLag
      BY <1>2 DEF Tick, diffVars, queueVars
    <2>2. \A d \in pending : now + 1 <= d.at + MaxLag
      BY <1>1, <2>1 DEF Stored
    <2>3. \A j \in issued : j.body.to + CronDelay <= now + 1
      BY <1>1 DEF ClockInv
    <2>4. QED
      BY <2>1, <2>2, <2>3 DEF ClockInv, Stored
  <1>3. CASE Instruct
    <2>1. \A j \in issued' : j.body.to + CronDelay <= now
      BY <1>3, SendsPast DEF ClockInv
    <2>2. QED
      BY <1>3, <2>1, SendsPast DEF ClockInv, Stored
  <1>4. CASE StorageChange
    <2>1. UNCHANGED <<now, issued>>
      BY <1>4, AcceptIs
    <2>2. CASE Stored' = Stored /\ pending' \subseteq pending
      BY <2>1, <2>2 DEF ClockInv
    <2>3. CASE \E d \in Diff : /\ d.at = now /\ d.cause = Cardinality(Stored) + 1
                               /\ pending' = pending \union {d} /\ diffs' = diffs
      <3>1. PICK d \in Diff : /\ d.at = now /\ d.cause = Cardinality(Stored) + 1
                              /\ pending' = pending \union {d} /\ diffs' = diffs
        BY <2>3
      <3>2. Stored' = Stored \union {d}
        BY <3>1 DEF Stored
      <3>3. IsFiniteSet(Stored) /\ Cardinality(Stored) \in Nat
        BY FS_Union, FS_CardinalityType DEF Finite, Stored
      <3>4. \A e \in Stored : e.cause \in Nat
        BY DEF TypeOK, Diff, Cause, Stored
      <3>5. d \notin Stored /\ \A e \in Stored : e.cause # d.cause
        BY <3>1, <3>3, <3>4 DEF ClockInv
      <3>6. Cardinality(Stored') = Cardinality(Stored) + 1
        BY <3>2, <3>3, <3>5, FS_AddElement
      <3>7. \A e \in Stored' : e.cause <= Cardinality(Stored')
        BY <3>1, <3>2, <3>3, <3>4, <3>6 DEF ClockInv
      <3>8. \A e, f \in Stored' : e.cause = f.cause => e = f
        BY <3>2, <3>5 DEF ClockInv
      <3>9. now <= d.at + MaxLag
        BY <1>1, <3>1
      <3>10. \A e \in pending' : now <= e.at + MaxLag
        BY <3>1, <3>9 DEF ClockInv
      <3>11. QED
        BY <2>1, <3>7, <3>8, <3>10 DEF ClockInv
    <2>4. QED
      BY <1>4, <2>2, <2>3, AcceptIs
  <1>5. QED
    BY <1>2, <1>3, <1>4, OthersKeepStored DEF ClockInv, Stored

\* Nothing that is pending belongs to a day that was asked for.
LEMMA PendingIsLater ==
    ASSUME TypeInv, ClockInv, MaxLag <= CronDelay, NEW d \in pending, NEW i, IssuedBody(i)
    PROVE  i.to <= d.at
  <1>1. PICK j \in issued : j.body = i
    BY DEF IssuedBody
  <1>2. now <= d.at + MaxLag /\ i.to + CronDelay <= now
    BY <1>1 DEF ClockInv
  <1>3. i \in Instruction
    BY <1>1 DEF TypeInv, TypeOK
  <1>4. now \in Nat /\ MaxLag \in Nat /\ CronDelay \in Nat /\ d.at \in Nat /\ i.to \in Nat
    BY <1>3, LedgerAssumption DEF TypeInv, TypeOK, Diff, Time, Instruction
  <1>5. QED
    BY <1>2, <1>4


-----------------------------------------------------------------------------
(* The first snapshot of a space, from which its ledger counts, never      *)
(* changes; and where there is none yet, every handler at work on the      *)
(* space is about to put the same.                                         *)

\* The ledger of s begins at b.
Begins(s, b) ==
    /\ HasSnapshot(s, b + Day)
    /\ \A p \in snapshots : p.space = s => b + Day <= p.at

\* It begins at b, or will when i is billed.
Opens(i, b) == Begins(i.space, b) \/ (SnapshotsOf(i.space) = {} /\ b = i.from)

SnapshotKeys == \A p, q \in snapshots : (p.space = q.space /\ p.at = q.at) => p = q

SnapshotsIssued ==
    \A p \in snapshots : \E i \in Instruction :
        IssuedBody(i) /\ i.space = p.space /\ i.to = p.at

Known ==
    TypeInv /\ SnapshotInv /\ BaseInv /\ ClockInv /\ SnapshotKeys /\ SnapshotsIssued

LEMMA BeginsOnce ==
    ASSUME TypeOK, NEW s, NEW b \in Int, NEW c \in Int, Begins(s, b), Begins(s, c)
    PROVE  b = c
  <1>1. PICK p \in snapshots : p.space = s /\ p.at = b + Day
    BY DEF Begins, HasSnapshot
  <1>2. PICK q \in snapshots : q.space = s /\ q.at = c + Day
    BY DEF Begins, HasSnapshot
  <1>3. c + Day <= b + Day /\ b + Day <= c + Day
    BY <1>1, <1>2 DEF Begins
  <1>4. QED
    BY <1>3, PeriodsAssumption

LEMMA SomeBegin ==
    ASSUME TypeOK, NEW s, SnapshotsOf(s) # {}
    PROVE  \E b \in Int : Begins(s, b) /\ LedgerStart(s) = b
  <1> DEFINE Dates == {p.at : p \in SnapshotsOf(s)}
  <1>1. Dates \in SUBSET Nat /\ Dates # {}
    BY DEF TypeOK, Snapshot, SnapshotsOf, Time
  <1>2. PICK m \in Dates : \A n \in Dates : m <= n
    BY <1>1, LeastNatural
  <1>3. Min(Dates) \in Dates /\ \A n \in Dates : Min(Dates) <= n
    BY <1>2 DEF Min
  <1>4. PICK p \in SnapshotsOf(s) : p.at = Min(Dates)
    BY <1>3
  <1>5. LedgerStart(s) = Min(Dates) - Day
    BY DEF LedgerStart
  <1>6. Min(Dates) \in Int /\ Day \in Int
    BY <1>1, <1>3, PeriodsAssumption
  <1> DEFINE b == Min(Dates) - Day
  <1>7. b \in Int /\ b + Day = Min(Dates)
    BY <1>6
  <1>8. HasSnapshot(s, b + Day)
    BY <1>4, <1>7 DEF HasSnapshot, SnapshotsOf
  <1>9. \A q \in snapshots : q.space = s => b + Day <= q.at
    BY <1>3, <1>7 DEF SnapshotsOf
  <1>10. QED
    BY <1>5, <1>7, <1>8, <1>9 DEF Begins

LEMMA BeginsIsStart ==
    ASSUME TypeOK, NEW s, NEW b \in Int, Begins(s, b)
    PROVE  LedgerStart(s) = b
  <1>1. SnapshotsOf(s) # {}
    BY DEF Begins, HasSnapshot, SnapshotsOf
  <1>2. QED
    BY <1>1, SomeBegin, BeginsOnce

LEMMA OnlyPutSnapshot ==
    ASSUME [Next]_vars, \A w \in Worker : ~PutSnapshot(w)
    PROVE  UNCHANGED snapshots
  BY DEF Next, vars, Tick, StorageChange, AddBlob, RemoveBlob, Accept, WriteDiff, Instruct,
     SendDaily, SendManual, Send, SpaceHandler, Receive, FindSnapshot, ReadDiff, EndOfDiffs,
     LoadPrevious, PutUsage, Delete, UsageHandler, StartReport, LookupPrevious,
     CheckSnapshot, SendMeterEvent, EndReport, Failure, SpaceHandlerFails, DiffListFails,
     SkipInactive, UsageHandlerFails, tables

LEMMA PutSnapshotIs ==
    ASSUME TypeOK, FromIssued, NEW w \in Worker, PutSnapshot(w)
    PROVE  /\ worker[w].msg.body \in Bodies /\ worker[w].msg.body \in Instruction
           /\ IssuedBody(worker[w].msg.body)
           /\ \E new \in Snapshot :
                /\ new.space = worker[w].msg.body.space
                /\ new.at = worker[w].msg.body.to
                /\ new.size = worker[w].size
                /\ snapshots' = {p \in snapshots : ~(p.space = new.space /\ p.at = new.at)}
                                  \union {new}
           /\ UNCHANGED <<now, pending, diffs, issued>>
  <1> DEFINE i == worker[w].msg.body
             new == [space |-> i.space, at |-> i.to, size |-> worker[w].size]
  <1>1. i \in Bodies /\ i \in Instruction /\ IssuedBody(i)
    BY WorkerBody DEF PutSnapshot
  <1>2. worker[w] \in Job
    BY PcIsJob DEF PutSnapshot
  <1>3. new \in Snapshot
    BY <1>1, <1>2 DEF Snapshot, Instruction, Job
  <1>4. snapshots' = {p \in snapshots : ~(p.space = new.space /\ p.at = new.at)} \union {new}
    BY DEF PutSnapshot, SnapshotWith
  <1>5. new.space = i.space /\ new.at = i.to /\ new.size = worker[w].size
    OBVIOUS
  <1>6. UNCHANGED <<now, pending, diffs, issued>>
    BY DEF PutSnapshot, diffVars
  <1> HIDE DEF new
  <1>7. QED
    BY <1>1, <1>3, <1>4, <1>5, <1>6

\* What is behind another period of its space has its snapshot.
LEMMA BehindHasSnapshot ==
    ASSUME TypeOK, SnapshotBeforeUsage, BaseInv, NEW i \in Bodies, NEW k,
           IssuedBody(k), k.space = i.space, i.to < k.to
    PROVE  HasSnapshot(i.space, i.to)
  <1>1. PICK j \in issued : j.body = k
    BY DEF IssuedBody
  <1>2. HasRecord(i)
    BY <1>1 DEF BaseInv, Overtaken
  <1>3. PICK r \in usage : PeriodOf(r) = i
    BY <1>2 DEF HasRecord
  <1>4. r.space = i.space /\ r.to = i.to
    BY <1>3 DEF PeriodOf
  <1>5. QED
    BY <1>3, <1>4 DEF SnapshotBeforeUsage, HasSnapshot

LEMMA BeginsStays ==
    ASSUME Known, [Next]_vars, NEW s, NEW b \in Int, Begins(s, b)
    PROVE  Begins(s, b)'
  <1> USE DEF Known, TypeInv, SnapshotInv
  <1>1. PICK p \in snapshots : p.space = s /\ p.at = b + Day
    BY DEF Begins, HasSnapshot
  <1>2. PICK k \in Instruction : IssuedBody(k) /\ k.space = s /\ k.to = b + Day
    BY <1>1 DEF SnapshotsIssued
  <1>3. \E q \in snapshots' : q.space = s /\ q.at = b + Day
    BY <1>1, SnapshotStays
  <1>4. ASSUME NEW w \in Worker, PutSnapshot(w), NEW q \in snapshots', q.space = s
        PROVE  b + Day <= q.at
    <2> DEFINE i == worker[w].msg.body
    <2>1. /\ i \in Bodies /\ i \in Instruction
          /\ q \in snapshots \/ (q.space = i.space /\ q.at = i.to)
      BY <1>4, PutSnapshotIs DEF BaseInv
    <2>2. CASE q \in snapshots
      BY <1>4, <2>2 DEF Begins
    <2>3. CASE i.space = s /\ q.at = i.to
      <3>1. CASE i.to < b + Day
        <4>1. HasSnapshot(s, i.to)
          BY <1>2, <2>1, <2>3, <3>1, BehindHasSnapshot
        <4>2. QED
          BY <2>3, <4>1 DEF Begins, HasSnapshot
      <3>2. CASE ~(i.to < b + Day)
        <4>1. i.to \in Int /\ Day \in Int
          BY <2>1, PeriodsAssumption DEF Instruction, Time
        <4>2. QED
          BY <2>3, <3>2, <4>1
      <3>3. QED
        BY <3>1, <3>2
    <2>4. QED
      BY <1>4, <2>1, <2>2, <2>3
  <1>5. \A q \in snapshots' : q.space = s => b + Day <= q.at
    BY <1>4, OnlyPutSnapshot DEF Begins
  <1>6. QED
    BY <1>3, <1>5 DEF Begins, HasSnapshot

\* What the ledger of a space opens at was known to all that work on it.
LEMMA OpensStep ==
    ASSUME WholeDays, Known, [Next]_vars, NEW k \in Bodies, NEW b \in Int, Opens(k, b)'
    PROVE  Opens(k, b)
  <1> USE DEF Known, TypeInv, SnapshotInv
  <1>0. IssuedBody(k) /\ k.from \in Nat /\ k.to \in Nat /\ k.to = k.from + Day
    BY IssuedDay DEF BaseInv, FromIssued
  <1>1. CASE SnapshotsOf(k.space)' = {}
    <2>1. b = k.from
      BY <1>1 DEF Opens, Begins, HasSnapshot, SnapshotsOf
    <2>2. SnapshotsOf(k.space) = {}
      BY <1>1, SnapshotStays DEF SnapshotsOf
    <2>3. QED
      BY <2>1, <2>2 DEF Opens
  <1>2. CASE SnapshotsOf(k.space) # {}
    <2>1. PICK c \in Int : Begins(k.space, c)
      BY <1>2, SomeBegin
    <2>2. Begins(k.space, c)'
      BY <2>1, BeginsStays
    <2>3. Begins(k.space, b)'
      <3>1. \E p \in snapshots' : p.space = k.space
        BY <2>2 DEF Begins, HasSnapshot
      <3>2. QED
        BY <3>1 DEF Opens, SnapshotsOf
    <2>4. PICK p \in snapshots' : p.space = k.space /\ p.at = b + Day
      BY <2>3 DEF Begins, HasSnapshot
    <2>5. PICK q \in snapshots' : q.space = k.space /\ q.at = c + Day
      BY <2>2 DEF Begins, HasSnapshot
    <2>6. b + Day <= c + Day /\ c + Day <= b + Day
      BY <2>2, <2>3, <2>4, <2>5 DEF Begins
    <2>7. b = c
      BY <2>6, PeriodsAssumption
    <2>8. QED
      BY <2>1, <2>7 DEF Opens
  <1>3. CASE SnapshotsOf(k.space) = {} /\ SnapshotsOf(k.space)' # {}
    <2>1. Begins(k.space, b)'
      BY <1>3 DEF Opens
    <2>2. PICK p \in snapshots' : p.space = k.space /\ p.at = b + Day
      BY <2>1 DEF Begins, HasSnapshot
    <2>3. p \notin snapshots
      BY <1>3, <2>2 DEF SnapshotsOf
    <2>4. PICK w \in Worker : PutSnapshot(w)
      BY <2>3, OnlyPutSnapshot
    <2> DEFINE i == worker[w].msg.body
    <2>5. i \in Bodies /\ IssuedBody(i) /\ p.space = i.space /\ p.at = i.to
      BY <2>2, <2>3, <2>4, PutSnapshotIs DEF BaseInv
    <2>6. i.to \in Nat
      BY <2>5, IssuedDay DEF BaseInv
    <2>7. i.space = k.space /\ \A t : ~HasSnapshot(k.space, t)
      BY <1>3, <2>2, <2>5 DEF HasSnapshot, SnapshotsOf
    <2>8. ~(i.to < k.to)
      BY <1>0, <2>5, <2>7, BehindHasSnapshot
    <2>9. ~(k.to < i.to)
      BY <2>5, <2>7, BehindHasSnapshot
    <2>10. b + Day = k.from + Day
      BY <1>0, <2>2, <2>5, <2>6, <2>8, <2>9
    <2>11. b = k.from
      BY <1>0, <2>10, PeriodsAssumption
    <2>12. QED
      BY <1>3, <2>11 DEF Opens
  <1>4. QED
    BY <1>1, <1>2, <1>3


-----------------------------------------------------------------------------
(* What the ledger of s, begun at b, has up to the key at#cause.           *)
Part(ds, s, b, at, cause) ==
    {d \in ds : /\ d.space = s /\ b <= d.at
                /\ d.at < at \/ (d.at = at /\ d.cause <= cause)}

Total(ds) == SumFunction([d \in ds |-> d.delta])

\* The size a handler has come to is that of the diffs it has behind it.
KnowsSize(job, b, ds) ==
    /\ b <= job.msg.body.from
    /\ job.pc = "diffs" =>
         /\ b <= job.lastAt /\ job.lastAt < job.msg.body.to
         /\ job.size = Total(Part(ds, job.msg.body.space, b, job.lastAt, job.lastCause))
    /\ job.pc # "diffs" =>
         job.size = Total(Part(ds, job.msg.body.space, b, job.msg.body.to, 0))

Sizing == {"diffs", "previous", "putSnapshot"}

ExactSnapshots ==
    \A p \in snapshots, b \in Int :
        Begins(p.space, b) => p.size = Total(Part(Stored, p.space, b, p.at, 0))

ExactHandlers ==
    \A w \in Worker, b \in Int :
        (worker[w].pc \in Sizing /\ Opens(worker[w].msg.body, b))
            => KnowsSize(worker[w], b, Stored)

\* A handler that has read nothing yet.
Fresh(job) ==
    /\ job.size = 0 /\ job.lastCause = 0 /\ job.usage = 0
    /\ job.found = FALSE /\ job.prev = job.msg.body.from

FreshHandlers == \A w \in Worker : worker[w].pc = "snapshot" => Fresh(worker[w])

ExactInv ==
    SnapshotKeys /\ SnapshotsIssued /\ ExactSnapshots /\ ExactHandlers /\ FreshHandlers

Earlier == TypeInv /\ SnapshotInv /\ BaseInv /\ ClockInv

LEMMA TotalOfNone == Total({}) = 0
  BY TotalEmpty DEF Total

LEMMA TotalOfOneMore ==
    ASSUME NEW ds, IsFiniteSet(ds), NEW d, d \notin ds, \A e \in ds \union {d} : e.delta \in Int
    PROVE  Total(ds \union {d}) = Total(ds) + d.delta
  <1> DEFINE f == [e \in ds |-> e.delta]
             g == [e \in ds \union {d} |-> e.delta]
  <1>1. f \in [ds -> Int] /\ g \in [ds \union {d} -> Int]
    OBVIOUS
  <1>2. \A y \in ds : g[y] = f[y]
    OBVIOUS
  <1>5. g[d] = d.delta
    OBVIOUS
  <1>3. Total(ds) = SumFunction(f) /\ Total(ds \union {d}) = SumFunction(g)
    BY DEF Total
  <1> HIDE DEF f, g
  <1>4. SumFunction(g) = SumFunction(f) + g[d]
    BY <1>1, <1>2, TotalWith, ZenonT(60)
  <1>6. QED
    BY <1>3, <1>4, <1>5

\* The diffs of the table are numbered.
LEMMA StoredType ==
    ASSUME TypeInv
    PROVE  /\ IsFiniteSet(Stored)
           /\ \A d \in Stored : /\ d.at \in Nat /\ d.delta \in Int
                                /\ d.cause \in Nat /\ d.cause > 0
           /\ \A s, b, at, cause : IsFiniteSet(Part(Stored, s, b, at, cause))
  <1>1. IsFiniteSet(Stored)
    BY FS_Union DEF TypeInv, Finite, Stored
  <1>2. \A d \in Stored : d.at \in Nat /\ d.delta \in Int /\ d.cause \in Nat /\ d.cause > 0
    BY DEF TypeInv, TypeOK, Stored, Diff, Cause, Time
  <1>3. ASSUME NEW s, NEW b, NEW at, NEW cause
        PROVE  IsFiniteSet(Part(Stored, s, b, at, cause))
    <2>1. Part(Stored, s, b, at, cause) \in SUBSET Stored
      BY DEF Part
    <2>2. QED
      BY <1>1, <2>1, FS_Subset
  <1>4. QED
    BY <1>1, <1>2, <1>3

LEMMA LedgerDiffsIs ==
    ASSUME TypeInv, NEW s, NEW b \in Int, Begins(s, b), NEW end \in Int
    PROVE  LedgerDiffs(s, end) = Part(Stored, s, b, end, 0)
  <1>1. LedgerStart(s) = b
    BY BeginsIsStart DEF TypeInv
  <1>2. LedgerDiffs(s, end) = {d \in Stored : d.space = s /\ b <= d.at /\ d.at < end}
    BY <1>1 DEF LedgerDiffs, Stored
  <1>3. \A d \in Stored : d.cause \in Nat /\ d.cause > 0
    BY StoredType
  <1>4. QED
    BY <1>2, <1>3 DEF Part

\* What is accepted later does not change what is behind.
LEMMA PartStays ==
    ASSUME TypeInv, ClockInv, [Next]_vars, NEW s, NEW b \in Int, NEW at \in Int, NEW cause,
           at < now \/ (at <= now /\ cause = 0)
    PROVE  Part(Stored', s, b, at, cause) = Part(Stored, s, b, at, cause)
  <1>1. now \in Int
    BY DEF TypeInv, TypeOK, Time
  <1>2. CASE StorageChange
    <2>1. CASE Stored' = Stored
      BY <2>1
    <2>2. CASE \E d \in Diff : /\ d.at = now /\ d.cause = Cardinality(Stored) + 1
                               /\ pending' = pending \union {d} /\ diffs' = diffs
      <3>1. PICK d \in Diff : d.at = now /\ pending' = pending \union {d} /\ diffs' = diffs
        BY <2>2
      <3>2. Stored' = Stored \union {d}
        BY <3>1 DEF Stored
      <3>3. d.cause \in Nat /\ d.cause > 0
        BY DEF Diff, Cause
      <3>4. d \notin Part(Stored \union {d}, s, b, at, cause)
        BY <1>1, <3>1, <3>3 DEF Part
      <3> HIDE DEF Stored
      <3>5. QED
        BY <3>2, <3>4 DEF Part
    <2>3. QED
      BY <1>2, <2>1, <2>2, AcceptIs
  <1>3. CASE ~StorageChange
    <2>1. Stored' = Stored
      <3>1. CASE Tick
        BY <3>1 DEF Tick, diffVars, Stored
      <3>2. CASE Instruct
        BY <3>2, SendsPast DEF Stored, TypeInv
      <3>3. QED
        BY <1>3, <3>1, <3>2, OthersKeepStored DEF Stored
    <2>2. QED
      BY <2>1
  <1>4. QED
    BY <1>2, <1>3

\* A handler that reads the first diff ahead has it behind.
LEMMA ReadAdds ==
    ASSUME Earlier, MaxLag <= CronDelay, NEW job \in Job, IssuedBody(job.msg.body),
           NEW b \in Int, b <= job.lastAt,
           NEW d \in Remaining(job), IsFirst(d, Remaining(job))
    PROVE  LET s == job.msg.body.space
               before == Part(Stored, s, b, job.lastAt, job.lastCause)
           IN  /\ d \notin before
               /\ Part(Stored, s, b, d.at, d.cause) = before \union {d}
               /\ d \in Stored
  <1> USE DEF Earlier
  <1> DEFINE i == job.msg.body
             s == job.msg.body.space
             before == Part(Stored, s, b, job.lastAt, job.lastCause)
             after == Part(Stored, s, b, d.at, d.cause)
  <1>1. i.to \in Int /\ job.lastAt \in Int /\ job.lastCause \in Int
    BY DEF Job, Message, Instruction, Cause, Time
  <1>2. /\ d \in Stored /\ d.space = s /\ d.at < i.to
        /\ d.at > job.lastAt \/ (d.at = job.lastAt /\ d.cause > job.lastCause)
    BY DEF Remaining, Stored
  <1>3. \A e \in Stored : e.at \in Nat /\ e.cause \in Nat
    BY StoredType
  <1>4. d \notin before
    BY <1>1, <1>2, <1>3 DEF Part
  <1>5. ASSUME NEW e \in after PROVE e \in before \union {d}
    <2>1. /\ e \in Stored /\ e.space = s /\ b <= e.at
          /\ e.at < d.at \/ (e.at = d.at /\ e.cause <= d.cause)
      BY DEF Part
    <2>2. e \in diffs
      <3>1. CASE e \in pending
        <4>1. i.to <= e.at
          BY <3>1, PendingIsLater
        <4>2. QED
          BY <1>1, <1>2, <1>3, <2>1, <4>1
      <3>2. QED
        BY <2>1, <3>1 DEF Stored
    <2>3. CASE e.at > job.lastAt \/ (e.at = job.lastAt /\ e.cause > job.lastCause)
      <3>1. e \in Remaining(job)
        BY <1>1, <1>2, <1>3, <2>1, <2>2, <2>3 DEF Remaining
      <3>2. d.at < e.at \/ (d.at = e.at /\ d.cause <= e.cause)
        BY <3>1 DEF IsFirst
      <3>3. e.cause = d.cause
        BY <1>2, <1>3, <2>1, <3>2
      <3>4. QED
        BY <1>2, <2>1, <3>3 DEF ClockInv
    <2>4. CASE ~(e.at > job.lastAt \/ (e.at = job.lastAt /\ e.cause > job.lastCause))
      BY <1>1, <1>3, <2>1, <2>4 DEF Part
    <2>5. QED
      BY <2>3, <2>4
  <1>6. ASSUME NEW e \in before PROVE e \in after
    BY <1>1, <1>2, <1>3, <1>6 DEF Part
  <1>7. d \in after
    BY <1>1, <1>2, <1>3 DEF Part
  <1>8. QED
    BY <1>2, <1>4, <1>5, <1>6, <1>7

\* When none is ahead, all of the period is behind.
LEMMA EndHasAll ==
    ASSUME Earlier, MaxLag <= CronDelay, NEW job \in Job, IssuedBody(job.msg.body),
           NEW b \in Int, job.lastAt < job.msg.body.to, Remaining(job) = {}
    PROVE  Part(Stored, job.msg.body.space, b, job.msg.body.to, 0)
             = Part(Stored, job.msg.body.space, b, job.lastAt, job.lastCause)
  <1> USE DEF Earlier
  <1> DEFINE i == job.msg.body
             s == job.msg.body.space
             before == Part(Stored, s, b, job.lastAt, job.lastCause)
             all == Part(Stored, s, b, i.to, 0)
  <1>1. i.to \in Int /\ job.lastAt \in Int /\ job.lastCause \in Int
    BY DEF Job, Message, Instruction, Cause, Time
  <1>2. \A e \in Stored : e.at \in Nat /\ e.cause \in Nat /\ e.cause > 0
    BY StoredType
  <1>3. ASSUME NEW e \in all PROVE e \in before
    <2>1. e \in Stored /\ e.space = s /\ b <= e.at /\ e.at < i.to
      BY <1>2 DEF Part
    <2>2. e \in diffs
      <3>1. CASE e \in pending
        <4>1. i.to <= e.at
          BY <3>1, PendingIsLater
        <4>2. QED
          BY <1>1, <1>2, <2>1, <4>1
      <3>2. QED
        BY <2>1, <3>1 DEF Stored
    <2>3. ~(e.at > job.lastAt \/ (e.at = job.lastAt /\ e.cause > job.lastCause))
      BY <2>1, <2>2 DEF Remaining
    <2>4. QED
      BY <1>1, <1>2, <2>1, <2>3 DEF Part
  <1>4. ASSUME NEW e \in before PROVE e \in all
    BY <1>1, <1>2, <1>4 DEF Part
  <1>5. QED
    BY <1>3, <1>4


-----------------------------------------------------------------------------
(* Where a handler begins.                                                 *)

\* All the snapshots of a space are listed: their dates are midnights.
LEMMA AllAreListed ==
    ASSUME ExactAssumption, Known, NEW s
    PROVE  NewestSnapshots(s) = SnapshotsOf(s)
  <1> USE DEF Known, ExactAssumption
  <1>0. Day \in Nat \ {0} /\ Horizon \in Nat
    BY PeriodsAssumption
  <1>1. ASSUME NEW p \in snapshots
        PROVE  p.at \in Nat /\ p.at <= Horizon /\ Midnight(p.at) /\ Day <= p.at
    <2>1. PICK i \in Instruction : IssuedBody(i) /\ i.space = p.space /\ i.to = p.at
      BY DEF SnapshotsIssued
    <2>2. i.from \in Nat /\ i.to \in Time /\ i.to = i.from + Day /\ Midnight(i.to)
      BY <2>1, IssuedDay DEF TypeInv, BaseInv
    <2>3. QED
      BY <1>0, <2>1, <2>2 DEF Time
  <1>2. ASSUME NEW p \in SnapshotsOf(s)
        PROVE  Cardinality({q \in SnapshotsOf(s) : q.at > p.at}) < SnapshotScan
    <2> DEFINE later == {q \in SnapshotsOf(s) : q.at > p.at}
               day == [q \in later |-> CHOOSE n \in Nat : q.at = n * Day]
               days == 2..31
    <2>1. p \in snapshots /\ p.space = s
      BY DEF SnapshotsOf
    <2>2. ASSUME NEW q \in later
          PROVE  day[q] \in days /\ q.at = day[q] * Day
      <3>1. q \in snapshots /\ q.space = s /\ q.at > p.at
        BY DEF SnapshotsOf
      <3>2. Midnight(q.at) /\ Midnight(p.at) /\ Day <= p.at /\ q.at <= 31 * Day
            /\ p.at \in Nat /\ q.at \in Nat
        BY <1>0, <1>1, <2>1, <3>1 DEF SnapshotScan
      <3>3. p.at + Day <= q.at
        BY <3>1, <3>2, NextMidnight
      <3>4. day[q] \in Nat /\ q.at = day[q] * Day
        BY <3>2 DEF Midnight
      <3> HIDE DEF day
      <3>5. 2 * Day <= day[q] * Day /\ day[q] * Day <= 31 * Day
        BY <1>0, <3>2, <3>3, <3>4
      <3>6. 2 <= day[q]
        <4>1. CASE day[q] <= 1
          <5>1. day[q] * Day <= 1 * Day
            BY <1>0, <3>4, <4>1
          <5>2. QED
            BY <1>0, <3>4, <3>5, <5>1
        <4>2. QED
          BY <3>4, <4>1
      <3>7. day[q] <= 31
        <4>1. CASE day[q] >= 32
          <5>1. day[q] * Day >= 32 * Day
            BY <1>0, <3>4, <4>1
          <5>2. QED
            BY <1>0, <3>4, <3>5, <5>1
        <4>2. QED
          BY <3>4, <4>1
      <3>8. QED
        BY <3>4, <3>6, <3>7
    <2> HIDE DEF day
    <2>3. day \in [later -> days]
      BY <2>2 DEF day
    <2>4. ASSUME NEW q \in later, NEW r \in later, day[q] = day[r]
          PROVE  q = r
      <3>1. q.at = r.at /\ q \in snapshots /\ r \in snapshots /\ q.space = s /\ r.space = s
        BY <2>2, <2>4 DEF SnapshotsOf
      <3>2. QED
        BY <3>1 DEF SnapshotKeys
    <2>5. IsFiniteSet(days) /\ Cardinality(days) = 30
      <3>1. PICK m \in Int, n \in Int : m = 2 /\ n = 31
        OBVIOUS
      <3>2. IsFiniteSet(m..n) /\ Cardinality(m..n) = IF m > n THEN 0 ELSE n - m + 1
        BY FS_Interval
      <3>3. m..n = days /\ n - m + 1 = 30 /\ ~(m > n)
        BY <3>1
      <3>4. QED
        BY <3>2, <3>3
    <2>6. day \in Injection(later, days)
      BY <2>3, <2>4 DEF Injection, IsInjective
    <2> HIDE DEF days, later
    <2>7. IsFiniteSet(later) /\ Cardinality(later) <= 30 /\ Cardinality(later) \in Nat
      BY <2>5, <2>6, FS_Injection, FS_CardinalityType
    <2>8. QED
      BY <2>7 DEF later, SnapshotScan
  <1>3. QED
    BY <1>2 DEF NewestSnapshots

\* A snapshot at or before the date is found if there is one.
LEMMA FindsIfAny ==
    ASSUME ExactAssumption, Known, NEW s, NEW date,
           NEW p \in SnapshotsOf(s), p.at <= date
    PROVE  SnapshotAtOrBefore(s, date) # {}
  <1> DEFINE exact == {q \in SnapshotsOf(s) : q.at = date}
             older == {q \in SnapshotsOf(s) : q.at <= date}
             Ages == {Horizon - q.at : q \in older}
  <1>1. SnapshotAtOrBefore(s, date) =
          IF exact # {} THEN exact ELSE {q \in older : \A r \in older : r.at <= q.at}
    <2>1. NewestSnapshots(s) = SnapshotsOf(s)
      BY AllAreListed
    <2>2. QED
      BY <2>1 DEF SnapshotAtOrBefore
  <1>2. \A q \in older : q.at \in Nat /\ q.at <= Horizon
    BY DEF Known, TypeInv, TypeOK, Snapshot, SnapshotsOf, Time
  <1>3. Ages \in SUBSET Nat /\ Ages # {}
    <2>1. \A q \in older : Horizon - q.at \in Nat
      BY <1>2, PeriodsAssumption
    <2>2. p \in older
      OBVIOUS
    <2>3. QED
      BY <2>1, <2>2
  <1>4. PICK a \in Ages : \A c \in Ages : a <= c
    BY <1>3, LeastNatural
  <1>5. PICK q \in older : a = Horizon - q.at
    BY <1>4
  <1>6. ASSUME NEW r \in older PROVE r.at <= q.at
    <2>1. Horizon - q.at <= Horizon - r.at
      BY <1>4, <1>5
    <2>2. QED
      BY <1>2, <2>1, PeriodsAssumption
  <1>7. QED
    BY <1>1, <1>5, <1>6

LEMMA FoundIs ==
    ASSUME ExactAssumption, Known, NEW s, NEW date, NEW p \in SnapshotAtOrBefore(s, date),
           date \in Int
    PROVE  p \in snapshots /\ p.space = s /\ p.at <= date /\ p.at \in Nat
  <1>1. p \in SnapshotsOf(s) /\ p.at <= date
    BY DEF SnapshotAtOrBefore, NewestSnapshots
  <1>2. QED
    BY <1>1 DEF SnapshotsOf, Known, TypeInv, TypeOK, Snapshot, Time

\* The handler begins with the size at the snapshot, or of a space not seen yet.
LEMMA BeginsExact ==
    ASSUME ExactAssumption, Known, ExactSnapshots, FreshHandlers,
           NEW w \in Worker, FindSnapshot(w), NEW b \in Int, Opens(worker[w].msg.body, b)
    PROVE  KnowsSize(worker'[w], b, Stored)
  <1> USE DEF Known, ExactAssumption
  <1> DEFINE job == worker[w]
             i == job.msg.body
             snap == SnapshotAtOrBefore(i.space, i.from)
             from(p) == [job EXCEPT !.pc = "diffs", !.found = TRUE, !.base = p.at,
                                    !.size = p.size, !.lastAt = p.at]
             empty == [job EXCEPT !.pc = "diffs", !.lastAt = i.from]
  <1>1. job \in Job /\ job.pc = "snapshot" /\ job.size = 0 /\ job.lastCause = 0
    BY PcIsJob DEF FindSnapshot, TypeInv, FreshHandlers, Fresh
  <1>2. /\ i \in Bodies /\ i \in Instruction /\ IssuedBody(i)
        /\ i.from \in Nat /\ i.to \in Nat /\ i.to = i.from + Day
        /\ Midnight(i.from) /\ Midnight(i.to)
    BY <1>1, WorkerBody, IssuedDay DEF TypeInv, BaseInv
  <1>3. Day \in Nat \ {0}
    BY PeriodsAssumption
  <1>4. \/ \E p \in snap : worker'[w] = from(p)
        \/ snap = {} /\ worker'[w] = empty
    BY DEF FindSnapshot, TypeInv, TypeOK
  <1>5. ASSUME NEW p \in snap, worker'[w] = from(p)
        PROVE  KnowsSize(worker'[w], b, Stored)
    <2>1. p \in snapshots /\ p.space = i.space /\ p.at <= i.from /\ p.at \in Nat
      BY <1>2, FoundIs
    <2>2. Begins(i.space, b)
      BY <2>1 DEF Opens, SnapshotsOf
    <2>3. b + Day <= p.at
      BY <2>1, <2>2 DEF Begins
    <2>4. b <= p.at /\ b <= i.from /\ p.at < i.to
      BY <1>2, <1>3, <2>1, <2>3
    <2>5. p.size = Total(Part(Stored, i.space, b, p.at, 0))
      BY <2>1, <2>2 DEF ExactSnapshots
    <2>6. /\ from(p).pc = "diffs" /\ from(p).msg = job.msg /\ from(p).size = p.size
          /\ from(p).lastAt = p.at /\ from(p).lastCause = 0
      BY <1>1 DEF Job
    <2> HIDE DEF from
    <2>7. QED
      BY <1>5, <2>4, <2>5, <2>6 DEF KnowsSize
  <1>6. ASSUME snap = {}, worker'[w] = empty
        PROVE  KnowsSize(worker'[w], b, Stored)
    <2>1. b = i.from
      <3>1. CASE Begins(i.space, b)
        <4>1. PICK p \in snapshots : p.space = i.space /\ p.at = b + Day
          BY <3>1 DEF Begins, HasSnapshot
        <4>2. PICK k \in Instruction : IssuedBody(k) /\ k.space = i.space /\ k.to = b + Day
          BY <4>1 DEF SnapshotsIssued
        <4>3. k.to \in Nat /\ Midnight(k.to)
          BY <4>2, IssuedDay DEF TypeInv, BaseInv
        <4>4. i.from < k.to
          <5>1. ~(p.at <= i.from)
            BY <1>6, <4>1, FindsIfAny DEF SnapshotsOf
          <5>2. QED
            BY <1>2, <4>1, <4>2, <4>3, <5>1
        <4>5. i.to <= k.to
          BY <1>2, <4>3, <4>4, NextMidnight
        <4>6. ~(i.to < k.to)
          <5>1. SUFFICES ASSUME i.to < k.to PROVE FALSE
            OBVIOUS
          <5>2. HasSnapshot(i.space, i.to)
            BY <1>2, <4>2, <5>1, BehindHasSnapshot DEF TypeInv, SnapshotInv
          <5>3. b + Day <= i.to
            BY <3>1, <5>2 DEF Begins, HasSnapshot
          <5>4. QED
            BY <1>2, <4>2, <4>3, <5>1, <5>3
        <4>7. QED
          BY <1>2, <1>3, <4>2, <4>3, <4>5, <4>6
      <3>2. QED
        BY <3>1 DEF Opens
    <2>2. Part(Stored, i.space, b, i.from, 0) = {}
      <3>1. \A d \in Stored : d.at \in Nat /\ d.cause \in Nat /\ d.cause > 0
        BY StoredType
      <3>2. QED
        BY <1>2, <2>1, <3>1 DEF Part
    <2>3. Total(Part(Stored, i.space, b, i.from, 0)) = 0
      BY <2>2, TotalOfNone
    <2>4. /\ empty.pc = "diffs" /\ empty.msg = job.msg /\ empty.size = 0
          /\ empty.lastAt = i.from /\ empty.lastCause = 0
      BY <1>1 DEF Job
    <2>5. b <= i.from /\ i.from < i.to
      BY <1>2, <1>3, <2>1
    <2> HIDE DEF empty
    <2>6. QED
      BY <1>6, <2>3, <2>4, <2>5 DEF KnowsSize
  <1>7. QED
    BY <1>4, <1>5, <1>6


-----------------------------------------------------------------------------
(* Steps.                                                                  *)

\* How a handler comes to be where its size matters.
LEMMA HandlerSteps ==
    ASSUME TypeOK, "diff_list" \notin Faults, [Next]_vars, NEW v \in Worker
    PROVE  \/ worker'[v] = worker[v]
           \/ FindSnapshot(v) \/ ReadDiff(v) \/ EndOfDiffs(v) \/ LoadPrevious(v)
           \/ worker'[v].pc = "snapshot" /\ Fresh(worker'[v])
           \/ worker'[v].pc \notin Sizing \union {"snapshot"}
  <1> DEFINE Goal == \/ worker'[v] = worker[v]
                     \/ FindSnapshot(v) \/ ReadDiff(v) \/ EndOfDiffs(v) \/ LoadPrevious(v)
                     \/ worker'[v].pc = "snapshot" /\ Fresh(worker'[v])
                     \/ worker'[v].pc \notin Sizing \union {"snapshot"}
  <1>1. ASSUME NEW w \in Worker, SpaceHandler(w)
        PROVE  Goal
    <2>1. ASSUME NEW m \in queue, Receive(w, m)
          PROVE  Goal
      <3> DEFINE msg == [m EXCEPT !.receives = @ + 1]
                 new == [pc |-> "snapshot", msg |-> msg,
                         found |-> FALSE, base |-> m.body.from, size |-> 0,
                         prev |-> m.body.from, usage |-> 0, lastAt |-> 0, lastCause |-> 0]
      <3>1. worker' = [worker EXCEPT ![w] = new]
        BY <2>1 DEF Receive
      <3>5. msg.body = m.body
        BY DEF TypeOK, Message
      <3> HIDE DEF msg
      <3>2. new.pc = "snapshot" /\ Fresh(new)
        BY <3>5 DEF Fresh
      <3> HIDE DEF new
      <3>3. worker'[v] = IF v = w THEN new ELSE worker[v]
        BY <3>1 DEF TypeOK
      <3>4. QED
        BY <3>2, <3>3
    <2>2. CASE FindSnapshot(w)
      BY <2>2, FindSnapshotAdvances DEF Advances
    <2>3. CASE ReadDiff(w)
      BY <2>3, ReadDiffAdvances DEF Advances
    <2>4. CASE EndOfDiffs(w)
      BY <2>4, ClosedAdvances DEF Advances, EndOfDiffs
    <2>5. CASE LoadPrevious(w)
      BY <2>5, LoadPreviousAdvances DEF Advances
    <2>6. CASE PutSnapshot(w)
      BY <2>6, PutSnapshotAdvances DEF Advances, Sizing
    <2>7. CASE PutUsage(w)
      BY <2>7, PutUsageAdvances DEF Advances, Sizing
    <2>8. CASE Delete(w)
      BY <2>8 DEF Delete, TypeOK, Idle, Sizing
    <2>9. QED
      BY <1>1, <2>1, <2>2, <2>3, <2>4, <2>5, <2>6, <2>7, <2>8 DEF SpaceHandler
  <1>2. ASSUME NEW w \in Worker, SpaceHandlerFails(w)
        PROVE  Goal
    BY <1>2 DEF SpaceHandlerFails, TypeOK, Idle, Sizing
  <1>3. \A w \in Worker : ~DiffListFails(w)
    BY DEF DiffListFails
  <1>4. Tick \/ StorageChange \/ Instruct \/ UsageHandler \/ SkipInactive
          \/ UsageHandlerFails \/ UNCHANGED vars
        => UNCHANGED worker
    BY DEF Tick, StorageChange, AddBlob, RemoveBlob, Accept, WriteDiff, Instruct, SendDaily,
       SendManual, Send, UsageHandler, StartReport, LookupPrevious, CheckSnapshot,
       SendMeterEvent, EndReport, SkipInactive, UsageHandlerFails, vars, queueVars
  <1>5. QED
    BY <1>1, <1>2, <1>3, <1>4 DEF Next, Failure

LEMMA KeysStep ==
    ASSUME Prompt, Known, [Next]_vars
    PROVE  SnapshotKeys' /\ SnapshotsIssued'
  <1> USE DEF Known, TypeInv, BaseInv
  <1>1. ASSUME NEW w \in Worker, PutSnapshot(w)
        PROVE  SnapshotKeys'
    <2>1. PICK new \in Snapshot :
            snapshots' = {p \in snapshots : ~(p.space = new.space /\ p.at = new.at)} \union {new}
      BY <1>1, PutSnapshotIs
    <2>2. QED
      BY <2>1 DEF SnapshotKeys
  <1>2. SnapshotKeys'
    BY <1>1, OnlyPutSnapshot DEF SnapshotKeys
  <1>3. \A k : IssuedBody(k) => IssuedBody(k)'
    BY IssuedStep
  <1>4. ASSUME NEW p \in snapshots'
        PROVE  \E i \in Instruction : IssuedBody(i)' /\ i.space = p.space /\ i.to = p.at
    <2>1. CASE p \in snapshots
      BY <1>3, <2>1 DEF SnapshotsIssued
    <2>2. CASE p \notin snapshots
      <3>1. PICK w \in Worker : PutSnapshot(w)
        BY <2>2, OnlyPutSnapshot
      <3> DEFINE i == worker[w].msg.body
      <3>2. i \in Instruction /\ IssuedBody(i) /\ p.space = i.space /\ p.at = i.to
        BY <2>2, <3>1, PutSnapshotIs
      <3>3. PICK k \in Instruction : k = i
        BY <3>2
      <3>4. IssuedBody(k)'
        BY <1>3, <3>2, <3>3
      <3>5. QED
        BY <3>2, <3>3, <3>4
    <2>3. QED
      BY <2>1, <2>2
  <1>5. QED
    BY <1>2, <1>4 DEF SnapshotsIssued

\* Dates that were asked for are past.
LEMMA IssuedIsPast ==
    ASSUME TypeInv, ClockInv, NEW i \in Instruction, IssuedBody(i)
    PROVE  i.to \in Nat /\ i.to <= now
  <1>1. PICK j \in issued : j.body = i
    BY DEF IssuedBody
  <1>2. i.to + CronDelay <= now
    BY <1>1 DEF ClockInv
  <1>3. QED
    BY <1>2, LedgerAssumption DEF TypeInv, TypeOK, Instruction, Time

LEMMA ExactSnapshotsStep ==
    ASSUME ExactAssumption, Known, ExactSnapshots, ExactHandlers, [Next]_vars
    PROVE  ExactSnapshots'
  <1> USE DEF Known, TypeInv, BaseInv, ExactAssumption
  <1>1. SUFFICES ASSUME NEW p \in snapshots', NEW b \in Int, Begins(p.space, b)'
                 PROVE  p.size = Total(Part(Stored', p.space, b, p.at, 0))
    BY DEF ExactSnapshots
  <1>2. CASE p \in snapshots
    <2>1. PICK i \in Instruction : IssuedBody(i) /\ i.space = p.space /\ i.to = p.at
      BY <1>2 DEF SnapshotsIssued
    <2>2. p.at \in Int /\ p.at <= now
      BY <2>1, IssuedIsPast
    <2>3. PICK c \in Int : Begins(p.space, c)
      BY <1>2, SomeBegin DEF SnapshotsOf
    <2>4. Begins(p.space, c)'
      BY <2>3, BeginsStays
    <2>5. b = c
      <3>1. PICK q \in snapshots', r \in snapshots' :
               q.space = p.space /\ q.at = b + Day /\ r.space = p.space /\ r.at = c + Day
        BY <1>1, <2>4 DEF Begins, HasSnapshot
      <3>2. b + Day <= c + Day /\ c + Day <= b + Day
        BY <1>1, <2>4, <3>1 DEF Begins
      <3>3. QED
        BY <3>2, PeriodsAssumption
    <2>6. p.size = Total(Part(Stored, p.space, b, p.at, 0))
      BY <1>2, <2>3, <2>5 DEF ExactSnapshots
    <2>7. Part(Stored', p.space, b, p.at, 0) = Part(Stored, p.space, b, p.at, 0)
      BY <2>2, PartStays
    <2>8. QED
      BY <2>6, <2>7
  <1>3. CASE p \notin snapshots
    <2>1. PICK w \in Worker : PutSnapshot(w)
      BY <1>3, OnlyPutSnapshot
    <2> DEFINE i == worker[w].msg.body
    <2>2. /\ i \in Bodies /\ i \in Instruction /\ IssuedBody(i)
          /\ p.space = i.space /\ p.at = i.to /\ p.size = worker[w].size
          /\ UNCHANGED <<pending, diffs>>
      BY <1>3, <2>1, PutSnapshotIs
    <2>3. PICK k \in Bodies : k = i
      BY <2>2
    <2>4. Opens(k, b)'
      BY <1>1, <2>2, <2>3 DEF Opens
    <2>5. Opens(i, b)
      BY <2>3, <2>4, OpensStep
    <2>6. worker[w].pc = "putSnapshot"
      BY <2>1 DEF PutSnapshot
    <2>7. KnowsSize(worker[w], b, Stored)
      BY <2>5, <2>6 DEF ExactHandlers, Sizing
    <2>8. Stored' = Stored
      BY <2>2 DEF Stored
    <2>9. QED
      BY <2>2, <2>6, <2>7, <2>8 DEF KnowsSize
  <1>4. QED
    BY <1>2, <1>3

\* A handler that has read a diff more, or the last, knows the size it has come to.
LEMMA ReadExact ==
    ASSUME Earlier, MaxLag <= CronDelay, NEW w \in Worker, ReadDiff(w),
           NEW b \in Int, KnowsSize(worker[w], b, Stored)
    PROVE  KnowsSize(worker'[w], b, Stored)
  <1> USE DEF Earlier
  <1> DEFINE job == worker[w]
             i == job.msg.body
  <1>1. job \in Job /\ job.pc = "diffs"
    BY PcIsJob DEF ReadDiff, TypeInv
  <1>2. IssuedBody(i)
    BY <1>1, WorkerBody DEF TypeInv, BaseInv
  <1>3. PICK d \in Remaining(job) :
           IsFirst(d, Remaining(job)) /\ worker' = [worker EXCEPT ![w] = Integrated(job, d)]
    BY DEF ReadDiff
  <1>4. worker'[w] = Integrated(job, d)
    BY <1>3 DEF TypeInv, TypeOK
  <1> DEFINE before == Part(Stored, i.space, b, job.lastAt, job.lastCause)
  <1>5. /\ b <= i.from /\ b <= job.lastAt /\ job.size = Total(before)
    BY <1>1 DEF KnowsSize
  <1>6. /\ d \notin before /\ d \in Stored
        /\ Part(Stored, i.space, b, d.at, d.cause) = before \union {d}
    BY <1>1, <1>2, <1>3, <1>5, ReadAdds
  <1>7. IsFiniteSet(before) /\ \A e \in before \union {d} : e.delta \in Int
    <2>1. IsFiniteSet(before)
      BY StoredType
    <2>2. before \subseteq Stored
      BY DEF Part
    <2> HIDE DEF before
    <2>3. \A e \in Stored : e.delta \in Int
      BY StoredType
    <2>4. QED
      BY <1>6, <2>1, <2>2, <2>3
  <1> HIDE DEF before
  <1>8. Total(before \union {d}) = Total(before) + d.delta
    BY <1>6, <1>7, TotalOfOneMore
  <1>9. /\ Integrated(job, d).pc = "diffs" /\ Integrated(job, d).msg = job.msg
        /\ Integrated(job, d).size = job.size + d.delta
        /\ Integrated(job, d).lastAt = d.at /\ Integrated(job, d).lastCause = d.cause
    BY <1>1 DEF Integrated, Job
  <1>10. b <= d.at /\ d.at < i.to
    <2>1. d.at \in Nat /\ job.lastAt \in Int
      BY <1>1, <1>6, StoredType DEF Job, Time
    <2>2. d.at < i.to /\ job.lastAt <= d.at
      BY <1>3, <2>1 DEF Remaining
    <2>3. QED
      BY <1>5, <2>1, <2>2
  <1>11. QED
    BY <1>4, <1>5, <1>6, <1>8, <1>9, <1>10 DEF KnowsSize

LEMMA EndExact ==
    ASSUME Earlier, MaxLag <= CronDelay, NEW w \in Worker, EndOfDiffs(w),
           NEW b \in Int, KnowsSize(worker[w], b, Stored)
    PROVE  KnowsSize(worker'[w], b, Stored)
  <1> USE DEF Earlier
  <1> DEFINE job == worker[w]
             i == job.msg.body
  <1>1. job \in Job /\ job.pc = "diffs"
    BY PcIsJob DEF EndOfDiffs, TypeInv
  <1>2. IssuedBody(i)
    BY <1>1, WorkerBody DEF TypeInv, BaseInv
  <1>3. Remaining(job) = {} /\ worker'[w] = Closed(job)
    BY DEF EndOfDiffs, TypeInv, TypeOK
  <1>4. /\ b <= i.from /\ job.lastAt < i.to
        /\ job.size = Total(Part(Stored, i.space, b, job.lastAt, job.lastCause))
    BY <1>1 DEF KnowsSize
  <1>5. Part(Stored, i.space, b, i.to, 0) = Part(Stored, i.space, b, job.lastAt, job.lastCause)
    BY <1>1, <1>2, <1>3, <1>4, EndHasAll
  <1>6. Closed(job).pc = "previous" /\ Closed(job).msg = job.msg /\ Closed(job).size = job.size
    BY <1>1 DEF Closed, Job
  <1>7. QED
    BY <1>3, <1>4, <1>5, <1>6 DEF KnowsSize

LEMMA ExactHandlersStep ==
    ASSUME ExactAssumption, Known, ExactSnapshots, ExactHandlers, FreshHandlers, [Next]_vars
    PROVE  ExactHandlers' /\ FreshHandlers'
  <1> USE DEF ExactAssumption, Known
  <1>1. FreshHandlers'
    <2>1. SUFFICES ASSUME NEW v \in Worker, worker'[v].pc = "snapshot"
                   PROVE  Fresh(worker'[v])
      BY DEF FreshHandlers
    <2>2. CASE worker'[v] = worker[v]
      BY <2>1, <2>2 DEF FreshHandlers
    <2>3. CASE FindSnapshot(v) \/ ReadDiff(v) \/ EndOfDiffs(v) \/ LoadPrevious(v)
      BY <2>1, <2>3, FindSnapshotAdvances, ReadDiffAdvances, ClosedAdvances, LoadPreviousAdvances
      DEF Advances, EndOfDiffs, TypeInv
    <2>4. QED
      BY <2>1, <2>2, <2>3, HandlerSteps DEF TypeInv
  <1>2. ASSUME NEW v \in Worker, NEW b \in Int, worker'[v].pc \in Sizing,
               Opens(worker[v].msg.body, b)'
        PROVE  KnowsSize(worker'[v], b, Stored')
    <2> DEFINE i == worker[v].msg.body
    <2>1. CASE worker'[v] = worker[v]
      <3>1. worker[v].pc \in Sizing /\ worker[v] \in Job
        BY <1>2, <2>1, PcIsJob DEF TypeInv, Sizing
      <3>2. i \in Bodies /\ i \in Instruction /\ IssuedBody(i)
        BY <3>1, WorkerBody DEF TypeInv, Sizing, BaseInv
      <3>3. PICK k \in Bodies : k = i
        BY <3>2
      <3>4. Opens(k, b)'
        BY <1>2, <2>1, <3>3 DEF Opens
      <3>5. Opens(i, b)
        BY <3>3, <3>4, OpensStep
      <3>6. KnowsSize(worker[v], b, Stored)
        BY <3>1, <3>5 DEF ExactHandlers
      <3>7. i.to \in Nat /\ i.to <= now
        BY <3>2, IssuedIsPast
      <3>8. now \in Int /\ worker[v].lastAt \in Int
        BY <3>1 DEF TypeInv, TypeOK, Job, Time
      <3>9. worker[v].pc = "diffs" => worker[v].lastAt < now
        BY <3>6, <3>7, <3>8 DEF KnowsSize
      <3>10. worker[v].pc = "diffs" =>
               Part(Stored', i.space, b, worker[v].lastAt, worker[v].lastCause)
                 = Part(Stored, i.space, b, worker[v].lastAt, worker[v].lastCause)
        <4>1. PICK t \in Int, c \in {worker[v].lastCause} : t = worker[v].lastAt
          BY <3>8
        <4>2. worker[v].pc = "diffs" => Part(Stored', i.space, b, t, c) = Part(Stored, i.space, b, t, c)
          <5>1. PICK s : s = i.space
            OBVIOUS
          <5>2. worker[v].pc = "diffs" => Part(Stored', s, b, t, c) = Part(Stored, s, b, t, c)
            BY <3>9, <4>1, PartStays
          <5>3. QED
            BY <5>1, <5>2
        <4>3. QED
          BY <4>1, <4>2
      <3>11. Part(Stored', i.space, b, i.to, 0) = Part(Stored, i.space, b, i.to, 0)
        <4>1. PICK t \in Int : t = i.to
          BY <3>7
        <4>2. PICK s : s = i.space
          OBVIOUS
        <4>3. Part(Stored', s, b, t, 0) = Part(Stored, s, b, t, 0)
          BY <3>7, <4>1, PartStays
        <4>4. QED
          BY <4>1, <4>2, <4>3
      <3> HIDE DEF Known
      <3>12. QED
        BY <2>1, <3>6, <3>10, <3>11 DEF KnowsSize
    <2>2. CASE FindSnapshot(v) \/ ReadDiff(v) \/ EndOfDiffs(v) \/ LoadPrevious(v)
      <3>1. /\ worker'[v].msg = worker[v].msg /\ worker[v] \in Job
            /\ UNCHANGED <<pending, diffs, snapshots>>
        <4>1. worker'[v].msg = worker[v].msg /\ worker[v] \in Job
          BY <2>2, FindSnapshotAdvances, ReadDiffAdvances, ClosedAdvances, LoadPreviousAdvances
          DEF Advances, EndOfDiffs, TypeInv
        <4>2. UNCHANGED <<pending, diffs, snapshots>>
          BY <2>2 DEF FindSnapshot, ReadDiff, EndOfDiffs, LoadPrevious, diffVars, tables
        <4>3. QED
          BY <4>1, <4>2
      <3>2. Opens(i, b)
        BY <1>2, <3>1 DEF Opens, Begins, HasSnapshot, SnapshotsOf
      <3>3. Stored' = Stored
        BY <3>1 DEF Stored
      <3>4. CASE FindSnapshot(v)
        BY <3>2, <3>3, <3>4, BeginsExact
      <3>5. CASE ReadDiff(v)
        <4>1. KnowsSize(worker[v], b, Stored)
          BY <3>2, <3>5 DEF ReadDiff, ExactHandlers, Sizing
        <4>2. QED
          BY <3>3, <3>5, <4>1, ReadExact DEF Earlier
      <3>6. CASE EndOfDiffs(v)
        <4>1. KnowsSize(worker[v], b, Stored)
          BY <3>2, <3>6 DEF EndOfDiffs, ExactHandlers, Sizing
        <4>2. QED
          BY <3>3, <3>6, <4>1, EndExact DEF Earlier
      <3>7. CASE LoadPrevious(v)
        <4> DEFINE u == worker[v].usage + PreviousCumulative(worker[v])
        <4>1. KnowsSize(worker[v], b, Stored) /\ worker[v].pc = "previous"
          BY <3>2, <3>7 DEF LoadPrevious, ExactHandlers, Sizing
        <4>2. worker'[v] = [worker[v] EXCEPT !.pc = "putSnapshot", !.usage = u]
          BY <3>7 DEF LoadPrevious, TypeInv, TypeOK
        <4> HIDE DEF u
        <4>3. /\ worker'[v].pc = "putSnapshot" /\ worker'[v].msg = worker[v].msg
              /\ worker'[v].size = worker[v].size
          BY <3>1, <4>2 DEF Job
        <4>4. QED
          BY <3>3, <4>1, <4>3 DEF KnowsSize
      <3>8. QED
        BY <2>2, <3>4, <3>5, <3>6, <3>7
    <2>3. QED
      BY <1>2, <2>1, <2>2, HandlerSteps DEF TypeInv, Sizing
  <1>3. ExactHandlers'
    BY <1>2 DEF ExactHandlers
  <1>4. QED
    BY <1>1, <1>3

LEMMA ExactInvHolds ==
    ASSUME ExactAssumption
    PROVE  Spec => [](Known /\ ExactInv)
  <1>1. Prompt /\ OnePeriodPerStart
    BY WholeStarts DEF ExactAssumption
  <1>2. Init => SnapshotInv /\ BaseInv /\ ClockInv /\ ExactInv
    <2> SUFFICES ASSUME Init PROVE SnapshotInv /\ BaseInv /\ ClockInv /\ ExactInv
      OBVIOUS
    <2>1. SnapshotInv
      BY DEF Init, SnapshotInv, SnapshotBeforeUsage, PutUsageHasSnapshot, Idle
    <2>2. BaseInv
      BY DEF Init, BaseInv, IssuedPeriods, FromIssued, Overtaken, ReportHasBase, SendsOnBase,
         Idle, Bodies, Unconsumed
    <2>3. ClockInv
      BY DEF Init, ClockInv, Stored
    <2>4. ExactInv
      BY DEF Init, ExactInv, SnapshotKeys, SnapshotsIssued, ExactSnapshots, ExactHandlers,
         FreshHandlers, Sizing, Idle
    <2>5. QED
      BY <2>1, <2>2, <2>3, <2>4
  <1>3. TypeInv /\ SnapshotInv /\ [Next]_vars => SnapshotInv'
    BY SnapshotStep DEF TypeInv
  <1>4. TypeInv /\ BaseInv /\ [Next]_vars => BaseInv'
    BY <1>1, BaseStep DEF TypeInv
  <1>5. TypeInv /\ ClockInv /\ [Next]_vars => ClockInv'
    BY ClockStep
  <1>6. TypeInv /\ SnapshotInv /\ BaseInv /\ ClockInv /\ ExactInv /\ [Next]_vars => ExactInv'
    BY <1>1, KeysStep, ExactSnapshotsStep, ExactHandlersStep DEF ExactInv, Known
  <1>7. TypeInv /\ SnapshotInv /\ BaseInv /\ ClockInv /\ ExactInv => Known /\ ExactInv
    BY DEF ExactInv, Known
  <1>8. QED
    BY <1>2, <1>3, <1>4, <1>5, <1>6, <1>7, InitTypeInv, NextTypeInv, PTL DEF Spec

(***************************************************************************)
(* A snapshot is the size of its space, exactly, whatever fails and        *)
(* however handlers of the same space interleave, as long as the outside   *)
(* keeps to what ExactAssumption says.                                     *)
(***************************************************************************)
THEOREM SnapshotsAreExact ==
    ASSUME ExactAssumption
    PROVE  Spec => []SnapshotExact
  <1>1. Known /\ ExactInv => SnapshotExact
    <2> SUFFICES ASSUME Known, ExactInv, NEW p \in snapshots
                 PROVE  p.size = SumFunction([d \in LedgerDiffs(p.space, p.at) |-> d.delta])
      BY DEF SnapshotExact
    <2> USE DEF Known
    <2>1. PICK b \in Int : Begins(p.space, b)
      BY SomeBegin DEF TypeInv, SnapshotsOf
    <2>2. p.at \in Int
      BY DEF TypeInv, TypeOK, Snapshot, Time
    <2>3. p.size = Total(Part(Stored, p.space, b, p.at, 0))
      BY <2>1 DEF ExactInv, ExactSnapshots
    <2>4. LedgerDiffs(p.space, p.at) = Part(Stored, p.space, b, p.at, 0)
      BY <2>1, <2>2, LedgerDiffsIs
    <2>5. QED
      BY <2>3, <2>4 DEF Total
  <1>2. QED
    BY <1>1, ExactInvHolds, PTL

-----------------------------------------------------------------------------
(* Usage records. What a diff counts for in a period depends on how long   *)
(* of the period it lasted.                                                *)

Since(d, from) == IF d.at < from THEN from ELSE d.at

Weighed(ds, from, t) == SumFunction([d \in ds |-> d.delta * (t - Since(d, from))])

LEMMA SummandType ==
    ASSUME TypeInv, NEW ds \in SUBSET Stored, NEW from \in Int, NEW t \in Int
    PROVE  /\ IsFiniteSet(ds)
           /\ \A d \in ds : d.delta \in Int /\ Since(d, from) \in Int
           /\ [d \in ds |-> d.delta * (t - Since(d, from))] \in [ds -> Int]
           /\ [d \in ds |-> d.delta] \in [ds -> Int]
           /\ Weighed(ds, from, t) \in Int
           /\ Total(ds) \in Int
  <1>1. IsFiniteSet(ds)
    BY StoredType, FS_Subset
  <1>2. \A d \in ds : d.delta \in Int /\ d.at \in Nat
    BY StoredType
  <1>3. \A d \in ds : Since(d, from) \in Int
    BY <1>2 DEF Since
  <1>4. [d \in ds |-> d.delta * (t - Since(d, from))] \in [ds -> Int]
    BY <1>2, <1>3
  <1>5. [d \in ds |-> d.delta] \in [ds -> Int]
    BY <1>2
  <1>6. Weighed(ds, from, t) \in Int
    BY <1>1, <1>4, TotalType DEF Weighed
  <1>7. Total(ds) \in Int
    BY <1>1, <1>5, TotalType DEF Total
  <1>8. QED
    BY <1>1, <1>2, <1>3, <1>4, <1>5, <1>6, <1>7

\* Time passes: everything stored counts for the time that passed.
LEMMA WeighedLater ==
    ASSUME TypeInv, NEW ds \in SUBSET Stored, NEW from \in Int, NEW t \in Int, NEW u \in Int
    PROVE  Weighed(ds, from, u) = Weighed(ds, from, t) + Total(ds) * (u - t)
  <1> DEFINE f == [d \in ds |-> d.delta * (t - Since(d, from))]
             g == [d \in ds |-> d.delta]
             h == [d \in ds |-> d.delta * (u - Since(d, from))]
             c == u - t
  <1>1. IsFiniteSet(ds) /\ f \in [ds -> Int] /\ g \in [ds -> Int] /\ h \in [ds -> Int]
    <2>1. IsFiniteSet(ds) /\ \A d \in ds : d.delta \in Int /\ Since(d, from) \in Int
      BY SummandType
    <2>2. QED
      BY <2>1
  <1>2. c \in Int
    OBVIOUS
  <1>3. ASSUME NEW x \in ds PROVE h[x] = f[x] + g[x] * c
    <2>1. x.delta \in Int /\ Since(x, from) \in Int
      BY SummandType
    <2>2. \A m, n \in Int : m * (u - n) = m * (t - n) + m * (u - t)
      OBVIOUS
    <2>3. QED
      BY <2>1, <2>2
  <1>4. Weighed(ds, from, u) = SumFunction(h) /\ Weighed(ds, from, t) = SumFunction(f)
        /\ Total(ds) = SumFunction(g)
    BY DEF Weighed, Total
  <1> HIDE DEF f, g, h, c
  <1>5. SumFunction(h) = SumFunction(f) + SumFunction(g) * c
    BY <1>1, <1>2, <1>3, TotalScales
  <1>6. QED
    BY <1>4, <1>5 DEF c

\* What is stored at the moment counts for nothing yet.
LEMMA WeighedMore ==
    ASSUME TypeInv, NEW ds \in SUBSET Stored, NEW from \in Int, NEW d \in Stored, d \notin ds
    PROVE  Weighed(ds \union {d}, from, Since(d, from)) = Weighed(ds, from, Since(d, from))
  <1> DEFINE t == Since(d, from)
             f == [e \in ds |-> e.delta * (t - Since(e, from))]
             g == [e \in ds \union {d} |-> e.delta * (t - Since(e, from))]
  <1>1. IsFiniteSet(ds) /\ \A e \in Stored : e.delta \in Int /\ Since(e, from) \in Int
    BY SummandType, StoredType DEF Since
  <1>2. t \in Int /\ d.delta \in Int
    BY <1>1
  <1>3. IsFiniteSet(ds) /\ f \in [ds -> Int] /\ g \in [ds \union {d} -> Int]
    BY <1>1, <1>2
  <1>4. \A y \in ds : g[y] = f[y]
    OBVIOUS
  <1>5. g[d] = 0
    BY <1>2
  <1>6. Weighed(ds \union {d}, from, t) = SumFunction(g) /\ Weighed(ds, from, t) = SumFunction(f)
    BY DEF Weighed
  <1>7. SumFunction(f) \in Int
    BY <1>3, TotalType
  <1> HIDE DEF f, g, t
  <1>8. SumFunction(g) = SumFunction(f) + g[d]
    BY <1>3, <1>4, TotalWith, SMTT(30)
  <1>9. QED
    BY <1>5, <1>6, <1>7, <1>8 DEF t

\* What was stored before the period counts for nothing at its start.
LEMMA WeighedAtStart ==
    ASSUME TypeInv, NEW ds \in SUBSET Stored, NEW from \in Int, \A d \in ds : d.at <= from
    PROVE  Weighed(ds, from, from) = 0
  <1>1. \A d \in ds : d.at \in Nat /\ d.delta \in Int
    BY StoredType
  <1>2. \A d \in ds : d.delta * (from - Since(d, from)) = 0
    <2> SUFFICES ASSUME NEW d \in ds PROVE d.delta * (from - Since(d, from)) = 0
      OBVIOUS
    <2>1. Since(d, from) = from
      BY <1>1 DEF Since
    <2>2. from - Since(d, from) = 0
      BY <2>1
    <2>3. QED
      BY <1>1, <2>2
  <1>3. [d \in ds |-> d.delta * (from - Since(d, from))] = [d \in ds |-> 0]
    BY <1>2
  <1>4. IsFiniteSet(ds)
    BY SummandType
  <1>5. QED
    BY <1>3, <1>4, TotalZero DEF Weighed

\* The usage of one period of a space whose ledger begins at b.
DayOf(ds, i, b) == Weighed(Part(ds, i.space, b, i.to, 0), i.from, i.to)

LEMMA DayType ==
    ASSUME TypeInv, NEW i, NEW b, i.from \in Int, i.to \in Int
    PROVE  DayOf(Stored, i, b) \in Int
  <1>1. Part(Stored, i.space, b, i.to, 0) \in SUBSET Stored
    BY DEF Part
  <1>2. QED
    BY <1>1, SummandType DEF DayOf

LEMMA IntegralIs ==
    ASSUME TypeInv, NEW i, NEW b \in Int, Begins(i.space, b), i.to \in Int
    PROVE  Integral(i.space, i.from, i.to) = DayOf(Stored, i, b)
  <1>1. LedgerDiffs(i.space, i.to) = Part(Stored, i.space, b, i.to, 0)
    BY LedgerDiffsIs
  <1>2. QED
    BY <1>1 DEF Integral, DayOf, Weighed, Since


-----------------------------------------------------------------------------
(* What is behind a period that was asked for does not change any more.    *)

\* The periods of the month of i billed before it, and what they come to.
Prior(i) ==
    {PeriodOf(q) : q \in {x \in UsageOf(i.space) : SameMonth(x.from, i.from) /\ x.from < i.from}}

MonthBefore(i, b) == SumFunction([k \in Prior(i) |-> DayOf(Stored, k, b)])

\* The periods of records are whole days that were asked for.
LEMMA RecordDay ==
    ASSUME WholeDays, TypeOK, BaseInv, NEW q \in usage
    PROVE  /\ IssuedBody(PeriodOf(q)) /\ HasRecord(PeriodOf(q))
           /\ PeriodOf(q) \in Instruction
           /\ PeriodOf(q).space = q.space /\ PeriodOf(q).from = q.from /\ PeriodOf(q).to = q.to
           /\ q.from \in Time /\ q.to \in Time /\ q.from \in Nat /\ q.to \in Nat
           /\ q.to = q.from + Day
           /\ Midnight(q.from) /\ Midnight(q.to)
  <1>1. IssuedBody(PeriodOf(q)) /\ HasRecord(PeriodOf(q))
    BY DEF BaseInv, FromIssued, HasRecord
  <1>2. PeriodOf(q).space = q.space /\ PeriodOf(q).from = q.from /\ PeriodOf(q).to = q.to
    BY DEF PeriodOf
  <1>3. QED
    BY <1>1, <1>2, IssuedDay DEF BaseInv

LEMMA RecordsBehindStay ==
    ASSUME WholeDays, Known, [Next]_vars, NEW k \in Instruction, IssuedBody(k),
           NEW i, i.space = k.space, i.to < k.to
    PROVE  HasRecord(i)' <=> HasRecord(i)
  <1> USE DEF Known, TypeInv, SnapshotInv
  <1>1. HasRecord(i) => HasRecord(i)'
    BY RecordStays, WholeStarts DEF BaseInv
  <1>2. ASSUME HasRecord(i)'
        PROVE  HasRecord(i)
    <2>1. PICK q \in usage' : PeriodOf(q) = i
      BY <1>2 DEF HasRecord
    <2>2. CASE q \in usage
      BY <2>1, <2>2 DEF HasRecord
    <2>3. CASE q \notin usage
      <3>1. PICK w \in Worker : PutUsage(w)
        BY <2>3, UsageChangesByPutUsage
      <3> DEFINE j == worker[w].msg.body
                 new == [space |-> j.space, from |-> j.from, to |-> j.to,
                         usage |-> worker[w].usage]
      <3>2. q = new
        BY <2>1, <2>3, <3>1, PutUsageEffect
      <3>3. j \in Bodies /\ j \in Instruction
        BY <3>1, WorkerBody DEF PutUsage, BaseInv
      <3>4. PeriodOf(new) = j
        BY <3>3 DEF PeriodOf, Instruction
      <3>5. i = j
        BY <2>1, <3>2, <3>4
      <3>6. PICK x \in issued : x.body = k
        BY DEF IssuedBody
      <3>7. QED
        BY <3>3, <3>5, <3>6 DEF BaseInv, Overtaken
    <2>4. QED
      BY <2>2, <2>3
  <1>3. QED
    BY <1>1, <1>2

LEMMA SnapshotsBehindStay ==
    ASSUME WholeDays, Known, [Next]_vars, NEW k \in Instruction, IssuedBody(k),
           NEW t \in Int, t < k.to
    PROVE  HasSnapshot(k.space, t)' <=> HasSnapshot(k.space, t)
  <1> USE DEF Known, TypeInv, SnapshotInv
  <1>1. HasSnapshot(k.space, t) => HasSnapshot(k.space, t)'
    BY SnapshotStays DEF HasSnapshot
  <1>2. ASSUME HasSnapshot(k.space, t)', ~HasSnapshot(k.space, t)
        PROVE  FALSE
    <2>1. PICK p \in snapshots' : p.space = k.space /\ p.at = t
      BY <1>2 DEF HasSnapshot
    <2>2. p \notin snapshots
      BY <1>2, <2>1 DEF HasSnapshot
    <2>3. PICK w \in Worker : PutSnapshot(w)
      BY <2>2, OnlyPutSnapshot
    <2> DEFINE i == worker[w].msg.body
    <2>4. i \in Bodies /\ p.space = i.space /\ p.at = i.to
      BY <2>2, <2>3, PutSnapshotIs DEF BaseInv
    <2>5. HasSnapshot(i.space, i.to)
      BY <2>1, <2>4, BehindHasSnapshot
    <2>6. QED
      BY <1>2, <2>1, <2>4, <2>5
  <1>3. QED
    BY <1>1, <1>2

\* Before and after mean the same for whole days.
LEMMA DaysApart ==
    ASSUME WholeDays, TypeOK, BaseInv, NEW i, IssuedBody(i), NEW k, IssuedBody(k)
    PROVE  /\ i.from < k.from <=> i.to <= k.from
           /\ i.from < k.from <=> i.to < k.to
           /\ i.from = k.from <=> i.to = k.to
  <1>1. /\ i.to = i.from + Day /\ i.from \in Nat /\ i.to \in Nat
        /\ Midnight(i.from) /\ Midnight(i.to)
    BY IssuedDay DEF BaseInv
  <1>2. k.to = k.from + Day /\ k.from \in Nat /\ k.to \in Nat /\ Midnight(k.from)
    BY IssuedDay DEF BaseInv
  <1>3. Day \in Nat \ {0}
    BY PeriodsAssumption
  <1>4. i.from < k.from => i.from + Day <= k.from
    BY <1>1, <1>2, NextMidnight
  <1>5. QED
    BY <1>1, <1>2, <1>3, <1>4

LEMMA PriorType ==
    ASSUME WholeDays, TypeOK, BaseInv, NEW k, IssuedBody(k)
    PROVE  /\ \A i \in Prior(k) : /\ i \in Instruction /\ IssuedBody(i) /\ HasRecord(i)
                                  /\ i.space = k.space /\ SameMonth(i.from, k.from)
                                  /\ i.from < k.from /\ i.to <= k.from /\ i.to < k.to
           /\ \A i : (/\ HasRecord(i) /\ i.space = k.space /\ SameMonth(i.from, k.from)
                      /\ i.from < k.from) => i \in Prior(k)
           /\ IsFiniteSet(Prior(k))
  <1>1. ASSUME NEW i \in Prior(k)
        PROVE  /\ i \in Instruction /\ IssuedBody(i) /\ HasRecord(i)
               /\ i.space = k.space /\ SameMonth(i.from, k.from)
               /\ i.from < k.from /\ i.to <= k.from /\ i.to < k.to
    <2>1. PICK q \in usage : /\ i = PeriodOf(q) /\ q.space = k.space
                             /\ SameMonth(q.from, k.from) /\ q.from < k.from
      BY DEF Prior, UsageOf
    <2>2. IssuedBody(i) /\ HasRecord(i) /\ i \in Instruction /\ i.space = q.space /\ i.from = q.from
      BY <2>1, RecordDay
    <2>3. QED
      BY <2>1, <2>2, DaysApart
  <1>2. ASSUME NEW i, HasRecord(i), i.space = k.space, SameMonth(i.from, k.from), i.from < k.from
        PROVE  i \in Prior(k)
    <2>1. PICK q \in usage : PeriodOf(q) = i
      BY <1>2 DEF HasRecord
    <2>2. q.space = i.space /\ q.from = i.from
      BY <2>1 DEF PeriodOf
    <2>3. QED
      BY <1>2, <2>1, <2>2 DEF Prior, UsageOf
  <1>3. IsFiniteSet(Prior(k))
    <2> DEFINE f == [i \in Prior(k) |-> i.from]
    <2>1. IsFiniteSet(Time)
      <3>1. 0 \in Int /\ Horizon \in Int
        BY PeriodsAssumption
      <3>2. QED
        BY <3>1, FS_Interval DEF Time
    <2>2. \A i \in Prior(k) : f[i] \in Time
      BY <1>1 DEF Instruction
    <2>3. ASSUME NEW i \in Prior(k), NEW j \in Prior(k), f[i] = f[j]
          PROVE  i = j
      <3>1. i.from = j.from /\ i.space = j.space /\ i \in Instruction /\ j \in Instruction
        BY <1>1, <2>3
      <3>2. i.to = j.to
        BY <1>1, <3>1, DaysApart
      <3>3. QED
        BY <3>1, <3>2 DEF Instruction
    <2>4. f \in Injection(Prior(k), Time)
      BY <2>2, <2>3 DEF Injection, IsInjective
    <2>5. QED
      BY <2>1, <2>4, FS_Injection
  <1>4. QED
    BY <1>1, <1>2, <1>3

LEMMA DayStays ==
    ASSUME TypeInv, ClockInv, [Next]_vars, NEW i \in Instruction, IssuedBody(i), NEW b \in Int
    PROVE  DayOf(Stored', i, b) = DayOf(Stored, i, b)
  <1>1. i.to \in Int /\ i.to <= now
    BY IssuedIsPast
  <1>2. Part(Stored', i.space, b, i.to, 0) = Part(Stored, i.space, b, i.to, 0)
    BY <1>1, PartStays
  <1>3. QED
    BY <1>2 DEF DayOf

\* So the month up to a period stays what it is, and so does a lost base.
LEMMA PriorStays ==
    ASSUME WholeDays, Prompt, Known, [Next]_vars, NEW k \in Instruction, IssuedBody(k)
    PROVE  Prior(k)' = Prior(k)
  <1> USE DEF Known, TypeInv
  <1>1. TypeOK' /\ BaseInv' /\ IssuedBody(k)'
    <2>1. TypeOK'
      BY NextTypeInv
    <2>2. BaseInv' /\ IssuedBody(k)'
      BY BaseStep, IssuedStep, WholeStarts
    <2>3. QED
      BY <2>1, <2>2
  <1>2. ASSUME NEW i \in Prior(k) PROVE i \in Prior(k)'
    <2>1. HasRecord(i) /\ i.space = k.space /\ SameMonth(i.from, k.from) /\ i.from < k.from
          /\ i.to < k.to
      BY PriorType
    <2>2. HasRecord(i)'
      BY <2>1, RecordsBehindStay
    <2>3. PICK q \in usage' : PeriodOf(q) = i
      BY <2>2 DEF HasRecord
    <2>4. q.space = i.space /\ q.from = i.from
      BY <2>3 DEF PeriodOf
    <2>5. QED
      BY <2>1, <2>3, <2>4 DEF Prior, UsageOf
  <1>3. ASSUME NEW i \in Prior(k)' PROVE i \in Prior(k)
    <2>1. PICK q \in usage' : /\ i = PeriodOf(q) /\ q.space = k.space
                              /\ SameMonth(q.from, k.from) /\ q.from < k.from
      BY DEF Prior, UsageOf
    <2>2. i.space = k.space /\ i.from = q.from /\ i.to = q.to
      BY <2>1 DEF PeriodOf
    <2>3. HasRecord(i)'
      BY <2>1 DEF HasRecord
    <2>4. IssuedBody(i)'
      <3>1. \A r \in usage' : IssuedBody(PeriodOf(r))'
        BY <1>1 DEF BaseInv, FromIssued
      <3>2. QED
        BY <2>1, <3>1
    <2>5. i.to < k.to
      <3>1. PICK x \in issued' : x.body = i
        BY <2>4 DEF IssuedBody
      <3>2. <<i.from, i.to>> \in Periods
        BY <1>1, <3>1 DEF BaseInv, IssuedPeriods
      <3>3. <<k.from, k.to>> \in Periods
        BY DEF BaseInv, IssuedPeriods, IssuedBody
      <3>4. i.to = i.from + Day /\ k.to = k.from + Day /\ i.from \in Nat /\ k.from \in Nat
        <4>1. \A p \in Periods : p[2] = p[1] + Day /\ p[1] \in Nat
          BY WholePeriods
        <4>2. <<i.from, i.to>>[1] = i.from /\ <<i.from, i.to>>[2] = i.to
          OBVIOUS
        <4>3. <<k.from, k.to>>[1] = k.from /\ <<k.from, k.to>>[2] = k.to
          OBVIOUS
        <4>4. QED
          BY <3>2, <3>3, <4>1, <4>2, <4>3
      <3>5. QED
        BY <2>1, <2>2, <3>4, PeriodsAssumption
    <2>6. HasRecord(i)
      BY <2>2, <2>3, <2>5, RecordsBehindStay
    <2>7. QED
      BY <2>1, <2>2, <2>6, PriorType
  <1>4. QED
    BY <1>2, <1>3

LEMMA MonthStays ==
    ASSUME WholeDays, Prompt, Known, [Next]_vars, NEW k \in Instruction, IssuedBody(k),
           NEW b \in Int
    PROVE  MonthBefore(k, b)' = MonthBefore(k, b)
  <1> USE DEF Known, TypeInv
  <1>1. Prior(k)' = Prior(k)
    BY PriorStays
  <1>2. \A i \in Prior(k) : DayOf(Stored', i, b) = DayOf(Stored, i, b)
    BY PriorType, DayStays
  <1>3. [i \in Prior(k)' |-> DayOf(Stored', i, b)] = [i \in Prior(k) |-> DayOf(Stored, i, b)]
    BY <1>1, <1>2
  <1>4. QED
    BY <1>3 DEF MonthBefore

LEMMA LostStays ==
    ASSUME WholeDays, Prompt, Known, [Next]_vars, NEW k \in Instruction, IssuedBody(k)
    PROVE  BaseLost(k)' <=> BaseLost(k)
  <1> USE DEF Known, TypeInv
  <1> DEFINE Lost(t) == /\ t <= k.from /\ ~IsMonthStart(t) /\ SameMonth(t, k.from)
                        /\ HasSnapshot(k.space, t)
                        /\ ~\E q \in usage : q.space = k.space /\ q.to = t
  <1>0. k.from < k.to /\ k.from \in Nat /\ k.to \in Nat
    BY DEF Instruction, Time
  <1>1. BaseLost(k) <=> \E t \in Int : Lost(t)
    <2>1. \A p \in snapshots : p.at \in Int
      BY DEF TypeOK, Snapshot, Time
    <2>2. QED
      BY <2>1 DEF BaseLost, HasSnapshot, SnapshotsOf, UsageOf
  <1>2. BaseLost(k)' <=> \E t \in Int : Lost(t)'
    <2>1. \A p \in snapshots' : p.at \in Int
      BY NextTypeInv DEF TypeOK, Snapshot, Time
    <2>2. QED
      BY <2>1 DEF BaseLost, HasSnapshot, SnapshotsOf, UsageOf
  <1>3. ASSUME NEW t \in Int, t <= k.from
        PROVE  (\E q \in usage : q.space = k.space /\ q.to = t)
                 <=> (\E q \in usage' : q.space = k.space /\ q.to = t)
    <2>1. t < k.to
      BY <1>0, <1>3
    <2>2. ASSUME NEW q \in usage, q.space = k.space, q.to = t
          PROVE  \E r \in usage' : r.space = k.space /\ r.to = t
      <3>1. PICK i : i = PeriodOf(q)
        OBVIOUS
      <3>2. HasRecord(i) /\ i.space = k.space /\ i.to = t
        BY <2>2, <3>1 DEF HasRecord, PeriodOf
      <3>3. HasRecord(i)'
        BY <2>1, <3>2, RecordsBehindStay
      <3>4. PICK r \in usage' : PeriodOf(r) = i
        BY <3>3 DEF HasRecord
      <3>5. r.space = i.space /\ r.to = i.to
        BY <3>4 DEF PeriodOf
      <3>6. QED
        BY <3>2, <3>4, <3>5
    <2>3. ASSUME NEW q \in usage', q.space = k.space, q.to = t
          PROVE  \E r \in usage : r.space = k.space /\ r.to = t
      <3>1. PICK i : i = PeriodOf(q)
        OBVIOUS
      <3>2. HasRecord(i)' /\ i.space = k.space /\ i.to = t
        BY <2>3, <3>1 DEF HasRecord, PeriodOf
      <3>3. HasRecord(i)
        BY <2>1, <3>2, RecordsBehindStay
      <3>4. PICK r \in usage : PeriodOf(r) = i
        BY <3>3 DEF HasRecord
      <3>5. r.space = i.space /\ r.to = i.to
        BY <3>4 DEF PeriodOf
      <3>6. QED
        BY <3>2, <3>4, <3>5
    <2>4. QED
      BY <2>2, <2>3
  <1>4. \A t \in Int : t <= k.from => (HasSnapshot(k.space, t)' <=> HasSnapshot(k.space, t))
    BY <1>0, SnapshotsBehindStay
  <1>5. ASSUME NEW t \in Int PROVE Lost(t)' <=> Lost(t)
    BY <1>3, <1>4
  <1> HIDE DEF Lost
  <1>6. QED
    BY <1>1, <1>2, <1>5


-----------------------------------------------------------------------------
(* The calendar.                                                           *)

LEMMA MonthFacts ==
    ASSUME NEW t \in Time
    PROVE  /\ StartOfMonth(t) \in MonthStarts /\ StartOfMonth(t) \in Nat /\ StartOfMonth(t) <= t
           /\ \A n \in MonthStarts : n <= t => n <= StartOfMonth(t)
           /\ IsMonthStart(t) => StartOfMonth(t) = t
  <1>1. PICK m \in MonthStarts : m <= t /\ \A n \in MonthStarts : n <= t => n <= m
    BY PeriodsAssumption DEF Time
  <1>2. /\ StartOfMonth(t) \in MonthStarts /\ StartOfMonth(t) <= t
        /\ \A n \in MonthStarts : n <= t => n <= StartOfMonth(t)
    BY <1>1 DEF StartOfMonth
  <1>3. StartOfMonth(t) \in Nat /\ t \in Nat
    <2>1. MonthStarts \subseteq Nat
      BY PeriodsAssumption
    <2>2. t \in Nat
      BY DEF Time
    <2>3. QED
      BY <1>2, <2>1, <2>2
  <1>4. IsMonthStart(t) => StartOfMonth(t) = t
    <2>1. IsMonthStart(t) => t <= StartOfMonth(t)
      BY <1>2, <1>3 DEF IsMonthStart
    <2>2. QED
      BY <1>2, <1>3, <2>1
  <1>5. QED
    BY <1>2, <1>3, <1>4

LEMMA MonthsGrow ==
    ASSUME NEW t \in Time, NEW u \in Time, t <= u
    PROVE  StartOfMonth(t) <= StartOfMonth(u)
  <1>1. t \in Nat /\ u \in Nat /\ StartOfMonth(t) <= u
    BY MonthFacts DEF Time
  <1>2. QED
    BY <1>1, MonthFacts

\* The day before a day that does not begin a month is of the same month.
LEMMA DayBefore ==
    ASSUME NEW t \in Time, NEW u \in Time, Midnight(t), u = t + Day, Midnight(u), ~IsMonthStart(u)
    PROVE  SameMonth(t, u)
  <1> DEFINE m == StartOfMonth(u)
  <1>1. m \in MonthStarts /\ m \in Nat /\ m <= u
    BY MonthFacts
  <1>2. m # u
    BY <1>1 DEF IsMonthStart
  <1>3. Midnight(m)
    <2>1. m % Day = 0 /\ Day \in Nat \ {0}
      BY <1>1, PeriodsAssumption
    <2> HIDE DEF m
    <2>2. m \div Day \in Nat /\ m = Day * (m \div Day)
      BY <1>1, <2>1, WholeQuotient
    <2>3. m = (m \div Day) * Day
      BY <2>1, <2>2
    <2>4. QED
      BY <2>2, <2>3 DEF Midnight
  <1>4. t \in Nat /\ u \in Nat /\ Day \in Nat \ {0}
    BY PeriodsAssumption DEF Time
  <1>5. m < u
    BY <1>1, <1>2, <1>4
  <1> HIDE DEF m
  <1>6. m + Day <= u
    BY <1>3, <1>5, NextMidnight
  <1>7. m <= t
    BY <1>1, <1>4, <1>6
  <1>8. m <= StartOfMonth(t)
    BY <1>1, <1>7, MonthFacts
  <1>9. StartOfMonth(t) <= m
    BY <1>4, MonthsGrow DEF m
  <1>10. QED
    BY <1>1, <1>8, <1>9, MonthFacts DEF SameMonth, m

-----------------------------------------------------------------------------
(* What a handler knows.                                                   *)

\* The snapshot a handler started from is the newest before its period.
Based(job) ==
    LET i == job.msg.body
        before == {t \in Time : HasSnapshot(i.space, t) /\ t <= i.from}
    IN  IF job.found
        THEN job.base \in before /\ \A t \in before : t <= job.base
        ELSE before = {}

BasedHandlers == \A w \in Worker : worker[w].pc \in {"diffs", "previous"} => Based(worker[w])

\* What it has integrated so far is what it has behind it, up to prev.
Weighs(job, b, ds) ==
    LET i == job.msg.body
    IN  /\ i.from <= job.prev /\ (job.prev = i.from \/ job.prev = job.lastAt)
        /\ job.usage = Weighed(Part(ds, i.space, b, job.lastAt, job.lastCause), i.from, job.prev)

\* The month-to-date usage at the end of a period, unless its base is lost.
Comes(i, b, u) == BaseLost(i) \/ u = DayOf(Stored, i, b) + MonthBefore(i, b)

UsageHandlers ==
    \A w \in Worker, b \in Int :
        LET job == worker[w]
            i == job.msg.body
        IN  Opens(i, b) =>
              /\ job.pc = "diffs" => Weighs(job, b, Stored)
              /\ job.pc = "previous" => job.usage = DayOf(Stored, i, b)
              /\ job.pc \in {"putSnapshot", "putUsage"} => Comes(i, b, job.usage)

UsageRecords ==
    \A r \in usage, b \in Int : Begins(r.space, b) => Comes(PeriodOf(r), b, r.usage)

UsageInv == BasedHandlers /\ UsageHandlers /\ UsageRecords

\* What was billed before a period ended where its base is, at the latest.
LEMMA PriorEndsAtBase ==
    ASSUME WholeDays, Known, NEW w \in Worker, worker[w].pc = "previous", BasedHandlers,
           NEW k \in Prior(worker[w].msg.body)
    PROVE  worker[w].found /\ k.to <= worker[w].base
  <1> USE DEF Known, TypeInv, SnapshotInv
  <1> DEFINE job == worker[w]
             i == job.msg.body
             before == {t \in Time : HasSnapshot(i.space, t) /\ t <= i.from}
  <1>1. IssuedBody(i)
    BY WorkerBody DEF BaseInv
  <1>2. k \in Instruction /\ HasRecord(k) /\ k.space = i.space /\ k.to <= i.from
    BY <1>1, PriorType
  <1>3. PICK q \in usage : PeriodOf(q) = k
    BY <1>2 DEF HasRecord
  <1>4. q.space = k.space /\ q.to = k.to
    BY <1>3 DEF PeriodOf
  <1>5. PICK p \in snapshots : p.space = q.space /\ p.at = q.to
    BY DEF SnapshotBeforeUsage
  <1>6. k.to \in before
    BY <1>2, <1>4, <1>5 DEF HasSnapshot, Instruction
  <1>7. Based(job)
    BY DEF BasedHandlers
  <1>8. QED
    BY <1>6, <1>7 DEF Based

LEMMA PreviousIs ==
    ASSUME WholeDays, Known, BasedHandlers, UsageRecords, NEW w \in Worker,
           worker[w].pc = "previous", NEW b \in Int, Opens(worker[w].msg.body, b)
    PROVE  \/ BaseLost(worker[w].msg.body)
           \/ PreviousCumulative(worker[w]) = MonthBefore(worker[w].msg.body, b)
  <1> USE DEF Known, TypeInv
  <1> DEFINE job == worker[w]
             i == job.msg.body
             base == job.base
  <1>1. job \in Job
    BY PcIsJob
  <1>2. /\ IssuedBody(i) /\ i \in Instruction
        /\ i.from \in Time /\ i.to \in Time /\ i.from \in Nat /\ i.to \in Nat
        /\ i.to = i.from + Day
    BY WorkerBody, IssuedDay DEF BaseInv
  <1>3. base \in Time /\ base \in Nat
    BY <1>1 DEF Job, Time
  <1>4. Based(job)
    BY DEF BasedHandlers
  <1>5. \A k \in Prior(i) : /\ k \in Instruction /\ IssuedBody(k) /\ k.space = i.space
                            /\ SameMonth(k.from, i.from) /\ job.found /\ k.to <= base
                            /\ k.from \in Time /\ k.from \in Nat /\ k.to \in Nat
                            /\ k.from < k.to
    <2>1. \A k \in Prior(i) : /\ k \in Instruction /\ IssuedBody(k) /\ k.space = i.space
                              /\ SameMonth(k.from, i.from)
      BY <1>2, PriorType
    <2>2. \A k \in Prior(i) : job.found /\ k.to <= base
      BY PriorEndsAtBase
    <2>3. QED
      BY <2>1, <2>2 DEF Instruction, Time
  <1>6. ASSUME Prior(i) = {}
        PROVE  MonthBefore(i, b) = 0
    <2>1. DOMAIN [k \in Prior(i) |-> DayOf(Stored, k, b)] = {}
      BY <1>6
    <2>2. QED
      BY <2>1, TotalEmpty DEF MonthBefore
  <1>7. CASE ~(job.found /\ StartOfMonth(base) >= StartOfMonth(i.from))
    <2>1. PreviousCumulative(job) = 0
      BY <1>7 DEF PreviousCumulative
    <2>2. ASSUME NEW k \in Prior(i) PROVE FALSE
      <3>1. k.from <= base /\ StartOfMonth(k.from) = StartOfMonth(i.from)
        BY <1>3, <1>5 DEF SameMonth
      <3>2. StartOfMonth(k.from) <= StartOfMonth(base)
        BY <1>3, <1>5, <3>1, MonthsGrow
      <3>3. StartOfMonth(base) \in Nat /\ StartOfMonth(i.from) \in Nat
        BY <1>2, <1>3, MonthFacts
      <3>4. QED
        BY <1>5, <1>7, <3>1, <3>2, <3>3
    <2>3. QED
      BY <1>6, <2>1, <2>2
  <1>8. CASE job.found /\ StartOfMonth(base) >= StartOfMonth(i.from)
    <2>1. PreviousCumulative(job) = PreviousUsage(i.space, base).usage
      BY <1>8 DEF PreviousCumulative
    <2>2. PICK p \in snapshots : p.space = i.space /\ p.at = base /\ base <= i.from
      BY <1>4, <1>8 DEF Based, HasSnapshot
    <2>3. SameMonth(base, i.from)
      <3>1. StartOfMonth(base) <= StartOfMonth(i.from)
        BY <1>2, <1>3, <2>2, MonthsGrow
      <3>2. StartOfMonth(base) \in Nat /\ StartOfMonth(i.from) \in Nat
        BY <1>2, <1>3, MonthFacts
      <3>3. QED
        BY <1>8, <3>1, <3>2 DEF SameMonth
    <2>4. Begins(i.space, b)
      BY <2>2 DEF Opens, SnapshotsOf
    <2>5. CASE IsMonthStart(base)
      <3>1. PreviousUsage(i.space, base).usage = 0
        BY <2>5, PreviousUsageType DEF TypeOK
      <3>2. ASSUME NEW k \in Prior(i) PROVE FALSE
        <4>1. StartOfMonth(k.from) = base
          BY <1>3, <1>5, <2>3, <2>5, MonthFacts DEF SameMonth
        <4>2. base <= k.from
          BY <1>5, <4>1, MonthFacts
        <4>3. QED
          BY <1>3, <1>5, <4>2
      <3>3. QED
        BY <1>6, <2>1, <3>1, <3>2
    <2>6. CASE ~IsMonthStart(base)
      <3> DEFINE ending == {r \in UsageOf(i.space) : r.to = base}
      <3>1. CASE ending = {}
        <4>1. BaseLost(i)
          BY <2>2, <2>3, <2>6, <3>1 DEF BaseLost, SnapshotsOf
        <4>2. QED
          BY <4>1
      <3>2. CASE ending # {}
        <4> DEFINE daily == {r \in ending : r.from = base - Day}
                   newest == {r \in ending : \A q \in ending : q.from <= r.from}
                   r == CHOOSE x \in daily : TRUE
        <4>1. daily = ending
          <5>1. ASSUME NEW q \in ending PROVE q.from = base - Day
            <6>1. q \in usage /\ q.to = base
              BY DEF UsageOf
            <6>2. q.to = q.from + Day /\ q.from \in Nat
              BY <6>1, RecordDay
            <6>3. QED
              BY <6>1, <6>2, PeriodsAssumption
          <5>2. QED
            BY <5>1
        <4>2. r \in daily
          BY <3>2, <4>1
        <4>3. PreviousUsage(i.space, base) =
                IF IsMonthStart(base) THEN [found |-> TRUE, usage |-> 0]
                ELSE IF (IF daily # {} THEN daily ELSE newest) # {}
                     THEN [found |-> TRUE,
                           usage |-> (CHOOSE x \in (IF daily # {} THEN daily ELSE newest) : TRUE).usage]
                     ELSE [found |-> FALSE, usage |-> 0]
          BY DEF PreviousUsage
        <4>4. PreviousUsage(i.space, base).usage = r.usage
          <5>1. daily # {}
            BY <4>2
          <5>2. (IF daily # {} THEN daily ELSE newest) = daily
            BY <5>1
          <5> HIDE DEF daily, newest
          <5>3. PreviousUsage(i.space, base) = [found |-> TRUE, usage |-> r.usage]
            BY <2>6, <4>3, <5>1, <5>2
          <5>4. QED
            BY <5>3
        <4>5. r \in usage /\ r.space = i.space /\ r.to = base
          BY <4>2 DEF UsageOf
        <4> HIDE DEF r, daily, newest, ending
        <4> DEFINE k == PeriodOf(r)
        <4>6. /\ IssuedBody(k) /\ HasRecord(k) /\ k \in Instruction
              /\ k.space = i.space /\ k.from = r.from /\ k.to = base
              /\ k.from \in Time /\ k.from \in Nat /\ base = k.from + Day
              /\ Midnight(k.from) /\ Midnight(base)
          BY <4>5, RecordDay
        <4> HIDE DEF k
        <4>7. Comes(k, b, r.usage)
          BY <2>4, <4>5 DEF UsageRecords, k
        <4>8. SameMonth(k.from, base)
          BY <1>3, <2>6, <4>6, DayBefore
        <4>9. SameMonth(k.from, i.from)
          BY <2>3, <4>8 DEF SameMonth
        <4>10. k.from < i.from /\ k.from < base
          BY <1>2, <1>3, <2>2, <4>6, PeriodsAssumption
        <4>11. CASE BaseLost(k)
          <5>1. PICK s \in SnapshotsOf(k.space) :
                  /\ s.at <= k.from /\ ~IsMonthStart(s.at) /\ SameMonth(s.at, k.from)
                  /\ ~\E q \in UsageOf(k.space) : q.to = s.at
            BY <4>11 DEF BaseLost
          <5>2. s.at \in Nat
            BY <5>1 DEF SnapshotsOf, TypeOK, Snapshot, Time
          <5>3. s.at <= i.from /\ SameMonth(s.at, i.from)
            BY <1>2, <4>6, <4>9, <4>10, <5>1, <5>2 DEF SameMonth
          <5>4. BaseLost(i)
            BY <4>6, <5>1, <5>3 DEF BaseLost
          <5>5. QED
            BY <5>4
        <4>12. CASE r.usage = DayOf(Stored, k, b) + MonthBefore(k, b)
          <5>1. Prior(i) = Prior(k) \union {k}
            <6>1. k \in Prior(i)
              BY <1>2, <4>6, <4>9, <4>10, PriorType
            <6>2. ASSUME NEW x \in Prior(k) PROVE x \in Prior(i)
              <7>1. /\ HasRecord(x) /\ x.space = k.space /\ SameMonth(x.from, k.from)
                    /\ x.from < k.from /\ x \in Instruction
                BY <4>6, PriorType
              <7>2. x.from \in Nat
                BY <7>1 DEF Instruction, Time
              <7>3. x.from < i.from /\ SameMonth(x.from, i.from)
                BY <1>2, <4>6, <4>9, <4>10, <7>1, <7>2 DEF SameMonth
              <7>4. QED
                BY <1>2, <4>6, <7>1, <7>3, PriorType
            <6>3. ASSUME NEW x \in Prior(i) PROVE x = k \/ x \in Prior(k)
              <7>1. /\ HasRecord(x) /\ IssuedBody(x) /\ x.space = k.space
                    /\ SameMonth(x.from, k.from) /\ x \in Instruction
                    /\ x.to <= base /\ x.from \in Nat /\ x.to \in Nat
                BY <1>2, <1>5, <4>6, <4>9, PriorType DEF SameMonth
              <7>2. CASE x.to = base
                <8>1. x.from = k.from
                  BY <4>6, <7>1, <7>2, DaysApart
                <8>2. QED
                  BY <4>6, <7>1, <7>2, <8>1 DEF Instruction
              <7>3. CASE x.to < base
                <8>1. x.from < k.from
                  BY <4>6, <7>1, <7>3, DaysApart
                <8>2. QED
                  BY <4>6, <7>1, <8>1, PriorType
              <7>4. QED
                BY <1>3, <7>1, <7>2, <7>3
            <6>4. QED
              BY <6>1, <6>2, <6>3
          <5>2. k \notin Prior(k) /\ IsFiniteSet(Prior(k))
            BY <4>6, PriorType
          <5> DEFINE f == [x \in Prior(k) |-> DayOf(Stored, x, b)]
                     g == [x \in Prior(k) \union {k} |-> DayOf(Stored, x, b)]
          <5>3. \A x \in Prior(k) \union {k} : DayOf(Stored, x, b) \in Int
            <6>1. \A x \in Prior(k) \union {k} : x \in Instruction
              BY <4>6, PriorType
            <6>2. \A x \in Instruction : x.from \in Int /\ x.to \in Int
              BY DEF Instruction, Time
            <6>3. QED
              BY <6>1, <6>2, DayType
          <5>4. f \in [Prior(k) -> Int] /\ g \in [Prior(k) \union {k} -> Int]
            BY <5>3
          <5>5. \A x \in Prior(k) : g[x] = f[x]
            OBVIOUS
          <5>6. g[k] = DayOf(Stored, k, b)
            OBVIOUS
          <5>7. MonthBefore(k, b) = SumFunction(f) /\ MonthBefore(i, b) = SumFunction(g)
            BY <5>1 DEF MonthBefore
          <5> HIDE DEF f, g
          <5>8. SumFunction(g) = SumFunction(f) + g[k]
            BY <5>2, <5>4, <5>5, TotalWith, SMTT(30)
          <5>9. SumFunction(f) \in Int /\ DayOf(Stored, k, b) \in Int
            BY <5>2, <5>3, <5>4, TotalType
          <5>10. QED
            BY <2>1, <4>4, <4>12, <5>6, <5>7, <5>8, <5>9
        <4>13. QED
          BY <4>7, <4>11, <4>12 DEF Comes
      <3>3. QED
        BY <3>1, <3>2
    <2>7. QED
      BY <2>5, <2>6
  <1>9. QED
    BY <1>7, <1>8


-----------------------------------------------------------------------------
(* Steps.                                                                  *)

LEMMA BeginsWas ==
    ASSUME Known, [Next]_vars, NEW s, SnapshotsOf(s) # {}, NEW b \in Int, Begins(s, b)'
    PROVE  Begins(s, b)
  <1>1. PICK c \in Int : Begins(s, c)
    BY SomeBegin DEF Known, TypeInv
  <1>2. Begins(s, c)'
    BY <1>1, BeginsStays
  <1>3. PICK q \in snapshots', r \in snapshots' :
           q.space = s /\ q.at = b + Day /\ r.space = s /\ r.at = c + Day
    BY <1>2 DEF Begins, HasSnapshot
  <1>4. b + Day <= c + Day /\ c + Day <= b + Day
    BY <1>2, <1>3 DEF Begins
  <1>5. QED
    BY <1>1, <1>4, PeriodsAssumption

\* A handler begins at the newest snapshot before its period.
LEMMA FindBased ==
    ASSUME ExactAssumption, Known, FreshHandlers, NEW w \in Worker, FindSnapshot(w)
    PROVE  Based(worker'[w])
  <1> USE DEF Known, ExactAssumption
  <1> DEFINE job == worker[w]
             i == job.msg.body
             snap == SnapshotAtOrBefore(i.space, i.from)
             before == {t \in Time : HasSnapshot(i.space, t) /\ t <= i.from}
             from(p) == [job EXCEPT !.pc = "diffs", !.found = TRUE, !.base = p.at,
                                    !.size = p.size, !.lastAt = p.at]
             empty == [job EXCEPT !.pc = "diffs", !.lastAt = i.from]
  <1>1. job \in Job /\ job.pc = "snapshot" /\ job.found = FALSE
    BY PcIsJob DEF FindSnapshot, TypeInv, FreshHandlers, Fresh
  <1>2. i \in Instruction /\ i.from \in Nat
    BY <1>1, WorkerBody, IssuedDay DEF TypeInv, BaseInv
  <1>3. \/ \E p \in snap : worker'[w] = from(p)
        \/ snap = {} /\ worker'[w] = empty
    BY DEF FindSnapshot, TypeInv, TypeOK
  <1>4. ASSUME NEW p \in snap, worker'[w] = from(p)
        PROVE  Based(worker'[w])
    <2>1. p \in snapshots /\ p.space = i.space /\ p.at <= i.from /\ p.at \in Nat
      BY <1>2, <1>4, FoundIs
    <2>2. p.at \in before
      BY <2>1 DEF HasSnapshot, TypeInv, TypeOK, Snapshot
    <2>3. ASSUME NEW t \in before PROVE t <= p.at
      <3>1. t \in Nat /\ t <= i.from
        BY DEF Time
      <3>2. PICK q \in snapshots : q.space = i.space /\ q.at = t
        BY DEF HasSnapshot
      <3>3. NewestSnapshots(i.space) = SnapshotsOf(i.space)
        BY AllAreListed
      <3>4. q \in NewestSnapshots(i.space)
        BY <3>2, <3>3 DEF SnapshotsOf
      <3>5. p.at = i.from \/ q.at <= p.at
        BY <1>4, <3>1, <3>2, <3>4 DEF SnapshotAtOrBefore
      <3>6. QED
        BY <3>1, <3>2, <3>5
    <2>4. from(p).msg = job.msg /\ from(p).found = TRUE /\ from(p).base = p.at
      BY <1>1 DEF Job
    <2> HIDE DEF from
    <2>5. QED
      BY <1>4, <2>2, <2>3, <2>4 DEF Based
  <1>5. ASSUME snap = {}, worker'[w] = empty
        PROVE  Based(worker'[w])
    <2>1. ASSUME NEW t \in before PROVE FALSE
      <3>1. PICK q \in snapshots : q.space = i.space /\ q.at = t
        BY DEF HasSnapshot
      <3>2. q \in SnapshotsOf(i.space) /\ q.at <= i.from
        BY <3>1 DEF SnapshotsOf
      <3>3. QED
        BY <1>5, <3>2, FindsIfAny
    <2>2. empty.msg = job.msg /\ empty.found = FALSE
      BY <1>1 DEF Job
    <2> HIDE DEF empty
    <2>3. QED
      BY <1>5, <2>1, <2>2 DEF Based
  <1>6. QED
    BY <1>3, <1>4, <1>5

LEMMA BasedStep ==
    ASSUME ExactAssumption, Known, FreshHandlers, BasedHandlers, [Next]_vars
    PROVE  BasedHandlers'
  <1> USE DEF ExactAssumption, Known
  <1>1. SUFFICES ASSUME NEW v \in Worker, worker'[v].pc \in {"diffs", "previous"}
                 PROVE  Based(worker[v])'
    BY DEF BasedHandlers
  <1> DEFINE i == worker[v].msg.body
  <1>2. CASE worker'[v] = worker[v]
    <2>1. IssuedBody(i) /\ i \in Instruction
      BY <1>1, <1>2, WorkerBody DEF TypeInv, BaseInv
    <2>2. PICK k \in Instruction : k = i
      BY <2>1
    <2>3. k.from \in Nat /\ k.to \in Nat /\ k.from < k.to
      BY DEF Instruction, Time
    <2>4. \A t \in Int : t <= k.from => (HasSnapshot(k.space, t)' <=> HasSnapshot(k.space, t))
      BY <2>1, <2>2, <2>3, SnapshotsBehindStay
    <2>5. {t \in Time : HasSnapshot(k.space, t)' /\ t <= k.from}
            = {t \in Time : HasSnapshot(k.space, t) /\ t <= k.from}
      BY <2>4 DEF Time
    <2>6. Based(worker[v])
      BY <1>1, <1>2 DEF BasedHandlers
    <2>7. QED
      BY <1>2, <2>2, <2>5, <2>6 DEF Based
  <1>3. CASE FindSnapshot(v)
    <2>1. Based(worker'[v])
      BY <1>3, FindBased
    <2>2. UNCHANGED snapshots
      BY <1>3 DEF FindSnapshot, tables
    <2>3. QED
      BY <2>1, <2>2 DEF Based, HasSnapshot
  <1>4. CASE ReadDiff(v) \/ EndOfDiffs(v)
    <2>1. worker[v].pc = "diffs" /\ worker[v] \in Job /\ UNCHANGED snapshots
      BY <1>4, PcIsJob DEF ReadDiff, EndOfDiffs, tables, TypeInv
    <2>2. /\ worker'[v].msg = worker[v].msg /\ worker'[v].found = worker[v].found
          /\ worker'[v].base = worker[v].base
      <3>1. CASE ReadDiff(v)
        <4>1. PICK d : worker' = [worker EXCEPT ![v] = Integrated(worker[v], d)]
          BY <3>1 DEF ReadDiff
        <4>2. worker'[v] = Integrated(worker[v], d)
          BY <4>1 DEF TypeInv, TypeOK
        <4>3. QED
          BY <2>1, <4>2 DEF Integrated, Job
      <3>2. CASE EndOfDiffs(v)
        <4>1. worker'[v] = Closed(worker[v])
          BY <3>2 DEF EndOfDiffs, TypeInv, TypeOK
        <4>2. QED
          BY <2>1, <4>1 DEF Closed, Job
      <3>3. QED
        BY <1>4, <3>1, <3>2
    <2>3. Based(worker[v])
      BY <2>1 DEF BasedHandlers
    <2>4. QED
      BY <2>1, <2>2, <2>3 DEF Based, HasSnapshot
  <1>5. ~LoadPrevious(v)
    BY <1>1, LoadPreviousAdvances DEF Advances, TypeInv
  <1>6. QED
    BY <1>1, <1>2, <1>3, <1>4, <1>5, HandlerSteps DEF TypeInv, Sizing


\* What has been integrated, step by step.
LEMMA WeighsFromStart ==
    ASSUME ExactAssumption, Known, FreshHandlers, NEW w \in Worker, FindSnapshot(w), NEW b \in Int
    PROVE  Weighs(worker'[w], b, Stored)
  <1> USE DEF Known, ExactAssumption
  <1> DEFINE job == worker[w]
             new == worker'[w]
             i == job.msg.body
  <1>1. job \in Job /\ job.usage = 0 /\ job.prev = i.from /\ job.lastCause = 0
    BY PcIsJob DEF FindSnapshot, TypeInv, FreshHandlers, Fresh
  <1>2. i \in Instruction /\ i.from \in Nat
    BY <1>1, WorkerBody, IssuedDay DEF FindSnapshot, TypeInv, BaseInv
  <1>3. /\ new.msg = job.msg /\ new.usage = 0 /\ new.prev = i.from /\ new.lastCause = 0
        /\ new.lastAt \in Nat /\ new.lastAt <= i.from
    <2> DEFINE snap == SnapshotAtOrBefore(i.space, i.from)
               from(p) == [job EXCEPT !.pc = "diffs", !.found = TRUE, !.base = p.at,
                                      !.size = p.size, !.lastAt = p.at]
               empty == [job EXCEPT !.pc = "diffs", !.lastAt = i.from]
    <2>1. (\E p \in snap : new = from(p)) \/ new = empty
      BY DEF FindSnapshot, TypeInv, TypeOK
    <2>2. ASSUME NEW p \in snap
          PROVE  /\ from(p).msg = job.msg /\ from(p).usage = 0 /\ from(p).prev = i.from
                 /\ from(p).lastCause = 0 /\ from(p).lastAt = p.at
                 /\ p.at \in Nat /\ p.at <= i.from
      <3>1. p.at \in Nat /\ p.at <= i.from
        BY <1>2, FoundIs
      <3>2. QED
        BY <1>1, <3>1 DEF Job
    <2>3. /\ empty.msg = job.msg /\ empty.usage = 0 /\ empty.prev = i.from
          /\ empty.lastCause = 0 /\ empty.lastAt = i.from
      BY <1>1 DEF Job
    <2> HIDE DEF new, from, empty, snap
    <2>4. CASE new = empty
      BY <1>2, <2>3, <2>4
    <2>5. CASE \E p \in snap : new = from(p)
      <3>1. PICK p \in snap : new = from(p)
        BY <2>5
      <3>2. QED
        BY <2>2, <3>1
    <2>6. QED
      BY <2>1, <2>4, <2>5
  <1> HIDE DEF new
  <1> DEFINE ds == Part(Stored, i.space, b, new.lastAt, new.lastCause)
  <1>4. ds \in SUBSET Stored /\ \A d \in ds : d.at <= i.from
    <2>1. \A d \in Stored : d.at \in Nat
      BY StoredType
    <2>2. QED
      BY <1>2, <1>3, <2>1 DEF Part
  <1>5. Weighed(ds, i.from, i.from) = 0
    <2>1. i.from \in Int
      BY <1>2
    <2> HIDE DEF ds, i
    <2>2. QED
      BY <1>4, <2>1, WeighedAtStart
  <1>6. QED
    BY <1>2, <1>3, <1>5 DEF Weighs, new

LEMMA WeighsMore ==
    ASSUME Earlier, MaxLag <= CronDelay, NEW w \in Worker, ReadDiff(w),
           NEW b \in Int, KnowsSize(worker[w], b, Stored), Weighs(worker[w], b, Stored)
    PROVE  Weighs(worker'[w], b, Stored)
  <1> USE DEF Earlier
  <1> DEFINE job == worker[w]
             i == job.msg.body
             before == Part(Stored, i.space, b, job.lastAt, job.lastCause)
  <1>1. job \in Job /\ job.pc = "diffs"
    BY PcIsJob DEF ReadDiff, TypeInv
  <1>2. IssuedBody(i)
    BY <1>1, WorkerBody DEF TypeInv, BaseInv
  <1>3. PICK d \in Remaining(job) :
           IsFirst(d, Remaining(job)) /\ worker' = [worker EXCEPT ![w] = Integrated(job, d)]
    BY DEF ReadDiff
  <1>4. worker'[w] = Integrated(job, d)
    BY <1>3 DEF TypeInv, TypeOK
  <1>5. b <= job.lastAt /\ job.size = Total(before)
    BY <1>1 DEF KnowsSize
  <1>6. /\ d \notin before /\ d \in Stored
        /\ Part(Stored, i.space, b, d.at, d.cause) = before \union {d}
    BY <1>1, <1>2, <1>3, <1>5, ReadAdds
  <1>7. before \in SUBSET Stored
    BY DEF Part
  <1>8. /\ i.from \in Int /\ i.from <= job.prev /\ job.prev \in Int /\ job.lastAt \in Int
        /\ job.prev = i.from \/ job.prev = job.lastAt
        /\ job.usage = Weighed(before, i.from, job.prev)
        /\ job.usage \in Int /\ job.size \in Int
    BY <1>1 DEF Weighs, Job, Message, Instruction, Time
  <1>9. d.at \in Int /\ job.lastAt <= d.at
    <2>1. d.at \in Nat
      BY <1>6, StoredType
    <2>2. QED
      BY <1>3, <1>8, <2>1 DEF Remaining
  <1> DEFINE t == Since(d, i.from)
             new == Integrated(job, d)
  <1>10. Weighed(before \union {d}, i.from, t) = Weighed(before, i.from, t)
    <2>1. PICK from \in Int : from = i.from
      BY <1>8
    <2> HIDE DEF before
    <2>2. Weighed(before \union {d}, from, Since(d, from)) = Weighed(before, from, Since(d, from))
      BY <1>6, <1>7, WeighedMore
    <2>3. QED
      BY <2>1, <2>2
  <1>11. CASE d.at < i.from
    <2>1. t = i.from /\ job.prev = i.from
      BY <1>8, <1>9, <1>11 DEF Since
    <2>2. /\ new.msg = job.msg /\ new.usage = job.usage /\ new.prev = job.prev
          /\ new.lastAt = d.at /\ new.lastCause = d.cause
      BY <1>1, <1>11 DEF Integrated, Job
    <2>3. new.usage = Weighed(Part(Stored, i.space, b, d.at, d.cause), i.from, i.from)
      BY <1>6, <1>8, <1>10, <2>1, <2>2
    <2> HIDE DEF before, new
    <2>4. Weighs(new, b, Stored)
      BY <1>8, <2>1, <2>2, <2>3 DEF Weighs
    <2>5. QED
      BY <1>4, <2>4 DEF new
  <1>12. CASE ~(d.at < i.from)
    <2>1. t = d.at
      BY <1>12 DEF Since
    <2>2. /\ new.msg = job.msg /\ new.usage = job.usage + job.size * (d.at - job.prev)
          /\ new.prev = d.at /\ new.lastAt = d.at /\ new.lastCause = d.cause
      BY <1>1, <1>12 DEF Integrated, Job
    <2>3. Weighed(before, i.from, d.at)
            = Weighed(before, i.from, job.prev) + Total(before) * (d.at - job.prev)
      <3>1. PICK from \in Int, x \in Int, y \in Int : from = i.from /\ x = job.prev /\ y = d.at
        BY <1>8, <1>9
      <3> HIDE DEF before
      <3>2. Weighed(before, from, y) = Weighed(before, from, x) + Total(before) * (y - x)
        BY <1>7, WeighedLater
      <3>3. QED
        BY <3>1, <3>2
    <2>4. new.usage = Weighed(Part(Stored, i.space, b, d.at, d.cause), i.from, d.at)
      BY <1>5, <1>6, <1>8, <1>10, <2>1, <2>2, <2>3
    <2>5. i.from <= d.at
      BY <1>8, <1>9, <1>12
    <2> HIDE DEF before, new
    <2>6. Weighs(new, b, Stored)
      BY <2>2, <2>4, <2>5 DEF Weighs
    <2>7. QED
      BY <1>4, <2>6 DEF new
  <1>13. QED
    BY <1>11, <1>12

LEMMA EndWeighsAll ==
    ASSUME Earlier, MaxLag <= CronDelay, NEW w \in Worker, EndOfDiffs(w),
           NEW b \in Int, KnowsSize(worker[w], b, Stored), Weighs(worker[w], b, Stored)
    PROVE  worker'[w].usage = DayOf(Stored, worker[w].msg.body, b)
  <1> USE DEF Earlier
  <1> DEFINE job == worker[w]
             i == job.msg.body
             before == Part(Stored, i.space, b, job.lastAt, job.lastCause)
  <1>1. job \in Job /\ job.pc = "diffs"
    BY PcIsJob DEF EndOfDiffs, TypeInv
  <1>2. IssuedBody(i)
    BY <1>1, WorkerBody DEF TypeInv, BaseInv
  <1>3. Remaining(job) = {} /\ worker'[w] = Closed(job)
    BY DEF EndOfDiffs, TypeInv, TypeOK
  <1>4. job.lastAt < i.to /\ job.size = Total(before)
    BY <1>1 DEF KnowsSize
  <1>5. Part(Stored, i.space, b, i.to, 0) = before
    BY <1>1, <1>2, <1>3, <1>4, EndHasAll
  <1>6. Closed(job).usage = job.usage + job.size * (i.to - job.prev)
    BY <1>1 DEF Closed, Job
  <1>7. i.from \in Int /\ i.to \in Int /\ job.prev \in Int
    BY <1>1 DEF Job, Message, Instruction, Time
  <1>8. job.usage = Weighed(before, i.from, job.prev)
    BY DEF Weighs
  <1>9. before \in SUBSET Stored
    BY DEF Part
  <1>10. Weighed(before, i.from, i.to)
           = Weighed(before, i.from, job.prev) + Total(before) * (i.to - job.prev)
    <2>1. PICK from \in Int, x \in Int, y \in Int : from = i.from /\ x = job.prev /\ y = i.to
      BY <1>7
    <2> HIDE DEF before
    <2>2. Weighed(before, from, y) = Weighed(before, from, x) + Total(before) * (y - x)
      BY <1>9, WeighedLater
    <2>3. QED
      BY <2>1, <2>2
  <1>11. DayOf(Stored, i, b) = Weighed(before, i.from, i.to)
    BY <1>5 DEF DayOf
  <1>12. QED
    BY <1>3, <1>4, <1>6, <1>8, <1>10, <1>11


\* What a period comes to stays so, once it was asked for.
LEMMA ComesStays ==
    ASSUME ExactAssumption, Known, [Next]_vars, NEW k \in Instruction, IssuedBody(k),
           NEW b \in Int, NEW u, Comes(k, b, u)
    PROVE  Comes(k, b, u)'
  <1> USE DEF Known, ExactAssumption
  <1>1. BaseLost(k)' <=> BaseLost(k)
    BY LostStays
  <1>2. DayOf(Stored', k, b) = DayOf(Stored, k, b)
    BY DayStays
  <1>3. MonthBefore(k, b)' = MonthBefore(k, b)
    BY MonthStays
  <1>4. QED
    BY <1>1, <1>2, <1>3 DEF Comes

LEMMA UsageHandlersStep ==
    ASSUME ExactAssumption, Known, ExactHandlers, FreshHandlers, UsageInv, [Next]_vars
    PROVE  UsageHandlers'
  <1> USE DEF ExactAssumption, Known, UsageInv
  <1> DEFINE At(v, b) ==
               /\ worker[v].pc = "diffs" => Weighs(worker[v], b, Stored)
               /\ worker[v].pc = "previous" => worker[v].usage = DayOf(Stored, worker[v].msg.body, b)
               /\ worker[v].pc \in {"putSnapshot", "putUsage"}
                    => Comes(worker[v].msg.body, b, worker[v].usage)
  <1>1. \A v \in Worker, b \in Int : Opens(worker[v].msg.body, b) => At(v, b)
    BY DEF UsageHandlers
  <1>2. SUFFICES ASSUME NEW v \in Worker, NEW b \in Int, Opens(worker[v].msg.body, b)'
                 PROVE  At(v, b)'
    BY DEF UsageHandlers
  <1> DEFINE i == worker[v].msg.body
  <1>3. CASE worker'[v] = worker[v] /\ worker[v].pc \in {"diffs", "previous", "putSnapshot", "putUsage"}
    <2>1. worker[v] \in Job
      BY <1>3, PcIsJob DEF TypeInv
    <2>2. i \in Bodies /\ i \in Instruction /\ IssuedBody(i)
      BY <1>3, WorkerBody DEF TypeInv, BaseInv
    <2>3. PICK k \in Bodies : k = i /\ k \in Instruction /\ IssuedBody(k)
      BY <2>2
    <2>4. Opens(k, b)'
      BY <1>2, <1>3, <2>3 DEF Opens
    <2>5. Opens(i, b)
      BY <2>3, <2>4, OpensStep
    <2>6. At(v, b)
      BY <1>1, <2>5
    <2>7. worker[v].pc = "diffs" => Weighs(worker[v], b, Stored')
      <3>1. SUFFICES ASSUME worker[v].pc = "diffs" PROVE Weighs(worker[v], b, Stored')
        OBVIOUS
      <3>2. KnowsSize(worker[v], b, Stored)
        BY <2>5, <3>1 DEF ExactHandlers, Sizing
      <3>3. worker[v].lastAt < now
        <4>1. i.to \in Nat /\ i.to <= now
          BY <2>2, IssuedIsPast
        <4>2. now \in Int /\ worker[v].lastAt \in Int
          BY <2>1 DEF TypeInv, TypeOK, Job, Time
        <4>3. QED
          BY <3>1, <3>2, <4>1, <4>2 DEF KnowsSize
      <3>4. PICK t \in Int, s \in {i.space}, c \in {worker[v].lastCause} : t = worker[v].lastAt
        BY <2>1 DEF Job, Time
      <3>5. Part(Stored', s, b, t, c) = Part(Stored, s, b, t, c)
        BY <3>3, <3>4, PartStays
      <3>6. Weighs(worker[v], b, Stored)
        BY <2>6, <3>1
      <3> HIDE DEF Known
      <3>7. QED
        BY <3>4, <3>5, <3>6 DEF Weighs
    <2>8. DayOf(Stored', k, b) = DayOf(Stored, k, b)
      BY <2>3, DayStays
    <2>9. worker[v].pc \in {"putSnapshot", "putUsage"} => Comes(k, b, worker[v].usage)'
      <3>1. PICK u : u = worker[v].usage
        OBVIOUS
      <3>2. worker[v].pc \in {"putSnapshot", "putUsage"} => Comes(k, b, u)
        BY <2>3, <2>6, <3>1
      <3>3. worker[v].pc \in {"putSnapshot", "putUsage"} => Comes(k, b, u)'
        BY <2>3, <3>2, ComesStays
      <3>4. u = worker'[v].usage
        BY <1>3, <3>1
      <3>5. QED
        BY <3>3, <3>4 DEF Comes
    <2>10. worker'[v].msg.body = k /\ worker'[v].pc = worker[v].pc
           /\ worker'[v].usage = worker[v].usage
      BY <1>3, <2>3
    <2>11. worker'[v].pc = "diffs" => Weighs(worker'[v], b, Stored')
      BY <1>3, <2>7
    <2>12. worker'[v].pc = "previous" => worker'[v].usage = DayOf(Stored', k, b)
      BY <2>3, <2>6, <2>8, <2>10
    <2>13. worker'[v].pc \in {"putSnapshot", "putUsage"} => Comes(worker[v].msg.body, b, worker[v].usage)'
      BY <2>3, <2>9, <2>10 DEF Comes
    <2>14. QED
      BY <2>10, <2>11, <2>12, <2>13
  <1>4. ASSUME worker'[v].msg = worker[v].msg, UNCHANGED <<pending, diffs, snapshots>>
        PROVE  Opens(i, b) /\ Stored' = Stored
    BY <1>2, <1>4 DEF Opens, Begins, HasSnapshot, SnapshotsOf, Stored
  <1>5. CASE FindSnapshot(v) \/ ReadDiff(v) \/ EndOfDiffs(v) \/ LoadPrevious(v)
    <2>1. worker'[v].msg = worker[v].msg /\ worker[v] \in Job
      BY <1>5, FindSnapshotAdvances, ReadDiffAdvances, ClosedAdvances, LoadPreviousAdvances
      DEF Advances, EndOfDiffs, TypeInv
    <2>2. UNCHANGED <<pending, diffs, snapshots, usage>>
      BY <1>5 DEF FindSnapshot, ReadDiff, EndOfDiffs, LoadPrevious, diffVars, tables
    <2>3. Opens(i, b) /\ Stored' = Stored
      BY <1>4, <2>1, <2>2
    <2>4. CASE FindSnapshot(v)
      <3>1. worker'[v].pc = "diffs"
        BY <2>4, FindSnapshotAdvances DEF Advances, TypeInv
      <3>2. Weighs(worker'[v], b, Stored)
        BY <2>4, WeighsFromStart
      <3>3. QED
        BY <2>3, <3>1, <3>2
    <2>5. CASE ReadDiff(v)
      <3>1. worker'[v].pc = "diffs" /\ worker[v].pc = "diffs"
        BY <2>5, ReadDiffAdvances DEF Advances, ReadDiff, TypeInv
      <3>2. KnowsSize(worker[v], b, Stored) /\ Weighs(worker[v], b, Stored)
        BY <1>1, <2>3, <3>1 DEF ExactHandlers, Sizing
      <3>3. Weighs(worker'[v], b, Stored)
        BY <2>5, <3>2, WeighsMore DEF Earlier
      <3>4. QED
        BY <2>3, <3>1, <3>3
    <2>6. CASE EndOfDiffs(v)
      <3>1. worker'[v].pc = "previous" /\ worker[v].pc = "diffs"
        BY <2>6, ClosedAdvances DEF Advances, EndOfDiffs, TypeInv
      <3>2. KnowsSize(worker[v], b, Stored) /\ Weighs(worker[v], b, Stored)
        BY <1>1, <2>3, <3>1 DEF ExactHandlers, Sizing
      <3>3. worker'[v].usage = DayOf(Stored, i, b)
        BY <2>6, <3>2, EndWeighsAll DEF Earlier
      <3>4. QED
        BY <2>1, <2>3, <3>1, <3>3
    <2>7. CASE LoadPrevious(v)
      <3>1. worker'[v].pc = "putSnapshot" /\ worker[v].pc = "previous"
        BY <2>7, LoadPreviousAdvances DEF Advances, LoadPrevious, TypeInv
      <3>2. worker[v].usage = DayOf(Stored, i, b)
        BY <1>1, <2>3, <3>1
      <3>3. BaseLost(i) \/ PreviousCumulative(worker[v]) = MonthBefore(i, b)
        BY <2>3, <3>1, PreviousIs
      <3>4. worker'[v].usage = worker[v].usage + PreviousCumulative(worker[v])
        <4> DEFINE total == worker[v].usage + PreviousCumulative(worker[v])
        <4>1. worker'[v] = [worker[v] EXCEPT !.pc = "putSnapshot", !.usage = total]
          BY <2>7 DEF LoadPrevious, TypeInv, TypeOK
        <4> HIDE DEF total
        <4>2. worker'[v].usage = total
          BY <2>1, <4>1 DEF Job
        <4>3. QED
          BY <4>2 DEF total
      <3>5. Comes(i, b, worker'[v].usage)
        BY <3>2, <3>3, <3>4 DEF Comes
      <3>6. Comes(worker[v].msg.body, b, worker[v].usage)'
        BY <2>1, <2>2, <2>3, <3>5
        DEF Comes, BaseLost, SnapshotsOf, UsageOf, MonthBefore, Prior
      <3>7. QED
        BY <3>1, <3>6
    <2>8. QED
      BY <1>5, <2>4, <2>5, <2>6, <2>7
  <1>6. CASE PutSnapshot(v)
    <2>1. worker[v].pc = "putSnapshot" /\ worker'[v].pc = "putUsage"
          /\ worker'[v].msg = worker[v].msg /\ worker[v] \in Job
      BY <1>6, PutSnapshotAdvances DEF Advances, PutSnapshot, TypeInv
    <2>2. worker'[v].usage = worker[v].usage
      BY <1>6, <2>1 DEF PutSnapshot, TypeInv, TypeOK, Job
    <2>3. i \in Bodies /\ i \in Instruction /\ IssuedBody(i)
      BY <2>1, WorkerBody DEF TypeInv, BaseInv
    <2>4. PICK k \in Bodies, u \in Int : k = i /\ k \in Instruction /\ IssuedBody(k)
                                         /\ u = worker[v].usage
      BY <2>1, <2>3 DEF Job
    <2>5. Opens(k, b)'
      BY <1>2, <2>1, <2>4 DEF Opens
    <2>6. Opens(i, b)
      BY <2>4, <2>5, OpensStep
    <2>7. Comes(k, b, u)
      BY <1>1, <2>1, <2>4, <2>6
    <2>8. Comes(k, b, u)'
      BY <2>4, <2>7, ComesStays
    <2>9. QED
      BY <2>1, <2>2, <2>4, <2>8 DEF Comes
  <1>7. worker'[v].pc \in {"diffs", "previous", "putSnapshot"}
          => \/ worker'[v] = worker[v]
             \/ FindSnapshot(v) \/ ReadDiff(v) \/ EndOfDiffs(v) \/ LoadPrevious(v)
    BY HandlerSteps DEF TypeInv, Sizing
  <1>8. worker'[v].pc = "putUsage" => worker'[v] = worker[v] \/ PutSnapshot(v)
    BY PutUsageAfterPutSnapshot DEF TypeInv
  <1>9. QED
    BY <1>3, <1>5, <1>6, <1>7, <1>8


LEMMA UsageRecordsStep ==
    ASSUME ExactAssumption, Known, UsageInv, [Next]_vars
    PROVE  UsageRecords'
  <1> USE DEF ExactAssumption, Known, UsageInv
  <1>1. SUFFICES ASSUME NEW r \in usage', NEW b \in Int, Begins(r.space, b)'
                 PROVE  Comes(PeriodOf(r), b, r.usage)'
    BY DEF UsageRecords
  <1>2. CASE r \in usage
    <2>1. SnapshotsOf(r.space) # {}
      BY <1>2 DEF SnapshotInv, SnapshotBeforeUsage, SnapshotsOf
    <2>2. Begins(r.space, b)
      BY <1>1, <2>1, BeginsWas
    <2>3. IssuedBody(PeriodOf(r)) /\ PeriodOf(r) \in Instruction
      BY <1>2, RecordDay DEF TypeInv
    <2>4. PICK k \in Instruction, u \in {r.usage} : k = PeriodOf(r)
      BY <2>3
    <2>5. Comes(k, b, u)
      BY <1>2, <2>2, <2>4 DEF UsageRecords
    <2>6. Comes(k, b, u)'
      BY <2>3, <2>4, <2>5, ComesStays
    <2>7. QED
      BY <2>4, <2>6
  <1>3. CASE r \notin usage
    <2>1. PICK w \in Worker : PutUsage(w)
      BY <1>3, UsageChangesByPutUsage
    <2> DEFINE i == worker[w].msg.body
               new == [space |-> i.space, from |-> i.from, to |-> i.to,
                       usage |-> worker[w].usage]
    <2>2. r = new
      BY <1>3, <2>1, PutUsageEffect DEF TypeInv
    <2>3. worker[w].pc = "putUsage" /\ UNCHANGED snapshots
      BY <2>1 DEF PutUsage
    <2>4. i \in Bodies /\ i \in Instruction /\ IssuedBody(i)
      BY <2>3, WorkerBody DEF TypeInv, BaseInv
    <2>5. PICK k \in Instruction, u \in {worker[w].usage} : k = i
      BY <2>4
    <2>6. PeriodOf(r) = k /\ r.space = k.space /\ r.usage = u
      BY <2>2, <2>5 DEF PeriodOf, Instruction
    <2>7. Opens(i, b)
      BY <1>1, <2>3, <2>5, <2>6 DEF Opens, Begins, HasSnapshot
    <2>8. Comes(k, b, u)
      BY <2>3, <2>5, <2>7 DEF UsageHandlers
    <2>9. Comes(k, b, u)'
      BY <2>4, <2>5, <2>8, ComesStays
    <2>10. QED
      BY <2>6, <2>9
  <1>4. QED
    BY <1>2, <1>3

\* The periods billed up to a record's own: those before it, and it.
LEMMA BilledIs ==
    ASSUME WholeDays, TypeOK, BaseInv, NEW r \in usage
    PROVE  /\ BilledWith(r) = Prior(PeriodOf(r)) \union {PeriodOf(r)}
           /\ PeriodOf(r) \notin Prior(PeriodOf(r))
  <1> DEFINE k == PeriodOf(r)
  <1>1. /\ IssuedBody(k) /\ k \in Instruction
        /\ k.space = r.space /\ k.from = r.from /\ k.to = r.to /\ r.from \in Nat
    BY RecordDay
  <1>2. ASSUME NEW i \in BilledWith(r)
        PROVE  i \in Prior(k) \union {k}
    <2>1. PICK q \in usage : /\ i = PeriodOf(q) /\ q.space = r.space
                             /\ SameMonth(q.from, r.from) /\ q.from <= r.from
      BY DEF BilledWith, UsageOf
    <2>2. /\ IssuedBody(i) /\ i \in Instruction /\ HasRecord(i)
          /\ i.space = q.space /\ i.from = q.from /\ q.from \in Nat
      BY <2>1, RecordDay
    <2>3. CASE q.from = r.from
      <3>1. i.to = k.to
        BY <1>1, <2>2, <2>3, DaysApart
      <3>2. QED
        BY <1>1, <2>1, <2>2, <2>3, <3>1 DEF Instruction
    <2>4. CASE q.from < r.from
      <3>1. i.from < k.from /\ i.space = k.space /\ SameMonth(i.from, k.from)
        BY <1>1, <2>1, <2>2, <2>4
      <3> HIDE DEF k
      <3>2. QED
        BY <1>1, <2>2, <3>1, PriorType
    <2>5. QED
      BY <1>1, <2>1, <2>2, <2>3, <2>4
  <1>3. ASSUME NEW i \in Prior(k)
        PROVE  i \in BilledWith(r)
    <2>1. PICK q \in usage : /\ i = PeriodOf(q) /\ q.space = k.space
                             /\ SameMonth(q.from, k.from) /\ q.from < k.from
      BY DEF Prior, UsageOf
    <2>2. q.from \in Nat
      BY <2>1, RecordDay
    <2>3. QED
      BY <1>1, <2>1, <2>2 DEF BilledWith, UsageOf
  <1>4. k \in BilledWith(r)
    BY <1>1 DEF BilledWith, UsageOf, SameMonth
  <1>5. k \notin Prior(k)
    <2> HIDE DEF k
    <2>1. \A i \in Prior(k) : i.from < k.from
      BY <1>1, PriorType
    <2>2. QED
      BY <1>1, <2>1
  <1>6. QED
    BY <1>2, <1>3, <1>4, <1>5

LEMMA ComesToBilled ==
    ASSUME WholeDays, Known, UsageRecords, NEW r \in usage
    PROVE  \/ r.usage = SumFunction([i \in BilledWith(r) |-> Integral(i.space, i.from, i.to)])
           \/ BaseLost(r)
  <1> USE DEF Known, TypeInv
  <1>1. PICK k \in Instruction : k = PeriodOf(r)
    BY RecordDay
  <1>2. /\ IssuedBody(k) /\ k.space = r.space /\ k.from = r.from /\ k.to = r.to
        /\ k.from \in Int /\ k.to \in Int
    BY <1>1, RecordDay
  <1>3. PICK b \in Int : Begins(r.space, b)
    <2>1. SnapshotsOf(r.space) # {}
      BY DEF SnapshotInv, SnapshotBeforeUsage, SnapshotsOf
    <2>2. QED
      BY <2>1, SomeBegin
  <1>4. Comes(k, b, r.usage)
    BY <1>1, <1>3 DEF UsageRecords
  <1>5. CASE BaseLost(k)
    BY <1>2, <1>5 DEF BaseLost
  <1>6. CASE r.usage = DayOf(Stored, k, b) + MonthBefore(k, b)
    <2> DEFINE f == [i \in Prior(k) |-> DayOf(Stored, i, b)]
               g == [i \in BilledWith(r) |-> Integral(i.space, i.from, i.to)]
    <2>1. BilledWith(r) = Prior(k) \union {k} /\ k \notin Prior(k)
      BY <1>1, BilledIs
    <2>2. /\ IsFiniteSet(Prior(k))
          /\ \A i \in Prior(k) : i \in Instruction /\ i.space = r.space
      BY <1>2, PriorType
    <2>3. \A i \in Prior(k) \union {k} :
             i.space = r.space /\ i.from \in Int /\ i.to \in Int
      BY <1>2, <2>2 DEF Instruction, Time
    <2>4. ASSUME NEW i \in Prior(k) \union {k}
          PROVE  /\ Integral(i.space, i.from, i.to) = DayOf(Stored, i, b)
                 /\ DayOf(Stored, i, b) \in Int
      <3>1. Begins(i.space, b)
        BY <1>3, <2>3
      <3>2. QED
        BY <2>3, <3>1, IntegralIs, DayType
    <2>5. f \in [Prior(k) -> Int] /\ g \in [Prior(k) \union {k} -> Int]
      BY <2>1, <2>4
    <2>6. (\A i \in Prior(k) : g[i] = f[i]) /\ g[k] = DayOf(Stored, k, b)
      BY <2>1, <2>4
    <2>7. SumFunction(f) = MonthBefore(k, b)
      BY DEF MonthBefore
    <2>8. SumFunction(f) \in Int
      BY <2>2, <2>5, TotalType
    <2>9. DayOf(Stored, k, b) \in Int
      BY <2>4
    <2> HIDE DEF f, g
    <2>10. SumFunction(g) = SumFunction(f) + g[k]
      <3>1. PICK S : S = Prior(k)
        OBVIOUS
      <3>2. IsFiniteSet(S) /\ k \notin S
        BY <2>1, <2>2, <3>1
      <3>3. f \in [S -> Int] /\ g \in [S \union {k} -> Int]
        BY <2>5, <3>1
      <3>4. \A y \in S : g[y] = f[y]
        BY <2>6, <3>1
      <3>5. QED
        BY <3>2, <3>3, <3>4, TotalWith, ZenonT(60)
    <2>11. r.usage = SumFunction(g)
      BY <1>6, <2>6, <2>7, <2>8, <2>9, <2>10
    <2>12. QED
      BY <2>11 DEF g
  <1>7. QED
    BY <1>4, <1>5, <1>6 DEF Comes

(***************************************************************************)
(* A usage record is the integral of the true size over the days of its    *)
(* month billed so far, or a day's base was lost. PreviousIs is where days *)
(* are joined: the record that ends where the newest snapshot before the   *)
(* period is, if there is one, already has the days before.                *)
(***************************************************************************)
THEOREM RecordsAreIntegrals ==
    ASSUME ExactAssumption
    PROVE  Spec => []UsageOfBilledDays
  <1>1. Init => UsageInv
    BY DEF Init, UsageInv, BasedHandlers, UsageHandlers, UsageRecords, Idle
  <1>2. Known /\ ExactInv /\ UsageInv /\ [Next]_vars => UsageInv'
    BY BasedStep, UsageHandlersStep, UsageRecordsStep DEF UsageInv, ExactInv
  <1>3. Known /\ UsageInv => UsageOfBilledDays
    BY ComesToBilled DEF UsageOfBilledDays, UsageInv, ExactAssumption
  <1>4. QED
    BY <1>1, <1>2, <1>3, ExactInvHolds, PTL DEF Spec

-----------------------------------------------------------------------------
(* A period that is billed again comes to what it came to before. What a   *)
(* record is, is settled by the diffs of its day and by what it carries    *)
(* over, neither of which changes once its period was asked for.           *)

\* The snapshots before a period, and the newest of a set of dates.
DatesBefore(i) == {t \in Time : HasSnapshot(i.space, t) /\ t <= i.from}

Newest(D) == CHOOSE t \in D : \A u \in D : u <= t

\* What a period carries over: the month-to-date usage at the newest snapshot
\* before it, if that is of its month.
Carried(i) ==
    LET base == Newest(DatesBefore(i))
    IN  IF DatesBefore(i) # {} /\ StartOfMonth(base) >= StartOfMonth(i.from)
        THEN PreviousUsage(i.space, base).usage
        ELSE 0

Value(i, b) == DayOf(Stored, i, b) + Carried(i)

ValueHandlers ==
    \A w \in Worker, b \in Int :
        (worker[w].pc \in {"putSnapshot", "putUsage"} /\ Opens(worker[w].msg.body, b))
            => worker[w].usage = Value(worker[w].msg.body, b)

ValueRecords ==
    \A r \in usage, b \in Int : Begins(r.space, b) => r.usage = Value(PeriodOf(r), b)

ValueInv == ValueHandlers /\ ValueRecords

LEMMA NewestIs ==
    ASSUME NEW D \in SUBSET Time, D # {}
    PROVE  Newest(D) \in D /\ \A u \in D : u <= Newest(D)
  <1> DEFINE S == {Horizon - t : t \in D}
  <1>1. Horizon \in Nat /\ \A t \in D : t \in Nat /\ t <= Horizon
    BY PeriodsAssumption DEF Time
  <1>2. S \in SUBSET Nat /\ S # {}
    BY <1>1
  <1> HIDE DEF S
  <1>3. PICK n \in S : \A k \in S : n <= k
    BY <1>2, LeastNatural
  <1>4. PICK t \in D : n = Horizon - t
    BY <1>3 DEF S
  <1>5. ASSUME NEW u \in D PROVE u <= t
    <2>1. n <= Horizon - u
      BY <1>3 DEF S
    <2>2. QED
      BY <1>1, <1>4, <2>1
  <1>6. QED
    BY <1>4, <1>5 DEF Newest

\* It is what the handler of the period adds.
LEMMA CarriedIs ==
    ASSUME TypeInv, BasedHandlers, NEW w \in Worker, worker[w].pc = "previous"
    PROVE  PreviousCumulative(worker[w]) = Carried(worker[w].msg.body)
  <1> DEFINE job == worker[w]
             D == DatesBefore(job.msg.body)
  <1>1. IF job.found THEN job.base \in D /\ \A t \in D : t <= job.base ELSE D = {}
    BY DEF BasedHandlers, Based, DatesBefore
  <1>2. D \in SUBSET Time /\ \A t \in D : t \in Int
    BY DEF DatesBefore, Time
  <1>3. CASE ~job.found
    <2>1. D = {}
      BY <1>1, <1>3
    <2>2. QED
      BY <1>3, <2>1 DEF PreviousCumulative, Carried
  <1>4. CASE job.found
    <2>1. D # {} /\ job.base \in D
      BY <1>1, <1>4
    <2> HIDE DEF D
    <2>2. Newest(D) \in D /\ job.base <= Newest(D) /\ Newest(D) <= job.base
      BY <1>1, <1>2, <1>4, <2>1, NewestIs
    <2>3. Newest(D) = job.base
      BY <1>2, <2>1, <2>2
    <2>4. QED
      BY <1>4, <2>1, <2>3 DEF PreviousCumulative, Carried, D
  <1>5. QED
    BY <1>3, <1>4

\* Putting a record again leaves the table as it was.
LEMMA PutAgain ==
    ASSUME WholeDays, Known, ValueInv, NEW w \in Worker, PutUsage(w)
    PROVE  LET i == worker[w].msg.body
           IN  /\ i \in Bodies /\ i \in Instruction /\ IssuedBody(i)
               /\ HasRecord(i) => usage' = usage
               /\ ~HasRecord(i) => \E r \in usage' : PeriodOf(r) = i /\ usage' = usage \union {r}
  <1> USE DEF Known, TypeInv, SnapshotInv
  <1> DEFINE i == worker[w].msg.body
             new == [space |-> i.space, from |-> i.from, to |-> i.to, usage |-> worker[w].usage]
             old == {r \in usage : SameKey(r, i)}
  <1>1. worker[w].pc = "putUsage"
    BY DEF PutUsage
  <1>2. i \in Bodies /\ i \in Instruction /\ IssuedBody(i)
    BY <1>1, WorkerBody DEF BaseInv
  <1>3. new \in Usage /\ usage' = (usage \ old) \union {new}
    BY PutUsageEffect
  <1>4. PeriodOf(new) = i
    BY <1>2 DEF PeriodOf, Instruction
  <1>5. ASSUME NEW r \in old PROVE PeriodOf(r) = i
    <2>1. r \in usage /\ r.space = i.space /\ r.from = i.from
      BY DEF SameKey
    <2>2. IssuedBody(PeriodOf(r)) /\ PeriodOf(r).from = r.from /\ PeriodOf(r).to = r.to
      BY <2>1, RecordDay
    <2>3. r.to = i.to
      BY <1>2, <2>1, <2>2, SamePeriod, WholeStarts DEF BaseInv
    <2>4. QED
      BY <1>2, <2>1, <2>3 DEF PeriodOf, Instruction
  <1>6. ASSUME NEW r \in old PROVE r = new
    <2>1. r \in usage /\ PeriodOf(r) = i /\ r.space = i.space /\ r \in Usage
      BY <1>5 DEF SameKey, TypeOK
    <2>2. SnapshotsOf(i.space) # {}
      BY <2>1 DEF SnapshotBeforeUsage, SnapshotsOf
    <2>3. PICK b \in Int : Begins(i.space, b)
      BY <2>2, SomeBegin
    <2>4. r.usage = Value(i, b)
      BY <2>1, <2>3 DEF ValueInv, ValueRecords
    <2>5. worker[w].usage = Value(i, b)
      BY <1>1, <2>3 DEF ValueInv, ValueHandlers, Opens
    <2>6. r.usage = new.usage
      BY <2>4, <2>5
    <2>7. PeriodOf(r) = PeriodOf(new)
      BY <1>4, <2>1
    <2> HIDE DEF new
    <2>8. r.space = new.space /\ r.from = new.from /\ r.to = new.to
      BY <2>7 DEF PeriodOf
    <2>9. QED
      BY <1>3, <2>1, <2>6, <2>8 DEF Usage
  <1>7. CASE HasRecord(i)
    <2>1. PICK r \in usage : PeriodOf(r) = i
      BY <1>7 DEF HasRecord
    <2>2. r \in old
      BY <2>1 DEF SameKey, PeriodOf
    <2>3. usage' = usage
      BY <1>3, <1>6, <2>2
    <2>4. QED
      BY <1>2, <1>7, <2>3
  <1>8. CASE ~HasRecord(i)
    <2>1. old = {}
      BY <1>5, <1>8 DEF HasRecord
    <2>2. usage' = usage \union {new} /\ new \in usage'
      BY <1>3, <2>1
    <2>3. QED
      BY <1>2, <1>4, <1>8, <2>2
  <1>9. QED
    BY <1>7, <1>8

\* So a step only adds records, of periods that had none.
LEMMA RecordsGrow ==
    ASSUME WholeDays, Known, ValueInv, [Next]_vars
    PROVE  /\ usage \subseteq usage'
           /\ \A r \in usage' : r \in usage \/ (PeriodOf(r) \in Bodies /\ ~HasRecord(PeriodOf(r)))
  <1>1. ASSUME NEW w \in Worker, PutUsage(w)
        PROVE  /\ usage \subseteq usage'
               /\ \A r \in usage' : \/ r \in usage
                                    \/ PeriodOf(r) \in Bodies /\ ~HasRecord(PeriodOf(r))
    <2> DEFINE i == worker[w].msg.body
    <2>1. /\ i \in Bodies
          /\ HasRecord(i) => usage' = usage
          /\ ~HasRecord(i) => \E r \in usage' : PeriodOf(r) = i /\ usage' = usage \union {r}
      BY <1>1, PutAgain
    <2> HIDE DEF i
    <2>2. CASE HasRecord(i)
      BY <2>1, <2>2
    <2>3. CASE ~HasRecord(i)
      BY <2>1, <2>3
    <2>4. QED
      BY <2>2, <2>3
  <1>2. QED
    BY <1>1, UsageChangesByPutUsage

\* What ends inside or before a period asked for, and what it carries over.
LEMMA PreviousStays ==
    ASSUME WholeDays, Known, ValueInv, [Next]_vars, NEW k \in Instruction, IssuedBody(k),
           NEW s \in {k.space}, NEW date, date < k.to
    PROVE  PreviousUsage(s, date)' = PreviousUsage(s, date)
  <1> DEFINE ending == {r \in UsageOf(s) : r.to = date}
  <1>1. ASSUME NEW r \in usage', r.space = s, r.to = date
        PROVE  r \in usage
    <2>1. SUFFICES ASSUME PeriodOf(r) \in Bodies, ~HasRecord(PeriodOf(r)) PROVE FALSE
      BY RecordsGrow
    <2>2. PICK i \in Bodies : i = PeriodOf(r)
      BY <2>1
    <2>3. i.space = k.space /\ i.to < k.to
      BY <1>1, <2>2 DEF PeriodOf
    <2>4. PICK j \in issued : j.body = k
      BY DEF IssuedBody
    <2>5. HasRecord(i)
      BY <2>3, <2>4 DEF Known, BaseInv, Overtaken
    <2>6. QED
      BY <2>1, <2>2, <2>5
  <1>2. usage \subseteq usage'
    BY RecordsGrow
  <1>3. ending' = ending
    BY <1>1, <1>2 DEF UsageOf
  <1>4. QED
    BY <1>3 DEF PreviousUsage

LEMMA CarriedStays ==
    ASSUME WholeDays, Known, ValueInv, [Next]_vars, NEW k \in Instruction, IssuedBody(k)
    PROVE  Carried(k)' = Carried(k)
  <1>0. k.from < k.to /\ k.from \in Nat /\ k.to \in Nat
    BY DEF Instruction, Time
  <1>1. DatesBefore(k)' = DatesBefore(k)
    <2>1. \A t \in Int : t <= k.from => (HasSnapshot(k.space, t)' <=> HasSnapshot(k.space, t))
      BY <1>0, SnapshotsBehindStay
    <2>2. Time \subseteq Int
      BY DEF Time
    <2>3. QED
      BY <2>1, <2>2 DEF DatesBefore
  <1>2. PICK D : D = DatesBefore(k)
    OBVIOUS
  <1>3. CASE D = {}
    BY <1>1, <1>2, <1>3 DEF Carried
  <1>4. CASE D # {}
    <2>1. D \in SUBSET Time /\ \A t \in D : t <= k.from /\ t \in Nat
      BY <1>2 DEF DatesBefore, Time
    <2>2. PICK t \in D, s \in {k.space} : t = Newest(D)
      BY <1>4, <2>1, NewestIs
    <2>3. t < k.to
      BY <1>0, <2>1
    <2>4. PreviousUsage(s, t)' = PreviousUsage(s, t)
      BY <2>3, PreviousStays
    <2>5. Carried(k) = IF StartOfMonth(t) >= StartOfMonth(k.from)
                       THEN PreviousUsage(s, t).usage ELSE 0
      BY <1>2, <1>4, <2>2 DEF Carried
    <2>6. Carried(k)' = IF StartOfMonth(t) >= StartOfMonth(k.from)
                        THEN PreviousUsage(s, t)'.usage ELSE 0
      BY <1>1, <1>2, <1>4, <2>2 DEF Carried
    <2>7. QED
      BY <2>4, <2>5, <2>6
  <1>5. QED
    BY <1>3, <1>4

LEMMA ValueStays ==
    ASSUME WholeDays, Known, ValueInv, [Next]_vars, NEW k \in Instruction, IssuedBody(k),
           NEW b \in Int
    PROVE  Value(k, b)' = Value(k, b)
  <1>1. DayOf(Stored', k, b) = DayOf(Stored, k, b)
    BY DayStays DEF Known
  <1>2. Carried(k)' = Carried(k)
    BY CarriedStays
  <1>3. QED
    BY <1>1, <1>2 DEF Value

LEMMA ValueHandlersStep ==
    ASSUME ExactAssumption, Known, UsageInv, ValueInv, [Next]_vars
    PROVE  ValueHandlers'
  <1> USE DEF ExactAssumption, Known
  <1>1. SUFFICES ASSUME NEW v \in Worker, NEW b \in Int,
                        worker'[v].pc \in {"putSnapshot", "putUsage"},
                        Opens(worker[v].msg.body, b)'
                 PROVE  (worker[v].usage = Value(worker[v].msg.body, b))'
    BY DEF ValueHandlers
  <1> DEFINE i == worker[v].msg.body
  <1>2. CASE (worker'[v] = worker[v] \/ PutSnapshot(v))
    <2>1. /\ worker'[v].msg = worker[v].msg /\ worker'[v].usage = worker[v].usage
          /\ worker[v].pc \in {"putSnapshot", "putUsage"}
      <3>1. CASE PutSnapshot(v)
        <4>1. worker[v] \in Job
          BY <3>1, PcIsJob DEF PutSnapshot, TypeInv
        <4>2. QED
          BY <3>1, <4>1 DEF PutSnapshot, TypeInv, TypeOK, Job
      <3>2. QED
        BY <1>1, <1>2, <3>1
    <2>2. i \in Bodies /\ i \in Instruction /\ IssuedBody(i)
      BY <2>1, WorkerBody DEF TypeInv, BaseInv
    <2>3. PICK k \in Bodies : k = i /\ k \in Instruction /\ IssuedBody(k)
      BY <2>2
    <2>4. Opens(k, b)'
      BY <1>1, <2>1, <2>3 DEF Opens
    <2>5. Opens(i, b)
      BY <2>3, <2>4, OpensStep
    <2>6. worker[v].usage = Value(k, b)
      BY <2>1, <2>3, <2>5 DEF ValueInv, ValueHandlers
    <2>7. Value(k, b)' = Value(k, b)
      BY <2>3, ValueStays
    <2>8. worker'[v].usage = Value(k, b)'
      BY <2>1, <2>6, <2>7
    <2>9. worker'[v].msg.body = k
      BY <2>1, <2>3
    <2>10. QED
      BY <2>8, <2>9 DEF Value, Carried, DatesBefore
  <1>3. CASE LoadPrevious(v)
    <2>1. worker'[v].msg = worker[v].msg /\ worker[v] \in Job /\ worker[v].pc = "previous"
      BY <1>3, LoadPreviousAdvances, PcIsJob DEF Advances, LoadPrevious, TypeInv
    <2>2. UNCHANGED <<pending, diffs, snapshots, usage>>
      BY <1>3 DEF LoadPrevious, diffVars, tables
    <2>3. i \in Bodies /\ i \in Instruction /\ IssuedBody(i)
      BY <2>1, WorkerBody DEF TypeInv, BaseInv
    <2>4. Opens(i, b)
      BY <1>1, <2>1, <2>2 DEF Opens, Begins, HasSnapshot, SnapshotsOf
    <2>5. worker[v].usage = DayOf(Stored, i, b)
      BY <2>1, <2>4 DEF UsageInv, UsageHandlers
    <2>6. PreviousCumulative(worker[v]) = Carried(i)
      BY <2>1, CarriedIs DEF UsageInv
    <2>7. worker'[v].usage = worker[v].usage + PreviousCumulative(worker[v])
      <3> DEFINE total == worker[v].usage + PreviousCumulative(worker[v])
      <3>1. worker'[v] = [worker[v] EXCEPT !.pc = "putSnapshot", !.usage = total]
        BY <1>3 DEF LoadPrevious, TypeInv, TypeOK
      <3> HIDE DEF total
      <3>2. worker'[v].usage = total
        BY <2>1, <3>1 DEF Job
      <3>3. QED
        BY <3>2 DEF total
    <2>8. worker'[v].usage = Value(i, b)
      BY <2>5, <2>6, <2>7 DEF Value
    <2>9. PICK k \in Bodies : k = i /\ k \in Instruction /\ IssuedBody(k)
      BY <2>3
    <2>10. Value(k, b)' = Value(k, b)
      BY <2>9, ValueStays
    <2>11. worker'[v].usage = Value(k, b)' /\ worker'[v].msg.body = k
      BY <2>1, <2>8, <2>9, <2>10
    <2>12. QED
      BY <2>11 DEF Value, Carried, DatesBefore
  <1>4. worker'[v].pc = "putSnapshot" => worker'[v] = worker[v] \/ LoadPrevious(v)
    <2>1. FindSnapshot(v) => worker'[v].pc = "diffs"
      BY FindSnapshotAdvances DEF Advances, TypeInv
    <2>2. ReadDiff(v) => worker'[v].pc = "diffs"
      BY ReadDiffAdvances DEF Advances, TypeInv
    <2>3. EndOfDiffs(v) => worker'[v].pc = "previous"
      BY ClosedAdvances DEF Advances, EndOfDiffs, TypeInv
    <2>4. QED
      BY <2>1, <2>2, <2>3, HandlerSteps DEF TypeInv, Sizing
  <1>5. worker'[v].pc = "putUsage" => worker'[v] = worker[v] \/ PutSnapshot(v)
    BY PutUsageAfterPutSnapshot DEF TypeInv
  <1>6. QED
    BY <1>1, <1>2, <1>3, <1>4, <1>5

LEMMA ValueRecordsStep ==
    ASSUME ExactAssumption, Known, ValueInv, [Next]_vars
    PROVE  ValueRecords'
  <1> USE DEF ExactAssumption, Known
  <1>1. SUFFICES ASSUME NEW r \in usage', NEW b \in Int, Begins(r.space, b)'
                 PROVE  (r.usage = Value(PeriodOf(r), b))'
    BY DEF ValueRecords
  <1>2. CASE r \in usage
    <2>1. SnapshotsOf(r.space) # {}
      BY <1>2 DEF SnapshotInv, SnapshotBeforeUsage, SnapshotsOf
    <2>2. Begins(r.space, b)
      BY <1>1, <2>1, BeginsWas
    <2>3. IssuedBody(PeriodOf(r)) /\ PeriodOf(r) \in Instruction
      BY <1>2, RecordDay DEF TypeInv
    <2>4. PICK k \in Instruction, u \in {r.usage} : k = PeriodOf(r)
      BY <2>3
    <2>5. u = Value(k, b)
      BY <1>2, <2>2, <2>4 DEF ValueInv, ValueRecords
    <2>6. Value(k, b)' = Value(k, b)
      BY <2>3, <2>4, ValueStays
    <2>7. QED
      BY <2>4, <2>5, <2>6
  <1>3. CASE r \notin usage
    <2>1. PICK w \in Worker : PutUsage(w)
      BY <1>3, UsageChangesByPutUsage
    <2> DEFINE i == worker[w].msg.body
               new == [space |-> i.space, from |-> i.from, to |-> i.to,
                       usage |-> worker[w].usage]
    <2>2. r = new
      BY <1>3, <2>1, PutUsageEffect DEF TypeInv
    <2>3. worker[w].pc = "putUsage" /\ UNCHANGED snapshots
      BY <2>1 DEF PutUsage
    <2>4. i \in Bodies /\ i \in Instruction /\ IssuedBody(i)
      BY <2>3, WorkerBody DEF TypeInv, BaseInv
    <2>5. PICK k \in Instruction, u \in {worker[w].usage} : k = i
      BY <2>4
    <2>6. PeriodOf(r) = k /\ r.space = k.space /\ r.usage = u
      BY <2>2, <2>5 DEF PeriodOf, Instruction
    <2>7. Opens(i, b)
      BY <1>1, <2>3, <2>5, <2>6 DEF Opens, Begins, HasSnapshot
    <2>8. u = Value(k, b)
      BY <2>3, <2>5, <2>7 DEF ValueInv, ValueHandlers
    <2>9. Value(k, b)' = Value(k, b)
      BY <2>4, <2>5, ValueStays
    <2>10. QED
      BY <2>6, <2>8, <2>9
  <1>4. QED
    BY <1>2, <1>3

LEMMA ValueInvHolds ==
    ASSUME ExactAssumption
    PROVE  Spec => [](Known /\ UsageInv /\ ValueInv)
  <1>1. Init => UsageInv /\ ValueInv
    BY DEF Init, UsageInv, BasedHandlers, UsageHandlers, UsageRecords, Idle, ValueInv,
       ValueHandlers, ValueRecords
  <1>2. Known /\ ExactInv /\ UsageInv /\ [Next]_vars => UsageInv'
    BY BasedStep, UsageHandlersStep, UsageRecordsStep DEF UsageInv, ExactInv
  <1>3. Known /\ UsageInv /\ ValueInv /\ [Next]_vars => ValueInv'
    BY ValueHandlersStep, ValueRecordsStep DEF ValueInv
  <1>4. QED
    BY <1>1, <1>2, <1>3, ExactInvHolds, PTL DEF Spec

(***************************************************************************)
(* A usage record is final: billing its period again, by hand or because   *)
(* an instruction came twice, writes what is there already, whatever was   *)
(* billed in between.                                                      *)
(***************************************************************************)
THEOREM RecordsAreFinal ==
    ASSUME ExactAssumption
    PROVE  Spec => [][usage \subseteq usage']_vars
  <1>1. Known /\ ValueInv /\ [Next]_vars => usage \subseteq usage'
    BY RecordsGrow DEF ExactAssumption
  <1>2. QED
    BY <1>1, ValueInvHolds, PTL DEF Spec

-----------------------------------------------------------------------------
(* What is reported of a record is settled with it.                        *)

DeltaOf(r) == Delta(r, PreviousUsage(r.space, r.from).usage)

\* What waits in the stream is in the table.
StreamRecords == \A k \in DOMAIN stream : stream[k] \in usage

\* Between the lookup and the data loss test nothing is found after all.
Unfound == report.pc = "check" => ~PreviousUsage(Reported.space, Reported.from).found

SendsDelta == report.pc \in {"send", "ack"} => report.delta = DeltaOf(Reported)

MeterDeltas == \A e \in meter : \E r \in usage : PeriodOf(r) = PeriodOf(e) /\ e.bytes = DeltaOf(r)

DeltaInv == StreamRecords /\ Unfound /\ SendsDelta /\ MeterDeltas

LEMMA RecordKeys ==
    ASSUME Known, ValueInv, NEW r \in usage, NEW q \in usage, PeriodOf(r) = PeriodOf(q)
    PROVE  r = q
  <1>1. r \in Usage /\ q \in Usage
    BY DEF Known, TypeInv, TypeOK
  <1>2. r.space = q.space /\ r.from = q.from /\ r.to = q.to
    BY DEF PeriodOf
  <1>3. SnapshotsOf(r.space) # {}
    BY DEF Known, SnapshotInv, SnapshotBeforeUsage, SnapshotsOf
  <1>4. PICK b \in Int : Begins(r.space, b)
    BY <1>3, SomeBegin DEF Known, TypeInv
  <1>5. r.usage = Value(PeriodOf(r), b) /\ q.usage = Value(PeriodOf(q), b)
    BY <1>2, <1>4 DEF ValueInv, ValueRecords
  <1>6. r.usage = q.usage
    BY <1>5
  <1>7. QED
    BY <1>1, <1>2, <1>6 DEF Usage

\* The record before one that was asked for stays what it is, or missing.
LEMMA BeforeStays ==
    ASSUME WholeDays, Known, ValueInv, [Next]_vars, NEW r \in usage
    PROVE  /\ PreviousUsage(r.space, r.from)' = PreviousUsage(r.space, r.from)
           /\ DeltaOf(r)' = DeltaOf(r)
  <1>1. PICK k \in Instruction : k = PeriodOf(r) /\ IssuedBody(k) /\ r.space = k.space
                                 /\ r.from < k.to
    <2>1. /\ PeriodOf(r) \in Instruction /\ IssuedBody(PeriodOf(r))
          /\ r.to = r.from + Day /\ r.from \in Nat
          /\ PeriodOf(r).space = r.space /\ PeriodOf(r).to = r.to
      BY RecordDay DEF Known, TypeInv
    <2>2. QED
      BY <2>1, PeriodsAssumption
  <1>2. PICK s \in {k.space}, t \in {r.from} : s = r.space /\ t < k.to
    BY <1>1
  <1>3. PreviousUsage(s, t)' = PreviousUsage(s, t)
    BY <1>1, <1>2, PreviousStays
  <1>4. QED
    BY <1>2, <1>3 DEF DeltaOf

\* The record at work is the head of the stream until it is settled.
LEMMA HeadIs ==
    ASSUME TypeOK, report # Idle
    PROVE  /\ stream # <<>> /\ stream \in Seq(Usage) /\ Reported = stream[1]
           /\ 1 \in DOMAIN stream /\ Reported \in Usage
  <1>1. stream # <<>> /\ stream \in Seq(Usage)
    BY DEF TypeOK
  <1>2. QED
    BY <1>1 DEF Reported

LEMMA ReportMoves ==
    ASSUME TypeOK, Unfound, [Next]_vars, report' # report, report'.pc \in {"check", "send", "ack"}
    PROVE  /\ stream # <<>> /\ UNCHANGED <<stream, usage>>
           /\ report'.pc = "check" => ~PreviousUsage(Reported.space, Reported.from).found
           /\ report'.pc = "send" => report'.delta = DeltaOf(Reported)
           /\ report'.pc = "ack" => SendMeterEvent /\ report.pc = "send" /\ report'.delta = report.delta
  <1>1. \A delta : Decide(delta) =>
            /\ UNCHANGED stream
            /\ report' = [report EXCEPT !.pc = "send", !.delta = delta]
    BY DEF Decide, Settle, Idle
  <1>2. AttemptFails => report'.pc \notin {"check", "send", "ack"}
    BY DEF AttemptFails, Settle, Idle
  <1>3. CASE LookupPrevious
    <2> DEFINE previous == PreviousUsage(Reported.space, Reported.from)
    <2>1. report.pc = "lookup" /\ UNCHANGED usage
      BY <1>3 DEF LookupPrevious, tables
    <2>2. stream # <<>> /\ report \in ReportJob
      BY <2>1, ReportIsJob
    <2>3. \/ /\ UNCHANGED stream /\ previous.found
             /\ report' = [report EXCEPT !.pc = "send", !.delta = Delta(Reported, previous.usage)]
          \/ /\ UNCHANGED stream /\ ~previous.found
             /\ report' = [report EXCEPT !.pc = "check"]
      BY <1>1, <1>3 DEF LookupPrevious
    <2>4. Delta(Reported, previous.usage) = DeltaOf(Reported)
      BY DEF DeltaOf
    <2>5. PICK d, found : /\ d = DeltaOf(Reported)
                          /\ found = PreviousUsage(Reported.space, Reported.from).found
      OBVIOUS
    <2>6. \/ UNCHANGED stream /\ found /\ report' = [report EXCEPT !.pc = "send", !.delta = d]
          \/ UNCHANGED stream /\ ~found /\ report' = [report EXCEPT !.pc = "check"]
      BY <2>3, <2>4, <2>5
    <2> HIDE DEF previous
    <2>7. \/ report'.pc = "send" /\ report'.delta = d
          \/ report'.pc = "check" /\ ~found
      BY <2>2, <2>6 DEF ReportJob
    <2>8. QED
      BY <2>1, <2>2, <2>5, <2>6, <2>7
  <1>4. CASE CheckSnapshot
    <2>1. report.pc = "check" /\ UNCHANGED usage /\ usage \subseteq Usage
      BY <1>4 DEF CheckSnapshot, tables, TypeOK
    <2>2. stream # <<>> /\ report \in ReportJob
      BY <2>1, ReportIsJob
    <2>3. UNCHANGED stream /\ report' = [report EXCEPT !.pc = "send", !.delta = Delta(Reported, 0)]
      BY <1>1, <1>2, <1>4 DEF CheckSnapshot
    <2>4. PreviousUsage(Reported.space, Reported.from).usage = 0
      BY <2>1, PreviousUsageType DEF Unfound
    <2>5. Delta(Reported, 0) = DeltaOf(Reported)
      BY <2>4 DEF DeltaOf
    <2>6. QED
      BY <2>1, <2>2, <2>3, <2>5 DEF ReportJob
  <1>5. CASE SendMeterEvent
    <2>1. report.pc = "send" /\ UNCHANGED <<stream, usage>> /\ report' = [report EXCEPT !.pc = "ack"]
      BY <1>5 DEF SendMeterEvent, tables
    <2>2. stream # <<>> /\ report \in ReportJob
      BY <2>1, ReportIsJob
    <2>3. QED
      BY <1>5, <2>1, <2>2 DEF ReportJob
  <1>6. ~StartReport /\ ~EndReport /\ ~SkipInactive /\ ~UsageHandlerFails
    <2>1. ~StartReport
      BY DEF StartReport
    <2>2. ~EndReport /\ ~SkipInactive
      BY DEF EndReport, SkipInactive, Settle, Idle
    <2>3. ~UsageHandlerFails
      BY <1>2 DEF UsageHandlerFails
    <2>4. QED
      BY <2>1, <2>2, <2>3
  <1>7. Tick \/ StorageChange \/ Instruct \/ UNCHANGED vars
          \/ (\E w \in Worker : SpaceHandler(w) \/ SpaceHandlerFails(w) \/ DiffListFails(w))
        => UNCHANGED report
    BY DEF Tick, StorageChange, AddBlob, RemoveBlob, Accept, WriteDiff, Instruct, SendDaily,
       SendManual, Send, SpaceHandler, Receive, FindSnapshot, ReadDiff, EndOfDiffs,
       LoadPrevious, PutSnapshot, PutUsage, Delete, SpaceHandlerFails, DiffListFails, vars, reportVars
  <1>8. QED
    BY <1>3, <1>4, <1>5, <1>6, <1>7 DEF Next, Failure, UsageHandler

\* A step appends a record to the stream, takes the head, or leaves it alone.
LEMMA StreamMoves ==
    ASSUME TypeOK, [Next]_vars
    PROVE  \/ UNCHANGED stream
           \/ stream # <<>> /\ stream' = Tail(stream)
           \/ \E r \in usage' : stream' = Append(stream, r)
  <1>1. ASSUME NEW w \in Worker, PutUsage(w)
        PROVE  UNCHANGED stream \/ \E r \in usage' : stream' = Append(stream, r)
    BY <1>1, PutUsageEffect
  <1>2. QED
    BY <1>1, ReportingFrame DEF Settle

\* The record at work stays while the report of it goes on.
LEMMA SameReport ==
    ASSUME TypeOK, [Next]_vars, report # Idle, report' = report
    PROVE  Reported' = Reported
  <1>1. stream # <<>> /\ stream \in Seq(Usage)
    BY HeadIs
  <1>2. CASE stream' = stream
    BY <1>2 DEF Reported
  <1>3. ASSUME NEW r, stream' = Append(stream, r)
        PROVE  Reported' = Reported
    <2>1. Head(stream') = Head(stream)
      BY <1>1, <1>3
    <2>2. QED
      BY <2>1 DEF Reported
  <1>4. ASSUME \E how \in Outcome : Settle(how)
        PROVE  FALSE
    BY <1>4 DEF Settle
  <1>5. ASSUME NEW w \in Worker, PutUsage(w)
        PROVE  Reported' = Reported
    <2>1. stream' = stream \/ \E r \in Usage : stream' = Append(stream, r)
      BY <1>5, PutUsageEffect
    <2>2. QED
      BY <1>2, <1>3, <2>1
  <1>6. QED
    BY <1>2, <1>4, <1>5, ReportingFrame

LEMMA DeltaStep ==
    ASSUME WholeDays, Known, ValueInv, DeltaInv, [Next]_vars
    PROVE  DeltaInv'
  <1> USE DEF Known, TypeInv, DeltaInv
  <1>0. usage \subseteq usage' /\ stream \in Seq(Usage)
    BY RecordsGrow DEF TypeOK
  <1>1. StreamRecords'
    <2>1. CASE UNCHANGED stream
      BY <1>0, <2>1 DEF StreamRecords
    <2>2. CASE stream # <<>> /\ stream' = Tail(stream)
      <3>1. \A k \in DOMAIN stream' : k + 1 \in DOMAIN stream /\ stream'[k] = stream[k + 1]
        BY <1>0, <2>2
      <3>2. QED
        BY <1>0, <3>1 DEF StreamRecords
    <2>3. ASSUME NEW r \in usage', stream' = Append(stream, r)
          PROVE  StreamRecords'
      <3>1. \A k \in DOMAIN stream' : \/ k \in DOMAIN stream /\ stream'[k] = stream[k]
                                      \/ stream'[k] = r
        BY <1>0, <2>3
      <3>2. QED
        BY <1>0, <3>1 DEF StreamRecords
    <2>4. QED
      BY <2>1, <2>2, <2>3, StreamMoves
  <1>2. ASSUME report'.pc \in {"check", "send", "ack"}, report' = report
        PROVE  /\ Reported' = Reported /\ Reported \in usage
               /\ PreviousUsage(Reported.space, Reported.from)'
                    = PreviousUsage(Reported.space, Reported.from)
               /\ DeltaOf(Reported)' = DeltaOf(Reported)
    <2>1. report # Idle
      BY <1>2 DEF Idle
    <2>2. Reported' = Reported
      BY <1>2, <2>1, SameReport
    <2>3. Reported \in usage
      BY <2>1, HeadIs DEF StreamRecords
    <2>4. PICK r \in usage : r = Reported
      BY <2>3
    <2>5. /\ PreviousUsage(r.space, r.from)' = PreviousUsage(r.space, r.from)
          /\ DeltaOf(r)' = DeltaOf(r)
      BY BeforeStays
    <2>6. Reported' = r
      BY <2>2, <2>4
    <2>7. /\ PreviousUsage(Reported.space, Reported.from)' = PreviousUsage(r.space, r.from)'
          /\ DeltaOf(Reported)' = DeltaOf(r)'
      BY <2>6 DEF PreviousUsage, UsageOf, DeltaOf
    <2>8. QED
      BY <2>2, <2>3, <2>4, <2>5, <2>7
  <1>3. ASSUME UNCHANGED <<stream, usage>>
        PROVE  /\ Reported' = Reported
               /\ PreviousUsage(Reported.space, Reported.from)'
                    = PreviousUsage(Reported.space, Reported.from)
               /\ DeltaOf(Reported)' = DeltaOf(Reported)
    BY <1>3 DEF Reported, PreviousUsage, UsageOf, DeltaOf
  <1>4. Unfound'
    <2>1. SUFFICES ASSUME report'.pc = "check"
                   PROVE  ~PreviousUsage(Reported.space, Reported.from)'.found
      BY DEF Unfound
    <2>2. CASE report' = report
      BY <1>2, <2>1, <2>2 DEF Unfound
    <2>3. CASE report' # report
      BY <1>3, <2>1, <2>3, ReportMoves
    <2>4. QED
      BY <2>2, <2>3
  <1>5. SendsDelta'
    <2>1. SUFFICES ASSUME report'.pc \in {"send", "ack"}
                   PROVE  report'.delta = DeltaOf(Reported)'
      BY DEF SendsDelta
    <2>2. CASE report' = report
      BY <1>2, <2>1, <2>2 DEF SendsDelta
    <2>3. CASE report' # report
      BY <1>3, <2>1, <2>3, ReportMoves DEF SendsDelta
    <2>4. QED
      BY <2>2, <2>3
  <1>6. MeterDeltas'
    <2>1. SUFFICES ASSUME NEW e \in meter'
                   PROVE  \E r \in usage' : PeriodOf(r) = PeriodOf(e) /\ e.bytes = DeltaOf(r)'
      BY DEF MeterDeltas
    <2>2. PICK r \in usage : PeriodOf(r) = PeriodOf(e) /\ e.bytes = DeltaOf(r)
      <3>1. CASE e \in meter
        BY <3>1 DEF MeterDeltas
      <3>2. CASE e \notin meter
        <4>1. /\ report.pc = "send" /\ e.bytes = report.delta
              /\ e.space = Reported.space /\ e.from = Reported.from /\ e.to = Reported.to
          BY <3>2, MeterGrows
        <4>2. Reported \in usage
          BY <4>1, HeadIs DEF StreamRecords, Idle
        <4>3. PeriodOf(Reported) = PeriodOf(e) /\ e.bytes = DeltaOf(Reported)
          BY <4>1 DEF PeriodOf, SendsDelta
        <4>4. QED
          BY <4>2, <4>3
      <3>3. QED
        BY <3>1, <3>2
    <2>3. DeltaOf(r)' = DeltaOf(r)
      BY BeforeStays
    <2>4. QED
      BY <1>0, <2>2, <2>3
  <1>7. QED
    BY <1>1, <1>4, <1>5, <1>6

LEMMA DeltaInvHolds ==
    ASSUME ExactAssumption
    PROVE  Spec => [](Known /\ ValueInv /\ DeltaInv)
  <1>1. Init => DeltaInv
    BY DEF Init, DeltaInv, StreamRecords, Unfound, SendsDelta, MeterDeltas, Idle
  <1>2. Known /\ ValueInv /\ DeltaInv /\ [Next]_vars => DeltaInv'
    BY DeltaStep DEF ExactAssumption
  <1>3. QED
    BY <1>1, <1>2, ValueInvHolds, PTL DEF Spec

(***************************************************************************)
(* A retry of a report sends what the first attempt sent: the record it    *)
(* reads again is the same, or is still missing.                           *)
(***************************************************************************)
THEOREM RetriesSendTheSame ==
    ASSUME ExactAssumption
    PROVE  Spec => RetrySendsTheSame
  <1>1. ASSUME Known, ValueInv, DeltaInv, SendMeterEvent, NEW e \in meter,
               PeriodOf(e) = PeriodOf(Reported)
        PROVE  e.bytes = report.delta
    <2>1. report.pc = "send" /\ report # Idle
      BY <1>1 DEF SendMeterEvent, Idle
    <2>2. Reported \in usage
      BY <1>1, <2>1, HeadIs DEF DeltaInv, StreamRecords, Known, TypeInv
    <2>3. PICK r \in usage : PeriodOf(r) = PeriodOf(e) /\ e.bytes = DeltaOf(r)
      BY <1>1 DEF DeltaInv, MeterDeltas
    <2>4. r = Reported
      BY <1>1, <2>2, <2>3, RecordKeys
    <2>5. QED
      BY <1>1, <2>1, <2>3, <2>4 DEF DeltaInv, SendsDelta
  <1>2. Known /\ ValueInv /\ DeltaInv =>
          (SendMeterEvent =>
             \A e \in meter : PeriodOf(e) = PeriodOf(Reported) => e.bytes = report.delta)
    BY <1>1
  <1>3. QED
    BY <1>2, DeltaInvHolds, PTL DEF RetrySendsTheSame

-----------------------------------------------------------------------------
(* The meter adds up. Reports are made in the order of the days, so the    *)
(* events of a month are the differences between one day and the next, and *)
(* what was settled without an event had no difference to report.          *)

InMeter(i) == \E e \in meter : PeriodOf(e) = PeriodOf(i)

SettledRecords ==
    \A x \in settled : \E r \in usage :
        /\ PeriodOf(r) = PeriodOf(x) /\ r.usage = x.usage
        /\ (x.how = "zero" => DeltaOf(r) = 0)
        /\ (x.how = "sent" => InMeter(r))

AckSent == report.pc = "ack" => InMeter(Reported)

\* What was sent is settled, or its report has not ended.
MeterSettled ==
    \A e \in meter :
        \/ \E x \in settled : PeriodOf(x) = PeriodOf(e)
        \/ report # Idle /\ PeriodOf(Reported) = PeriodOf(e)

OneEventEach ==
    /\ IsFiniteSet(meter)
    /\ \A e, f \in meter : PeriodOf(e) = PeriodOf(f) => e = f

\* What waits is later than what was settled, and in the order of the days.
StreamInOrder ==
    /\ \A x \in settled, k \in DOMAIN stream :
         x.space = stream[k].space => x.from < stream[k].from
    /\ \A k, l \in DOMAIN stream :
         (k < l /\ stream[k].space = stream[l].space) => stream[k].from < stream[l].from

MeterInv == SettledRecords /\ AckSent /\ MeterSettled /\ OneEventEach /\ StreamInOrder

LEMMA MeterMoves ==
    ASSUME [Next]_vars
    PROVE  meter' = meter \/ SendMeterEvent
  BY DEF Next, vars, Tick, StorageChange, AddBlob, RemoveBlob, Accept, WriteDiff, Instruct,
     SendDaily, SendManual, Send, SpaceHandler, Receive, FindSnapshot, ReadDiff, EndOfDiffs,
     LoadPrevious, PutSnapshot, PutUsage, Delete, UsageHandler, StartReport, LookupPrevious,
     CheckSnapshot, EndReport, Failure, SpaceHandlerFails, DiffListFails,
     SkipInactive, UsageHandlerFails, reportVars

\* Sending leaves the meter with the one event of the period at work.
LEMMA SendIs ==
    ASSUME TypeOK, SendMeterEvent
    PROVE  /\ report.pc = "send" /\ report # Idle /\ report'.pc = "ack" /\ report' # Idle
           /\ Reported' = Reported /\ UNCHANGED <<stream, settled, usage>>
           /\ \/ meter' = meter /\ InMeter(Reported)
              \/ /\ ~InMeter(Reported)
                 /\ \E new \in meter' : PeriodOf(new) = PeriodOf(Reported)
                                        /\ meter' = meter \union {new}
  <1>1. report.pc = "send" /\ report # Idle
    BY DEF SendMeterEvent, Idle
  <1>2. report \in ReportJob /\ report' = [report EXCEPT !.pc = "ack"]
    BY <1>1, ReportIsJob DEF SendMeterEvent
  <1>3. report'.pc = "ack" /\ report' # Idle
    BY <1>2 DEF ReportJob, Idle
  <1>4. UNCHANGED <<stream, settled, usage>> /\ Reported' = Reported
    BY DEF SendMeterEvent, tables, Reported
  <1> DEFINE new == [space |-> Reported.space, from |-> Reported.from, to |-> Reported.to,
                     bytes |-> report.delta]
  <1>5. meter' = IF InMeter(Reported) THEN meter ELSE meter \union {new}
    BY DEF SendMeterEvent, MeterWith, InMeter
  <1>6. PeriodOf(new) = PeriodOf(Reported)
    BY DEF PeriodOf
  <1> HIDE DEF new
  <1>7. QED
    BY <1>1, <1>3, <1>4, <1>5, <1>6

LEMMA MeterOnlyGrows ==
    ASSUME TypeOK, [Next]_vars
    PROVE  meter \subseteq meter'
  BY MeterMoves, SendIs

\* How a record is settled.
LEMMA Settling ==
    ASSUME TypeOK, Unfound, [Next]_vars, \A w \in Worker : ~PutUsage(w)
    PROVE  /\ UNCHANGED usage
           /\ \/ UNCHANGED <<stream, settled>>
              \/ \E how \in Outcome :
                   /\ Settle(how) /\ report # Idle /\ UNCHANGED meter
                   /\ how = "zero" => DeltaOf(Reported) = 0
                   /\ how = "sent" => report.pc = "ack"
  <1> DEFINE Fair(how) == /\ Settle(how) /\ report # Idle /\ UNCHANGED meter
                          /\ how = "zero" => DeltaOf(Reported) = 0
                          /\ how = "sent" => report.pc = "ack"
             Goal == UNCHANGED <<stream, settled>> \/ \E how \in Outcome : Fair(how)
  <1>0. /\ Fair("zero") \/ Fair("dead") \/ Fair("inactive") \/ Fair("sent") => Goal
        /\ (Settle("dead") /\ report # Idle /\ UNCHANGED meter) => Fair("dead")
        /\ (Settle("inactive") /\ report # Idle /\ UNCHANGED meter) => Fair("inactive")
        /\ UNCHANGED <<stream, settled>> => Goal
    <2>1. "zero" \in Outcome /\ "dead" \in Outcome /\ "inactive" \in Outcome /\ "sent" \in Outcome
      BY DEF Outcome
    <2>2. /\ (Settle("dead") /\ report # Idle /\ UNCHANGED meter) => Fair("dead")
          /\ (Settle("inactive") /\ report # Idle /\ UNCHANGED meter) => Fair("inactive")
      OBVIOUS
    <2> HIDE DEF Fair
    <2>3. QED
      BY <2>1, <2>2
  <1> HIDE DEF Fair, Goal
  <1>1. AttemptFails => UNCHANGED <<stream, settled>> \/ Settle("dead")
    BY DEF AttemptFails
  <1>2. \A delta : Decide(delta) => UNCHANGED <<stream, settled>> \/ (Settle("zero") /\ delta = 0)
    BY DEF Decide
  <1>3. ASSUME LookupPrevious PROVE Goal
    <2>1. report # Idle /\ UNCHANGED meter
      BY <1>3 DEF LookupPrevious, Idle
    <2>2. \/ UNCHANGED <<stream, settled>>
          \/ Settle("zero") /\ DeltaOf(Reported) = 0
      BY <1>2, <1>3 DEF LookupPrevious, DeltaOf
    <2>3. Settle("zero") /\ DeltaOf(Reported) = 0 => Fair("zero")
      BY <2>1 DEF Fair
    <2>4. QED
      BY <1>0, <2>2, <2>3
  <1>4. ASSUME CheckSnapshot PROVE Goal
    <2>1. report # Idle /\ report.pc = "check" /\ UNCHANGED meter
      BY <1>4 DEF CheckSnapshot, Idle
    <2>2. PreviousUsage(Reported.space, Reported.from).usage = 0
      BY <2>1, PreviousUsageType DEF Unfound, TypeOK
    <2>3. Delta(Reported, 0) = DeltaOf(Reported)
      BY <2>2 DEF DeltaOf
    <2>4. \/ UNCHANGED <<stream, settled>> \/ Settle("dead")
          \/ Settle("zero") /\ DeltaOf(Reported) = 0
      BY <1>1, <1>2, <1>4, <2>3 DEF CheckSnapshot
    <2>5. Settle("zero") /\ DeltaOf(Reported) = 0 => Fair("zero")
      BY <2>1 DEF Fair
    <2>6. QED
      BY <1>0, <2>1, <2>4, <2>5
  <1>5. ASSUME EndReport PROVE Goal
    <2>1. Fair("sent")
      BY <1>5 DEF EndReport, Idle, Fair
    <2>2. QED
      BY <1>0, <2>1
  <1>6. ASSUME SkipInactive \/ UsageHandlerFails PROVE Goal
    <2>1. report # Idle /\ UNCHANGED meter
      BY <1>6 DEF SkipInactive, UsageHandlerFails, Idle
    <2>2. UNCHANGED <<stream, settled>> \/ Settle("dead") \/ Settle("inactive")
      BY <1>1, <1>6 DEF SkipInactive, UsageHandlerFails
    <2>3. QED
      BY <1>0, <2>1, <2>2
  <1>7. StartReport \/ SendMeterEvent => UNCHANGED <<stream, settled>>
    BY DEF StartReport, SendMeterEvent
  <1>8. Tick \/ StorageChange \/ Instruct \/ UNCHANGED vars
          \/ (\E w \in Worker : SpaceHandler(w) \/ SpaceHandlerFails(w) \/ DiffListFails(w))
        => UNCHANGED <<stream, settled>>
    BY DEF Tick, StorageChange, AddBlob, RemoveBlob, Accept, WriteDiff, Instruct, SendDaily,
       SendManual, Send, SpaceHandler, Receive, FindSnapshot, ReadDiff, EndOfDiffs,
       LoadPrevious, PutSnapshot, Delete, SpaceHandlerFails, DiffListFails, vars, reportVars
  <1>9. Goal
    BY <1>0, <1>3, <1>4, <1>5, <1>6, <1>7, <1>8 DEF Next, Failure, UsageHandler
  <1>10. QED
    BY <1>9, UsageChangesByPutUsage DEF Goal, Fair

\* A report ends by settling its record.
LEMMA ReportGoesOn ==
    ASSUME TypeOK, [Next]_vars, report # Idle
    PROVE  \/ \E how \in Outcome : Settle(how)
           \/ report' # Idle /\ Reported' = Reported
  <1> DEFINE On == report' # Idle /\ UNCHANGED stream
             Ends == \E how \in Outcome : Settle(how)
  <1>0. report \in ReportJob
    BY DEF TypeOK
  <1>1. AttemptFails => On \/ Ends
    BY DEF AttemptFails, Idle, Outcome
  <1>2. \A delta : Decide(delta) => On \/ Ends
    BY <1>0 DEF Decide, Idle, ReportJob, Outcome
  <1>3. LookupPrevious => On \/ Ends
    BY <1>0, <1>2 DEF LookupPrevious, Idle, ReportJob
  <1>4. CheckSnapshot => On \/ Ends
    BY <1>1, <1>2 DEF CheckSnapshot
  <1>5. SendMeterEvent => On
    BY <1>0 DEF SendMeterEvent, Idle, ReportJob
  <1>6. EndReport \/ SkipInactive \/ UsageHandlerFails => On \/ Ends
    BY <1>1 DEF EndReport, SkipInactive, UsageHandlerFails, Outcome
  <1>7. ~StartReport
    BY DEF StartReport
  <1>8. Tick \/ StorageChange \/ Instruct \/ UNCHANGED vars
          \/ (\E w \in Worker : SpaceHandler(w) \/ SpaceHandlerFails(w) \/ DiffListFails(w))
        => UNCHANGED report
    BY DEF Tick, StorageChange, AddBlob, RemoveBlob, Accept, WriteDiff, Instruct, SendDaily,
       SendManual, Send, SpaceHandler, Receive, FindSnapshot, ReadDiff, EndOfDiffs,
       LoadPrevious, PutSnapshot, PutUsage, Delete, SpaceHandlerFails, DiffListFails, vars, reportVars
  <1>9. On \/ Ends \/ UNCHANGED report
    BY <1>3, <1>4, <1>5, <1>6, <1>7, <1>8 DEF Next, Failure, UsageHandler
  <1>10. On => report' # Idle /\ Reported' = Reported
    BY DEF Reported
  <1>11. UNCHANGED report => report' # Idle /\ Reported' = Reported
    BY SameReport
  <1>12. QED
    BY <1>9, <1>10, <1>11

\* A new record is later than the others of its space.
LEMMA NewIsLater ==
    ASSUME WholeDays, Known, NEW i \in Bodies, IssuedBody(i), ~HasRecord(i), NEW r \in usage,
           r.space = i.space
    PROVE  r.from < i.from
  <1> USE DEF Known, TypeInv
  <1> DEFINE k == PeriodOf(r)
  <1>1. /\ IssuedBody(k) /\ HasRecord(k) /\ k.space = r.space /\ k.from = r.from
        /\ k \in Instruction /\ k.from \in Nat
    BY RecordDay
  <1>2. i.from \in Nat /\ i \in Instruction
    BY IssuedDay DEF BaseInv
  <1>3. CASE i.from = k.from
    <2>1. i.to = k.to
      BY <1>1, <1>3, DaysApart
    <2>2. i = k
      BY <1>1, <1>2, <1>3, <2>1 DEF Instruction
    <2>3. QED
      BY <1>1, <2>2
  <1>4. CASE i.from < k.from
    <2>1. i.to < k.to
      BY <1>1, <1>4, DaysApart
    <2>2. PICK j \in issued : j.body = k
      BY <1>1 DEF IssuedBody
    <2>3. HasRecord(i)
      BY <1>1, <2>1, <2>2 DEF BaseInv, Overtaken
    <2>4. QED
      BY <2>3
  <1>5. QED
    BY <1>1, <1>2, <1>3, <1>4

LEMMA OneEventStep ==
    ASSUME TypeOK, OneEventEach, [Next]_vars
    PROVE  OneEventEach'
  <1>1. CASE meter' = meter
    BY <1>1 DEF OneEventEach
  <1>2. ASSUME ~InMeter(Reported), NEW new \in meter', PeriodOf(new) = PeriodOf(Reported),
               meter' = meter \union {new}
        PROVE  OneEventEach'
    <2>1. \A e \in meter : PeriodOf(e) # PeriodOf(new)
      BY <1>2 DEF InMeter
    <2>2. IsFiniteSet(meter')
      BY <1>2, FS_AddElement DEF OneEventEach
    <2>3. QED
      BY <1>2, <2>1, <2>2 DEF OneEventEach
  <1>3. QED
    BY <1>1, <1>2, MeterMoves, SendIs

LEMMA AckSentStep ==
    ASSUME TypeOK, Unfound, AckSent, [Next]_vars
    PROVE  AckSent'
  <1>1. SUFFICES ASSUME report'.pc = "ack" PROVE InMeter(Reported)'
    BY DEF AckSent
  <1>2. CASE SendMeterEvent
    <2>1. \E e \in meter' : PeriodOf(e) = PeriodOf(Reported)
      BY <1>2, SendIs DEF InMeter
    <2>2. Reported' = Reported
      BY <1>2, SendIs
    <2>3. QED
      BY <2>1, <2>2 DEF InMeter
  <1>3. CASE ~SendMeterEvent
    <2>1. meter' = meter
      BY <1>3, MeterMoves
    <2>2. CASE report' = report
      <3>1. Reported' = Reported
        BY <1>1, <2>2, SameReport DEF Idle
      <3>2. QED
        BY <1>1, <2>1, <2>2, <3>1 DEF AckSent, InMeter
    <2>3. CASE report' # report
      BY <1>1, <1>3, <2>3, ReportMoves
    <2>4. QED
      BY <2>2, <2>3
  <1>4. QED
    BY <1>2, <1>3

\* A record that is settled has the period of the head of the stream.
LEMMA SettleIs ==
    ASSUME TypeOK, report # Idle, NEW how, Settle(how)
    PROVE  \E x \in settled' :
              /\ settled' = settled \union {x} /\ PeriodOf(x) = PeriodOf(Reported)
              /\ x.usage = Reported.usage /\ x.how = how /\ x.space = Reported.space
              /\ x.from = Reported.from
              /\ stream' = Tail(stream)
  <1> DEFINE x == [space |-> Reported.space, from |-> Reported.from, to |-> Reported.to,
                   usage |-> Reported.usage, how |-> how]
  <1>1. settled' = settled \union {x} /\ stream' = Tail(stream)
    BY DEF Settle
  <1>2. PeriodOf(x) = PeriodOf(Reported) /\ x.usage = Reported.usage /\ x.how = how
        /\ x.space = Reported.space /\ x.from = Reported.from
    BY DEF PeriodOf
  <1>3. x \in settled'
    BY <1>1
  <1> HIDE DEF x
  <1>4. QED
    BY <1>1, <1>2, <1>3

LEMMA MeterSettledStep ==
    ASSUME TypeOK, Unfound, MeterSettled, [Next]_vars
    PROVE  MeterSettled'
  <1>0. settled \subseteq settled'
    <2>1. \A how : Settle(how) => settled \subseteq settled'
      BY DEF Settle
    <2>2. \A w \in Worker : PutUsage(w) => settled' = settled
      BY PutUsageEffect
    <2>3. QED
      BY <2>1, <2>2, ReportingFrame
  <1>1. SUFFICES ASSUME NEW e \in meter'
                 PROVE  \/ \E x \in settled' : PeriodOf(x) = PeriodOf(e)
                        \/ report' # Idle /\ PeriodOf(Reported') = PeriodOf(e)
    BY DEF MeterSettled
  <1>2. CASE e \notin meter
    <2>1. SendMeterEvent
      BY <1>2, MeterMoves
    <2>2. report' # Idle /\ Reported' = Reported /\ PeriodOf(e) = PeriodOf(Reported)
      BY <1>2, <2>1, SendIs
    <2>3. QED
      BY <2>2
  <1>3. CASE \E x \in settled : PeriodOf(x) = PeriodOf(e)
    BY <1>0, <1>3
  <1>4. CASE report # Idle /\ PeriodOf(Reported) = PeriodOf(e)
    <2>1. CASE report' # Idle /\ Reported' = Reported
      BY <1>4, <2>1
    <2>2. ASSUME NEW how \in Outcome, Settle(how)
          PROVE  \E x \in settled' : PeriodOf(x) = PeriodOf(e)
      BY <1>4, <2>2, SettleIs
    <2>3. QED
      BY <1>4, <2>1, <2>2, ReportGoesOn
  <1>5. QED
    BY <1>2, <1>3, <1>4 DEF MeterSettled

LEMMA SettledRecordsStep ==
    ASSUME WholeDays, Known, ValueInv, DeltaInv, SettledRecords, AckSent, [Next]_vars
    PROVE  SettledRecords'
  <1> USE DEF Known, TypeInv, DeltaInv
  <1>0. usage \subseteq usage' /\ meter \subseteq meter'
    BY RecordsGrow, MeterOnlyGrows
  <1>1. SUFFICES ASSUME NEW x \in settled'
                 PROVE  \E r \in usage' :
                           /\ PeriodOf(r) = PeriodOf(x) /\ r.usage = x.usage
                           /\ (x.how = "zero" => DeltaOf(r)' = 0)
                           /\ (x.how = "sent" => \E e \in meter' : PeriodOf(e) = PeriodOf(r))
    BY DEF SettledRecords, InMeter
  <1>2. \E r \in usage :
           /\ PeriodOf(r) = PeriodOf(x) /\ r.usage = x.usage
           /\ (x.how = "zero" => DeltaOf(r) = 0)
           /\ (x.how = "sent" => InMeter(r))
    <2>1. CASE x \in settled
      BY <2>1 DEF SettledRecords
    <2>2. CASE x \notin settled
      <3>1. \A w \in Worker : ~PutUsage(w)
        BY <2>2, PutUsageEffect
      <3>2. PICK how \in Outcome :
              /\ Settle(how) /\ report # Idle
              /\ how = "zero" => DeltaOf(Reported) = 0
              /\ how = "sent" => report.pc = "ack"
        BY <2>2, <3>1, Settling
      <3>3. PeriodOf(x) = PeriodOf(Reported) /\ x.usage = Reported.usage /\ x.how = how
        BY <2>2, <3>2, SettleIs
      <3>4. Reported \in usage
        BY <3>2, HeadIs DEF StreamRecords
      <3>5. QED
        BY <3>2, <3>3, <3>4 DEF AckSent
    <2>3. QED
      BY <2>1, <2>2
  <1>3. PICK r \in usage :
           /\ PeriodOf(r) = PeriodOf(x) /\ r.usage = x.usage
           /\ (x.how = "zero" => DeltaOf(r) = 0)
           /\ (x.how = "sent" => InMeter(r))
    BY <1>2
  <1>4. DeltaOf(r)' = DeltaOf(r)
    BY BeforeStays
  <1>5. QED
    BY <1>0, <1>3, <1>4 DEF InMeter

LEMMA StreamInOrderStep ==
    ASSUME WholeDays, Known, ValueInv, DeltaInv, SettledRecords, StreamInOrder, [Next]_vars
    PROVE  StreamInOrder'
  <1> USE DEF Known, TypeInv, DeltaInv
  <1>0. stream \in Seq(Usage)
    BY DEF TypeOK
  <1>1. ASSUME UNCHANGED <<stream, settled>>
        PROVE  StreamInOrder'
    BY <1>1 DEF StreamInOrder
  <1>2. ASSUME NEW how \in Outcome, Settle(how), report # Idle
        PROVE  StreamInOrder'
    <2>1. PICK x \in settled' :
             /\ settled' = settled \union {x} /\ stream' = Tail(stream)
             /\ x.space = Reported.space /\ x.from = Reported.from
      BY <1>2, SettleIs
    <2>2. stream # <<>> /\ Reported = stream[1] /\ 1 \in DOMAIN stream
      BY <1>2, HeadIs
    <2>3. /\ \A k \in DOMAIN stream' : k + 1 \in DOMAIN stream /\ stream'[k] = stream[k + 1]
                                       /\ k \in Nat /\ 1 < k + 1
      BY <1>0, <2>1, <2>2
    <2>4. ASSUME NEW y \in settled', NEW k \in DOMAIN stream', y.space = stream'[k].space
          PROVE  y.from < stream'[k].from
      <3>1. CASE y \in settled
        BY <2>3, <2>4, <3>1 DEF StreamInOrder
      <3>2. CASE y = x
        <4>1. stream[1].space = stream[k + 1].space
          BY <2>1, <2>2, <2>3, <2>4, <3>2
        <4>2. stream[1].from < stream[k + 1].from
          BY <2>2, <2>3, <4>1 DEF StreamInOrder
        <4>3. QED
          BY <2>1, <2>2, <2>3, <3>2, <4>2
      <3>3. QED
        BY <2>1, <3>1, <3>2
    <2>5. ASSUME NEW k \in DOMAIN stream', NEW l \in DOMAIN stream', k < l,
                 stream'[k].space = stream'[l].space
          PROVE  stream'[k].from < stream'[l].from
      <3>1. k + 1 < l + 1
        BY <2>3, <2>5
      <3>2. QED
        BY <2>3, <2>5, <3>1 DEF StreamInOrder
    <2>6. QED
      BY <2>4, <2>5 DEF StreamInOrder
  <1>3. ASSUME NEW w \in Worker, PutUsage(w), ~UNCHANGED stream
        PROVE  StreamInOrder'
    <2> DEFINE i == worker[w].msg.body
               new == [space |-> i.space, from |-> i.from, to |-> i.to,
                       usage |-> worker[w].usage]
               old == {r \in usage : SameKey(r, i)}
    <2>1. i \in Bodies /\ i \in Instruction /\ IssuedBody(i)
      BY <1>3, PutAgain
    <2>2. old = {} /\ stream' = Append(stream, new) /\ settled' = settled
      BY <1>3, PutUsageEffect
    <2>3. ~HasRecord(i)
      <3>1. SUFFICES ASSUME NEW r \in usage, PeriodOf(r) = i PROVE FALSE
        BY DEF HasRecord
      <3>2. SameKey(r, i)
        BY <3>1 DEF PeriodOf, SameKey
      <3>3. QED
        BY <2>2, <3>2
    <2>4. new.space = i.space /\ new.from = i.from
      OBVIOUS
    <2> HIDE DEF new, i
    <2>5. \A r \in usage : r.space = new.space => r.from < new.from
      BY <2>1, <2>3, <2>4, NewIsLater
    <2>6. PICK n \in Nat : n = Len(stream)
      BY <1>0
    <2>7. /\ \A k \in DOMAIN stream' :
               \/ k \in DOMAIN stream /\ stream'[k] = stream[k] /\ k \in 1..n
               \/ k = n + 1 /\ stream'[k] = new
      BY <1>0, <2>2, <2>6
    <2>8. ASSUME NEW y \in settled', NEW k \in DOMAIN stream', y.space = stream'[k].space
          PROVE  y.from < stream'[k].from
      <3>1. CASE k \in DOMAIN stream /\ stream'[k] = stream[k]
        BY <2>2, <2>8, <3>1 DEF StreamInOrder
      <3>2. CASE stream'[k] = new
        <4>1. PICK r \in usage : PeriodOf(r) = PeriodOf(y)
          BY <2>2 DEF SettledRecords
        <4>2. r.space = y.space /\ r.from = y.from
          BY <4>1 DEF PeriodOf
        <4>3. QED
          BY <2>5, <2>8, <3>2, <4>2
      <3>3. QED
        BY <2>7, <3>1, <3>2
    <2>9. ASSUME NEW k \in DOMAIN stream', NEW l \in DOMAIN stream', k < l,
                 stream'[k].space = stream'[l].space
          PROVE  stream'[k].from < stream'[l].from
      <3>1. k \in DOMAIN stream /\ stream'[k] = stream[k]
        BY <2>6, <2>7, <2>9
      <3>2. CASE l \in DOMAIN stream /\ stream'[l] = stream[l]
        BY <2>9, <3>1, <3>2 DEF StreamInOrder
      <3>3. CASE stream'[l] = new
        BY <2>5, <2>9, <3>1, <3>3 DEF StreamRecords
      <3>4. QED
        BY <2>7, <3>2, <3>3
    <2>10. QED
      BY <2>8, <2>9 DEF StreamInOrder
  <1>4. (\A w \in Worker : ~PutUsage(w)) =>
           \/ UNCHANGED <<stream, settled>>
           \/ \E how \in Outcome : Settle(how) /\ report # Idle
    BY Settling
  <1>5. \A w \in Worker : PutUsage(w) /\ UNCHANGED stream => UNCHANGED <<stream, settled>>
    BY PutUsageEffect
  <1>6. QED
    BY <1>1, <1>2, <1>3, <1>4, <1>5

LEMMA MeterInvHolds ==
    ASSUME ExactAssumption
    PROVE  Spec => [](Known /\ ValueInv /\ DeltaInv /\ MeterInv)
  <1>1. Init => MeterInv
    BY FS_EmptySet
    DEF Init, MeterInv, SettledRecords, AckSent, MeterSettled, OneEventEach, StreamInOrder, Idle
  <1>2. Known /\ ValueInv /\ DeltaInv /\ MeterInv /\ [Next]_vars => MeterInv'
    <2> SUFFICES ASSUME Known, ValueInv, DeltaInv, MeterInv, [Next]_vars PROVE MeterInv'
      OBVIOUS
    <2> USE DEF ExactAssumption, Known, TypeInv, DeltaInv, MeterInv
    <2>1. OneEventEach' /\ AckSent' /\ MeterSettled'
      BY OneEventStep, AckSentStep, MeterSettledStep
    <2>2. SettledRecords' /\ StreamInOrder'
      BY SettledRecordsStep, StreamInOrderStep
    <2>3. QED
      BY <2>1, <2>2
  <1>3. QED
    BY <1>1, <1>2, DeltaInvHolds, PTL DEF Spec

\* The record of a day, and its month-to-date average.
RecordAt(s, t) == CHOOSE r \in usage : r.space = s /\ r.from = t

AverageOf(r) == Average(r.usage, r.from, r.to)

\* What was sent of a month, of the days before t.
SentBefore(s, m, t) == {e \in InMonth(meter, s, m) : e.from < t}

TotalSent(s, m, t) == SumFunction([e \in SentBefore(s, m, t) |-> e.bytes])

LEMMA DaysBetween ==
    ASSUME NEW t, NEW u, Midnight(t), Midnight(u), t <= u
    PROVE  \E n \in Nat : u = t + n * Day
  <1>1. PICK a \in Nat, b \in Nat : t = a * Day /\ u = b * Day
    BY DEF Midnight
  <1>2. Day \in Nat \ {0}
    BY PeriodsAssumption
  <1>3. a <= b
    <2>1. CASE b < a
      <3>1. u < t
        <4>1. b * Day + Day <= a * Day
          BY <1>2, <2>1
        <4>2. b * Day \in Nat /\ a * Day \in Nat
          BY <1>2
        <4>3. QED
          BY <1>1, <1>2, <4>1, <4>2
      <3>2. t \in Nat /\ u \in Nat
        BY <1>1, <1>2
      <3>3. QED
        BY <3>1, <3>2
    <2>2. QED
      BY <2>1
  <1>4. b - a \in Nat /\ b * Day = a * Day + (b - a) * Day
    BY <1>2, <1>3
  <1>5. QED
    BY <1>1, <1>4

LEMMA MidnightIs ==
    ASSUME NEW t, Midnight(t)
    PROVE  t \in Nat /\ t % Day = 0
  <1>1. PICK a \in Nat : t = a * Day
    BY DEF Midnight
  <1>2. Day \in Nat \ {0}
    BY PeriodsAssumption
  <1>3. (a * Day) % Day = 0 /\ a * Day \in Nat
    BY <1>2
  <1>4. QED
    BY <1>1, <1>3

LEMMA MonthStartIs ==
    ASSUME NEW m \in MonthStarts
    PROVE  m \in Nat /\ Midnight(m)
  <1>1. m \in Nat /\ m % Day = 0 /\ Day \in Nat \ {0}
    BY PeriodsAssumption
  <1>2. m \div Day \in Nat /\ m = Day * (m \div Day)
    BY <1>1, WholeQuotient
  <1>3. m = (m \div Day) * Day
    BY <1>1, <1>2
  <1>4. QED
    BY <1>1, <1>2, <1>3 DEF Midnight

LEMMA DayAfter ==
    ASSUME NEW m, Midnight(m), NEW n \in Nat
    PROVE  /\ Midnight(m + n * Day) /\ m + n * Day \in Nat /\ m <= m + n * Day
           /\ m + (n + 1) * Day = (m + n * Day) + Day
  <1>1. PICK a \in Nat : m = a * Day
    BY DEF Midnight
  <1>2. Day \in Nat \ {0}
    BY PeriodsAssumption
  <1>3. m + n * Day = (a + n) * Day /\ a + n \in Nat
    BY <1>1, <1>2
  <1>4. m \in Nat /\ n * Day \in Nat
    BY <1>1, <1>2
  <1>5. (n + 1) * Day = n * Day + Day
    BY <1>2
  <1>6. QED
    BY <1>2, <1>3, <1>4, <1>5 DEF Midnight

\* The whole of the month before a day's end is the month of that day.
LEMMA LastOfDay ==
    ASSUME NEW t \in Time, NEW u \in Time, Midnight(t), u = t + Day
    PROVE  StartOfMonth(u - 1) = StartOfMonth(t)
  <1>1. t \in Nat /\ u \in Nat /\ Day \in Nat \ {0} /\ u - 1 \in Time /\ t <= u - 1
    BY PeriodsAssumption DEF Time
  <1>2. PICK q : q = StartOfMonth(u - 1)
    OBVIOUS
  <1>3. q \in MonthStarts /\ q <= u - 1 /\ q \in Nat /\ Midnight(q)
    BY <1>1, <1>2, MonthFacts, MonthStartIs
  <1>4. ~(t < q)
    <2>1. t < q => t + Day <= q
      BY <1>3, NextMidnight
    <2>2. QED
      BY <1>1, <1>3, <2>1
  <1>5. q <= t
    BY <1>1, <1>3, <1>4
  <1>6. q <= StartOfMonth(t)
    BY <1>3, <1>5, MonthFacts
  <1>7. StartOfMonth(t) <= q
    BY <1>1, <1>2, MonthsGrow
  <1>8. StartOfMonth(t) \in Nat
    BY MonthFacts
  <1>9. QED
    BY <1>2, <1>3, <1>6, <1>7, <1>8

LEMMA RecordAtIs ==
    ASSUME WholeDays, Known, ValueInv, NEW r \in usage
    PROVE  /\ \A q \in usage : (q.space = r.space /\ q.from = r.from) => q = r
           /\ r = RecordAt(r.space, r.from)
  <1>1. ASSUME NEW q \in usage, q.space = r.space, q.from = r.from
        PROVE  q = r
    <2>1. q.to = q.from + Day /\ r.to = r.from + Day
      BY RecordDay DEF Known, TypeInv
    <2>2. PeriodOf(q) = PeriodOf(r)
      BY <1>1, <2>1 DEF PeriodOf
    <2>3. QED
      BY <2>2, RecordKeys
  <1>2. QED
    BY <1>1 DEF RecordAt

LEMMA AverageType ==
    ASSUME WholeDays, Known, NEW r \in usage
    PROVE  AverageOf(r) \in Int /\ r.to - StartOfMonth(r.from) \in Nat \ {0} /\ r.usage \in Int
  <1>1. r.usage \in Int /\ r.from \in Time /\ r.to \in Nat /\ r.from \in Nat /\ r.from < r.to
    <2>1. r \in Usage
      BY DEF Known, TypeInv, TypeOK
    <2>2. QED
      BY <2>1 DEF Usage, Time
  <1>2. r.to - StartOfMonth(r.from) \in Nat \ {0}
    BY <1>1, MonthFacts
  <1>3. QED
    BY <1>1, <1>2 DEF AverageOf, Average

\* The first report of a month is the average itself,
LEMMA DeltaFirst ==
    ASSUME WholeDays, Known, NEW r \in usage, IsMonthStart(r.from)
    PROVE  DeltaOf(r) = AverageOf(r)
  <1>1. PreviousUsage(r.space, r.from).usage = 0
    BY PreviousUsageType DEF Known, TypeInv, TypeOK
  <1>2. QED
    BY <1>1, AverageType DEF DeltaOf, Delta, AverageOf

\* and a later one the difference to the day before.
LEMMA DeltaNext ==
    ASSUME WholeDays, Known, ValueInv, NEW q \in usage, NEW r \in usage,
           q.space = r.space, q.to = r.from, ~IsMonthStart(r.from)
    PROVE  DeltaOf(r) = AverageOf(r) - AverageOf(q)
  <1> DEFINE ending == {x \in UsageOf(r.space) : x.to = r.from}
             daily == {x \in ending : x.from = r.from - Day}
             newest == {x \in ending : \A y \in ending : y.from <= x.from}
             p == PreviousUsage(r.space, r.from)
  <1>1. /\ q.from \in Time /\ q.to \in Time /\ q.from \in Nat /\ q.to \in Nat
        /\ q.to = q.from + Day
        /\ Midnight(q.from) /\ Midnight(q.to)
    BY RecordDay DEF Known, TypeInv
  <1>2. q \in daily
    BY <1>1, PeriodsAssumption DEF UsageOf
  <1>3. daily = {q}
    <2>1. ASSUME NEW x \in daily PROVE x = q
      <3>1. x \in usage /\ x.space = q.space /\ x.from = q.from
        BY <1>1, PeriodsAssumption DEF UsageOf
      <3>2. QED
        BY <3>1, RecordAtIs
    <2>2. QED
      BY <1>2, <2>1
  <1>4. p = IF IsMonthStart(r.from) THEN [found |-> TRUE, usage |-> 0]
            ELSE IF (IF daily # {} THEN daily ELSE newest) # {}
                 THEN [found |-> TRUE,
                       usage |-> (CHOOSE x \in (IF daily # {} THEN daily ELSE newest) : TRUE).usage]
                 ELSE [found |-> FALSE, usage |-> 0]
    BY DEF PreviousUsage
  <1>5. (IF daily # {} THEN daily ELSE newest) = {q}
    BY <1>3
  <1> HIDE DEF daily, newest, ending, p
  <1>6. (CHOOSE x \in {q} : TRUE) = q
    OBVIOUS
  <1>7. p.usage = q.usage
    BY <1>4, <1>5, <1>6
  <1>8. StartOfMonth(r.from) = StartOfMonth(q.from)
    BY <1>1, DayBefore DEF SameMonth
  <1>9. AverageOf(q) = q.usage \div (r.from - StartOfMonth(r.from))
    BY <1>8 DEF AverageOf, Average
  <1>10. DeltaOf(r) = AverageOf(r)
            - (IF q.usage = 0 THEN 0 ELSE q.usage \div (r.from - StartOfMonth(r.from)))
    BY <1>7 DEF DeltaOf, Delta, AverageOf, p
  <1>11. r.from - StartOfMonth(r.from) \in Nat \ {0}
    BY <1>8, AverageType
  <1>12. q.usage = 0 => AverageOf(q) = 0
    BY <1>9, <1>11
  <1>13. QED
    BY <1>9, <1>10, <1>12

\* What a day adds to what was sent, once it was settled.
LEMMA DayAdds ==
    ASSUME WholeDays, Known, ValueInv, DeltaInv, MeterInv, NEW r \in usage,
           InMeter(r) \/ DeltaOf(r) = 0, NEW m, StartOfMonth(r.from) = m
    PROVE  /\ TotalSent(r.space, m, r.to) = TotalSent(r.space, m, r.from) + DeltaOf(r)
           /\ TotalSent(r.space, m, r.to) \in Int
  <1> DEFINE s == r.space
             E == SentBefore(s, m, r.from)
             F == SentBefore(s, m, r.to)
             f == [e \in E |-> e.bytes]
             g == [e \in F |-> e.bytes]
  <1>1. r.from \in Nat /\ r.to = r.from + Day /\ Midnight(r.from) /\ Day \in Nat \ {0}
    BY RecordDay, PeriodsAssumption DEF Known, TypeInv
  <1>2. ASSUME NEW e \in meter, e.space = s, r.from <= e.from, e.from < r.to
        PROVE  PeriodOf(e) = PeriodOf(r) /\ e.bytes = DeltaOf(r)
    <2>1. PICK q \in usage : PeriodOf(q) = PeriodOf(e) /\ e.bytes = DeltaOf(q)
      BY DEF DeltaInv, MeterDeltas
    <2>2. Midnight(q.from) /\ q.from \in Nat
      BY RecordDay DEF Known, TypeInv
    <2>3. q.from = e.from /\ q.space = e.space
      BY <2>1 DEF PeriodOf
    <2>4. r.from < q.from => r.from + Day <= q.from
      BY <1>1, <2>2, NextMidnight
    <2>5. q.from = r.from
      BY <1>1, <1>2, <2>2, <2>3, <2>4
    <2>6. q = r
      BY <1>2, <2>3, <2>5, RecordAtIs
    <2>7. QED
      BY <2>1, <2>6
  <1>3. meter \subseteq MeterEvent /\ IsFiniteSet(meter)
    BY DEF Known, TypeInv, TypeOK, MeterInv, OneEventEach
  <1>4. \A e \in meter : e.bytes \in Int /\ e.from \in Nat
    BY <1>3 DEF MeterEvent, Time
  <1>5. E \in SUBSET meter /\ F \in SUBSET meter /\ IsFiniteSet(E)
    <2>1. E \in SUBSET meter /\ F \in SUBSET meter
      BY DEF SentBefore, InMonth
    <2>2. QED
      BY <1>3, <2>1, FS_Subset
  <1>6. f \in [E -> Int] /\ g \in [F -> Int]
    BY <1>4, <1>5
  <1>7. \A e \in F : e \in E \/ (e.space = s /\ r.from <= e.from /\ e.from < r.to)
    BY <1>1, <1>4 DEF SentBefore, InMonth
  <1>8. E \subseteq F
    BY <1>1, <1>4 DEF SentBefore, InMonth
  <1>9. SumFunction(f) \in Int
    BY <1>5, <1>6, TotalType
  <1>10. CASE InMeter(r)
    <2>1. PICK x \in meter : PeriodOf(x) = PeriodOf(r)
      BY <1>10 DEF InMeter
    <2>2. x.space = s /\ x.from = r.from /\ x.bytes = DeltaOf(r)
      <3>1. x.space = s /\ x.from = r.from
        BY <2>1 DEF PeriodOf
      <3>2. QED
        BY <1>1, <1>2, <3>1
    <2>3. x \in F /\ x \notin E
      BY <1>1, <2>2 DEF SentBefore, InMonth
    <2>4. \A e \in F : e \in E \/ e = x
      BY <1>2, <1>5, <1>7, <2>1 DEF MeterInv, OneEventEach
    <2>5. F = E \union {x}
      BY <1>8, <2>3, <2>4
    <2>6. g[x] = DeltaOf(r) /\ \A e \in E : g[e] = f[e]
      BY <1>8, <2>2, <2>3
    <2> HIDE DEF E, F, f, g
    <2>7. g \in [E \union {x} -> Int]
      BY <1>6, <2>5
    <2>8. SumFunction(g) = SumFunction(f) + g[x]
      <3>1. PICK S : S = E
        OBVIOUS
      <3>2. IsFiniteSet(S) /\ x \notin S
        BY <1>5, <2>3, <3>1
      <3>3. f \in [S -> Int] /\ g \in [S \union {x} -> Int]
        BY <1>6, <2>7, <3>1
      <3>4. \A y \in S : g[y] = f[y]
        BY <2>6, <3>1
      <3>5. QED
        BY <3>2, <3>3, <3>4, TotalWith, ZenonT(60)
    <2>9. g[x] \in Int
      BY <2>7
    <2>10. SumFunction(g) = SumFunction(f) + DeltaOf(r) /\ SumFunction(g) \in Int
      BY <1>9, <2>6, <2>8, <2>9
    <2>11. QED
      BY <2>10 DEF E, F, f, g, TotalSent
  <1>11. CASE ~InMeter(r)
    <2>1. F = E
      BY <1>2, <1>5, <1>7, <1>8, <1>11 DEF InMeter
    <2>2. g = f
      BY <2>1
    <2>3. DeltaOf(r) = 0
      BY <1>11
    <2>4. SumFunction(g) = SumFunction(f) + DeltaOf(r)
      BY <1>9, <2>2, <2>3
    <2>5. QED
      BY <1>9, <2>2, <2>4 DEF TotalSent
  <1>12. QED
    BY <1>10, <1>11

\* A day up to the last one settled is settled, and was reported.
LEMMA DaySettled ==
    ASSUME WholeDays, Known, ValueInv, SettledRecords, StreamInOrder, UsageAccounted,
           NEW x \in settled, NEW r \in usage, r.space = x.space, r.from <= x.from,
           \A y \in settled : (y.space = x.space /\ y.from = r.from) => y.how \in {"sent", "zero"}
    PROVE  InMeter(r) \/ DeltaOf(r) = 0
  <1>1. r.from \in Nat /\ x.from \in Nat
    <2>1. x \in Settled
      BY DEF Known, TypeInv, TypeOK
    <2>2. QED
      BY <2>1, RecordDay DEF Known, TypeInv, Settled, Time
  <1>2. ~ \E k \in DOMAIN stream : SameKey(stream[k], r)
    <2>1. ASSUME NEW k \in DOMAIN stream, SameKey(stream[k], r) PROVE FALSE
      <3>1. stream[k].space = x.space /\ stream[k].from = r.from
        BY <2>1 DEF SameKey
      <3>2. x.from < r.from
        BY <3>1 DEF StreamInOrder
      <3>3. QED
        BY <1>1, <3>2
    <2>2. QED
      BY <2>1
  <1>3. PICK y \in settled : SameKey(y, r)
    BY <1>2 DEF UsageAccounted
  <1>4. PICK q \in usage : /\ PeriodOf(q) = PeriodOf(y)
                           /\ (y.how = "zero" => DeltaOf(q) = 0)
                           /\ (y.how = "sent" => InMeter(q))
    BY DEF SettledRecords
  <1>5. q.space = y.space /\ q.from = y.from
    BY <1>4 DEF PeriodOf
  <1>6. q = r
    BY <1>3, <1>5, RecordAtIs DEF SameKey
  <1>7. y.how \in {"sent", "zero"}
    BY <1>3 DEF SameKey
  <1>8. QED
    BY <1>4, <1>6, <1>7

\* A day of the month of a later day; only the first begins the month.
LEMMA DayOfMonth ==
    ASSUME NEW m \in MonthStarts, NEW u \in Time, StartOfMonth(u) = m,
           NEW n \in Nat, m + n * Day <= u
    PROVE  /\ m + n * Day \in Time /\ Midnight(m + n * Day)
           /\ StartOfMonth(m + n * Day) = m
           /\ (n # 0 => ~IsMonthStart(m + n * Day))
  <1>1. PICK t : t = m + n * Day
    OBVIOUS
  <1>2. m \in Nat /\ Midnight(m)
    BY MonthStartIs
  <1>3. t \in Nat /\ Midnight(t) /\ m <= t
    BY <1>1, <1>2, DayAfter
  <1>4. t \in Time
    <2>1. u \in Nat /\ u <= Horizon /\ Horizon \in Nat
      BY PeriodsAssumption DEF Time
    <2>2. QED
      BY <1>1, <1>3, <2>1 DEF Time
  <1>5. m <= StartOfMonth(t)
    BY <1>3, <1>4, MonthFacts
  <1>6. StartOfMonth(t) <= m
    BY <1>1, <1>4, MonthsGrow
  <1>7. StartOfMonth(t) = m
    BY <1>2, <1>4, <1>5, <1>6, MonthFacts
  <1>8. IsMonthStart(t) => n = 0
    <2>1. IsMonthStart(t) => t = m
      BY <1>4, <1>7, MonthFacts
    <2>2. Day \in Nat \ {0}
      BY PeriodsAssumption
    <2>3. n # 0 => n * Day >= Day
      BY <2>2
    <2>4. n * Day \in Nat
      BY <2>2
    <2>5. QED
      BY <1>1, <1>2, <2>1, <2>2, <2>3, <2>4
  <1>9. QED
    BY <1>1, <1>3, <1>4, <1>7, <1>8

\* Nothing was sent of a month before it began.
LEMMA NothingBefore ==
    ASSUME Known, NEW s, NEW m \in MonthStarts
    PROVE  TotalSent(s, m, m) = 0
  <1>1. SentBefore(s, m, m) = {}
    <2>1. ASSUME NEW e \in SentBefore(s, m, m) PROVE FALSE
      <3>1. e \in MeterEvent /\ StartOfMonth(e.from) = m /\ e.from < m
        BY <2>1 DEF Known, TypeInv, TypeOK, SentBefore, InMonth
      <3>2. e.from \in Time
        BY <3>1 DEF MeterEvent
      <3>3. m <= e.from /\ e.from \in Nat /\ m \in Nat
        BY <3>1, <3>2, MonthFacts, MonthStartIs DEF Time
      <3>4. QED
        BY <3>1, <3>3
    <2>2. QED
      BY <2>1
  <1> DEFINE f == [e \in SentBefore(s, m, m) |-> e.bytes]
  <1>2. DOMAIN f = {}
    BY <1>1
  <1>3. SumFunction(f) = 0
    <2> HIDE DEF f
    <2>1. QED
      BY <1>2, TotalEmpty
  <1>4. QED
    BY <1>3 DEF TotalSent

(* What was sent of a month up to a day is the month-to-date average of    *)
(* that day, by induction on the days.                                     *)
LEMMA SentIsAverage ==
    ASSUME WholeDays, Known, ValueInv, DeltaInv, MeterInv,
           NEW s, NEW m \in MonthStarts, NEW u \in Time, StartOfMonth(u) = m,
           \A t \in Time : (Midnight(t) /\ t <= u /\ StartOfMonth(t) = m) =>
              \E r \in usage : r.space = s /\ r.from = t /\ (InMeter(r) \/ DeltaOf(r) = 0)
    PROVE  \A n \in Nat : m + n * Day <= u =>
              \A r \in usage : (r.space = s /\ r.from = m + n * Day) =>
                 TotalSent(s, m, r.to) = AverageOf(r)
  <1> DEFINE Good(n) == m + n * Day <= u =>
                          \A r \in usage : (r.space = s /\ r.from = m + n * Day) =>
                             TotalSent(s, m, r.to) = AverageOf(r)
             P == {n \in Nat : Good(n)}
  <1>1. ASSUME NEW n \in Nat, m + n * Day <= u,
               NEW r \in usage, r.space = s, r.from = m + n * Day
        PROVE  /\ TotalSent(s, m, r.to) = TotalSent(s, m, r.from) + DeltaOf(r)
               /\ StartOfMonth(r.from) = m
               /\ (n # 0 => ~IsMonthStart(r.from))
    <2>1. /\ r.from \in Time /\ Midnight(r.from) /\ StartOfMonth(r.from) = m
          /\ (n # 0 => ~IsMonthStart(r.from))
      BY <1>1, DayOfMonth
    <2>2. r.from <= u
      BY <1>1
    <2>3. PICK q \in usage : q.space = s /\ q.from = r.from /\ (InMeter(q) \/ DeltaOf(q) = 0)
      BY <2>1, <2>2
    <2>4. q = r
      BY <1>1, <2>3, RecordAtIs
    <2>5. InMeter(r) \/ DeltaOf(r) = 0
      BY <2>3, <2>4
    <2>6. TotalSent(r.space, m, r.to) = TotalSent(r.space, m, r.from) + DeltaOf(r)
      BY <2>1, <2>5, DayAdds
    <2>7. QED
      BY <1>1, <2>1, <2>6
  <1>2. Good(0)
    <2> SUFFICES ASSUME m + 0 * Day <= u, NEW r \in usage, r.space = s, r.from = m + 0 * Day
                 PROVE  TotalSent(s, m, r.to) = AverageOf(r)
      OBVIOUS
    <2>1. TotalSent(s, m, r.to) = TotalSent(s, m, r.from) + DeltaOf(r)
      BY <1>1
    <2>2. r.from = m
      <3>1. m \in Nat /\ Day \in Nat
        BY MonthStartIs, PeriodsAssumption
      <3>2. QED
        BY <3>1
    <2>3. IsMonthStart(r.from)
      BY <2>2 DEF IsMonthStart
    <2>4. DeltaOf(r) = AverageOf(r) /\ AverageOf(r) \in Int
      BY <2>3, DeltaFirst, AverageType
    <2>5. TotalSent(s, m, r.from) = 0
      BY <2>2, NothingBefore
    <2>6. QED
      BY <2>1, <2>4, <2>5
  <1>3. ASSUME NEW n \in Nat, Good(n)
        PROVE  Good(n + 1)
    <2> SUFFICES ASSUME m + (n + 1) * Day <= u,
                        NEW r \in usage, r.space = s, r.from = m + (n + 1) * Day
                 PROVE  TotalSent(s, m, r.to) = AverageOf(r)
      OBVIOUS
    <2>1. n + 1 \in Nat /\ n + 1 # 0
      OBVIOUS
    <2>2. /\ TotalSent(s, m, r.to) = TotalSent(s, m, r.from) + DeltaOf(r)
          /\ ~IsMonthStart(r.from)
      BY <1>1, <2>1
    <2>3. /\ m + n * Day \in Nat /\ r.from = (m + n * Day) + Day
          /\ m + n * Day <= u
      <3>1. m \in Nat /\ Midnight(m) /\ Day \in Nat \ {0} /\ u \in Nat
        BY MonthStartIs, PeriodsAssumption DEF Time
      <3>2. m + n * Day \in Nat /\ m + (n + 1) * Day = (m + n * Day) + Day
        BY <3>1, DayAfter
      <3>3. QED
        BY <3>1, <3>2
    <2>4. /\ m + n * Day \in Time /\ Midnight(m + n * Day)
          /\ StartOfMonth(m + n * Day) = m
      BY <2>3, DayOfMonth
    <2>5. PICK q \in usage : q.space = s /\ q.from = m + n * Day
      BY <2>3, <2>4
    <2>6. q.to = r.from
      <3>1. q.to = q.from + Day
        BY RecordDay DEF Known, TypeInv
      <3>2. QED
        BY <2>3, <2>5, <3>1
    <2>7. TotalSent(s, m, q.to) = AverageOf(q)
      BY <1>3, <2>3, <2>5
    <2>8. DeltaOf(r) = AverageOf(r) - AverageOf(q)
      BY <2>2, <2>5, <2>6, DeltaNext
    <2>9. AverageOf(r) \in Int /\ AverageOf(q) \in Int
      BY AverageType
    <2>10. QED
      BY <2>2, <2>6, <2>7, <2>8, <2>9
  <1>4. P \in SUBSET Nat /\ 0 \in P
    BY <1>2
  <1>5. \A n \in Nat : n \in P => n + 1 \in P
    BY <1>3
  <1>6. P = Nat
    <2> HIDE DEF P
    <2>1. QED
      BY <1>4, <1>5, Induction
  <1>7. \A n \in Nat : Good(n)
    BY <1>6
  <1>8. QED
    BY <1>7

(***************************************************************************)
(* Stripe's meter adds up: when every day of a month has its record and    *)
(* was reported, the events of the month total the average of the last     *)
(* record, whatever was retried, duplicated or handled concurrently        *)
(* (reportUsage, calculateDeltaMetrics, createIdempotencyKey).             *)
(***************************************************************************)
LEMMA MeterAdds ==
    ASSUME WholeDays, Known, ValueInv, DeltaInv, MeterInv, UsageAccounted
    PROVE  MeterTotalIsAverage
  <1> SUFFICES ASSUME NEW s \in Space, NEW m \in MonthStarts,
                      NEW x \in InMonth(settled, s, m),
                      \A y \in InMonth(settled, s, m) : y.from <= x.from /\ y.how \in {"sent", "zero"},
                      NoGap(s, x.to), report = Idle
               PROVE  SumFunction([e \in InMonth(meter, s, m) |-> e.bytes])
                        = Average(x.usage, x.from, x.to)
    BY DEF MeterTotalIsAverage
  <1>1. x \in settled /\ x.space = s /\ StartOfMonth(x.from) = m
    BY DEF InMonth
  <1>2. PICK z \in usage : PeriodOf(z) = PeriodOf(x) /\ z.usage = x.usage
    BY <1>1 DEF MeterInv, SettledRecords
  <1>3. z.space = s /\ z.from = x.from /\ z.to = x.to
    BY <1>1, <1>2 DEF PeriodOf
  <1>4. /\ x.from \in Time /\ x.to \in Time /\ x.from \in Nat /\ x.to \in Nat
        /\ x.to = x.from + Day
        /\ Midnight(x.from) /\ Day \in Nat \ {0}
    BY <1>3, RecordDay, PeriodsAssumption DEF Known, TypeInv
  <1>5. ASSUME NEW t \in Time, Midnight(t), t <= x.from, StartOfMonth(t) = m
        PROVE  \E r \in usage : r.space = s /\ r.from = t /\ (InMeter(r) \/ DeltaOf(r) = 0)
    <2>1. t % Day = 0 /\ t \in Nat
      BY <1>5, MidnightIs
    <2>2. SameMonth(t, x.to - 1) /\ t < x.to
      <3>1. StartOfMonth(x.to - 1) = m
        BY <1>1, <1>4, LastOfDay
      <3>2. QED
        BY <1>4, <1>5, <2>1, <3>1 DEF SameMonth
    <2>3. PICK r \in usage : r.space = s /\ r.from = t
      BY <2>1, <2>2 DEF NoGap
    <2>4. \A y \in settled : (y.space = x.space /\ y.from = r.from) => y.how \in {"sent", "zero"}
      BY <1>1, <1>5, <2>3 DEF InMonth
    <2>5. InMeter(r) \/ DeltaOf(r) = 0
      BY <1>1, <1>5, <2>3, <2>4, DaySettled DEF MeterInv
    <2>6. QED
      BY <2>3, <2>5
  <1>6. PICK n \in Nat : x.from = m + n * Day
    <2>1. m \in Nat /\ Midnight(m) /\ m <= x.from
      BY <1>1, <1>4, MonthFacts, MonthStartIs
    <2>2. QED
      BY <1>4, <2>1, DaysBetween
  <1>7. TotalSent(s, m, x.to) = AverageOf(z)
    <2>1. \A k \in Nat : m + k * Day <= x.from =>
              \A r \in usage : (r.space = s /\ r.from = m + k * Day) =>
                 TotalSent(s, m, r.to) = AverageOf(r)
      <3>1. PICK u \in Time : u = x.from /\ StartOfMonth(u) = m
        BY <1>1, <1>4
      <3>2. \A t \in Time : (Midnight(t) /\ t <= u /\ StartOfMonth(t) = m) =>
              \E r \in usage : r.space = s /\ r.from = t /\ (InMeter(r) \/ DeltaOf(r) = 0)
        BY <1>5, <3>1
      <3>3. \A k \in Nat : m + k * Day <= u =>
              \A r \in usage : (r.space = s /\ r.from = m + k * Day) =>
                 TotalSent(s, m, r.to) = AverageOf(r)
        BY <3>1, <3>2, SentIsAverage
      <3>4. QED
        BY <3>1, <3>3
    <2>2. m + n * Day <= x.from
      BY <1>4, <1>6
    <2>3. TotalSent(s, m, z.to) = AverageOf(z)
      BY <1>3, <1>6, <2>1, <2>2
    <2>4. QED
      BY <1>3, <2>3
  <1>8. SentBefore(s, m, x.to) = InMonth(meter, s, m)
    <2>1. ASSUME NEW e \in InMonth(meter, s, m) PROVE e.from < x.to
      <3>1. e \in meter /\ e.space = s /\ StartOfMonth(e.from) = m
        BY <2>1 DEF InMonth
      <3>2. PICK y \in settled : PeriodOf(y) = PeriodOf(e)
        BY <3>1 DEF MeterInv, MeterSettled
      <3>3. y.space = s /\ y.from = e.from
        BY <3>1, <3>2 DEF PeriodOf
      <3>4. y \in InMonth(settled, s, m)
        BY <3>1, <3>3 DEF InMonth
      <3>5. e.from <= x.from
        BY <3>3, <3>4
      <3>6. e.from \in Nat
        BY <3>1 DEF Known, TypeInv, TypeOK, MeterEvent, Time
      <3>7. QED
        BY <1>4, <3>5, <3>6
    <2>2. QED
      BY <2>1 DEF SentBefore
  <1>9. AverageOf(z) = Average(x.usage, x.from, x.to)
    BY <1>2, <1>3 DEF AverageOf
  <1>10. QED
    BY <1>7, <1>8, <1>9 DEF TotalSent

THEOREM MeterAddsUp == ASSUME ExactAssumption PROVE Spec => []MeterTotalIsAverage
  <1>1. Known /\ ValueInv /\ DeltaInv /\ MeterInv /\ ReportingInv => MeterTotalIsAverage
    BY MeterAdds DEF ExactAssumption, ReportingInv
  <1>2. QED
    BY <1>1, MeterInvHolds, ReportingInvHolds, PTL
=============================================================================
