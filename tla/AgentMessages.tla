----------------------------- MODULE AgentMessages -----------------------------
(***************************************************************************)
(* Agent messages: the requests the service gets and the answers it gives. *)
(* A write puts the message in a bucket, and an index item for each of its *)
(* invocations and receipts, all at once; next to that it looks up the     *)
(* invocations of its receipts and puts a record for each on the UCAN      *)
(* stream. Two consumers take the stream in batches: one counts aggregates *)
(* in the metrics of the Filecoin pipeline, the other puts the diffs of    *)
(* receipts of the old store protocol. A batch that fails is split in two  *)
(* and taken again, until it passes. No write waits for another.           *)
(***************************************************************************)
EXTENDS Integers, FiniteSets, SequencesExt

CONSTANTS
    Task,       \* numbered; an invocation has the identifier of its task
    Ability,    \* what each task is: "offer", "accept" or "store"
    Oversize,   \* kinds of record, by type and task, over the size the stream takes
    Batches,    \* sets of sendings of messages, of which a behaviour has those of one
    Provider,   \* providers of the spaces of the store protocol
    BatchSize,  \* most records in a batch of the stream
    Limit,      \* most writes under way at once
    MaxFaults   \* bound on the failures injected in a behaviour

\* A sending of a message: its number in the order of identifiers, its invocations
\* and receipts, and which sending it is.
Sendings == UNION Batches

ASSUME AgentAssumption ==
    /\ Task \subseteq Nat
    /\ Ability \in [Task -> {"offer", "accept", "store"}]
    /\ Oversize \subseteq {"workflow", "receipt"} \X Task
    /\ \A w \in Sendings :
         /\ w.id \in Nat \ {0} /\ w.nth \in Nat
         /\ w.in \subseteq Task /\ w.out \subseteq [task : Task, ok : BOOLEAN]
         /\ IsFiniteSet(w.in) /\ IsFiniteSet(w.out)
    /\ BatchSize \in Nat \ {0} /\ Limit \in Nat /\ MaxFaults \in Nat

VARIABLES
    bucket,    \* the messages in the bucket, by number
    index,     \* the agent index: items by task and kind, in the order of messages
    stream,    \* the records of the UCAN stream, never removed
    job,       \* the write of each sending
    metrics,   \* the consumer that counts aggregates
    totals,    \* what it counted
    billed,    \* records of the stream that the billing consumer has passed
    diffs,     \* the space diff table, by its key
    rejected,  \* records that PutRecords reported as failed
    faults     \* failures injected so far

store == <<bucket, index>>
consumers == <<metrics, totals, billed, diffs>>
vars == <<store, stream, job, consumers, rejected, faults>>

\* Slip: the invocations of a message that has receipts are not indexed.
CommandsOfOne(w) ==
    {[to |-> "bucket", task |-> 0]}
      \union {[to |-> "in", task |-> t] : t \in {t \in w.in : w.out = {}}}
      \union {[to |-> "out", task |-> r.task] : r \in w.out}

Commands(w) ==
    {[to |-> "bucket", task |-> 0]}
      \union {[to |-> "in", task |-> t] : t \in w.in}
      \union {[to |-> "out", task |-> r.task] : r \in w.out}

\* The time a record has is that of its sending.
Entries(w) ==
    {[type |-> "workflow", task |-> t, ok |-> FALSE, message |-> w.id, ts |-> w.nth] : t \in w.in}
      \union {[type |-> "receipt", task |-> r.task, ok |-> r.ok, message |-> w.id, ts |-> w.nth] :
                r \in w.out}

TooLarge(e) == <<e.type, e.task>> \in Oversize

\* Slip: what comes after a record over the size is left out too.
RecordsUpToLarge(w) ==
    {e \in Entries(w) : \A x \in Entries(w) : TooLarge(x) => e.task <= x.task /\ e # x}

\* A record over the size is skipped, and the others are put.
RecordsOf(w) == {e \in Entries(w) : ~TooLarge(e)}

Record == UNION {RecordsOf(w) : w \in Sendings}

\* A consumer that has passed at records, and takes none.
Idle == [at |-> 0, end |-> 0, left |-> {}]

Init ==
    /\ bucket = {} /\ index = {} /\ stream = <<>>
    /\ job = [w \in Sendings |-> [pc |-> "new", left |-> {}, broken |-> FALSE,
                                  log |-> "none", find |-> {}, entry |-> 0]]
    /\ metrics = Idle /\ billed = 0
    /\ totals = [offer |-> 0, accept |-> 0] /\ diffs = {}
    /\ rejected = {}
    /\ faults = 0

Fault == faults < MaxFaults /\ faults' = faults + 1

-----------------------------------------------------------------------------
\* Of several messages with a task, the first in the order of the index is taken.
FirstOf(items, kind, t) ==
    LET found == {i \in items : i.kind = kind /\ i.task = t}
    IN  IF found = {} THEN 0 ELSE Min({i.message : i \in found})

First(kind, t) == FirstOf(index, kind, t)

Readable(kind, t) == First(kind, t) \in bucket

\* A receipt is got after its invocation, and not without it.
ReceiptReadable(t) == Readable("in", t) /\ Readable("out", t)

\* Writing to the store and to the stream are begun together. A message is sent
\* again once it was answered.
Write(w) ==
    /\ job[w].pc = "new"
    /\ \E b \in Batches :
         /\ w \in b /\ \A v \in Sendings : job[v].pc # "new" => v \in b
         /\ \A v \in b : v.id = w.id /\ v.nth < w.nth => job[v].pc \in {"ok", "error"}
    /\ Cardinality({v \in Sendings : job[v].pc = "open"}) < Limit
    /\ job' = [job EXCEPT ![w] = [@ EXCEPT !.pc = "open", !.left = Commands(w), !.log = "find",
                                           !.find = {r.task : r \in w.out} \ w.in]]
    /\ UNCHANGED <<store, stream, consumers, rejected, faults>>

\* The commands go on when the write is already answered.
Put(w) ==
    \E c \in job[w].left :
        /\ job' = [job EXCEPT ![w].left = @ \ {c}]
        /\ IF c.to = "bucket" THEN bucket' = bucket \union {w.id} /\ UNCHANGED index
           ELSE /\ index' = index \union {[kind |-> c.to, task |-> c.task, message |-> w.id]}
                /\ UNCHANGED bucket
        /\ UNCHANGED <<stream, consumers, rejected, faults>>

PutFails(w) ==
    /\ Fault
    /\ \E c \in job[w].left : job' = [job EXCEPT ![w].left = @ \ {c}, ![w].broken = TRUE]
    /\ UNCHANGED <<store, stream, consumers, rejected>>

\* A receipt's invocation that is not in the message itself is looked for.
LookUp(w, items) ==
    /\ job[w].log = "find" /\ job[w].find # {}
    /\ LET entry == FirstOf(items, "in", Min(job[w].find))
       IN  job' = [job EXCEPT ![w].entry = entry, ![w].log = IF entry = 0 THEN "failed" ELSE "read"]
    /\ UNCHANGED <<store, stream, consumers, rejected>>

Resolve(w) == LookUp(w, index) /\ UNCHANGED faults

\* The query does not ask to be consistent: it may miss items of the index.
ResolveLate(w) == Fault /\ \E items \in SUBSET index : LookUp(w, items)

ReadMessage(w) ==
    /\ job[w].log = "read"
    /\ job' = [job EXCEPT ![w].entry = 0,
                          ![w].log = IF job[w].entry \in bucket THEN "find" ELSE "failed",
                          ![w].find = @ \ {Min(@)}]
    /\ UNCHANGED <<store, stream, consumers, rejected, faults>>

Logging(w) == job[w].log = "find" /\ job[w].find = {}

\* The records of a message are in the order of its tasks, an invocation before its receipt.
InOrder(records) ==
    \A i, j \in DOMAIN records :
        i < j => \/ records[i].task < records[j].task
                 \/ records[i].task = records[j].task /\ records[i].type = "workflow"

\* The answer of PutRecords is not looked at: some records may have been rejected.
Logged(w, lost) ==
    /\ \E records \in SetToSeqs(RecordsOf(w) \ lost) : InOrder(records) /\ stream' = stream \o records
    /\ rejected' = rejected \union lost
    /\ job' = [job EXCEPT ![w].log = "done"]
    /\ UNCHANGED <<store, consumers>>

PutRecords(w) == Logging(w) /\ Logged(w, {}) /\ UNCHANGED faults

RecordsRejected(w) ==
    Logging(w) /\ Fault /\ \E lost \in SUBSET RecordsOf(w) \ {{}} : Logged(w, lost)

PutRecordsFails(w) ==
    /\ Logging(w)
    /\ Fault
    /\ job' = [job EXCEPT ![w].log = "failed"]
    /\ UNCHANGED <<store, stream, consumers, rejected>>

\* Slip: the answer does not wait for the store.
SettledOnLog(w) == job[w].log \in {"done", "failed"}

\* An answer waits for all commands or for one that failed, and then for the stream.
Settled(w) == job[w].broken \/ (job[w].left = {} /\ job[w].log \in {"done", "failed"})

AnswerWrite(w) ==
    /\ job[w].pc = "open"
    /\ Settled(w)
    /\ job' = [job EXCEPT ![w].pc = IF job[w].broken \/ job[w].log = "failed" THEN "error" ELSE "ok"]
    /\ UNCHANGED <<store, stream, consumers, rejected, faults>>

\* The process ends with what it had under way.
Die(w) ==
    /\ job[w].pc = "open"
    /\ Fault
    /\ job' = [job EXCEPT ![w] = [@ EXCEPT !.pc = "error", !.left = {}, !.find = {}, !.entry = 0,
                                           !.log = IF job[w].log = "done" THEN "done" ELSE "failed"]]
    /\ UNCHANGED <<store, stream, consumers, rejected>>

-----------------------------------------------------------------------------
\* What a consumer has in hand: the records from at to end, and what is left to do.
BatchOf(c) == {stream[i] : i \in c.at + 1 .. c.end}

Steps == {"offer", "accept"}

\* A batch that fails is split in two, and its first half is taken again.
Split(c) ==
    [c EXCEPT !.end = IF c.end - c.at > 1 THEN c.at + (c.end - c.at) \div 2 ELSE c.end,
              !.left = Steps]

OkReceipts(records, ability) ==
    {r \in records : r.type = "receipt" /\ r.ok /\ Ability[r.task] = ability}

TakeMetrics ==
    /\ metrics.at = metrics.end
    /\ \E e \in metrics.at + 1 .. Len(stream) :
         e <= metrics.at + BatchSize /\ metrics' = [metrics EXCEPT !.end = e, !.left = Steps]
    /\ UNCHANGED <<store, stream, job, totals, billed, diffs, rejected, faults>>

\* Slip: the records of invocations count as well.
OffersOfAny(records) == {r \in records : Ability[r.task] = "offer"}

\* Offers are gathered by message: of several in one message, the last stands for all.
Offers(records) ==
    LET offers == OkReceipts(records, "offer")
    IN  {r \in offers : \A q \in offers : q.message = r.message => q.task <= r.task}

\* The pieces of an offer are read from the message of its invocation.
OffersFrom(items) ==
    /\ "offer" \in metrics.left
    /\ \A r \in Offers(BatchOf(metrics)) : FirstOf(items, "in", r.task) \in bucket
    /\ totals' = [totals EXCEPT !.offer = @ + Cardinality(Offers(BatchOf(metrics)))]
    /\ metrics' = [metrics EXCEPT !.left = @ \ {"offer"}]
    /\ UNCHANGED <<store, stream, job, billed, diffs, rejected>>

CountOffers == OffersFrom(index) /\ UNCHANGED faults

\* A query that misses items may pass over a message that is not there.
CountOffersLate == Fault /\ \E items \in SUBSET index : OffersFrom(items)

CountAccepts ==
    /\ "accept" \in metrics.left
    /\ totals' = [totals EXCEPT !.accept = @ + Cardinality(OkReceipts(BatchOf(metrics), "accept"))]
    /\ metrics' = [metrics EXCEPT !.left = @ \ {"accept"}]
    /\ UNCHANGED <<store, stream, job, billed, diffs, rejected, faults>>

EndMetrics ==
    /\ metrics.at < metrics.end /\ metrics.left = {}
    /\ metrics' = [metrics EXCEPT !.at = metrics.end]
    /\ UNCHANGED <<store, stream, job, totals, billed, diffs, rejected, faults>>

\* An offer whose message is not found fails the batch, whatever was counted of it.
OfferNotFound ==
    /\ "offer" \in metrics.left
    /\ \E r \in Offers(BatchOf(metrics)) : ~Readable("in", r.task)
    /\ metrics' = Split(metrics)
    /\ UNCHANGED <<store, stream, job, totals, billed, diffs, rejected, faults>>

MetricsFails ==
    /\ metrics.at < metrics.end
    /\ Fault
    /\ metrics' = Split(metrics)
    /\ UNCHANGED <<store, stream, job, totals, billed, diffs, rejected>>

\* Slip: the key of a diff does not tell its receipts apart.
DiffOfTask(r, p) == [provider |-> p, cause |-> r.task, at |-> <<0, 0>>]

\* A diff is kept under the time of its receipt and its cause.
Diff(r, p) == [provider |-> p, cause |-> r.task, at |-> <<r.message, r.ts>>]

DiffsOf(records) == {Diff(r, p) : r \in OkReceipts(records, "store"), p \in Provider}

\* The billing consumer only puts; a batch that fails is taken again in batches of
\* any size, and any part of its diffs may be in the table.
BillingBatch == {{stream[i] : i \in billed + 1 .. e} :
                    e \in {e \in billed + 1 .. Len(stream) : e <= billed + BatchSize}}

PutDiffs ==
    \E batch \in BillingBatch :
        /\ diffs' = diffs \union DiffsOf(batch)
        /\ billed' = billed + Cardinality(batch)
        /\ UNCHANGED <<store, stream, job, metrics, totals, rejected, faults>>

BillingFails ==
    /\ Fault
    /\ \E batch \in BillingBatch : \E some \in SUBSET DiffsOf(batch) \ {{}} :
         diffs' = diffs \union some
    /\ UNCHANGED <<store, stream, job, metrics, totals, billed, rejected>>

-----------------------------------------------------------------------------
Progress(w) ==
    Put(w) \/ Resolve(w) \/ ReadMessage(w) \/ PutRecords(w) \/ AnswerWrite(w)

Metrics == TakeMetrics \/ CountOffers \/ CountAccepts \/ EndMetrics

Next ==
    \/ \E w \in Sendings :
         \/ Write(w) \/ Progress(w)
         \/ PutFails(w) \/ ResolveLate(w) \/ RecordsRejected(w) \/ PutRecordsFails(w) \/ Die(w)
    \/ Metrics \/ CountOffersLate \/ OfferNotFound \/ MetricsFails
    \/ PutDiffs \/ BillingFails

Spec == Init /\ [][Next]_vars

\* A write that is begun goes on, and the stream is served.
Fairness ==
    /\ WF_vars(\E w \in Sendings : Progress(w))
    /\ WF_vars(Metrics \/ OfferNotFound)
    /\ WF_vars(PutDiffs)

FairSpec == Spec /\ Fairness
=============================================================================
