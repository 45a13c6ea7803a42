---------------------------- MODULE EgressBilling ----------------------------
(***************************************************************************)
(* Egress billing: usage/record puts an event on the egress traffic queue; *)
(* the queue's handler takes batches of messages and for each event saves  *)
(* it (a conditional put), looks the customer up, reports it to Stripe and *)
(* adds it to the monthly total of its customer and space.                 *)
(*                                                                         *)
(* A call that fails only fails its record: the handler catches the error, *)
(* notes the message in batchItemFailures and goes on. The event source is *)
(* not configured to report batch item failures, so an invocation that     *)
(* returns has all its messages deleted. An invocation that dies has all   *)
(* of them received again, or dead-lettered after MaxReceive receives.     *)
(***************************************************************************)
EXTENDS BillingPeriods, FiniteSets

CONSTANTS
    Events,      \* the egress events the gateway may report
    Worker,      \* concurrent invocations of the queue handler
    Accounts,    \* customers in the customer table that have a Stripe account
    NoAccounts,  \* customers in the customer table that have none
    StripeOff,   \* SKIP_STRIPE_EGRESS_TRACKING
    BatchSize,   \* most messages in a batch
    MaxCopies,   \* for each event, bound on the messages with it
    MaxReceive,  \* maxReceiveCount of the queue
    Retries,     \* how often p-retry makes a call again that failed
    MaxFaults,   \* bound on the failures injected in a behaviour
    Faults       \* the kinds of failure considered, a subset of FaultKind

FaultKind == {"call", "answer", "crash"}

\* The key of an event is made of its space, resource, servedAt and cause; the
\* cause alone (a UCAN invocation) tells events apart.
ASSUME EgressAssumption ==
    /\ \A e \in Events : e.at \in Time /\ e.bytes \in Nat
    /\ \A e, f \in Events : e.cause = f.cause => e = f
    /\ Accounts \intersect NoAccounts = {}
    /\ StripeOff \in BOOLEAN
    /\ BatchSize \in Nat \ {0}
    /\ MaxCopies \in [Events -> Nat]
    /\ MaxReceive \in Nat \ {0}
    /\ Retries \in Nat
    /\ MaxFaults \in Nat
    /\ Faults \subseteq FaultKind

VARIABLES
    sent,     \* messages accepted by the queue so far
    queue,    \* visible messages
    worker,   \* the handler invocations in progress
    dlq,      \* messages in the dead letter queue
    raw,      \* the egress traffic table: events saved
    meter,    \* Stripe meter events
    monthly,  \* the monthly table: totals by customer, month and space
    failed,   \* events whose record was put in batchItemFailures
    faults    \* failures injected so far

vars == <<sent, queue, worker, dlq, raw, meter, monthly, failed, faults>>

\* Copies of an event are distinct messages with the same body.
Message == [event : Events, copy : Nat, receives : 0..MaxReceive]

MonthKey == [customer : {e.customer : e \in Events}, month : {StartOfMonth(e.at) : e \in Events},
             space : {e.space : e \in Events}]

KeyOf(e) == [customer |-> e.customer, month |-> StartOfMonth(e.at), space |-> e.space]

Idle == [pc |-> "idle"]

\* An invocation about to take the next record of its batch, and one at work on
\* a record whose event it has saved, or found saved already.
BetweenRecords == [pc : {"record"}, batch : SUBSET Message, left : SUBSET Message]
AtRecord ==
    [pc : {"customer", "stripe", "increment"}, batch : SUBSET Message, left : SUBSET Message,
     event : Events, duplicate : BOOLEAN]

Init ==
    /\ sent = {} /\ queue = {} /\ dlq = {}
    /\ worker = [w \in Worker |-> Idle]
    /\ raw = {} /\ meter = {}
    /\ monthly = [k \in MonthKey |-> [bytes |-> 0, eventCount |-> 0]]
    /\ failed = {}
    /\ faults = 0

-----------------------------------------------------------------------------
\* usage/record. A gateway that retries, or a queue that delivers twice, makes
\* another copy.
Record(e, c) ==
    /\ [event |-> e, copy |-> c] \notin sent
    /\ \A k \in 1..(c - 1) : [event |-> e, copy |-> k] \in sent
    /\ sent' = sent \union {[event |-> e, copy |-> c]}
    /\ queue' = queue \union {[event |-> e, copy |-> c, receives |-> 0]}
    /\ UNCHANGED <<worker, dlq, raw, meter, monthly, failed, faults>>

Receive(w, ms) ==
    LET batch == {[m EXCEPT !.receives = @ + 1] : m \in ms}
    IN  /\ worker[w] = Idle
        /\ ms # {} /\ Cardinality(ms) <= BatchSize
        /\ queue' = queue \ ms
        /\ worker' = [worker EXCEPT ![w] = [pc |-> "record", batch |-> batch, left |-> batch]]
        /\ UNCHANGED <<sent, dlq, raw, meter, monthly, failed, faults>>

NextRecord(job, left) == [pc |-> "record", batch |-> job.batch, left |-> left]

\* The put is conditional on the key of the event not being there.
Duplicate(e) == e \in raw

Saved(w, m, duplicate) ==
    /\ raw' = raw \union {m.event}
    /\ worker' = [worker EXCEPT ![w] =
         [pc |-> "customer", batch |-> worker[w].batch, left |-> worker[w].left \ {m},
          event |-> m.event, duplicate |-> duplicate]]

SaveEvent(w) ==
    /\ worker[w].pc = "record"
    /\ \E m \in worker[w].left : Saved(w, m, Duplicate(m.event))
    /\ UNCHANGED <<sent, queue, dlq, meter, monthly, failed, faults>>

\* Slip: a duplicate is added to the monthly total again.
BilledThenCounted(job) == [job EXCEPT !.pc = "increment"]

\* After Stripe: a duplicate is not added to the monthly total again.
Billed(job) ==
    IF job.duplicate THEN NextRecord(job, job.left) ELSE [job EXCEPT !.pc = "increment"]

\* The customer is not in the customer table.
Unknown(e) == e.customer \notin Accounts \union NoAccounts

\* Slip: a duplicate is not reported again.
LookedUpOnce(job) ==
    IF job.event.customer \in Accounts /\ ~StripeOff /\ ~job.duplicate
    THEN [job EXCEPT !.pc = "stripe"]
    ELSE Billed(job)

\* The record of an unknown customer fails. When the customer has no Stripe account,
\* or reporting is off, the event is not reported. A duplicate is: it may be the
\* retry of an event that was not.
LookedUp(job) ==
    IF Unknown(job.event) THEN NextRecord(job, job.left)
    ELSE IF job.event.customer \in Accounts /\ ~StripeOff THEN [job EXCEPT !.pc = "stripe"]
    ELSE Billed(job)

LookupCustomer(w) ==
    /\ worker[w].pc = "customer"
    /\ worker' = [worker EXCEPT ![w] = LookedUp(worker[w])]
    /\ failed' = failed \union {e \in {worker[w].event} : Unknown(e)}
    /\ UNCHANGED <<sent, queue, dlq, raw, meter, monthly, faults>>

\* recordBillingMeterEvent: the idempotency key is made of every field of the
\* event but its size.
SendMeterEvent(w) ==
    /\ worker[w].pc = "stripe"
    /\ meter' = meter \union {worker[w].event}
    /\ worker' = [worker EXCEPT ![w] = Billed(worker[w])]
    /\ UNCHANGED <<sent, queue, dlq, raw, monthly, failed, faults>>

\* An atomic ADD to the total of the event's customer, month and space, which
\* takes effect each time it is sent.
Added(total, e, times) ==
    [bytes |-> total.bytes + times * e.bytes, eventCount |-> total.eventCount + times]

Counts(e, times) == monthly' = [monthly EXCEPT ![KeyOf(e)] = Added(@, e, times)]

Increment(w) ==
    LET job == worker[w]
    IN  /\ job.pc = "increment"
        /\ Counts(job.event, 1)
        /\ worker' = [worker EXCEPT ![w] = NextRecord(job, job.left)]
        /\ UNCHANGED <<sent, queue, dlq, raw, meter, failed, faults>>

\* The batch is done and the invocation succeeds, whatever batchItemFailures it
\* returns: the queue deletes its messages.
Return(w) ==
    /\ worker[w].pc = "record"
    /\ worker[w].left = {}
    /\ worker' = [worker EXCEPT ![w] = Idle]
    /\ UNCHANGED <<sent, queue, dlq, raw, meter, monthly, failed, faults>>

\* The next call for a record fails, each time it is tried: the record is put in
\* batchItemFailures. Any of the tries may have taken effect all the same.
CallFails(w) ==
    LET job == worker[w]
    IN  /\ "call" \in Faults
        /\ faults < MaxFaults
        /\ \/ /\ job.pc = "record"
              /\ \E m \in job.left :
                   /\ raw' \in {raw, raw \union {m.event}}
                   /\ failed' = failed \union {m.event}
                   /\ worker' = [worker EXCEPT ![w] = NextRecord(job, job.left \ {m})]
              /\ UNCHANGED <<meter, monthly>>
           \/ /\ job.pc \in {"customer", "stripe", "increment"}
              /\ \/ UNCHANGED <<meter, monthly>>
                 \/ /\ job.pc = "stripe"
                    /\ meter' = meter \union {job.event} /\ UNCHANGED monthly
                 \/ /\ job.pc = "increment"
                    /\ \E times \in 1..(Retries + 1) : Counts(job.event, times)
                    /\ UNCHANGED meter
              /\ failed' = failed \union {job.event}
              /\ worker' = [worker EXCEPT ![w] = NextRecord(job, job.left)]
              /\ UNCHANGED raw
        /\ faults' = faults + 1
        /\ UNCHANGED <<sent, queue, dlq>>

\* Answers to a put or to an increment are lost and p-retry sends the command
\* again, until it has one: the put finds the event there, the ADD is applied each
\* time. (A meter event sent again is the same one.)
Resend(w) ==
    LET job == worker[w]
    IN  /\ "answer" \in Faults
        /\ faults < MaxFaults /\ Retries > 0
        /\ \/ /\ job.pc = "record"
              /\ \E m \in job.left : Saved(w, m, TRUE)
              /\ UNCHANGED monthly
           \/ /\ job.pc = "increment"
              /\ \E again \in 1..Retries : Counts(job.event, 1 + again)
              /\ worker' = [worker EXCEPT ![w] = NextRecord(job, job.left)]
              /\ UNCHANGED raw
        /\ faults' = faults + 1
        /\ UNCHANGED <<sent, queue, dlq, meter, failed>>

\* Slip: only the messages not yet come to are received again.
ReturnedLeft(job) == {m \in job.left : m.receives < MaxReceive}

\* The messages of a dead invocation that are received again.
Returned(job) == {m \in job.batch : m.receives < MaxReceive}

\* The invocation crashes or times out at any step.
Crash(w) ==
    LET job == worker[w]
    IN  /\ "crash" \in Faults
        /\ faults < MaxFaults
        /\ job # Idle
        /\ queue' = queue \union Returned(job)
        /\ dlq' = dlq \union {m \in job.batch : m.receives >= MaxReceive}
        /\ worker' = [worker EXCEPT ![w] = Idle]
        /\ faults' = faults + 1
        /\ UNCHANGED <<sent, raw, meter, monthly, failed>>

-----------------------------------------------------------------------------
Gateway == \E e \in Events : \E c \in 1..MaxCopies[e] : Record(e, c)

Handler(w) ==
    \/ \E ms \in SUBSET queue : Receive(w, ms)
    \/ SaveEvent(w) \/ LookupCustomer(w) \/ SendMeterEvent(w) \/ Increment(w) \/ Return(w)

Next == Gateway \/ \E w \in Worker : Handler(w) \/ CallFails(w) \/ Resend(w) \/ Crash(w)

Spec == Init /\ [][Next]_vars

\* The event source polls the queue and the invocations run.
FairSpec == Spec /\ \A w \in Worker : WF_vars(Handler(w))

-----------------------------------------------------------------------------
TypeOK ==
    /\ sent \subseteq [event : Events, copy : Nat]
    /\ queue \subseteq {m \in Message : m.receives < MaxReceive}
    /\ worker \in [Worker -> BetweenRecords \union AtRecord \union {Idle}]
    /\ dlq \subseteq Message
    /\ raw \subseteq Events
    /\ meter \subseteq Events
    /\ monthly \in [MonthKey -> [bytes : Nat, eventCount : Nat]]
    /\ failed \subseteq Events
    /\ faults \in 0..MaxFaults

\* A message with the event is visible or in the batch of an invocation.
InProgress(e) ==
    \/ \E m \in queue : m.event = e
    \/ \E w \in Worker : worker[w] # Idle /\ \E m \in worker[w].batch : m.event = e

\* The event is saved and, if its customer is one Stripe bills, reported.
Settled(e) == e \in raw /\ (e.customer \in Accounts /\ ~StripeOff => e \in meter)

\* A message with the event is in the dead letter queue.
DeadLettered(e) == \E d \in dlq : d.event = e

(***************************************************************************)
(* No event is lost between the gateway and Stripe: until it is saved and  *)
(* reported, a message with it is in the queue, in a batch or dead-        *)
(* lettered, or its record was noted as failed (egress-traffic-queue.js    *)
(* reports a duplicate again "since this can be a retry and not            *)
(* duplication").                                                          *)
(***************************************************************************)
NoEventLost ==
    \A m \in sent :
        \/ InProgress(m.event) \/ Settled(m.event)
        \/ DeadLettered(m.event) \/ m.event \in failed

(***************************************************************************)
(* Every event the gateway reports is eventually settled or dead-lettered, *)
(* or its record is noted as failed.                                       *)
(***************************************************************************)
EventsEnd ==
    \A e \in Events :
        InProgress(e) ~> (Settled(e) \/ DeadLettered(e) \/ e \in failed)
=============================================================================
