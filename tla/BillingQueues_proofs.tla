------------------------- MODULE BillingQueues_proofs -------------------------
(***************************************************************************)
(* Theorems about what is on two queues of billing, the egress events and  *)
(* the customers whose spaces are to be billed, and what their handlers do *)
(* with it, and about the tools that compact the diffs of a space and      *)
(* remove its duplicates, for every set of events, customers, spaces,      *)
(* invocations, blobs and runs, every page size and every bound.           *)
(***************************************************************************)
EXTENDS EgressBillingProperties, BillingFanout, DiffToolsProperties, DataLemmas

-----------------------------------------------------------------------------
(* Egress billing.                                                         *)

(* What an invocation is, by its step. *)
LEMMA JobCases ==
    ASSUME TypeOK, NEW w \in Worker, worker[w] # Idle
    PROVE  \/ worker[w] \in BetweenRecords /\ worker[w].pc = "record"
           \/ worker[w] \in AtRecord /\ worker[w].pc # "record"
  BY DEF TypeOK, BetweenRecords, AtRecord

LEMMA IdleHasNoStep ==
    ASSUME NEW w, worker[w].pc # "idle"
    PROVE  worker[w] # Idle
  BY DEF Idle

(* The steps after a record, and after Stripe, are well typed. *)
LEMMA NextRecordType ==
    ASSUME NEW job, job.batch \in SUBSET Message, NEW left \in SUBSET Message
    PROVE  /\ NextRecord(job, left) \in BetweenRecords
           /\ NextRecord(job, left).pc = "record"
           /\ NextRecord(job, left).batch = job.batch
           /\ NextRecord(job, left).left = left
  BY DEF NextRecord, BetweenRecords

LEMMA BilledType ==
    ASSUME NEW job \in AtRecord
    PROVE  \/ Billed(job) = NextRecord(job, job.left)
           \/ /\ Billed(job) \in AtRecord /\ Billed(job).pc = "increment"
              /\ Billed(job).batch = job.batch /\ Billed(job).left = job.left
              /\ Billed(job).event = job.event
  BY DEF Billed, AtRecord

LEMMA LookedUpType ==
    ASSUME NEW job \in AtRecord
    PROVE  \/ /\ LookedUp(job) = NextRecord(job, job.left)
              /\ job.event.customer \notin Accounts \union NoAccounts
           \/ /\ LookedUp(job) \in AtRecord /\ LookedUp(job).pc = "stripe"
              /\ LookedUp(job).batch = job.batch /\ LookedUp(job).left = job.left
              /\ LookedUp(job).event = job.event
           \/ /\ LookedUp(job) = Billed(job)
              /\ ~(job.event.customer \in Accounts /\ ~StripeOff)
  BY DEF LookedUp, Unknown, AtRecord

-----------------------------------------------------------------------------
(* Type correctness.                                                       *)

LEMMA InitType == Init => TypeOK
  BY EgressAssumption DEF Init, TypeOK

LEMMA WorkerStepType ==
    ASSUME TypeOK, NEW w \in Worker, NEW job \in BetweenRecords \union AtRecord \union {Idle},
           worker' = [worker EXCEPT ![w] = job]
    PROVE  worker' \in [Worker -> BetweenRecords \union AtRecord \union {Idle}]
  BY DEF TypeOK

LEMMA SavedType ==
    ASSUME TypeOK, NEW w \in Worker, worker[w].pc = "record", NEW m \in worker[w].left,
           NEW d \in BOOLEAN, Saved(w, m, d)
    PROVE  /\ raw' \subseteq Events
           /\ worker' \in [Worker -> BetweenRecords \union AtRecord \union {Idle}]
  <1> DEFINE new == [pc |-> "customer", batch |-> worker[w].batch,
                     left |-> worker[w].left \ {m}, event |-> m.event, duplicate |-> d]
  <1>1. worker[w] \in BetweenRecords
    BY JobCases, IdleHasNoStep
  <1>2. m.event \in Events
    BY <1>1 DEF BetweenRecords, Message
  <1>3. new \in AtRecord
    BY <1>1, <1>2 DEF AtRecord, BetweenRecords
  <1>4. worker' = [worker EXCEPT ![w] = new]
    BY DEF Saved
  <1> HIDE DEF new
  <1>5. QED
    BY <1>2, <1>3, <1>4, WorkerStepType DEF Saved, TypeOK

LEMMA AddedType ==
    ASSUME TypeOK, NEW e \in Events
    PROVE  \A n \in Nat : Counts(e, n) => monthly' \in [MonthKey -> [bytes : Nat, eventCount : Nat]]
  <1> DEFINE Total == [bytes : Nat, eventCount : Nat]
  <1>1. KeyOf(e) \in MonthKey
    BY DEF KeyOf, MonthKey
  <1>2. ASSUME NEW n \in Nat, NEW total \in Total PROVE Added(total, e, n) \in Total
    <2>1. PICK a \in Nat : a = n * e.bytes
      BY EgressAssumption
    <2>2. Added(total, e, n) = [bytes |-> total.bytes + a, eventCount |-> total.eventCount + n]
      BY <2>1 DEF Added
    <2>3. QED
      BY <2>2
  <1>3. monthly \in [MonthKey -> Total]
    BY DEF TypeOK
  <1> HIDE DEF Total
  <1>4. QED
    BY <1>1, <1>2, <1>3 DEF Counts, Total

LEMMA HandlerType ==
    ASSUME TypeOK, NEW w \in Worker, Handler(w)
    PROVE  TypeOK'
  <1> DEFINE job == worker[w]
  <1>1. ASSUME NEW ms \in SUBSET queue, Receive(w, ms)
        PROVE  TypeOK'
    <2> DEFINE batch == {[m EXCEPT !.receives = @ + 1] : m \in ms}
               new == [pc |-> "record", batch |-> batch, left |-> batch]
    <2>1. ASSUME NEW m \in ms
          PROVE  [m EXCEPT !.receives = @ + 1] \in Message
      BY EgressAssumption DEF TypeOK, Message
    <2>2. batch \subseteq Message
      BY <2>1
    <2>3. worker' = [worker EXCEPT ![w] = new]
      BY <1>1 DEF Receive
    <2> HIDE DEF batch
    <2>4. new \in BetweenRecords
      BY <2>2 DEF BetweenRecords
    <2> HIDE DEF new
    <2>5. QED
      BY <1>1, <2>3, <2>4, WorkerStepType DEF Receive, TypeOK
  <1>2. CASE SaveEvent(w)
    <2>1. PICK m \in job.left : Saved(w, m, Duplicate(m.event))
      BY <1>2 DEF SaveEvent
    <2>2. Duplicate(m.event) \in BOOLEAN
      BY DEF Duplicate
    <2>3. /\ raw' \subseteq Events
          /\ worker' \in [Worker -> BetweenRecords \union AtRecord \union {Idle}]
      BY <1>2, <2>1, <2>2, SavedType DEF SaveEvent
    <2>4. QED
      BY <1>2, <2>3 DEF SaveEvent, TypeOK
  <1>3. CASE LookupCustomer(w)
    <2>1. job \in AtRecord
      BY <1>3, JobCases, IdleHasNoStep DEF LookupCustomer
    <2>2. NextRecord(job, job.left) \in BetweenRecords
      BY <2>1, NextRecordType DEF AtRecord
    <2>3. LookedUp(job) \in BetweenRecords \union AtRecord
      BY <2>1, <2>2, LookedUpType, BilledType
    <2>4. failed' \subseteq Events
      BY <1>3, <2>1 DEF LookupCustomer, AtRecord, TypeOK
    <2>5. QED
      BY <1>3, <2>3, <2>4, WorkerStepType DEF LookupCustomer, TypeOK
  <1>4. CASE SendMeterEvent(w)
    <2>1. job \in AtRecord
      BY <1>4, JobCases, IdleHasNoStep DEF SendMeterEvent
    <2>2. NextRecord(job, job.left) \in BetweenRecords
      BY <2>1, NextRecordType DEF AtRecord
    <2>3. Billed(job) \in BetweenRecords \union AtRecord
      BY <2>1, <2>2, BilledType
    <2>4. job.event \in Events
      BY <2>1 DEF AtRecord
    <2>5. QED
      BY <1>4, <2>3, <2>4, WorkerStepType DEF SendMeterEvent, TypeOK
  <1>5. CASE Increment(w)
    <2>1. job \in AtRecord
      BY <1>5, JobCases, IdleHasNoStep DEF Increment
    <2>2. NextRecord(job, job.left) \in BetweenRecords /\ job.event \in Events
      BY <2>1, NextRecordType DEF AtRecord
    <2>3. QED
      BY <1>5, <2>2, AddedType, WorkerStepType DEF Increment, TypeOK
  <1>6. CASE Return(w)
    BY <1>6, WorkerStepType DEF Return, TypeOK
  <1>7. QED
    BY <1>1, <1>2, <1>3, <1>4, <1>5, <1>6 DEF Handler

LEMMA NextType == TypeOK /\ [Next]_vars => TypeOK'
  <1> SUFFICES ASSUME TypeOK, [Next]_vars PROVE TypeOK'
    OBVIOUS
  <1>1. ASSUME NEW e \in Events, NEW c \in 1..MaxCopies[e], Record(e, c)
        PROVE  TypeOK'
    BY <1>1, EgressAssumption DEF Record, TypeOK, Message
  <1>2. ASSUME NEW w \in Worker, CallFails(w)
        PROVE  TypeOK'
    <2> DEFINE job == worker[w]
    <2>1. faults' \in 0..MaxFaults
      BY <1>2, EgressAssumption DEF CallFails, TypeOK
    <2>2. ASSUME job.pc = "record", NEW m \in job.left,
                 raw' \in {raw, raw \union {m.event}}, failed' = failed \union {m.event},
                 worker' = [worker EXCEPT ![w] = NextRecord(job, job.left \ {m})],
                 UNCHANGED <<meter, monthly>>
          PROVE  TypeOK'
      <3>1. job \in BetweenRecords
        BY <2>2, JobCases, IdleHasNoStep
      <3>2. m.event \in Events /\ job.batch \in SUBSET Message
              /\ job.left \ {m} \in SUBSET Message
        BY <2>2, <3>1 DEF BetweenRecords, Message
      <3>3. NextRecord(job, job.left \ {m}) \in BetweenRecords
        BY <3>2, NextRecordType
      <3>4. QED
        BY <1>2, <2>1, <2>2, <3>2, <3>3, WorkerStepType DEF CallFails, TypeOK
    <2>3. ASSUME job.pc \in {"customer", "stripe", "increment"},
                 meter' = meter \/ meter' = meter \union {job.event},
                 monthly' = monthly \/ \E times \in Nat : Counts(job.event, times),
                 failed' = failed \union {job.event},
                 worker' = [worker EXCEPT ![w] = NextRecord(job, job.left)],
                 UNCHANGED raw
          PROVE  TypeOK'
      <3>1. job \in AtRecord
        BY <2>3, JobCases, IdleHasNoStep
      <3>2. job.event \in Events /\ NextRecord(job, job.left) \in BetweenRecords
        BY <3>1, NextRecordType DEF AtRecord
      <3>4. meter' \subseteq Events
        BY <2>3, <3>2 DEF TypeOK
      <3>5. monthly' \in [MonthKey -> [bytes : Nat, eventCount : Nat]]
        BY <2>3, <3>2, AddedType DEF TypeOK
      <3>6. QED
        BY <1>2, <2>1, <2>3, <3>2, <3>4, <3>5, WorkerStepType DEF CallFails, TypeOK
    <2>4. \A n \in 1..(Retries + 1) : n \in Nat
      BY EgressAssumption
    <2>5. QED
      BY <1>2, <2>2, <2>3, <2>4 DEF CallFails
  <1>6. ASSUME NEW w \in Worker, Resend(w)
        PROVE  TypeOK'
    <2> DEFINE job == worker[w]
    <2>1. faults' \in 0..MaxFaults
      BY <1>6, EgressAssumption DEF Resend, TypeOK
    <2>2. ASSUME job.pc = "record", NEW m \in job.left, Saved(w, m, TRUE), UNCHANGED monthly
          PROVE  TypeOK'
      BY <1>6, <2>1, <2>2, SavedType DEF Resend, TypeOK
    <2>3. ASSUME job.pc = "increment",
                 \E times \in Nat : Counts(job.event, times),
                 worker' = [worker EXCEPT ![w] = NextRecord(job, job.left)],
                 UNCHANGED raw
          PROVE  TypeOK'
      <3>1. job \in AtRecord
        BY <2>3, JobCases, IdleHasNoStep
      <3>2. job.event \in Events /\ NextRecord(job, job.left) \in BetweenRecords
        BY <3>1, NextRecordType DEF AtRecord
      <3>3. QED
        BY <1>6, <2>1, <2>3, <3>2, AddedType, WorkerStepType DEF Resend, TypeOK
    <2>4. \A n \in 1..Retries : 1 + n \in Nat
      BY EgressAssumption
    <2>5. QED
      BY <1>6, <2>2, <2>3, <2>4 DEF Resend
  <1>3. ASSUME NEW w \in Worker, Crash(w)
        PROVE  TypeOK'
    <2>1. worker[w].batch \subseteq Message
      BY <1>3, JobCases DEF Crash, BetweenRecords, AtRecord
    <2>2. faults' \in 0..MaxFaults
      BY <1>3, EgressAssumption DEF Crash, TypeOK
    <2>3. QED
      BY <1>3, <2>1, <2>2, WorkerStepType DEF Crash, Returned, TypeOK
  <1>4. CASE UNCHANGED vars
    BY <1>4 DEF vars, TypeOK
  <1>5. QED
    BY <1>1, <1>2, <1>3, <1>4, <1>6, HandlerType DEF Next, Gateway

(***************************************************************************)
(* Every reachable state is well typed: the totals are natural numbers     *)
(* kept per customer, month and space, and no message that has been        *)
(* received MaxReceive times is visible.                                   *)
(***************************************************************************)
THEOREM TypeCorrect == Spec => []TypeOK
  BY InitType, NextType, PTL DEF Spec

-----------------------------------------------------------------------------
(* No event is lost. The strengthening: an invocation is done with the     *)
(* events of the messages it has come to, but for the one it is at, and    *)
(* that one is saved, and reported before it is counted. It is done with   *)
(* an event that is settled, and with one it has noted as failed.          *)

Done(e) == Settled(e) \/ e \in failed

InvocationInv(w) ==
    /\ \A m \in worker[w].batch \ worker[w].left :
         Done(m.event) \/ (worker[w].pc # "record" /\ worker[w].event = m.event)
    /\ worker[w].pc \in {"customer", "stripe"} => worker[w].event \in raw
    /\ worker[w].pc = "increment" => Done(worker[w].event)

KeptInv ==
    /\ NoEventLost
    /\ \A w \in Worker : worker[w] # Idle => InvocationInv(w)

(* What is done stays so. *)
LEMMA DoneStays ==
    ASSUME raw \subseteq raw', meter \subseteq meter', failed \subseteq failed', NEW e, Done(e)
    PROVE  Done(e)'
  BY DEF Done, Settled

(* A step of an invocation that keeps its batch keeps the invariant if it  *)
(* keeps the invocation's part of it.                                      *)
LEMMA InvocationStep ==
    ASSUME TypeOK, KeptInv, NEW w \in Worker, worker[w] # Idle, NEW job,
           job # Idle, job.batch = worker[w].batch,
           worker' = [worker EXCEPT ![w] = job],
           UNCHANGED <<sent, queue, dlq>>,
           raw \subseteq raw', meter \subseteq meter', failed \subseteq failed',
           InvocationInv(w)'
    PROVE  KeptInv'
  <1>1. /\ worker'[w] = job
        /\ \A v \in Worker : v # w => worker'[v] = worker[v]
    BY DEF TypeOK
  <1>2. ASSUME NEW e, InProgress(e)
        PROVE  InProgress(e)'
    <2>1. ASSUME NEW v \in Worker, worker[v] # Idle, \E m \in worker[v].batch : m.event = e
          PROVE  worker'[v] # Idle /\ \E m \in worker'[v].batch : m.event = e
      BY <1>1, <2>1
    <2>2. QED
      BY <1>2, <2>1 DEF InProgress
  <1>3. NoEventLost'
    <2> SUFFICES ASSUME NEW m \in sent
                 PROVE  InProgress(m.event)' \/ Done(m.event)'
                          \/ DeadLettered(m.event)'
      BY DEF NoEventLost, Done
    <2>1. InProgress(m.event) \/ Done(m.event) \/ DeadLettered(m.event)
      BY DEF KeptInv, NoEventLost, Done
    <2>2. QED
      BY <1>2, <2>1, DoneStays DEF DeadLettered
  <1>4. ASSUME NEW v \in Worker, worker'[v] # Idle
        PROVE  InvocationInv(v)'
    <2>1. CASE v = w
      BY <2>1
    <2>2. CASE v # w
      <3>1. worker'[v] = worker[v] /\ InvocationInv(v)
        BY <1>1, <1>4, <2>2 DEF KeptInv
      <3>2. QED
        BY <3>1 DEF InvocationInv, Done, Settled
    <2>3. QED
      BY <2>1, <2>2
  <1>5. QED
    BY <1>3, <1>4 DEF KeptInv

(* An invocation that is done with a record. *)
LEMMA RecordDone ==
    ASSUME TypeOK, KeptInv, NEW w \in Worker, worker[w] \in AtRecord,
           worker' = [worker EXCEPT ![w] = NextRecord(worker[w], worker[w].left)],
           UNCHANGED <<sent, queue, dlq>>,
           raw \subseteq raw', meter \subseteq meter', failed \subseteq failed',
           NEW e, e = worker[w].event, Done(e)'
    PROVE  KeptInv'
  <1> DEFINE job == worker[w]
             new == NextRecord(job, job.left)
  <1>1. /\ job # Idle /\ job.pc # "record" /\ InvocationInv(w)
        /\ job.batch \in SUBSET Message /\ job.left \in SUBSET Message
    BY DEF AtRecord, Idle, KeptInv
  <1>2. new.pc = "record" /\ new.batch = job.batch /\ new.left = job.left /\ new # Idle
    BY <1>1, NextRecordType DEF Idle
  <1>3. worker' = [worker EXCEPT ![w] = new] /\ worker'[w] = new
    BY DEF TypeOK
  <1> HIDE DEF new
  <1>4. \A m \in job.batch \ job.left : Done(m.event)'
    <2> SUFFICES ASSUME NEW m \in job.batch \ job.left PROVE Done(m.event)'
      OBVIOUS
    <2>1. Done(m.event) \/ m.event = e
      BY <1>1 DEF InvocationInv
    <2>2. QED
      BY <2>1, DoneStays
  <1>5. InvocationInv(w)'
    BY <1>2, <1>3, <1>4 DEF InvocationInv, Done, Settled
  <1>6. QED
    BY <1>1, <1>2, <1>3, <1>5, InvocationStep

(* An invocation that goes to another step of the same record. *)
LEMMA RecordGoesOn ==
    ASSUME TypeOK, KeptInv, NEW w \in Worker, worker[w] \in AtRecord,
           NEW job \in AtRecord, worker' = [worker EXCEPT ![w] = job],
           job.batch = worker[w].batch, job.left = worker[w].left,
           job.event = worker[w].event,
           UNCHANGED <<sent, queue, dlq>>,
           raw \subseteq raw', meter \subseteq meter', failed \subseteq failed',
           NEW e, e = worker[w].event, job.pc # "increment" => e \in raw,
           job.pc = "increment" => Done(e)'
    PROVE  KeptInv'
  <1>1. /\ worker[w] # Idle /\ worker[w].pc # "record" /\ InvocationInv(w)
        /\ job # Idle /\ job.pc # "record"
    BY DEF AtRecord, Idle, KeptInv
  <1>2. worker'[w] = job
    BY DEF TypeOK
  <1>3. \A m \in job.batch \ job.left : Done(m.event)' \/ m.event = e
    <2> SUFFICES ASSUME NEW m \in job.batch \ job.left PROVE Done(m.event)' \/ m.event = e
      OBVIOUS
    <2>1. Done(m.event) \/ m.event = e
      BY <1>1 DEF InvocationInv
    <2>2. QED
      BY <2>1, DoneStays
  <1>4. InvocationInv(w)'
    BY <1>1, <1>2, <1>3 DEF InvocationInv, Done, Settled
  <1>5. QED
    BY <1>1, <1>2, <1>4, InvocationStep

(* An invocation that goes to what follows Stripe, its event settled. *)
LEMMA BilledKept ==
    ASSUME TypeOK, KeptInv, NEW w \in Worker, worker[w] \in AtRecord,
           worker' = [worker EXCEPT ![w] = Billed(worker[w])],
           UNCHANGED <<sent, queue, dlq>>,
           raw \subseteq raw', meter \subseteq meter', failed \subseteq failed',
           NEW e, e = worker[w].event, Done(e)'
    PROVE  KeptInv'
  <1>1. CASE Billed(worker[w]) = NextRecord(worker[w], worker[w].left)
    BY <1>1, RecordDone
  <1>2. CASE /\ Billed(worker[w]) \in AtRecord /\ Billed(worker[w]).pc = "increment"
             /\ Billed(worker[w]).batch = worker[w].batch
             /\ Billed(worker[w]).left = worker[w].left
             /\ Billed(worker[w]).event = worker[w].event
    BY <1>2, RecordGoesOn
  <1>3. QED
    BY <1>1, <1>2, BilledType

(* An invocation that saves an event, whether it finds it there or not.     *)
LEMMA SavedKept ==
    ASSUME TypeOK, KeptInv, NEW w \in Worker, worker[w].pc = "record",
           NEW m \in worker[w].left, NEW d \in BOOLEAN, Saved(w, m, d),
           UNCHANGED <<sent, queue, dlq, meter, failed>>
    PROVE  KeptInv'
  <1> DEFINE job == worker[w]
             new == [pc |-> "customer", batch |-> job.batch, left |-> job.left \ {m},
                     event |-> m.event, duplicate |-> d]
  <1>1. job \in BetweenRecords /\ job # Idle /\ InvocationInv(w)
    BY JobCases, IdleHasNoStep DEF KeptInv
  <1>2. /\ new.pc = "customer" /\ new.batch = job.batch /\ new.left = job.left \ {m}
        /\ new.event = m.event /\ new # Idle
    BY DEF Idle
  <1> HIDE DEF new
  <1>3. worker' = [worker EXCEPT ![w] = new] /\ worker'[w] = new
    BY DEF TypeOK, Saved, new
  <1>4. raw \subseteq raw' /\ m.event \in raw'
    BY DEF Saved
  <1>5. \A n \in job.batch \ new.left : Done(n.event)' \/ n.event = m.event
    <2> SUFFICES ASSUME NEW n \in job.batch \ new.left
                 PROVE  Done(n.event)' \/ n.event = m.event
      OBVIOUS
    <2>1. n = m \/ n \in job.batch \ job.left
      BY <1>2
    <2>2. n = m \/ Done(n.event)
      BY <1>1, <2>1 DEF InvocationInv
    <2>3. QED
      BY <1>4, <2>2, DoneStays
  <1>6. InvocationInv(w)'
    BY <1>2, <1>3, <1>4, <1>5 DEF InvocationInv, Done, Settled
  <1>7. QED
    BY <1>1, <1>2, <1>3, <1>4, <1>6, InvocationStep

(* An invocation that gives up the record it comes to, the event saved or   *)
(* not.                                                                     *)
LEMMA GivenUpKept ==
    ASSUME TypeOK, KeptInv, NEW w \in Worker, worker[w].pc = "record",
           NEW m \in worker[w].left,
           raw' \in {raw, raw \union {m.event}}, failed' = failed \union {m.event},
           worker' = [worker EXCEPT ![w] = NextRecord(worker[w], worker[w].left \ {m})],
           UNCHANGED <<sent, queue, dlq, meter>>
    PROVE  KeptInv'
  <1> DEFINE job == worker[w]
             new == NextRecord(job, job.left \ {m})
  <1>1. job \in BetweenRecords /\ job # Idle /\ InvocationInv(w)
    BY JobCases, IdleHasNoStep DEF KeptInv
  <1>2. job.batch \in SUBSET Message /\ job.left \ {m} \in SUBSET Message
    BY <1>1 DEF BetweenRecords
  <1>3. new.pc = "record" /\ new.batch = job.batch /\ new.left = job.left \ {m} /\ new # Idle
    BY <1>2, NextRecordType DEF Idle
  <1>4. worker' = [worker EXCEPT ![w] = new] /\ worker'[w] = new
    BY DEF TypeOK
  <1> HIDE DEF new
  <1>5. raw \subseteq raw' /\ meter \subseteq meter' /\ failed \subseteq failed'
    OBVIOUS
  <1>6. \A n \in job.batch \ new.left : Done(n.event)'
    <2> SUFFICES ASSUME NEW n \in job.batch \ new.left PROVE Done(n.event)'
      OBVIOUS
    <2>1. CASE n = m
      BY <2>1 DEF Done
    <2>2. CASE n # m
      <3>1. Done(n.event)
        BY <1>1, <1>3, <2>2 DEF InvocationInv
      <3>2. QED
        BY <1>5, <3>1, DoneStays
    <2>3. QED
      BY <2>1, <2>2
  <1>7. InvocationInv(w)'
    BY <1>3, <1>4, <1>6 DEF InvocationInv, Done, Settled
  <1>8. QED
    BY <1>1, <1>3, <1>4, <1>5, <1>7, InvocationStep

(* An invocation that has added its event to the monthly total.            *)
LEMMA CountedKept ==
    ASSUME TypeOK, KeptInv, NEW w \in Worker, worker[w].pc = "increment",
           worker' = [worker EXCEPT ![w] = NextRecord(worker[w], worker[w].left)],
           UNCHANGED <<sent, queue, dlq, raw, meter, failed>>
    PROVE  KeptInv'
  <1>1. worker[w] \in AtRecord /\ worker[w] # Idle /\ InvocationInv(w)
    BY JobCases, IdleHasNoStep DEF KeptInv
  <1>2. PICK e : e = worker[w].event
    OBVIOUS
  <1>3. Done(e)'
    BY <1>1, <1>2 DEF InvocationInv, Done, Settled
  <1>4. QED
    BY <1>1, <1>2, <1>3, RecordDone

LEMMA HandlerKeeps ==
    ASSUME TypeOK, KeptInv, NEW w \in Worker, Handler(w)
    PROVE  KeptInv'
  <1> DEFINE job == worker[w]
  <1>1. ASSUME NEW ms \in SUBSET queue, Receive(w, ms)
        PROVE  KeptInv'
    <2> DEFINE batch == {[m EXCEPT !.receives = @ + 1] : m \in ms}
               new == [pc |-> "record", batch |-> batch, left |-> batch]
    <2>1. \A m \in ms : \E n \in batch : n.event = m.event
      <3> SUFFICES ASSUME NEW m \in ms PROVE \E n \in batch : n.event = m.event
        OBVIOUS
      <3> DEFINE n == [m EXCEPT !.receives = @ + 1]
      <3>1. n.event = m.event
        BY DEF TypeOK, Message
      <3>2. n \in batch
        OBVIOUS
      <3>3. QED
        BY <3>1, <3>2
    <2>2. /\ worker' = [worker EXCEPT ![w] = new] /\ job = Idle
          /\ queue' = queue \ ms /\ UNCHANGED <<sent, dlq, raw, meter, failed>>
      BY <1>1 DEF Receive
    <2> HIDE DEF batch
    <2>3. new.pc = "record" /\ new.batch = batch /\ new.left = batch /\ new # Idle
      BY DEF Idle
    <2> HIDE DEF new
    <2>4. /\ worker'[w] = new
          /\ \A v \in Worker : v # w => worker'[v] = worker[v]
      BY <2>2 DEF TypeOK
    <2>5. \A e : InProgress(e) => InProgress(e)'
      <3> SUFFICES ASSUME NEW e, InProgress(e) PROVE InProgress(e)'
        OBVIOUS
      <3>1. ASSUME NEW m \in queue, m.event = e
            PROVE  InProgress(e)'
        <4>1. CASE m \in ms
          BY <2>1, <2>3, <2>4, <3>1, <4>1 DEF InProgress
        <4>2. CASE m \notin ms
          BY <2>2, <3>1, <4>2 DEF InProgress
        <4>3. QED
          BY <4>1, <4>2
      <3>2. ASSUME NEW v \in Worker, worker[v] # Idle, \E m \in worker[v].batch : m.event = e
            PROVE  InProgress(e)'
        BY <2>2, <2>4, <3>2 DEF InProgress
      <3>3. QED
        BY <3>1, <3>2 DEF InProgress
    <2>6. NoEventLost'
      BY <2>2, <2>5 DEF KeptInv, NoEventLost, Done, Settled, DeadLettered
    <2>7. ASSUME NEW v \in Worker, worker'[v] # Idle
          PROVE  InvocationInv(v)'
      <3>1. CASE v = w
        BY <2>3, <2>4, <3>1 DEF InvocationInv
      <3>2. CASE v # w
        BY <2>2, <2>4, <2>7, <3>2 DEF KeptInv, InvocationInv, Done, Settled
      <3>3. QED
        BY <3>1, <3>2
    <2>8. QED
      BY <2>6, <2>7 DEF KeptInv
  <1>2. CASE SaveEvent(w)
    <2>1. PICK m \in job.left : Saved(w, m, Duplicate(m.event))
      BY <1>2 DEF SaveEvent
    <2>2. Duplicate(m.event) \in BOOLEAN
      BY DEF Duplicate
    <2>3. QED
      BY <1>2, <2>1, <2>2, SavedKept DEF SaveEvent
  <1>3. CASE LookupCustomer(w)
    <2>1. job \in AtRecord /\ job # Idle /\ InvocationInv(w)
      BY <1>3, JobCases, IdleHasNoStep DEF LookupCustomer, KeptInv
    <2>2. PICK e : e = job.event
      OBVIOUS
    <2>3. e \in raw
      BY <1>3, <2>1, <2>2 DEF LookupCustomer, InvocationInv
    <2>4. /\ worker' = [worker EXCEPT ![w] = LookedUp(job)]
          /\ failed \subseteq failed'
          /\ UNCHANGED <<sent, queue, dlq, raw, meter>>
      BY <1>3 DEF LookupCustomer
    <2>5. CASE /\ LookedUp(job) = NextRecord(job, job.left)
               /\ job.event.customer \notin Accounts \union NoAccounts
      <3>1. Done(e)'
        BY <2>2, <2>3, <2>4, <2>5 DEF Done, Settled
      <3>2. QED
        BY <2>1, <2>2, <2>4, <2>5, <3>1, RecordDone
    <2>6. CASE /\ LookedUp(job) \in AtRecord /\ LookedUp(job).pc = "stripe"
               /\ LookedUp(job).batch = job.batch /\ LookedUp(job).left = job.left
               /\ LookedUp(job).event = job.event
      BY <2>1, <2>2, <2>3, <2>4, <2>6, RecordGoesOn
    <2>7. CASE /\ LookedUp(job) = Billed(job)
               /\ ~(job.event.customer \in Accounts /\ ~StripeOff)
      <3>1. Done(e)'
        BY <2>2, <2>3, <2>4, <2>7 DEF Done, Settled
      <3>2. QED
        BY <2>1, <2>2, <2>4, <2>7, <3>1, BilledKept
    <2>8. QED
      BY <2>1, <2>5, <2>6, <2>7, LookedUpType
  <1>4. CASE SendMeterEvent(w)
    <2>1. job \in AtRecord /\ job # Idle /\ InvocationInv(w)
      BY <1>4, JobCases, IdleHasNoStep DEF SendMeterEvent, KeptInv
    <2>2. PICK e : e = job.event
      OBVIOUS
    <2>3. /\ worker' = [worker EXCEPT ![w] = Billed(job)]
          /\ meter' = meter \union {e}
          /\ UNCHANGED <<sent, queue, dlq, raw, failed>>
      BY <1>4, <2>2 DEF SendMeterEvent
    <2>4. Done(e)'
      BY <1>4, <2>1, <2>2, <2>3 DEF SendMeterEvent, InvocationInv, Done, Settled
    <2>5. QED
      BY <2>1, <2>2, <2>3, <2>4, BilledKept
  <1>5. CASE Increment(w)
    BY <1>5, CountedKept DEF Increment
  <1>6. CASE Return(w)
    <2>1. /\ job # Idle /\ InvocationInv(w) /\ job.pc = "record" /\ job.left = {}
          /\ worker' = [worker EXCEPT ![w] = Idle]
          /\ UNCHANGED <<sent, queue, dlq, raw, meter, failed>>
      BY <1>6, IdleHasNoStep DEF Return, KeptInv
    <2>2. \A m \in job.batch : Done(m.event)
      BY <2>1 DEF InvocationInv
    <2>3. /\ worker'[w] = Idle
          /\ \A v \in Worker : v # w => worker'[v] = worker[v]
      BY <2>1 DEF TypeOK
    <2>4. \A e : InProgress(e) => InProgress(e)' \/ Done(e)
      BY <2>1, <2>2, <2>3 DEF InProgress
    <2>5. NoEventLost'
      BY <2>1, <2>4 DEF KeptInv, NoEventLost, Done, Settled, DeadLettered
    <2>6. ASSUME NEW v \in Worker, worker'[v] # Idle
          PROVE  InvocationInv(v)'
      BY <2>1, <2>3, <2>6 DEF KeptInv, InvocationInv, Done, Settled
    <2>7. QED
      BY <2>5, <2>6 DEF KeptInv
  <1>7. QED
    BY <1>1, <1>2, <1>3, <1>4, <1>5, <1>6 DEF Handler

LEMMA NextKeeps ==
    ASSUME TypeOK, KeptInv, [Next]_vars
    PROVE  KeptInv'
  <1>1. ASSUME NEW e \in Events, NEW c \in 1..MaxCopies[e], Record(e, c)
        PROVE  KeptInv'
    <2> DEFINE new == [event |-> e, copy |-> c, receives |-> 0]
    <2>1. /\ new \in queue' /\ new.event = e
          /\ sent' = sent \union {[event |-> e, copy |-> c]} /\ queue \subseteq queue'
          /\ UNCHANGED <<worker, dlq, raw, meter, failed>>
      BY <1>1 DEF Record
    <2> HIDE DEF new
    <2>2. InProgress(e)' /\ \A f : InProgress(f) => InProgress(f)'
      BY <2>1 DEF InProgress
    <2>3. \A m \in sent' : m \in sent \/ m.event = e
      BY <2>1
    <2>4. NoEventLost'
      <3> SUFFICES ASSUME NEW m \in sent'
                   PROVE  InProgress(m.event)' \/ Done(m.event)'
                            \/ DeadLettered(m.event)'
        BY DEF NoEventLost, Done
      <3>1. CASE m \in sent
        <4>1. InProgress(m.event) \/ Done(m.event) \/ DeadLettered(m.event)
          BY <3>1 DEF KeptInv, NoEventLost, Done
        <4>2. QED
          BY <2>1, <2>2, <4>1 DEF Done, Settled, DeadLettered
      <3>2. CASE m.event = e
        BY <2>2, <3>2
      <3>3. QED
        BY <2>3, <3>1, <3>2
    <2>5. QED
      BY <2>1, <2>4 DEF KeptInv, InvocationInv, Done, Settled
  <1>2. ASSUME NEW w \in Worker, CallFails(w)
        PROVE  KeptInv'
    <2> DEFINE job == worker[w]
    <2>1. UNCHANGED <<sent, queue, dlq>>
      BY <1>2 DEF CallFails
    <2>2. ASSUME job.pc = "record", NEW m \in job.left,
                 raw' \in {raw, raw \union {m.event}}, failed' = failed \union {m.event},
                 worker' = [worker EXCEPT ![w] = NextRecord(job, job.left \ {m})],
                 UNCHANGED <<meter, monthly>>
          PROVE  KeptInv'
      BY <2>1, <2>2, GivenUpKept
    <2>3. ASSUME job.pc \in {"customer", "stripe", "increment"},
                 meter' = meter \/ meter' = meter \union {job.event},
                 failed' = failed \union {job.event},
                 worker' = [worker EXCEPT ![w] = NextRecord(job, job.left)],
                 UNCHANGED raw
          PROVE  KeptInv'
      <3>1. job \in AtRecord
        BY <2>3, JobCases, IdleHasNoStep
      <3>2. PICK e : e = job.event
        OBVIOUS
      <3>3. raw \subseteq raw' /\ meter \subseteq meter' /\ failed \subseteq failed'
        BY <2>3
      <3>4. Done(e)'
        BY <2>3, <3>2 DEF Done
      <3>5. QED
        BY <2>1, <2>3, <3>1, <3>2, <3>3, <3>4, RecordDone
    <2>4. QED
      BY <1>2, <2>2, <2>3 DEF CallFails
  <1>6. ASSUME NEW w \in Worker, Resend(w)
        PROVE  KeptInv'
    BY <1>6, SavedKept, CountedKept DEF Resend
  <1>3. ASSUME NEW w \in Worker, Crash(w)
        PROVE  KeptInv'
    <2> DEFINE job == worker[w]
    <2>1. /\ worker'[w] = Idle
          /\ \A v \in Worker : v # w => worker'[v] = worker[v]
          /\ queue' = queue \union Returned(job)
          /\ dlq' = dlq \union {m \in job.batch : m.receives >= MaxReceive}
          /\ UNCHANGED <<sent, raw, meter, failed>>
      BY <1>3 DEF Crash, TypeOK
    <2>2. job.batch \subseteq Message
      BY <1>3, JobCases DEF Crash, BetweenRecords, AtRecord
    <2>3. \A m \in job.batch : m \in queue' \/ m \in dlq'
      BY <2>1, <2>2, EgressAssumption DEF Returned, Message
    <2>4. \A e : InProgress(e) => InProgress(e)' \/ DeadLettered(e)'
      BY <2>1, <2>3 DEF InProgress, DeadLettered
    <2>5. NoEventLost'
      BY <2>1, <2>4 DEF KeptInv, NoEventLost, Done, Settled, DeadLettered
    <2>6. ASSUME NEW v \in Worker, worker'[v] # Idle
          PROVE  InvocationInv(v)'
      BY <2>1, <2>6 DEF KeptInv, InvocationInv, Done, Settled
    <2>7. QED
      BY <2>5, <2>6 DEF KeptInv
  <1>4. CASE UNCHANGED vars
    BY <1>4 DEF vars, KeptInv, NoEventLost, InProgress, InvocationInv, Done, Settled, DeadLettered
  <1>5. QED
    BY <1>1, <1>2, <1>3, <1>4, <1>6, HandlerKeeps DEF Next, Gateway

(***************************************************************************)
(* An event the gateway reported is not lost before it is saved and Stripe *)
(* is told of it, whatever dies, whatever fails and however messages are   *)
(* duplicated, unless the handler noted its record as failed.              *)
(***************************************************************************)
THEOREM EventsAreKept == Spec => []NoEventLost
  <1>1. Init => KeptInv
    BY DEF Init, KeptInv, NoEventLost
  <1>2. TypeOK /\ KeptInv /\ [Next]_vars => KeptInv'
    BY NextKeeps
  <1>3. KeptInv => NoEventLost
    BY DEF KeptInv
  <1>4. QED
    BY <1>1, <1>2, <1>3, TypeCorrect, PTL DEF Spec

-----------------------------------------------------------------------------
(* The billing fan-out.                                                    *)

(* A worker that is not idle has a job. *)
LEMMA JobType ==
    ASSUME FanoutTypeOK, NEW w \in Invocation, invocation[w] # Resting
    PROVE  invocation[w] \in Job
  BY DEF FanoutTypeOK

LEMMA RunType ==
    ASSUME FanoutTypeOK, cron # Resting
    PROVE  cron \in Run
  BY DEF FanoutTypeOK

LEMMA TakenType ==
    ASSUME NEW items, NEW list \in Listing(items), NEW i
    PROVE  /\ Taken(list, i) \in Listing(items)
           /\ Taken(list, i) = [page |-> list.page \ {i}, upTo |-> list.upTo, more |-> list.more]
  BY DEF Taken, Listing

LEMMA InvocationStepType ==
    ASSUME FanoutTypeOK, NEW w \in Invocation, NEW job \in Job \union {Resting},
           invocation' = [invocation EXCEPT ![w] = job]
    PROVE  invocation' \in [Invocation -> Job \union {Resting}]
  BY DEF FanoutTypeOK

LEMMA NewListingType == \A items : NewListing \in Listing(items)
  BY DEF NewListing, Listing

-----------------------------------------------------------------------------
(* Type correctness. *)

LEMMA FanoutInitType == FanoutInit => FanoutTypeOK
  BY FanoutAssumption DEF FanoutInit, FanoutTypeOK

LEMMA SentType ==
    ASSUME FanoutTypeOK, NEW c \in Customer, NEW r \in RunId, Send(c, r)
    PROVE  /\ customerQueue' \subseteq {m \in CustomerMessage : m.receives < MaxReceives}
           /\ failures' \in 0..MaxFailures
  <1>1. PICK copies \in {{1}, {1, 2}} :
          /\ customerQueue' = customerQueue \union [customer : {c}, run : {r}, copy : copies, receives : {0}]
          /\ IF copies = {1} THEN UNCHANGED failures
             ELSE failures < MaxFailures /\ failures' = failures + 1
    BY DEF Send
  <1>2. ASSUME NEW m \in [customer : {c}, run : {r}, copy : copies, receives : {0}]
        PROVE  m \in CustomerMessage /\ m.receives < MaxReceives
    <2>1. m = [customer |-> c, run |-> r, copy |-> m.copy, receives |-> 0] /\ m.copy \in {1, 2}
      BY <1>1
    <2>2. 0 \in 0..MaxReceives /\ 0 < MaxReceives
      BY FanoutAssumption
    <2>3. QED
      BY <2>1, <2>2 DEF CustomerMessage
  <1>3. failures' \in 0..MaxFailures
    BY <1>1, FanoutAssumption DEF FanoutTypeOK
  <1>4. QED
    BY <1>1, <1>2, <1>3 DEF FanoutTypeOK

LEMMA CronType ==
    ASSUME FanoutTypeOK, StartRun \/ CronStep \/ CronFails
    PROVE  FanoutTypeOK'
  <1>1. CASE StartRun
    <2>1. runs' \in RunId /\ runs' \in 0..MaxRuns
      BY <1>1, FanoutAssumption DEF StartRun, FanoutTypeOK, RunId
    <2>2. cron' \in Run
      BY <1>1, <2>1, NewListingType DEF StartRun, Run
    <2>3. ProvisionedFor(Billable) \subseteq Space
      BY DEF ProvisionedFor, FanoutTypeOK
    <2>4. QED
      BY <1>1, <2>1, <2>2, <2>3 DEF StartRun, FanoutTypeOK, tables
  <1>2. CASE ListCustomers
    <2>1. PICK list \in Listing(Customer) : cron' = [cron EXCEPT !.list = list]
      BY <1>2 DEF ListCustomers
    <2>2. cron' \in Run
      BY <1>2, <2>1, RunType DEF ListCustomers, Run
    <2>3. QED
      BY <1>2, <2>2 DEF ListCustomers, FanoutTypeOK, tables
  <1>3. CASE SendCustomer
    <2>1. PICK c \in cron.list.page :
            /\ IF c \in Billable THEN Send(c, cron.run) ELSE UNCHANGED <<customerQueue, failures>>
            /\ cron' = [cron EXCEPT !.list = Taken(@, c)]
      BY <1>3 DEF SendCustomer
    <2>2. cron \in Run
      BY <1>3, RunType DEF SendCustomer
    <2>3. Taken(cron.list, c) \in Listing(Customer)
      BY <2>2, TakenType DEF Run
    <2>4. cron' \in Run
      BY <2>1, <2>2, <2>3 DEF Run
    <2>5. c \in Customer /\ cron.run \in RunId
      BY <2>2 DEF Run, Listing
    <2>6. /\ customerQueue' \subseteq {m \in CustomerMessage : m.receives < MaxReceives}
          /\ failures' \in 0..MaxFailures
      BY <2>1, <2>5, SentType DEF FanoutTypeOK
    <2>7. QED
      BY <1>3, <2>4, <2>6 DEF SendCustomer, FanoutTypeOK, tables
  <1>4. CASE EndRun
    <2>1. cron.run \in RunId
      BY <1>4, RunType DEF EndRun, Run
    <2>2. QED
      BY <1>4, <2>1 DEF EndRun, FanoutTypeOK, tables
  <1>5. CASE CronFails
    BY <1>5, FanoutAssumption DEF CronFails, FanoutTypeOK, tables
  <1>6. QED
    BY <1>1, <1>2, <1>3, <1>4, <1>5 DEF CronStep

LEMMA ReturnedType ==
    ASSUME FanoutTypeOK, NEW m \in CustomerMessage, MessageReturned(m)
    PROVE  /\ customerQueue' \subseteq {n \in CustomerMessage : n.receives < MaxReceives}
           /\ customerDlq' \subseteq CustomerMessage
  BY DEF MessageReturned, FanoutTypeOK

LEMMA CustomerHandlerType ==
    ASSUME FanoutTypeOK, NEW w \in Invocation, CustomerHandler(w) \/ HandlerFails(w)
    PROVE  FanoutTypeOK'
  <1> DEFINE job == invocation[w]
  <1>1. ASSUME NEW m \in customerQueue, ReceiveCustomer(w, m)
        PROVE  FanoutTypeOK'
    <2> DEFINE new == [pc |-> "job", message |-> [m EXCEPT !.receives = @ + 1],
                       list |-> NewListing]
    <2>1. [m EXCEPT !.receives = @ + 1] \in CustomerMessage
      <3>1. m \in CustomerMessage /\ m.receives < MaxReceives
        BY DEF FanoutTypeOK
      <3>2. m.receives + 1 \in 0..MaxReceives
        BY <3>1, FanoutAssumption DEF CustomerMessage
      <3>3. QED
        BY <3>1, <3>2 DEF CustomerMessage
    <2>2. new \in Job
      BY <2>1, NewListingType DEF Job
    <2>3. invocation' = [invocation EXCEPT ![w] = new]
      BY <1>1 DEF ReceiveCustomer
    <2> HIDE DEF new
    <2>4. QED
      BY <1>1, <2>2, <2>3, InvocationStepType DEF ReceiveCustomer, FanoutTypeOK, tables
  <1>2. CASE ListSubscriptions(w)
    <2>1. job \in Job
      BY <1>2, JobType DEF ListSubscriptions
    <2>2. PICK list \in Listing(Space) : invocation' = [invocation EXCEPT ![w].list = list]
      BY <1>2 DEF ListSubscriptions
    <2>3. [job EXCEPT !.list = list] \in Job
      BY <2>1 DEF Job
    <2>4. invocation' = [invocation EXCEPT ![w] = [job EXCEPT !.list = list]]
      BY <2>2
    <2>5. QED
      BY <1>2, <2>3, <2>4, InvocationStepType DEF ListSubscriptions, FanoutTypeOK, tables
  <1>3. CASE SendSpace(w)
    <2>1. job \in Job
      BY <1>3, JobType DEF SendSpace
    <2>2. PICK s \in job.list.page, n \in {1, 2} :
            /\ failures + n - 1 <= MaxFailures
            /\ failures' = failures + n - 1
            /\ issued' = [issued EXCEPT ![job.message.run][s] = @ + n]
            /\ invocation' = [invocation EXCEPT ![w].list = Taken(@, s)]
      BY <1>3 DEF SendSpace
    <2>3. failures' \in 0..MaxFailures
      BY <2>2, FanoutAssumption DEF FanoutTypeOK
    <2>4. [job EXCEPT !.list = Taken(job.list, s)] \in Job
      <3>1. Taken(job.list, s) \in Listing(Space)
        BY <2>1, TakenType DEF Job
      <3>2. QED
        BY <2>1, <3>1 DEF Job
    <2>5. invocation' = [invocation EXCEPT ![w] = [job EXCEPT !.list = Taken(job.list, s)]]
      BY <2>2
    <2>6. issued' \in [RunId -> [Space -> Nat]]
      <3>1. job.message.run \in RunId /\ s \in Space
        BY <2>1 DEF Job, CustomerMessage, Listing
      <3>2. QED
        BY <2>2, <3>1 DEF FanoutTypeOK
    <2>7. invocation' \in [Invocation -> Job \union {Resting}]
      BY <2>4, <2>5, InvocationStepType
    <2>8. QED
      BY <1>3, <2>3, <2>6, <2>7 DEF SendSpace, FanoutTypeOK, tables
  <1>4. CASE NoConsumer(w) \/ HandlerFails(w)
    <2>1. /\ invocation[w] # Resting
          /\ MessageReturned(job.message)
          /\ invocation' = [invocation EXCEPT ![w] = Resting]
          /\ UNCHANGED <<tables, runs, cron, issued, begun, ended>>
          /\ failures' = failures \/ (failures < MaxFailures /\ failures' = failures + 1)
      BY <1>4 DEF NoConsumer, HandlerFails
    <2>2. job.message \in CustomerMessage
      BY <2>1, JobType DEF Job
    <2>3. failures' \in 0..MaxFailures
      BY <2>1, FanoutAssumption DEF FanoutTypeOK
    <2>4. QED
      BY <2>1, <2>2, <2>3, ReturnedType DEF FanoutTypeOK, tables
  <1>5. CASE Finish(w)
    BY <1>5 DEF Finish, FanoutTypeOK, tables
  <1>6. QED
    BY <1>1, <1>2, <1>3, <1>4, <1>5 DEF CustomerHandler

LEMMA StepType == FanoutTypeOK /\ [FanoutNext]_fanoutVars => FanoutTypeOK'
  <1> SUFFICES ASSUME FanoutTypeOK, [FanoutNext]_fanoutVars
               PROVE  FanoutTypeOK'
    OBVIOUS
  <1>1. CASE Provision
    BY <1>1 DEF Provision, Subscribe, Consume, FanoutTypeOK
  <1>2. CASE StartRun \/ CronStep \/ CronFails
    BY <1>2, CronType
  <1>3. ASSUME NEW c \in Customer, SendSingle(c)
        PROVE  FanoutTypeOK'
    <2>1. runs' \in RunId /\ runs' \in 0..MaxRuns /\ Send(c, runs')
      BY <1>3, FanoutAssumption DEF SendSingle, FanoutTypeOK, RunId
    <2>2. ProvisionedFor({c}) \subseteq Space
      BY DEF ProvisionedFor, FanoutTypeOK
    <2>3. /\ customerQueue' \subseteq {m \in CustomerMessage : m.receives < MaxReceives}
          /\ failures' \in 0..MaxFailures
      BY <2>1, SentType
    <2>4. QED
      BY <1>3, <2>1, <2>2, <2>3 DEF SendSingle, FanoutTypeOK, tables
  <1>4. ASSUME NEW w \in Invocation, CustomerHandler(w) \/ HandlerFails(w)
        PROVE  FanoutTypeOK'
    BY <1>4, CustomerHandlerType
  <1>5. CASE UNCHANGED fanoutVars
    BY <1>5 DEF fanoutVars, tables, FanoutTypeOK
  <1>6. QED
    BY <1>1, <1>2, <1>3, <1>4, <1>5 DEF FanoutNext

(***************************************************************************)
(* The tables, the runs, the queue and every invocation stay well typed: a *)
(* message is received at most MaxReceive times.                           *)
(***************************************************************************)
THEOREM FanoutTypeCorrect == FanoutSpec => []FanoutTypeOK
  <1>1. QED
    BY FanoutInitType, StepType, PTL DEF FanoutSpec

-----------------------------------------------------------------------------
(***************************************************************************)
(* What NoSpaceForgotten rests on: what a listing has passed is done with. *)
(* A run has reached the spaces of the customers it has passed, and an     *)
(* invocation has queued an instruction for the spaces it has passed; a    *)
(* listing without more pages has read up to everything that was there     *)
(* when the run began.                                                     *)
(***************************************************************************)
Passed(i, list) == i <= list.upTo /\ i \notin list.page

RunInv ==
    cron # Resting =>
      /\ cron.run \in 1..runs
      /\ \A s \in begun[cron.run] :
           /\ Owner[s] \in Billable
           /\ Passed(Owner[s], cron.list) => Reached(s, cron.run)
           /\ ~cron.list.more => Owner[s] <= cron.list.upTo

JobCovers(job) ==
    \A s \in begun[job.message.run] :
      Owner[s] = job.message.customer =>
        /\ Passed(s, job.list) => issued[job.message.run][s] > 0
        /\ ~job.list.more => s <= job.list.upTo

JobInv ==
    \A w \in Invocation :
      invocation[w] # Resting =>
        /\ invocation[w].message.run \in 1..runs
        /\ JobCovers(invocation[w])

StartedInv ==
    /\ ended \subseteq 1..runs
    /\ \A m \in customerQueue : m.run \in 1..runs
    /\ \A r \in RunId : begun[r] \subseteq consumers

FanoutInv == FanoutTypeOK /\ RunInv /\ JobInv /\ StartedInv /\ NoSpaceForgotten

-----------------------------------------------------------------------------
(* What every step leaves of a run that has started. *)

LEMMA IssuedGrows ==
    ASSUME FanoutTypeOK, [FanoutNext]_fanoutVars, NEW r \in RunId, NEW s \in Space, issued[r][s] > 0
    PROVE  issued'[r][s] > 0
  <1>1. ASSUME NEW w \in Invocation, SendSpace(w)
        PROVE  issued'[r][s] > 0
    <2>1. PICK q \in invocation[w].list.page, n \in {1, 2} :
            issued' = [issued EXCEPT ![invocation[w].message.run][q] = @ + n]
      BY <1>1 DEF SendSpace
    <2>2. issued[r][s] \in Nat
      BY DEF FanoutTypeOK
    <2>3. issued'[r][s] \in {issued[r][s], issued[r][s] + n}
      BY <2>1 DEF FanoutTypeOK
    <2>4. QED
      BY <2>2, <2>3
  <1>2. CASE issued' = issued
    BY <1>2
  <1>3. QED
    BY <1>1, <1>2 DEF FanoutNext, fanoutVars, Provision, Subscribe, Consume, StartRun, CronStep,
       ListCustomers, SendCustomer, EndRun, CronFails, SendSingle, CustomerHandler, ReceiveCustomer,
       ListSubscriptions, NoConsumer, Finish, HandlerFails

(* The runs go up by one, and only the new run's spaces are set. *)
LEMMA RunsGrow ==
    ASSUME FanoutTypeOK, [FanoutNext]_fanoutVars
    PROVE  /\ runs' \in {runs, runs + 1}
           /\ \A r \in 1..runs : r \in RunId /\ r \in 1..runs' /\ begun'[r] = begun[r]
           /\ consumers \subseteq consumers'
  <1>1. CASE StartRun \/ \E c \in Customer : SendSingle(c)
    <2>1. PICK S : runs' = runs + 1 /\ begun' = [begun EXCEPT ![runs'] = S]
      BY <1>1 DEF StartRun, SendSingle
    <2>2. consumers' = consumers
      BY <1>1 DEF StartRun, SendSingle, tables
    <2>3. ASSUME NEW r \in 1..runs
          PROVE  r \in RunId /\ r \in 1..runs' /\ r # runs'
      BY <2>1, FanoutAssumption DEF FanoutTypeOK, RunId
    <2>4. QED
      BY <2>1, <2>2, <2>3 DEF FanoutTypeOK
  <1>2. CASE runs' = runs /\ begun' = begun /\ consumers \subseteq consumers'
    BY <1>2, FanoutAssumption DEF FanoutTypeOK, RunId
  <1>3. CASE Provision
    BY <1>2, <1>3 DEF Provision, Subscribe, Consume
  <1>4. CASE CronStep \/ CronFails
    BY <1>2, <1>4 DEF CronStep, ListCustomers, SendCustomer, EndRun, CronFails, tables
  <1>5. ASSUME NEW w \in Invocation, CustomerHandler(w) \/ HandlerFails(w)
        PROVE  runs' = runs /\ begun' = begun /\ consumers' = consumers
    BY <1>5 DEF CustomerHandler, ReceiveCustomer, ListSubscriptions, SendSpace, NoConsumer, Finish,
       HandlerFails, tables
  <1>6. CASE UNCHANGED fanoutVars
    BY <1>2, <1>6 DEF fanoutVars, tables
  <1>7. QED
    BY <1>1, <1>2, <1>3, <1>4, <1>5, <1>6 DEF FanoutNext

(* An invocation that has taken everything has issued for every space. *)
LEMMA DoneIsIssued ==
    ASSUME FanoutTypeOK, JobInv, NEW w \in Invocation, invocation[w] # Resting, Exhausted(invocation[w].list),
           NEW s \in begun[invocation[w].message.run], Owner[s] = invocation[w].message.customer
    PROVE  issued[invocation[w].message.run][s] > 0
  BY DEF JobInv, JobCovers, Exhausted, Passed

\* A message on the way, or dead-lettered.
Held(c, r) == OnTheWay(c, r) \/ GivenUp(c, r)

(* A message that leaves the queue is taken by an invocation, and one whose *)
(* invocation fails is visible again or dead-lettered.                      *)
LEMMA HandlerKeepsMessage ==
    ASSUME FanoutTypeOK, NEW w \in Invocation, CustomerHandler(w) \/ HandlerFails(w), ~Finish(w),
           NEW c, NEW r, Held(c, r)
    PROVE  Held(c, r)'
  <1>1. ASSUME NEW m \in customerQueue, ReceiveCustomer(w, m)
        PROVE  Held(c, r)'
    <2>1. /\ invocation'[w].message.customer = m.customer
          /\ invocation'[w].message.run = m.run
          /\ invocation'[w].pc = "job"
      BY <1>1 DEF ReceiveCustomer, FanoutTypeOK, CustomerMessage
    <2>2. \A v \in Invocation : invocation[v] # Resting => invocation'[v] = invocation[v]
      BY <1>1 DEF ReceiveCustomer, FanoutTypeOK
    <2>3. invocation'[w] # Resting
      BY <2>1 DEF Resting
    <2>4. \A n \in customerQueue : n = m \/ n \in customerQueue'
      BY <1>1 DEF ReceiveCustomer
    <2>5. customerDlq' = customerDlq
      BY <1>1 DEF ReceiveCustomer
    <2>6. QED
      BY <2>1, <2>2, <2>3, <2>4, <2>5 DEF Held, OnTheWay, GivenUp, IsFor
  <1>2. CASE ListSubscriptions(w) \/ SendSpace(w)
    <2>1. PICK list : invocation' = [invocation EXCEPT ![w].list = list]
      BY <1>2 DEF ListSubscriptions, SendSpace
    <2>2. invocation[w] \in Job
      BY <1>2, JobType DEF ListSubscriptions, SendSpace
    <2>3. invocation'[w].message = invocation[w].message /\ invocation'[w].pc = "job"
      BY <2>1, <2>2 DEF FanoutTypeOK, Job
    <2>4. invocation'[w] # Resting
      BY <2>3 DEF Resting
    <2>5. \A v \in Invocation : v # w => invocation'[v] = invocation[v]
      BY <2>1 DEF FanoutTypeOK
    <2>6. customerQueue' = customerQueue /\ customerDlq' = customerDlq
      BY <1>2 DEF ListSubscriptions, SendSpace
    <2>7. QED
      BY <2>3, <2>4, <2>5, <2>6 DEF Held, OnTheWay, GivenUp, IsFor
  <1>3. CASE NoConsumer(w) \/ HandlerFails(w)
    <2>1. MessageReturned(invocation[w].message) /\ invocation' = [invocation EXCEPT ![w] = Resting]
      BY <1>3 DEF NoConsumer, HandlerFails
    <2>2. /\ customerQueue \subseteq customerQueue' /\ customerDlq \subseteq customerDlq'
          /\ invocation[w].message \in customerQueue' \union customerDlq'
      BY <2>1 DEF MessageReturned
    <2>3. \A v \in Invocation : v # w => invocation'[v] = invocation[v]
      BY <2>1 DEF FanoutTypeOK
    <2>4. QED
      BY <2>2, <2>3 DEF Held, OnTheWay, GivenUp, IsFor
  <1>4. QED
    BY <1>1, <1>2, <1>3 DEF CustomerHandler

LEMMA OthersKeepMessages ==
    ASSUME Provision \/ StartRun \/ CronStep \/ CronFails \/ (\E c \in Customer : SendSingle(c))
             \/ UNCHANGED fanoutVars
    PROVE  customerQueue \subseteq customerQueue' /\ invocation' = invocation /\ customerDlq' = customerDlq /\ issued' = issued
  BY DEF Provision, Subscribe, Consume, StartRun, CronStep, ListCustomers, SendCustomer,
     EndRun, CronFails, SendSingle, Send, fanoutVars

(* No step takes back what a run has reached. *)
LEMMA ReachedKept ==
    ASSUME FanoutTypeOK, JobInv, [FanoutNext]_fanoutVars, NEW r \in 1..runs, NEW s \in begun[r], Reached(s, r)
    PROVE  Reached(s, r)'
  <1>1. r \in RunId /\ s \in Space
    BY RunsGrow DEF FanoutTypeOK
  <1>2. CASE issued[r][s] > 0
    BY <1>1, <1>2, IssuedGrows DEF Reached
  <1>3. CASE Held(Owner[s], r)
    <2>1. ASSUME NEW w \in Invocation, CustomerHandler(w) \/ HandlerFails(w), ~Finish(w)
          PROVE  Reached(s, r)'
      BY <1>3, <2>1, HandlerKeepsMessage DEF Reached, Held
    <2>2. ASSUME NEW w \in Invocation, Finish(w)
          PROVE  Reached(s, r)'
      <3>1. /\ invocation[w] # Resting /\ Exhausted(invocation[w].list)
            /\ invocation' = [invocation EXCEPT ![w] = Resting]
            /\ customerQueue' = customerQueue /\ customerDlq' = customerDlq
        BY <2>2 DEF Finish
      <3>2. CASE IsFor(invocation[w].message, Owner[s], r)
        <4>1. issued[r][s] > 0
          BY <3>1, <3>2, DoneIsIssued DEF IsFor
        <4>2. QED
          BY <1>1, <4>1, IssuedGrows DEF Reached
      <3>3. CASE ~IsFor(invocation[w].message, Owner[s], r)
        <4>1. \A v \in Invocation : v # w => invocation'[v] = invocation[v]
          BY <3>1 DEF FanoutTypeOK
        <4>2. Held(Owner[s], r)'
          BY <1>3, <3>1, <3>3, <4>1 DEF Held, OnTheWay, GivenUp
        <4>3. QED
          BY <4>2 DEF Reached, Held
      <3>4. QED
        BY <3>2, <3>3
    <2>3. CASE Provision \/ StartRun \/ CronStep \/ CronFails
                 \/ (\E c \in Customer : SendSingle(c)) \/ UNCHANGED fanoutVars
      <3>1. Held(Owner[s], r)'
        BY <1>3, <2>3, OthersKeepMessages DEF Held, OnTheWay, GivenUp
      <3>2. QED
        BY <3>1 DEF Reached, Held
    <2>4. QED
      BY <2>1, <2>2, <2>3 DEF FanoutNext
  <1>4. QED
    BY <1>2, <1>3 DEF Reached, Held

-----------------------------------------------------------------------------
(* The invariant is kept. *)

LEMMA Numbered == Customer \subseteq Nat /\ Space \subseteq Nat
  BY FanoutAssumption

LEMMA ReadUpTo ==
    ASSUME NEW items \in SUBSET Nat, NEW list \in Listing(items)
    PROVE  list.upTo \in Nat
  <1>1. list.upTo \in {0} \union items
    BY DEF Listing
  <1>2. \A x \in {0} \union items : x \in Nat
    OBVIOUS
  <1>3. QED
    BY <1>1, <1>2

(* A page leaves nothing out between what was read before and what is read  *)
(* now, and the last one leaves nothing after it.                           *)
LEMMA NextPageCovers ==
    ASSUME NEW items \in SUBSET Nat, NEW upTo \in Nat, NEW list,
           NextPage(items, upTo, list), NEW i \in items
    PROVE  /\ Passed(i, list) => i <= upTo
           /\ ~list.more => i <= list.upTo
  <1>1. /\ list.page \subseteq After(items, upTo)
        /\ \A j \in list.page, k \in After(items, upTo) : k < j => k \in list.page
        /\ ~list.more => list.page = After(items, upTo)
        /\ IF list.page = {}
           THEN list.upTo = upTo
           ELSE list.upTo \in list.page /\ \A j \in list.page : j <= list.upTo
    BY DEF NextPage
  <1>2. list.page \subseteq items /\ list.upTo \in Nat
    BY <1>1 DEF After
  <1>3. CASE i <= upTo
    <2>1. upTo <= list.upTo
      BY <1>1, <1>2 DEF After
    <2>2. QED
      BY <1>2, <1>3, <2>1
  <1>4. CASE i > upTo
    <2>1. i \in After(items, upTo)
      BY <1>4 DEF After
    <2>2. ASSUME i <= list.upTo
          PROVE  i \in list.page
      <3>1. list.upTo # upTo
        BY <1>4, <2>2
      <3>2. list.upTo \in list.page
        BY <1>1, <3>1
      <3>3. i = list.upTo \/ i < list.upTo
        <4>1. i \in Nat /\ list.upTo \in Nat
          BY <1>2
        <4>2. QED
          BY <2>2, <4>1
      <3>4. QED
        BY <1>1, <2>1, <3>2, <3>3
    <2>3. QED
      BY <1>1, <2>1, <2>2 DEF Passed
  <1>5. QED
    BY <1>3, <1>4

LEMMA JobCoversKept ==
    ASSUME FanoutTypeOK, [FanoutNext]_fanoutVars, NEW job, job.message.run \in 1..runs, JobCovers(job)
    PROVE  job.message.run \in 1..runs' /\ JobCovers(job)'
  <1>1. /\ job.message.run \in RunId /\ job.message.run \in 1..runs'
        /\ begun'[job.message.run] = begun[job.message.run]
    BY RunsGrow
  <1>2. \A s \in begun[job.message.run] : s \in Space
    BY <1>1 DEF FanoutTypeOK
  <1>3. QED
    BY <1>1, <1>2, IssuedGrows DEF JobCovers

LEMMA JobStep ==
    ASSUME FanoutTypeOK, JobInv, StartedInv, [FanoutNext]_fanoutVars, NEW v \in Invocation, invocation'[v] # Resting
    PROVE  invocation'[v].message.run \in 1..runs' /\ JobCovers(invocation[v])'
  <1>1. CASE invocation'[v] = invocation[v]
    <2>1. invocation[v].message.run \in 1..runs /\ JobCovers(invocation[v])
      BY <1>1 DEF JobInv
    <2>2. QED
      BY <1>1, <2>1, JobCoversKept DEF JobCovers
  <1>2. ASSUME NEW m \in customerQueue, ReceiveCustomer(v, m)
        PROVE  invocation'[v].message.run \in 1..runs' /\ JobCovers(invocation[v])'
    <2>1. /\ invocation'[v].message.run = m.run
          /\ invocation'[v].list = NewListing
      BY <1>2 DEF ReceiveCustomer, FanoutTypeOK, CustomerMessage
    <2>2. m.run \in 1..runs /\ m.run \in 1..runs'
      BY RunsGrow DEF StartedInv
    <2>3. begun'[m.run] \subseteq Space
      BY <2>2, RunsGrow DEF FanoutTypeOK
    <2>4. \A s \in Space : ~Passed(s, NewListing)
      BY FanoutAssumption DEF Passed, NewListing
    <2>5. NewListing.more
      BY DEF NewListing
    <2>6. QED
      BY <2>1, <2>2, <2>3, <2>4, <2>5 DEF JobCovers
  <1>3. CASE ListSubscriptions(v)
    <2> DEFINE job == invocation[v]
               c == job.message.customer
               r == job.message.run
    <2>1. PICK list \in Listing(Space) :
            /\ NextPage(SubscriptionsOf(c), job.list.upTo, list)
            /\ invocation' = [invocation EXCEPT ![v].list = list]
      BY <1>3 DEF ListSubscriptions
    <2>2. job \in Job /\ job # Resting /\ job.list.page = {}
      BY <1>3, JobType DEF ListSubscriptions
    <2>3. invocation'[v].message = job.message /\ invocation'[v].list = list
      BY <2>1, <2>2 DEF FanoutTypeOK, Job
    <2>4. r \in 1..runs /\ r \in 1..runs' /\ begun'[r] = begun[r] /\ r \in RunId /\ JobCovers(job)
      BY <2>2, RunsGrow DEF JobInv
    <2>5. issued' = issued
      BY <1>3 DEF ListSubscriptions
    <2>6. ASSUME NEW s \in begun[r], Owner[s] = c
          PROVE  (Passed(s, list) => issued[r][s] > 0) /\ (~list.more => s <= list.upTo)
      <3>1. s \in SubscriptionsOf(c)
        BY <2>4, <2>6 DEF StartedInv, FanoutTypeOK, SubscriptionsOf
      <3>2. SubscriptionsOf(c) \in SUBSET Nat /\ job.list.upTo \in Nat
        <4>1. SubscriptionsOf(c) \subseteq Nat
          BY Numbered DEF SubscriptionsOf, FanoutTypeOK
        <4>2. job.list \in Listing(Space)
          BY <2>2 DEF Job
        <4>3. QED
          BY <4>1, <4>2, Numbered, ReadUpTo
      <3>3. (Passed(s, list) => s <= job.list.upTo) /\ (~list.more => s <= list.upTo)
        BY <2>1, <3>1, <3>2, NextPageCovers
      <3>4. s <= job.list.upTo => issued[r][s] > 0
        BY <2>2, <2>4, <2>6 DEF JobCovers, Passed
      <3>5. QED
        BY <3>3, <3>4
    <2>7. QED
      BY <2>3, <2>4, <2>5, <2>6 DEF JobCovers
  <1>4. CASE SendSpace(v)
    <2> DEFINE job == invocation[v]
               r == job.message.run
    <2>1. PICK q \in job.list.page, n \in {1, 2} :
            /\ issued' = [issued EXCEPT ![r][q] = @ + n]
            /\ invocation' = [invocation EXCEPT ![v].list = Taken(@, q)]
      BY <1>4 DEF SendSpace
    <2>2. job \in Job /\ job # Resting
      BY <1>4, JobType DEF SendSpace
    <2>3. /\ invocation'[v].message = job.message
          /\ invocation'[v].list = Taken(job.list, q)
      BY <2>1, <2>2 DEF FanoutTypeOK, Job
    <2>4. r \in 1..runs /\ r \in 1..runs' /\ begun'[r] = begun[r] /\ r \in RunId /\ JobCovers(job)
      BY <2>2, RunsGrow DEF JobInv
    <2>5. Taken(job.list, q) = [page |-> job.list.page \ {q}, upTo |-> job.list.upTo,
                                more |-> job.list.more]
      BY <2>2, TakenType DEF Job
    <2>6. issued'[r][q] > 0
      <3>1. q \in Space
        BY <2>2 DEF Job, Listing
      <3>2. issued[r][q] \in Nat /\ issued'[r][q] = issued[r][q] + n
        BY <2>1, <2>4, <3>1 DEF FanoutTypeOK
      <3>3. QED
        BY <3>2
    <2>7. \A s \in begun[r] : s \in Space
      BY <2>4 DEF FanoutTypeOK
    <2>8. ASSUME NEW s \in begun[r], Owner[s] = job.message.customer
          PROVE  /\ Passed(s, Taken(job.list, q)) => issued'[r][s] > 0
                 /\ ~Taken(job.list, q).more => s <= Taken(job.list, q).upTo
      <3>1. Passed(s, Taken(job.list, q)) => s = q \/ Passed(s, job.list)
        BY <2>5 DEF Passed
      <3>2. Passed(s, job.list) => issued'[r][s] > 0
        BY <2>4, <2>7, <2>8, IssuedGrows DEF JobCovers
      <3>3. ~job.list.more => s <= job.list.upTo
        BY <2>4, <2>8 DEF JobCovers
      <3>4. QED
        BY <2>5, <2>6, <3>1, <3>2, <3>3
    <2>9. QED
      BY <2>3, <2>4, <2>8 DEF JobCovers
  <1>5. ASSUME NEW w \in Invocation, CustomerHandler(w) \/ HandlerFails(w),
               v # w \/ NoConsumer(w) \/ Finish(w) \/ HandlerFails(w)
        PROVE  invocation'[v] = invocation[v] \/ invocation'[v] = Resting
    BY <1>5 DEF FanoutTypeOK, CustomerHandler, ReceiveCustomer, ListSubscriptions, SendSpace, NoConsumer, Finish,
       HandlerFails
  <1>6. CASE invocation' = invocation
    BY <1>1, <1>6
  <1>7. QED
    <2>1. CASE \E w \in Invocation : CustomerHandler(w) \/ HandlerFails(w)
      BY <1>1, <1>2, <1>3, <1>4, <1>5, <2>1 DEF CustomerHandler
    <2>2. QED
      BY <1>6, <2>1, OthersKeepMessages DEF FanoutNext

(* A message sent is on the queue. *)
LEMMA SentIsQueued ==
    ASSUME NEW c, NEW r, Send(c, r)
    PROVE  \E m \in customerQueue' : m.customer = c /\ m.run = r
  <1> DEFINE m == [customer |-> c, run |-> r, copy |-> 1, receives |-> 0]
  <1>1. m \in customerQueue'
    BY DEF Send
  <1>2. QED
    BY <1>1

LEMMA RunStep ==
    ASSUME FanoutTypeOK, RunInv, JobInv, [FanoutNext]_fanoutVars, cron' # Resting
    PROVE  RunInv'
  <1>1. CASE cron' = cron
    <2>1. cron.run \in 1..runs /\ cron.run \in 1..runs' /\ begun'[cron.run] = begun[cron.run]
      BY <1>1, RunsGrow DEF RunInv
    <2>2. \A s \in begun[cron.run] : Reached(s, cron.run) => Reached(s, cron.run)'
      BY <1>1, <2>1, ReachedKept DEF Reached, OnTheWay, GivenUp
    <2>3. QED
      BY <1>1, <2>1, <2>2 DEF RunInv
  <1>2. CASE StartRun
    <2>1. /\ cron'.run = runs' /\ cron'.list = NewListing
          /\ begun'[runs'] = ProvisionedFor(Billable)
          /\ runs' \in 1..runs'
      BY <1>2, FanoutAssumption DEF StartRun, FanoutTypeOK, RunId
    <2>2. \A s \in ProvisionedFor(Billable) : Owner[s] \in Billable /\ Owner[s] \in Nat \ {0}
      BY FanoutAssumption DEF ProvisionedFor, FanoutTypeOK
    <2>3. \A c \in Nat \ {0} : ~Passed(c, NewListing)
      BY DEF Passed, NewListing
    <2>4. NewListing.more
      BY DEF NewListing
    <2>5. QED
      BY <2>1, <2>2, <2>3, <2>4 DEF RunInv
  <1>3. CASE ListCustomers
    <2>1. PICK list \in Listing(Customer) :
            NextPage(Customer, cron.list.upTo, list) /\ cron' = [cron EXCEPT !.list = list]
      BY <1>3 DEF ListCustomers
    <2>2. cron \in Run /\ cron # Resting /\ cron.list.page = {}
      BY <1>3, RunType DEF ListCustomers
    <2>3. cron'.run = cron.run /\ cron'.list = list
      BY <2>1, <2>2 DEF Run
    <2>4. cron.run \in 1..runs /\ cron.run \in 1..runs' /\ begun'[cron.run] = begun[cron.run]
      BY <2>2, RunsGrow DEF RunInv
    <2>5. ASSUME NEW s \in begun[cron.run]
          PROVE  /\ Owner[s] \in Billable
                 /\ Passed(Owner[s], list) => Reached(s, cron.run)'
                 /\ ~list.more => Owner[s] <= list.upTo
      <3>1. Owner[s] \in Billable /\ Owner[s] \in Customer
        BY <2>2, FanoutAssumption DEF RunInv
      <3>2. Customer \in SUBSET Nat /\ cron.list.upTo \in Nat
        <4>1. cron.list \in Listing(Customer)
          BY <2>2 DEF Run
        <4>2. QED
          BY <4>1, Numbered, ReadUpTo
      <3>3. (Passed(Owner[s], list) => Owner[s] <= cron.list.upTo)
              /\ (~list.more => Owner[s] <= list.upTo)
        BY <2>1, <3>1, <3>2, NextPageCovers
      <3>4. Owner[s] <= cron.list.upTo => Reached(s, cron.run)
        BY <2>2 DEF RunInv, Passed
      <3>5. Reached(s, cron.run) => (issued'[cron.run][s] > 0 \/ Held(Owner[s], cron.run)')
        BY <2>3, <2>4, ReachedKept DEF Reached, Held, OnTheWay, GivenUp
      <3>6. QED
        BY <2>3, <3>1, <3>3, <3>4, <3>5 DEF Reached, Held, OnTheWay, GivenUp
    <2>6. QED
      BY <2>3, <2>4, <2>5 DEF RunInv, Reached, OnTheWay, GivenUp
  <1>4. CASE SendCustomer
    <2>1. PICK c \in cron.list.page :
            /\ IF c \in Billable THEN Send(c, cron.run) ELSE UNCHANGED <<customerQueue, failures>>
            /\ cron' = [cron EXCEPT !.list = Taken(@, c)]
      BY <1>4 DEF SendCustomer
    <2>2. cron \in Run /\ cron # Resting
      BY <1>4, RunType DEF SendCustomer
    <2>3. /\ cron'.run = cron.run
          /\ cron'.list = [page |-> cron.list.page \ {c}, upTo |-> cron.list.upTo,
                           more |-> cron.list.more]
      BY <2>1, <2>2, TakenType DEF Run
    <2>4. cron.run \in 1..runs /\ cron.run \in 1..runs' /\ begun'[cron.run] = begun[cron.run]
      BY <2>2, RunsGrow DEF RunInv
    <2>5. ASSUME NEW s \in begun[cron.run]
          PROVE  /\ Owner[s] \in Billable
                 /\ Passed(Owner[s], cron'.list) => Reached(s, cron.run)'
                 /\ ~cron.list.more => Owner[s] <= cron.list.upTo
      <3>1. Owner[s] \in Billable /\ (~cron.list.more => Owner[s] <= cron.list.upTo)
        BY <2>2 DEF RunInv
      <3>2. CASE Owner[s] = c
        <4>1. PICK m \in customerQueue' : m.customer = c /\ m.run = cron.run
          BY <2>1, <3>1, <3>2, SentIsQueued
        <4>2. QED
          BY <2>3, <3>1, <3>2, <4>1 DEF Reached, OnTheWay, IsFor
      <3>3. CASE Owner[s] # c
        <4>1. Passed(Owner[s], cron'.list) => Reached(s, cron.run)
          BY <2>2, <2>3, <3>3 DEF RunInv, Passed
        <4>2. Reached(s, cron.run) => Reached(s, cron.run)'
          BY <2>3, <2>4, ReachedKept DEF Reached, OnTheWay, GivenUp
        <4>3. QED
          BY <3>1, <4>1, <4>2
      <3>4. QED
        BY <3>2, <3>3
    <2>6. begun'[cron'.run] = begun[cron.run] /\ cron'.run \in 1..runs'
      BY <2>3, <2>4
    <2>7. ASSUME NEW s \in begun'[cron'.run]
          PROVE  /\ Owner[s] \in Billable
                 /\ Passed(Owner[s], cron'.list) => Reached(s, cron.run)'
                 /\ ~cron'.list.more => Owner[s] <= cron'.list.upTo
      BY <2>3, <2>5, <2>6
    <2>8. QED
      BY <2>6, <2>7 DEF RunInv
  <1>5. QED
    <2>1. ASSUME NEW w \in Invocation, CustomerHandler(w) \/ HandlerFails(w)
          PROVE  cron' = cron
      BY <2>1 DEF CustomerHandler, ReceiveCustomer, ListSubscriptions, SendSpace, NoConsumer, Finish,
         HandlerFails
    <2>2. Provision \/ (\E c \in Customer : SendSingle(c)) \/ UNCHANGED fanoutVars => cron' = cron
      BY DEF Provision, Subscribe, Consume, SendSingle, fanoutVars
    <2>3. EndRun \/ CronFails => cron' = Resting
      BY DEF EndRun, CronFails
    <2>4. QED
      BY <1>1, <1>2, <1>3, <1>4, <2>1, <2>2, <2>3 DEF FanoutNext, CronStep

LEMMA StartedStep ==
    ASSUME FanoutTypeOK, RunInv, JobInv, StartedInv, [FanoutNext]_fanoutVars
    PROVE  StartedInv'
  <1>1. ended' \subseteq 1..runs'
    <2>1. ended \subseteq 1..runs'
      BY RunsGrow DEF StartedInv
    <2>2. CASE EndRun
      BY <2>1, <2>2, RunsGrow DEF EndRun, RunInv
    <2>3. ASSUME NEW c \in Customer, SendSingle(c)
          PROVE  ended' \subseteq 1..runs'
      BY <2>1, <2>3 DEF SendSingle, FanoutTypeOK
    <2>4. CASE ended' = ended
      BY <2>1, <2>4
    <2>5. QED
      BY <2>2, <2>3, <2>4 DEF FanoutNext, fanoutVars, Provision, Subscribe, Consume, StartRun, CronStep,
         ListCustomers, SendCustomer, CronFails, CustomerHandler, ReceiveCustomer, ListSubscriptions,
         SendSpace, NoConsumer, Finish, HandlerFails
  <1>2. ASSUME NEW m \in customerQueue'
        PROVE  m.run \in 1..runs'
    <2>1. CASE m \in customerQueue
      BY <2>1, RunsGrow DEF StartedInv
    <2>2. CASE m \notin customerQueue /\ SendCustomer
      <3>1. m.run = cron.run
        BY <2>2 DEF SendCustomer, Send
      <3>2. QED
        BY <2>2, <3>1, RunsGrow DEF SendCustomer, RunInv
    <2>3. ASSUME NEW c \in Customer, SendSingle(c), m \notin customerQueue
          PROVE  m.run \in 1..runs'
      BY <2>3 DEF SendSingle, Send, FanoutTypeOK
    <2>4. ASSUME NEW w \in Invocation, CustomerHandler(w) \/ HandlerFails(w), m \notin customerQueue
          PROVE  m.run \in 1..runs'
      <3>1. m = invocation[w].message /\ invocation[w] # Resting
        BY <2>4 DEF CustomerHandler, ReceiveCustomer, ListSubscriptions, SendSpace, NoConsumer, Finish,
           HandlerFails, MessageReturned
      <3>2. QED
        BY <3>1, RunsGrow DEF JobInv
    <2>5. QED
      BY <2>1, <2>2, <2>3, <2>4 DEF FanoutNext, fanoutVars, Provision, Subscribe, Consume, StartRun,
         CronStep, ListCustomers, EndRun, CronFails
  <1>3. ASSUME NEW r \in RunId
        PROVE  begun'[r] \subseteq consumers'
    <2>1. begun[r] \subseteq consumers'
      BY RunsGrow DEF StartedInv
    <2>2. CASE StartRun \/ \E c \in Customer : SendSingle(c)
      <3>1. PICK cs : begun' = [begun EXCEPT ![runs'] = ProvisionedFor(cs)]
        BY <2>2 DEF StartRun, SendSingle
      <3>2. ProvisionedFor(cs) \subseteq consumers'
        BY RunsGrow DEF ProvisionedFor
      <3>3. QED
        BY <2>1, <3>1, <3>2 DEF FanoutTypeOK
    <2>3. CASE begun' = begun
      BY <2>1, <2>3
    <2>4. QED
      BY <2>2, <2>3 DEF FanoutNext, fanoutVars, Provision, Subscribe, Consume, CronStep,
         ListCustomers, SendCustomer, EndRun, CronFails, CustomerHandler, ReceiveCustomer,
         ListSubscriptions, SendSpace, NoConsumer, Finish, HandlerFails
  <1>4. QED
    BY <1>1, <1>2, <1>3 DEF StartedInv

LEMMA ForgottenStep ==
    ASSUME FanoutTypeOK, RunInv, JobInv, StartedInv, NoSpaceForgotten, [FanoutNext]_fanoutVars
    PROVE  NoSpaceForgotten'
  <1> SUFFICES ASSUME NEW r \in ended', NEW s \in begun'[r]
               PROVE  Reached(s, r)'
    BY DEF NoSpaceForgotten
  <1>1. CASE r \in ended
    <2>1. r \in 1..runs /\ s \in begun[r]
      BY <1>1, RunsGrow DEF StartedInv
    <2>2. QED
      BY <1>1, <2>1, ReachedKept DEF NoSpaceForgotten
  <1>2. CASE EndRun /\ r \notin ended
    <2>1. r = cron.run /\ cron # Resting /\ Exhausted(cron.list)
      BY <1>2 DEF EndRun
    <2>2. r \in 1..runs /\ s \in begun[r]
      BY <2>1, RunsGrow DEF RunInv
    <2>3. Reached(s, r)
      BY <2>1, <2>2 DEF RunInv, Exhausted, Passed
    <2>4. QED
      BY <2>2, <2>3, ReachedKept
  <1>3. ASSUME NEW c \in Customer, SendSingle(c), r \notin ended
        PROVE  Reached(s, r)'
    <2>1. r = runs' /\ runs' \in RunId /\ Send(c, runs')
      BY <1>3, FanoutAssumption DEF SendSingle, FanoutTypeOK, RunId
    <2>2. Owner[s] = c
      BY <1>3, <2>1 DEF SendSingle, FanoutTypeOK, ProvisionedFor
    <2>3. PICK m \in customerQueue' : m.customer = c /\ m.run = r
      BY <2>1, SentIsQueued
    <2>4. QED
      BY <2>2, <2>3 DEF Reached, OnTheWay, IsFor
  <1>4. QED
    BY <1>1, <1>2, <1>3 DEF FanoutNext, fanoutVars, Provision, Subscribe, Consume, StartRun, CronStep,
       ListCustomers, SendCustomer, CronFails, CustomerHandler, ReceiveCustomer, ListSubscriptions,
       SendSpace, NoConsumer, Finish, HandlerFails

LEMMA InitInv == FanoutInit => FanoutInv
  <1>1. FanoutInit => RunInv /\ JobInv /\ NoSpaceForgotten
    BY DEF FanoutInit, RunInv, JobInv, NoSpaceForgotten
  <1>2. FanoutInit => StartedInv
    BY DEF FanoutInit, StartedInv
  <1>3. QED
    BY <1>1, <1>2, FanoutInitType DEF FanoutInv

LEMMA StepInv == FanoutInv /\ [FanoutNext]_fanoutVars => FanoutInv'
  <1> SUFFICES ASSUME FanoutInv, [FanoutNext]_fanoutVars
               PROVE  FanoutInv'
    OBVIOUS
  <1>1. FanoutTypeOK'
    BY StepType DEF FanoutInv
  <1>2. RunInv'
    BY RunStep DEF FanoutInv, RunInv
  <1>3. JobInv'
    BY JobStep DEF FanoutInv, JobInv
  <1>4. StartedInv'
    BY StartedStep DEF FanoutInv
  <1>5. NoSpaceForgotten'
    BY ForgottenStep DEF FanoutInv
  <1>6. QED
    BY <1>1, <1>2, <1>3, <1>4, <1>5 DEF FanoutInv

(***************************************************************************)
(* Whatever fails, whoever provisions meanwhile and however the tables are *)
(* paged, a run that ended leaves no space out: it has an instruction, or  *)
(* the message for its customer is on the way or dead-lettered.            *)
(***************************************************************************)
THEOREM EverySpaceIsReached == FanoutSpec => []NoSpaceForgotten
  <1>1. FanoutInv => NoSpaceForgotten
    BY DEF FanoutInv
  <1>2. QED
    BY <1>1, InitInv, StepInv, PTL DEF FanoutSpec

-----------------------------------------------------------------------------
(* The monthly totals of egress. The invariant says which events and which *)
(* sums are in a total, beside the scripts that add to it.                 *)

\* The event an invocation is to count.
FlightOf(job) == IF job \in AtRecord /\ ~job.duplicate THEN {job.event} ELSE {}

FlightInv ==
    /\ IsFiniteSet(raw)
    /\ \A w \in Worker : FlightOf(worker[w]) \subseteq raw
    /\ \A v, w \in Worker : FlightOf(worker[v]) \intersect FlightOf(worker[w]) # {} => v = w
    /\ \A w \in Worker : worker[w].pc = "increment" => ~worker[w].duplicate
    /\ \A w \in Worker : worker[w].pc \in {"stripe", "increment"} => ~Unknown(worker[w].event)

Scanning == [pc : {"scan"}, present : SUBSET (History \union Events)]

Writing == [pc : {"write"}, left : SUBSET MonthKey, sent : SUBSET MonthKey, done : SUBSET MonthKey]

ScriptTypeOK ==
    /\ script \in Scanning \union Writing \union {Idle}
    /\ script.pc = "scan" => IsFiniteSet(script.present)
    /\ files \subseteq {"sums", "keys"}
    /\ aggregates \subseteq History \union Events /\ IsFiniteSet(aggregates)
    /\ processed \subseteq MonthKey /\ added \subseteq MonthKey /\ unsure \subseteq MonthKey
    /\ wanted \in BOOLEAN

\* Nothing is added before the sums are written, and of the keys a run has left,
\* those that were added before are noted as unsure.
ScriptInv ==
    /\ "keys" \notin files => processed = {}
    /\ "sums" \notin files => added = {}
    /\ script.pc = "scan" => "sums" \notin files
    /\ script.pc = "write" => "sums" \in files /\ script.left \intersect added \subseteq unsure

\* The runs that were made, but for the one that is still to come to a key.
RunsFor(k) ==
    faults + 1 - (IF wanted THEN 1 ELSE 0)
               - (IF script.pc = "write" /\ k \in script.left THEN 1 ELSE 0)

\* A call is made once and again as often as it fails.
Tries == Retries + 1

Due(k, t) ==
    /\ t <= Tries * RunsFor(k)
    /\ k \notin added => t = 0
    /\ k \in added \ unsure => t = 1

\* The events that were counted or left out, how often in c; those of them, and of
\* customers nobody knows, that were not counted just once.
Over == Countable \ InFlight

Off(c) == {e \in raw \ InFlight : c[e] # 1}

Counting == [Events -> 0..(Retries + 1)]

Tally(c) ==
    /\ Cardinality(Off(c)) <= faults
    /\ \A k \in MonthKey : \E t \in Nat :
         Due(k, t) /\ monthly[k] = Plus(Live(Over, c, k), SumOf(aggregates, k), t)

TallyInv == \E c \in Counting : Tally(c)

AllEvents == History \union Events

LEMMA EventFacts ==
    ASSUME NEW e \in AllEvents
    PROVE  e.bytes \in Nat /\ e.at \in Time
  BY EgressAssumption, BackfillAssumption DEF AllEvents

LEMMA KeyIsKey ==
    ASSUME NEW e \in AllEvents
    PROVE  KeyOf(e) \in MonthKey
  <1>1. CASE e \in Events
    BY <1>1 DEF KeyOf, MonthKey
  <1>2. CASE e \in History
    BY <1>2, BackfillAssumption
  <1>3. QED
    BY <1>1, <1>2 DEF AllEvents

LEMMA BytesType ==
    ASSUME NEW S \in SUBSET AllEvents, IsFiniteSet(S)
    PROVE  Bytes(S) \in Nat /\ Cardinality(S) \in Nat
  <1> DEFINE f == [e \in S |-> e.bytes]
  <1>1. f \in [S -> Nat]
    BY EventFacts
  <1> HIDE DEF f
  <1>2. SumFunction(f) \in Nat
    BY <1>1, TotalNatural
  <1>3. QED
    BY <1>2, FS_CardinalityType DEF Bytes, f

LEMMA BytesWith ==
    ASSUME NEW S \in SUBSET AllEvents, IsFiniteSet(S), NEW x \in AllEvents, x \notin S
    PROVE  /\ Bytes(S \union {x}) = Bytes(S) + x.bytes
           /\ Cardinality(S \union {x}) = Cardinality(S) + 1
  <1> DEFINE f == [e \in S |-> e.bytes]
             g == [e \in S \union {x} |-> e.bytes]
  <1>1. f \in [S -> Int] /\ g \in [S \union {x} -> Int]
    BY EventFacts
  <1>2. g[x] = x.bytes /\ \A y \in S : g[y] = f[y]
    OBVIOUS
  <1>3. Bytes(S) = SumFunction(f) /\ Bytes(S \union {x}) = SumFunction(g)
    BY DEF Bytes
  <1> HIDE DEF f, g
  <1>4. SumFunction(g) = SumFunction(f) + g[x]
    <2>1. PICK T : T = S
      OBVIOUS
    <2>2. IsFiniteSet(T) /\ x \notin T /\ f \in [T -> Int] /\ g \in [T \union {x} -> Int]
      BY <1>1, <2>1
    <2>3. \A y \in T : g[y] = f[y]
      BY <1>2, <2>1
    <2>4. QED
      BY <2>2, <2>3, TotalWith, SMTT(30)
  <1>5. Cardinality(S \union {x}) = Cardinality(S) + 1
    BY FS_AddElement
  <1>6. QED
    BY <1>2, <1>3, <1>4, <1>5

LEMMA LiveType ==
    ASSUME NEW O \in SUBSET Events, IsFiniteSet(O), NEW c \in [Events -> Nat], NEW k
    PROVE  Live(O, c, k) \in [bytes : Nat, eventCount : Nat]
  <1> DEFINE of == {e \in O : KeyOf(e) = k}
             f == [e \in of |-> c[e] * e.bytes]
             g == [e \in of |-> c[e]]
  <1>1. IsFiniteSet(of) /\ of \subseteq Events
    BY FS_Subset
  <1>2. Live(O, c, k) = [bytes |-> SumFunction(f), eventCount |-> SumFunction(g)]
    BY DEF Live
  <1>3. f \in [of -> Nat] /\ g \in [of -> Nat]
    <2>1. \A e \in of : c[e] \in Nat /\ e.bytes \in Nat
      BY EgressAssumption
    <2> HIDE DEF of
    <2>2. \A e \in of : c[e] * e.bytes \in Nat
      BY <2>1
    <2>3. QED
      BY <2>1, <2>2
  <1> HIDE DEF of, f, g
  <1>4. SumFunction(f) \in Nat /\ SumFunction(g) \in Nat
    BY <1>1, <1>3, TotalNatural
  <1>5. QED
    BY <1>2, <1>4

\* The total goes by what was counted of its events,
LEMMA LiveSame ==
    ASSUME NEW O \in SUBSET Events, NEW c \in [Events -> Nat], NEW d,
           \A e \in O : d[e] = c[e], NEW k
    PROVE  Live(O, d, k) = Live(O, c, k)
  <1>1. PICK of : of = {e \in O : KeyOf(e) = k}
    OBVIOUS
  <1>2. \A e \in of : d[e] = c[e]
    BY <1>1
  <1>3. [e \in of |-> d[e] * e.bytes] = [e \in of |-> c[e] * e.bytes]
    BY <1>2
  <1>4. [e \in of |-> d[e]] = [e \in of |-> c[e]]
    BY <1>2
  <1>5. QED
    BY <1>1, <1>3, <1>4 DEF Live

\* and one event more is added as often as it was counted to the total of its key.
LEMMA LiveAdds ==
    ASSUME NEW O \in SUBSET Events, IsFiniteSet(O), NEW c \in [Events -> Nat],
           NEW d \in [Events -> Nat], NEW x \in Events, x \notin O,
           \A e \in O : d[e] = c[e], NEW k
    PROVE  Live(O \union {x}, d, k)
             = IF k = KeyOf(x) THEN Added(Live(O, c, k), x, d[x]) ELSE Live(O, c, k)
  <1> DEFINE of == {e \in O : KeyOf(e) = k}
             more == {e \in O \union {x} : KeyOf(e) = k}
             f == [e \in of |-> c[e] * e.bytes]
             g == [e \in of |-> c[e]]
             F == [e \in more |-> d[e] * e.bytes]
             G == [e \in more |-> d[e]]
  <1>1. IsFiniteSet(of) /\ of \subseteq Events /\ x \notin of /\ \A e \in of : d[e] = c[e]
    BY FS_Subset
  <1>2. Live(O, c, k) = [bytes |-> SumFunction(f), eventCount |-> SumFunction(g)]
    BY DEF Live
  <1>3. Live(O \union {x}, d, k) = [bytes |-> SumFunction(F), eventCount |-> SumFunction(G)]
    BY DEF Live
  <1>4. CASE k # KeyOf(x)
    <2>1. more = of
      BY <1>4
    <2> HIDE DEF of, more
    <2>2. F = f /\ G = g
      BY <1>1, <2>1
    <2> HIDE DEF f, g, F, G
    <2>3. QED
      BY <1>2, <1>3, <1>4, <2>2
  <1>5. CASE k = KeyOf(x)
    <2>1. more = of \union {x}
      BY <1>5
    <2>2. PICK a : a = d[x] * x.bytes
      OBVIOUS
    <2> HIDE DEF of, more
    <2>3. \A e \in of \union {x} : c[e] \in Nat /\ d[e] \in Nat /\ e.bytes \in Nat
      BY <1>1, EgressAssumption
    <2>4. \A e \in of \union {x} : c[e] * e.bytes \in Int /\ d[e] * e.bytes \in Int
      BY <2>3
    <2>5. /\ f \in [of -> Int] /\ F \in [of \union {x} -> Int]
          /\ g \in [of -> Int] /\ G \in [of \union {x} -> Int]
      BY <2>1, <2>3, <2>4
    <2>6. /\ \A e \in of : F[e] = f[e] /\ G[e] = g[e]
          /\ F[x] = a /\ G[x] = d[x]
      BY <1>1, <2>1, <2>2
    <2> HIDE DEF f, g, F, G
    <2>7. /\ SumFunction(F) = SumFunction(f) + F[x]
          /\ SumFunction(G) = SumFunction(g) + G[x]
      <3>1. ASSUME NEW S, IsFiniteSet(S), x \notin S, NEW p, p \in [S -> Int],
                   NEW q, q \in [S \union {x} -> Int], \A y \in S : q[y] = p[y]
            PROVE  SumFunction(q) = SumFunction(p) + q[x]
        BY <3>1, TotalWith, SMTT(30)
      <3>2. IsFiniteSet(of) /\ x \notin of
        BY <1>1
      <3>3. QED
        BY <2>5, <2>6, <3>1, <3>2
    <2>8. SumFunction(F) = SumFunction(f) + a
      BY <2>6, <2>7
    <2>9. SumFunction(G) = SumFunction(g) + d[x]
      BY <2>6, <2>7
    <2>10. Added(Live(O, c, k), x, d[x]) = [bytes |-> SumFunction(f) + a, eventCount |-> SumFunction(g) + d[x]]
      BY <1>2, <2>2 DEF Added
    <2>11. QED
      BY <1>3, <1>5, <2>8, <2>9, <2>10
  <1>6. QED
    BY <1>4, <1>5

\* What a script added does not matter to what the handler adds.
LEMMA AddedToPlus ==
    ASSUME NEW live \in [bytes : Nat, eventCount : Nat],
           NEW sum, sum.bytes \in Nat, sum.eventCount \in Nat,
           NEW t \in Nat, NEW e \in Events, NEW n \in Nat
    PROVE  Added(Plus(live, sum, t), e, n) = Plus(Added(live, e, n), sum, t)
  <1> DEFINE a == t * sum.bytes
             b == t * sum.eventCount
             c == n * e.bytes
  <1>1. a \in Nat /\ b \in Nat /\ c \in Nat
    BY EgressAssumption
  <1>2. Added(Plus(live, sum, t), e, n) = [bytes |-> (live.bytes + a) + c,
                                           eventCount |-> (live.eventCount + b) + n]
    BY DEF Added, Plus
  <1>3. Plus(Added(live, e, n), sum, t) = [bytes |-> (live.bytes + c) + a,
                                           eventCount |-> (live.eventCount + n) + b]
    BY DEF Added, Plus
  <1> HIDE DEF a, b, c
  <1>4. QED
    BY <1>1, <1>2, <1>3

LEMMA AddedNone ==
    ASSUME NEW total \in [bytes : Nat, eventCount : Nat], NEW e \in Events
    PROVE  Added(total, e, 0) = total
  <1>1. 0 * e.bytes = 0
    BY EgressAssumption
  <1>2. Added(total, e, 0) = [bytes |-> total.bytes + 0, eventCount |-> total.eventCount + 0]
    BY <1>1 DEF Added
  <1>3. QED
    BY <1>2

LEMMA FlightIs ==
    InFlight = {e \in Events : \E w \in Worker : e \in FlightOf(worker[w])}
  BY DEF InFlight, FlightOf, AtRecord

LEMMA NoFlight ==
    ASSUME NEW job, job.pc \in {"record", "idle"}
    PROVE  FlightOf(job) = {}
  BY DEF FlightOf, AtRecord

LEMMA BilledFlight ==
    ASSUME NEW job \in AtRecord
    PROVE  /\ FlightOf(Billed(job)) = FlightOf(job)
           /\ \/ Billed(job).pc = "record"
              \/ /\ Billed(job).pc = "increment" /\ Billed(job).event = job.event
                 /\ ~Billed(job).duplicate
  <1>1. CASE job.duplicate
    <2>1. Billed(job) = NextRecord(job, job.left)
      BY <1>1 DEF Billed
    <2>2. Billed(job).pc = "record" /\ FlightOf(job) = {}
      BY <1>1, <2>1 DEF NextRecord, FlightOf
    <2>3. QED
      BY <2>2, NoFlight
  <1>2. CASE ~job.duplicate
    <2>1. Billed(job) = [job EXCEPT !.pc = "increment"]
      BY <1>2 DEF Billed
    <2>2. /\ Billed(job) \in AtRecord /\ Billed(job).pc = "increment"
          /\ Billed(job).event = job.event /\ Billed(job).duplicate = job.duplicate
      BY <2>1 DEF AtRecord
    <2>3. QED
      BY <1>2, <2>2 DEF FlightOf
  <1>3. QED
    BY <1>1, <1>2

LEMMA LookedUpFlight ==
    ASSUME NEW job \in AtRecord
    PROVE  /\ \/ FlightOf(LookedUp(job)) = FlightOf(job)
              \/ FlightOf(LookedUp(job)) = {} /\ Unknown(job.event)
           /\ \/ LookedUp(job).pc = "record"
              \/ /\ LookedUp(job).pc \in {"stripe", "increment"}
                 /\ LookedUp(job).event = job.event /\ ~Unknown(job.event)
                 /\ LookedUp(job).pc = "increment" => ~LookedUp(job).duplicate
  <1>1. CASE Unknown(job.event)
    <2>1. LookedUp(job) = NextRecord(job, job.left)
      BY <1>1 DEF LookedUp
    <2>2. LookedUp(job).pc = "record"
      BY <2>1 DEF NextRecord
    <2>3. QED
      BY <1>1, <2>2, NoFlight
  <1>2. CASE ~Unknown(job.event) /\ job.event.customer \in Accounts /\ ~StripeOff
    <2>1. LookedUp(job) = [job EXCEPT !.pc = "stripe"]
      BY <1>2 DEF LookedUp
    <2>2. /\ LookedUp(job) \in AtRecord /\ LookedUp(job).pc = "stripe"
          /\ LookedUp(job).event = job.event /\ LookedUp(job).duplicate = job.duplicate
      BY <2>1 DEF AtRecord
    <2>3. FlightOf(LookedUp(job)) = FlightOf(job)
      BY <2>2 DEF FlightOf
    <2>4. QED
      BY <1>2, <2>2, <2>3
  <1>3. CASE ~Unknown(job.event) /\ ~(job.event.customer \in Accounts /\ ~StripeOff)
    <2>1. LookedUp(job) = Billed(job)
      BY <1>3 DEF LookedUp
    <2>2. QED
      BY <1>3, <2>1, BilledFlight
  <1>4. QED
    BY <1>1, <1>2, <1>3

\* How the events in flight change with one invocation.
LEMMA FlightStep ==
    ASSUME TypeOK, FlightInv, NEW w \in Worker, NEW job,
           worker' = [worker EXCEPT ![w] = job],
           raw \subseteq raw', IsFiniteSet(raw'), raw' \subseteq Events, FlightOf(job) \subseteq raw',
           \/ FlightOf(job) \subseteq FlightOf(worker[w])
           \/ FlightOf(job) \intersect raw = {},
           job.pc = "increment" => ~job.duplicate,
           job.pc \in {"stripe", "increment"} => ~Unknown(job.event)
    PROVE  /\ FlightInv'
           /\ InFlight' = (InFlight \ FlightOf(worker[w])) \union FlightOf(job)
  <1>1. /\ worker'[w] = job
        /\ \A v \in Worker \ {w} : worker'[v] = worker[v]
    BY DEF TypeOK
  <1> DEFINE F(v) == FlightOf(worker[v])
             G == FlightOf(job)
  <1>2. FlightOf(worker'[w]) = G /\ \A v \in Worker \ {w} : FlightOf(worker'[v]) = F(v)
    BY <1>1
  <1>3. InFlight = {e \in Events : \E v \in Worker : e \in F(v)}
    BY FlightIs
  <1>4. InFlight' = {e \in Events : \E v \in Worker : e \in FlightOf(worker'[v])}
    BY DEF InFlight, FlightOf, AtRecord
  <1>5. /\ \A v \in Worker : F(v) \subseteq raw
        /\ \A u, v \in Worker : F(u) \intersect F(v) # {} => u = v
    BY DEF FlightInv
  <1>6. G \subseteq raw' /\ (G \subseteq F(w) \/ G \intersect raw = {})
    OBVIOUS
  <1>7. G \subseteq Events
    BY <1>6
  <1>8. \A v \in Worker : FlightOf(worker'[v]) \subseteq raw'
    <2>1. ASSUME NEW v \in Worker PROVE FlightOf(worker'[v]) \subseteq raw'
      <3>1. v # w => FlightOf(worker'[v]) = F(v)
        BY <1>2
      <3> HIDE DEF F, G
      <3>2. QED
        BY <1>2, <1>5, <1>6, <3>1
    <2>2. QED
      BY <2>1
  <1>9. \A v \in Worker \ {w} : G \intersect F(v) = {}
    <2> HIDE DEF F, G
    <2>1. ASSUME NEW v \in Worker \ {w}, NEW e \in G, e \in F(v) PROVE FALSE
      BY <1>5, <1>6, <2>1
    <2>2. QED
      BY <2>1
  <1>10. \A u, v \in Worker : FlightOf(worker'[u]) \intersect FlightOf(worker'[v]) # {} => u = v
    <2>1. ASSUME NEW u \in Worker, NEW v \in Worker, u # v,
                 NEW e, e \in FlightOf(worker'[u]), e \in FlightOf(worker'[v])
          PROVE  FALSE
      <3>1. CASE u # w /\ v # w
        <4>1. e \in F(u) /\ e \in F(v)
          BY <1>2, <2>1, <3>1
        <4> HIDE DEF F
        <4>2. QED
          BY <1>5, <2>1, <4>1
      <3>2. CASE u = w
        <4>1. e \in G /\ e \in F(v) /\ v \in Worker \ {w}
          BY <1>2, <2>1, <3>2
        <4> HIDE DEF F, G
        <4>2. QED
          BY <1>9, <4>1
      <3>3. CASE v = w
        <4>1. e \in G /\ e \in F(u) /\ u \in Worker \ {w}
          BY <1>2, <2>1, <3>3
        <4> HIDE DEF F, G
        <4>2. QED
          BY <1>9, <4>1
      <3>4. QED
        BY <3>1, <3>2, <3>3
    <2>2. QED
      BY <2>1
  <1>11. /\ \A v \in Worker : worker'[v].pc = "increment" => ~worker'[v].duplicate
         /\ \A v \in Worker : worker'[v].pc \in {"stripe", "increment"} => ~Unknown(worker'[v].event)
    BY <1>1 DEF FlightInv
  <1>12. FlightInv'
    BY <1>8, <1>10, <1>11 DEF FlightInv, FlightOf, AtRecord, Unknown
  <1>13. InFlight' = (InFlight \ F(w)) \union G
    <2>1. \A e \in Events : (\E v \in Worker : e \in FlightOf(worker'[v]))
                              <=> (e \in G \/ \E v \in Worker \ {w} : e \in F(v))
      <3> HIDE DEF F, G
      <3>1. QED
        BY <1>2
    <2>2. \A e \in Events : (\E v \in Worker \ {w} : e \in F(v))
                              <=> ((\E v \in Worker : e \in F(v)) /\ e \notin F(w))
      <3> HIDE DEF F, G
      <3>1. QED
        BY <1>5
    <2> HIDE DEF F, G
    <2>3. QED
      BY <1>3, <1>4, <1>7, <2>1, <2>2
  <1>14. QED
    BY <1>12, <1>13

(* What a step of the handler or of the gateway does to the events saved,  *)
(* those in flight and the totals: nothing; an event is saved, to be       *)
(* counted or, with a failure, not to be; or one in flight is left out, is *)
(* counted, or is counted as often as it was tried.                        *)
NoneMoves == UNCHANGED <<raw, monthly>> /\ InFlight' = InFlight

Saves(e) ==
    /\ e \notin raw /\ raw' = raw \union {e} /\ UNCHANGED monthly
    /\ InFlight' = InFlight \union {e} \/ (InFlight' = InFlight /\ faults' = faults + 1)

LeavesOut(e) == UNCHANGED monthly /\ (Unknown(e) \/ faults' = faults + 1)

CountsOnce(e) == ~Unknown(e) /\ Counts(e, 1)

CountsTries(e) == ~Unknown(e) /\ faults' = faults + 1 /\ \E n \in 0..(Retries + 1) : Counts(e, n)

Ends(e) ==
    /\ e \in InFlight /\ UNCHANGED raw /\ InFlight' = InFlight \ {e}
    /\ LeavesOut(e) \/ CountsOnce(e) \/ CountsTries(e)

Moves == NoneMoves \/ \E e \in Events : Saves(e) \/ Ends(e)

LEMMA RawInFlight ==
    ASSUME TypeOK, FlightInv
    PROVE  /\ raw \subseteq Events /\ IsFiniteSet(raw) /\ InFlight \subseteq raw
           /\ \A w \in Worker : FlightOf(worker[w]) \subseteq InFlight
  <1>1. raw \subseteq Events /\ IsFiniteSet(raw)
    BY DEF TypeOK, FlightInv
  <1>2. \A w \in Worker : FlightOf(worker[w]) \subseteq raw
    BY DEF FlightInv
  <1>3. InFlight = {e \in Events : \E w \in Worker : e \in FlightOf(worker[w])}
    BY FlightIs
  <1>4. QED
    BY <1>1, <1>2, <1>3

\* An invocation moves to a step where it has no event to count, or the same.
LEMMA Moved ==
    ASSUME TypeOK, FlightInv, NEW w \in Worker, NEW job,
           worker' = [worker EXCEPT ![w] = job], UNCHANGED raw,
           FlightOf(job) = {} \/ FlightOf(job) = FlightOf(worker[w]),
           job.pc = "increment" => ~job.duplicate,
           job.pc \in {"stripe", "increment"} => ~Unknown(job.event)
    PROVE  /\ FlightInv'
           /\ FlightOf(job) = FlightOf(worker[w]) => InFlight' = InFlight
           /\ FlightOf(job) = {} => InFlight' = InFlight \ FlightOf(worker[w])
  <1>1. raw \subseteq Events /\ IsFiniteSet(raw) /\ FlightOf(worker[w]) \subseteq InFlight /\ InFlight \subseteq raw
    BY RawInFlight
  <1>2. raw \subseteq raw' /\ IsFiniteSet(raw') /\ raw' \subseteq Events /\ FlightOf(job) \subseteq raw'
    BY <1>1
  <1>3. FlightOf(job) \subseteq FlightOf(worker[w])
    OBVIOUS
  <1>4. FlightInv' /\ InFlight' = (InFlight \ FlightOf(worker[w])) \union FlightOf(job)
    BY <1>2, <1>3, FlightStep
  <1>5. QED
    BY <1>1, <1>4

LEMMA StillFlight ==
    ASSUME TypeOK, FlightInv, UNCHANGED <<worker, raw>>
    PROVE  FlightInv' /\ InFlight' = InFlight
  BY DEF FlightInv, FlightOf, AtRecord, Unknown, InFlight

\* A record is saved, or fails with or without effect, and is not to be counted.
LEMMA NotToCount ==
    ASSUME TypeOK, FlightInv, NEW w \in Worker, worker[w].pc = "record", NEW job,
           NEW e \in Events, worker' = [worker EXCEPT ![w] = job],
           raw' = raw \/ raw' = raw \union {e},
           FlightOf(job) = {}, job.pc \in {"record", "customer"}
    PROVE  FlightInv' /\ InFlight' = InFlight
  <1>1. raw \subseteq Events /\ IsFiniteSet(raw)
    BY RawInFlight
  <1>2. IsFiniteSet(raw \union {e})
    BY <1>1, FS_AddElement
  <1>3. raw \subseteq raw' /\ IsFiniteSet(raw') /\ raw' \subseteq Events /\ FlightOf(job) \subseteq raw'
    BY <1>1, <1>2
  <1>4. FlightOf(worker[w]) = {}
    BY NoFlight
  <1>5. FlightInv' /\ InFlight' = (InFlight \ FlightOf(worker[w])) \union FlightOf(job)
    BY <1>3, FlightStep
  <1>6. QED
    BY <1>4, <1>5

LEMMA AtRecordFacts ==
    ASSUME TypeOK, NEW w \in Worker, worker[w].pc \in {"customer", "stripe", "increment"}
    PROVE  /\ worker[w] \in AtRecord /\ worker[w].event \in Events
           /\ \/ FlightOf(worker[w]) = {worker[w].event} /\ ~worker[w].duplicate
              \/ FlightOf(worker[w]) = {} /\ worker[w].duplicate
  <1>1. worker[w] \in AtRecord
    BY DEF TypeOK, BetweenRecords, Idle
  <1>2. QED
    BY <1>1 DEF AtRecord, FlightOf

LEMMA SaveMoves ==
    ASSUME TypeOK, FlightInv, NEW w \in Worker, SaveEvent(w)
    PROVE  FlightInv' /\ Moves /\ faults' = faults
  <1>1. PICK m \in worker[w].left : Saved(w, m, Duplicate(m.event))
    BY DEF SaveEvent
  <1>2. worker[w].pc = "record" /\ UNCHANGED <<monthly, faults>>
    BY DEF SaveEvent
  <1>3. worker[w] \in BetweenRecords
    BY <1>2 DEF TypeOK, AtRecord, Idle
  <1>4. m \in Message /\ m.event \in Events
    BY <1>1, <1>3 DEF BetweenRecords, Message
  <1>5. PICK job : job = [pc |-> "customer", batch |-> worker[w].batch, left |-> worker[w].left \ {m},
                          event |-> m.event, duplicate |-> Duplicate(m.event)]
    OBVIOUS
  <1>6. /\ raw' = raw \union {m.event} /\ worker' = [worker EXCEPT ![w] = job]
        /\ job.pc = "customer"
    BY <1>1, <1>5 DEF Saved
  <1>7. job \in AtRecord
    BY <1>3, <1>4, <1>5 DEF AtRecord, BetweenRecords, Duplicate
  <1>8. CASE m.event \in raw
    <2>1. FlightOf(job) = {}
      BY <1>5, <1>8 DEF Duplicate, FlightOf
    <2>2. raw' = raw
      BY <1>6, <1>8
    <2>3. FlightInv' /\ InFlight' = InFlight
      BY <1>2, <1>4, <1>6, <2>1, <2>2, NotToCount
    <2>4. QED
      BY <1>2, <2>2, <2>3 DEF Moves, NoneMoves
  <1>9. CASE m.event \notin raw
    <2>1. FlightOf(job) = {m.event}
      BY <1>5, <1>7, <1>9 DEF Duplicate, FlightOf
    <2>2. raw \subseteq Events /\ IsFiniteSet(raw)
      BY RawInFlight
    <2>3. raw \subseteq raw' /\ IsFiniteSet(raw') /\ raw' \subseteq Events /\ FlightOf(job) \subseteq raw'
      BY <1>4, <1>6, <2>1, <2>2, FS_AddElement
    <2>4. FlightOf(job) \intersect raw = {} /\ FlightOf(worker[w]) = {}
      BY <1>2, <1>9, <2>1, NoFlight
    <2>5. FlightInv' /\ InFlight' = (InFlight \ FlightOf(worker[w])) \union FlightOf(job)
      BY <1>6, <2>3, <2>4, FlightStep
    <2>6. InFlight' = InFlight \union {m.event}
      BY <2>1, <2>4, <2>5
    <2>7. Saves(m.event)
      BY <1>2, <1>6, <1>9, <2>6 DEF Saves
    <2>8. QED
      BY <1>2, <1>4, <2>5, <2>7 DEF Moves
  <1>10. QED
    BY <1>8, <1>9

LEMMA LookupMoves ==
    ASSUME TypeOK, FlightInv, NEW w \in Worker, LookupCustomer(w)
    PROVE  FlightInv' /\ Moves /\ faults' = faults
  <1>1. /\ worker[w].pc = "customer" /\ UNCHANGED <<raw, monthly, faults>>
        /\ worker' = [worker EXCEPT ![w] = LookedUp(worker[w])]
    BY DEF LookupCustomer
  <1>2. /\ worker[w] \in AtRecord /\ worker[w].event \in Events
        /\ FlightOf(worker[w]) \in {{worker[w].event}, {}}
    BY <1>1, AtRecordFacts
  <1>3. PICK job : job = LookedUp(worker[w])
    OBVIOUS
  <1>4. /\ FlightOf(job) = FlightOf(worker[w]) \/ (FlightOf(job) = {} /\ Unknown(worker[w].event))
        /\ job.pc = "increment" => ~job.duplicate
        /\ job.pc \in {"stripe", "increment"} => ~Unknown(job.event)
    BY <1>2, <1>3, LookedUpFlight
  <1>5. /\ FlightInv'
        /\ FlightOf(job) = FlightOf(worker[w]) => InFlight' = InFlight
        /\ FlightOf(job) = {} => InFlight' = InFlight \ FlightOf(worker[w])
    BY <1>1, <1>3, <1>4, Moved
  <1>6. CASE InFlight' = InFlight
    BY <1>1, <1>5, <1>6 DEF Moves, NoneMoves
  <1>7. CASE InFlight' # InFlight
    <2>1. /\ Unknown(worker[w].event) /\ FlightOf(worker[w]) = {worker[w].event}
          /\ InFlight' = InFlight \ {worker[w].event}
      BY <1>2, <1>4, <1>5, <1>7
    <2>2. worker[w].event \in InFlight
      BY <2>1, RawInFlight
    <2>3. Ends(worker[w].event)
      BY <1>1, <2>1, <2>2 DEF Ends, LeavesOut
    <2>4. QED
      BY <1>1, <1>2, <1>5, <2>3 DEF Moves
  <1>8. QED
    BY <1>6, <1>7

\* An invocation goes on to its next record, or stops.
LEMMA GoesOnMoves ==
    ASSUME TypeOK, FlightInv, NEW w \in Worker, NEW job, job.pc = "record" \/ job.pc = "idle",
           worker' = [worker EXCEPT ![w] = job], UNCHANGED raw
    PROVE  FlightInv' /\ InFlight' = InFlight \ FlightOf(worker[w])
  <1>1. FlightOf(job) = {}
    BY NoFlight
  <1>2. job.pc # "increment" /\ job.pc # "stripe"
    OBVIOUS
  <1>3. QED
    BY <1>1, <1>2, Moved

LEMMA IncrementMoves ==
    ASSUME TypeOK, FlightInv, NEW w \in Worker, worker[w].pc = "increment", UNCHANGED raw,
           worker' = [worker EXCEPT ![w] = NextRecord(worker[w], worker[w].left)],
           \/ CountsOnce(worker[w].event) \/ CountsTries(worker[w].event)
           \/ UNCHANGED monthly /\ faults' = faults + 1
           \/ Unknown(worker[w].event)
    PROVE  FlightInv' /\ Moves
  <1>1. PICK job : job = NextRecord(worker[w], worker[w].left)
    OBVIOUS
  <1>2. job.pc = "record"
    BY <1>1 DEF NextRecord
  <1>3. FlightInv' /\ InFlight' = InFlight \ FlightOf(worker[w])
    BY <1>1, <1>2, GoesOnMoves
  <1>4. ~worker[w].duplicate /\ ~Unknown(worker[w].event)
    BY DEF FlightInv
  <1>5. FlightOf(worker[w]) = {worker[w].event} /\ worker[w].event \in Events
    BY <1>4, AtRecordFacts
  <1>6. worker[w].event \in InFlight
    BY <1>5, RawInFlight
  <1>7. Ends(worker[w].event)
    BY <1>3, <1>4, <1>5, <1>6 DEF Ends, LeavesOut
  <1>8. QED
    BY <1>3, <1>5, <1>7 DEF Moves

LEMMA HandlerMoves ==
    ASSUME TypeOK, FlightInv, NEW w \in Worker, Handler(w)
    PROVE  FlightInv' /\ Moves /\ faults' = faults
  <1>1. ASSUME NEW ms \in SUBSET queue, Receive(w, ms)
        PROVE  FlightInv' /\ Moves /\ faults' = faults
    <2> DEFINE batch == {[m EXCEPT !.receives = @ + 1] : m \in ms}
    <2>1. PICK job : /\ worker' = [worker EXCEPT ![w] = job] /\ job.pc = "record"
      <3>1. PICK job : job = [pc |-> "record", batch |-> batch, left |-> batch]
        OBVIOUS
      <3>2. worker' = [worker EXCEPT ![w] = job]
        BY <1>1, <3>1 DEF Receive
      <3> HIDE DEF batch
      <3>3. job.pc = "record"
        BY <3>1
      <3>4. QED
        BY <3>2, <3>3
    <2>2. worker[w].pc = "idle" /\ UNCHANGED <<raw, monthly, faults>>
      BY <1>1 DEF Receive, Idle
    <2>3. FlightOf(worker[w]) = {}
      BY <2>2, NoFlight
    <2>4. FlightInv' /\ InFlight' = InFlight \ FlightOf(worker[w])
      BY <2>1, <2>2, GoesOnMoves
    <2>5. InFlight' = InFlight
      BY <2>3, <2>4
    <2>6. QED
      BY <2>2, <2>4, <2>5 DEF Moves, NoneMoves
  <1>2. ASSUME SendMeterEvent(w)
        PROVE  FlightInv' /\ Moves /\ faults' = faults
    <2>1. /\ worker[w].pc = "stripe" /\ UNCHANGED <<raw, monthly, faults>>
          /\ worker' = [worker EXCEPT ![w] = Billed(worker[w])]
      BY <1>2 DEF SendMeterEvent
    <2>2. worker[w] \in AtRecord
      BY <2>1, AtRecordFacts
    <2>3. PICK job : job = Billed(worker[w])
      OBVIOUS
    <2>4. ~Unknown(worker[w].event)
      BY <2>1 DEF FlightInv
    <2>5. /\ FlightOf(job) = FlightOf(worker[w])
          /\ job.pc = "increment" => ~job.duplicate
          /\ job.pc \in {"stripe", "increment"} => ~Unknown(job.event)
      BY <2>2, <2>3, <2>4, BilledFlight
    <2>6. FlightInv' /\ InFlight' = InFlight
      BY <2>1, <2>3, <2>5, Moved
    <2>7. QED
      BY <2>1, <2>6 DEF Moves, NoneMoves
  <1>3. ASSUME Increment(w)
        PROVE  FlightInv' /\ Moves /\ faults' = faults
    <2>1. /\ worker[w].pc = "increment" /\ UNCHANGED <<raw, faults>>
          /\ worker' = [worker EXCEPT ![w] = NextRecord(worker[w], worker[w].left)]
          /\ Counts(worker[w].event, 1)
      BY <1>3 DEF Increment
    <2>2. CountsOnce(worker[w].event) \/ Unknown(worker[w].event)
      BY <2>1 DEF CountsOnce
    <2>3. QED
      BY <2>1, <2>2, IncrementMoves
  <1>4. ASSUME Return(w)
        PROVE  FlightInv' /\ Moves /\ faults' = faults
    <2>1. /\ worker[w].pc = "record" /\ UNCHANGED <<raw, monthly, faults>>
          /\ worker' = [worker EXCEPT ![w] = Idle] /\ Idle.pc = "idle"
      BY <1>4 DEF Return, Idle
    <2> PICK job : job = Idle
      OBVIOUS
    <2>2. FlightOf(worker[w]) = {}
      BY <2>1, NoFlight
    <2>3. FlightInv' /\ InFlight' = InFlight \ FlightOf(worker[w])
      BY <2>1, GoesOnMoves
    <2>4. InFlight' = InFlight
      BY <2>2, <2>3
    <2>5. QED
      BY <2>1, <2>3, <2>4 DEF Moves, NoneMoves
  <1>5. QED
    BY <1>1, <1>2, <1>3, <1>4, SaveMoves, LookupMoves DEF Handler

LEMMA CallFailsMoves ==
    ASSUME TypeOK, FlightInv, NEW w \in Worker, CallFails(w)
    PROVE  FlightInv' /\ Moves /\ faults' = faults + 1
  <1>1. faults' = faults + 1
    BY DEF CallFails
  <1>2. ASSUME worker[w].pc = "record", NEW m \in worker[w].left,
               raw' \in {raw, raw \union {m.event}}, UNCHANGED monthly,
               worker' = [worker EXCEPT ![w] = NextRecord(worker[w], worker[w].left \ {m})]
        PROVE  FlightInv' /\ Moves
    <2>1. worker[w] \in BetweenRecords
      BY <1>2 DEF TypeOK, AtRecord, Idle
    <2>2. m.event \in Events
      BY <1>2, <2>1 DEF BetweenRecords, Message
    <2>3. PICK job : job = NextRecord(worker[w], worker[w].left \ {m})
      OBVIOUS
    <2>4. job.pc = "record"
      BY <2>3 DEF NextRecord
    <2>5. FlightOf(job) = {}
      BY <2>4, NoFlight
    <2>6. raw' = raw \/ raw' = raw \union {m.event}
      BY <1>2
    <2>7. FlightInv' /\ InFlight' = InFlight
      BY <1>2, <2>2, <2>3, <2>4, <2>5, <2>6, NotToCount
    <2>8. CASE raw' = raw
      BY <1>2, <2>7, <2>8 DEF Moves, NoneMoves
    <2>9. CASE raw' # raw
      <3>1. Saves(m.event)
        BY <1>1, <1>2, <2>6, <2>7, <2>9 DEF Saves
      <3>2. QED
        BY <2>2, <2>7, <3>1 DEF Moves
    <2>10. QED
      BY <2>8, <2>9
  <1>3. ASSUME worker[w].pc \in {"customer", "stripe", "increment"}, UNCHANGED raw,
               \/ UNCHANGED monthly
               \/ /\ worker[w].pc = "increment"
                  /\ \E times \in 1..(Retries + 1) : Counts(worker[w].event, times),
               worker' = [worker EXCEPT ![w] = NextRecord(worker[w], worker[w].left)]
        PROVE  FlightInv' /\ Moves
    <2>1. CASE worker[w].pc = "increment"
      <3>1. UNCHANGED monthly \/ \E times \in 0..(Retries + 1) : Counts(worker[w].event, times)
        BY <1>3, EgressAssumption
      <3>2. \/ CountsOnce(worker[w].event) \/ CountsTries(worker[w].event)
            \/ UNCHANGED monthly /\ faults' = faults + 1
            \/ Unknown(worker[w].event)
        BY <1>1, <3>1 DEF CountsTries
      <3>3. QED
        BY <1>3, <2>1, <3>2, IncrementMoves
    <2>2. CASE worker[w].pc # "increment"
      <3>1. UNCHANGED monthly
        BY <1>3, <2>2
      <3>2. PICK job : job = NextRecord(worker[w], worker[w].left)
        OBVIOUS
      <3>3. job.pc = "record"
        BY <3>2 DEF NextRecord
      <3>4. FlightInv' /\ InFlight' = InFlight \ FlightOf(worker[w])
        BY <1>3, <3>2, <3>3, GoesOnMoves
      <3>5. CASE FlightOf(worker[w]) = {}
        <4>1. InFlight' = InFlight
          BY <3>4, <3>5
        <4>2. QED
          BY <1>3, <3>1, <3>4, <4>1 DEF Moves, NoneMoves
      <3>6. CASE FlightOf(worker[w]) # {}
        <4>1. FlightOf(worker[w]) = {worker[w].event} /\ worker[w].event \in Events
          BY <1>3, <3>6, AtRecordFacts
        <4>2. worker[w].event \in InFlight
          BY <4>1, RawInFlight
        <4>3. Ends(worker[w].event)
          BY <1>1, <1>3, <3>1, <3>4, <4>1, <4>2 DEF Ends, LeavesOut
        <4>4. QED
          BY <3>4, <4>1, <4>3 DEF Moves
      <3>7. QED
        BY <3>5, <3>6
    <2>3. QED
      BY <2>1, <2>2
  <1>4. QED
    BY <1>1, <1>2, <1>3 DEF CallFails

LEMMA ResendMoves ==
    ASSUME TypeOK, FlightInv, NEW w \in Worker, Resend(w)
    PROVE  FlightInv' /\ Moves /\ faults' = faults + 1
  <1>1. faults' = faults + 1
    BY DEF Resend
  <1>2. ASSUME worker[w].pc = "record", NEW m \in worker[w].left, Saved(w, m, TRUE), UNCHANGED monthly
        PROVE  FlightInv' /\ Moves
    <2>1. worker[w] \in BetweenRecords
      BY <1>2 DEF TypeOK, AtRecord, Idle
    <2>2. m.event \in Events
      BY <1>2, <2>1 DEF BetweenRecords, Message
    <2>3. PICK job : job = [pc |-> "customer", batch |-> worker[w].batch, left |-> worker[w].left \ {m},
                            event |-> m.event, duplicate |-> TRUE]
      OBVIOUS
    <2>4. raw' = raw \union {m.event} /\ worker' = [worker EXCEPT ![w] = job] /\ job.pc = "customer"
      BY <1>2, <2>3 DEF Saved
    <2>5. FlightOf(job) = {}
      BY <2>3 DEF FlightOf
    <2>6. FlightInv' /\ InFlight' = InFlight
      BY <1>2, <2>2, <2>4, <2>5, NotToCount
    <2>7. CASE m.event \in raw
      <3>1. UNCHANGED raw
        BY <2>4, <2>7
      <3>2. QED
        BY <1>2, <2>6, <3>1 DEF Moves, NoneMoves
    <2>8. CASE m.event \notin raw
      <3>1. Saves(m.event)
        BY <1>1, <1>2, <2>4, <2>6, <2>8 DEF Saves
      <3>2. QED
        BY <2>2, <2>6, <3>1 DEF Moves
    <2>9. QED
      BY <2>7, <2>8
  <1>3. ASSUME worker[w].pc = "increment", UNCHANGED raw,
               \E again \in 1..Retries : Counts(worker[w].event, 1 + again),
               worker' = [worker EXCEPT ![w] = NextRecord(worker[w], worker[w].left)]
        PROVE  FlightInv' /\ Moves
    <2>1. CountsTries(worker[w].event) \/ Unknown(worker[w].event)
      <3>1. PICK again \in 1..Retries : Counts(worker[w].event, 1 + again)
        BY <1>3
      <3>2. 1 + again \in 0..(Retries + 1)
        BY EgressAssumption
      <3>3. QED
        BY <1>1, <3>1, <3>2 DEF CountsTries
    <2>2. QED
      BY <1>3, <2>1, IncrementMoves
  <1>4. QED
    BY <1>1, <1>2, <1>3 DEF Resend

LEMMA CrashMoves ==
    ASSUME TypeOK, FlightInv, NEW w \in Worker, Crash(w)
    PROVE  FlightInv' /\ Moves /\ faults' = faults + 1
  <1>1. /\ faults' = faults + 1 /\ UNCHANGED <<raw, monthly>>
        /\ worker' = [worker EXCEPT ![w] = Idle]
    BY DEF Crash
  <1>2. PICK job : job = Idle
    OBVIOUS
  <1>3. job.pc = "idle"
    BY <1>2 DEF Idle
  <1>4. FlightInv' /\ InFlight' = InFlight \ FlightOf(worker[w])
    BY <1>1, <1>2, <1>3, GoesOnMoves
  <1>5. CASE FlightOf(worker[w]) = {}
    <2>1. InFlight' = InFlight
      BY <1>4, <1>5
    <2>2. QED
      BY <1>1, <1>4, <2>1 DEF Moves, NoneMoves
  <1>6. CASE FlightOf(worker[w]) # {}
    <2>1. PICK e \in Events : FlightOf(worker[w]) = {e}
      BY <1>6 DEF FlightOf, AtRecord
    <2>2. e \in InFlight
      BY <2>1, RawInFlight
    <2>3. Ends(e)
      BY <1>1, <1>4, <2>1, <2>2 DEF Ends, LeavesOut
    <2>4. QED
      BY <1>1, <1>4, <2>3 DEF Moves
  <1>7. QED
    BY <1>5, <1>6

LEMMA FlightMoves ==
    ASSUME TypeOK, FlightInv, Next
    PROVE  FlightInv' /\ Moves /\ (faults' = faults \/ faults' = faults + 1)
  <1>1. CASE Gateway
    <2>1. UNCHANGED <<worker, raw, monthly, faults>>
      BY <1>1 DEF Gateway, Record
    <2>2. FlightInv' /\ InFlight' = InFlight
      BY <2>1, StillFlight
    <2>3. QED
      BY <2>1, <2>2 DEF Moves, NoneMoves
  <1>2. QED
    BY <1>1, HandlerMoves, CallFailsMoves, ResendMoves, CrashMoves DEF Next

LEMMA SumType ==
    ASSUME ScriptTypeOK, NEW k
    PROVE  SumOf(aggregates, k).bytes \in Nat /\ SumOf(aggregates, k).eventCount \in Nat
  <1> DEFINE of == {e \in aggregates : KeyOf(e) = k}
  <1>1. aggregates \in SUBSET AllEvents /\ IsFiniteSet(aggregates)
    BY DEF ScriptTypeOK, AllEvents
  <1>2. of \in SUBSET AllEvents /\ IsFiniteSet(of)
    BY <1>1, FS_Subset
  <1>3. SumOf(aggregates, k) = [bytes |-> Bytes(of), eventCount |-> Cardinality(of)]
    BY DEF SumOf
  <1> HIDE DEF of
  <1>4. QED
    BY <1>2, <1>3, BytesType

LEMMA TriesFacts == Tries \in Nat /\ 1 <= Tries /\ Tries = Retries + 1
  BY EgressAssumption DEF Tries

LEMMA MoreRuns ==
    ASSUME NEW x \in Int, NEW y \in Int, x <= y
    PROVE  /\ Tries * x \in Int /\ Tries * y \in Int /\ Tries * x <= Tries * y
           /\ x + 1 <= y => Tries * x + Tries <= Tries * y
  <1>1. PICK l \in Nat : l = Tries
    BY TriesFacts
  <1>2. PICK d \in Nat : y = x + d
    <2>1. y - x \in Nat /\ y = x + (y - x)
      OBVIOUS
    <2>2. QED
      BY <2>1
  <1>3. l * y = l * x + l * d /\ l * x \in Int /\ l * y \in Int /\ l * d \in Nat
    BY <1>2
  <1>4. ASSUME x + 1 <= y PROVE l * x + l <= l * y
    <2>1. PICK c \in Nat : d = c + 1
      <3>1. d - 1 \in Nat /\ d = (d - 1) + 1
        BY <1>2, <1>4
      <3>2. QED
        BY <3>1
    <2>2. l * d = l * c + l /\ l * c \in Nat
      BY <2>1
    <2>3. QED
      BY <1>3, <2>2
  <1>5. QED
    BY <1>1, <1>3, <1>4

LEMMA LessTwice ==
    ASSUME NEW x \in Int, NEW y \in Int, x <= y, NEW a \in Int, NEW b \in Int
    PROVE  /\ x + 1 - a - b \in Int /\ y + 1 - a - b \in Int
           /\ x + 1 - a - b <= y + 1 - a - b
  OBVIOUS

LEMMA DueStays ==
    ASSUME faults \in Nat, faults' \in Nat, faults <= faults', UNCHANGED backfill,
           NEW k, NEW t \in Nat, Due(k, t)
    PROVE  Due(k, t)'
  <1>1. UNCHANGED <<script, added, unsure, wanted>>
    BY DEF backfill
  <1>2. RunsFor(k) \in Int /\ RunsFor(k)' \in Int /\ RunsFor(k) <= RunsFor(k)'
    <2>1. PICK a \in Int, b \in Int :
            /\ a = (IF wanted THEN 1 ELSE 0)
            /\ b = (IF script.pc = "write" /\ k \in script.left THEN 1 ELSE 0)
      <3>1. (IF wanted THEN 1 ELSE 0) \in Int
        OBVIOUS
      <3>2. (IF script.pc = "write" /\ k \in script.left THEN 1 ELSE 0) \in Int
        OBVIOUS
      <3>3. QED
        BY <3>1, <3>2
    <2>2. RunsFor(k) = faults + 1 - a - b
      BY <2>1 DEF RunsFor
    <2>3. RunsFor(k)' = faults' + 1 - a - b
      BY <1>1, <2>1 DEF RunsFor
    <2>4. PICK x \in Nat, y \in Nat : x = faults /\ y = faults' /\ x <= y
      OBVIOUS
    <2>5. x + 1 - a - b \in Int /\ y + 1 - a - b \in Int /\ x + 1 - a - b <= y + 1 - a - b
      <3>1. x \in Int /\ y \in Int
        BY <2>4
      <3>2. QED
        BY <2>4, <3>1, LessTwice
    <2>6. RunsFor(k) = x + 1 - a - b /\ RunsFor(k)' = y + 1 - a - b
      BY <2>2, <2>3, <2>4
    <2>7. QED
      BY <2>5, <2>6
  <1>3. t <= Tries * RunsFor(k)
    BY DEF Due
  <1>4. t <= Tries * RunsFor(k)'
    BY <1>2, <1>3, MoreRuns
  <1>5. QED
    BY <1>1, <1>4 DEF Due

LEMMA OverFacts ==
    ASSUME TypeOK, FlightInv
    PROVE  /\ Over \in SUBSET Events /\ IsFiniteSet(Over) /\ Over \subseteq raw \ InFlight
           /\ Over = {x \in raw \ InFlight : ~Unknown(x)}
           /\ raw \ InFlight \subseteq Events /\ IsFiniteSet(raw \ InFlight)
  <1>1. Over = {x \in raw \ InFlight : ~Unknown(x)}
    BY DEF Over, Countable
  <1>2. raw \subseteq Events /\ IsFiniteSet(raw)
    BY RawInFlight
  <1>3. IsFiniteSet(Over) /\ IsFiniteSet(raw \ InFlight)
    BY <1>1, <1>2, FS_Subset
  <1>4. QED
    BY <1>1, <1>2, <1>3

LEMMA OverNext == Over' = {x \in raw' \ InFlight' : ~Unknown(x)}
  BY DEF Over, Countable, Unknown

LEMMA CountingIsNatural == Counting \subseteq [Events -> Nat]
  BY EgressAssumption DEF Counting

\* What is to be shown of the next state.
LEMMA TallyNext ==
    ASSUME NEW d \in Counting,
           Cardinality({e \in raw' \ InFlight' : d[e] # 1}) <= faults',
           \A k \in MonthKey : \E t \in Nat :
             Due(k, t)' /\ monthly'[k] = Plus(Live(Over', d, k), SumOf(aggregates', k), t)
    PROVE  TallyInv'
  <1>1. Tally(d)'
    BY DEF Tally, Off, SumOf, KeyOf, Bytes, Live, Plus
  <1>2. QED
    BY <1>1 DEF TallyInv, Counting

\* An event whose increment is over was counted some times, others than once only
\* with a failure.
LEMMA TallyCounted ==
    ASSUME TypeOK, FlightInv, ScriptTypeOK, TallyInv, UNCHANGED backfill,
           faults' \in Nat, faults <= faults',
           NEW e \in Events, e \notin raw \ InFlight, ~Unknown(e),
           raw' \ InFlight' = (raw \ InFlight) \union {e},
           NEW n \in 0..(Retries + 1), n = 1 \/ faults' = faults + 1,
           \A k \in MonthKey :
             monthly'[k] = IF k = KeyOf(e) THEN Added(monthly[k], e, n) ELSE monthly[k]
    PROVE  TallyInv'
  <1>1. PICK c \in Counting : Tally(c)
    BY DEF TallyInv
  <1>2. PICK d : d = [c EXCEPT ![e] = n]
    OBVIOUS
  <1>3. d \in Counting /\ d[e] = n /\ \A x \in Events \ {e} : d[x] = c[x]
    BY <1>1, <1>2 DEF Counting
  <1>4. /\ Over \in SUBSET Events /\ IsFiniteSet(Over) /\ e \notin Over
        /\ Over' = Over \union {e} /\ \A x \in Over : d[x] = c[x]
    BY <1>3, OverFacts, OverNext
  <1>5. c \in [Events -> Nat] /\ d \in [Events -> Nat] /\ n \in Nat
    BY <1>1, <1>3, CountingIsNatural, EgressAssumption
  <1>6. faults \in Nat /\ UNCHANGED aggregates
    BY DEF TypeOK, backfill
  <1>7. ASSUME NEW k \in MonthKey
        PROVE  \E t \in Nat :
                 Due(k, t)' /\ monthly'[k] = Plus(Live(Over', d, k), SumOf(aggregates', k), t)
    <2>1. PICK t \in Nat : Due(k, t) /\ monthly[k] = Plus(Live(Over, c, k), SumOf(aggregates, k), t)
      BY <1>1 DEF Tally
    <2>2. Due(k, t)'
      BY <1>6, <2>1, DueStays
    <2>3. Live(Over', d, k) = IF k = KeyOf(e) THEN Added(Live(Over, c, k), e, n) ELSE Live(Over, c, k)
      BY <1>3, <1>4, <1>5, LiveAdds
    <2>4. Added(Plus(Live(Over, c, k), SumOf(aggregates, k), t), e, n)
            = Plus(Added(Live(Over, c, k), e, n), SumOf(aggregates, k), t)
      BY <1>4, <1>5, LiveType, SumType, AddedToPlus
    <2>5. monthly'[k] = Plus(Live(Over', d, k), SumOf(aggregates', k), t)
      BY <1>6, <2>1, <2>3, <2>4
    <2>6. QED
      BY <2>2, <2>5
  <1>8. Cardinality({x \in raw' \ InFlight' : d[x] # 1}) <= faults'
    <2>1. PICK S : S = Off(c)
      OBVIOUS
    <2>2. IsFiniteSet(S) /\ Cardinality(S) <= faults /\ S = {x \in raw \ InFlight : c[x] # 1}
      BY <1>1, <2>1, OverFacts, FS_Subset DEF Tally, Off
    <2>3. e \notin S /\ Cardinality(S) \in Nat /\ Cardinality(S \union {e}) = Cardinality(S) + 1
      BY <2>2, FS_AddElement, FS_CardinalityType
    <2>4. {x \in raw' \ InFlight' : d[x] # 1} = IF n = 1 THEN S ELSE S \union {e}
      BY <1>3, <2>2, OverFacts
    <2>5. CASE n = 1
      <3>1. Cardinality({x \in raw' \ InFlight' : d[x] # 1}) = Cardinality(S)
        BY <2>4, <2>5
      <3>2. Cardinality(S) <= faults'
        BY <1>6, <2>2, <2>3
      <3>3. QED
        BY <3>1, <3>2
    <2>6. CASE n # 1
      <3>1. {x \in raw' \ InFlight' : d[x] # 1} = S \union {e}
        BY <2>4, <2>6
      <3>2. Cardinality(S) + 1 <= faults'
        BY <1>6, <2>2, <2>3, <2>6
      <3>3. QED
        BY <2>3, <3>1, <3>2
    <2>7. QED
      BY <2>5, <2>6
  <1>9. QED
    BY <1>3, <1>7, <1>8, TallyNext

\* The total stays when no event is over, or one of a customer nobody knows.
LEMMA TallyStays ==
    ASSUME TypeOK, FlightInv, ScriptTypeOK, TallyInv, UNCHANGED backfill,
           faults' \in Nat, faults <= faults', UNCHANGED monthly,
           \/ raw' \ InFlight' = raw \ InFlight
           \/ \E e \in Events : /\ e \notin raw \ InFlight /\ Unknown(e)
                                /\ raw' \ InFlight' = (raw \ InFlight) \union {e}
    PROVE  TallyInv'
  <1>1. PICK c \in Counting : Tally(c)
    BY DEF TallyInv
  <1>2. PICK d \in Counting : /\ \A x \in raw \ InFlight : d[x] = c[x]
                              /\ {x \in raw' \ InFlight' : d[x] # 1} = Off(c)
                              /\ Over' = Over
    <2>1. CASE raw' \ InFlight' = raw \ InFlight
      <3>1. Over' = Over
        BY <2>1, OverFacts, OverNext
      <3>2. QED
        BY <1>1, <2>1, <3>1 DEF Off
    <2>2. ASSUME NEW e \in Events, e \notin raw \ InFlight, Unknown(e),
                 raw' \ InFlight' = (raw \ InFlight) \union {e}
          PROVE  \E d \in Counting : /\ \A x \in raw \ InFlight : d[x] = c[x]
                                     /\ {x \in raw' \ InFlight' : d[x] # 1} = Off(c)
                                     /\ Over' = Over
      <3>1. PICK d : d = [c EXCEPT ![e] = 1]
        OBVIOUS
      <3>2. d \in Counting /\ d[e] = 1 /\ \A x \in Events \ {e} : d[x] = c[x]
        <4>1. 1 \in 0..(Retries + 1)
          BY EgressAssumption
        <4>2. QED
          BY <1>1, <3>1, <4>1 DEF Counting
      <3>3. \A x \in raw \ InFlight : d[x] = c[x]
        BY <2>2, <3>2, OverFacts
      <3>4. {x \in raw' \ InFlight' : d[x] # 1} = Off(c)
        BY <2>2, <3>2, <3>3 DEF Off
      <3>5. Over' = Over
        BY <2>2, OverFacts, OverNext
      <3>6. QED
        BY <3>2, <3>3, <3>4, <3>5
    <2>3. QED
      BY <2>1, <2>2
  <1>3. Over \in SUBSET Events /\ \A x \in Over : d[x] = c[x]
    BY <1>2, OverFacts
  <1>4. c \in [Events -> Nat] /\ faults \in Nat /\ UNCHANGED aggregates
    BY <1>1, CountingIsNatural DEF TypeOK, backfill
  <1>5. ASSUME NEW k \in MonthKey
        PROVE  \E t \in Nat :
                 Due(k, t)' /\ monthly'[k] = Plus(Live(Over', d, k), SumOf(aggregates', k), t)
    <2>1. PICK t \in Nat : Due(k, t) /\ monthly[k] = Plus(Live(Over, c, k), SumOf(aggregates, k), t)
      BY <1>1 DEF Tally
    <2>2. Due(k, t)'
      BY <1>4, <2>1, DueStays
    <2>3. Live(Over', d, k) = Live(Over, c, k)
      BY <1>2, <1>3, <1>4, LiveSame
    <2>4. QED
      BY <1>4, <2>1, <2>2, <2>3
  <1>6. Cardinality(Off(c)) \in Nat /\ Cardinality(Off(c)) <= faults
    <2>1. IsFiniteSet(Off(c))
      BY OverFacts, FS_Subset DEF Off
    <2>2. QED
      BY <1>1, <2>1, FS_CardinalityType DEF Tally
  <1>7. QED
    BY <1>2, <1>4, <1>5, <1>6, TallyNext

LEMMA TallyMoves ==
    ASSUME TypeOK, FlightInv, ScriptTypeOK, Moves, UNCHANGED backfill,
           faults' = faults \/ faults' = faults + 1, TallyInv
    PROVE  TallyInv'
  <1>1. raw \subseteq Events /\ InFlight \subseteq raw
    BY RawInFlight
  <1>2. faults \in Nat /\ faults' \in Nat /\ faults <= faults'
    BY EgressAssumption DEF TypeOK
  <1>3. CASE NoneMoves
    BY <1>2, <1>3, TallyStays DEF NoneMoves
  <1>4. ASSUME NEW e \in Events, UNCHANGED monthly
        PROVE  \A k \in MonthKey :
                 monthly'[k] = IF k = KeyOf(e) THEN Added(monthly[k], e, 0) ELSE monthly[k]
    BY <1>4, AddedNone DEF TypeOK
  <1>5. ASSUME NEW e \in Events, NEW n, Counts(e, n)
        PROVE  \A k \in MonthKey :
                 monthly'[k] = IF k = KeyOf(e) THEN Added(monthly[k], e, n) ELSE monthly[k]
    BY <1>5 DEF Counts, TypeOK
  <1>6. 0 \in 0..(Retries + 1) /\ 1 \in 0..(Retries + 1)
    BY EgressAssumption
  <1>7. ASSUME NEW e \in Events, Saves(e) PROVE TallyInv'
    <2>1. e \notin raw /\ raw' = raw \union {e} /\ UNCHANGED monthly
      BY <1>7 DEF Saves
    <2>2. CASE InFlight' = InFlight \union {e}
      <3>1. raw' \ InFlight' = raw \ InFlight
        BY <1>1, <2>1, <2>2
      <3>2. QED
        BY <1>2, <2>1, <3>1, TallyStays
    <2>3. CASE InFlight' = InFlight /\ faults' = faults + 1
      <3>1. e \notin raw \ InFlight /\ raw' \ InFlight' = (raw \ InFlight) \union {e}
        BY <1>1, <2>1, <2>3
      <3>2. CASE Unknown(e)
        BY <1>2, <2>1, <3>1, <3>2, TallyStays
      <3>3. CASE ~Unknown(e)
        BY <1>2, <1>4, <1>6, <2>1, <2>3, <3>1, <3>3, TallyCounted
      <3>4. QED
        BY <3>2, <3>3
    <2>4. QED
      BY <1>7, <2>2, <2>3 DEF Saves
  <1>8. ASSUME NEW e \in Events, Ends(e) PROVE TallyInv'
    <2>1. /\ e \notin raw \ InFlight /\ raw' \ InFlight' = (raw \ InFlight) \union {e}
      BY <1>1, <1>8 DEF Ends
    <2>2. CASE UNCHANGED monthly /\ Unknown(e)
      BY <1>2, <2>1, <2>2, TallyStays
    <2>3. CASE UNCHANGED monthly /\ faults' = faults + 1 /\ ~Unknown(e)
      BY <1>2, <1>4, <1>6, <2>1, <2>3, TallyCounted
    <2>4. CASE CountsOnce(e)
      BY <1>2, <1>5, <1>6, <2>1, <2>4, TallyCounted DEF CountsOnce
    <2>5. CASE CountsTries(e)
      <3>1. PICK n \in 0..(Retries + 1) : Counts(e, n)
        BY <2>5 DEF CountsTries
      <3>2. QED
        BY <1>2, <1>5, <2>1, <2>5, <3>1, TallyCounted DEF CountsTries
    <2>6. QED
      BY <1>8, <2>2, <2>3, <2>4, <2>5 DEF Ends, LeavesOut
  <1>9. QED
    BY <1>3, <1>7, <1>8 DEF Moves

\* The types of what the scripts keep, and what holds between it.
LEMMA ScriptCases ==
    ASSUME ScriptTypeOK
    PROVE  /\ script.pc = "scan" => script \in Scanning
           /\ script.pc = "write" => script \in Writing
           /\ script # Idle => script.pc = "scan" \/ script.pc = "write"
  BY DEF ScriptTypeOK, Scanning, Writing, Idle

LEMMA AddType ==
    ASSUME TypeOK, ScriptTypeOK, NEW k \in MonthKey, NEW n \in Nat, AddTimes(k, n)
    PROVE  monthly' \in [MonthKey -> [bytes : Nat, eventCount : Nat]]
  <1>1. PICK sum : sum = SumOf(aggregates, k)
    OBVIOUS
  <1>2. sum.bytes \in Nat /\ sum.eventCount \in Nat
    BY <1>1, SumType
  <1>3. monthly[k].bytes \in Nat /\ monthly[k].eventCount \in Nat
    BY DEF TypeOK
  <1>4. n * sum.bytes \in Nat /\ n * sum.eventCount \in Nat
    BY <1>2
  <1>5. Plus(monthly[k], sum, n) \in [bytes : Nat, eventCount : Nat]
    <2> DEFINE a == n * sum.bytes
               b == n * sum.eventCount
    <2>1. Plus(monthly[k], sum, n) = [bytes |-> monthly[k].bytes + a, eventCount |-> monthly[k].eventCount + b]
      BY DEF Plus
    <2> HIDE DEF a, b
    <2>2. a \in Nat /\ b \in Nat
      BY <1>4 DEF a, b
    <2>3. QED
      BY <1>3, <2>1, <2>2
  <1>6. monthly' = [monthly EXCEPT ![k] = Plus(monthly[k], sum, n)]
    BY <1>1 DEF AddTimes
  <1>7. QED
    BY <1>5, <1>6 DEF TypeOK

LEMMA FaultType ==
    ASSUME TypeOK, NEW kind, Fault(kind)
    PROVE  faults' \in 0..MaxFaults /\ faults' = faults + 1
  BY EgressAssumption DEF TypeOK, Fault

\* The handler's state is as it was, but for the totals and the failures.
LEMMA BesideType ==
    ASSUME TypeOK, UNCHANGED <<sent, queue, worker, dlq, raw, meter, failed>>,
           monthly' \in [MonthKey -> [bytes : Nat, eventCount : Nat]], faults' \in 0..MaxFaults
    PROVE  TypeOK'
  BY DEF TypeOK

LEMMA TableFinite ==
    ASSUME TypeOK, FlightInv
    PROVE  EventsTable \subseteq History \union Events /\ IsFiniteSet(EventsTable)
  <1>1. raw \subseteq Events /\ IsFiniteSet(raw)
    BY RawInFlight
  <1>2. IsFiniteSet(History)
    BY BackfillAssumption
  <1>3. IsFiniteSet(History \union raw)
    BY <1>1, <1>2, FS_Union
  <1>4. QED
    BY <1>1, <1>3 DEF EventsTable

LEMMA KeysType ==
    ASSUME ScriptTypeOK
    PROVE  Keys(aggregates) \subseteq MonthKey
  BY KeyIsKey DEF ScriptTypeOK, Keys, AllEvents

ScriptOK == TypeOK /\ ScriptTypeOK /\ ScriptInv

LEMMA ScanKeepsTypes ==
    ASSUME ScriptOK, FlightInv, StartScan \/ EndScan
    PROVE  ScriptOK'
  <1>1. UNCHANGED vars /\ UNCHANGED <<processed, wanted, added, unsure>>
    BY DEF StartScan, EndScan
  <1>2. TypeOK'
    BY <1>1 DEF TypeOK, vars, ScriptOK
  <1>3. EventsTable \subseteq History \union Events /\ IsFiniteSet(EventsTable)
    BY TableFinite DEF ScriptOK
  <1>4. CASE StartScan
    <2>1. PICK present : present = {e \in EventsTable : InRange(e)}
      OBVIOUS
    <2>2. IsFiniteSet(present) /\ present \subseteq History \union Events
      BY <1>3, <2>1, FS_Subset
    <2>3. /\ script' = [pc |-> "scan", present |-> present] /\ UNCHANGED <<files, aggregates>>
          /\ "sums" \notin files
      BY <1>4, <2>1 DEF StartScan
    <2>4. ScriptTypeOK'
      BY <1>1, <2>2, <2>3 DEF ScriptTypeOK, ScriptOK, Scanning
    <2>5. ScriptInv'
      BY <1>1, <2>3 DEF ScriptInv, ScriptOK
    <2>6. QED
      BY <1>2, <2>4, <2>5 DEF ScriptOK
  <1>5. CASE EndScan
    <2>1. script.pc = "scan" /\ script' = Idle /\ files' = files \union {"sums"}
      BY <1>5 DEF EndScan
    <2>2. PICK late \in SUBSET {e \in raw \ script.present : InRange(e)} :
            aggregates' = script.present \union late
      BY <1>5 DEF EndScan
    <2>3. script.present \subseteq History \union Events /\ IsFiniteSet(script.present)
      BY <2>1, ScriptCases DEF ScriptTypeOK, Scanning, ScriptOK
    <2>4. late \subseteq EventsTable
      BY <2>2 DEF EventsTable
    <2>5. IsFiniteSet(script.present \union late)
      BY <1>3, <2>3, <2>4, FS_Subset, FS_Union
    <2>6. aggregates' \subseteq History \union Events /\ IsFiniteSet(aggregates')
      BY <1>3, <2>2, <2>3, <2>4, <2>5
    <2>7. ScriptTypeOK'
      BY <1>1, <2>1, <2>6 DEF ScriptTypeOK, ScriptOK, Idle
    <2>8. ScriptInv'
      BY <1>1, <2>1 DEF ScriptInv, ScriptOK, Idle
    <2>9. QED
      BY <1>2, <2>7, <2>8 DEF ScriptOK
  <1>6. QED
    BY <1>4, <1>5

LEMMA RunKeepsTypes ==
    ASSUME ScriptOK, EndWrite \/ StopScript \/ \E resume \in BOOLEAN : StartWrite(resume)
    PROVE  ScriptOK'
  <1>1. CASE EndWrite
    <2>1. /\ script.pc = "write" /\ processed' = script.done /\ files' = files \union {"keys"}
          /\ script' = Idle /\ UNCHANGED vars /\ UNCHANGED <<aggregates, wanted, added, unsure>>
      BY <1>1 DEF EndWrite
    <2>2. TypeOK'
      BY <2>1 DEF TypeOK, vars, ScriptOK
    <2>3. script.done \subseteq MonthKey
      BY <2>1, ScriptCases DEF ScriptOK, Writing
    <2>4. ScriptTypeOK'
      BY <2>1, <2>3 DEF ScriptTypeOK, ScriptOK, Idle
    <2>5. ScriptInv'
      BY <2>1 DEF ScriptInv, ScriptOK, Idle
    <2>6. QED
      BY <2>2, <2>4, <2>5 DEF ScriptOK
  <1>2. CASE StopScript
    <2>1. /\ Fault("crash") /\ script' = Idle /\ wanted' = (script.pc = "write" \/ wanted)
          /\ UNCHANGED <<sent, queue, worker, dlq, raw, meter, monthly, failed>>
          /\ UNCHANGED <<aggregates, added, unsure>>
          /\ \/ UNCHANGED <<files, processed>>
             \/ script.pc = "write" /\ processed' = script.done /\ files' = files \union {"keys"}
      BY <1>2 DEF StopScript
    <2>2. TypeOK'
      BY <2>1, FaultType, BesideType DEF TypeOK, ScriptOK
    <2>3. script.pc = "write" => script.done \subseteq MonthKey
      BY ScriptCases DEF ScriptOK, Writing
    <2>4. wanted' \in BOOLEAN
      BY <2>1
    <2>5. processed' \subseteq MonthKey /\ files' \subseteq {"sums", "keys"}
      BY <2>1, <2>3 DEF ScriptTypeOK, ScriptOK
    <2>6. ScriptTypeOK'
      BY <2>1, <2>4, <2>5 DEF ScriptTypeOK, ScriptOK, Idle
    <2>7. ScriptInv'
      BY <2>1 DEF ScriptInv, ScriptOK, Idle
    <2>8. QED
      BY <2>2, <2>6, <2>7 DEF ScriptOK
  <1>3. ASSUME NEW resume \in BOOLEAN, StartWrite(resume)
        PROVE  ScriptOK'
    <2>1. PICK left : left = Remaining(resume)
      OBVIOUS
    <2>2. /\ "sums" \in files /\ wanted' = FALSE
          /\ script' = [pc |-> "write", left |-> left, sent |-> {}, done |-> {}]
          /\ unsure' = unsure \union (added \ processed)
          /\ resume <=> "keys" \in files
          /\ UNCHANGED vars /\ UNCHANGED <<files, aggregates, processed, added>>
      BY <1>3, <2>1 DEF StartWrite
    <2>3. TypeOK'
      BY <2>2 DEF TypeOK, vars, ScriptOK
    <2>4. left \subseteq MonthKey
      BY <2>1, KeysType DEF Remaining, ScriptOK
    <2>5. unsure' \subseteq MonthKey
      BY <2>2 DEF ScriptTypeOK, ScriptOK
    <2>6. script' \in Writing /\ script'.pc = "write"
      BY <2>2, <2>4 DEF Writing
    <2>7. ScriptTypeOK'
      BY <2>2, <2>5, <2>6 DEF ScriptTypeOK, ScriptOK
    <2>8. left \intersect processed = {}
      BY <2>1, <2>2 DEF Remaining, ScriptInv, ScriptOK
    <2>9. script'.left \intersect added' \subseteq unsure'
      BY <2>2, <2>8
    <2>10. ScriptInv'
      BY <2>2, <2>6, <2>9 DEF ScriptInv, ScriptOK
    <2>11. QED
      BY <2>3, <2>7, <2>10 DEF ScriptOK
  <1>4. QED
    BY <1>1, <1>2, <1>3

LEMMA AddKeepsTypes ==
    ASSUME ScriptOK, NEW k \in MonthKey, AddSum(k) \/ SumAdded(k) \/ SumFails(k)
    PROVE  ScriptOK'
  <1>1. script.pc = "write" /\ script \in Writing
    BY ScriptCases DEF AddSum, SumAdded, SumFails, ScriptOK
  <1>2. UNCHANGED <<files, aggregates, processed>>
    BY DEF AddSum, SumAdded, SumFails
  <1>3. UNCHANGED <<sent, queue, worker, dlq, raw, meter, failed>>
    BY DEF AddSum, SumAdded, SumFails, vars
  <1>4. CASE AddSum(k)
    <2>1. /\ AddTimes(k, 1) /\ UNCHANGED <<faults, wanted, unsure>> /\ added' = added \union {k}
          /\ script' = [script EXCEPT !.left = @ \ {k}, !.sent = @ \union {k}]
      BY <1>4 DEF AddSum
    <2>2. TypeOK'
      BY <1>3, <2>1, AddType, BesideType DEF ScriptOK, TypeOK
    <2>3. script' \in Writing /\ script'.pc = "write" /\ script'.left = script.left \ {k}
      BY <1>1, <2>1 DEF Writing
    <2>4. ScriptTypeOK'
      BY <1>2, <2>1, <2>3 DEF ScriptTypeOK, ScriptOK
    <2>5. ScriptInv'
      BY <1>1, <1>2, <2>1, <2>3 DEF ScriptInv, ScriptOK
    <2>6. QED
      BY <2>2, <2>4, <2>5 DEF ScriptOK
  <1>5. CASE SumAdded(k)
    <2>1. /\ UNCHANGED vars /\ UNCHANGED <<wanted, unsure, added>>
          /\ script' = [script EXCEPT !.sent = @ \ {k}, !.done = @ \union {k}]
      BY <1>5 DEF SumAdded
    <2>2. TypeOK'
      BY <2>1 DEF TypeOK, vars, ScriptOK
    <2>3. script' \in Writing /\ script'.pc = "write" /\ script'.left = script.left
      <3>1. PICK s, d : s = script.sent \ {k} /\ d = script.done \union {k}
        OBVIOUS
      <3>2. s \subseteq MonthKey /\ d \subseteq MonthKey
        BY <1>1, <3>1 DEF Writing
      <3>3. script' = [script EXCEPT !.sent = s, !.done = d]
        BY <2>1, <3>1
      <3>4. QED
        BY <1>1, <3>2, <3>3 DEF Writing
    <2>4. ScriptTypeOK'
      BY <1>2, <2>1, <2>3 DEF ScriptTypeOK, ScriptOK
    <2>5. ScriptInv'
      BY <1>1, <1>2, <2>1, <2>3 DEF ScriptInv, ScriptOK
    <2>6. QED
      BY <2>2, <2>4, <2>5 DEF ScriptOK
  <1>6. CASE SumFails(k)
    <2>1. /\ added' = added \union {k} /\ unsure' = unsure \union {k}
          /\ \E times \in Nat : AddTimes(k, times)
          /\ \E kind \in {"call", "answer"} : Fault(kind)
          /\ wanted' = TRUE \/ UNCHANGED wanted
          /\ \/ script' = [script EXCEPT !.left = @ \ {k}]
             \/ script' = [script EXCEPT !.left = @ \ {k}, !.sent = @ \union {k}]
      <3>1. /\ \A times \in 0..(Retries + 1) : times \in Nat
            /\ \A again \in 1..Retries : 1 + again \in Nat
        BY EgressAssumption
      <3>2. QED
        BY <1>6, <3>1 DEF SumFails
    <2>2. TypeOK'
      BY <1>3, <2>1, AddType, FaultType, BesideType DEF ScriptOK
    <2>3. script' \in Writing /\ script'.pc = "write" /\ script'.left = script.left \ {k}
      <3>1. PICK l, s : l = script.left \ {k} /\ s = script.sent \union {k}
        OBVIOUS
      <3>2. l \subseteq MonthKey /\ s \subseteq MonthKey
        BY <1>1, <3>1 DEF Writing
      <3>3. script' = [script EXCEPT !.left = l] \/ script' = [script EXCEPT !.left = l, !.sent = s]
        BY <2>1, <3>1
      <3>4. script' \in Writing /\ script'.pc = "write" /\ script'.left = l
        BY <1>1, <3>2, <3>3 DEF Writing
      <3>5. QED
        BY <3>1, <3>4
    <2>4. ScriptTypeOK'
      BY <1>2, <2>1, <2>3 DEF ScriptTypeOK, ScriptOK
    <2>5. ScriptInv'
      BY <1>1, <1>2, <2>1, <2>3 DEF ScriptInv, ScriptOK
    <2>6. QED
      BY <2>2, <2>4, <2>5 DEF ScriptOK
  <1>7. QED
    BY <1>4, <1>5, <1>6

LEMMA HandlerKeepsTypes ==
    ASSUME ScriptOK, Next, UNCHANGED backfill
    PROVE  ScriptOK'
  <1>1. TypeOK'
    BY NextType DEF ScriptOK
  <1>2. ScriptTypeOK' /\ ScriptInv'
    BY DEF ScriptOK, backfill, ScriptTypeOK, ScriptInv
  <1>3. QED
    BY <1>1, <1>2 DEF ScriptOK

LEMMA TimesAdded ==
    ASSUME NEW b \in Nat, NEW t \in Nat, NEW n \in Nat
    PROVE  t * b + n * b = (t + n) * b
  OBVIOUS

LEMMA PlusPlus ==
    ASSUME NEW live, NEW sum, NEW t, NEW n, NEW m, NEW total,
           live.bytes \in Nat, live.eventCount \in Nat, sum.bytes \in Nat, sum.eventCount \in Nat,
           t \in Nat, n \in Nat, m = t + n, total = Plus(live, sum, t)
    PROVE  Plus(total, sum, n) = Plus(live, sum, m)
  <1> DEFINE a == t * sum.bytes
             b == n * sum.bytes
             c == t * sum.eventCount
             d == n * sum.eventCount
  <1>1. a \in Nat /\ b \in Nat /\ c \in Nat /\ d \in Nat
    OBVIOUS
  <1>2. a + b = (t + n) * sum.bytes /\ c + d = (t + n) * sum.eventCount
    BY TimesAdded
  <1>3. Plus(total, sum, n) = [bytes |-> (live.bytes + a) + b,
                                            eventCount |-> (live.eventCount + c) + d]
    BY DEF Plus
  <1>4. Plus(live, sum, m) = [bytes |-> live.bytes + (t + n) * sum.bytes,
                              eventCount |-> live.eventCount + (t + n) * sum.eventCount]
    BY DEF Plus
  <1> HIDE DEF a, b, c, d
  <1>5. (live.bytes + a) + b = live.bytes + (a + b) /\ (live.eventCount + c) + d = live.eventCount + (c + d)
    BY <1>1
  <1>6. QED
    BY <1>2, <1>3, <1>4, <1>5

LEMMA PlusNone ==
    ASSUME NEW live \in [bytes : Nat, eventCount : Nat], NEW sum, sum.bytes \in Nat, sum.eventCount \in Nat
    PROVE  Plus(live, sum, 0) = live
  BY DEF Plus

LeftTo(k) == script.pc = "write" /\ k \in script.left

LEMMA RunsNow ==
    ASSUME faults \in Nat, NEW k
    PROVE  /\ RunsFor(k) \in Int
           /\ wanted /\ LeftTo(k) => RunsFor(k) = faults - 1
           /\ wanted /\ ~LeftTo(k) => RunsFor(k) = faults
           /\ ~wanted /\ LeftTo(k) => RunsFor(k) = faults
           /\ ~wanted /\ ~LeftTo(k) => RunsFor(k) = faults + 1
  <1>1. PICK x \in Nat : x = faults
    OBVIOUS
  <1>2. RunsFor(k) = x + 1 - (IF wanted THEN 1 ELSE 0) - (IF LeftTo(k) THEN 1 ELSE 0)
    BY <1>1 DEF RunsFor, LeftTo
  <1>3. QED
    BY <1>1, <1>2

LEMMA RunsValues ==
    ASSUME faults \in Nat, faults' \in Nat, NEW k
    PROVE  /\ RunsFor(k) \in Int /\ RunsFor(k)' \in Int
           /\ wanted /\ LeftTo(k) => RunsFor(k) = faults - 1
           /\ wanted /\ ~LeftTo(k) => RunsFor(k) = faults
           /\ ~wanted /\ LeftTo(k) => RunsFor(k) = faults
           /\ ~wanted /\ ~LeftTo(k) => RunsFor(k) = faults + 1
           /\ wanted' /\ LeftTo(k)' => RunsFor(k)' = faults' - 1
           /\ wanted' /\ ~LeftTo(k)' => RunsFor(k)' = faults'
           /\ ~wanted' /\ LeftTo(k)' => RunsFor(k)' = faults'
           /\ ~wanted' /\ ~LeftTo(k)' => RunsFor(k)' = faults' + 1
  <1>1. /\ RunsFor(k) \in Int
        /\ wanted /\ LeftTo(k) => RunsFor(k) = faults - 1
        /\ wanted /\ ~LeftTo(k) => RunsFor(k) = faults
        /\ ~wanted /\ LeftTo(k) => RunsFor(k) = faults
        /\ ~wanted /\ ~LeftTo(k) => RunsFor(k) = faults + 1
    BY RunsNow
  <1>2. /\ RunsFor(k)' \in Int
        /\ wanted' /\ LeftTo(k)' => RunsFor(k)' = faults' - 1
        /\ wanted' /\ ~LeftTo(k)' => RunsFor(k)' = faults'
        /\ ~wanted' /\ LeftTo(k)' => RunsFor(k)' = faults'
        /\ ~wanted' /\ ~LeftTo(k)' => RunsFor(k)' = faults' + 1
    <2>1. PICK x \in Nat : x = faults'
      OBVIOUS
    <2>2. PICK a \in Int, b \in Int :
            /\ wanted' => a = 1
            /\ ~wanted' => a = 0
            /\ LeftTo(k)' => b = 1
            /\ ~LeftTo(k)' => b = 0
            /\ RunsFor(k)' = x + 1 - a - b
      <3>1. PICK a \in Int : a = IF wanted' THEN 1 ELSE 0
        OBVIOUS
      <3>2. PICK b \in Int : b = IF LeftTo(k)' THEN 1 ELSE 0
        OBVIOUS
      <3>3. RunsFor(k)' = x + 1 - a - b
        BY <2>1, <3>1, <3>2 DEF RunsFor, LeftTo
      <3>4. QED
        BY <3>1, <3>2, <3>3
    <2>3. x + 1 - a - b \in Int
      OBVIOUS
    <2>4. RunsFor(k)' \in Int
      BY <2>2, <2>3
    <2>5. PICK r \in Int : r = RunsFor(k)'
      BY <2>4
    <2>6. wanted' /\ LeftTo(k)' => r = x - 1
      BY <2>2, <2>5
    <2>7. wanted' /\ ~LeftTo(k)' => r = x
      BY <2>2, <2>5
    <2>8. ~wanted' /\ LeftTo(k)' => r = x
      BY <2>2, <2>5
    <2>9. ~wanted' /\ ~LeftTo(k)' => r = x + 1
      BY <2>2, <2>5
    <2>10. QED
      BY <2>1, <2>5, <2>6, <2>7, <2>8, <2>9
  <1>3. QED
    BY <1>1, <1>2

LEMMA TallyOfScript ==
    ASSUME TypeOK, FlightInv, TallyInv, UNCHANGED <<worker, raw>>,
           faults' \in Nat, faults <= faults',
           \A k \in MonthKey : \A t \in Nat : \A live \in [bytes : Nat, eventCount : Nat] :
             Due(k, t) /\ monthly[k] = Plus(live, SumOf(aggregates, k), t)
               => \E u \in Nat : Due(k, u)' /\ monthly'[k] = Plus(live, SumOf(aggregates', k), u)
    PROVE  TallyInv'
  <1>1. PICK c \in Counting : Tally(c)
    BY DEF TallyInv
  <1>2. InFlight' = InFlight /\ faults \in Nat
    BY StillFlight DEF TypeOK
  <1>3. PICK O : O = Over
    OBVIOUS
  <1>4. Over' = O
    BY <1>2, <1>3, OverFacts, OverNext
  <1>5. O \in SUBSET Events /\ IsFiniteSet(O) /\ c \in [Events -> Nat]
    BY <1>1, <1>3, OverFacts, CountingIsNatural
  <1>6. ASSUME NEW k \in MonthKey
        PROVE  \E t \in Nat :
                 Due(k, t)' /\ monthly'[k] = Plus(Live(Over', c, k), SumOf(aggregates', k), t)
    <2>1. PICK live : live = Live(O, c, k)
      OBVIOUS
    <2>2. live \in [bytes : Nat, eventCount : Nat]
      BY <1>5, <2>1, LiveType
    <2>3. PICK t \in Nat : Due(k, t) /\ monthly[k] = Plus(live, SumOf(aggregates, k), t)
      BY <1>1, <1>3, <2>1 DEF Tally
    <2>4. PICK u \in Nat : Due(k, u)' /\ monthly'[k] = Plus(live, SumOf(aggregates', k), u)
      BY <2>2, <2>3
    <2>5. QED
      BY <1>4, <2>1, <2>4
  <1>7. Cardinality({e \in raw' \ InFlight' : c[e] # 1}) <= faults'
    <2>1. Cardinality(Off(c)) \in Nat /\ Cardinality(Off(c)) <= faults
      <3>1. IsFiniteSet(Off(c))
        BY OverFacts, FS_Subset DEF Off
      <3>2. QED
        BY <1>1, <3>1, FS_CardinalityType DEF Tally
    <2>2. {e \in raw' \ InFlight' : c[e] # 1} = Off(c)
      BY <1>2 DEF Off
    <2>3. QED
      BY <1>2, <2>1, <2>2
  <1>8. QED
    BY <1>1, <1>6, <1>7, TallyNext

\* A step that adds nothing.
LEMMA NothingAdded ==
    ASSUME TypeOK, FlightInv, TallyInv, UNCHANGED <<worker, raw, monthly, aggregates, added>>,
           faults' \in Nat, faults <= faults', unsure \subseteq unsure',
           \A k \in MonthKey : RunsFor(k) <= RunsFor(k)'
    PROVE  TallyInv'
  <1>1. faults \in Nat
    BY DEF TypeOK
  <1>2. ASSUME NEW k \in MonthKey, NEW t \in Nat, Due(k, t)
        PROVE  Due(k, t)'
    <2>1. RunsFor(k) \in Int /\ RunsFor(k)' \in Int /\ RunsFor(k) <= RunsFor(k)'
      BY <1>1, RunsValues
    <2>2. t <= Tries * RunsFor(k)
      BY <1>2 DEF Due
    <2>3. t <= Tries * RunsFor(k)'
      BY <2>1, <2>2, MoreRuns
    <2>4. QED
      BY <1>2, <2>3 DEF Due
  <1>3. ASSUME NEW k \in MonthKey, NEW t \in Nat, NEW live \in [bytes : Nat, eventCount : Nat],
               Due(k, t), monthly[k] = Plus(live, SumOf(aggregates, k), t)
        PROVE  \E u \in Nat : Due(k, u)' /\ monthly'[k] = Plus(live, SumOf(aggregates', k), u)
    BY <1>2, <1>3
  <1>4. QED
    BY <1>3, TallyOfScript

\* A step that adds the sum of a key.
LEMMA SumIsAdded ==
    ASSUME TypeOK, ScriptTypeOK, FlightInv, TallyInv, UNCHANGED <<worker, raw, aggregates>>,
           faults' \in Nat, faults <= faults',
           NEW k \in MonthKey, NEW n \in Nat, AddTimes(k, n),
           added' = added \union {k}, unsure \subseteq unsure',
           k \in unsure' \/ (n = 1 /\ k \notin added),
           \A j \in MonthKey : RunsFor(j) <= RunsFor(j)',
           Tries * RunsFor(k) + n <= Tries * RunsFor(k)'
    PROVE  TallyInv'
  <1>1. faults \in Nat /\ DOMAIN monthly = MonthKey
    BY DEF TypeOK
  <1>2. \A j \in MonthKey : RunsFor(j) \in Int /\ RunsFor(j)' \in Int
    BY <1>1, RunsValues
  <1>3. monthly' = [monthly EXCEPT ![k] = Plus(monthly[k], SumOf(aggregates, k), n)]
    BY DEF AddTimes
  <1>4. ASSUME NEW t \in Nat, NEW live \in [bytes : Nat, eventCount : Nat],
               Due(k, t), monthly[k] = Plus(live, SumOf(aggregates, k), t)
        PROVE  Due(k, t + n)' /\ monthly'[k] = Plus(live, SumOf(aggregates', k), t + n)
    <2>1. PICK sum : sum = SumOf(aggregates, k)
      OBVIOUS
    <2>2. sum.bytes \in Nat /\ sum.eventCount \in Nat
      BY <2>1, SumType
    <2>3. PICK l : l = live /\ l.bytes \in Nat /\ l.eventCount \in Nat
      OBVIOUS
    <2>4. PICK m \in Nat : m = t + n
      OBVIOUS
    <2>5. PICK total : total = Plus(l, sum, t)
      OBVIOUS
    <2>6. Plus(total, sum, n) = Plus(l, sum, m)
      <3>1. l.bytes \in Nat /\ l.eventCount \in Nat /\ m = t + n
        BY <2>3, <2>4
      <3>2. QED
        BY <2>2, <2>5, <3>1, PlusPlus
    <2>7. monthly'[k] = Plus(live, SumOf(aggregates', k), t + n)
      BY <1>1, <1>3, <1>4, <2>1, <2>3, <2>4, <2>5, <2>6
    <2>8. t <= Tries * RunsFor(k)
      BY <1>4 DEF Due
    <2>9. t + n <= Tries * RunsFor(k)'
      <3>1. Tries * RunsFor(k) \in Int /\ Tries * RunsFor(k)' \in Int
        BY <1>2, MoreRuns
      <3>2. QED
        BY <2>8, <3>1
    <2>10. k \notin added => t = 0
      BY <1>4 DEF Due
    <2>11. k \in added' \ unsure' => t + n = 1
      BY <2>10
    <2>12. Due(k, t + n)'
      BY <2>9, <2>11 DEF Due
    <2>13. QED
      BY <2>7, <2>12
  <1>5. ASSUME NEW j \in MonthKey, j # k, NEW t \in Nat, NEW live \in [bytes : Nat, eventCount : Nat],
               Due(j, t), monthly[j] = Plus(live, SumOf(aggregates, j), t)
        PROVE  Due(j, t)' /\ monthly'[j] = Plus(live, SumOf(aggregates', j), t)
    <2>1. monthly'[j] = monthly[j]
      BY <1>1, <1>3, <1>5
    <2>2. t <= Tries * RunsFor(j) /\ RunsFor(j) <= RunsFor(j)'
      BY <1>5 DEF Due
    <2>3. t <= Tries * RunsFor(j)'
      BY <1>2, <2>2, MoreRuns
    <2>4. Due(j, t)'
      BY <1>5, <2>3 DEF Due
    <2>5. QED
      BY <1>5, <2>1, <2>4
  <1>6. ASSUME NEW j \in MonthKey, NEW t \in Nat, NEW live \in [bytes : Nat, eventCount : Nat],
               Due(j, t), monthly[j] = Plus(live, SumOf(aggregates, j), t)
        PROVE  \E u \in Nat : Due(j, u)' /\ monthly'[j] = Plus(live, SumOf(aggregates', j), u)
    <2>1. CASE j = k
      <3>1. t + n \in Nat
        OBVIOUS
      <3>2. QED
        BY <1>4, <1>6, <2>1, <3>1
    <2>2. CASE j # k
      BY <1>5, <1>6, <2>2
    <2>3. QED
      BY <2>1, <2>2
  <1>7. QED
    BY <1>6, TallyOfScript

LEMMA ScanTallies ==
    ASSUME ScriptOK, FlightInv, TallyInv, StartScan \/ EndScan
    PROVE  TallyInv'
  <1>1. UNCHANGED <<worker, raw, monthly, faults>> /\ UNCHANGED <<wanted, added, unsure>>
    BY DEF StartScan, EndScan, vars
  <1>2. TypeOK /\ faults \in Nat /\ faults' \in Nat /\ faults <= faults'
    BY <1>1 DEF ScriptOK, TypeOK
  <1>3. \A k \in MonthKey : ~LeftTo(k) /\ ~LeftTo(k)'
    BY DEF StartScan, EndScan, LeftTo, Idle
  <1>4. \A k \in MonthKey : /\ RunsFor(k) = RunsFor(k)'
                            /\ RunsFor(k) \in Int
    BY <1>1, <1>2, <1>3, RunsValues
  <1>5. CASE StartScan
    <2>1. UNCHANGED aggregates
      BY <1>5 DEF StartScan
    <2>2. \A k \in MonthKey : RunsFor(k) <= RunsFor(k)'
      BY <1>4
    <2>3. QED
      BY <1>1, <1>2, <2>1, <2>2, NothingAdded
  <1>6. CASE EndScan
    <2>1. added = {} /\ added' = {}
      BY <1>1, <1>6 DEF EndScan, ScriptOK, ScriptInv
    <2>2. ScriptTypeOK /\ ScriptTypeOK'
      BY ScanKeepsTypes DEF ScriptOK
    <2>3. ASSUME NEW k \in MonthKey, NEW t \in Nat, NEW live \in [bytes : Nat, eventCount : Nat],
                 Due(k, t), monthly[k] = Plus(live, SumOf(aggregates, k), t)
          PROVE  \E u \in Nat : Due(k, u)' /\ monthly'[k] = Plus(live, SumOf(aggregates', k), u)
      <3>1. t = 0 /\ t <= Tries * RunsFor(k)
        BY <2>1, <2>3 DEF Due
      <3>2. Due(k, 0)'
        BY <1>4, <2>1, <3>1 DEF Due
      <3>3. SumOf(aggregates, k).bytes \in Nat /\ SumOf(aggregates, k).eventCount \in Nat
        BY <2>2, SumType
      <3>4. SumOf(aggregates', k).bytes \in Nat /\ SumOf(aggregates', k).eventCount \in Nat
        <4>1. PICK counted : counted = {e \in aggregates' : KeyOf(e) = k}
          OBVIOUS
        <4>2. aggregates' \in SUBSET AllEvents /\ IsFiniteSet(aggregates')
          BY <2>2 DEF ScriptTypeOK, AllEvents
        <4>3. counted \in SUBSET AllEvents /\ IsFiniteSet(counted)
          BY <4>1, <4>2, FS_Subset
        <4>4. SumOf(aggregates', k) = [bytes |-> Bytes(counted), eventCount |-> Cardinality(counted)]
          BY <4>1 DEF SumOf
        <4>5. QED
          BY <4>3, <4>4, BytesType
      <3>5. Plus(live, SumOf(aggregates, k), 0) = live /\ Plus(live, SumOf(aggregates', k), 0) = live
        BY <3>3, <3>4, PlusNone
      <3>6. monthly'[k] = Plus(live, SumOf(aggregates', k), 0)
        BY <1>1, <2>3, <3>1, <3>5
      <3>7. QED
        BY <3>2, <3>6
    <2>4. QED
      BY <1>1, <1>2, <2>3, TallyOfScript
  <1>7. QED
    BY <1>5, <1>6

LEMMA RunTallies ==
    ASSUME ScriptOK, FlightInv, TallyInv,
           EndWrite \/ StopScript \/ \E resume \in BOOLEAN : StartWrite(resume)
    PROVE  TallyInv'
  <1>1. UNCHANGED <<worker, raw, monthly, aggregates, added>> /\ unsure \subseteq unsure'
    BY DEF EndWrite, StopScript, StartWrite, vars
  <1>2. TypeOK /\ faults \in Nat /\ wanted \in BOOLEAN
    BY DEF ScriptOK, ScriptTypeOK, TypeOK
  <1>3. CASE EndWrite
    <2>1. UNCHANGED <<faults, wanted>>
      BY <1>3 DEF EndWrite, vars
    <2>2. \A k \in MonthKey : ~LeftTo(k) /\ ~LeftTo(k)'
      BY <1>3 DEF EndWrite, LeftTo, Idle
    <2>3. \A k \in MonthKey : RunsFor(k) <= RunsFor(k)'
      BY <1>2, <2>1, <2>2, RunsValues
    <2>4. QED
      BY <1>1, <1>2, <2>1, <2>3, NothingAdded
  <1>4. CASE StopScript
    <2>1. faults' = faults + 1 /\ faults' \in Nat
      BY <1>2, <1>4 DEF StopScript, Fault
    <2>2. \A k \in MonthKey : ~LeftTo(k)'
      BY <1>4 DEF StopScript, LeftTo, Idle
    <2>3. ASSUME NEW k \in MonthKey
          PROVE  RunsFor(k) <= RunsFor(k)'
      BY <1>2, <2>1, <2>2, RunsValues
    <2>4. QED
      BY <1>1, <1>2, <2>1, <2>3, NothingAdded
  <1>5. ASSUME NEW resume \in BOOLEAN, StartWrite(resume)
        PROVE  TallyInv'
    <2>1. wanted /\ ~wanted' /\ UNCHANGED faults
      BY <1>5 DEF StartWrite, vars
    <2>2. \A k \in MonthKey : ~LeftTo(k)
      BY <1>5 DEF StartWrite, LeftTo, Idle
    <2>3. ASSUME NEW k \in MonthKey
          PROVE  RunsFor(k) <= RunsFor(k)'
      BY <1>2, <2>1, <2>2, RunsValues
    <2>4. QED
      BY <1>1, <1>2, <2>1, <2>3, NothingAdded
  <1>6. QED
    BY <1>3, <1>4, <1>5

LEMMA AddTallies ==
    ASSUME ScriptOK, FlightInv, TallyInv, NEW k \in MonthKey, AddSum(k) \/ SumAdded(k) \/ SumFails(k)
    PROVE  TallyInv'
  <1>1. UNCHANGED <<worker, raw, aggregates>> /\ unsure \subseteq unsure'
    BY DEF AddSum, SumAdded, SumFails, vars
  <1>2. TypeOK /\ ScriptTypeOK /\ faults \in Nat /\ wanted \in BOOLEAN
    BY DEF ScriptOK, ScriptTypeOK, TypeOK
  <1>3. script.pc = "write" /\ script \in Writing
    BY <1>2, ScriptCases DEF AddSum, SumAdded, SumFails
  <1>4. CASE SumAdded(k)
    <2>1. UNCHANGED <<monthly, faults, wanted, added>>
      BY <1>4 DEF SumAdded, vars
    <2>2. script' = [script EXCEPT !.sent = script.sent \ {k}, !.done = script.done \union {k}]
      BY <1>4 DEF SumAdded
    <2>3. script'.pc = script.pc /\ script'.left = script.left
      BY <1>3, <2>2 DEF Writing
    <2>4. \A j \in MonthKey : LeftTo(j)' <=> LeftTo(j)
      BY <2>3 DEF LeftTo
    <2>5. ASSUME NEW j \in MonthKey
          PROVE  RunsFor(j) <= RunsFor(j)'
      BY <1>2, <2>1, <2>4, RunsValues
    <2>6. QED
      BY <1>1, <1>2, <2>1, <2>5, NothingAdded
  <1>5. CASE AddSum(k) \/ SumFails(k)
    <2>1. LeftTo(k) /\ added' = added \union {k}
      BY <1>5 DEF AddSum, SumFails, LeftTo
    <2>2. \/ script' = [script EXCEPT !.left = script.left \ {k}, !.sent = script.sent \union {k}]
          \/ script' = [script EXCEPT !.left = script.left \ {k}]
      BY <1>5 DEF AddSum, SumFails
    <2>3. script'.pc = "write" /\ script'.left = script.left \ {k}
      BY <1>3, <2>2 DEF Writing
    <2>4. ~LeftTo(k)' /\ \A j \in MonthKey \ {k} : LeftTo(j)' <=> LeftTo(j)
      BY <1>3, <2>3 DEF LeftTo
    <2>5. ASSUME NEW n \in Nat, AddTimes(k, n), n <= Tries, faults' \in Nat,
                 \/ faults' = faults + 1 /\ wanted'
                 \/ faults' = faults + 1 /\ (wanted' <=> wanted)
                 \/ faults' = faults /\ (wanted' <=> wanted),
                 k \in unsure' \/ (n = 1 /\ k \notin added)
          PROVE  TallyInv'
      <3>1. faults <= faults'
        <4>1. faults' = faults \/ faults' = faults + 1
          BY <2>5
        <4>2. QED
          BY <1>2, <4>1
      <3>2. RunsFor(k) \in Int /\ RunsFor(k)' \in Int
        BY <1>2, <2>5, RunsValues
      <3>3. RunsFor(k) + 1 <= RunsFor(k)'
        <4>1. /\ wanted => RunsFor(k) = faults - 1
              /\ ~wanted => RunsFor(k) = faults
          BY <1>2, <2>1, <2>5, RunsValues
        <4>2. /\ wanted' => RunsFor(k)' = faults'
              /\ ~wanted' => RunsFor(k)' = faults' + 1
          BY <1>2, <2>4, <2>5, RunsValues
        <4>3. PICK r \in Int, s \in Int, f \in Nat, g \in Nat : r = RunsFor(k) /\ s = RunsFor(k)' /\ f = faults /\ g = faults'
          BY <1>2, <2>5, <3>2
        <4>4. CASE faults' = faults + 1 /\ wanted'
          <5>1. s = f + 1 /\ r <= f
            BY <4>1, <4>2, <4>3, <4>4
          <5>2. QED
            BY <4>3, <5>1
        <4>5. CASE faults' = faults + 1 /\ (wanted' <=> wanted)
          <5>1. s = r + 2
            BY <4>1, <4>2, <4>3, <4>5
          <5>2. QED
            BY <4>3, <5>1
        <4>6. CASE faults' = faults /\ (wanted' <=> wanted)
          <5>1. s = r + 1
            BY <4>1, <4>2, <4>3, <4>6
          <5>2. QED
            BY <4>3, <5>1
        <4>7. QED
          BY <2>5, <4>4, <4>5, <4>6
      <3>4. Tries * RunsFor(k) + n <= Tries * RunsFor(k)'
        <4>1. RunsFor(k) <= RunsFor(k)'
          BY <3>2, <3>3
        <4>2. /\ Tries * RunsFor(k) \in Int /\ Tries * RunsFor(k)' \in Int
              /\ Tries * RunsFor(k) + Tries <= Tries * RunsFor(k)'
          BY <3>2, <3>3, <4>1, MoreRuns
        <4>3. QED
          BY <2>5, <4>2, TriesFacts
      <3>5. ASSUME NEW j \in MonthKey
            PROVE  RunsFor(j) <= RunsFor(j)'
        <4>1. CASE j = k
          BY <3>2, <3>3, <4>1
        <4>2. CASE j # k
          BY <1>2, <2>4, <2>5, <4>2, RunsValues
        <4>3. QED
          BY <4>1, <4>2
      <3>6. QED
        BY <1>1, <1>2, <2>1, <2>5, <3>1, <3>4, <3>5, SumIsAdded
    <2>6. CASE AddSum(k)
      <3>1. AddTimes(k, 1) /\ UNCHANGED <<faults, wanted, unsure>>
        BY <2>6 DEF AddSum
      <3>2. k \in unsure' \/ k \notin added
        BY <2>1, <3>1 DEF ScriptOK, ScriptInv, LeftTo
      <3>3. QED
        BY <1>2, <2>5, <3>1, <3>2, TriesFacts
    <2>7. CASE SumFails(k)
      <3>1. k \in unsure'
        BY <2>7 DEF SumFails
      <3>2. faults' = faults + 1 /\ faults' \in Nat
        BY <1>2, <2>7 DEF SumFails, Fault
      <3>3. \/ wanted' = TRUE /\ \E n \in 0..(Retries + 1) : AddTimes(k, n)
            \/ wanted' = wanted /\ \E again \in 1..Retries : AddTimes(k, 1 + again)
        BY <2>7 DEF SumFails
      <3>4. (wanted' = TRUE \/ wanted' = wanted) /\ \E n \in 0..(Retries + 1) : AddTimes(k, n)
        <4>1. \A again \in 1..Retries : 1 + again \in 0..(Retries + 1)
          BY EgressAssumption
        <4>2. QED
          BY <3>3, <4>1
      <3>5. PICK n \in 0..(Retries + 1) : AddTimes(k, n)
        BY <3>4
      <3>6. n \in Nat /\ n <= Tries
        BY TriesFacts, EgressAssumption
      <3>7. QED
        BY <2>5, <3>1, <3>2, <3>4, <3>5, <3>6
    <2>8. QED
      BY <1>5, <2>6, <2>7
  <1>6. QED
    BY <1>4, <1>5

\* All that holds of the handler and the scripts together.
BothInv == ScriptOK /\ FlightInv /\ TallyInv

LEMMA NothingCounted ==
    ASSUME NEW c, NEW k
    PROVE  Live({}, c, k) = [bytes |-> 0, eventCount |-> 0] /\ SumOf({}, k) = [bytes |-> 0, eventCount |-> 0]
  <1>1. PICK f, g, h : /\ f = [e \in {} |-> c[e] * e.bytes] /\ g = [e \in {} |-> c[e]]
                       /\ h = [e \in {} |-> e.bytes]
    OBVIOUS
  <1>2. DOMAIN f = {} /\ DOMAIN g = {} /\ DOMAIN h = {}
    BY <1>1
  <1>3. SumFunction(f) = 0 /\ SumFunction(g) = 0 /\ SumFunction(h) = 0
    BY <1>2, TotalEmpty
  <1>4. Cardinality({}) = 0
    BY FS_EmptySet
  <1>5. {e \in {} : KeyOf(e) = k} = {}
    OBVIOUS
  <1>6. Live({}, c, k) = [bytes |-> SumFunction(f), eventCount |-> SumFunction(g)]
    BY <1>1, <1>5 DEF Live
  <1>7. SumOf({}, k) = [bytes |-> SumFunction(h), eventCount |-> Cardinality({})]
    BY <1>1, <1>5 DEF SumOf, Bytes
  <1>8. QED
    BY <1>3, <1>4, <1>6, <1>7

LEMMA BothInitInv == ASSUME BothInit PROVE BothInv
  <1>1. Init /\ BackfillInit
    BY DEF BothInit
  <1>2. TypeOK
    BY <1>1, InitType
  <1>3. /\ raw = {} /\ faults = 0 /\ worker = [w \in Worker |-> Idle]
        /\ monthly = [k \in MonthKey |-> [bytes |-> 0, eventCount |-> 0]]
        /\ script = Idle /\ files = {} /\ aggregates = {} /\ processed = {}
        /\ wanted = TRUE /\ added = {} /\ unsure = {}
    BY <1>1 DEF Init, BackfillInit
  <1>4. IsFiniteSet({})
    BY FS_EmptySet
  <1>5. ScriptTypeOK /\ ScriptInv
    BY <1>3, <1>4 DEF ScriptTypeOK, ScriptInv, Idle
  <1>6. \A w \in Worker : worker[w].pc = "idle" /\ FlightOf(worker[w]) = {}
    <2>1. \A w \in Worker : worker[w].pc = "idle"
      BY <1>3 DEF Idle
    <2>2. QED
      BY <2>1, NoFlight
  <1>7. FlightInv
    BY <1>3, <1>4, <1>6 DEF FlightInv
  <1>8. InFlight = {}
    BY <1>6, FlightIs
  <1>9. PICK c : c = [e \in Events |-> 1]
    OBVIOUS
  <1>10. c \in Counting
    <2>1. 1 \in 0..(Retries + 1)
      BY EgressAssumption
    <2>2. QED
      BY <1>9, <2>1 DEF Counting
  <1>11. Over = {} /\ Off(c) = {} /\ Cardinality(Off(c)) <= faults
    BY <1>3, FS_EmptySet DEF Over, Off, Countable
  <1>12. ASSUME NEW k \in MonthKey
         PROVE  Due(k, 0) /\ monthly[k] = Plus(Live(Over, c, k), SumOf(aggregates, k), 0)
    <2>1. RunsFor(k) = 0
      BY <1>3 DEF RunsFor, Idle
    <2>2. Due(k, 0)
      BY <1>3, <2>1, TriesFacts DEF Due
    <2>3. monthly[k] = [bytes |-> 0, eventCount |-> 0]
      BY <1>3
    <2>4. PICK none : none = [bytes |-> 0, eventCount |-> 0]
      OBVIOUS
    <2>5. none \in [bytes : Nat, eventCount : Nat] /\ none.bytes \in Nat /\ none.eventCount \in Nat
      BY <2>4
    <2>6. Plus(none, none, 0) = none
      BY <2>5, PlusNone
    <2>7. Live(Over, c, k) = none /\ SumOf(aggregates, k) = none
      BY <1>3, <1>11, <2>4, NothingCounted
    <2>8. QED
      BY <2>2, <2>3, <2>4, <2>6, <2>7
  <1>13. TallyInv
    BY <1>10, <1>11, <1>12 DEF TallyInv, Tally
  <1>14. QED
    BY <1>2, <1>5, <1>7, <1>13 DEF BothInv, ScriptOK

LEMMA BothNextInv == ASSUME BothInv, [BothNext]_allVars PROVE BothInv'
  <1>1. TypeOK /\ ScriptTypeOK /\ FlightInv /\ TallyInv /\ ScriptOK
    BY DEF BothInv, ScriptOK
  <1>2. CASE Next /\ UNCHANGED backfill
    <2>1. FlightInv' /\ Moves /\ (faults' = faults \/ faults' = faults + 1)
      BY <1>1, <1>2, FlightMoves
    <2>2. TallyInv'
      BY <1>1, <1>2, <2>1, TallyMoves
    <2>3. QED
      BY <1>1, <1>2, <2>1, <2>2, HandlerKeepsTypes DEF BothInv
  <1>3. CASE UNCHANGED allVars
    <2>1. UNCHANGED vars /\ UNCHANGED backfill
      BY <1>3 DEF allVars
    <2>2. UNCHANGED <<worker, raw, monthly, faults>>
      BY <2>1 DEF vars
    <2>3. FlightInv' /\ InFlight' = InFlight
      BY <1>1, <2>2, StillFlight
    <2>4. Moves
      BY <2>2, <2>3 DEF Moves, NoneMoves
    <2>5. TallyInv'
      BY <1>1, <2>1, <2>2, <2>4, TallyMoves
    <2>6. ScriptOK'
      BY <1>1, <2>1 DEF ScriptOK, TypeOK, ScriptTypeOK, ScriptInv, vars, backfill
    <2>7. QED
      BY <2>3, <2>5, <2>6 DEF BothInv
  <1>4. CASE BackfillNext
    <2>1. UNCHANGED <<worker, raw>>
      <3>1. ASSUME NEW k \in MonthKey, SumFails(k) PROVE UNCHANGED <<worker, raw>>
        BY <3>1 DEF SumFails
      <3>2. QED
        BY <1>4, <3>1 DEF BackfillNext, StartScan, EndScan, EndWrite, StopScript, StartWrite, AddSum,
                          SumAdded, vars
    <2>2. FlightInv'
      BY <1>1, <2>1, StillFlight
    <2>3. CASE StartScan \/ EndScan
      BY <1>1, <2>2, <2>3, ScanKeepsTypes, ScanTallies DEF BothInv
    <2>4. CASE EndWrite \/ StopScript \/ \E resume \in BOOLEAN : StartWrite(resume)
      BY <1>1, <2>2, <2>4, RunKeepsTypes, RunTallies DEF BothInv
    <2>5. ASSUME NEW k \in MonthKey, AddSum(k) \/ SumAdded(k) \/ SumFails(k)
          PROVE  BothInv'
      BY <1>1, <2>2, <2>5, AddKeepsTypes, AddTallies DEF BothInv
    <2>6. QED
      BY <1>4, <2>3, <2>4, <2>5 DEF BackfillNext
  <1>5. QED
    BY <1>2, <1>3, <1>4 DEF BothNext

LEMMA TallyGivesSum == ASSUME BothInv PROVE MonthlyIsSum
  <1>1. TypeOK /\ ScriptTypeOK /\ FlightInv /\ TallyInv /\ faults \in Nat /\ wanted \in BOOLEAN
    BY DEF BothInv, ScriptOK, TypeOK, ScriptTypeOK
  <1>2. PICK c \in Counting : Tally(c)
    BY <1>1 DEF TallyInv
  <1>3. Over = Countable \ InFlight /\ Over \in SUBSET Events /\ Over \subseteq raw \ InFlight
    BY <1>1, OverFacts DEF Over
  <1>4. PICK counts : counts = [e \in Over |-> c[e]]
    OBVIOUS
  <1>5. counts \in [Over -> 0..(Retries + 1)] /\ \A e \in Over : counts[e] = c[e]
    BY <1>2, <1>3, <1>4 DEF Counting
  <1>6. Cardinality({e \in Over : counts[e] # 1}) <= faults
    <2>1. {e \in Over : counts[e] # 1} \subseteq Off(c)
      BY <1>3, <1>5 DEF Off
    <2>2. IsFiniteSet(Off(c))
      BY <1>1, OverFacts, FS_Subset DEF Off
    <2>3. /\ Cardinality(Off(c)) \in Nat /\ Cardinality({e \in Over : counts[e] # 1}) \in Nat
          /\ Cardinality({e \in Over : counts[e] # 1}) <= Cardinality(Off(c))
      BY <2>1, <2>2, FS_Subset, FS_CardinalityType
    <2>4. QED
      BY <1>1, <1>2, <2>3 DEF Tally
  <1>7. ASSUME NEW k \in MonthKey
        PROVE  \E times \in Times(k) :
                 monthly[k] = Plus(Live(Over, counts, k), SumOf(aggregates, k), times)
    <2>1. PICK t \in Nat : Due(k, t) /\ monthly[k] = Plus(Live(Over, c, k), SumOf(aggregates, k), t)
      BY <1>2 DEF Tally
    <2>2. Live(Over, counts, k) = Live(Over, c, k)
      BY <1>2, <1>3, <1>5, CountingIsNatural, LiveSame
    <2>3. t <= (Retries + 1) * (faults + 1)
      <3>1. RunsFor(k) \in Int /\ RunsFor(k) <= faults + 1
        <4>1. RunsFor(k) = faults - 1 \/ RunsFor(k) = faults \/ RunsFor(k) = faults + 1
          BY <1>1, RunsNow
        <4>2. QED
          BY <1>1, <4>1
      <3>2. PICK m \in Int : m = faults + 1
        BY <1>1
      <3>3. /\ Tries * RunsFor(k) \in Int /\ Tries * m \in Int
            /\ Tries * RunsFor(k) <= Tries * m
        BY <3>1, <3>2, MoreRuns
      <3>4. t <= Tries * RunsFor(k)
        BY <2>1 DEF Due
      <3>5. t <= Tries * m
        BY <3>3, <3>4
      <3>6. QED
        BY <3>2, <3>5 DEF Tries
    <2>4. (Retries + 1) * (faults + 1) \in Nat
      BY <1>1, EgressAssumption
    <2>5. t \in Times(k)
      BY <2>1, <2>3, <2>4 DEF Due, Times
    <2>6. QED
      BY <2>1, <2>2, <2>5
  <1>8. QED
    BY <1>3, <1>5, <1>6, <1>7 DEF MonthlyIsSum

(***************************************************************************)
(* The monthly totals are the sums of the events saved and of what the     *)
(* scripts added, but for one event or sum for each failure, which may be  *)
(* left out or counted as often as the client tries: however the handler's *)
(* invocations and the scripts interleave, and wherever they stop          *)
(* (egress-traffic-queue.js, 2-write-aggregates-to-monthly-table.js).      *)
(***************************************************************************)
THEOREM MonthlyTotalsAddUp == BothSpec => []MonthlyIsSum
  <1>1. BothInit => BothInv
    BY BothInitInv
  <1>2. BothInv /\ [BothNext]_allVars => BothInv'
    BY BothNextInv
  <1>3. BothInv => MonthlyIsSum
    BY TallyGivesSum
  <1>4. QED
    BY <1>1, <1>2, <1>3, PTL DEF BothSpec

-----------------------------------------------------------------------------
(***************************************************************************)
(* Reports of egress. Sums of the events of two sets, and of the events of *)
(* each key, of which there are finitely many.                             *)
(***************************************************************************)
EventSet(A) == A \subseteq AllEvents /\ IsFiniteSet(A)

LEMMA EventPart ==
    ASSUME NEW A, EventSet(A), NEW B, B \subseteq A
    PROVE  EventSet(B) /\ Bytes(B) \in Nat /\ Cardinality(B) \in Nat
  <1>1. EventSet(B)
    BY FS_Subset DEF EventSet
  <1>2. QED
    BY <1>1, BytesType DEF EventSet

LEMMA BytesNone == Bytes({}) = 0
  BY TotalEmpty DEF Bytes

LEMMA BytesUnion ==
    ASSUME NEW A, NEW B, EventSet(A), EventSet(B), A \intersect B = {}
    PROVE  /\ EventSet(A \union B) /\ Bytes(A) \in Nat /\ Bytes(B) \in Nat
           /\ Bytes(A \union B) = Bytes(A) + Bytes(B)
  <1> DEFINE Adds(T) == EventSet(A \union T) /\ Bytes(A \union T) = Bytes(A) + Bytes(T)
             P == {n \in Nat : \A T \in SUBSET B : Cardinality(T) = n => Adds(T)}
  <1>1. \A T \in SUBSET B : EventSet(T) /\ Cardinality(T) \in Nat /\ Bytes(T) \in Nat
    BY EventPart
  <1>2. Bytes(A) \in Nat
    BY EventPart
  <1>3. 0 \in P
    <2> SUFFICES ASSUME NEW T \in SUBSET B, Cardinality(T) = 0 PROVE Adds(T)
      OBVIOUS
    <2>1. T = {}
      BY <1>1, FS_EmptySet DEF EventSet
    <2>2. A \union T = A
      BY <2>1
    <2>3. Bytes(T) = 0
      BY <2>1, BytesNone
    <2>4. EventSet(A \union T) /\ Bytes(A \union T) = Bytes(A)
      BY <2>2
    <2>5. Bytes(A) = Bytes(A) + Bytes(T)
      BY <1>2, <2>3
    <2>6. QED
      BY <2>4, <2>5
  <1>4. ASSUME NEW n \in Nat, n \in P PROVE n + 1 \in P
    <2> SUFFICES ASSUME NEW T \in SUBSET B, Cardinality(T) = n + 1 PROVE Adds(T)
      OBVIOUS
    <2>1. PICK x : x \in T
      BY HasOne
    <2> DEFINE rest == T \ {x}
    <2>2. rest \in SUBSET B /\ x \notin rest /\ rest \union {x} = T /\ x \notin A \union rest
      BY <2>1
    <2>3. IsFiniteSet(T)
      BY <1>1 DEF EventSet
    <2>4. Cardinality(rest) = n
      BY <2>1, <2>3, LessOne
    <2>5. Adds(rest)
      BY <1>4, <2>2, <2>4
    <2>6. x \in AllEvents /\ x.bytes \in Nat
      BY <2>1, EventFacts DEF EventSet
    <2> HIDE DEF rest
    <2>7. EventSet(rest) /\ Bytes(rest) \in Nat
      BY <1>1, <2>2
    <2>8. Bytes(T) = Bytes(rest) + x.bytes
      BY <2>2, <2>6, <2>7, BytesWith DEF EventSet
    <2>9. (A \union rest) \union {x} = A \union T
      BY <2>2
    <2>10. PICK C : C = A \union rest
      OBVIOUS
    <2>11. EventSet(C) /\ x \notin C /\ C \union {x} = A \union T /\ Bytes(C) = Bytes(A) + Bytes(rest)
      BY <2>2, <2>5, <2>9, <2>10
    <2>12. Bytes(C \union {x}) = Bytes(C) + x.bytes
      BY <2>6, <2>11, BytesWith DEF EventSet
    <2>13. EventSet(C \union {x})
      BY <2>6, <2>11, FS_AddElement DEF EventSet
    <2>14. Bytes(A \union T) = Bytes(A) + Bytes(T)
      BY <1>2, <2>6, <2>7, <2>8, <2>11, <2>12
    <2>15. QED
      BY <2>11, <2>13, <2>14
  <1>5. P = Nat
    <2>1. P \in SUBSET Nat
      OBVIOUS
    <2> HIDE DEF P
    <2>2. QED
      BY <1>3, <1>4, <2>1, Induction
  <1>6. B \in SUBSET B /\ Cardinality(B) \in Nat
    BY <1>1
  <1>7. Adds(B)
    BY <1>5, <1>6
  <1>8. QED
    BY <1>1, <1>2, <1>6, <1>7

\* Fewer events are no more bytes.
LEMMA BytesFewer ==
    ASSUME NEW A, EventSet(A), NEW B, B \subseteq A
    PROVE  Bytes(A) \in Nat /\ Bytes(B) \in Nat /\ Bytes(B) <= Bytes(A)
  <1> DEFINE C == A \ B
  <1>1. EventSet(A) /\ EventSet(B) /\ EventSet(C) /\ Bytes(A) \in Nat /\ Bytes(C) \in Nat /\ Bytes(B) \in Nat
    BY EventPart
  <1>2. B \intersect C = {} /\ B \union C = A
    OBVIOUS
  <1> HIDE DEF C
  <1>3. Bytes(B \union C) = Bytes(B) + Bytes(C)
    BY <1>1, <1>2, BytesUnion
  <1>4. Bytes(A) = Bytes(B) + Bytes(C)
    BY <1>2, <1>3
  <1>5. Bytes(B) <= Bytes(B) + Bytes(C)
    BY <1>1
  <1>6. QED
    BY <1>1, <1>4, <1>5

\* The sum over keys of the events of each is the sum of the events of any.
LEMMA Fibers ==
    ASSUME NEW S, EventSet(S), NEW g, NEW K, IsFiniteSet(K)
    PROVE  SumFunction([k \in K |-> Bytes({e \in S : g[e] = k})]) = Bytes({e \in S : g[e] \in K})
  <1> DEFINE f == [k \in K |-> Bytes({e \in S : g[e] = k})]
             Of(T) == {e \in S : g[e] \in T}
             Same(T) == SumFunctionOnSet(f, T) = Bytes(Of(T))
             P == {n \in Nat : \A T \in SUBSET K : Cardinality(T) = n => Same(T)}
  <1>1. \A T \in SUBSET K : IsFiniteSet(T) /\ Cardinality(T) \in Nat
    BY FS_Subset, FS_CardinalityType
  <1>2. \A k \in K : f[k] = Bytes(Of({k})) /\ f[k] \in Nat
    <2> SUFFICES ASSUME NEW k \in K PROVE f[k] = Bytes(Of({k})) /\ f[k] \in Nat
      OBVIOUS
    <2>1. f[k] = Bytes({e \in S : g[e] = k})
      OBVIOUS
    <2>2. {e \in S : g[e] = k} = Of({k}) /\ Of({k}) \subseteq S
      OBVIOUS
    <2>3. Bytes(Of({k})) \in Nat
      BY <2>2, EventPart
    <2>4. QED
      BY <2>1, <2>2, <2>3
  <1>3. \A T : Of(T) \subseteq S
    OBVIOUS
  <1>4. SumFunction(f) = SumFunctionOnSet(f, K)
    BY DEF SumFunction
  <1>5. \A T, k : k \notin T => /\ Of(T \union {k}) = Of(T) \union Of({k})
                               /\ Of(T) \intersect Of({k}) = {}
    OBVIOUS
  <1>6. Of({}) = {}
    OBVIOUS
  <1> HIDE DEF f, Of
  <1>7. 0 \in P
    <2> SUFFICES ASSUME NEW T \in SUBSET K, Cardinality(T) = 0 PROVE Same(T)
      OBVIOUS
    <2>1. T = {}
      BY <1>1, FS_EmptySet
    <2>2. SumFunctionOnSet(f, T) = 0
      BY <2>1, SumEmpty
    <2>3. Bytes(Of(T)) = 0
      BY <1>6, <2>1, BytesNone
    <2>4. QED
      BY <2>2, <2>3
  <1>8. ASSUME NEW n \in Nat, n \in P PROVE n + 1 \in P
    <2> SUFFICES ASSUME NEW T \in SUBSET K, Cardinality(T) = n + 1 PROVE Same(T)
      OBVIOUS
    <2>1. PICK x : x \in T
      BY HasOne
    <2> DEFINE rest == T \ {x}
    <2>2. rest \in SUBSET K /\ x \notin rest /\ rest \union {x} = T /\ IsFiniteSet(rest)
      BY <1>1, <2>1
    <2>3. Cardinality(rest) = n
      BY <1>1, <2>1, LessOne
    <2>4. Same(rest)
      BY <1>8, <2>2, <2>3
    <2> HIDE DEF rest
    <2>5. \A y \in rest \union {x} : f[y] \in Int
      <3>1. \A y \in K : f[y] \in Nat
        BY <1>2
      <3>2. \A y \in rest \union {x} : y \in K
        BY <2>2
      <3>3. QED
        BY <3>1, <3>2
    <2>6. SumFunctionOnSet(f, rest \union {x}) = SumFunctionOnSet(f, rest) + f[x]
      BY <2>2, <2>5, SumWith
    <2>7. EventSet(Of(rest)) /\ EventSet(Of({x}))
      BY <1>3, EventPart
    <2>8. Of(rest \union {x}) = Of(rest) \union Of({x}) /\ Of(rest) \intersect Of({x}) = {}
      BY <1>5, <2>2
    <2>9. Bytes(Of(rest) \union Of({x})) = Bytes(Of(rest)) + Bytes(Of({x}))
      BY <2>7, <2>8, BytesUnion
    <2>10. f[x] = Bytes(Of({x}))
      BY <1>2, <2>1
    <2>11. QED
      BY <2>2, <2>4, <2>6, <2>8, <2>9, <2>10
  <1>9. P = Nat
    <2>1. P \in SUBSET Nat
      OBVIOUS
    <2> HIDE DEF P
    <2>2. QED
      BY <1>7, <1>8, <2>1, Induction
  <1>10. Same(K)
    BY <1>1, <1>9
  <1>11. QED
    BY <1>4, <1>10 DEF Of, f

(***************************************************************************)
(* Months.                                                                 *)
(***************************************************************************)
LEMMA LatestStart ==
    ASSUME NEW t \in Time
    PROVE  /\ StartOfMonth(t) \in MonthStarts /\ StartOfMonth(t) \in Nat /\ StartOfMonth(t) <= t
           /\ \A n \in MonthStarts : n <= t => n <= StartOfMonth(t)
  <1> DEFINE Latest(m) == m <= t /\ \A n \in MonthStarts : n <= t => n <= m
  <1>1. \E m \in MonthStarts : Latest(m)
    BY PeriodsAssumption DEF Time
  <1>2. StartOfMonth(t) = CHOOSE m \in MonthStarts : Latest(m)
    BY DEF StartOfMonth
  <1> HIDE DEF Latest
  <1>3. StartOfMonth(t) \in MonthStarts /\ Latest(StartOfMonth(t))
    BY <1>1, <1>2
  <1>4. QED
    BY <1>3, PeriodsAssumption DEF Latest

\* Whole months: an instant is in the period when its month is.
LEMMA WholeMonths ==
    ASSUME NEW from \in MonthStarts, NEW to \in Time, from <= to, LastOfMonth(to), NEW t \in Time
    PROVE  (from <= t /\ t <= to) <=> (StartOfMonth(from) <= StartOfMonth(t) /\ StartOfMonth(t) <= StartOfMonth(to))
  <1>1. from \in Time /\ from \in Nat /\ to \in Nat /\ t \in Nat /\ t <= Horizon /\ Horizon \in Nat
    BY PeriodsAssumption DEF Time
  <1>2. PICK a, b, c : a = StartOfMonth(from) /\ b = StartOfMonth(t) /\ c = StartOfMonth(to)
    OBVIOUS
  <1>3. a = from
    BY <1>1, <1>2, LatestStart
  <1>4. /\ b \in Nat /\ b \in MonthStarts /\ b <= t /\ \A n \in MonthStarts : n <= t => n <= b
        /\ c \in Nat /\ c \in MonthStarts /\ c <= to /\ \A n \in MonthStarts : n <= to => n <= c
    BY <1>2, LatestStart
  <1>5. to = Horizon \/ to + 1 \in MonthStarts
    BY DEF LastOfMonth, IsMonthStart
  <1>6. from <= t <=> from <= b
    BY <1>1, <1>4
  <1>7. t <= to => b <= c
    BY <1>1, <1>4
  <1>8. ASSUME ~(t <= to) PROVE ~(b <= c)
    <2>1. to + 1 \in MonthStarts /\ to + 1 <= t
      BY <1>1, <1>5, <1>8
    <2>2. to + 1 <= b
      BY <1>4, <2>1
    <2>3. QED
      BY <1>1, <1>4, <2>2
  <1>9. QED
    BY <1>2, <1>3, <1>6, <1>7, <1>8

LEMMA ImageFinite ==
    ASSUME NEW S, IsFiniteSet(S), NEW f, f = [x \in S |-> f[x]], NEW T, T = {f[x] : x \in S}
    PROVE  IsFiniteSet(T)
  <1>1. f \in Surjection(S, T)
    BY DEF Surjection
  <1>2. QED
    BY <1>1, FS_Surjection

LEMMA KeysFinite == IsFiniteSet(MonthKey)
  <1> DEFINE S == (Events \X Events) \X Events
             f == [p \in S |-> [customer |-> p[1][1].customer, month |-> StartOfMonth(p[1][2].at),
                                space |-> p[2].space]]
             T == {f[p] : p \in S}
  <1>1. IsFiniteSet(S)
    BY ReportsAssumption, FS_Product
  <1>2. f = [x \in S |-> f[x]]
    OBVIOUS
  <1>3. IsFiniteSet(T)
    <2> HIDE DEF S, f
    <2>1. QED
      BY <1>1, <1>2, ImageFinite
  <1>4. ASSUME NEW k \in MonthKey PROVE k \in T
    <2>1. PICK d \in Events, e \in Events, g \in Events :
            k = [customer |-> d.customer, month |-> StartOfMonth(e.at), space |-> g.space]
      BY DEF MonthKey
    <2>2. PICK p : p = <<<<d, e>>, g>>
      OBVIOUS
    <2>3. p \in S /\ p[1][1] = d /\ p[1][2] = e /\ p[2] = g
      BY <2>2
    <2>4. f[p] = k
      BY <2>1, <2>3
    <2>5. QED
      BY <2>3, <2>4
  <1>5. MonthKey \subseteq T
    BY <1>4
  <1>6. QED
    BY <1>3, <1>5, FS_Subset

LEMMA SpacesFinite == ASSUME NEW customer PROVE IsFiniteSet(SpacesOf(customer))
  <1> DEFINE S == {e \in Events \union History : e.customer = customer}
             f == [e \in S |-> e.space]
  <1>1. IsFiniteSet(Events \union History)
    BY ReportsAssumption, BackfillAssumption, FS_Union
  <1>2. IsFiniteSet(S)
    BY <1>1, FS_Subset
  <1>3. SpacesOf(customer) = {f[e] : e \in S}
    BY DEF SpacesOf
  <1>4. f = [x \in S |-> f[x]]
    OBVIOUS
  <1> HIDE DEF S, f
  <1>5. QED
    BY <1>2, <1>3, <1>4, ImageFinite

(***************************************************************************)
(* Without failures, a sum is added once: there is one run, and it starts  *)
(* with nothing added. And an event of a customer that Stripe bills is     *)
(* reported, unless the invocation that saved it is still to report it.    *)
(***************************************************************************)
OneRun == faults = 0 => unsure = {} /\ (wanted => added = {} /\ script.pc # "write")

Reporting(e) ==
    \E w \in Worker : /\ worker[w].pc \in {"customer", "stripe"}
                      /\ worker[w].event = e /\ ~worker[w].duplicate

MeterInv ==
    /\ meter \subseteq raw
    /\ \A w \in Worker : worker[w].pc \in {"customer", "stripe", "increment"} => worker[w].event \in raw
    /\ faults = 0 =>
         \A e \in raw : e.customer \in Accounts /\ ~StripeOff => e \in meter \/ Reporting(e)

ReportsInv == BothInv /\ OneRun /\ MeterInv

LEMMA CountableFacts ==
    ASSUME TypeOK, ScriptTypeOK, FlightInv
    PROVE  /\ EventSet(Countable) /\ EventSet(aggregates) /\ EventSet(Counted) /\ EventSet(raw)
           /\ Countable \subseteq raw
  <1>1. raw \subseteq Events /\ IsFiniteSet(raw) /\ Countable \subseteq raw
    BY RawInFlight DEF Countable
  <1>2. aggregates \subseteq AllEvents /\ IsFiniteSet(aggregates)
    BY DEF ScriptTypeOK, AllEvents
  <1>3. EventSet(raw)
    BY <1>1 DEF EventSet, AllEvents
  <1>4. EventSet(Countable) /\ EventSet(aggregates)
    BY <1>1, <1>2, <1>3, FS_Subset DEF EventSet
  <1>5. EventSet(Countable \union aggregates)
    BY <1>4, FS_Union DEF EventSet
  <1>6. Counted \subseteq Countable \union aggregates
    BY DEF Counted
  <1>7. QED
    BY <1>1, <1>3, <1>4, <1>5, <1>6, EventPart

\* Nothing is left out or counted twice.
LEMMA TotalOfKey ==
    ASSUME ReportsInv, Undisturbed, NEW k \in MonthKey
    PROVE  monthly[k].bytes = Bytes({e \in Counted : KeyOf(e) = k})
  <1>1. /\ TypeOK /\ ScriptTypeOK /\ FlightInv /\ TallyInv
        /\ faults = 0 /\ InFlight = {} /\ unsure = {}
        /\ added # {} => added = Keys(aggregates) /\ aggregates \intersect raw = {}
    BY DEF ReportsInv, BothInv, ScriptOK, OneRun, Undisturbed
  <1>2. PICK c \in Counting : Tally(c)
    BY <1>1 DEF TallyInv
  <1>3. Over = Countable
    BY <1>1 DEF Over
  <1>4. \A e \in Countable : c[e] = 1
    <2>1. IsFiniteSet(Off(c))
      BY <1>1, OverFacts, FS_Subset DEF Off
    <2>2. Cardinality(Off(c)) \in Nat /\ Cardinality(Off(c)) <= 0
      BY <1>1, <1>2, <2>1, FS_CardinalityType DEF Tally
    <2>3. Off(c) = {}
      BY <2>1, <2>2, FS_EmptySet
    <2>4. QED
      BY <1>1, <1>3, <2>3, OverFacts DEF Off
  <1>5. PICK t \in Nat : /\ Due(k, t)
                         /\ monthly[k] = Plus(Live(Countable, c, k), SumOf(aggregates, k), t)
    BY <1>2, <1>3 DEF Tally
  <1> DEFINE A == {e \in Countable : KeyOf(e) = k}
             B == {e \in aggregates : KeyOf(e) = k}
  <1>6. Bytes(A) \in Nat /\ Bytes(B) \in Nat /\ EventSet(A) /\ EventSet(B)
    BY <1>1, CountableFacts, EventPart
  <1>7. Live(Countable, c, k).bytes = Bytes(A)
    <2>1. Live(Countable, c, k) = [bytes |-> SumFunction([e \in A |-> c[e] * e.bytes]),
                                   eventCount |-> SumFunction([e \in A |-> c[e]])]
      BY DEF Live
    <2>2. \A e \in A : c[e] = 1 /\ e.bytes \in Nat
      BY <1>1, <1>4, CountableFacts, EventFacts DEF EventSet
    <2> HIDE DEF A
    <2>3. \A e \in A : c[e] * e.bytes = e.bytes
      BY <2>2
    <2>4. [e \in A |-> c[e] * e.bytes] = [e \in A |-> e.bytes]
      BY <2>3
    <2>5. QED
      BY <2>1, <2>4 DEF Bytes
  <1>8. SumOf(aggregates, k) = [bytes |-> Bytes(B), eventCount |-> Cardinality(B)]
    BY DEF SumOf
  <1>10. added = {} => {e \in Counted : KeyOf(e) = k} = A
    BY DEF Counted
  <1>11. added # {} => {e \in Counted : KeyOf(e) = k} = A \union B /\ A \intersect B = {}
    BY <1>1, CountableFacts DEF Counted
  <1>12. added # {} /\ k \notin added => B = {}
    BY <1>1 DEF Keys
  <1>13. (k \in added => t = 1) /\ (k \notin added => t = 0)
    BY <1>1, <1>5 DEF Due
  <1> HIDE DEF A, B
  <1>14. monthly[k].bytes = Bytes(A) + t * Bytes(B)
    <2>1. SumOf(aggregates, k).bytes = Bytes(B)
      BY <1>8
    <2>2. monthly[k].bytes = Live(Countable, c, k).bytes + t * SumOf(aggregates, k).bytes
      BY <1>5 DEF Plus
    <2>3. QED
      BY <1>7, <2>1, <2>2
  <1>15. CASE added = {}
    <2>1. t = 0
      BY <1>13, <1>15
    <2>2. monthly[k].bytes = Bytes(A)
      BY <1>6, <1>14, <2>1
    <2>3. QED
      BY <1>10, <1>15, <2>2
  <1>16. CASE added # {} /\ k \notin added
    <2>1. t = 0 /\ A \union B = A
      BY <1>12, <1>13, <1>16
    <2>2. monthly[k].bytes = Bytes(A)
      BY <1>6, <1>14, <2>1
    <2>3. QED
      BY <1>11, <1>16, <2>1, <2>2
  <1>17. CASE k \in added
    <2>1. t = 1 /\ A \intersect B = {}
      BY <1>11, <1>13, <1>17
    <2>2. monthly[k].bytes = Bytes(A) + Bytes(B)
      BY <1>6, <1>14, <2>1
    <2>3. Bytes(A \union B) = Bytes(A) + Bytes(B)
      BY <1>6, <2>1, BytesUnion
    <2>4. QED
      BY <1>11, <1>17, <2>2, <2>3
  <1>18. QED
    BY <1>15, <1>16, <1>17

LEMMA MonthlySum ==
    ASSUME ReportsInv, Undisturbed, NEW ks, ks \subseteq MonthKey
    PROVE  MonthlyBytes(ks) = Bytes({e \in Counted : KeyOf(e) \in ks})
  <1> DEFINE g == [e \in AllEvents |-> KeyOf(e)]
  <1>1. EventSet(Counted)
    BY CountableFacts DEF ReportsInv, BothInv, ScriptOK
  <1>2. \A e \in Counted : g[e] = KeyOf(e)
    BY <1>1 DEF EventSet
  <1> HIDE DEF g
  <1>3. IsFiniteSet(ks)
    BY KeysFinite, FS_Subset
  <1>4. SumFunction([k \in ks |-> Bytes({e \in Counted : g[e] = k})]) = Bytes({e \in Counted : g[e] \in ks})
    BY <1>1, <1>3, Fibers
  <1>5. {e \in Counted : g[e] \in ks} = {e \in Counted : KeyOf(e) \in ks}
    BY <1>2
  <1>6. \A k \in ks : monthly[k].bytes = Bytes({e \in Counted : g[e] = k})
    <2> SUFFICES ASSUME NEW k \in ks PROVE monthly[k].bytes = Bytes({e \in Counted : g[e] = k})
      OBVIOUS
    <2>1. {e \in Counted : g[e] = k} = {e \in Counted : KeyOf(e) = k}
      BY <1>2
    <2>2. k \in MonthKey
      OBVIOUS
    <2>3. monthly[k].bytes = Bytes({e \in Counted : KeyOf(e) = k})
      BY <2>2, TotalOfKey
    <2>4. QED
      BY <2>1, <2>3
  <1>7. [k \in ks |-> monthly[k].bytes] = [k \in ks |-> Bytes({e \in Counted : g[e] = k})]
    BY <1>6
  <1>8. QED
    BY <1>4, <1>5, <1>7 DEF MonthlyBytes

LEMMA KeyFields ==
    ASSUME NEW e
    PROVE  /\ KeyOf(e).customer = e.customer /\ KeyOf(e).month = StartOfMonth(e.at)
           /\ KeyOf(e).space = e.space
  BY DEF KeyOf

\* The report of a period of whole months.
LEMMA PeriodsAgree ==
    ASSUME ReportsInv, Undisturbed, NEW space, NEW from \in MonthStarts, NEW to \in Time,
           from <= to, LastOfMonth(to)
    PROVE  SumOfMonths(space, from, to) = SumOfEvents(Counted, space, from, to)
  <1> DEFINE ks == {k \in MonthKey : /\ k.space = space
                                     /\ StartOfMonth(from) <= k.month /\ k.month <= StartOfMonth(to)}
             of == {e \in Counted : e.space = space /\ from <= e.at /\ e.at <= to}
  <1>1. SumOfMonths(space, from, to) = MonthlyBytes(ks)
    BY DEF SumOfMonths
  <1>2. SumOfEvents(Counted, space, from, to) = Bytes(of)
    BY DEF SumOfEvents
  <1>3. EventSet(Counted)
    BY CountableFacts DEF ReportsInv, BothInv, ScriptOK
  <1>4. ASSUME NEW e \in Counted PROVE KeyOf(e) \in ks <=> e \in of
    <2>1. e \in AllEvents
      BY <1>3 DEF EventSet
    <2>2. KeyOf(e) \in MonthKey /\ e.at \in Time
      BY <2>1, KeyIsKey, EventFacts
    <2>3. (from <= e.at /\ e.at <= to)
            <=> (StartOfMonth(from) <= StartOfMonth(e.at) /\ StartOfMonth(e.at) <= StartOfMonth(to))
      BY <2>2, WholeMonths
    <2>4. QED
      BY <2>2, <2>3, KeyFields
  <1>5. {e \in Counted : KeyOf(e) \in ks} = of
    BY <1>4
  <1>6. ks \subseteq MonthKey
    OBVIOUS
  <1> HIDE DEF ks, of
  <1>7. MonthlyBytes(ks) = Bytes({e \in Counted : KeyOf(e) \in ks})
    BY <1>6, MonthlySum
  <1>8. QED
    BY <1>1, <1>2, <1>5, <1>7

OfMonth(customer, month) == {e \in Counted : e.customer = customer /\ StartOfMonth(e.at) = month}

LEMMA ListedIs ==
    ASSUME ReportsInv, Undisturbed, NEW customer, NEW month
    PROVE  ListedTotal(customer, month) = Bytes(OfMonth(customer, month))
  <1> DEFINE ks == {k \in MonthKey : k.customer = customer /\ k.month = month}
  <1>1. ListedTotal(customer, month) = MonthlyBytes(ks)
    BY DEF ListedTotal
  <1>2. EventSet(Counted)
    BY CountableFacts DEF ReportsInv, BothInv, ScriptOK
  <1>3. ASSUME NEW e \in Counted
        PROVE  KeyOf(e) \in ks <=> (e.customer = customer /\ StartOfMonth(e.at) = month)
    <2>1. KeyOf(e) \in MonthKey
      BY <1>2, KeyIsKey DEF EventSet
    <2>2. QED
      BY <2>1, KeyFields
  <1>4. {e \in Counted : KeyOf(e) \in ks} = OfMonth(customer, month)
    BY <1>3 DEF OfMonth
  <1>5. ks \subseteq MonthKey
    OBVIOUS
  <1> HIDE DEF ks
  <1>6. MonthlyBytes(ks) = Bytes({e \in Counted : KeyOf(e) \in ks})
    BY <1>5, MonthlySum
  <1>7. QED
    BY <1>1, <1>4, <1>6

\* Stripe was told of what was counted since there are totals.
LEMMA StripeAgrees ==
    ASSUME ReportsInv, Undisturbed, NEW customer \in Accounts, ~StripeOff, NEW month,
           NEW earlier, earlier = {e \in Counted \ raw : e.customer = customer /\ StartOfMonth(e.at) = month}
    PROVE  MonthlyVsStripe(customer, month) = Bytes(earlier)
  <1> DEFINE told == {e \in meter : e.customer = customer /\ StartOfMonth(e.at) = month}
             all == OfMonth(customer, month)
  <1>1. /\ TypeOK /\ ScriptTypeOK /\ FlightInv /\ MeterInv /\ faults = 0 /\ InFlight = {}
        /\ added # {} => aggregates \intersect raw = {}
    BY DEF ReportsInv, BothInv, ScriptOK, Undisturbed
  <1>2. EventSet(Counted) /\ EventSet(raw) /\ Countable \subseteq raw
    BY <1>1, CountableFacts
  <1>3. all \subseteq Counted
    BY DEF OfMonth
  <1>4. ASSUME NEW e, Reporting(e) PROVE e \in InFlight
    <2>1. PICK w \in Worker : /\ worker[w].pc \in {"customer", "stripe"}
                              /\ worker[w].event = e /\ ~worker[w].duplicate
      BY <1>4 DEF Reporting
    <2>2. worker[w] \in AtRecord /\ e \in Events
      BY <1>1, <2>1, AtRecordFacts
    <2>3. QED
      BY <2>1, <2>2 DEF InFlight
  <1>5. ASSUME NEW e, e.customer = customer
        PROVE  e \in meter <=> e \in Countable
    <2>1. ~Unknown(e)
      BY <1>5 DEF Unknown
    <2>2. e \in meter => e \in Countable
      BY <1>1, <2>1 DEF MeterInv, Countable
    <2>3. e \in Countable => e \in meter \/ Reporting(e)
      BY <1>1, <1>5 DEF MeterInv, Countable
    <2>4. QED
      BY <1>1, <1>4, <2>2, <2>3
  <1>6. \A e \in Counted : e \in raw <=> e \in Countable
    BY <1>1, <1>2 DEF Counted
  <1>7. told \union earlier = all /\ told \intersect earlier = {}
    <2>1. \A e : e \in told <=> e \in Countable /\ e.customer = customer /\ StartOfMonth(e.at) = month
      BY <1>5
    <2>2. \A e : e \in earlier <=> /\ e \in Counted /\ e \notin Countable
                                   /\ e.customer = customer /\ StartOfMonth(e.at) = month
      BY <1>6
    <2>3. Countable \subseteq Counted
      BY DEF Counted
    <2> HIDE DEF told
    <2>4. QED
      BY <2>1, <2>2, <2>3 DEF OfMonth
  <1>8. StripeTotal(customer, month) = Bytes(told)
    BY DEF StripeTotal
  <1>9. ListedTotal(customer, month) = Bytes(all)
    BY ListedIs
  <1> HIDE DEF told, all
  <1>10. EventSet(told) /\ EventSet(earlier)
    BY <1>2, <1>3, <1>7, EventPart
  <1>11. Bytes(told) \in Nat /\ Bytes(earlier) \in Nat /\ Bytes(all) = Bytes(told) + Bytes(earlier)
    BY <1>7, <1>10, BytesUnion
  <1>12. QED
    BY <1>8, <1>9, <1>11 DEF MonthlyVsStripe

\* The events of a customer are events of its spaces.
LEMMA RawIsMore ==
    ASSUME ReportsInv, Undisturbed, NEW customer, NEW month
    PROVE  MonthlyVsRaw(Counted, customer, month) <= 0
  <1> DEFINE S == {e \in Counted : StartOfMonth(e.at) = month}
             K == SpacesOf(customer)
             g == [e \in AllEvents |-> e.space]
             more == {e \in S : g[e] \in K}
  <1>1. EventSet(Counted)
    BY CountableFacts DEF ReportsInv, BothInv, ScriptOK
  <1>2. EventSet(S) /\ S \subseteq AllEvents
    BY <1>1, EventPart DEF EventSet
  <1>3. \A e \in S : g[e] = e.space /\ 0 <= e.at /\ e.at <= Horizon
    <2>1. \A e \in AllEvents : e.at \in Time
      BY EventFacts
    <2>2. QED
      BY <1>2, <2>1, PeriodsAssumption DEF Time
  <1>4. IsFiniteSet(K)
    BY SpacesFinite
  <1>5. OfMonth(customer, month) \subseteq more
    <2> SUFFICES ASSUME NEW e \in Counted, e.customer = customer, StartOfMonth(e.at) = month
                 PROVE  e \in more
      BY DEF OfMonth
    <2>1. e \in S /\ e \in AllEvents
      BY <1>2
    <2>2. e.space \in K
      BY <2>1 DEF SpacesOf, AllEvents
    <2>3. QED
      BY <1>3, <2>1, <2>2
  <1>6. RawTotal(Counted, customer, month) = SumFunction([s \in K |-> SumOfEvents(S, s, 0, Horizon)])
    BY DEF RawTotal
  <1> HIDE DEF S, K, g
  <1>7. \A s \in K : SumOfEvents(S, s, 0, Horizon) = Bytes({e \in S : g[e] = s})
    <2> SUFFICES ASSUME NEW s \in K PROVE SumOfEvents(S, s, 0, Horizon) = Bytes({e \in S : g[e] = s})
      OBVIOUS
    <2>1. {e \in S : e.space = s /\ 0 <= e.at /\ e.at <= Horizon} = {e \in S : g[e] = s}
      BY <1>3
    <2>2. QED
      BY <2>1 DEF SumOfEvents
  <1>8. [s \in K |-> SumOfEvents(S, s, 0, Horizon)] = [s \in K |-> Bytes({e \in S : g[e] = s})]
    BY <1>7
  <1>9. SumFunction([s \in K |-> Bytes({e \in S : g[e] = s})]) = Bytes(more)
    BY <1>2, <1>4, Fibers
  <1>10. RawTotal(Counted, customer, month) = Bytes(more)
    BY <1>6, <1>8, <1>9
  <1>11. EventSet(more)
    BY <1>2, EventPart
  <1> HIDE DEF more
  <1>12. PICK few : few = OfMonth(customer, month)
    OBVIOUS
  <1>13. few \subseteq more
    BY <1>5, <1>12
  <1>14. Bytes(few) \in Nat /\ Bytes(more) \in Nat /\ Bytes(few) <= Bytes(more)
    BY <1>11, <1>13, BytesFewer
  <1>15. ListedTotal(customer, month) = Bytes(few)
    BY <1>12, ListedIs
  <1>16. PICK x \in Nat, y \in Nat : x = Bytes(few) /\ y = Bytes(more) /\ x <= y
    BY <1>14
  <1>17. MonthlyVsRaw(Counted, customer, month) = x - y
    BY <1>10, <1>15, <1>16 DEF MonthlyVsRaw
  <1>18. x - y <= 0
    BY <1>16
  <1>19. QED
    BY <1>17, <1>18

LEMMA InvReports == ASSUME ReportsInv PROVE ReportsAgree
  <1> SUFFICES ASSUME Undisturbed
               PROVE  /\ \A e \in Counted, from \in MonthStarts, to \in Time :
                           from <= to /\ LastOfMonth(to) =>
                             SumOfMonths(e.space, from, to) = SumOfEvents(Counted, e.space, from, to)
                      /\ \A customer \in {e.customer : e \in Events}, month \in MonthStarts :
                           LET earlier == {e \in Counted \ raw : e.customer = customer /\ StartOfMonth(e.at) = month}
                           IN  /\ (customer \in Accounts /\ ~StripeOff) =>
                                    MonthlyVsStripe(customer, month) = Bytes(earlier)
                               /\ MonthlyVsRaw(Counted, customer, month) <= 0
    BY DEF ReportsAgree
  <1>1. ASSUME NEW e \in Counted, NEW from \in MonthStarts, NEW to \in Time, from <= to, LastOfMonth(to)
        PROVE  SumOfMonths(e.space, from, to) = SumOfEvents(Counted, e.space, from, to)
    BY <1>1, PeriodsAgree
  <1>2. ASSUME NEW customer, NEW month, NEW earlier,
               earlier = {e \in Counted \ raw : e.customer = customer /\ StartOfMonth(e.at) = month}
        PROVE  /\ (customer \in Accounts /\ ~StripeOff) =>
                    MonthlyVsStripe(customer, month) = Bytes(earlier)
               /\ MonthlyVsRaw(Counted, customer, month) <= 0
    <2>1. ASSUME customer \in Accounts, ~StripeOff
          PROVE  MonthlyVsStripe(customer, month) = Bytes(earlier)
      BY <1>2, <2>1, StripeAgrees
    <2>2. QED
      BY <2>1, RawIsMore
  <1>3. QED
    BY <1>1, <1>2

LEMMA OneRunStays ==
    ASSUME OneRun, faults \in Nat, faults' = faults \/ faults' = faults + 1, UNCHANGED backfill
    PROVE  OneRun'
  <1>1. faults' = 0 => faults = 0
    OBVIOUS
  <1>2. QED
    BY <1>1 DEF OneRun, backfill

LEMMA OneRunNext ==
    ASSUME OneRun, ScriptOK, BackfillNext
    PROVE  OneRun'
  <1>1. faults \in Nat /\ ScriptTypeOK
    BY DEF ScriptOK, TypeOK
  <1> SUFFICES ASSUME faults' = 0 PROVE unsure' = {} /\ (wanted' => added' = {} /\ script'.pc # "write")
    BY DEF OneRun
  <1>2. ASSUME NEW kind, Fault(kind) PROVE FALSE
    BY <1>1, <1>2 DEF Fault
  <1>3. CASE StartScan
    BY <1>3 DEF StartScan, OneRun, vars
  <1>4. CASE EndScan
    BY <1>4 DEF EndScan, OneRun, vars, Idle
  <1>5. CASE EndWrite
    BY <1>5 DEF EndWrite, OneRun, vars, Idle
  <1>6. CASE StopScript
    BY <1>2, <1>6 DEF StopScript
  <1>7. ASSUME NEW resume \in BOOLEAN, StartWrite(resume)
        PROVE  unsure' = {} /\ ~wanted'
    BY <1>7 DEF StartWrite, OneRun, vars
  <1>8. ASSUME NEW k \in MonthKey, AddSum(k) \/ SumAdded(k)
        PROVE  unsure' = {} /\ ~wanted'
    BY <1>8 DEF AddSum, SumAdded, OneRun, vars
  <1>9. ASSUME NEW k \in MonthKey, SumFails(k)
        PROVE  FALSE
    BY <1>2, <1>9 DEF SumFails
  <1>10. QED
    BY <1>3, <1>4, <1>5, <1>6, <1>7, <1>8, <1>9 DEF BackfillNext

LEMMA MeterStays ==
    ASSUME MeterInv, faults \in Nat, faults' = faults \/ faults' = faults + 1,
           UNCHANGED <<worker, raw, meter>>
    PROVE  MeterInv'
  <1>1. faults' = 0 => faults = 0
    OBVIOUS
  <1>2. QED
    BY <1>1 DEF MeterInv, Reporting

ToReport(job, e) == job.pc \in {"customer", "stripe"} /\ job.event = e /\ ~job.duplicate

LEMMA MeterStep ==
    ASSUME TypeOK, MeterInv, NEW w \in Worker, NEW job, worker' = [worker EXCEPT ![w] = job],
           raw \subseteq raw', meter \subseteq meter', meter' \subseteq raw',
           job.pc \in {"customer", "stripe", "increment"} => job.event \in raw',
           faults' = 0 => /\ faults = 0
                          /\ \A e \in raw' \ raw : ToReport(job, e)
                          /\ \A e \in raw : /\ e.customer \in Accounts /\ ~StripeOff
                                            /\ ToReport(worker[w], e)
                                            => e \in meter' \/ ToReport(job, e)
    PROVE  MeterInv'
  <1>1. worker'[w] = job /\ \A v \in Worker \ {w} : worker'[v] = worker[v]
    BY DEF TypeOK
  <1>2. \A v \in Worker : worker'[v].pc \in {"customer", "stripe", "increment"} => worker'[v].event \in raw'
    BY <1>1 DEF MeterInv
  <1>3. ASSUME faults' = 0, NEW e \in raw', e.customer \in Accounts, ~StripeOff, e \notin meter'
        PROVE  \E v \in Worker : ToReport(worker'[v], e)
    <2>1. CASE e \notin raw
      BY <1>1, <1>3, <2>1
    <2>2. CASE e \in raw
      <3>1. Reporting(e)
        BY <1>3, <2>2 DEF MeterInv
      <3>2. PICK v \in Worker : ToReport(worker[v], e)
        BY <3>1 DEF Reporting, ToReport
      <3>3. CASE v = w
        BY <1>1, <1>3, <2>2, <3>2, <3>3
      <3>4. CASE v # w
        <4>1. worker'[v] = worker[v]
          BY <1>1, <3>4
        <4>2. ToReport(worker'[v], e)
          BY <3>2, <4>1
        <4>3. QED
          BY <4>2
      <3>5. QED
        BY <3>3, <3>4
    <2>3. QED
      BY <2>1, <2>2
  <1>4. faults' = 0 => \A e \in raw' : e.customer \in Accounts /\ ~StripeOff => e \in meter' \/ Reporting(e)'
    BY <1>3 DEF Reporting, ToReport
  <1>5. QED
    BY <1>2, <1>4 DEF MeterInv

\* An invocation goes on to its next record, or stops, with nothing to report.
LEMMA MeterGoesOn ==
    ASSUME TypeOK, MeterInv, NEW w \in Worker, NEW job, job.pc = "record" \/ job.pc = "idle",
           worker' = [worker EXCEPT ![w] = job], UNCHANGED <<raw, meter, faults>>,
           \A e : ~ToReport(worker[w], e)
    PROVE  MeterInv'
  <1>1. job.pc \notin {"customer", "stripe", "increment"}
    OBVIOUS
  <1>2. raw \subseteq raw' /\ meter \subseteq meter' /\ meter' \subseteq raw' /\ raw' \ raw = {}
    BY DEF MeterInv
  <1>3. QED
    BY <1>1, <1>2, MeterStep

\* After a failure, nothing is said of what was reported.
LEMMA MeterFails ==
    ASSUME TypeOK, MeterInv, NEW w \in Worker, NEW job, worker' = [worker EXCEPT ![w] = job],
           raw \subseteq raw', meter \subseteq meter', meter' \subseteq raw', faults' = faults + 1,
           job.pc \in {"customer", "stripe", "increment"} => job.event \in raw'
    PROVE  MeterInv'
  <1>1. faults' # 0
    BY DEF TypeOK
  <1>2. QED
    BY <1>1, MeterStep

LEMMA HandlerReports ==
    ASSUME TypeOK, MeterInv, NEW w \in Worker, Handler(w)
    PROVE  MeterInv'
  <1>1. ASSUME NEW ms \in SUBSET queue, Receive(w, ms)
        PROVE  MeterInv'
    <2> DEFINE batch == {[m EXCEPT !.receives = @ + 1] : m \in ms}
    <2>1. PICK job : job = [pc |-> "record", batch |-> batch, left |-> batch]
      OBVIOUS
    <2>2. /\ worker' = [worker EXCEPT ![w] = job] /\ UNCHANGED <<raw, meter, faults>>
          /\ worker[w].pc = "idle"
      BY <1>1, <2>1 DEF Receive, Idle
    <2> HIDE DEF batch
    <2>3. job.pc = "record"
      BY <2>1
    <2>4. \A e : ~ToReport(worker[w], e)
      BY <2>2 DEF ToReport
    <2>5. QED
      BY <2>2, <2>3, <2>4, MeterGoesOn
  <1>2. CASE SaveEvent(w)
    <2>1. PICK m \in worker[w].left : Saved(w, m, Duplicate(m.event))
      BY <1>2 DEF SaveEvent
    <2>2. PICK job : job = [pc |-> "customer", batch |-> worker[w].batch, left |-> worker[w].left \ {m},
                            event |-> m.event, duplicate |-> Duplicate(m.event)]
      OBVIOUS
    <2>3. /\ raw' = raw \union {m.event} /\ worker' = [worker EXCEPT ![w] = job]
          /\ UNCHANGED <<meter, faults>> /\ worker[w].pc = "record"
      BY <1>2, <2>1, <2>2 DEF SaveEvent, Saved
    <2>4. /\ job.pc = "customer" /\ job.event = m.event /\ job.event \in raw'
          /\ m.event \notin raw => ~job.duplicate
      BY <2>2, <2>3 DEF Duplicate
    <2>5. \A e \in raw' \ raw : ToReport(job, e)
      BY <2>3, <2>4 DEF ToReport
    <2>6. \A e : ~ToReport(worker[w], e)
      BY <2>3 DEF ToReport
    <2>7. raw \subseteq raw' /\ meter \subseteq meter' /\ meter' \subseteq raw'
      BY <2>3 DEF MeterInv
    <2>8. QED
      BY <2>3, <2>4, <2>5, <2>6, <2>7, MeterStep
  <1>3. CASE LookupCustomer(w)
    <2>1. PICK job : job = LookedUp(worker[w])
      OBVIOUS
    <2>2. /\ worker[w].pc = "customer" /\ UNCHANGED <<raw, meter, faults>>
          /\ worker' = [worker EXCEPT ![w] = job]
      BY <1>3, <2>1 DEF LookupCustomer
    <2>3. worker[w] \in AtRecord /\ worker[w].event \in raw
      BY <2>2, AtRecordFacts DEF MeterInv
    <2>4. /\ \/ job.pc = "record"
             \/ job.pc \in {"stripe", "increment"} /\ job.event = worker[w].event
      BY <2>1, <2>3, LookedUpFlight
    <2>5. job.pc \in {"customer", "stripe", "increment"} => job.event \in raw'
      BY <2>2, <2>3, <2>4
    <2>6. ASSUME NEW e, e.customer \in Accounts, ~StripeOff, ToReport(worker[w], e)
          PROVE  ToReport(job, e)
      <3>1. worker[w].event = e /\ ~worker[w].duplicate
        BY <2>6 DEF ToReport
      <3>2. job = [worker[w] EXCEPT !.pc = "stripe"]
        BY <2>1, <2>6, <3>1 DEF LookedUp, Unknown
      <3>3. job.pc = "stripe" /\ job.event = worker[w].event /\ job.duplicate = worker[w].duplicate
        BY <2>3, <3>2 DEF AtRecord
      <3>4. QED
        BY <3>1, <3>3 DEF ToReport
    <2>7. raw \subseteq raw' /\ meter \subseteq meter' /\ meter' \subseteq raw' /\ raw' \ raw = {}
      BY <2>2 DEF MeterInv
    <2>8. QED
      BY <2>2, <2>5, <2>6, <2>7, MeterStep
  <1>4. CASE SendMeterEvent(w)
    <2>1. PICK job : job = Billed(worker[w])
      OBVIOUS
    <2>2. /\ worker[w].pc = "stripe" /\ UNCHANGED <<raw, faults>>
          /\ worker' = [worker EXCEPT ![w] = job] /\ meter' = meter \union {worker[w].event}
      BY <1>4, <2>1 DEF SendMeterEvent
    <2>3. worker[w] \in AtRecord /\ worker[w].event \in raw
      BY <2>2, AtRecordFacts DEF MeterInv
    <2>4. job.pc = "record" \/ (job.pc = "increment" /\ job.event = worker[w].event)
      BY <2>1, <2>3, BilledFlight
    <2>5. job.pc \in {"customer", "stripe", "increment"} => job.event \in raw'
      BY <2>2, <2>3, <2>4
    <2>6. \A e : ToReport(worker[w], e) => e \in meter'
      BY <2>2 DEF ToReport
    <2>7. raw \subseteq raw' /\ meter \subseteq meter' /\ meter' \subseteq raw' /\ raw' \ raw = {}
      BY <2>2, <2>3 DEF MeterInv
    <2>8. QED
      BY <2>2, <2>5, <2>6, <2>7, MeterStep
  <1>5. CASE Increment(w)
    <2>1. PICK job : job = NextRecord(worker[w], worker[w].left)
      OBVIOUS
    <2>2. /\ worker[w].pc = "increment" /\ UNCHANGED <<raw, meter, faults>>
          /\ worker' = [worker EXCEPT ![w] = job]
      BY <1>5, <2>1 DEF Increment
    <2>3. job.pc = "record"
      BY <2>1 DEF NextRecord
    <2>4. \A e : ~ToReport(worker[w], e)
      BY <2>2 DEF ToReport
    <2>5. QED
      BY <2>2, <2>3, <2>4, MeterGoesOn
  <1>6. CASE Return(w)
    <2>1. PICK job : job = Idle
      OBVIOUS
    <2>2. /\ worker[w].pc = "record" /\ UNCHANGED <<raw, meter, faults>>
          /\ worker' = [worker EXCEPT ![w] = job]
      BY <1>6, <2>1 DEF Return
    <2>3. job.pc = "idle"
      BY <2>1 DEF Idle
    <2>4. \A e : ~ToReport(worker[w], e)
      BY <2>2 DEF ToReport
    <2>5. QED
      BY <2>2, <2>3, <2>4, MeterGoesOn
  <1>7. QED
    BY <1>1, <1>2, <1>3, <1>4, <1>5, <1>6 DEF Handler

LEMMA FailureReports ==
    ASSUME TypeOK, MeterInv, NEW w \in Worker, CallFails(w) \/ Resend(w) \/ Crash(w)
    PROVE  MeterInv'
  <1>1. meter \subseteq raw
    BY DEF MeterInv
  <1>2. ASSUME NEW m, NEW left, worker[w].pc = "record",
               raw' \in {raw, raw \union {m.event}}, UNCHANGED meter, faults' = faults + 1,
               worker' = [worker EXCEPT ![w] = NextRecord(worker[w], left)]
        PROVE  MeterInv'
    <2>1. PICK job : job = NextRecord(worker[w], left)
      OBVIOUS
    <2>2. job.pc = "record"
      BY <2>1 DEF NextRecord
    <2>3. QED
      BY <1>1, <1>2, <2>1, <2>2, MeterFails
  <1>3. ASSUME worker[w].pc \in {"customer", "stripe", "increment"}, UNCHANGED raw, faults' = faults + 1,
               meter' = meter \/ meter' = meter \union {worker[w].event},
               worker' = [worker EXCEPT ![w] = NextRecord(worker[w], worker[w].left)]
        PROVE  MeterInv'
    <2>1. PICK job : job = NextRecord(worker[w], worker[w].left)
      OBVIOUS
    <2>2. job.pc = "record"
      BY <2>1 DEF NextRecord
    <2>3. worker[w].event \in raw
      BY <1>3 DEF MeterInv
    <2>5. meter \subseteq meter' /\ meter' \subseteq raw'
      BY <1>1, <1>3, <2>3
    <2>6. QED
      BY <1>3, <2>1, <2>2, <2>5, MeterFails
  <1>4. CASE CallFails(w)
    <2>1. CASE worker[w].pc = "record"
      <3>1. PICK m \in worker[w].left :
              /\ raw' \in {raw, raw \union {m.event}}
              /\ worker' = [worker EXCEPT ![w] = NextRecord(worker[w], worker[w].left \ {m})]
        BY <1>4, <2>1 DEF CallFails
      <3>2. UNCHANGED meter /\ faults' = faults + 1
        BY <1>4, <2>1 DEF CallFails
      <3>3. QED
        BY <1>2, <2>1, <3>1, <3>2
    <2>2. CASE worker[w].pc # "record"
      BY <1>3, <1>4, <2>2 DEF CallFails
    <2>3. QED
      BY <2>1, <2>2
  <1>5. ASSUME NEW m \in worker[w].left, Saved(w, m, TRUE), UNCHANGED meter, faults' = faults + 1
        PROVE  MeterInv'
    <2>1. PICK job : job = [pc |-> "customer", batch |-> worker[w].batch, left |-> worker[w].left \ {m},
                            event |-> m.event, duplicate |-> TRUE]
      OBVIOUS
    <2>2. raw' = raw \union {m.event} /\ worker' = [worker EXCEPT ![w] = job] /\ job.event = m.event
      BY <1>5, <2>1 DEF Saved
    <2>3. QED
      BY <1>1, <1>5, <2>2, MeterFails
  <1>6. CASE Resend(w)
    <2>1. meter' = meter
      BY <1>6 DEF Resend
    <2>2. QED
      BY <1>3, <1>5, <1>6, <2>1 DEF Resend
  <1>7. CASE Crash(w)
    <2>1. PICK job : job = Idle
      OBVIOUS
    <2>2. /\ faults' = faults + 1 /\ UNCHANGED <<raw, meter>> /\ worker' = [worker EXCEPT ![w] = job]
      BY <1>7, <2>1 DEF Crash
    <2>3. job.pc = "idle"
      BY <2>1 DEF Idle
    <2>4. QED
      BY <1>1, <2>2, <2>3, MeterFails
  <1>8. QED
    BY <1>4, <1>6, <1>7

LEMMA ReportsInitInv == ASSUME BothInit PROVE ReportsInv
  <1>1. Init /\ BackfillInit
    BY DEF BothInit
  <1>2. OneRun
    BY <1>1 DEF BackfillInit, OneRun, Idle
  <1>3. MeterInv
    BY <1>1 DEF Init, MeterInv, Idle
  <1>4. QED
    BY <1>2, <1>3, BothInitInv DEF ReportsInv

LEMMA ReportsNextInv == ASSUME ReportsInv, [BothNext]_allVars PROVE ReportsInv'
  <1>1. BothInv /\ OneRun /\ MeterInv /\ TypeOK /\ ScriptOK /\ FlightInv /\ faults \in Nat
    BY DEF ReportsInv, BothInv, ScriptOK, TypeOK
  <1>2. BothInv'
    BY <1>1, BothNextInv
  <1>3. CASE Next /\ UNCHANGED backfill
    <2>1. faults' = faults \/ faults' = faults + 1
      BY <1>1, <1>3, FlightMoves
    <2>2. OneRun'
      BY <1>1, <1>3, <2>1, OneRunStays
    <2>3. CASE Gateway
      <3>1. UNCHANGED <<worker, raw, meter>>
        BY <2>3 DEF Gateway, Record
      <3>2. MeterInv'
        BY <1>1, <2>1, <3>1, MeterStays
      <3>3. QED
        BY <1>2, <2>2, <3>2 DEF ReportsInv
    <2>4. ASSUME NEW w \in Worker, Handler(w) \/ CallFails(w) \/ Resend(w) \/ Crash(w)
          PROVE  MeterInv'
      BY <1>1, <2>4, HandlerReports, FailureReports
    <2>5. QED
      BY <1>2, <1>3, <2>2, <2>3, <2>4 DEF ReportsInv, Next
  <1>4. CASE BackfillNext
    <2>1. OneRun'
      BY <1>1, <1>4, OneRunNext
    <2>2. UNCHANGED <<worker, raw, meter>> /\ (faults' = faults \/ faults' = faults + 1)
      BY <1>4 DEF BackfillNext, StartScan, EndScan, EndWrite, StopScript, StartWrite, AddSum, SumAdded,
                  SumFails, vars, Fault
    <2>3. MeterInv'
      BY <1>1, <2>2, MeterStays
    <2>4. QED
      BY <1>2, <2>1, <2>3 DEF ReportsInv
  <1>5. CASE UNCHANGED allVars
    <2>1. UNCHANGED backfill /\ UNCHANGED <<worker, raw, meter, faults>>
      BY <1>5 DEF allVars, vars
    <2>2. OneRun' /\ MeterInv'
      BY <1>1, <2>1, OneRunStays, MeterStays
    <2>3. QED
      BY <1>2, <2>2 DEF ReportsInv
  <1>6. QED
    BY <1>3, <1>4, <1>5 DEF BothNext

(***************************************************************************)
(* When nothing has failed and no event is being processed, the reports    *)
(* made from the monthly totals are those of the events counted, for whole *)
(* months; a customer's total is what Stripe was told of and what was      *)
(* saved before; and the events of its spaces are no fewer                 *)
(* (tables/egress-traffic.js, the third script of egress billing).         *)
(***************************************************************************)
THEOREM ReportsMatch == BothSpec => []ReportsAgree
  <1>1. BothInit => ReportsInv
    BY ReportsInitInv
  <1>2. ReportsInv /\ [BothNext]_allVars => ReportsInv'
    BY ReportsNextInv
  <1>3. ReportsInv => ReportsAgree
    BY InvReports
  <1>4. QED
    BY <1>1, <1>2, <1>3, PTL DEF BothSpec

-----------------------------------------------------------------------------
(***************************************************************************)
(* The tools on diffs. Sums of diffs, of which there are finitely many.    *)
(***************************************************************************)
Summable(A) == IsFiniteSet(A) /\ \A d \in A : d.delta \in Int

LEMMA DeltaType == ASSUME NEW A, Summable(A) PROVE DeltaSum(A) \in Int
  <1> DEFINE f == [d \in A |-> d.delta]
  <1>1. f \in [A -> Int] /\ IsFiniteSet(A)
    BY DEF Summable
  <1> HIDE DEF f
  <1>2. SumFunction(f) \in Int
    BY <1>1, TotalType
  <1>3. QED
    BY <1>2 DEF DeltaSum, f

LEMMA DeltaNone == DeltaSum({}) = 0
  BY TotalEmpty DEF DeltaSum

LEMMA DeltaWith ==
    ASSUME NEW A, Summable(A), NEW d, d \notin A, d.delta \in Int
    PROVE  /\ Summable(A \union {d}) /\ DeltaSum(A) \in Int
           /\ DeltaSum(A \union {d}) = DeltaSum(A) + d.delta
  <1> DEFINE B == A \union {d}
             f == [e \in A |-> e.delta]
             g == [e \in B |-> e.delta]
  <1>1. f \in [A -> Int] /\ g \in [B -> Int] /\ IsFiniteSet(A)
    BY DEF Summable
  <1>2. \A e \in A : g[e] = f[e]
    OBVIOUS
  <1>3. g[d] = d.delta
    OBVIOUS
  <1>4. DeltaSum(A) = SumFunction(f) /\ DeltaSum(B) = SumFunction(g)
    BY DEF DeltaSum
  <1> HIDE DEF f, g
  <1>5. SumFunction(g) = SumFunction(f) + g[d]
    BY <1>1, <1>2, TotalWith
  <1>6. Summable(B)
    BY FS_AddElement DEF Summable
  <1>7. QED
    BY <1>3, <1>4, <1>5, <1>6, DeltaType

LEMMA SummablePart ==
    ASSUME NEW A, Summable(A), NEW B, B \subseteq A
    PROVE  Summable(B)
  BY FS_Subset DEF Summable

LEMMA DeltaUnion ==
    ASSUME NEW A, NEW B, Summable(A), Summable(B), A \intersect B = {}
    PROVE  /\ Summable(A \union B) /\ DeltaSum(A) \in Int /\ DeltaSum(B) \in Int
           /\ DeltaSum(A \union B) = DeltaSum(A) + DeltaSum(B)
  <1> DEFINE Adds(T) == Summable(A \union T) /\ DeltaSum(A \union T) = DeltaSum(A) + DeltaSum(T)
             P == {n \in Nat : \A T \in SUBSET B : Cardinality(T) = n => Adds(T)}
  <1>1. \A T \in SUBSET B : Summable(T) /\ Cardinality(T) \in Nat /\ DeltaSum(T) \in Int
    <2> SUFFICES ASSUME NEW T \in SUBSET B PROVE Summable(T) /\ Cardinality(T) \in Nat /\ DeltaSum(T) \in Int
      OBVIOUS
    <2>1. Summable(T)
      BY SummablePart
    <2>2. IsFiniteSet(T)
      BY <2>1 DEF Summable
    <2>3. QED
      BY <2>1, <2>2, FS_CardinalityType, DeltaType
  <1>2. DeltaSum(A) \in Int
    BY DeltaType
  <1>3. 0 \in P
    <2> SUFFICES ASSUME NEW T \in SUBSET B, Cardinality(T) = 0 PROVE Adds(T)
      OBVIOUS
    <2>1. T = {}
      BY <1>1, FS_EmptySet DEF Summable
    <2>2. A \union T = A
      BY <2>1
    <2>3. DeltaSum(T) = 0
      BY <2>1, DeltaNone
    <2>4. QED
      BY <1>2, <2>2, <2>3
  <1>4. ASSUME NEW n \in Nat, n \in P PROVE n + 1 \in P
    <2> SUFFICES ASSUME NEW T \in SUBSET B, Cardinality(T) = n + 1 PROVE Adds(T)
      OBVIOUS
    <2>1. PICK x : x \in T
      BY HasOne
    <2> DEFINE rest == T \ {x}
    <2>2. rest \in SUBSET B /\ x \notin rest /\ rest \union {x} = T /\ x \notin A \union rest
      BY <2>1
    <2>3. IsFiniteSet(T)
      BY <1>1 DEF Summable
    <2>4. Cardinality(rest) = n
      BY <2>1, <2>3, LessOne
    <2>5. Adds(rest)
      BY <1>4, <2>2, <2>4
    <2>6. x.delta \in Int
      BY <2>1 DEF Summable
    <2> HIDE DEF rest
    <2>7. Summable(rest) /\ DeltaSum(rest) \in Int
      BY <1>1, <2>2
    <2>8. DeltaSum(T) = DeltaSum(rest) + x.delta
      BY <2>2, <2>6, <2>7, DeltaWith
    <2>9. (A \union rest) \union {x} = A \union T
      BY <2>2
    <2>10. /\ Summable((A \union rest) \union {x})
           /\ DeltaSum((A \union rest) \union {x}) = DeltaSum(A \union rest) + x.delta
      BY <2>2, <2>5, <2>6, DeltaWith
    <2>11. Summable(A \union T) /\ DeltaSum(A \union T) = DeltaSum(A \union rest) + x.delta
      BY <2>9, <2>10
    <2>12. DeltaSum(A \union T) = DeltaSum(A) + DeltaSum(T)
      BY <1>2, <2>5, <2>6, <2>7, <2>8, <2>11
    <2>13. QED
      BY <2>11, <2>12
  <1>5. P = Nat
    <2>1. P \in SUBSET Nat
      OBVIOUS
    <2> HIDE DEF P
    <2>2. QED
      BY <1>3, <1>4, <2>1, Induction
  <1>6. B \in SUBSET B /\ Cardinality(B) \in Nat
    BY <1>1
  <1>7. Adds(B)
    BY <1>5, <1>6
  <1>8. QED
    BY <1>1, <1>2, <1>6, <1>7

LEMMA DeltaSplit ==
    ASSUME NEW A, Summable(A), NEW B
    PROVE  /\ DeltaSum(A) \in Int /\ DeltaSum(A \intersect B) \in Int /\ DeltaSum(A \ B) \in Int
           /\ DeltaSum(A) = DeltaSum(A \intersect B) + DeltaSum(A \ B)
  <1> DEFINE C == A \intersect B
             D == A \ B
  <1>1. C \subseteq A /\ D \subseteq A /\ C \intersect D = {} /\ C \union D = A
    OBVIOUS
  <1> HIDE DEF C, D
  <1>2. Summable(C) /\ Summable(D)
    BY <1>1, SummablePart
  <1>3. DeltaSum(C) \in Int /\ DeltaSum(D) \in Int /\ DeltaSum(C \union D) = DeltaSum(C) + DeltaSum(D)
    BY <1>1, <1>2, DeltaUnion
  <1>4. DeltaSum(A) \in Int
    BY DeltaType
  <1>5. QED
    BY <1>1, <1>3, <1>4 DEF C, D

(***************************************************************************)
(* What always holds. A cause is that of changes, or of one sum; nothing   *)
(* is deleted before it is archived; what is removed has an earlier diff   *)
(* of its cause.                                                           *)
(***************************************************************************)
Passing == {"idle", "read", "sum", "archive", "delete", "done", "stopped"}

Pass == [pc : Passing, from : Nat, to : Nat,
         read : SUBSET Diff, left : SUBSET Diff, sum : SUBSET Diff]

Removing == [pc : {"idle", "remove", "done"},
             left : SUBSET Diff, duplicates : SUBSET Diff, failed : SUBSET Diff]

DiffsTyped ==
    /\ now \in 0..EndOfTime
    /\ diffs \subseteq Diff /\ IsFiniteSet(diffs)
    /\ logged \subseteq Diff /\ IsFiniteSet(logged) /\ \A d \in logged : d.at <= now
    /\ run \in [Runs -> Pass] /\ \A c \in Runs : IsFiniteSet(run[c].read)
    /\ dedupe \in Removing

DiffSums == UNION {run[c].sum : c \in Runs}

CausesApart ==
    /\ \A d \in logged : d.cause < Fresh
    /\ \A s \in DiffSums : s.cause < Fresh /\ \A d \in logged : d.cause # s.cause
    /\ \A s, t \in DiffSums : s.cause = t.cause => s = t
    /\ diffs \subseteq logged \union DiffSums
    /\ \A c \in Runs : run[c].read \subseteq logged \union DiffSums

InArchive(d) == \E x \in archive : x.diff = d

Passes(r) ==
    /\ r.pc \in {"idle", "read", "sum"} => r.sum = {}
    /\ r.pc \in {"archive", "delete"} => r.sum # {} /\ r.left \subseteq r.read
    /\ r.pc = "sum" => r.read # {}
    /\ \A s, t \in r.sum : s = t

\* What a run is to delete is archived.
Archives(r) ==
    /\ r.pc = "archive" => \A d \in r.read \ r.left : InArchive(d)
    /\ r.pc = "delete" => \A d \in r.read : InArchive(d)

HasEarlier(d) == \E e \in logged : e.cause = d.cause /\ e.at < d.at

Removals ==
    /\ removed \subseteq logged /\ removed \intersect diffs = {}
    /\ \A d \in removed : HasEarlier(d)
    /\ \A d \in dedupe.duplicates : d \in logged /\ HasEarlier(d)
    /\ dedupe.left \subseteq dedupe.duplicates
    /\ dedupe.pc \in {"remove", "done"} =>
         dedupe.duplicates \intersect diffs \subseteq dedupe.left \union dedupe.failed
    /\ dedupe.pc = "done" => dedupe.left = {}

DiffsInv ==
    /\ DiffsTyped /\ CausesApart /\ Removals
    /\ \A c \in Runs : Passes(run[c]) /\ Archives(run[c])
    /\ \A d \in logged : Kept(d)

-----------------------------------------------------------------------------
LEMMA FreshIs ==
    ASSUME DiffsTyped
    PROVE  /\ Fresh \in Nat /\ IsFiniteSet(logged) /\ IsFiniteSet({c \in Runs : run[c].sum # {}})
           /\ Cardinality(logged) \in Nat /\ Cardinality({c \in Runs : run[c].sum # {}}) \in Nat
           /\ Fresh = Cardinality(logged) + Cardinality({c \in Runs : run[c].sum # {}})
  <1>1. IsFiniteSet(logged) /\ IsFiniteSet(Runs)
    BY ToolsAssumption DEF DiffsTyped
  <1>2. IsFiniteSet({c \in Runs : run[c].sum # {}})
    BY <1>1, FS_Subset
  <1>3. Cardinality(logged) \in Nat /\ Cardinality({c \in Runs : run[c].sum # {}}) \in Nat
    BY <1>1, <1>2, FS_CardinalityType
  <1>4. QED
    BY <1>1, <1>2, <1>3 DEF Fresh

LEMMA DuplicatesAre ==
    ASSUME DiffsInv
    PROVE  \A d \in Duplicates : d \in Diff /\ d \in logged /\ HasEarlier(d)
  <1> SUFFICES ASSUME NEW d \in diffs, NEW e \in diffs, e.cause = d.cause, e.at < d.at
               PROVE  d \in Diff /\ d \in logged /\ HasEarlier(d)
    BY DEF Duplicates
  <1>1. d \in Diff /\ e \in Diff
    BY DEF DiffsInv, DiffsTyped
  <1>2. d \in logged \union DiffSums /\ e \in logged \union DiffSums
    BY DEF DiffsInv, CausesApart
  <1>3. d # e
    BY <1>1 DEF Diff
  <1>4. d \in logged /\ e \in logged
    BY <1>2, <1>3 DEF DiffsInv, CausesApart
  <1>5. QED
    BY <1>1, <1>4 DEF HasEarlier

(* Steps that leave the diffs alone.                                       *)
LEMMA DiffsStay ==
    ASSUME DiffsInv, UNCHANGED <<diffs, archive, run, dedupe, logged, removed>>,
           now' \in 0..EndOfTime, now <= now'
    PROVE  DiffsInv'
  <1>1. DiffsTyped'
    <2>1. \A d \in logged : d.at <= now'
      BY DEF DiffsInv, DiffsTyped, Diff
    <2>2. QED
      BY <2>1 DEF DiffsInv, DiffsTyped
  <1>2. Fresh' = Fresh /\ DiffSums' = DiffSums
    BY DEF Fresh, DiffSums
  <1>3. CausesApart' /\ Removals'
    BY <1>2 DEF DiffsInv, CausesApart, Removals, HasEarlier
  <1>4. \A c \in Runs : Passes(run'[c]) /\ Archives(run[c])'
    BY DEF DiffsInv, Archives, InArchive
  <1>5. \A d \in logged' : Kept(d)'
    BY DEF DiffsInv, Kept
  <1>6. QED
    BY <1>1, <1>3, <1>4, <1>5 DEF DiffsInv, Archives, InArchive

(* A diff is put for a change, or a second time.                           *)
LEMMA DiffIsPut ==
    ASSUME DiffsInv, NEW d \in Diff, d \notin logged, d.at = now, d.cause <= Fresh,
           \A s \in DiffSums : s.cause # d.cause,
           diffs' = diffs \union {d}, logged' = logged \union {d},
           UNCHANGED <<now, archive, run, dedupe, removed>>
    PROVE  DiffsInv'
  <1>1. DiffsTyped /\ CausesApart /\ Removals
    BY DEF DiffsInv
  <1>2. DiffsTyped'
    <2>1. IsFiniteSet(diffs \union {d}) /\ IsFiniteSet(logged \union {d})
      BY <1>1, FS_AddElement DEF DiffsTyped
    <2>2. \A e \in logged' : e.at <= now
      BY <1>1 DEF DiffsTyped
    <2>3. QED
      BY <1>1, <2>1, <2>2 DEF DiffsTyped
  <1>3. Fresh \in Nat /\ Fresh' = Fresh + 1
    <2>1. Cardinality(logged \union {d}) = Cardinality(logged) + 1
      BY <1>1, FS_AddElement DEF DiffsTyped
    <2>2. Fresh' = Cardinality(logged \union {d}) + Cardinality({c \in Runs : run[c].sum # {}})
      BY DEF Fresh
    <2>3. QED
      BY <1>1, <2>1, <2>2, FreshIs
  <1>4. DiffSums' = DiffSums
    BY DEF DiffSums
  <1>5. d \notin DiffSums /\ d \notin removed /\ d \notin dedupe.duplicates
    BY <1>1 DEF Removals
  <1>6. CausesApart'
    <2>1. ASSUME NEW e \in logged' PROVE e.cause < Fresh'
      BY <1>1, <1>3, <2>1 DEF CausesApart, DiffsTyped, Diff
    <2>2. DiffSums \subseteq Diff
      BY <1>1 DEF DiffSums, DiffsTyped, Pass
    <2>3. \A s \in DiffSums : s.cause < Fresh'
      BY <1>1, <1>3, <2>2 DEF CausesApart, Diff
    <2>4. QED
      BY <1>1, <1>4, <2>1, <2>3 DEF CausesApart
  <1>7. Removals'
    BY <1>1, <1>5 DEF Removals, HasEarlier
  <1>8. \A c \in Runs : Passes(run'[c]) /\ Archives(run[c])'
    BY DEF DiffsInv, Archives, InArchive
  <1>9. \A e \in logged' : Kept(e)'
    BY DEF DiffsInv, Kept
  <1>10. QED
    BY <1>2, <1>6, <1>7, <1>8, <1>9 DEF DiffsInv, Archives, InArchive

(* A run goes on: what it deletes is archived.                             *)
LEMMA RunGoesOn ==
    ASSUME DiffsInv, NEW c \in Runs, NEW r \in Pass, Go(c, r), r.sum = run[c].sum,
           r.read \subseteq run[c].read \union diffs, IsFiniteSet(r.read),
           diffs' \subseteq diffs, \A d \in diffs : d \in diffs' \/ InArchive(d),
           \A d : InArchive(d) => InArchive(d)',
           Passes(r), Archives(r)',
           UNCHANGED <<now, dedupe, logged, removed>>
    PROVE  DiffsInv'
  <1>1. DiffsTyped /\ CausesApart /\ Removals
    BY DEF DiffsInv
  <1>2. run' \in [Runs -> Pass] /\ run'[c] = r /\ \A o \in Runs : o # c => run'[o] = run[o]
    BY <1>1 DEF Go, DiffsTyped
  <1>3. \A o \in Runs : run'[o].sum = run[o].sum
    BY <1>2
  <1>4. DiffSums' = DiffSums /\ Fresh' = Fresh
    BY <1>3 DEF DiffSums, Fresh
  <1>5. DiffsTyped'
    <2>1. IsFiniteSet(diffs')
      BY <1>1, FS_Subset DEF DiffsTyped
    <2>2. QED
      BY <1>1, <1>2, <2>1 DEF DiffsTyped
  <1>6. CausesApart'
    BY <1>1, <1>2, <1>4 DEF CausesApart
  <1>7. Removals'
    BY <1>1 DEF Removals, HasEarlier
  <1>8. ASSUME NEW o \in Runs PROVE Passes(run'[o]) /\ Archives(run[o])'
    <2>1. CASE o = c
      BY <1>2, <2>1 DEF Archives
    <2>2. CASE o # c
      BY <1>2, <2>2 DEF DiffsInv, Archives
    <2>3. QED
      BY <2>1, <2>2
  <1>9. ASSUME NEW d \in logged' PROVE Kept(d)'
    <2>1. Kept(d) /\ d \in logged
      BY <1>9 DEF DiffsInv
    <2>2. CASE d \in diffs \/ InArchive(d)
      <3>1. d \in diffs' \/ InArchive(d)'
        BY <2>2
      <3>2. QED
        BY <3>1 DEF Kept, InArchive
    <2>3. CASE d \in removed /\ HasEarlier(d)
      BY <2>3 DEF Kept, HasEarlier
    <2>4. QED
      BY <2>1, <2>2, <2>3 DEF Kept, InArchive, HasEarlier
  <1>10. \A o \in Runs : Passes(run[o])' /\ Archives(run[o])'
    BY <1>8 DEF Passes
  <1>11. QED
    BY <1>5, <1>6, <1>7, <1>9, <1>10 DEF DiffsInv

(* A run puts its sum, which has a cause of its own.                       *)
LEMMA SumIsPut ==
    ASSUME DiffsInv, NEW c \in Runs, NEW r \in Pass, Go(c, r), run[c].sum = {},
           NEW s \in Diff, s.cause = Fresh, r.sum = {s}, r.read = run[c].read,
           diffs' = diffs \union {s},
           Passes(r), Archives(r)',
           UNCHANGED <<now, archive, dedupe, logged, removed>>
    PROVE  DiffsInv'
  <1>1. DiffsTyped /\ CausesApart /\ Removals
    BY DEF DiffsInv
  <1>2. run' \in [Runs -> Pass] /\ run'[c] = r /\ \A o \in Runs : o # c => run'[o] = run[o]
    BY <1>1 DEF Go, DiffsTyped
  <1>3. DiffSums' = DiffSums \union {s}
    <2>1. \A o \in Runs : run'[o].sum = IF o = c THEN {s} ELSE run[o].sum
      BY <1>2
    <2>2. QED
      BY <2>1 DEF DiffSums
  <1>4. Fresh \in Nat /\ Fresh' = Fresh + 1
    <2> DEFINE Summed == {o \in Runs : run[o].sum # {}}
    <2>1. {o \in Runs : run'[o].sum # {}} = Summed \union {c} /\ c \notin Summed
      BY <1>2
    <2>2. IsFiniteSet(Summed) /\ Cardinality(Summed) \in Nat /\ Fresh \in Nat
          /\ Cardinality(logged) \in Nat /\ Fresh = Cardinality(logged) + Cardinality(Summed)
      BY <1>1, FreshIs
    <2>3. Fresh' = Cardinality(logged) + Cardinality({o \in Runs : run'[o].sum # {}})
      BY DEF Fresh
    <2> HIDE DEF Summed
    <2>4. Cardinality(Summed \union {c}) = Cardinality(Summed) + 1
      BY <2>1, <2>2, FS_AddElement
    <2>5. Fresh' = Cardinality(logged) + (Cardinality(Summed) + 1)
      BY <2>1, <2>3, <2>4
    <2>6. QED
      BY <2>2, <2>5
  <1>5. DiffSums \subseteq Diff
    BY <1>1 DEF DiffSums, DiffsTyped, Pass
  <1>6. DiffsTyped'
    <2>1. IsFiniteSet(diffs \union {s})
      BY <1>1, FS_AddElement DEF DiffsTyped
    <2>2. QED
      BY <1>1, <1>2, <2>1 DEF DiffsTyped
  <1>7. \A d \in logged \union DiffSums : d \in Diff /\ d.cause < Fresh
    BY <1>1, <1>5 DEF CausesApart, DiffsTyped
  <1>8. CausesApart'
    <2>1. \A d \in logged \union DiffSums : d.cause < Fresh + 1 /\ d.cause # s.cause
      BY <1>4, <1>7 DEF Diff
    <2>2. s.cause < Fresh'
      BY <1>4
    <2>3. \A t, u \in DiffSums' : t.cause = u.cause => t = u
      BY <1>1, <1>3, <2>1 DEF CausesApart
    <2>4. \A t \in DiffSums' : t.cause < Fresh' /\ \A d \in logged' : d.cause # t.cause
      BY <1>1, <1>3, <1>4, <2>1, <2>2 DEF CausesApart
    <2>5. \A o \in Runs : run'[o].read \subseteq logged \union DiffSums
      BY <1>1, <1>2 DEF CausesApart
    <2>6. QED
      BY <1>1, <1>3, <1>4, <2>1, <2>3, <2>4, <2>5 DEF CausesApart
  <1>9. Removals'
    <2>1. s \notin logged
      BY <1>4, <1>7 DEF Diff
    <2>2. QED
      BY <1>1, <2>1 DEF Removals, HasEarlier
  <1>10. ASSUME NEW o \in Runs PROVE Passes(run'[o]) /\ Archives(run[o])'
    <2>1. CASE o = c
      BY <1>2, <2>1 DEF Archives
    <2>2. CASE o # c
      BY <1>2, <2>2 DEF DiffsInv, Archives, InArchive
    <2>3. QED
      BY <2>1, <2>2
  <1>11. \A d \in logged' : Kept(d)'
    BY DEF DiffsInv, Kept
  <1>12. \A o \in Runs : Passes(run[o])' /\ Archives(run[o])'
    BY <1>10 DEF Passes
  <1>13. QED
    BY <1>6, <1>8, <1>9, <1>11, <1>12 DEF DiffsInv

(* Duplicates are taken out.                                               *)
LEMMA DuplicatesGo ==
    ASSUME DiffsInv, NEW gone, gone \subseteq dedupe.left,
           diffs' = diffs \ gone, removed' = removed \union (gone \intersect diffs),
           dedupe' \in Removing, dedupe'.pc = dedupe.pc, dedupe.pc = "remove",
           dedupe'.duplicates = dedupe.duplicates, dedupe'.left \subseteq dedupe.left,
           dedupe.left \union dedupe.failed \subseteq dedupe'.left \union dedupe'.failed \union gone,
           UNCHANGED <<now, archive, run, logged>>
    PROVE  DiffsInv'
  <1>1. DiffsTyped /\ CausesApart /\ Removals
    BY DEF DiffsInv
  <1>2. DiffsTyped'
    <2>1. IsFiniteSet(diffs')
      BY <1>1, FS_Subset DEF DiffsTyped
    <2>2. QED
      BY <1>1, <2>1 DEF DiffsTyped
  <1>3. Fresh' = Fresh /\ DiffSums' = DiffSums
    BY DEF Fresh, DiffSums
  <1>4. CausesApart'
    BY <1>1, <1>3 DEF CausesApart
  <1>5. \A d \in gone : d \in logged /\ HasEarlier(d)
    BY <1>1 DEF Removals
  <1>6. Removals'
    BY <1>1, <1>5 DEF Removals, HasEarlier
  <1>7. \A c \in Runs : Passes(run[c])' /\ Archives(run[c])'
    BY DEF DiffsInv, Archives, InArchive
  <1>8. \A d \in logged' : Kept(d)'
    BY <1>5 DEF DiffsInv, Kept, HasEarlier
  <1>9. QED
    BY <1>2, <1>4, <1>6, <1>7, <1>8 DEF DiffsInv

(***************************************************************************)
(* The snapshots: one at an instant. One that is computed is of a later.   *)
(***************************************************************************)
SnapshotsInv ==
    /\ snapshots \subseteq [at : Nat, size : Int]
    /\ \A s \in snapshots : s.at <= EndOfTime
    /\ \A s, t \in snapshots : s.at = t.at => s = t
    /\ \E s \in snapshots : s.at = 0
    /\ \A f \in file : f.at \in 1..EndOfTime /\ f.size \in Int

LEMMA LatestOf ==
    ASSUME SnapshotsInv, NEW T \in SUBSET snapshots, T # {}
    PROVE  \E s \in T : \A o \in T : o.at <= s.at
  <1> DEFINE S == {EndOfTime - s.at : s \in T}
  <1>1. \A s \in T : s.at \in Nat /\ EndOfTime - s.at \in Nat
    BY ToolsAssumption DEF SnapshotsInv
  <1>2. S \in SUBSET Nat /\ S # {}
    BY <1>1
  <1> HIDE DEF S
  <1>3. PICK n \in S : \A k \in S : n <= k
    BY <1>2, LeastNatural
  <1>4. PICK s \in T : n = EndOfTime - s.at
    BY <1>3 DEF S
  <1>5. ASSUME NEW o \in T PROVE o.at <= s.at
    <2>1. EndOfTime - o.at \in S
      BY <1>5 DEF S
    <2>2. EndOfTime - s.at <= EndOfTime - o.at
      BY <1>3, <1>4, <2>1
    <2>3. QED
      BY <1>1, <2>2, ToolsAssumption
  <1>6. QED
    BY <1>5

LEMMA NewestIs ==
    ASSUME SnapshotsInv, NEW t \in Nat
    PROVE  /\ Newest(t) \in snapshots /\ Newest(t).at <= t
           /\ \A o \in snapshots : o.at <= t => o.at <= Newest(t).at
  <1> DEFINE T == {s \in snapshots : s.at <= t}
  <1>1. T \in SUBSET snapshots /\ T # {}
    BY DEF SnapshotsInv
  <1>2. \E s \in T : \A o \in T : o.at <= s.at
    <2> HIDE DEF T
    <2>1. QED
      BY <1>1, LatestOf
  <1>3. \E s \in snapshots : s.at <= t /\ \A o \in snapshots : o.at <= t => o.at <= s.at
    BY <1>2
  <1>4. QED
    BY <1>3 DEF Newest

LEMMA NewestOfAll ==
    ASSUME SnapshotsInv
    PROVE  /\ Newest(Never) \in snapshots /\ Newest(Never).at \in Nat /\ Newest(Never).at < Never
           /\ \A o \in snapshots : o.at <= Newest(Never).at
  <1>1. Never \in Nat /\ EndOfTime \in Nat
    BY ToolsAssumption DEF Never
  <1>2. \A o \in snapshots : o.at \in Nat /\ o.at < Never
    BY <1>1 DEF SnapshotsInv, Never
  <1>3. \A o \in snapshots : o.at <= Never
    BY <1>1, <1>2
  <1>4. QED
    BY <1>1, <1>2, <1>3, NewestIs

LEMMA SecondIs ==
    ASSUME SnapshotsInv, Cardinality(snapshots) > 1
    PROVE  /\ Second \in snapshots /\ Second.at < Newest(Never).at
           /\ \A o \in snapshots : o.at < Newest(Never).at => o.at <= Second.at
  <1> DEFINE newest == Newest(Never)
             T == {s \in snapshots : s.at < newest.at}
  <1>1. newest \in snapshots /\ newest.at \in Nat /\ \A o \in snapshots : o.at <= newest.at
    BY NewestOfAll
  <1> HIDE DEF newest
  <1>2. T # {}
    <2> SUFFICES ASSUME T = {} PROVE FALSE
      OBVIOUS
    <2>1. ASSUME NEW s \in snapshots PROVE s = newest
      <3>1. s.at \in Nat /\ s.at <= newest.at /\ ~(s.at < newest.at)
        BY <1>1 DEF SnapshotsInv
      <3>2. s.at = newest.at
        BY <1>1, <3>1
      <3>3. QED
        BY <1>1, <3>2 DEF SnapshotsInv
    <2>2. snapshots = {newest}
      BY <1>1, <2>1
    <2>3. Cardinality(snapshots) = 1
      BY <2>2, FS_Singleton
    <2>4. QED
      BY <2>3
  <1>4. \E s \in T : \A o \in T : o.at <= s.at
    <2>1. T \in SUBSET snapshots
      OBVIOUS
    <2> HIDE DEF T
    <2>2. QED
      BY <1>2, <2>1, LatestOf
  <1>5. \E s \in snapshots : s.at < newest.at /\ \A o \in snapshots : o.at < newest.at => o.at <= s.at
    BY <1>4
  <1>6. QED
    BY <1>5 DEF Second, newest

-----------------------------------------------------------------------------
\* A diff is put for a blob added or removed, or again, with a receipt of now.
ClientPuts(d) ==
    /\ d \in Diff /\ d \notin logged /\ d.at = now /\ d.cause <= Fresh
    /\ \A s \in DiffSums : s.cause # d.cause
    /\ diffs' = diffs \union {d} /\ logged' = logged \union {d}
    /\ clash' = (clash \/ \E s \in snapshots : now < s.at)
    /\ UNCHANGED <<now, archive, snapshots, file, run, dedupe, removed>>
    /\ \/ \E b \in Blob : /\ allocated[b] = None /\ d.delta = Size[b]
                          /\ allocated' = [allocated EXCEPT ![b] = now]
       \/ \E b \in Blob : /\ allocated[b] # None /\ d.delta = -Size[b]
                          /\ allocated' = [allocated EXCEPT ![b] = None]
       \/ allocated' = allocated /\ \E o \in logged : o.cause = d.cause

LEMMA ClientIs ==
    ASSUME DiffsInv, Client
    PROVE  \E d \in Diff : ClientPuts(d)
  <1>1. DiffsTyped /\ CausesApart
    BY DEF DiffsInv
  <1>2. Fresh \in Nat /\ now \in 0..EndOfTime
    BY <1>1, FreshIs DEF DiffsTyped
  <1>3. DiffSums \subseteq Diff
    BY <1>1 DEF DiffSums, DiffsTyped, Pass
  <1>4. ASSUME NEW b \in Blob, AddBlob(b) \/ RemoveBlob(b) PROVE \E d \in Diff : ClientPuts(d)
    <2>1. PICK delta \in Int :
             /\ PutDiff(delta)
             /\ \/ allocated[b] = None /\ delta = Size[b] /\ allocated' = [allocated EXCEPT ![b] = now]
                \/ allocated[b] # None /\ delta = -Size[b] /\ allocated' = [allocated EXCEPT ![b] = None]
      BY <1>4, ToolsAssumption DEF AddBlob, RemoveBlob
    <2>2. UNCHANGED <<now, archive, snapshots, file, run, dedupe, removed>>
      BY <1>4 DEF AddBlob, RemoveBlob
    <2>3. PICK d : d = [at |-> now, cause |-> Fresh, delta |-> delta]
      OBVIOUS
    <2>4. d \in Diff /\ d.at = now /\ d.cause = Fresh /\ d.delta = delta
      BY <1>2, <2>3 DEF Diff
    <2>5. /\ diffs' = diffs \union {d} /\ logged' = logged \union {d}
          /\ clash' = (clash \/ \E s \in snapshots : now < s.at)
      BY <2>1, <2>3 DEF PutDiff, Put
    <2>6. d \notin logged /\ \A s \in DiffSums : s.cause # d.cause
      BY <1>1, <1>2, <1>3, <2>4 DEF CausesApart, Diff
    <2>7. d.cause <= Fresh
      BY <1>2, <2>4
    <2>8. QED
      BY <2>1, <2>2, <2>4, <2>5, <2>6, <2>7 DEF ClientPuts
  <1>5. ASSUME NEW o \in logged, PutAgain(o) PROVE \E d \in Diff : ClientPuts(d)
    <2>1. o \in Diff
      BY <1>1 DEF DiffsTyped
    <2>2. PICK d : d = [o EXCEPT !.at = now]
      OBVIOUS
    <2>3. d \in Diff /\ d.at = now /\ d.cause = o.cause
      BY <1>2, <2>1, <2>2 DEF Diff
    <2>4. /\ diffs' = diffs \union {d} /\ logged' = logged \union {d}
          /\ o.at < now /\ ~\E x \in logged : x # o /\ x.cause = o.cause
          /\ clash' = (clash \/ \E s \in snapshots : now < s.at)
          /\ UNCHANGED <<now, allocated, archive, snapshots, file, run, dedupe, removed>>
      BY <1>5, <2>2 DEF PutAgain, Put
    <2>5. d # o
      BY <1>2, <2>1, <2>3, <2>4 DEF Diff
    <2>6. d \notin logged
      BY <2>3, <2>4, <2>5
    <2>7. d.cause <= Fresh /\ \A s \in DiffSums : s.cause # d.cause
      <3>1. o.cause < Fresh /\ o.cause \in Nat
        BY <1>1, <2>1 DEF CausesApart, Diff
      <3>2. QED
        BY <1>1, <1>2, <2>3, <3>1 DEF CausesApart
    <2>8. QED
      BY <2>3, <2>4, <2>6, <2>7 DEF ClientPuts
  <1>6. QED
    BY <1>4, <1>5 DEF Client

LEMMA ClientKeeps == ASSUME DiffsInv, Client PROVE DiffsInv'
  <1>1. PICK d \in Diff : ClientPuts(d)
    BY ClientIs
  <1>2. QED
    BY <1>1, DiffIsPut DEF ClientPuts

LEMMA RemovalKeeps == ASSUME DiffsInv, Removal PROVE DiffsInv'
  <1>1. DiffsTyped /\ CausesApart /\ Removals /\ dedupe \in Removing
    BY DEF DiffsInv, DiffsTyped
  <1>2. CASE FindDuplicates
    <2>1. PICK found : found = Duplicates
      OBVIOUS
    <2>2. found \subseteq diffs /\ \A d \in found : d \in Diff /\ d \in logged /\ HasEarlier(d)
      BY <2>1, DuplicatesAre DEF Duplicates
    <2>3. /\ dedupe' = [dedupe EXCEPT !.pc = "remove", !.left = found, !.duplicates = found]
          /\ UNCHANGED <<now, diffs, archive, run, logged, removed>>
      BY <1>2, <2>1 DEF FindDuplicates, spaceTables
    <2>4. dedupe' \in Removing /\ dedupe'.pc = "remove" /\ dedupe'.left = found /\ dedupe'.duplicates = found
      BY <1>1, <2>2, <2>3 DEF Removing
    <2>5. Fresh' = Fresh /\ DiffSums' = DiffSums
      BY <2>3 DEF Fresh, DiffSums
    <2>6. DiffsTyped' /\ CausesApart'
      BY <1>1, <2>3, <2>4, <2>5 DEF DiffsTyped, CausesApart
    <2>7. Removals'
      BY <1>1, <2>2, <2>3, <2>4 DEF Removals, HasEarlier
    <2>8. \A c \in Runs : Passes(run[c])' /\ Archives(run[c])'
      BY <2>3 DEF DiffsInv, Archives, InArchive
    <2>9. \A d \in logged' : Kept(d)'
      BY <2>3 DEF DiffsInv, Kept
    <2>10. QED
      BY <2>6, <2>7, <2>8, <2>9 DEF DiffsInv
  <1>3. CASE RemoveDuplicates
    <2>1. PICK batch \in SUBSET dedupe.left :
            /\ diffs' = diffs \ batch /\ removed' = removed \union (batch \intersect diffs)
            /\ dedupe' = [dedupe EXCEPT !.left = @ \ batch]
      BY <1>3 DEF RemoveDuplicates
    <2>2. dedupe.pc = "remove" /\ UNCHANGED <<now, archive, run, logged>>
      BY <1>3 DEF RemoveDuplicates
    <2>3. /\ dedupe' \in Removing /\ dedupe'.pc = dedupe.pc /\ dedupe'.duplicates = dedupe.duplicates
          /\ dedupe'.left = dedupe.left \ batch /\ dedupe'.failed = dedupe.failed
      BY <1>1, <2>1 DEF Removing
    <2>4. dedupe.left \union dedupe.failed \subseteq dedupe'.left \union dedupe'.failed \union batch
      BY <2>3
    <2>5. QED
      BY <2>1, <2>2, <2>3, <2>4, DuplicatesGo
  <1>4. CASE RemoveFails
    <2>1. PICK batch \in SUBSET dedupe.left : \E part \in SUBSET dedupe.left :
            /\ part \subseteq batch
            /\ diffs' = diffs \ part /\ removed' = removed \union (part \intersect diffs)
            /\ \E noted \in {batch, batch \ part} :
                 dedupe' = [dedupe EXCEPT !.left = @ \ batch, !.failed = @ \union Failed(noted)]
      BY <1>4 DEF RemoveFails
    <2>2. PICK part \in SUBSET dedupe.left :
            /\ part \subseteq batch
            /\ diffs' = diffs \ part /\ removed' = removed \union (part \intersect diffs)
            /\ \E noted \in {batch, batch \ part} :
                 dedupe' = [dedupe EXCEPT !.left = @ \ batch, !.failed = @ \union Failed(noted)]
      BY <2>1
    <2>3. PICK noted \in {batch, batch \ part} :
                 dedupe' = [dedupe EXCEPT !.left = @ \ batch, !.failed = @ \union noted]
      BY <2>2 DEF Failed
    <2>4. dedupe.pc = "remove" /\ UNCHANGED <<now, archive, run, logged>>
      BY <1>4 DEF RemoveFails
    <2>5. noted \subseteq Diff /\ batch \subseteq Diff /\ batch \ part \subseteq noted
      BY <1>1 DEF Removing
    <2>6. /\ dedupe' \in Removing /\ dedupe'.pc = dedupe.pc /\ dedupe'.duplicates = dedupe.duplicates
          /\ dedupe'.left = dedupe.left \ batch /\ dedupe'.failed = dedupe.failed \union noted
      <3>1. PICK left \in SUBSET Diff : left = dedupe.left \ batch
        BY <1>1 DEF Removing
      <3>2. PICK held \in SUBSET Diff : held = dedupe.failed \union noted
        BY <1>1, <2>5 DEF Removing
      <3>3. dedupe' = [dedupe EXCEPT !.left = left, !.failed = held]
        BY <1>1, <2>3, <3>1, <3>2 DEF Removing
      <3>4. QED
        BY <1>1, <3>1, <3>2, <3>3 DEF Removing
    <2>7. dedupe.left \union dedupe.failed \subseteq dedupe'.left \union dedupe'.failed \union part
      BY <2>5, <2>6
    <2>8. dedupe'.left \subseteq dedupe.left
      BY <2>6
    <2>9. QED
      BY <2>2, <2>4, <2>6, <2>7, <2>8, DuplicatesGo
  <1>5. CASE RemoveEnds
    <2>1. /\ dedupe.pc = "remove" /\ dedupe.left = {} /\ dedupe' = [dedupe EXCEPT !.pc = "done"]
          /\ UNCHANGED <<now, diffs, archive, run, logged, removed>>
      BY <1>5 DEF RemoveEnds, spaceTables
    <2>2. /\ dedupe' \in Removing /\ dedupe'.left = {} /\ dedupe'.duplicates = dedupe.duplicates
          /\ dedupe'.failed = dedupe.failed
      BY <1>1, <2>1 DEF Removing
    <2>3. Fresh' = Fresh /\ DiffSums' = DiffSums
      BY <2>1 DEF Fresh, DiffSums
    <2>4. DiffsTyped' /\ CausesApart'
      BY <1>1, <2>1, <2>2, <2>3 DEF DiffsTyped, CausesApart
    <2>5. Removals'
      BY <1>1, <2>1, <2>2 DEF Removals, HasEarlier
    <2>6. \A c \in Runs : Passes(run[c])' /\ Archives(run[c])'
      BY <2>1 DEF DiffsInv, Archives, InArchive
    <2>7. \A d \in logged' : Kept(d)'
      BY <2>1 DEF DiffsInv, Kept
    <2>8. QED
      BY <2>4, <2>5, <2>6, <2>7 DEF DiffsInv
  <1>6. QED
    BY <1>2, <1>3, <1>4, <1>5 DEF Removal

(***************************************************************************)
(* What the steps of a run make of it.                                     *)
(***************************************************************************)
\* The run is now r, which reads and writes what it did but for what is given.
Becomes(c, r, read, sum) ==
    /\ r \in Pass /\ Go(c, r) /\ r.read = read /\ r.sum = sum
    /\ r.from = run[c].from /\ r.to = run[c].to

LEMMA StartIs ==
    ASSUME DiffsInv, SnapshotsInv, NEW c \in Runs, NEW mode \in Mode, StartCompaction(c, mode)
    PROVE  \E r \in Pass :
             /\ Go(c, r) /\ r.pc = "read" /\ r.read = run[c].read /\ r.sum = run[c].sum
             /\ \A s \in snapshots : s.at <= r.from \/ r.to <= s.at
  <1>1. run[c] \in Pass
    BY DEF DiffsInv, DiffsTyped
  <1>2. Newest(Never).at \in Nat /\ \A s \in snapshots : s.at \in Nat /\ s.at <= Newest(Never).at
    BY NewestOfAll DEF SnapshotsInv
  <1>3. Never \in Nat
    BY ToolsAssumption DEF Never
  <1>4. mode # "current" =>
          /\ Second.at \in Nat
          /\ \A s \in snapshots : s.at < Newest(Never).at => s.at <= Second.at
    <2>1. mode # "current" => mode = "previous-month"
      BY ToolsAssumption DEF ModeKind
    <2>2. mode # "current" => Cardinality(snapshots) > 1
      BY <2>1 DEF StartCompaction
    <2>3. QED
      BY <2>2, SecondIs DEF SnapshotsInv
  <1>5. PICK from : from = IF mode = "current" THEN Newest(Never).at ELSE Second.at
    OBVIOUS
  <1>6. PICK to : to = IF mode = "current" THEN Never ELSE Newest(Never).at
    OBVIOUS
  <1>7. from \in Nat /\ to \in Nat
    BY <1>2, <1>3, <1>4, <1>5, <1>6
  <1>8. PICK r : r = [run[c] EXCEPT !.pc = "read", !.from = from, !.to = to]
    OBVIOUS
  <1>9. Go(c, r)
    BY <1>5, <1>6, <1>8 DEF StartCompaction
  <1>10. /\ r \in Pass /\ r.pc = "read" /\ r.read = run[c].read /\ r.sum = run[c].sum
         /\ r.from = from /\ r.to = to
    <2>1. "read" \in Passing
      BY DEF Passing
    <2>2. QED
      BY <1>1, <1>7, <1>8, <2>1 DEF Pass
  <1>11. \A s \in snapshots : s.at <= from \/ to <= s.at
    BY <1>2, <1>4, <1>5, <1>6
  <1>12. QED
    BY <1>9, <1>10, <1>11

LEMMA ReadIs ==
    ASSUME DiffsInv, NEW c \in Runs, ReadPage(c)
    PROVE  \E page \in SUBSET Between(run[c].from, run[c].to) : \E r \in Pass :
             /\ Becomes(c, r, run[c].read \union page, run[c].sum)
             /\ r.pc \in {"read", "done", "sum"}
             /\ r.pc = "done" => r.read = {}
             /\ r.pc = "sum" => r.read # {}
  <1>1. run[c] \in Pass /\ diffs \subseteq Diff
    BY DEF DiffsInv, DiffsTyped
  <1>2. PICK page : page = FirstOf(Unread(c), QueryPage)
    OBVIOUS
  <1>3. page \subseteq Between(run[c].from, run[c].to)
    BY <1>2 DEF FirstOf, Unread
  <1>4. PICK read : read = run[c].read \union page
    OBVIOUS
  <1>5. PICK pc : pc = CASE Cardinality(page) = QueryPage -> "read"
                         [] read = {} -> "done"
                         [] OTHER -> "sum"
    OBVIOUS
  <1>6. PICK r : r = [run[c] EXCEPT !.read = read, !.pc = pc]
    OBVIOUS
  <1>7. Go(c, r)
    BY <1>2, <1>4, <1>5, <1>6 DEF ReadPage
  <1>8. pc \in Passing /\ pc \in {"read", "done", "sum"} /\ (pc = "done" => read = {})
    BY <1>5 DEF Passing
  <1>9. read \in SUBSET Diff
    BY <1>1, <1>3, <1>4 DEF Pass, Between
  <1>10. pc = "sum" => read # {}
    BY <1>5
  <1>11. /\ r \in Pass /\ r.pc = pc /\ r.read = read /\ r.sum = run[c].sum
         /\ r.from = run[c].from /\ r.to = run[c].to
    BY <1>1, <1>6, <1>8, <1>9 DEF Pass
  <1>12. QED
    BY <1>3, <1>4, <1>7, <1>8, <1>10, <1>11 DEF Becomes

LEMMA SummationIs ==
    ASSUME DiffsInv, NEW c \in Runs, run[c].pc = "sum"
    PROVE  LET s == Summation(c)
           IN  /\ s \in Diff /\ s.cause = Fresh /\ s.delta = DeltaSum(run[c].read)
               /\ \E d \in run[c].read : s.at = d.at
               /\ \A d \in run[c].read : d.at <= s.at
  <1> DEFINE read == run[c].read
             ats == {d.at : d \in read}
  <1>1. read \subseteq Diff /\ IsFiniteSet(read) /\ read # {}
    BY DEF DiffsInv, DiffsTyped, Pass, Passes
  <1>2. ats \subseteq 0..EndOfTime /\ ats # {}
    BY <1>1 DEF Diff
  <1>3. EndOfTime \in Nat
    BY ToolsAssumption
  <1>4. \E m \in ats : \A a \in ats : m >= a
    <2> DEFINE S == {EndOfTime - a : a \in ats}
    <2> HIDE DEF ats
    <2>0. \A a \in ats : a \in Nat /\ EndOfTime - a \in Nat
      BY <1>2, <1>3
    <2>1. S \in SUBSET Nat /\ S # {}
      BY <1>2, <2>0
    <2> HIDE DEF S
    <2>2. PICK n \in S : \A k \in S : n <= k
      BY <2>1, LeastNatural
    <2>3. PICK m \in ats : n = EndOfTime - m
      BY <2>2 DEF S
    <2>4. ASSUME NEW a \in ats PROVE m >= a
      <3>1. EndOfTime - a \in S
        BY DEF S
      <3>2. EndOfTime - m <= EndOfTime - a
        BY <2>2, <2>3, <3>1
      <3>3. QED
        BY <1>3, <2>0, <3>2
    <2>5. QED
      BY <2>4
  <1>5. PICK at : at = Max(ats)
    OBVIOUS
  <1>6. at \in ats /\ \A a \in ats : at >= a
    <2> HIDE DEF ats
    <2>1. QED
      BY <1>4, <1>5 DEF Max
  <1>7. DeltaSum(read) \in Int
    <2>1. Summable(read)
      BY <1>1 DEF Summable, Diff
    <2>2. QED
      BY <2>1, DeltaType
  <1>8. Fresh \in Nat
    BY FreshIs DEF DiffsInv
  <1>9. PICK s : s = Summation(c)
    OBVIOUS
  <1>10. s = [at |-> at, cause |-> Fresh, delta |-> DeltaSum(read)]
    BY <1>5, <1>9 DEF Summation
  <1> DEFINE delta == DeltaSum(read)
  <1>11. s \in Diff /\ s.at = at /\ s.cause = Fresh /\ s.delta = delta
    <2> HIDE DEF delta
    <2>1. at \in 0..EndOfTime
      BY <1>2, <1>6
    <2>2. QED
      BY <1>7, <1>8, <1>10, <2>1 DEF Diff, delta
  <1>12. (\E d \in read : s.at = d.at) /\ \A d \in read : d.at <= s.at
    <2>1. \A d \in read : d.at \in ats /\ d.at \in Nat
      BY <1>1 DEF Diff
    <2>2. at \in Nat
      BY <1>2, <1>6
    <2>3. QED
      BY <1>6, <1>11, <2>1, <2>2
  <1>13. QED
    BY <1>9, <1>11, <1>12

\* The sum is put, whether the run learns of it or stops.
SumStep(c) ==
    \/ PutSum(c)
    \/ /\ run[c].pc = "sum" /\ diffs' = diffs \union {Summation(c)} /\ UNCHANGED archive
       /\ Go(c, [Stopped(c) EXCEPT !.sum = {Summation(c)}])
       /\ UNCHANGED <<now, allocated, snapshots, file, dedupe, logged, removed, clash>>

LEMMA SumStepIs ==
    ASSUME DiffsInv, NEW c \in Runs, SumStep(c)
    PROVE  \E s \in Diff : \E r \in Pass :
             /\ s = Summation(c) /\ Becomes(c, r, run[c].read, {s})
             /\ diffs' = diffs \union {s} /\ r.pc \in {"archive", "stopped"}
             /\ r.pc = "archive" => r.left = r.read
             /\ run[c].pc = "sum"
             /\ UNCHANGED <<now, allocated, archive, snapshots, file, dedupe, logged, removed, clash>>
  <1>1. run[c] \in Pass
    BY DEF DiffsInv, DiffsTyped
  <1>2. run[c].pc = "sum"
    BY DEF SumStep, PutSum
  <1>3. PICK s : s = Summation(c)
    OBVIOUS
  <1>4. s \in Diff
    BY <1>2, <1>3, SummationIs
  <1>5. PICK sum \in SUBSET Diff : sum = {s}
    BY <1>4
  <1>6. /\ diffs' = diffs \union {s}
        /\ UNCHANGED <<now, allocated, archive, snapshots, file, dedupe, logged, removed, clash>>
    BY <1>3 DEF SumStep, PutSum
  <1>7. "archive" \in Passing /\ "stopped" \in Passing
    BY DEF Passing
  <1>8. CASE PutSum(c)
    <2>1. PICK r : r = [run[c] EXCEPT !.pc = "archive", !.sum = sum, !.left = run[c].read]
      OBVIOUS
    <2>2. Go(c, r)
      BY <1>3, <1>5, <1>8, <2>1 DEF PutSum
    <2>3. /\ r \in Pass /\ r.pc = "archive" /\ r.left = run[c].read /\ r.read = run[c].read
          /\ r.sum = sum /\ r.from = run[c].from /\ r.to = run[c].to
      BY <1>1, <1>5, <1>7, <2>1 DEF Pass
    <2>4. QED
      BY <1>2, <1>3, <1>4, <1>5, <1>6, <2>2, <2>3 DEF Becomes
  <1>9. CASE Go(c, [Stopped(c) EXCEPT !.sum = {Summation(c)}])
    <2>1. PICK r : r = [run[c] EXCEPT !.pc = "stopped", !.sum = sum]
      OBVIOUS
    <2>2. [Stopped(c) EXCEPT !.sum = {Summation(c)}] = r
      <3>1. Stopped(c) = [run[c] EXCEPT !.pc = "stopped"]
        BY DEF Stopped
      <3>2. [Stopped(c) EXCEPT !.sum = sum] = r
        BY <1>1, <2>1, <3>1 DEF Pass
      <3>3. QED
        BY <1>3, <1>5, <3>2
    <2>3. Go(c, r)
      BY <1>9, <2>2
    <2>4. /\ r \in Pass /\ r.pc = "stopped" /\ r.read = run[c].read
          /\ r.sum = sum /\ r.from = run[c].from /\ r.to = run[c].to
      BY <1>1, <1>5, <1>7, <2>1 DEF Pass
    <2>5. QED
      BY <1>2, <1>3, <1>4, <1>5, <1>6, <2>3, <2>4 DEF Becomes
  <1>10. QED
    BY <1>8, <1>9 DEF SumStep

\* A run that has put its sum writes on, or a run stops: part of what it read goes.
WriteStep(c) ==
    \/ ArchiveBatch(c)
    \/ DeleteBatch(c)
    \/ /\ run[c].pc \in {"read", "sum", "archive", "delete"}
       /\ Go(c, Stopped(c))
       /\ \/ UNCHANGED <<archive, diffs>>
          \/ /\ run[c].pc = "archive" /\ UNCHANGED diffs
             /\ \E part \in SUBSET Batch(c) : archive' = Archived(part, c)
          \/ /\ run[c].pc = "delete" /\ UNCHANGED archive
             /\ \E part \in SUBSET Batch(c) : diffs' = diffs \ part
       /\ UNCHANGED <<now, allocated, snapshots, file, dedupe, logged, removed, clash>>

Writes(c, r, part) ==
    /\ Becomes(c, r, run[c].read, run[c].sum)
    /\ diffs' = diffs \ part /\ part \subseteq run[c].read /\ (part = {} \/ run[c].pc = "delete")
    /\ run[c].pc \in {"read", "sum", "archive", "delete"}
    /\ r.pc \in {"archive", "delete", "done", "stopped"}
    /\ r.pc = "delete" => \/ r.left = r.read
                          \/ run[c].pc = "delete" /\ r.left = run[c].left \ part
    /\ r.pc = "done" => run[c].pc = "delete" /\ run[c].left \subseteq part
    /\ \A d : InArchive(d) => InArchive(d)'
    /\ Passes(r) /\ Archives(r)'
    /\ r.pc # "stopped" => run[c].sum # {}
    /\ UNCHANGED <<now, allocated, snapshots, file, dedupe, logged, removed, clash>>

LEMMA ArchivedIs ==
    ASSUME NEW c \in Runs, NEW ds, archive' = Archived(ds, c), run[c].sum # {}
    PROVE  /\ \A d : InArchive(d) => InArchive(d)'
           /\ \A d \in ds : InArchive(d)'
  <1>1. PICK s : s \in run[c].sum
    OBVIOUS
  <1>2. ASSUME NEW d \in ds PROVE InArchive(d)'
    <2>1. PICK x : x = [diff |-> d, sum |-> s.cause]
      OBVIOUS
    <2>2. x \in archive' /\ x.diff = d
      BY <1>1, <1>2, <2>1 DEF Archived
    <2>3. QED
      BY <2>2 DEF InArchive
  <1>3. ASSUME NEW d, InArchive(d), d \notin ds PROVE InArchive(d)'
    BY <1>3 DEF InArchive, Archived
  <1>4. QED
    BY <1>2, <1>3

LEMMA WriteStepIs ==
    ASSUME DiffsInv, NEW c \in Runs, WriteStep(c)
    PROVE  \E part \in SUBSET Diff : \E r \in Pass : Writes(c, r, part)
  <1>1. run[c] \in Pass /\ diffs \subseteq Diff /\ Passes(run[c]) /\ Archives(run[c])
    BY DEF DiffsInv, DiffsTyped
  <1>2. UNCHANGED <<now, allocated, snapshots, file, dedupe, logged, removed, clash>>
    BY DEF WriteStep, ArchiveBatch, DeleteBatch
  <1>3. {"archive", "delete", "done", "stopped"} \subseteq Passing
    BY DEF Passing
  <1>4. Batch(c) \subseteq run[c].left /\ Left(c) = run[c].left \ Batch(c)
    BY DEF Batch, FirstOf, Left
  <1>5. run[c].read \subseteq Diff /\ run[c].left \subseteq Diff
    BY <1>1 DEF Pass
  <1>6. CASE ArchiveBatch(c)
    <2>1. run[c].pc = "archive" /\ archive' = Archived(Batch(c), c) /\ UNCHANGED diffs
      BY <1>6 DEF ArchiveBatch
    <2>2. run[c].sum # {} /\ run[c].left \subseteq run[c].read /\ \A d \in run[c].read \ run[c].left : InArchive(d)
      BY <1>1, <2>1 DEF Passes, Archives
    <2>3. /\ \A d : InArchive(d) => InArchive(d)'
          /\ \A d \in Batch(c) : InArchive(d)'
      BY <2>1, <2>2, ArchivedIs
    <2>4. \A d \in run[c].read \ Left(c) : InArchive(d)'
      BY <1>4, <2>2, <2>3
    <2>5. CASE Left(c) = {}
      <3>1. PICK r : r = [run[c] EXCEPT !.pc = "delete", !.left = run[c].read]
        OBVIOUS
      <3>2. Go(c, r)
        BY <1>6, <2>5, <3>1 DEF ArchiveBatch
      <3>3. /\ r \in Pass /\ r.pc = "delete" /\ r.left = run[c].read /\ r.read = run[c].read
            /\ r.sum = run[c].sum /\ r.from = run[c].from /\ r.to = run[c].to
        BY <1>1, <1>3, <1>5, <3>1 DEF Pass
      <3>4. Passes(r)
        BY <1>1, <2>2, <3>3 DEF Passes
      <3>5. Archives(r)'
        BY <2>4, <2>5, <3>3 DEF Archives
      <3>6. Writes(c, r, {})
        BY <1>2, <2>1, <2>2, <2>3, <3>2, <3>3, <3>4, <3>5 DEF Writes, Becomes
      <3>7. QED
        BY <3>3, <3>6
    <2>6. CASE Left(c) # {}
      <3>1. PICK r : r = [run[c] EXCEPT !.left = Left(c)]
        OBVIOUS
      <3>2. Go(c, r)
        BY <1>6, <2>6, <3>1 DEF ArchiveBatch
      <3>3. /\ r \in Pass /\ r.pc = "archive" /\ r.left = Left(c) /\ r.read = run[c].read
            /\ r.sum = run[c].sum /\ r.from = run[c].from /\ r.to = run[c].to
        <4>1. PICK left \in SUBSET Diff : left = Left(c)
          BY <1>4, <1>5
        <4>2. QED
          BY <1>1, <2>1, <3>1, <4>1 DEF Pass
      <3>4. Passes(r)
        BY <1>1, <1>4, <2>2, <3>3 DEF Passes
      <3>5. Archives(r)'
        BY <2>4, <3>3 DEF Archives
      <3>6. Writes(c, r, {})
        BY <1>2, <2>1, <2>2, <2>3, <3>2, <3>3, <3>4, <3>5 DEF Writes, Becomes
      <3>7. QED
        BY <3>3, <3>6
    <2>7. QED
      BY <2>5, <2>6
  <1>7. CASE DeleteBatch(c)
    <2>1. run[c].pc = "delete" /\ diffs' = diffs \ Batch(c) /\ UNCHANGED archive
      BY <1>7 DEF DeleteBatch, Deletion
    <2>2. run[c].sum # {} /\ run[c].left \subseteq run[c].read /\ \A d \in run[c].read : InArchive(d)
      BY <1>1, <2>1 DEF Passes, Archives
    <2>3. PICK pc : pc = IF Left(c) = {} THEN "done" ELSE "delete"
      OBVIOUS
    <2>4. PICK left \in SUBSET Diff : left = Left(c)
      BY <1>4, <1>5
    <2>5. PICK r : r = [run[c] EXCEPT !.left = left, !.pc = pc]
      OBVIOUS
    <2>6. Go(c, r)
      BY <1>7, <2>3, <2>4, <2>5 DEF DeleteBatch
    <2>7. /\ r \in Pass /\ r.pc = pc /\ r.left = Left(c) /\ r.read = run[c].read
          /\ r.sum = run[c].sum /\ r.from = run[c].from /\ r.to = run[c].to
      BY <1>1, <1>3, <2>3, <2>4, <2>5 DEF Pass
    <2>8. \A d : InArchive(d) => InArchive(d)'
      BY <2>1 DEF InArchive
    <2>9. Passes(r)
      BY <1>1, <1>4, <2>2, <2>3, <2>7 DEF Passes
    <2>10. Archives(r)'
      BY <2>2, <2>3, <2>7, <2>8 DEF Archives
    <2>11. Batch(c) \subseteq run[c].read /\ (pc = "done" => run[c].left \subseteq Batch(c))
      BY <1>4, <2>2, <2>3
    <2>12. Writes(c, r, Batch(c))
      BY <1>2, <1>4, <2>1, <2>2, <2>3, <2>6, <2>7, <2>8, <2>9, <2>10, <2>11 DEF Writes, Becomes
    <2>13. Batch(c) \in SUBSET Diff
      BY <1>4, <1>5
    <2>14. QED
      BY <2>7, <2>12, <2>13
  <1>8. CASE Go(c, Stopped(c)) /\ run[c].pc \in {"read", "sum", "archive", "delete"}
             /\ ~ArchiveBatch(c) /\ ~DeleteBatch(c)
    <2>1. PICK r : r = Stopped(c)
      OBVIOUS
    <2>2. Go(c, r)
      BY <1>8, <2>1
    <2>3. /\ r \in Pass /\ r.pc = "stopped" /\ r.read = run[c].read
          /\ r.sum = run[c].sum /\ r.from = run[c].from /\ r.to = run[c].to
      BY <1>1, <1>3, <2>1 DEF Stopped, Pass
    <2>4. Passes(r) /\ Archives(r)'
      BY <1>1, <2>3 DEF Passes, Archives
    <2>5. PICK part \in SUBSET Diff :
            /\ diffs' = diffs \ part /\ part \subseteq run[c].read /\ (part = {} \/ run[c].pc = "delete")
            /\ \A d : InArchive(d) => InArchive(d)'
      <3>1. CASE UNCHANGED <<archive, diffs>>
        <4>1. diffs' = diffs \ {} /\ \A d : InArchive(d) => InArchive(d)'
          BY <3>1 DEF InArchive
        <4>2. {} \in SUBSET Diff
          OBVIOUS
        <4>3. QED
          BY <4>1, <4>2
      <3>2. CASE /\ run[c].pc = "archive" /\ UNCHANGED diffs
                 /\ \E part \in SUBSET Batch(c) : archive' = Archived(part, c)
        <4>1. run[c].sum # {}
          BY <1>1, <3>2 DEF Passes
        <4>2. \A d : InArchive(d) => InArchive(d)'
          BY <3>2, <4>1, ArchivedIs
        <4>3. diffs' = diffs \ {} /\ {} \in SUBSET Diff
          BY <3>2
        <4>4. QED
          BY <4>2, <4>3
      <3>3. CASE /\ run[c].pc = "delete" /\ UNCHANGED archive
                 /\ \E part \in SUBSET Batch(c) : diffs' = diffs \ part
        <4>1. PICK part \in SUBSET Batch(c) : diffs' = diffs \ part
          BY <3>3
        <4>2. part \subseteq run[c].read /\ part \in SUBSET Diff
          BY <1>1, <1>4, <1>5, <3>3 DEF Passes
        <4>3. \A d : InArchive(d) => InArchive(d)'
          BY <3>3 DEF InArchive
        <4>4. QED
          BY <3>3, <4>1, <4>2, <4>3
      <3>4. QED
        BY <1>8, <3>1, <3>2, <3>3 DEF WriteStep
    <2>6. Writes(c, r, part)
      BY <1>2, <1>8, <2>2, <2>3, <2>4, <2>5 DEF Writes, Becomes
    <2>7. QED
      BY <2>3, <2>6
  <1>9. QED
    BY <1>6, <1>7, <1>8 DEF WriteStep

(* The steps of a run, by what they do.                                    *)
LEMMA CompactionIs ==
    ASSUME Compaction
    PROVE  \E c \in Runs :
             \/ \E mode \in Mode : StartCompaction(c, mode)
             \/ ReadPage(c) \/ SumStep(c) \/ WriteStep(c)
  <1>1. PICK c \in Runs :
          \/ \E mode \in Mode : StartCompaction(c, mode)
          \/ ReadPage(c) \/ PutSum(c) \/ ArchiveBatch(c) \/ DeleteBatch(c)
          \/ RunFails(c)
    BY DEF Compaction
  <1>2. CASE RunFails(c)
    BY <1>2 DEF RunFails, SumStep, WriteStep
  <1>3. QED
    BY <1>1, <1>2 DEF SumStep, WriteStep

LEMMA CompactionKeeps == ASSUME DiffsInv, SnapshotsInv, Compaction PROVE DiffsInv'
  <1>1. DiffsTyped
    BY DEF DiffsInv
  <1>2. PICK c \in Runs :
             \/ \E mode \in Mode : StartCompaction(c, mode)
             \/ ReadPage(c) \/ SumStep(c) \/ WriteStep(c)
    BY CompactionIs
  <1>3. run[c] \in Pass /\ IsFiniteSet(run[c].read) /\ Passes(run[c])
    BY <1>1 DEF DiffsTyped, DiffsInv
  <1>4. ASSUME NEW mode \in Mode, StartCompaction(c, mode) PROVE DiffsInv'
    <2>1. PICK r \in Pass : Go(c, r) /\ r.pc = "read" /\ r.read = run[c].read /\ r.sum = run[c].sum
      BY <1>4, StartIs
    <2>2. UNCHANGED <<now, diffs, archive, dedupe, logged, removed>> /\ run[c].pc = "idle"
      BY <1>4 DEF StartCompaction, spaceTables
    <2>3. Passes(r) /\ Archives(r)'
      BY <1>3, <2>1, <2>2 DEF Passes, Archives
    <2>4. \A d : InArchive(d) => InArchive(d)'
      BY <2>2 DEF InArchive
    <2>5. QED
      BY <1>3, <2>1, <2>2, <2>3, <2>4, RunGoesOn
  <1>5. CASE ReadPage(c)
    <2>1. PICK page \in SUBSET Between(run[c].from, run[c].to) : \E r \in Pass :
             /\ Becomes(c, r, run[c].read \union page, run[c].sum)
             /\ r.pc \in {"read", "done", "sum"} /\ (r.pc = "sum" => r.read # {})
      BY <1>5, ReadIs
    <2>2. PICK r \in Pass :
             /\ Becomes(c, r, run[c].read \union page, run[c].sum)
             /\ r.pc \in {"read", "done", "sum"} /\ (r.pc = "sum" => r.read # {})
      BY <2>1
    <2>3. page \subseteq diffs /\ IsFiniteSet(page)
      <3>1. page \subseteq diffs
        BY DEF Between
      <3>2. QED
        BY <1>1, <3>1, FS_Subset DEF DiffsTyped
    <2>4. r.read = run[c].read \union page /\ r.sum = run[c].sum /\ Go(c, r)
      BY <2>2 DEF Becomes
    <2>5. IsFiniteSet(r.read)
      BY <1>3, <2>3, <2>4, FS_Union
    <2>6. UNCHANGED <<now, diffs, archive, dedupe, logged, removed>> /\ run[c].pc = "read"
      BY <1>5 DEF ReadPage, spaceTables
    <2>7. Passes(r) /\ Archives(r)'
      BY <1>3, <2>2, <2>4, <2>6 DEF Passes, Archives
    <2>8. \A d : InArchive(d) => InArchive(d)'
      BY <2>6 DEF InArchive
    <2>9. QED
      BY <2>3, <2>4, <2>5, <2>6, <2>7, <2>8, RunGoesOn
  <1>6. CASE SumStep(c)
    <2>1. PICK s \in Diff : \E r \in Pass :
             /\ s = Summation(c) /\ Becomes(c, r, run[c].read, {s})
             /\ diffs' = diffs \union {s} /\ r.pc \in {"archive", "stopped"}
             /\ r.pc = "archive" => r.left = r.read
             /\ run[c].pc = "sum"
             /\ UNCHANGED <<now, archive, dedupe, logged, removed>>
      BY <1>6, SumStepIs
    <2>2. PICK r \in Pass :
             /\ s = Summation(c) /\ Becomes(c, r, run[c].read, {s})
             /\ diffs' = diffs \union {s} /\ r.pc \in {"archive", "stopped"}
             /\ r.pc = "archive" => r.left = r.read
             /\ run[c].pc = "sum"
             /\ UNCHANGED <<now, archive, dedupe, logged, removed>>
      BY <2>1
    <2>3. s.cause = Fresh
      BY <2>2, SummationIs
    <2>4. Go(c, r) /\ r.sum = {s} /\ r.read = run[c].read
      BY <2>2 DEF Becomes
    <2>5. run[c].sum = {} /\ Passes(r) /\ Archives(r)'
      BY <1>3, <2>2, <2>4 DEF Passes, Archives
    <2>6. QED
      BY <2>2, <2>3, <2>4, <2>5, SumIsPut
  <1>7. CASE WriteStep(c)
    <2>1. PICK part \in SUBSET Diff : \E r \in Pass : Writes(c, r, part)
      BY <1>7, WriteStepIs
    <2>2. PICK r \in Pass : Writes(c, r, part)
      BY <2>1
    <2>3. /\ Go(c, r) /\ r.sum = run[c].sum /\ r.read = run[c].read
          /\ diffs' = diffs \ part /\ part \subseteq run[c].read /\ (part = {} \/ run[c].pc = "delete")
          /\ \A d : InArchive(d) => InArchive(d)'
          /\ Passes(r) /\ Archives(r)'
          /\ UNCHANGED <<now, dedupe, logged, removed>>
      BY <2>2 DEF Writes, Becomes
    <2>4. \A d \in part : InArchive(d)
      BY <2>3 DEF DiffsInv, Archives
    <2>5. QED
      BY <1>3, <2>3, <2>4, RunGoesOn
  <1>8. QED
    BY <1>2, <1>4, <1>5, <1>6, <1>7

AllocatedTyped == allocated \in [Blob -> Nat \union {None}]

LEMMA SizesAre ==
    ASSUME NEW B \in SUBSET Blob
    PROVE  SumFunction([b \in B |-> Size[b]]) \in Int
  <1> DEFINE f == [b \in B |-> Size[b]]
  <1>1. f \in [B -> Int] /\ IsFiniteSet(B)
    BY FS_Subset, ToolsAssumption
  <1> HIDE DEF f
  <1>2. SumFunction(f) \in Int
    BY <1>1, TotalType
  <1>3. QED
    BY <1>2 DEF f

LEMMA SizeFromIs ==
    ASSUME SnapshotsInv, DiffsTyped, NEW t \in Nat, NEW to
    PROVE  SizeFrom(t, to) \in Int
  <1>1. Newest(t) \in snapshots
    BY NewestIs
  <1>2. Newest(t).size \in Int
    BY <1>1 DEF SnapshotsInv
  <1>3. \A from : Summable(Between(from, to))
    <2>1. Summable(diffs)
      BY DEF Summable, DiffsTyped, Diff
    <2>2. QED
      BY <2>1, SummablePart DEF Between
  <1>4. DeltaSum(Between(Newest(t).at, to)) \in Int
    BY <1>3, DeltaType
  <1>5. QED
    BY <1>2, <1>4 DEF SizeFrom

(* A snapshot takes the place of one at its instant, or is a new one.      *)
LEMMA SnapshotIsPut ==
    ASSUME SnapshotsInv, NEW e \in 1..EndOfTime, NEW size \in Int, PutSnapshot(e, size), file' = file
    PROVE  SnapshotsInv'
  <1>1. snapshots' = {s \in snapshots : s.at # e} \union {[at |-> e, size |-> size]}
    BY DEF PutSnapshot
  <1>2. e \in Nat /\ e # 0 /\ e <= EndOfTime
    BY ToolsAssumption
  <1>3. QED
    BY <1>1, <1>2 DEF SnapshotsInv

LEMMA SnapshotsKeep ==
    ASSUME DiffsInv, SnapshotsInv, Snapshots
    PROVE  SnapshotsInv'
  <1>1. DiffsTyped /\ DayLength \in Nat \ {0} /\ EndOfTime \in Nat
    BY ToolsAssumption DEF DiffsInv
  <1>2. ASSUME NEW e \in 0..EndOfTime, Bill(e) PROVE SnapshotsInv'
    <2>1. e \in 1..EndOfTime /\ e - DayLength \in Nat
      BY <1>1, <1>2 DEF Bill
    <2>2. SizeFrom(e - DayLength, e) \in Int
      BY <1>1, <2>1, SizeFromIs
    <2>3. PutSnapshot(e, SizeFrom(e - DayLength, e)) /\ file' = file
      BY <1>2 DEF Bill
    <2>4. QED
      BY <2>1, <2>2, <2>3, SnapshotIsPut
  <1>3. ASSUME NEW e \in 0..EndOfTime, ComputeSnapshot(e) PROVE SnapshotsInv'
    <2>1. AllocatedSize(e) \in Int
      BY SizesAre DEF AllocatedSize, AllocatedUntil
    <2>2. e \in 1..EndOfTime
      BY <1>1, <1>3 DEF ComputeSnapshot
    <2>3. \A f \in file' : f.at = e /\ f.size = AllocatedSize(e)
      BY <1>3 DEF ComputeSnapshot
    <2>4. snapshots' = snapshots
      BY <1>3 DEF ComputeSnapshot, spaceTables
    <2>5. QED
      BY <2>1, <2>2, <2>3, <2>4 DEF SnapshotsInv
  <1>4. ASSUME NEW f \in file, UpsertSnapshot(f) PROVE SnapshotsInv'
    <2>1. f.at \in 1..EndOfTime /\ f.size \in Int
      BY DEF SnapshotsInv
    <2>2. PutSnapshot(f.at, f.size) /\ file' = file
      BY <1>4 DEF UpsertSnapshot
    <2>3. QED
      BY <2>1, <2>2, SnapshotIsPut
  <1>5. QED
    BY <1>2, <1>3, <1>4 DEF Snapshots

LEMMA ToolsStart == ASSUME ToolsInit PROVE DiffsInv /\ SnapshotsInv /\ AllocatedTyped
  <1>1. {DayLength, EndOfTime} \subseteq Nat \ {0}
    BY ToolsAssumption
  <1>2. DiffsTyped
    <2>1. NotRun \in Pass
      BY DEF NotRun, Pass, Passing
    <2>2. run \in [Runs -> Pass] /\ \A c \in Runs : run[c].read = {}
      BY <2>1 DEF ToolsInit, NotRun
    <2>3. \A c \in Runs : IsFiniteSet(run[c].read)
      BY <2>2, FS_EmptySet
    <2>4. diffs = {} /\ logged = {} /\ now = 0 /\ dedupe \in Removing
      BY DEF ToolsInit, Removing
    <2>5. now \in 0..EndOfTime
      BY <1>1, <2>4
    <2>6. QED
      BY <2>2, <2>3, <2>4, <2>5, FS_EmptySet DEF DiffsTyped
  <1>3. CausesApart
    BY DEF ToolsInit, CausesApart, DiffSums, NotRun
  <1>4. Removals
    BY DEF ToolsInit, Removals
  <1>5. \A c \in Runs : Passes(run[c]) /\ Archives(run[c])
    BY DEF ToolsInit, Passes, Archives, NotRun
  <1>6. \A d \in logged : Kept(d)
    BY DEF ToolsInit
  <1>7. SnapshotsInv
    BY <1>1 DEF ToolsInit, SnapshotsInv
  <1>8. AllocatedTyped
    BY DEF ToolsInit, AllocatedTyped
  <1>9. QED
    BY <1>2, <1>3, <1>4, <1>5, <1>6, <1>7, <1>8 DEF DiffsInv

LEMMA AllocatedKeeps ==
    ASSUME DiffsInv, AllocatedTyped, \/ ToolsNext \/ UNCHANGED toolsVars
    PROVE  AllocatedTyped'
  <1>1. now \in Nat
    BY DEF DiffsInv, DiffsTyped
  <1>2. CASE Client
    <2>1. \/ allocated' = allocated
          \/ \E b \in Blob : allocated' = [allocated EXCEPT ![b] = now]
          \/ \E b \in Blob : allocated' = [allocated EXCEPT ![b] = None]
      BY <1>2 DEF Client, AddBlob, RemoveBlob, PutAgain
    <2>2. QED
      BY <1>1, <2>1 DEF AllocatedTyped
  <1>3. CASE ~Client
    <2>1. allocated' = allocated
      <3>1. CASE Compaction
        BY <3>1, CompactionIs DEF StartCompaction, ReadPage, SumStep, PutSum, WriteStep, ArchiveBatch, DeleteBatch, spaceTables
      <3>2. CASE ~Compaction
        BY <1>3, <3>2 DEF ToolsNext, Tick, Snapshots, Bill, ComputeSnapshot, UpsertSnapshot, Removal, FindDuplicates,
           RemoveDuplicates, RemoveFails, RemoveEnds, toolsVars, spaceTables
      <3>3. QED
        BY <3>1, <3>2
    <2>2. QED
      BY <2>1 DEF AllocatedTyped
  <1>4. QED
    BY <1>2, <1>3

LEMMA DiffsKeep ==
    ASSUME DiffsInv, SnapshotsInv, ToolsNext \/ UNCHANGED toolsVars
    PROVE  DiffsInv' /\ SnapshotsInv'
  <1>1. now \in 0..EndOfTime
    BY DEF DiffsInv, DiffsTyped
  <1>2. ASSUME UNCHANGED <<snapshots, file>> PROVE SnapshotsInv'
    BY <1>2 DEF SnapshotsInv
  <1>3. CASE Tick \/ UNCHANGED toolsVars
    <2>1. /\ UNCHANGED <<diffs, archive, snapshots, file, run, dedupe, logged, removed>>
          /\ now' \in 0..EndOfTime /\ now <= now'
      BY <1>1, <1>3, ToolsAssumption DEF Tick, toolsVars, spaceTables
    <2>2. QED
      BY <1>2, <2>1, DiffsStay
  <1>4. CASE Client
    <2>1. UNCHANGED <<now, snapshots, file>>
      BY <1>4 DEF Client, AddBlob, RemoveBlob, PutAgain
    <2>2. QED
      BY <1>1, <1>2, <1>4, <2>1, ClientKeeps
  <1>5. CASE Snapshots
    <2>1. UNCHANGED <<now, diffs, archive, run, dedupe, logged, removed>>
      BY <1>5 DEF Snapshots, Bill, ComputeSnapshot, UpsertSnapshot, spaceTables
    <2>2. QED
      BY <1>1, <1>5, <2>1, SnapshotsKeep, DiffsStay
  <1>6. CASE Compaction
    <2>1. UNCHANGED <<now, snapshots, file>>
      BY <1>6, CompactionIs DEF StartCompaction, ReadPage, SumStep, PutSum, WriteStep, ArchiveBatch, DeleteBatch, spaceTables
    <2>2. QED
      BY <1>1, <1>2, <1>6, <2>1, CompactionKeeps
  <1>7. CASE Removal
    <2>1. UNCHANGED <<now, snapshots, file>>
      BY <1>7 DEF Removal, FindDuplicates, RemoveDuplicates, RemoveFails, RemoveEnds, spaceTables
    <2>2. QED
      BY <1>1, <1>2, <1>7, <2>1, RemovalKeeps
  <1>8. QED
    BY <1>3, <1>4, <1>5, <1>6, <1>7 DEF ToolsNext

(***************************************************************************)
(* The removal of duplicates takes out each it was given, or notes that it *)
(* could not, and takes out nothing else, whatever is put, compacted and   *)
(* billed meanwhile (remove-duplicates.js).                                *)
(***************************************************************************)
THEOREM RemovalTakesDuplicates == ToolsSpec => []DuplicatesGone
  <1>1. ToolsInit => DiffsInv /\ SnapshotsInv
    BY ToolsStart
  <1>2. DiffsInv /\ SnapshotsInv /\ [ToolsNext]_toolsVars => DiffsInv' /\ SnapshotsInv'
    BY DiffsKeep
  <1>3. DiffsInv => DuplicatesGone
    <2>1. ASSUME DiffsInv PROVE DuplicatesGone
      BY <2>1 DEF DiffsInv, DuplicatesGone, Removals, HasEarlier
    <2>2. QED
      BY <2>1
  <1>4. QED
    BY <1>1, <1>2, <1>3, PTL DEF ToolsSpec

(***************************************************************************)
(* The runs whose sums count at an instant and after it, what counts twice *)
(* by them, and what the diffs since then are without that.                *)
(***************************************************************************)
DueRuns(rs, e) ==
    {c \in Runs : rs[c].pc # "done" /\ \E s \in rs[c].sum : e <= s.at}

Extra(rs, ds, e) == SumFunction([c \in DueRuns(rs, e) |-> DeltaSum(rs[c].read \intersect ds)])

Since(ds, e) == {d \in ds : e <= d.at}

Single(rs, ds, e) == DeltaSum(Since(ds, e)) - Extra(rs, ds, e)

LEMMA NoneDue ==
    ASSUME NEW rs, NEW ds, NEW e, DueRuns(rs, e) = {}
    PROVE  Extra(rs, ds, e) = 0
  BY TotalEmpty DEF Extra

LEMMA OneDue ==
    ASSUME NEW rs, NEW ds, NEW e, NEW c, DueRuns(rs, e) = {c}, Summable(ds)
    PROVE  Extra(rs, ds, e) = DeltaSum(rs[c].read \intersect ds)
  <1> DEFINE none == [o \in {} |-> 0]
             one == [o \in {c} |-> DeltaSum(rs[o].read \intersect ds)]
  <1>1. one[c] = DeltaSum(rs[c].read \intersect ds)
    OBVIOUS
  <1>2. one[c] \in Int
    BY <1>1, SummablePart, DeltaType
  <1>3. none \in [{} -> Int] /\ DOMAIN none = {} /\ one \in [{} \union {c} -> Int]
    BY <1>2
  <1>4. Extra(rs, ds, e) = SumFunction(one)
    BY DEF Extra
  <1> HIDE DEF none, one
  <1>5. SumFunction(none) = 0
    BY <1>3, TotalEmpty
  <1>6. SumFunction(one) = SumFunction(none) + one[c]
    BY <1>3, FS_EmptySet, TotalWith
  <1>7. QED
    BY <1>1, <1>2, <1>4, <1>5, <1>6

(* A run that is due is under way.                                         *)
LEMMA DueIsUnderWay ==
    ASSUME DiffsInv, NEW e, NEW c, c \in DueRuns(run, e)
    PROVE  c \in Runs /\ UnderWay(c) /\ run[c].pc \in {"archive", "delete", "stopped"}
  <1>1. c \in Runs /\ run[c].sum # {} /\ run[c].pc # "done"
    BY DEF DueRuns
  <1>2. run[c].pc \in Passing /\ Passes(run[c])
    BY <1>1 DEF DiffsInv, DiffsTyped, Pass
  <1>3. run[c].pc \in {"archive", "delete", "stopped"}
    BY <1>1, <1>2 DEF Passes, Passing
  <1>4. QED
    BY <1>1, <1>3 DEF UnderWay

LEMMA DiffsSummable == ASSUME DiffsInv PROVE Summable(diffs)
  BY DEF DiffsInv, DiffsTyped, Summable, Diff

LEMMA SinceSummable ==
    ASSUME NEW ds, Summable(ds), NEW e
    PROVE  Summable(Since(ds, e)) /\ DeltaSum(Since(ds, e)) \in Int
  BY SummablePart, DeltaType DEF Since

\* No other run is under way.
Alone(c) == \A o \in Runs : UnderWay(o) => o = c

(* A sum is put: it and what it is of count twice, unless the instant is   *)
(* between them.                                                           *)
LEMMA SumCountsTwice ==
    ASSUME DiffsInv, NEW c, c \in Runs, SumStep(c), Alone(c), run[c].read \subseteq diffs,
           NEW e, e \in Nat,
           \A d \in run[c].read : e <= Summation(c).at => e <= d.at
    PROVE  Single(run', diffs', e) = Single(run, diffs, e)
  <1>1. PICK s \in Diff : \E r \in Pass :
             /\ s = Summation(c) /\ Becomes(c, r, run[c].read, {s})
             /\ diffs' = diffs \union {s} /\ r.pc \in {"archive", "stopped"}
             /\ run[c].pc = "sum"
    BY SumStepIs
  <1>2. PICK r \in Pass :
             /\ s = Summation(c) /\ Becomes(c, r, run[c].read, {s})
             /\ diffs' = diffs \union {s} /\ r.pc \in {"archive", "stopped"}
             /\ run[c].pc = "sum"
    BY <1>1
  <1>3. /\ s.cause = Fresh /\ s.delta = DeltaSum(run[c].read)
        /\ \A d \in run[c].read : d.at <= s.at
    BY <1>2, SummationIs
  <1>4. s \notin diffs
    <2>1. Fresh \in Nat
      BY FreshIs DEF DiffsInv
    <2>2. \A d \in diffs : d.cause # Fresh
      BY <2>1 DEF DiffsInv, DiffsTyped, CausesApart, Diff
    <2>3. QED
      BY <1>3, <2>2
  <1>5. /\ run' = [run EXCEPT ![c] = r] /\ r.read = run[c].read /\ r.sum = {s}
        /\ run \in [Runs -> Pass]
    BY <1>2 DEF Becomes, Go, DiffsInv, DiffsTyped
  <1>6. run'[c] = r /\ \A o \in Runs : o # c => run'[o] = run[o]
    BY <1>5
  <1>7. DueRuns(run, e) = {}
    <2>1. \A o \in DueRuns(run, e) : o = c
      BY DueIsUnderWay DEF Alone
    <2>2. c \notin DueRuns(run, e)
      BY <1>2, DueIsUnderWay
    <2>3. QED
      BY <2>1, <2>2
  <1>8. \A o \in DueRuns(run', e) : o = c
    BY <1>6, <1>7 DEF DueRuns
  <1>9. Summable(diffs) /\ Summable(diffs') /\ s.delta \in Int /\ s.at \in Int
    <2>1. s.delta \in Int /\ s.at \in Int
      BY <1>1 DEF Diff
    <2>2. Summable(diffs')
      BY <1>2, <1>4, <2>1, DiffsSummable, DeltaWith
    <2>3. QED
      BY <2>1, <2>2, DiffsSummable
  <1>10. Extra(run, diffs, e) = 0
    BY <1>7, NoneDue
  <1>11. CASE e <= s.at
    <2>1. c \in DueRuns(run', e)
      BY <1>2, <1>5, <1>6, <1>11 DEF DueRuns
    <2>2. DueRuns(run', e) = {c}
      BY <1>8, <2>1
    <2>3. Extra(run', diffs', e) = DeltaSum(run'[c].read \intersect diffs')
      BY <1>9, <2>2, OneDue
    <2>4. run'[c].read \intersect diffs' = run[c].read
      BY <1>2, <1>5, <1>6
    <2>5. Extra(run', diffs', e) = s.delta
      BY <1>3, <2>3, <2>4
    <2>6. Since(diffs', e) = Since(diffs, e) \union {s} /\ s \notin Since(diffs, e)
      BY <1>2, <1>4, <1>11 DEF Since
    <2>7. Summable(Since(diffs, e)) /\ DeltaSum(Since(diffs, e)) \in Int
      BY <1>9, SinceSummable
    <2>8. DeltaSum(Since(diffs, e) \union {s}) = DeltaSum(Since(diffs, e)) + s.delta
      BY <1>9, <2>6, <2>7, DeltaWith
    <2>9. QED
      BY <1>9, <1>10, <2>5, <2>6, <2>7, <2>8 DEF Single
  <1>12. CASE ~(e <= s.at)
    <2>1. DueRuns(run', e) = {}
      BY <1>5, <1>6, <1>8, <1>12 DEF DueRuns
    <2>2. Since(diffs', e) = Since(diffs, e)
      BY <1>2, <1>12 DEF Since
    <2>3. Extra(run', diffs', e) = 0
      BY <2>1, NoneDue
    <2>4. QED
      BY <1>10, <2>2, <2>3 DEF Single
  <1>13. QED
    BY <1>11, <1>12

(* What is deleted counted twice before.                                   *)
LEMMA DeletionCountsOnce ==
    ASSUME DiffsInv, NEW c, c \in Runs, WriteStep(c), Alone(c),
           run[c].pc = "delete" => run[c].read \intersect diffs \subseteq run[c].left,
           NEW e, e \in Nat,
           \A s \in run[c].sum : \A d \in run[c].read : e <= s.at => e <= d.at,
           \A s \in run[c].sum : \A d \in run[c].read : d.at <= s.at
    PROVE  Single(run', diffs', e) = Single(run, diffs, e)
  <1>1. PICK part \in SUBSET Diff : \E r \in Pass : Writes(c, r, part)
    BY WriteStepIs
  <1>2. PICK r \in Pass : Writes(c, r, part)
    BY <1>1
  <1>3. /\ run' = [run EXCEPT ![c] = r] /\ r.read = run[c].read /\ r.sum = run[c].sum
        /\ run \in [Runs -> Pass]
    BY <1>2 DEF Writes, Becomes, Go, DiffsInv, DiffsTyped
  <1>4. run'[c] = r /\ \A o \in Runs : o # c => run'[o] = run[o]
    BY <1>3
  <1>5. \A o \in DueRuns(run, e) : o = c
    BY DueIsUnderWay DEF Alone
  <1>6. \A o \in DueRuns(run', e) : o = c
    BY <1>4, <1>5 DEF DueRuns
  <1>7. /\ diffs' = diffs \ part /\ part \subseteq run[c].read
        /\ run[c].pc \in {"read", "sum", "archive", "delete"}
        /\ r.pc = "done" => run[c].pc = "delete" /\ run[c].left \subseteq part
        /\ part = {} \/ run[c].pc = "delete"
    BY <1>2 DEF Writes
  <1>8. Summable(diffs) /\ Summable(diffs')
    BY <1>7, DiffsSummable, SummablePart
  <1>9. part = {} \/ run[c].sum # {}
    BY <1>7 DEF DiffsInv, Passes
  <1>10. run[c].read \subseteq Diff /\ run[c].sum \subseteq Diff
    BY <1>3 DEF Pass
  <1>11. CASE \E s \in run[c].sum : e <= s.at
    <2> DEFINE A == Since(diffs, e)
               B == run[c].read \intersect diffs
    <2>1. c \in DueRuns(run, e)
      BY <1>7, <1>11 DEF DueRuns
    <2>2. DueRuns(run, e) = {c}
      BY <1>5, <2>1
    <2>3. Extra(run, diffs, e) = DeltaSum(B)
      BY <1>8, <2>2, OneDue
    <2>4. Extra(run', diffs', e) = DeltaSum(B \ part)
      <3>1. CASE r.pc = "done"
        <4>1. c \notin DueRuns(run', e)
          BY <1>4, <3>1 DEF DueRuns
        <4>2. DueRuns(run', e) = {}
          BY <1>6, <4>1
        <4>3. B \ part = {}
          BY <1>7, <3>1
        <4>4. Extra(run', diffs', e) = 0
          BY <4>2, NoneDue
        <4>5. QED
          BY <4>3, <4>4, DeltaNone
      <3>2. CASE r.pc # "done"
        <4>1. c \in DueRuns(run', e)
          BY <1>3, <1>4, <1>11, <3>2 DEF DueRuns
        <4>2. DueRuns(run', e) = {c}
          BY <1>6, <4>1
        <4>3. Extra(run', diffs', e) = DeltaSum(run'[c].read \intersect diffs')
          BY <1>8, <4>2, OneDue
        <4>4. run'[c].read \intersect diffs' = B \ part
          BY <1>3, <1>4, <1>7
        <4>5. QED
          BY <4>3, <4>4
      <3>3. QED
        BY <3>1, <3>2
    <2>5. Since(diffs', e) = A \ part
      BY <1>7 DEF Since
    <2>6. A \intersect part = B \intersect part
      BY <1>7, <1>11 DEF Since
    <2>7. Summable(A) /\ Summable(B)
      BY <1>8, SinceSummable, SummablePart
    <2> HIDE DEF A, B
    <2>8. /\ DeltaSum(A) \in Int /\ DeltaSum(A \intersect part) \in Int /\ DeltaSum(A \ part) \in Int
          /\ DeltaSum(A) = DeltaSum(A \intersect part) + DeltaSum(A \ part)
      BY <2>7, DeltaSplit
    <2>9. /\ DeltaSum(B) \in Int /\ DeltaSum(B \intersect part) \in Int /\ DeltaSum(B \ part) \in Int
          /\ DeltaSum(B) = DeltaSum(B \intersect part) + DeltaSum(B \ part)
      BY <2>7, DeltaSplit
    <2>10. DeltaSum(A \intersect part) = DeltaSum(B \intersect part)
      BY <2>6
    <2>11. Single(run, diffs, e) = DeltaSum(A) - DeltaSum(B)
      BY <2>3 DEF Single, A
    <2>12. Single(run', diffs', e) = DeltaSum(A \ part) - DeltaSum(B \ part)
      BY <2>4, <2>5 DEF Single
    <2>13. QED
      BY <2>8, <2>9, <2>10, <2>11, <2>12
  <1>12. CASE ~\E s \in run[c].sum : e <= s.at
    <2>1. DueRuns(run, e) = {}
      BY <1>5, <1>12 DEF DueRuns
    <2>2. DueRuns(run', e) = {}
      BY <1>3, <1>4, <1>6, <1>12 DEF DueRuns
    <2>3. Since(diffs', e) = Since(diffs, e)
      <3>1. \A d \in part : ~(e <= d.at)
        <4>1. CASE run[c].sum = {}
          BY <1>9, <4>1
        <4>2. CASE run[c].sum # {}
          BY <1>7, <1>10, <1>12, <4>2 DEF Diff
        <4>3. QED
          BY <4>1, <4>2
      <3>2. QED
        BY <1>7, <3>1 DEF Since
    <2>4. Extra(run, diffs, e) = 0 /\ Extra(run', diffs', e) = 0
      BY <2>1, <2>2, NoneDue
    <2>5. QED
      BY <2>3, <2>4 DEF Single
  <1>13. QED
    BY <1>11, <1>12

(***************************************************************************)
(* What holds of the runs, of the changes and of the allocations; and what *)
(* holds of the sums as long as billing and the tools are run in turn.     *)
(***************************************************************************)
RunsRead ==
    \A c \in Runs :
        /\ run[c].pc = "idle" => run[c].read = {}
        /\ \A d \in run[c].read : run[c].from <= d.at /\ d.at < run[c].to
        /\ \A s \in run[c].sum : /\ \E d \in run[c].read : s.at = d.at
                                 /\ \A d \in run[c].read : d.at <= s.at

\* A run reads between two snapshots or after all, and at work it is alone.
InTurn ==
    /\ \A c, o \in Runs : UnderWay(c) /\ UnderWay(o) => c = o
    /\ \A c \in Runs : UnderWay(c) =>
         /\ \A s \in snapshots : s.at <= run[c].from \/ run[c].to <= s.at
         /\ run[c].pc \in {"read", "sum"} => run[c].read \subseteq diffs
         /\ run[c].pc = "delete" => run[c].read \intersect diffs \subseteq run[c].left

\* Each snapshot and the diffs since add up to the changes.
Balanced ==
    \A s \in snapshots : s.size + Single(run, diffs, s.at) = DeltaSum(logged \ removed)

OnceEach == \A d, e \in logged : d.cause = e.cause => d = e

\* No sum is after an instant of what is before it.
NotBetween(e) ==
    \A c \in Runs : \A d \in run[c].read, s \in run[c].sum : e <= s.at => e <= d.at

\* The diffs since an instant add up to the changes since.
ChangesSince ==
    OnceEach =>
      \A e \in Nat : NotBetween(e) => Single(run, diffs, e) = DeltaSum(Since(logged, e))

SizesOf(bs) == SumFunction([b \in bs |-> Size[b]])

AllocatedBefore(e) == {b \in Blob : allocated[b] # None /\ allocated[b] < e}

\* The changes before an instant, with no removal after it, add up to what is allocated.
AllocationsTell ==
    /\ \A b \in Blob : allocated[b] # None => \E d \in logged : d.at = allocated[b]
    /\ OnceEach =>
         \A e \in Nat :
           (\A d \in Since(logged, e) : d.delta >= 0) =>
               DeltaSum(logged \ Since(logged, e)) = SizesOf(AllocatedBefore(e))

\* And so does a file of what was allocated when it was computed.
FileTells ==
    \A f \in file :
        /\ f.changes \subseteq logged
        /\ OnceEach /\ (\A d \in f.changes : d.at # f.at /\ (d.at > f.at => d.delta >= 0)) =>
             f.size = DeltaSum(f.changes \ Since(f.changes, f.at))

-----------------------------------------------------------------------------
LEMMA ExtraSame ==
    ASSUME NEW a, NEW b, NEW ds, NEW es, NEW e, DueRuns(a, e) = DueRuns(b, e),
           \A o \in DueRuns(a, e) : a[o].read \intersect ds = b[o].read \intersect es
    PROVE  Extra(a, ds, e) = Extra(b, es, e)
  <1> DEFINE f == [o \in DueRuns(a, e) |-> DeltaSum(a[o].read \intersect ds)]
             g == [o \in DueRuns(b, e) |-> DeltaSum(b[o].read \intersect es)]
  <1>1. \A o \in DueRuns(a, e) : DeltaSum(a[o].read \intersect ds) = DeltaSum(b[o].read \intersect es)
    OBVIOUS
  <1>2. f = g
    BY <1>1
  <1>3. QED
    BY <1>2 DEF Extra

(* A run that reads has no sum.                                            *)
LEMMA ReadingCountsNothing ==
    ASSUME NEW c, c \in Runs, NEW r, run' = [run EXCEPT ![c] = r], run \in [Runs -> Pass],
           run[c].sum = {}, r.sum = {}, diffs' = diffs, NEW e
    PROVE  Single(run', diffs', e) = Single(run, diffs, e)
  <1>1. run'[c] = r /\ \A o \in Runs : o # c => run'[o] = run[o]
    OBVIOUS
  <1>2. DueRuns(run', e) = DueRuns(run, e) /\ c \notin DueRuns(run, e)
    BY <1>1 DEF DueRuns
  <1>3. \A o \in DueRuns(run, e) : run'[o] = run[o]
    BY <1>1, <1>2 DEF DueRuns
  <1>6. \A o \in DueRuns(run', e) : run'[o].read \intersect diffs' = run[o].read \intersect diffs
    BY <1>2, <1>3
  <1>4. Extra(run', diffs', e) = Extra(run, diffs, e)
    <2>1. PICK R : R = run'
      OBVIOUS
    <2>2. DueRuns(R, e) = DueRuns(run, e)
      BY <1>2, <2>1
    <2>3. \A o \in DueRuns(R, e) : R[o].read \intersect diffs = run[o].read \intersect diffs
      BY <1>6, <2>1
    <2>4. Extra(R, diffs, e) = Extra(run, diffs, e)
      BY <2>2, <2>3, ExtraSame
    <2>5. QED
      BY <2>1, <2>4
  <1>5. QED
    BY <1>4 DEF Single

LEMMA ExtraType ==
    ASSUME DiffsInv, InTurn, NEW e
    PROVE  Extra(run, diffs, e) \in Int
  <1>1. \A c, o \in DueRuns(run, e) : c = o
    BY DueIsUnderWay DEF InTurn
  <1>2. CASE DueRuns(run, e) = {}
    BY <1>2, NoneDue
  <1>3. CASE DueRuns(run, e) # {}
    <2>1. PICK c : DueRuns(run, e) = {c}
      BY <1>1, <1>3
    <2>2. Extra(run, diffs, e) = DeltaSum(run[c].read \intersect diffs)
      BY <2>1, DiffsSummable, OneDue
    <2>3. QED
      BY <2>2, DiffsSummable, SummablePart, DeltaType
  <1>4. QED
    BY <1>2, <1>3

LEMMA SingleType ==
    ASSUME DiffsInv, InTurn, NEW e
    PROVE  Single(run, diffs, e) \in Int
  BY ExtraType, DiffsSummable, SinceSummable DEF Single

LEMMA NoneUnderWay ==
    ASSUME DiffsInv, \A c \in Runs : ~UnderWay(c), NEW ds, Summable(ds), NEW e
    PROVE  Single(run, ds, e) = DeltaSum(Since(ds, e)) /\ Single(run, ds, e) \in Int
  <1>1. DueRuns(run, e) = {}
    BY DueIsUnderWay
  <1>2. Extra(run, ds, e) = 0
    BY <1>1, NoneDue
  <1>3. DeltaSum(Since(ds, e)) \in Int
    BY SinceSummable
  <1>4. QED
    BY <1>2, <1>3 DEF Single

(* A diff that no run has read counts.                                     *)
LEMMA DiffCounts ==
    ASSUME DiffsInv, InTurn, NEW d, d \in Diff, d \notin diffs, \A c \in Runs : d \notin run[c].read,
           run' = run, diffs' = diffs \union {d}, NEW e, e \in Nat
    PROVE  /\ Single(run, diffs, e) \in Int
           /\ e <= d.at => Single(run', diffs', e) = Single(run, diffs, e) + d.delta
           /\ ~(e <= d.at) => Single(run', diffs', e) = Single(run, diffs, e)
  <1>1. \A c \in DueRuns(run, e) : run[c].read \intersect diffs' = run[c].read \intersect diffs
    BY DEF DueRuns
  <1>2. Extra(run', diffs', e) = Extra(run, diffs, e)
    BY <1>1 DEF Extra
  <1>3. Single(run, diffs, e) \in Int
    BY SingleType
  <1>4. Summable(Since(diffs, e)) /\ DeltaSum(Since(diffs, e)) \in Int /\ d.delta \in Int
    BY DiffsSummable, SinceSummable DEF Diff
  <1>5. ASSUME e <= d.at PROVE Single(run', diffs', e) = Single(run, diffs, e) + d.delta
    <2>1. Since(diffs', e) = Since(diffs, e) \union {d} /\ d \notin Since(diffs, e)
      BY <1>5 DEF Since
    <2>2. DeltaSum(Since(diffs, e) \union {d}) = DeltaSum(Since(diffs, e)) + d.delta
      BY <1>4, <2>1, DeltaWith
    <2>3. Extra(run, diffs, e) \in Int
      BY ExtraType
    <2>4. /\ Single(run, diffs, e) = DeltaSum(Since(diffs, e)) - Extra(run, diffs, e)
          /\ Single(run', diffs', e) = DeltaSum(Since(diffs, e) \union {d}) - Extra(run, diffs, e)
      BY <1>2, <2>1 DEF Single
    <2>5. QED
      BY <1>4, <2>2, <2>3, <2>4
  <1>6. ASSUME ~(e <= d.at) PROVE Single(run', diffs', e) = Single(run, diffs, e)
    BY <1>2, <1>6 DEF Single, Since
  <1>7. QED
    BY <1>3, <1>5, <1>6

(* Once each, and nothing is a duplicate.                                  *)
LEMMA OnceEachKeepsAll ==
    ASSUME DiffsInv, OnceEach
    PROVE  removed = {} /\ dedupe.left = {}
  <1>1. logged \subseteq Diff
    BY DEF DiffsInv, DiffsTyped
  <1>2. \A d \in logged : ~HasEarlier(d)
    BY <1>1 DEF OnceEach, HasEarlier, Diff
  <1>3. QED
    BY <1>2 DEF DiffsInv, Removals

LEMMA RunReads ==
    ASSUME RunsRead, run \in [Runs -> Pass], NEW c, c \in Runs, NEW r, Go(c, r), r.pc # "idle",
           \A d \in r.read : r.from <= d.at /\ d.at < r.to,
           \A s \in r.sum : (\E d \in r.read : s.at = d.at) /\ \A d \in r.read : d.at <= s.at
    PROVE  RunsRead'
  <1>1. run'[c] = r /\ \A o \in Runs : o # c => run'[o] = run[o]
    BY DEF Go
  <1>2. QED
    BY <1>1 DEF RunsRead

LEMMA RunsReadKeeps ==
    ASSUME DiffsInv, SnapshotsInv, RunsRead, Compaction
    PROVE  RunsRead'
  <1>1. run \in [Runs -> Pass]
    BY DEF DiffsInv, DiffsTyped
  <1>2. PICK c \in Runs :
             \/ \E mode \in Mode : StartCompaction(c, mode)
             \/ ReadPage(c) \/ SumStep(c) \/ WriteStep(c)
    BY CompactionIs
  <1>3. /\ run[c] \in Pass /\ Passes(run[c])
        /\ run[c].pc = "idle" => run[c].read = {}
        /\ \A d \in run[c].read : run[c].from <= d.at /\ d.at < run[c].to
        /\ \A s \in run[c].sum : (\E d \in run[c].read : s.at = d.at) /\ \A d \in run[c].read : d.at <= s.at
    BY <1>1 DEF RunsRead, DiffsInv
  <1>4. ASSUME NEW mode \in Mode, StartCompaction(c, mode) PROVE RunsRead'
    <2>1. PICK r \in Pass : Go(c, r) /\ r.pc = "read" /\ r.read = run[c].read /\ r.sum = run[c].sum
      BY <1>4, StartIs
    <2>2. run[c].pc = "idle"
      BY <1>4 DEF StartCompaction
    <2>3. r.read = {} /\ r.sum = {}
      BY <1>3, <2>1, <2>2 DEF Passes
    <2>4. QED
      BY <1>1, <2>1, <2>3, RunReads
  <1>5. CASE ReadPage(c)
    <2>1. PICK page \in SUBSET Between(run[c].from, run[c].to) : \E r \in Pass :
             /\ Becomes(c, r, run[c].read \union page, run[c].sum)
             /\ r.pc \in {"read", "done", "sum"}
      BY <1>5, ReadIs
    <2>2. PICK r \in Pass :
             /\ Becomes(c, r, run[c].read \union page, run[c].sum)
             /\ r.pc \in {"read", "done", "sum"}
      BY <2>1
    <2>3. /\ r.read = run[c].read \union page /\ r.sum = run[c].sum /\ Go(c, r)
          /\ r.from = run[c].from /\ r.to = run[c].to
      BY <2>2 DEF Becomes
    <2>4. run[c].pc = "read"
      BY <1>5 DEF ReadPage
    <2>5. r.sum = {}
      BY <1>3, <2>3, <2>4 DEF Passes
    <2>6. \A d \in r.read : r.from <= d.at /\ d.at < r.to
      BY <1>3, <2>3 DEF Between
    <2>7. r.pc # "idle"
      BY <2>2
    <2>8. QED
      BY <1>1, <2>3, <2>5, <2>6, <2>7, RunReads
  <1>6. CASE SumStep(c)
    <2>1. PICK s \in Diff : \E r \in Pass :
             /\ s = Summation(c) /\ Becomes(c, r, run[c].read, {s})
             /\ r.pc \in {"archive", "stopped"} /\ run[c].pc = "sum"
      BY <1>6, SumStepIs
    <2>2. PICK r \in Pass :
             /\ s = Summation(c) /\ Becomes(c, r, run[c].read, {s})
             /\ r.pc \in {"archive", "stopped"} /\ run[c].pc = "sum"
      BY <2>1
    <2>3. (\E d \in run[c].read : s.at = d.at) /\ \A d \in run[c].read : d.at <= s.at
      BY <2>2, SummationIs
    <2>4. Go(c, r) /\ r.sum = {s} /\ r.read = run[c].read /\ r.from = run[c].from /\ r.to = run[c].to
      BY <2>2 DEF Becomes
    <2>5. r.pc # "idle"
      BY <2>2
    <2>6. QED
      BY <1>1, <1>3, <2>3, <2>4, <2>5, RunReads
  <1>7. CASE WriteStep(c)
    <2>1. PICK part \in SUBSET Diff : \E r \in Pass : Writes(c, r, part)
      BY <1>7, WriteStepIs
    <2>2. PICK r \in Pass : Writes(c, r, part)
      BY <2>1
    <2>3. /\ Go(c, r) /\ r.sum = run[c].sum /\ r.read = run[c].read
          /\ r.from = run[c].from /\ r.to = run[c].to /\ r.pc \in {"archive", "delete", "done", "stopped"}
      BY <2>2 DEF Writes, Becomes
    <2>4. r.pc # "idle"
      BY <2>3
    <2>5. QED
      BY <1>1, <1>3, <2>3, <2>4, RunReads
  <1>8. QED
    BY <1>2, <1>4, <1>5, <1>6, <1>7

-----------------------------------------------------------------------------
LEMMA SizesWith ==
    ASSUME NEW bs, bs \in SUBSET Blob, NEW b, b \in Blob, b \notin bs
    PROVE  /\ SizesOf(bs) \in Int /\ Size[b] \in Nat \ {0}
           /\ SizesOf(bs \union {b}) = SizesOf(bs) + Size[b]
  <1> DEFINE f == [x \in bs |-> Size[x]]
             more == bs \union {b}
             g == [x \in more |-> Size[x]]
  <1>1. \A x \in Blob : Size[x] \in Int
    BY ToolsAssumption
  <1>2. f \in [bs -> Int] /\ g \in [bs \union {b} -> Int] /\ g[b] = Size[b] /\ \A x \in bs : g[x] = f[x]
    BY <1>1
  <1>3. IsFiniteSet(bs)
    BY FS_Subset, ToolsAssumption
  <1>4. SizesOf(bs) = SumFunction(f) /\ SizesOf(bs \union {b}) = SumFunction(g)
    BY DEF SizesOf
  <1> HIDE DEF f, g
  <1>5. SumFunction(g) = SumFunction(f) + g[b]
    BY <1>2, <1>3, TotalWith
  <1>6. SumFunction(f) \in Int
    BY <1>2, <1>3, TotalType
  <1>7. QED
    BY <1>2, <1>4, <1>5, <1>6, ToolsAssumption

(* A change that is not a second one of its cause.                         *)
LEMMA ChangeTells ==
    ASSUME DiffsInv, AllocatedTyped, AllocationsTell, NEW d, d \in Diff, ClientPuts(d)
    PROVE  AllocationsTell'
  <1>1. logged \subseteq Diff /\ IsFiniteSet(logged) /\ now \in Nat /\ \A o \in logged : o.at <= now
    BY DEF DiffsInv, DiffsTyped
  <1>2. /\ d \notin logged /\ d.at = now /\ logged' = logged \union {d} /\ now' = now
        /\ \/ \E b \in Blob : /\ allocated[b] = None /\ d.delta = Size[b]
                              /\ allocated' = [allocated EXCEPT ![b] = now]
           \/ \E b \in Blob : /\ allocated[b] # None /\ d.delta = -Size[b]
                              /\ allocated' = [allocated EXCEPT ![b] = None]
           \/ allocated' = allocated /\ \E o \in logged : o.cause = d.cause
    BY DEF ClientPuts
  <1>3. \A b \in Blob : allocated'[b] # None => \E o \in logged' : o.at = allocated'[b]
    BY <1>2 DEF AllocationsTell, AllocatedTyped
  <1>4. ASSUME OnceEach', NEW e \in Nat, \A o \in Since(logged', e) : o.delta >= 0
        PROVE  DeltaSum(logged' \ Since(logged', e)) = SizesOf(AllocatedBefore(e)')
    <2>1. OnceEach
      BY <1>2, <1>4 DEF OnceEach
    <2>2. \A o \in Since(logged, e) : o.delta >= 0
      BY <1>2, <1>4 DEF Since
    <2> DEFINE before == logged \ Since(logged, e)
    <2>3. DeltaSum(before) = SizesOf(AllocatedBefore(e))
      BY <2>1, <2>2 DEF AllocationsTell
    <2>4. ~(allocated' = allocated /\ \E o \in logged : o.cause = d.cause)
      BY <1>2, <1>4 DEF OnceEach
    <2>5. Summable(before) /\ d.delta \in Int /\ d.at \in Nat /\ DeltaSum(before) \in Int
      <3>1. Summable(logged) /\ d.delta \in Int /\ d.at \in Nat
        BY <1>1 DEF Summable, Diff
      <3>2. QED
        BY <3>1, SummablePart, DeltaType
    <2>6. CASE e <= now
      <3>1. logged' \ Since(logged', e) = before
        BY <1>2, <2>6 DEF Since
      <3>2. d.delta >= 0
        BY <1>2, <1>4, <2>6 DEF Since
      <3>3. PICK b \in Blob : allocated[b] = None /\ allocated' = [allocated EXCEPT ![b] = now]
        BY <1>2, <2>4, <3>2, ToolsAssumption
      <3>4. AllocatedBefore(e)' = AllocatedBefore(e)
        BY <1>1, <2>6, <3>3 DEF AllocatedBefore, AllocatedTyped
      <3>5. QED
        BY <2>3, <3>1, <3>4
    <2>7. CASE ~(e <= now)
      <3>1. logged' \ Since(logged', e) = before \union {d} /\ d \notin before
        BY <1>2, <2>7 DEF Since
      <3> HIDE DEF before
      <3>2. DeltaSum(logged' \ Since(logged', e)) = DeltaSum(before) + d.delta
        BY <2>5, <3>1, DeltaWith
      <3>3. CASE \E b \in Blob : /\ allocated[b] = None /\ d.delta = Size[b]
                                 /\ allocated' = [allocated EXCEPT ![b] = now]
        <4>1. PICK b \in Blob : /\ allocated[b] = None /\ d.delta = Size[b]
                                /\ allocated' = [allocated EXCEPT ![b] = now]
          BY <3>3
        <4>2. AllocatedBefore(e)' = AllocatedBefore(e) \union {b} /\ b \notin AllocatedBefore(e) /\ AllocatedBefore(e) \subseteq Blob
          BY <1>1, <2>7, <4>1 DEF AllocatedBefore, AllocatedTyped, None
        <4>3. SizesOf(AllocatedBefore(e) \union {b}) = SizesOf(AllocatedBefore(e)) + Size[b]
          BY <4>2, SizesWith
        <4>4. QED
          BY <2>3, <3>2, <4>1, <4>2, <4>3
      <3>4. CASE \E b \in Blob : /\ allocated[b] # None /\ d.delta = -Size[b]
                                 /\ allocated' = [allocated EXCEPT ![b] = None]
        <4>1. PICK b \in Blob : /\ allocated[b] # None /\ d.delta = -Size[b]
                                /\ allocated' = [allocated EXCEPT ![b] = None]
          BY <3>4
        <4>2. allocated[b] <= now /\ allocated[b] \in Nat
          BY <1>1, <4>1 DEF AllocationsTell, AllocatedTyped
        <4>3. /\ AllocatedBefore(e) = AllocatedBefore(e)' \union {b} /\ b \notin AllocatedBefore(e)' /\ AllocatedBefore(e)' \subseteq Blob
          BY <1>1, <2>7, <4>1, <4>2 DEF AllocatedBefore, AllocatedTyped
        <4>4. PICK rest : rest = AllocatedBefore(e)'
          OBVIOUS
        <4>5. SizesOf(rest) \in Int /\ Size[b] \in Int /\ SizesOf(rest \union {b}) = SizesOf(rest) + Size[b]
          <5>1. rest \in SUBSET Blob /\ b \notin rest
            BY <4>3, <4>4
          <5>2. QED
            BY <5>1, SizesWith
        <4>6. AllocatedBefore(e) = rest \union {b}
          BY <4>3, <4>4
        <4>7. SizesOf(AllocatedBefore(e)) = SizesOf(rest) + Size[b]
          BY <4>5, <4>6
        <4>8. DeltaSum(logged' \ Since(logged', e)) = SizesOf(rest)
          BY <2>3, <3>2, <4>1, <4>5, <4>7
        <4>9. QED
          BY <4>4, <4>8
      <3>5. QED
        BY <1>2, <2>4, <3>3, <3>4
    <2>8. QED
      BY <2>6, <2>7
  <1>5. QED
    BY <1>3, <1>4 DEF AllocationsTell

\* What holds of the sums, when billing and the tools are run in turn.
Tidy == InTurn /\ Balanced /\ ChangesSince

LEMMA LoggedSummable ==
    ASSUME DiffsInv
    PROVE  Summable(logged) /\ Summable(logged \ removed) /\ DeltaSum(logged \ removed) \in Int
  <1>1. Summable(logged)
    BY DEF DiffsInv, DiffsTyped, Summable, Diff
  <1>2. QED
    BY <1>1, SummablePart, DeltaType

LEMMA TidyStays ==
    ASSUME Tidy, UNCHANGED <<diffs, snapshots, run, logged, removed>>
    PROVE  Tidy'
  BY DEF Tidy, InTurn, Balanced, ChangesSince, UnderWay, OnceEach, NotBetween

LEMMA ClientStaysTidy ==
    ASSUME DiffsInv, SnapshotsInv, Tidy, NEW d, d \in Diff, ClientPuts(d), ~clash'
    PROVE  Tidy'
  <1>1. /\ d \notin logged /\ d.at = now /\ diffs' = diffs \union {d} /\ logged' = logged \union {d}
        /\ UNCHANGED <<now, snapshots, run, removed>> /\ \A s \in DiffSums : s.cause # d.cause
    BY DEF ClientPuts
  <1>2. d \notin DiffSums
    BY <1>1
  <1>3. d \notin diffs /\ (\A c \in Runs : d \notin run[c].read) /\ d \notin removed
    BY <1>1, <1>2 DEF DiffsInv, CausesApart, Removals
  <1>4. InTurn /\ Balanced /\ ChangesSince /\ d.delta \in Int /\ d.at \in Nat
    BY DEF Tidy, Diff
  <1>5. \A e \in Nat :
          /\ Single(run, diffs, e) \in Int
          /\ e <= d.at => Single(run', diffs', e) = Single(run, diffs, e) + d.delta
          /\ ~(e <= d.at) => Single(run', diffs', e) = Single(run, diffs, e)
    BY <1>1, <1>3, <1>4, DiffCounts
  <1>6. InTurn'
    <2>1. \A c \in Runs : run[c].read \intersect diffs' = run[c].read \intersect diffs
      BY <1>1, <1>3
    <2>2. \A c \in Runs : UnderWay(c)' <=> UnderWay(c)
      BY <1>1 DEF UnderWay
    <2>3. \A c \in Runs : run[c].pc \in {"read", "sum"} /\ UnderWay(c) => run[c].read \subseteq diffs'
      BY <1>1, <1>4 DEF InTurn
    <2>4. QED
      BY <1>1, <1>4, <2>1, <2>2, <2>3 DEF InTurn
  <1>7. Balanced'
    <2>1. SUFFICES ASSUME NEW s \in snapshots
                   PROVE  s.size + Single(run', diffs', s.at) = DeltaSum(logged' \ removed')
      BY <1>1 DEF Balanced
    <2>2. s.size + Single(run, diffs, s.at) = DeltaSum(logged \ removed)
      BY <1>4, <2>1 DEF Balanced
    <2>3. s.at \in Nat /\ s.size \in Int /\ s.at <= d.at
      <3>1. ~(now < s.at)
        <4>1. clash' = (clash \/ \E o \in snapshots : now < o.at)
          BY DEF ClientPuts
        <4>2. QED
          BY <4>1
      <3>2. now \in Nat
        BY DEF DiffsInv, DiffsTyped
      <3>3. QED
        BY <1>1, <3>1, <3>2 DEF SnapshotsInv
    <2>4. logged' \ removed' = (logged \ removed) \union {d} /\ d \notin logged \ removed
      BY <1>1, <1>3
    <2>5. DeltaSum((logged \ removed) \union {d}) = DeltaSum(logged \ removed) + d.delta
      BY <1>4, <2>4, LoggedSummable, DeltaWith
    <2>6. Single(run', diffs', s.at) = Single(run, diffs, s.at) + d.delta /\ Single(run, diffs, s.at) \in Int
      BY <1>5, <2>3
    <2>7. DeltaSum(logged' \ removed') = DeltaSum(logged \ removed) + d.delta
      BY <2>4, <2>5
    <2>8. QED
      BY <1>4, <2>2, <2>3, <2>6, <2>7
  <1>8. ChangesSince'
    <2>1. SUFFICES ASSUME OnceEach', NEW e \in Nat, NotBetween(e)'
                   PROVE  Single(run', diffs', e) = DeltaSum(Since(logged', e))
      BY DEF ChangesSince
    <2>2. OnceEach /\ NotBetween(e)
      BY <1>1, <2>1 DEF OnceEach, NotBetween
    <2>3. Single(run, diffs, e) = DeltaSum(Since(logged, e))
      BY <1>4, <2>2 DEF ChangesSince
    <2>4. Summable(Since(logged, e)) /\ DeltaSum(Since(logged, e)) \in Int
      BY LoggedSummable, SinceSummable
    <2>5. CASE e <= d.at
      <3>1. Since(logged', e) = Since(logged, e) \union {d} /\ d \notin Since(logged, e)
        BY <1>1, <2>5 DEF Since
      <3>2. DeltaSum(Since(logged, e) \union {d}) = DeltaSum(Since(logged, e)) + d.delta
        BY <1>4, <2>4, <3>1, DeltaWith
      <3>3. DeltaSum(Since(logged', e)) = DeltaSum(Since(logged, e)) + d.delta
        BY <3>1, <3>2
      <3>4. QED
        BY <1>5, <2>3, <2>5, <3>3
    <2>6. CASE ~(e <= d.at)
      <3>1. Since(logged', e) = Since(logged, e)
        BY <1>1, <2>6 DEF Since
      <3>2. QED
        BY <1>5, <2>3, <2>6, <3>1
    <2>7. QED
      BY <2>5, <2>6
  <1>9. QED
    BY <1>6, <1>7, <1>8 DEF Tidy

(* Duplicates that no snapshot has yet are taken out, and no run is under  *)
(* way.                                                                    *)
LEMMA RemovalStaysTidy ==
    ASSUME DiffsInv, SnapshotsInv, Tidy, NEW gone, gone \subseteq dedupe.left,
           diffs' = diffs \ gone, removed' = removed \union (gone \intersect diffs),
           UNCHANGED <<snapshots, run, logged>>,
           \A c \in Runs : ~UnderWay(c),
           \A d \in gone : ~(d.at < Newest(Never).at)
    PROVE  Tidy'
  <1>1. Summable(diffs) /\ Summable(diffs')
    BY DiffsSummable, SummablePart
  <1>2. \A c \in Runs : ~UnderWay(c)'
    BY DEF UnderWay
  <1>3. InTurn'
    BY <1>2 DEF InTurn
  <1>4. \A e : /\ Single(run, diffs, e) = DeltaSum(Since(diffs, e))
               /\ Single(run', diffs', e) = DeltaSum(Since(diffs', e))
    BY <1>1, NoneUnderWay
  <1>5. Balanced'
    <2>1. SUFFICES ASSUME NEW s \in snapshots
                   PROVE  s.size + Single(run', diffs', s.at) = DeltaSum(logged' \ removed')
      BY DEF Balanced
    <2>2. s.size + DeltaSum(Since(diffs, s.at)) = DeltaSum(logged \ removed)
      BY <1>4, <2>1 DEF Tidy, Balanced
    <2>3. /\ s.at \in Nat /\ s.size \in Int
          /\ Newest(Never).at \in Nat /\ s.at <= Newest(Never).at
      BY NewestOfAll DEF SnapshotsInv
    <2> DEFINE out == gone \intersect diffs
               A == Since(diffs, s.at)
               B == logged \ removed
    <2>4. Since(diffs', s.at) = A \ out
      BY DEF Since
    <2>5. logged' \ removed' = B \ out
      OBVIOUS
    <2>6. \A d \in diffs : d.at \in Nat
      BY DEF DiffsInv, DiffsTyped, Diff
    <2>7. A \intersect out = out
      BY <2>3, <2>6 DEF Since
    <2>8. B \intersect out = out
      BY DEF DiffsInv, Removals
    <2>9. Summable(A) /\ Summable(B)
      BY <1>1, SinceSummable, LoggedSummable
    <2>10. DeltaSum(A) = DeltaSum(out) + DeltaSum(A \ out) /\ DeltaSum(A \ out) \in Int /\ DeltaSum(out) \in Int
      <3> HIDE DEF A, B, out
      <3>1. QED
        BY <2>7, <2>9, DeltaSplit
    <2>11. DeltaSum(B) = DeltaSum(out) + DeltaSum(B \ out) /\ DeltaSum(B \ out) \in Int
      <3> HIDE DEF A, B, out
      <3>1. QED
        BY <2>8, <2>9, DeltaSplit
    <2>12. Single(run', diffs', s.at) = DeltaSum(A \ out) /\ DeltaSum(logged' \ removed') = DeltaSum(B \ out)
      BY <1>4, <2>4, <2>5
    <2> HIDE DEF A, B, out
    <2>13. s.size + DeltaSum(A) = DeltaSum(B)
      BY <2>2 DEF A, B
    <2>14. QED
      BY <2>3, <2>10, <2>11, <2>12, <2>13
  <1>6. ChangesSince'
    <2>1. SUFFICES ASSUME OnceEach', NEW e \in Nat, NotBetween(e)'
                   PROVE  Single(run', diffs', e) = DeltaSum(Since(logged', e))
      BY DEF ChangesSince
    <2>2. OnceEach /\ NotBetween(e)
      BY <2>1 DEF OnceEach, NotBetween
    <2>3. Single(run, diffs, e) = DeltaSum(Since(logged, e))
      BY <2>2 DEF Tidy, ChangesSince
    <2>4. diffs' = diffs
      BY <2>2, OnceEachKeepsAll
    <2>5. QED
      BY <2>3, <2>4
  <1>7. QED
    BY <1>3, <1>5, <1>6 DEF Tidy

LEMMA DayStarts ==
    ASSUME NEW n, n \in Nat, NEW k, k \in Nat \ {0}
    PROVE  n - (n % k) \in Nat
  <1>1. n - (n % k) = k * (n \div k) /\ n \div k \in Nat
    OBVIOUS
  <1>2. QED
    BY <1>1

-----------------------------------------------------------------------------
(* What is there with no run under way, when only snapshots change.        *)
LEMMA SnapshotsStayTidy ==
    ASSUME DiffsInv, Tidy, UNCHANGED <<diffs, run, logged, removed>>, \A c \in Runs : ~UnderWay(c),
           Balanced'
    PROVE  Tidy'
  <1>1. \A c \in Runs : ~UnderWay(c)'
    BY DEF UnderWay
  <1>2. InTurn'
    BY <1>1 DEF InTurn
  <1>3. ChangesSince'
    BY DEF Tidy, ChangesSince, OnceEach, NotBetween
  <1>4. QED
    BY <1>2, <1>3 DEF Tidy

(* A snapshot is put that balances, with no run under way.                 *)
LEMMA PutStaysTidy ==
    ASSUME DiffsInv, Tidy, UNCHANGED <<diffs, run, logged, removed>>, \A c \in Runs : ~UnderWay(c),
           NEW e, NEW size, PutSnapshot(e, size),
           size + DeltaSum(Since(diffs, e)) = DeltaSum(logged \ removed)
    PROVE  Tidy'
  <1>1. \A at : Single(run', diffs', at) = DeltaSum(Since(diffs, at))
    BY DiffsSummable, NoneUnderWay
  <1>2. \A at : Single(run, diffs, at) = DeltaSum(Since(diffs, at))
    BY DiffsSummable, NoneUnderWay
  <1>3. ASSUME NEW s \in snapshots'
        PROVE  s.size + Single(run', diffs', s.at) = DeltaSum(logged' \ removed')
    <2>1. CASE s \in snapshots
      BY <1>1, <1>2, <2>1 DEF Tidy, Balanced
    <2>2. CASE s = [at |-> e, size |-> size]
      BY <1>1, <2>2
    <2>3. QED
      BY <1>3, <2>1, <2>2 DEF PutSnapshot
  <1>4. QED
    BY <1>3, SnapshotsStayTidy DEF Balanced

(* A snapshot and the diffs between it and a later instant balance at it.  *)
LEMMA BillStaysTidy ==
    ASSUME DiffsInv, SnapshotsInv, Tidy, NEW e, e \in Nat, Bill(e), \A c \in Runs : ~UnderWay(c)
    PROVE  Tidy'
  <1>1. /\ PutSnapshot(e, SizeFrom(e - DayLength, e))
        /\ UNCHANGED <<diffs, run, logged, removed>>
    BY DEF Bill
  <1>2. DayLength \in Nat \ {0} /\ e - DayLength \in Nat
    BY ToolsAssumption DEF Bill
  <1>3. PICK t \in snapshots : t = Newest(e - DayLength) /\ t.at <= e - DayLength
    BY <1>2, NewestIs
  <1>4. t.at \in Nat /\ t.size \in Int /\ t.at < e
    BY <1>2, <1>3 DEF SnapshotsInv
  <1>5. SizeFrom(e - DayLength, e) = t.size + DeltaSum(Between(t.at, e))
    BY <1>3 DEF SizeFrom
  <1> DEFINE A == Since(diffs, t.at)
             B == Since(diffs, e)
  <1>6. t.size + DeltaSum(A) = DeltaSum(logged \ removed)
    BY DiffsSummable, NoneUnderWay DEF Tidy, Balanced
  <1>7. \A d \in diffs : d.at \in Nat
    BY DEF DiffsInv, DiffsTyped, Diff
  <1>8. A \intersect B = B
    BY <1>4, <1>7 DEF Since
  <1>9. A \ B = Between(t.at, e)
    BY <1>4, <1>7 DEF Since, Between
  <1>10. Summable(A)
    BY DiffsSummable, SinceSummable
  <1> HIDE DEF A, B
  <1>11. /\ DeltaSum(A \ B) \in Int /\ DeltaSum(A \intersect B) \in Int
         /\ DeltaSum(A) = DeltaSum(A \intersect B) + DeltaSum(A \ B)
    BY <1>10, DeltaSplit
  <1>12. DeltaSum(A) = DeltaSum(B) + DeltaSum(A \ B) /\ DeltaSum(B) \in Int
    BY <1>8, <1>11
  <1>13. SizeFrom(e - DayLength, e) + DeltaSum(B) = DeltaSum(logged \ removed)
    <2>1. SizeFrom(e - DayLength, e) = t.size + DeltaSum(A \ B)
      BY <1>5, <1>9
    <2>2. t.size + (DeltaSum(B) + DeltaSum(A \ B)) = DeltaSum(logged \ removed)
      BY <1>6, <1>12
    <2>3. QED
      BY <1>4, <1>11, <1>12, <2>1, <2>2
  <1>14. QED
    BY <1>1, <1>13, PutStaysTidy DEF B

(* A file tells what was allocated when it was computed.                   *)
LEMMA ComputeTells ==
    ASSUME DiffsInv, AllocatedTyped, AllocationsTell, NEW e \in 0..EndOfTime, ComputeSnapshot(e)
    PROVE  FileTells'
  <1>1. /\ file' = {[at |-> e, size |-> AllocatedSize(e), changes |-> logged]}
        /\ UNCHANGED <<allocated, logged>>
    BY DEF ComputeSnapshot, spaceTables
  <1>2. e \in Nat /\ \A d \in logged : d.at \in Nat
    BY ToolsAssumption DEF DiffsInv, DiffsTyped, Diff
  <1>3. ASSUME OnceEach, \A d \in logged : d.at # e /\ (d.at > e => d.delta >= 0)
        PROVE  AllocatedSize(e) = DeltaSum(logged \ Since(logged, e))
    <2>1. \A d \in Since(logged, e) : d.delta >= 0
      BY <1>2, <1>3 DEF Since
    <2>2. AllocatedUntil(e) = AllocatedBefore(e)
      BY <1>3 DEF AllocatedUntil, AllocatedBefore, AllocatedTyped, AllocationsTell, None
    <2>3. AllocatedSize(e) = SizesOf(AllocatedBefore(e))
      BY <2>2 DEF AllocatedSize, SizesOf
    <2>4. QED
      BY <1>2, <1>3, <2>1, <2>3 DEF AllocationsTell
  <1>4. OnceEach' <=> OnceEach
    BY <1>1 DEF OnceEach
  <1>5. SUFFICES ASSUME NEW f \in file'
                 PROVE  /\ f.changes \subseteq logged
                        /\ OnceEach /\ (\A d \in f.changes : d.at # f.at /\ (d.at > f.at => d.delta >= 0)) =>
                             f.size = DeltaSum(f.changes \ Since(f.changes, f.at))
    BY <1>1, <1>4 DEF FileTells
  <1>6. f.at = e /\ f.size = AllocatedSize(e) /\ f.changes = logged
    BY <1>1
  <1>7. QED
    BY <1>3, <1>6

(* And goes on telling it.                                                 *)
LEMMA FileStays ==
    ASSUME FileTells, file' = file, logged \subseteq logged'
    PROVE  FileTells'
  <1>1. OnceEach' => OnceEach
    BY DEF OnceEach
  <1>2. QED
    BY <1>1 DEF FileTells

LEMMA UpsertStaysTidy ==
    ASSUME DiffsInv, SnapshotsInv, FileTells, Tidy, NEW f \in file,
           UpsertSnapshot(f), ~Untold(f), \A c \in Runs : ~UnderWay(c)
    PROVE  Tidy'
  <1>1. PutSnapshot(f.at, f.size) /\ UNCHANGED <<diffs, run, logged, removed>>
    BY DEF UpsertSnapshot
  <1>2. f.at \in Nat /\ \A d \in logged : d.at \in Nat
    BY ToolsAssumption DEF SnapshotsInv, DiffsInv, DiffsTyped, Diff
  <1>3. OnceEach
    BY DEF Untold, OnceEach
  <1>4. NotBetween(f.at)
    <2>1. \A c \in Runs : \A d \in run[c].read, s \in run[c].sum : d.at \in Nat
      BY DEF DiffsInv, DiffsTyped, Pass, Diff
    <2>2. QED
      BY <1>2, <2>1 DEF Untold, NotBetween
  <1>5. f.size = DeltaSum(f.changes \ Since(f.changes, f.at))
    <2>1. \A d \in f.changes : d \in logged /\ d.delta \in Int
      BY DEF FileTells, DiffsInv, DiffsTyped, Diff
    <2>2. \A d \in f.changes : d.at # f.at /\ (d.at > f.at => d.delta >= 0)
      BY <2>1 DEF Untold
    <2>3. QED
      BY <1>3, <2>2 DEF FileTells
  <1>6. f.changes \ Since(f.changes, f.at) = logged \ Since(logged, f.at)
    <2>1. f.changes \subseteq logged
      BY DEF FileTells
    <2>2. \A d \in logged : d.at < f.at => d \in f.changes
      BY DEF Untold
    <2>3. QED
      BY <1>2, <2>1, <2>2 DEF Since
  <1>7. DeltaSum(Since(diffs, f.at)) = DeltaSum(Since(logged, f.at))
    <2>1. Single(run, diffs, f.at) = DeltaSum(Since(logged, f.at))
      BY <1>2, <1>3, <1>4 DEF Tidy, ChangesSince
    <2>2. QED
      BY <2>1, DiffsSummable, NoneUnderWay
  <1>8. removed = {}
    BY <1>3, OnceEachKeepsAll
  <1> DEFINE B == Since(logged, f.at)
  <1>9. logged \intersect B = B /\ logged \ removed = logged
    BY <1>8 DEF Since
  <1> HIDE DEF B
  <1>10. /\ DeltaSum(logged \intersect B) \in Int /\ DeltaSum(logged \ B) \in Int
         /\ DeltaSum(logged) = DeltaSum(logged \intersect B) + DeltaSum(logged \ B)
    BY LoggedSummable, DeltaSplit
  <1>11. DeltaSum(logged) = DeltaSum(B) + DeltaSum(logged \ B) /\ DeltaSum(B) \in Int
    BY <1>9, <1>10
  <1>12. f.size = DeltaSum(logged \ B) /\ DeltaSum(Since(diffs, f.at)) = DeltaSum(B)
    BY <1>5, <1>6, <1>7 DEF B
  <1>13. DeltaSum(logged \ removed) = DeltaSum(logged)
    BY <1>9
  <1>14. f.size + DeltaSum(Since(diffs, f.at)) = DeltaSum(logged \ removed)
    BY <1>10, <1>11, <1>12, <1>13
  <1>15. QED
    BY <1>1, <1>14, PutStaysTidy

LEMMA RunStaysInTurn ==
    ASSUME NEW c, c \in Runs, Alone(c), NEW r, Go(c, r), run \in [Runs -> Pass], snapshots' = snapshots,
           \A s \in snapshots : s.at <= r.from \/ r.to <= s.at,
           r.pc \in {"read", "sum"} => r.read \subseteq diffs',
           r.pc = "delete" => r.read \intersect diffs' \subseteq r.left
    PROVE  InTurn'
  <1>1. run'[c] = r /\ \A o \in Runs : o # c => run'[o] = run[o]
    BY DEF Go
  <1>2. \A o \in Runs : UnderWay(o)' => o = c
    BY <1>1 DEF UnderWay, Alone
  <1>3. QED
    BY <1>1, <1>2 DEF InTurn

LEMMA StepStaysTidy ==
    ASSUME Tidy, SnapshotsInv, UNCHANGED <<snapshots, logged, removed>>, InTurn',
           \A s \in snapshots : Single(run', diffs', s.at) = Single(run, diffs, s.at),
           \A e \in Nat : NotBetween(e)' =>
               NotBetween(e) /\ Single(run', diffs', e) = Single(run, diffs, e)
    PROVE  Tidy'
  <1>1. Balanced'
    BY DEF Tidy, Balanced
  <1>2. ChangesSince'
    <2>1. SUFFICES ASSUME OnceEach', NEW e \in Nat, NotBetween(e)'
                   PROVE  Single(run', diffs', e) = DeltaSum(Since(logged', e))
      BY DEF ChangesSince
    <2>2. OnceEach /\ NotBetween(e) /\ Single(run', diffs', e) = Single(run, diffs, e)
      BY <2>1 DEF OnceEach
    <2>3. QED
      BY <2>2 DEF Tidy, ChangesSince
  <1>3. QED
    BY <1>1, <1>2 DEF Tidy

\* No sum of a run is after an instant of what is before it.
ApartOf(read, sum, e) == \A d \in read, s \in sum : e <= s.at => e <= d.at

(* What a run reads is before a snapshot, or is after it.                  *)
LEMMA SnapshotApart ==
    ASSUME DiffsInv, SnapshotsInv, RunsRead, InTurn, NEW c, c \in Runs, UnderWay(c), NEW s, s \in snapshots,
           NEW sum, \A x \in sum : \E d \in run[c].read : x.at = d.at
    PROVE  ApartOf(run[c].read, sum, s.at)
  <1>1. run[c].read \subseteq Diff /\ \A d \in run[c].read : run[c].from <= d.at /\ d.at < run[c].to
    BY DEF DiffsInv, DiffsTyped, Pass, RunsRead
  <1>2. s.at <= run[c].from \/ run[c].to <= s.at
    BY DEF InTurn
  <1>3. s.at \in Nat /\ run[c].from \in Nat /\ run[c].to \in Nat /\ \A d \in run[c].read : d.at \in Nat
    BY <1>1 DEF SnapshotsInv, Diff, DiffsInv, DiffsTyped, Pass
  <1>4. QED
    BY <1>1, <1>2, <1>3 DEF ApartOf

LEMMA ApartBefore ==
    ASSUME NEW c, c \in Runs, NEW r, Go(c, r), run \in [Runs -> Pass],
           run[c].sum = {} \/ (r.read = run[c].read /\ r.sum = run[c].sum),
           NEW e, NotBetween(e)'
    PROVE  NotBetween(e) /\ ApartOf(r.read, r.sum, e)
  <1>1. run'[c] = r /\ \A o \in Runs : o # c => run'[o] = run[o]
    BY DEF Go
  <1>2. QED
    BY <1>1 DEF NotBetween, ApartOf

LEMMA CompactionStaysTidy ==
    ASSUME DiffsInv, SnapshotsInv, RunsRead, Tidy, Compaction,
           ~clash'
    PROVE  Tidy'
  <1>1. run \in [Runs -> Pass] /\ InTurn
    BY DEF DiffsInv, DiffsTyped, Tidy
  <1>2. PICK c \in Runs :
             \/ \E mode \in Mode : StartCompaction(c, mode)
             \/ ReadPage(c) \/ SumStep(c) \/ WriteStep(c)
    BY CompactionIs
  <1>3. run[c] \in Pass /\ Passes(run[c])
    BY <1>1 DEF DiffsInv
  <1>4. ASSUME UnderWay(c) PROVE
            /\ Alone(c)
            /\ \A s \in snapshots : s.at <= run[c].from \/ run[c].to <= s.at
            /\ run[c].pc \in {"read", "sum"} => run[c].read \subseteq diffs
            /\ run[c].pc = "delete" => run[c].read \intersect diffs \subseteq run[c].left
    BY <1>1, <1>4 DEF InTurn, Alone
  <1>5. ASSUME NEW mode \in Mode, StartCompaction(c, mode) PROVE Tidy'
    <2>1. PICK r \in Pass :
             /\ Go(c, r) /\ r.pc = "read" /\ r.read = run[c].read /\ r.sum = run[c].sum
             /\ \A s \in snapshots : s.at <= r.from \/ r.to <= s.at
      BY <1>5, StartIs
    <2>2. /\ run[c].pc = "idle" /\ UNCHANGED <<diffs, snapshots, logged, removed>>
          /\ clash' = (clash \/ \E o \in Runs : UnderWay(o))
      BY <1>5 DEF StartCompaction, spaceTables, Clashes
    <2>3. Alone(c)
      BY <2>2 DEF Alone
    <2>4. r.read = {} /\ r.sum = {} /\ run[c].sum = {}
      BY <1>3, <2>1, <2>2 DEF Passes, RunsRead
    <2>6. InTurn'
      BY <1>1, <2>1, <2>2, <2>3, <2>4, RunStaysInTurn
    <2>7. \A e : Single(run', diffs', e) = Single(run, diffs, e)
      BY <1>1, <2>1, <2>2, <2>4, ReadingCountsNothing DEF Go
    <2>8. \A e : NotBetween(e)' => NotBetween(e)
      BY <1>1, <2>1, <2>4, ApartBefore
    <2>9. QED
      BY <2>2, <2>6, <2>7, <2>8, StepStaysTidy
  <1>6. CASE ReadPage(c)
    <2>1. PICK page \in SUBSET Between(run[c].from, run[c].to) : \E r \in Pass :
             /\ Becomes(c, r, run[c].read \union page, run[c].sum)
             /\ r.pc \in {"read", "done", "sum"}
      BY <1>6, ReadIs
    <2>2. PICK r \in Pass :
             /\ Becomes(c, r, run[c].read \union page, run[c].sum)
             /\ r.pc \in {"read", "done", "sum"}
      BY <2>1
    <2>3. /\ r.read = run[c].read \union page /\ r.sum = run[c].sum /\ Go(c, r)
          /\ r.from = run[c].from /\ r.to = run[c].to
      BY <2>2 DEF Becomes
    <2>4. run[c].pc = "read" /\ UNCHANGED <<diffs, snapshots, logged, removed>>
      BY <1>6 DEF ReadPage, spaceTables
    <2>5. UnderWay(c) /\ run[c].sum = {} /\ r.sum = {}
      BY <1>3, <2>3, <2>4 DEF Passes, UnderWay
    <2>6. r.read \subseteq diffs'
      BY <1>4, <2>3, <2>4, <2>5 DEF Between
    <2>7. \A s \in snapshots : s.at <= r.from \/ r.to <= s.at
      BY <1>4, <2>3, <2>5
    <2>8. InTurn'
      <3>1. r.pc # "delete" /\ Alone(c)
        BY <1>4, <2>2, <2>5
      <3>2. QED
        BY <1>1, <2>3, <2>4, <2>6, <2>7, <3>1, RunStaysInTurn
    <2>9. \A e : Single(run', diffs', e) = Single(run, diffs, e)
      BY <1>1, <2>3, <2>4, <2>5, ReadingCountsNothing DEF Go
    <2>10. \A e : NotBetween(e)' => NotBetween(e)
      BY <1>1, <2>3, <2>5, ApartBefore
    <2>11. QED
      BY <2>4, <2>8, <2>9, <2>10, StepStaysTidy
  <1>7. CASE SumStep(c)
    <2>1. PICK s \in Diff : \E r \in Pass :
             /\ s = Summation(c) /\ Becomes(c, r, run[c].read, {s})
             /\ diffs' = diffs \union {s} /\ r.pc \in {"archive", "stopped"} /\ run[c].pc = "sum"
             /\ UNCHANGED <<snapshots, logged, removed>>
      BY <1>7, SumStepIs
    <2>2. PICK r \in Pass :
             /\ s = Summation(c) /\ Becomes(c, r, run[c].read, {s})
             /\ diffs' = diffs \union {s} /\ r.pc \in {"archive", "stopped"} /\ run[c].pc = "sum"
             /\ UNCHANGED <<snapshots, logged, removed>>
      BY <2>1
    <2>3. Go(c, r) /\ r.sum = {s} /\ r.read = run[c].read /\ r.from = run[c].from /\ r.to = run[c].to
      BY <2>2 DEF Becomes
    <2>4. UnderWay(c) /\ run[c].sum = {}
      BY <1>3, <2>2 DEF Passes, UnderWay
    <2>5. Alone(c) /\ run[c].read \subseteq diffs
      BY <1>4, <2>2, <2>4
    <2>6. InTurn'
      <3>1. \A x \in snapshots : x.at <= r.from \/ r.to <= x.at
        BY <1>4, <2>3, <2>4
      <3>2. r.pc # "delete" /\ r.pc \notin {"read", "sum"}
        BY <2>2
      <3>3. QED
        BY <1>1, <2>2, <2>3, <2>5, <3>1, <3>2, RunStaysInTurn
    <2>7. ASSUME NEW e \in Nat, ApartOf(run[c].read, {s}, e)
          PROVE  Single(run', diffs', e) = Single(run, diffs, e)
      <3>1. \A d \in run[c].read : e <= Summation(c).at => e <= d.at
        BY <2>2, <2>7 DEF ApartOf
      <3>2. QED
        BY <1>7, <2>5, <3>1, SumCountsTwice
    <2>8. ASSUME NEW x \in snapshots
          PROVE  Single(run', diffs', x.at) = Single(run, diffs, x.at)
      <3>1. \A y \in {s} : \E d \in run[c].read : y.at = d.at
        BY <2>2, SummationIs
      <3>2. ApartOf(run[c].read, {s}, x.at)
        BY <1>1, <2>4, <2>8, <3>1, SnapshotApart
      <3>3. x.at \in Nat
        BY DEF SnapshotsInv
      <3>4. QED
        BY <2>7, <3>2, <3>3
    <2>9. \A e : NotBetween(e)' => NotBetween(e) /\ ApartOf(run[c].read, {s}, e)
      <3>1. \A e : NotBetween(e)' => NotBetween(e) /\ ApartOf(r.read, r.sum, e)
        <4>1. Go(c, r) /\ run[c].sum = {}
          BY <2>3, <2>4
        <4>2. QED
          BY <1>1, <4>1, ApartBefore
      <3>2. QED
        BY <2>3, <3>1
    <2>10. QED
      BY <2>2, <2>6, <2>7, <2>8, <2>9, StepStaysTidy
  <1>8. CASE WriteStep(c)
    <2>1. PICK part \in SUBSET Diff : \E r \in Pass : Writes(c, r, part)
      BY <1>8, WriteStepIs
    <2>2. PICK r \in Pass : Writes(c, r, part)
      BY <2>1
    <2>3. /\ Go(c, r) /\ r.sum = run[c].sum /\ r.read = run[c].read
          /\ r.from = run[c].from /\ r.to = run[c].to
          /\ diffs' = diffs \ part
          /\ run[c].pc \in {"read", "sum", "archive", "delete"}
          /\ r.pc \in {"archive", "delete", "done", "stopped"}
          /\ r.pc = "delete" => \/ r.left = r.read
                                \/ run[c].pc = "delete" /\ r.left = run[c].left \ part
          /\ UNCHANGED <<snapshots, logged, removed>>
      BY <2>2 DEF Writes, Becomes
    <2>4. UnderWay(c)
      BY <2>3 DEF UnderWay
    <2>5. Alone(c) /\ (run[c].pc = "delete" => run[c].read \intersect diffs \subseteq run[c].left)
      BY <1>4, <2>4
    <2>6. InTurn'
      <3>1. \A x \in snapshots : x.at <= r.from \/ r.to <= x.at
        BY <1>4, <2>3, <2>4
      <3>2. r.pc = "delete" => r.read \intersect diffs' \subseteq r.left
        BY <2>3, <2>5
      <3>3. r.pc \notin {"read", "sum"}
        BY <2>3
      <3>4. QED
        BY <1>1, <2>3, <2>5, <3>1, <3>2, <3>3, RunStaysInTurn
    <2>7. \A s \in run[c].sum : (\E d \in run[c].read : s.at = d.at) /\ \A d \in run[c].read : d.at <= s.at
      BY DEF RunsRead
    <2>8. ASSUME NEW e \in Nat, ApartOf(run[c].read, run[c].sum, e)
          PROVE  Single(run', diffs', e) = Single(run, diffs, e)
      <3>1. \A s \in run[c].sum : \A d \in run[c].read : e <= s.at => e <= d.at
        BY <2>8 DEF ApartOf
      <3>2. \A s \in run[c].sum : \A d \in run[c].read : d.at <= s.at
        BY <2>7
      <3>3. QED
        BY <1>8, <2>5, <3>1, <3>2, DeletionCountsOnce
    <2>9. ASSUME NEW x \in snapshots
          PROVE  Single(run', diffs', x.at) = Single(run, diffs, x.at)
      <3>1. ApartOf(run[c].read, run[c].sum, x.at)
        BY <1>1, <2>4, <2>7, <2>9, SnapshotApart
      <3>2. x.at \in Nat
        BY DEF SnapshotsInv
      <3>3. QED
        BY <2>8, <3>1, <3>2
    <2>10. \A e : NotBetween(e)' => NotBetween(e) /\ ApartOf(run[c].read, run[c].sum, e)
      BY <1>1, <2>3, ApartBefore
    <2>11. QED
      BY <2>3, <2>6, <2>8, <2>9, <2>10, StepStaysTidy
  <1>9. QED
    BY <1>2, <1>5, <1>6, <1>7, <1>8

ToolsInv ==
    /\ DiffsInv /\ SnapshotsInv /\ AllocatedTyped /\ RunsRead /\ AllocationsTell /\ FileTells
    /\ clash \/ Tidy

LEMMA SizesStart == ASSUME ToolsInit PROVE ToolsInv
  <1>1. DiffsInv /\ SnapshotsInv /\ AllocatedTyped
    BY ToolsStart
  <1>2. RunsRead
    BY DEF ToolsInit, NotRun, RunsRead
  <1>3. diffs = {} /\ logged = {} /\ removed = {} /\ \A s \in snapshots : s.size = 0
    BY DEF ToolsInit
  <1>4. \A c \in Runs : ~UnderWay(c)
    BY DEF ToolsInit, UnderWay, NotRun
  <1>5. \A e : Since(diffs, e) = {} /\ Since(logged, e) = {}
    BY <1>3 DEF Since
  <1>6. \A e : Single(run, diffs, e) = 0
    BY <1>1, <1>4, <1>5, DiffsSummable, NoneUnderWay, DeltaNone
  <1>7. InTurn
    BY <1>4 DEF InTurn
  <1>8. Balanced
    <2>1. DeltaSum(logged \ removed) = 0
      BY <1>3, DeltaNone
    <2>2. QED
      BY <1>3, <1>6, <2>1 DEF Balanced
  <1>9. ChangesSince
    BY <1>5, <1>6, DeltaNone DEF ChangesSince
  <1>10. AllocationsTell
    <2>1. \A b \in Blob : allocated[b] = None
      BY DEF ToolsInit
    <2>2. \A e : AllocatedBefore(e) = {} /\ logged \ Since(logged, e) = {}
      BY <1>3, <2>1 DEF AllocatedBefore
    <2>3. SizesOf({}) = 0
      BY TotalEmpty DEF SizesOf
    <2>4. QED
      BY <2>1, <2>2, <2>3, DeltaNone DEF AllocationsTell
  <1>11. FileTells
    BY DEF ToolsInit, FileTells
  <1>12. QED
    BY <1>1, <1>2, <1>7, <1>8, <1>9, <1>10, <1>11 DEF ToolsInv, Tidy

LEMMA RemovalTidies ==
    ASSUME DiffsInv, SnapshotsInv, Tidy, Removal, ~clash'
    PROVE  Tidy'
  <1>1. CASE FindDuplicates \/ RemoveEnds
    BY <1>1, TidyStays DEF FindDuplicates, RemoveEnds, spaceTables
  <1>2. ASSUME NEW batch \in SUBSET dedupe.left, NEW gone \in SUBSET batch,
               diffs' = diffs \ gone, removed' = removed \union (gone \intersect diffs),
               UNCHANGED <<snapshots, run, logged>>, ClashesOver(batch)
        PROVE  Tidy'
    <2>1. ~((\E c \in Runs : UnderWay(c)) \/ \E d \in batch : d.at < Newest(Never).at)
      BY <1>2 DEF ClashesOver
    <2>2. QED
      BY <1>2, <2>1, RemovalStaysTidy
  <1>3. CASE RemoveDuplicates
    <2>1. PICK batch \in SUBSET dedupe.left :
            /\ diffs' = diffs \ batch /\ removed' = removed \union (batch \intersect diffs)
            /\ ClashesOver(batch)
      BY <1>3 DEF RemoveDuplicates
    <2>2. UNCHANGED <<snapshots, run, logged>>
      BY <1>3 DEF RemoveDuplicates
    <2>3. QED
      BY <1>2, <2>1, <2>2
  <1>4. CASE RemoveFails
    <2>1. PICK batch \in SUBSET dedupe.left, part \in SUBSET dedupe.left :
            /\ part \subseteq batch
            /\ diffs' = diffs \ part /\ removed' = removed \union (part \intersect diffs)
            /\ ClashesOver(batch)
      BY <1>4 DEF RemoveFails
    <2>2. UNCHANGED <<snapshots, run, logged>>
      BY <1>4 DEF RemoveFails
    <2>3. QED
      BY <1>2, <2>1, <2>2
  <1>5. QED
    BY <1>1, <1>3, <1>4 DEF Removal

LEMMA StepTidies ==
    ASSUME ToolsInv, ToolsNext \/ UNCHANGED toolsVars
    PROVE  clash' \/ Tidy'
  <1>1. DiffsInv /\ SnapshotsInv /\ RunsRead /\ FileTells /\ (clash \/ Tidy)
    BY DEF ToolsInv
  <1>2. CASE Tick \/ UNCHANGED toolsVars
    BY <1>1, <1>2, TidyStays DEF Tick, toolsVars, spaceTables
  <1>3. CASE Client
    <2>1. PICK d \in Diff : ClientPuts(d)
      BY <1>1, <1>3, ClientIs
    <2>2. clash => clash'
      BY <2>1 DEF ClientPuts
    <2>3. QED
      BY <1>1, <2>1, <2>2, ClientStaysTidy
  <1>4. ASSUME NEW e \in 0..EndOfTime, Bill(e) PROVE clash' \/ Tidy'
    <2>1. clash' = (clash \/ \E c \in Runs : UnderWay(c)) /\ e \in Nat
      BY <1>4 DEF Bill, Clashes
    <2>2. QED
      BY <1>1, <1>4, <2>1, BillStaysTidy
  <1>5. ASSUME NEW e \in 0..EndOfTime, ComputeSnapshot(e) PROVE clash' \/ Tidy'
    BY <1>1, <1>5, TidyStays DEF ComputeSnapshot, spaceTables
  <1>6. ASSUME NEW f \in file, UpsertSnapshot(f) PROVE clash' \/ Tidy'
    <2>1. clash' = (clash \/ Untold(f) \/ \E c \in Runs : UnderWay(c))
      BY <1>6 DEF UpsertSnapshot
    <2>2. QED
      BY <1>1, <1>6, <2>1, UpsertStaysTidy
  <1>7. CASE Compaction
    <2>1. clash => clash'
      <3>1. \/ clash' = clash
            \/ clash' = (clash \/ \E c \in Runs : UnderWay(c))
        BY <1>7, CompactionIs DEF StartCompaction, Clashes, ReadPage, SumStep, PutSum, WriteStep, ArchiveBatch, DeleteBatch
      <3>2. QED
        BY <3>1
    <2>2. QED
      BY <1>1, <1>7, <2>1, CompactionStaysTidy
  <1>8. CASE Removal
    <2>1. clash => clash'
      BY <1>8 DEF Removal, FindDuplicates, RemoveDuplicates, RemoveFails, RemoveEnds, ClashesOver
    <2>2. QED
      BY <1>1, <1>8, <2>1, RemovalTidies
  <1>9. QED
    BY <1>2, <1>3, <1>4, <1>5, <1>6, <1>7, <1>8 DEF ToolsNext, Snapshots

LEMMA ToolsKeep ==
    ASSUME ToolsInv, ToolsNext \/ UNCHANGED toolsVars
    PROVE  ToolsInv'
  <1>1. DiffsInv /\ SnapshotsInv /\ AllocatedTyped /\ RunsRead /\ AllocationsTell /\ FileTells
    BY DEF ToolsInv
  <1>2. DiffsInv' /\ SnapshotsInv' /\ AllocatedTyped'
    BY <1>1, DiffsKeep, AllocatedKeeps
  <1>3. RunsRead'
    <2>1. CASE Compaction
      BY <1>1, <2>1, RunsReadKeeps
    <2>2. CASE ~Compaction
      <3>1. run' = run
        BY <2>2 DEF ToolsNext, Tick, Client, AddBlob, RemoveBlob, PutAgain, Snapshots, Bill, ComputeSnapshot, UpsertSnapshot,
           Removal, FindDuplicates, RemoveDuplicates, RemoveFails, RemoveEnds, toolsVars
      <3>2. QED
        BY <1>1, <3>1 DEF RunsRead
    <2>3. QED
      BY <2>1, <2>2
  <1>4. AllocationsTell'
    <2>1. CASE Client
      <3>1. PICK d \in Diff : ClientPuts(d)
        BY <1>1, <2>1, ClientIs
      <3>2. QED
        BY <1>1, <3>1, ChangeTells
    <2>2. CASE ~Client
      <3>1. allocated' = allocated /\ logged' = logged
        <4>1. CASE Compaction
          BY <4>1, CompactionIs DEF StartCompaction, ReadPage, SumStep, PutSum, WriteStep, ArchiveBatch, DeleteBatch, spaceTables
        <4>2. CASE ~Compaction
          BY <2>2, <4>2 DEF ToolsNext, Tick, Snapshots, Bill, ComputeSnapshot, UpsertSnapshot, Removal, FindDuplicates,
             RemoveDuplicates, RemoveFails, RemoveEnds, toolsVars, spaceTables
        <4>3. QED
          BY <4>1, <4>2
      <3>2. QED
        BY <1>1, <3>1 DEF AllocationsTell, OnceEach, AllocatedBefore
    <2>3. QED
      BY <2>1, <2>2
  <1>5. FileTells'
    <2>1. CASE \E e \in 0..EndOfTime : ComputeSnapshot(e)
      BY <1>1, <2>1, ComputeTells
    <2>2. CASE Compaction
      <3>1. file' = file /\ logged' = logged
        BY <2>2, CompactionIs DEF StartCompaction, ReadPage, SumStep, PutSum, WriteStep, ArchiveBatch, DeleteBatch, spaceTables
      <3>2. QED
        BY <1>1, <3>1, FileStays
    <2>3. CASE ~Compaction /\ ~\E e \in 0..EndOfTime : ComputeSnapshot(e)
      <3>1. file' = file /\ logged \subseteq logged'
        BY <2>3 DEF ToolsNext, Tick, Client, AddBlob, RemoveBlob, PutDiff, PutAgain, Put, Snapshots, Bill,
           UpsertSnapshot, Removal, FindDuplicates, RemoveDuplicates, RemoveFails, RemoveEnds, toolsVars, spaceTables
      <3>2. QED
        BY <1>1, <3>1, FileStays
    <2>4. QED
      BY <2>1, <2>2, <2>3
  <1>6. clash' \/ Tidy'
    BY StepTidies
  <1>7. QED
    BY <1>2, <1>3, <1>4, <1>5, <1>6 DEF ToolsInv

(* What counts twice is what the runs whose sums count since the snapshot  *)
(* of the report have yet to delete.                                       *)
LEMMA TwiceIs ==
    ASSUME DiffsInv, SnapshotsInv, RunsRead, InTurn, NEW s, s \in snapshots, s = Newest(StartOfDay(now))
    PROVE  Twice = Extra(run, diffs, s.at)
  <1>1. s.at \in Nat
    BY DEF SnapshotsInv
  <1>2. run \in [Runs -> Pass]
    BY DEF DiffsInv, DiffsTyped
  <1> DEFINE summed == {c \in Runs : run[c].sum # {} /\ run[c].pc # "done" /\ s.at < run[c].to}
  <1>3. ASSUME NEW c \in Runs, run[c].sum # {}, run[c].pc # "done"
        PROVE  s.at < run[c].to <=> \E x \in run[c].sum : s.at <= x.at
    <2>1. run[c] \in Pass /\ Passes(run[c])
      BY <1>2 DEF DiffsInv
    <2>2. UnderWay(c)
      BY <1>3, <2>1 DEF Pass, Passes, Passing, UnderWay
    <2>3. s.at <= run[c].from \/ run[c].to <= s.at
      BY <2>2 DEF InTurn
    <2>4. \A x \in run[c].sum : run[c].from <= x.at /\ x.at < run[c].to
      BY DEF RunsRead
    <2>5. run[c].from \in Nat /\ run[c].to \in Nat /\ \A x \in run[c].sum : x.at \in Nat
      BY <2>1 DEF Pass, Diff
    <2>6. QED
      BY <1>1, <1>3, <2>3, <2>4, <2>5
  <1>4. summed = DueRuns(run, s.at)
    BY <1>3 DEF DueRuns
  <1>5. Twice = SumFunction([c \in summed |-> DeltaSum(run[c].read \intersect diffs)])
    BY DEF Twice
  <1> HIDE DEF summed
  <1>6. QED
    BY <1>4, <1>5 DEF Extra

LEMMA ReportIs ==
    ASSUME ToolsInv, ~clash
    PROVE  ReportedSize = DeltaSum(logged \ removed) + Twice
  <1>1. DiffsInv /\ SnapshotsInv /\ RunsRead /\ InTurn /\ Balanced
    BY DEF ToolsInv, Tidy
  <1>2. StartOfDay(now) \in Nat
    <2>1. now \in Nat /\ DayLength \in Nat \ {0}
      BY <1>1, ToolsAssumption DEF DiffsInv, DiffsTyped
    <2>2. QED
      BY <2>1, DayStarts DEF StartOfDay
  <1>3. PICK s \in snapshots : s = Newest(StartOfDay(now))
    BY <1>1, <1>2, NewestIs
  <1>4. s.at \in Nat /\ s.size \in Int
    BY <1>1 DEF SnapshotsInv
  <1>7. Between(s.at, Never) = Since(diffs, s.at)
    <2>1. \A d \in diffs : d.at < Never
      BY <1>1, ToolsAssumption DEF DiffsInv, DiffsTyped, Diff, Never
    <2>2. QED
      BY <2>1 DEF Between, Since
  <1>8. ReportedSize = s.size + DeltaSum(Since(diffs, s.at))
    BY <1>3, <1>7 DEF ReportedSize, SizeFrom
  <1>9. s.size + Single(run, diffs, s.at) = DeltaSum(logged \ removed)
    BY <1>1, <1>3 DEF Balanced
  <1>10. Twice = Extra(run, diffs, s.at)
    BY <1>1, <1>3, TwiceIs
  <1>11. Single(run, diffs, s.at) \in Int /\ DeltaSum(Since(diffs, s.at)) \in Int /\ Extra(run, diffs, s.at) \in Int
    BY <1>1, SingleType, DiffsSummable, SinceSummable, ExtraType
  <1>12. Single(run, diffs, s.at) = DeltaSum(Since(diffs, s.at)) - Extra(run, diffs, s.at)
    BY DEF Single
  <1>13. QED
    BY <1>4, <1>8, <1>9, <1>10, <1>11, <1>12

(***************************************************************************)
(* No diff that was put is lost, wherever the tools stop and however they  *)
(* interleave. And when billing and the tools are run in turn, the size a  *)
(* usage report ends with is what the changes of clients add up to, but    *)
(* for what a compaction that stopped has summed and not yet deleted       *)
(* (compact-space-diffs.js, space-allocations-snapshot/index.js, usage.js).*)
(***************************************************************************)
THEOREM SizesAddUp == ToolsSpec => []SizeAccounted
  <1>1. ToolsInit => ToolsInv
    BY SizesStart
  <1>2. ToolsInv /\ [ToolsNext]_toolsVars => ToolsInv'
    BY ToolsKeep
  <1>3. ToolsInv => SizeAccounted
    <2>1. ASSUME ToolsInv PROVE SizeAccounted
      BY <2>1, ReportIs DEF ToolsInv, DiffsInv, SizeAccounted
    <2>2. QED
      BY <2>1
  <1>4. QED
    BY <1>1, <1>2, <1>3, PTL DEF ToolsSpec

=============================================================================
