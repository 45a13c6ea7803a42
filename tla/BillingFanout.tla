---------------------------- MODULE BillingFanout ----------------------------
(***************************************************************************)
(* How a billing run reaches every space. The billing cron lists the       *)
(* customers and puts an instruction for each that has an account on the   *)
(* customer billing queue; the queue's handler lists the subscriptions of  *)
(* its customer and puts an instruction for the space of each on the space *)
(* billing queue. Both read their tables a page at a time while accounts   *)
(* are provisioned, and both can fail half way: a run that fails is made   *)
(* again from the start, and so is a customer instruction received again,  *)
(* up to MaxReceive times. A call that puts a message and whose answer is  *)
(* lost is made again, and puts it twice.                                  *)
(*                                                                         *)
(* A subscription has one space, by which it goes here; all runs are about *)
(* one period. Tables are listed in the order of the numbers that name     *)
(* their items, which stands for the order of the table's keys.            *)
(***************************************************************************)
EXTENDS Naturals, FiniteSets

CONSTANTS
    Customer,     \* customers, numbered in the order of their listing
    Space,        \* spaces, numbered in the order of their subscriptions' listing
    Owner,        \* the customer that provisions each space
    Billable,     \* customers that have a Stripe account
    PageSize,     \* most items in a page of a listing
    Invocation,   \* concurrent invocations of the customer queue handler
    MaxRuns,      \* bound on the runs started, by the cron or by hand
    MaxReceives,  \* maxReceiveCount of the customer billing queue
    MaxFailures   \* bound on the failures injected in a behaviour

ASSUME FanoutAssumption ==
    /\ Customer \subseteq Nat \ {0}
    /\ Space \subseteq Nat \ {0}
    /\ Owner \in [Space -> Customer]
    /\ Billable \subseteq Customer
    /\ PageSize \in Nat \ {0}
    /\ MaxRuns \in Nat
    /\ MaxReceives \in Nat \ {0}
    /\ MaxFailures \in Nat

VARIABLES
    subscriptions,  \* the subscription table, by space
    consumers,      \* the consumer table, by space
    runs,           \* runs started so far
    cron,           \* the run over all customers in progress
    customerQueue,  \* the customer billing queue: visible messages
    invocation,     \* the handler invocations in progress
    customerDlq,    \* the customer billing dead letter queue
    issued,         \* space billing instructions queued so far, by run and space
    begun,          \* the spaces each run is for: those provisioned when it began
    ended,          \* the runs that have ended without a failure
    failures        \* failures injected so far

tables == <<subscriptions, consumers>>
fanoutVars ==
    <<tables, runs, cron, customerQueue, invocation, customerDlq, issued, begun, ended, failures>>

RunId == 1..MaxRuns

CustomerMessage == [customer : Customer, run : RunId, copy : {1, 2}, receives : 0..MaxReceives]

\* A listing of a table: the items of the last page still to take, the item it
\* has read up to, and whether there may be more.
Listing(items) == [page : SUBSET items, upTo : {0} \union items, more : BOOLEAN]

NewListing == [page |-> {}, upTo |-> 0, more |-> TRUE]

Resting == [pc |-> "idle"]

Run == [pc : {"run"}, run : RunId, list : Listing(Customer)]

Job == [pc : {"job"}, message : CustomerMessage, list : Listing(Space)]

FanoutInit ==
    /\ subscriptions = {} /\ consumers = {}
    /\ runs = 0 /\ cron = Resting
    /\ customerQueue = {} /\ customerDlq = {}
    /\ invocation = [w \in Invocation |-> Resting]
    /\ issued = [r \in RunId |-> [s \in Space |-> 0]]
    /\ begun = [r \in RunId |-> {}]
    /\ ended = {}
    /\ failures = 0

-----------------------------------------------------------------------------
\* provisions.put adds the subscription and then the consumer. It may stop in
\* between, and be asked again: a subscription that is there is used.
Subscribe(s) ==
    /\ s \notin subscriptions
    /\ subscriptions' = subscriptions \union {s}
    /\ UNCHANGED <<consumers, runs, cron, customerQueue, invocation, customerDlq, issued, begun,
                   ended, failures>>

Consume(s) ==
    /\ s \in subscriptions \ consumers
    /\ consumers' = consumers \union {s}
    /\ UNCHANGED <<subscriptions, runs, cron, customerQueue, invocation, customerDlq, issued, begun,
                   ended, failures>>

-----------------------------------------------------------------------------
\* Slip: the item after the one a page ends with is read over.
AfterNext(items, upTo) == {i \in items : i > upTo + 1}

After(items, upTo) == {i \in items : i > upTo}

\* What a listing that goes on has next: the first PageSize items after the one
\* it has read up to. A page that is full may not be the last.
NextPage(items, upTo, list) ==
    LET after == After(items, upTo)
    IN  /\ list.page \subseteq after
        /\ \A i \in list.page, j \in after : j < i => j \in list.page
        /\ Cardinality(list.page) <= PageSize
        /\ list.more = (Cardinality(list.page) = PageSize)
        /\ ~list.more => list.page = after
        /\ IF list.page = {}
           THEN list.upTo = upTo
           ELSE list.upTo \in list.page /\ \A j \in list.page : j <= list.upTo

IsFirst(i, page) == i \in page /\ \A j \in page : i <= j

Taken(list, i) == [list EXCEPT !.page = @ \ {i}]

Exhausted(list) == list.page = {} /\ ~list.more

-----------------------------------------------------------------------------
\* The spaces provisioned for customers among cs.
ProvisionedFor(cs) == {s \in consumers : Owner[s] \in cs}

\* The schedule, Lambda's retries of it, or an operator.
StartRun ==
    /\ cron = Resting
    /\ runs < MaxRuns
    /\ runs' = runs + 1
    /\ cron' = [pc |-> "run", run |-> runs', list |-> NewListing]
    /\ begun' = [begun EXCEPT ![runs'] = ProvisionedFor(Billable)]
    /\ UNCHANGED <<tables, customerQueue, invocation, customerDlq, issued, ended, failures>>

ListCustomers ==
    /\ cron # Resting
    /\ cron.list.page = {} /\ cron.list.more
    /\ \E list \in Listing(Customer) :
         /\ NextPage(Customer, cron.list.upTo, list)
         /\ cron' = [cron EXCEPT !.list = list]
    /\ UNCHANGED <<tables, runs, customerQueue, invocation, customerDlq, issued, begun, ended,
                   failures>>

\* The message arrives once, or twice when the first answer is lost.
Send(c, r) ==
    \E copies \in {{1}, {1, 2}} :
      /\ customerQueue' = customerQueue \union
           [customer : {c}, run : {r}, copy : copies, receives : {0}]
      /\ IF copies = {1} THEN UNCHANGED failures
         ELSE failures < MaxFailures /\ failures' = failures + 1

\* The next customer of the page: one without an account is passed over.
SendCustomer ==
    /\ cron # Resting
    /\ \E c \in cron.list.page :
         /\ IsFirst(c, cron.list.page)
         /\ IF c \in Billable THEN Send(c, cron.run) ELSE UNCHANGED <<customerQueue, failures>>
         /\ cron' = [cron EXCEPT !.list = Taken(@, c)]
    /\ UNCHANGED <<tables, runs, invocation, customerDlq, issued, begun, ended>>

EndRun ==
    /\ cron # Resting
    /\ Exhausted(cron.list)
    /\ ended' = ended \union {cron.run}
    /\ cron' = Resting
    /\ UNCHANGED <<tables, runs, customerQueue, invocation, customerDlq, issued, begun, failures>>

\* A run for one customer, who must have an account: the customer parameter of
\* the cron's URL.
SendSingle(c) ==
    /\ runs < MaxRuns
    /\ c \in Billable
    /\ runs' = runs + 1
    /\ Send(c, runs')
    /\ begun' = [begun EXCEPT ![runs'] = ProvisionedFor({c})]
    /\ ended' = ended \union {runs'}
    /\ UNCHANGED <<tables, cron, invocation, customerDlq, issued>>

\* A call fails, and the run with it.
CronFails ==
    /\ failures < MaxFailures
    /\ cron # Resting
    /\ cron' = Resting
    /\ failures' = failures + 1
    /\ UNCHANGED <<tables, runs, customerQueue, invocation, customerDlq, issued, begun, ended>>

-----------------------------------------------------------------------------
ReceiveCustomer(w, m) ==
    /\ invocation[w] = Resting
    /\ m \in customerQueue
    /\ customerQueue' = customerQueue \ {m}
    /\ invocation' = [invocation EXCEPT ![w] =
         [pc |-> "job", message |-> [m EXCEPT !.receives = @ + 1], list |-> NewListing]]
    /\ UNCHANGED <<tables, runs, cron, customerDlq, issued, begun, ended, failures>>

SubscriptionsOf(c) == {s \in subscriptions : Owner[s] = c}

ListSubscriptions(w) ==
    LET job == invocation[w]
    IN  /\ job # Resting
        /\ job.list.page = {} /\ job.list.more
        /\ \E list \in Listing(Space) :
             /\ NextPage(SubscriptionsOf(job.message.customer), job.list.upTo, list)
             /\ invocation' = [invocation EXCEPT ![w].list = list]
        /\ UNCHANGED <<tables, runs, cron, customerQueue, customerDlq, issued, begun, ended, failures>>

\* The instruction is queued once, or twice when the first answer is lost.
SendSpace(w) ==
    LET job == invocation[w]
    IN  /\ job # Resting
        /\ \E s \in job.list.page \intersect consumers, n \in {1, 2} :
             /\ IsFirst(s, job.list.page)
             /\ failures + n - 1 <= MaxFailures
             /\ failures' = failures + n - 1
             /\ issued' = [issued EXCEPT ![job.message.run][s] = @ + n]
             /\ invocation' = [invocation EXCEPT ![w].list = Taken(@, s)]
        /\ UNCHANGED <<tables, runs, cron, customerQueue, customerDlq, begun, ended>>

Finish(w) ==
    /\ invocation[w] # Resting
    /\ Exhausted(invocation[w].list)
    /\ invocation' = [invocation EXCEPT ![w] = Resting]
    /\ UNCHANGED <<tables, runs, cron, customerQueue, customerDlq, issued, begun, ended, failures>>

\* Slip: a message that fails is deleted.
Deleted(m) == UNCHANGED <<customerQueue, customerDlq>>

\* A message that fails is visible again, or dead-lettered.
MessageReturned(m) ==
    IF m.receives < MaxReceives
    THEN customerQueue' = customerQueue \union {m} /\ UNCHANGED customerDlq
    ELSE customerDlq' = customerDlq \union {m} /\ UNCHANGED customerQueue

\* The next subscription has no consumer: the handler gives the customer up.
NoConsumer(w) ==
    LET job == invocation[w]
    IN  /\ job # Resting
        /\ \E s \in job.list.page \ consumers : IsFirst(s, job.list.page)
        /\ MessageReturned(job.message)
        /\ invocation' = [invocation EXCEPT ![w] = Resting]
        /\ UNCHANGED <<tables, runs, cron, issued, begun, ended, failures>>

\* A call fails, or the invocation dies.
HandlerFails(w) ==
    /\ failures < MaxFailures
    /\ invocation[w] # Resting
    /\ MessageReturned(invocation[w].message)
    /\ invocation' = [invocation EXCEPT ![w] = Resting]
    /\ failures' = failures + 1
    /\ UNCHANGED <<tables, runs, cron, issued, begun, ended>>

-----------------------------------------------------------------------------
Provision == \E s \in Space : Subscribe(s) \/ Consume(s)

CronStep == ListCustomers \/ SendCustomer \/ EndRun

CustomerHandler(w) ==
    \/ \E m \in customerQueue : ReceiveCustomer(w, m)
    \/ ListSubscriptions(w) \/ SendSpace(w) \/ NoConsumer(w) \/ Finish(w)

FanoutNext ==
    \/ Provision
    \/ StartRun \/ CronStep \/ CronFails \/ \E c \in Customer : SendSingle(c)
    \/ \E w \in Invocation : CustomerHandler(w) \/ HandlerFails(w)

FanoutSpec == FanoutInit /\ [][FanoutNext]_fanoutVars

\* Runs go on, and the event source polls the queue and its invocations run.
\* Nobody has to finish provisioning a space, or to start a run.
FairFanoutSpec ==
    /\ FanoutSpec
    /\ WF_fanoutVars(CronStep)
    /\ \A w \in Invocation : WF_fanoutVars(CustomerHandler(w))

-----------------------------------------------------------------------------
FanoutTypeOK ==
    /\ subscriptions \subseteq Space
    /\ consumers \subseteq subscriptions
    /\ runs \in 0..MaxRuns
    /\ cron \in Run \union {Resting}
    /\ customerQueue \subseteq {m \in CustomerMessage : m.receives < MaxReceives}
    /\ invocation \in [Invocation -> Job \union {Resting}]
    /\ customerDlq \subseteq CustomerMessage
    /\ issued \in [RunId -> [Space -> Nat]]
    /\ begun \in [RunId -> SUBSET Space]
    /\ ended \subseteq RunId
    /\ failures \in 0..MaxFailures

IsFor(m, c, r) == m.customer = c /\ m.run = r

\* The run's message for the customer is visible or being handled.
OnTheWay(c, r) ==
    \/ \E m \in customerQueue : IsFor(m, c, r)
    \/ \E w \in Invocation : invocation[w] # Resting /\ IsFor(invocation[w].message, c, r)

GivenUp(c, r) == \E m \in customerDlq : IsFor(m, c, r)

Reached(s, r) == issued[r][s] > 0 \/ OnTheWay(Owner[s], r) \/ GivenUp(Owner[s], r)

(***************************************************************************)
(* Once a run has ended, each space that was provisioned when it began,    *)
(* for a customer it is for, has an instruction of the run, or the run's   *)
(* message for its customer is on the way, or dead-lettered: no page, no   *)
(* retry, no invocation that dies and no space being provisioned meanwhile *)
(* leaves one out unnoticed.                                               *)
(***************************************************************************)
NoSpaceForgotten ==
    \A r \in ended : \A s \in begun[r] : Reached(s, r)

(***************************************************************************)
(* A run that ends ends with instructions for its spaces, or with their    *)
(* customers dead-lettered.                                                *)
(***************************************************************************)
SpacesReached ==
    \A r \in RunId, s \in Space :
      r \in ended /\ s \in begun[r] ~> issued[r][s] > 0 \/ GivenUp(Owner[s], r)
=============================================================================
