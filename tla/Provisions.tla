------------------------------- MODULE Provisions -------------------------------
(***************************************************************************)
(* Provisioning: a customer adds a provider to a space. Two tables, both   *)
(* keyed by subscription and provider, are written one after the other.    *)
(* The subscription is a hash of the space, so that each provider has one  *)
(* of it, whoever asks; a conflict on the first table is ignored, one on   *)
(* the second refuses the request.                                         *)
(***************************************************************************)
EXTENDS AccountRequests

CONSTANT Provider  \* the service and its name before the migration

ASSUME ProvisionAssumption == Cardinality(Provider) = 2

\* A cause is the CID of an invocation, which names the customer.
ASSUME CauseAssumption ==
    \A batch \in Batches : \A q, r \in batch :
        q.op = "provision" /\ r.op = "provision" /\ q.cause = r.cause => q.customer = r.customer

VARIABLES
    subscriptions, \* the subscription table
    consumers      \* the consumer table

provisioning == <<subscriptions, consumers>>

Row(r) == [provider |-> r.provider, space |-> r.space, customer |-> r.customer, cause |-> r.cause]

\* The rows of a table with the key of r: the provider and the space's subscription.
RowsOf(table, r) == {x \in table : x.provider = r.provider /\ x.space = r.space}

\* A conflict is ignored: the subscription exists already and can be used.
AddSubscription(r) ==
    /\ At(r, "provision", "new")
    /\ subscriptions' = IF RowsOf(subscriptions, r) = {} THEN subscriptions \union {Row(r)}
                        ELSE subscriptions
    /\ Answered(r, "consumer")
    /\ UNCHANGED consumers

\* Slip: a row is put whatever is there.
Unconditional(r) == TRUE

\* There is no row with the key, or it is of the same invocation.
ConditionHolds(r) == \A x \in RowsOf(consumers, r) : x.cause = r.cause

AddConsumer(r) ==
    /\ At(r, "provision", "consumer")
    /\ \/ /\ ConditionHolds(r)
          /\ consumers' = (consumers \ RowsOf(consumers, r)) \union {Row(r)}
          /\ Answered(r, "done")
       \/ /\ ~ConditionHolds(r)
          /\ Go(r, "refused")
          /\ UNCHANGED <<consumers, faults>>
    /\ UNCHANGED subscriptions

Alternate(p) == CHOOSE q \in Provider : q # p

\* The row of a space with a provider, or with the other when there is none. (It is
\* read from an index, which comes to show the table.)
GetConsumer(p, s) ==
    LET own == {x \in consumers : x.space = s /\ x.provider = p}
    IN  IF own # {} THEN own
        ELSE {x \in consumers : x.space = s /\ x.provider = Alternate(p)}

StorageProviders(s) == {x.provider : x \in {y \in consumers : y.space = s}}

ListByCustomer(c) == {x \in consumers : x.customer = c}

\* The consumers of a customer by subscription: the spaces, since a subscription
\* stands for its space. The provider listed is one of those of the space.
ListSubscriptions(c) ==
    {[subscription |-> s, providers |-> {x.provider : x \in {y \in ListByCustomer(c) : y.space = s}}] :
        s \in {x.space : x \in ListByCustomer(c)}}

\* The customer of a subscription and the subscriptions of a customer are read from
\* the first table, the consumer from the second.
GetSubscription(p, s) ==
    [customers |-> {x.customer : x \in {y \in subscriptions : y.provider = p /\ y.space = s}},
     consumers |-> {x.space : x \in {y \in consumers : y.provider = p /\ y.space = s}}]

GetCustomer(p, c) == {x.space : x \in {y \in subscriptions : y.provider = p /\ y.customer = c}}

ProvisionsInit == subscriptions = {} /\ consumers = {}

ProvisionsNext == \E r \in Batch : AddSubscription(r) \/ AddConsumer(r)

\* No other customer asked for it.
Uncontested(r) ==
    \A q \in Batch : q.op = "provision" /\ q.provider = r.provider /\ q.space = r.space => q.customer = r.customer

(***************************************************************************)
(* A space belongs to the customer whose provision was answered, with the  *)
(* provider of it, for good: no request of another customer, and no        *)
(* repetition, takes it over, and getConsumer and the list of              *)
(* subscriptions name that customer. The first table does where no other   *)
(* customer asked: two who ask at once may each win one of the tables. And *)
(* only a provision that lost to another is refused: one sent again after  *)
(* its answer was lost is not.                                             *)
(***************************************************************************)
SpaceHasOneCustomer ==
    \A r \in Batch : r.op = "provision" =>
        /\ job[r].pc = "done" =>
             /\ {x.customer : x \in GetConsumer(r.provider, r.space)} = {r.customer}
             /\ r.provider \in StorageProviders(r.space)
             /\ \E x \in ListSubscriptions(r.customer) :
                    x.subscription = r.space /\ r.provider \in x.providers
             /\ Uncontested(r) =>
                    /\ GetSubscription(r.provider, r.space) = [customers |-> {r.customer}, consumers |-> {r.space}]
                    /\ r.space \in GetCustomer(r.provider, r.customer)
        /\ job[r].pc = "refused" =>
             \E x \in RowsOf(consumers, r) : x.cause # r.cause

=============================================================================
