---------------------------- MODULE Accounts_proofs ----------------------------
(***************************************************************************)
(* Theorems about the account subsystem: who has a space, that delegations *)
(* and revocations are kept, and that a migration charges no one twice. A  *)
(* step is a step of one request; what it is of another part leaves the    *)
(* requests of this one alone.                                             *)
(***************************************************************************)
EXTENDS Accounts, SequenceTheorems, DataLemmas

(***************************************************************************)
(* Requests. A behaviour has those of one batch, each of which is at a     *)
(* call and has read something.                                            *)
(***************************************************************************)
JobInv ==
    /\ Batch \in Batches
    /\ job = [r \in Batch |-> [pc |-> job[r].pc, seen |-> job[r].seen]]

\* Request r takes a step, alone, after which it is at pc.
Moves(r, pc) ==
    /\ JobInv' /\ Batch' = Batch
    /\ job'[r].pc = pc
    /\ \A q \in Batch \ {r} : job'[q] = job[q]

\* A request of the kind ops takes a step.
MovesOne(ops) == \E r \in Batch : r.op \in ops /\ \E pc : Moves(r, pc)

LEMMA JobSet ==
    ASSUME JobInv, NEW r \in Batch, NEW pc, NEW seen,
           job' = [q \in Batch |-> job'[q]] /\ \A q \in Batch \ {r} : job'[q] = job[q],
           job'[r] = [pc |-> pc, seen |-> seen]
    PROVE  Moves(r, pc) /\ job'[r].seen = seen
  BY DEF JobInv, Batch, Moves

LEMMA JobTyped ==
    ASSUME JobInv
    PROVE  job \in [Batch -> [pc : {job[q].pc : q \in Batch}, seen : {job[q].seen : q \in Batch}]]
  BY DEF JobInv

\* A request that goes on keeps what it read.
LEMMA GoMoves ==
    ASSUME JobInv, NEW r \in Batch, NEW pc, Go(r, pc)
    PROVE  Moves(r, pc) /\ job'[r].seen = job[r].seen
  <1> DEFINE P == {job[q].pc : q \in Batch}
             S == {job[q].seen : q \in Batch}
  <1>1. job \in [Batch -> [pc : P, seen : S]] /\ job' = [job EXCEPT ![r].pc = pc]
    BY JobTyped DEF Go
  <1> HIDE DEF P, S
  <1>2. job'[r] = [pc |-> pc, seen |-> job[r].seen]
    BY <1>1
  <1>3. job' = [q \in Batch |-> job'[q]] /\ \A q \in Batch \ {r} : job'[q] = job[q]
    BY <1>1
  <1>4. QED
    BY <1>2, <1>3, JobSet

LEMMA ReadMoves ==
    ASSUME JobInv, NEW r \in Batch, NEW pc, NEW seen, Read(r, pc, seen)
    PROVE  Moves(r, pc) /\ job'[r].seen = seen
  BY JobSet DEF Read, JobInv, Batch

\* It reads, and is where it was.
Sees(r, seen) == job' = [job EXCEPT ![r].seen = seen]

LEMMA SeenMoves ==
    ASSUME JobInv, NEW r \in Batch, NEW seen, Sees(r, seen)
    PROVE  Moves(r, job[r].pc) /\ job'[r].seen = seen
  <1> DEFINE P == {job[q].pc : q \in Batch}
             S == {job[q].seen : q \in Batch}
  <1>1. job \in [Batch -> [pc : P, seen : S]] /\ job' = [job EXCEPT ![r].seen = seen]
    BY JobTyped DEF Sees
  <1> HIDE DEF P, S
  <1>2. job'[r] = [pc |-> job[r].pc, seen |-> seen]
    BY <1>1
  <1>3. job' = [q \in Batch |-> job'[q]] /\ \A q \in Batch \ {r} : job'[q] = job[q]
    BY <1>1
  <1>4. QED
    BY <1>2, <1>3, JobSet

LEMMA AnsweredMoves ==
    ASSUME JobInv, NEW r \in Batch, NEW pc, Answered(r, pc)
    PROVE  (Moves(r, pc) \/ Moves(r, "failed")) /\ job'[r].seen = job[r].seen
  BY GoMoves DEF Answered

\* A request of another kind is left alone.
LEMMA OthersRest ==
    ASSUME NEW ops, MovesOne(ops), NEW q \in Batch, q.op \notin ops
    PROVE  job'[q] = job[q]
  BY DEF MovesOne, Moves

LEMMA ProvisionMoves ==
    ASSUME JobInv, ProvisionsNext
    PROVE  MovesOne({"provision"})
  BY AnsweredMoves, GoMoves DEF ProvisionsNext, AddSubscription, AddConsumer, At, MovesOne

GrantingOps == {"delegate", "github", "sso"}

LEMMA AccessMoves ==
    ASSUME JobInv, AccessNext
    PROVE  MovesOne(GrantingOps \union {"find", "revoke", "reset", "check"})
  <1> PICK r \in Batch :
        \/ Confirm(r) \/ StoreDelegation(r) \/ IndexDelegations(r)
        \/ FindByAudience(r) \/ Fetch(r)
        \/ AddRevocation(r) \/ ResetRevocations(r) \/ CheckRevocations(r)
    BY DEF AccessNext
  <1>1. CASE Confirm(r) \/ Fetch(r)
    BY <1>1, GoMoves DEF Confirm, Fetch, At, MovesOne, GrantingOps
  <1>2. CASE StoreDelegation(r)
    <2>1. PICK d : Sees(r, job[r].seen \union {d})
      BY <1>2 DEF StoreDelegation, Sees
    <2>2. r.op \in GrantingOps
      BY <1>2 DEF StoreDelegation, Granting, GrantingOps
    <2>3. QED
      BY <2>1, <2>2, SeenMoves DEF MovesOne
  <1>3. CASE IndexDelegations(r)
    BY <1>3, GoMoves DEF IndexDelegations, Granting, MovesOne, GrantingOps
  <1>4. CASE FindByAudience(r) \/ CheckRevocations(r)
    BY <1>4, ReadMoves DEF FindByAudience, CheckRevocations, At, MovesOne
  <1>5. CASE AddRevocation(r) \/ ResetRevocations(r)
    BY <1>5, AnsweredMoves DEF AddRevocation, ResetRevocations, At, MovesOne
  <1>6. QED
    BY <1>1, <1>2, <1>3, <1>4, <1>5

LEMMA StopMoves ==
    ASSUME JobInv, NEW r \in Batch, Stop(r)
    PROVE  /\ Moves(r, "failed") /\ job'[r].seen = job[r].seen
           /\ job[r].pc \notin {"new", "done", "refused", "failed"}
  BY GoMoves DEF Stop, UnderWay, Ends

SignUpOps == {"github", "humanode", "sso"}

\* The part of customers and Stripe: steps that only go on, and those that read. A
\* request that stores delegations keeps those it has stored.
LEMMA CustomersMoves ==
    ASSUME JobInv, CustomersNext, job' # job
    PROVE  \E r \in Batch :
             /\ \/ r.op \in {"checkout", "resubscribe", "email", "hook", "setplan", "initialize"}
                \/ r.op \in SignUpOps /\ job'[r].seen = job[r].seen
             /\ \E pc : Moves(r, pc)
  <1> PICK r \in Batch :
         \/ Checkout(r) \/ CompleteCheckout(r) \/ Resubscribe(r) \/ ChangeEmail(r)
         \/ Webhook(r) \/ LookUpAccount(r) \/ UpdateOwner(r) \/ LookUpCustomer(r) \/ PutSubscribed(r)
         \/ FindToSet(r) \/ AccountToSet(r) \/ SetInStripe(r) \/ SetInTable(r)
         \/ Initialize(r) \/ PutInitialized(r)
         \/ SignIn(r) \/ SignedUpBefore(r) \/ KnownHuman(r) \/ AskProvider(r) \/ PutTrial(r) \/ AddHuman(r)
    BY DEF CustomersNext, Propagate
  <1>1. CASE Checkout(r) \/ CompleteCheckout(r) \/ Resubscribe(r) \/ ChangeEmail(r) \/ FindToSet(r)
    BY <1>1, GoMoves DEF Checkout, CompleteCheckout, Resubscribe, ChangeEmail, FindToSet, At
  <1>2. CASE Webhook(r) \/ LookUpCustomer(r) \/ AccountToSet(r) \/ Initialize(r)
    BY <1>2, ReadMoves DEF Webhook, LookUpCustomer, AccountToSet, Initialize, At
  <1>3. CASE LookUpAccount(r) \/ SetInStripe(r)
    BY <1>3, ReadMoves, GoMoves, AnsweredMoves DEF LookUpAccount, SetInStripe, At
  <1>4. CASE UpdateOwner(r) \/ PutSubscribed(r) \/ SetInTable(r) \/ PutInitialized(r)
    BY <1>4, AnsweredMoves, GoMoves DEF UpdateOwner, PutSubscribed, SetInTable, PutInitialized, At
  <1>5. CASE SignIn(r) \/ SignedUpBefore(r) \/ KnownHuman(r) \/ AskProvider(r) \/ AddHuman(r)
    BY <1>5, GoMoves DEF SignIn, SignedUpBefore, KnownHuman, AskProvider, AddHuman, At, SignUpOps
  <1>6. CASE PutTrial(r)
    BY <1>6, AnsweredMoves DEF PutTrial, SignUpOps
  <1>7. QED
    BY <1>1, <1>2, <1>3, <1>4, <1>5, <1>6

DedupeNext(r) ==
    StartDedupe(r) \/ MappedAccount(r) \/ SelectCanonical(r) \/ DeleteAccount(r) \/ GroupDone(r)

MigrateNext(r) ==
    \/ StartMigration(r) \/ ListPage(r) \/ PageDone(r) \/ NextPrice(r)
    \/ \E s \in DOMAIN Standing :
         \/ Retrieve(r, s) \/ CreateSchedule(r, s) \/ Adjust(r, s) \/ UpdatePhases(r, s)
         \/ WorkFails(r, s) \/ FindOwner(r, s) \/ UpdateRecord(r, s)

LEMMA ToolsSplit ==
    ToolsNext => \E r \in Batch : DedupeNext(r) \/ MigrateNext(r)
  BY DEF ToolsNext, DedupeNext, MigrateNext

LEMMA DedupeMoves ==
    ASSUME JobInv, NEW r \in Batch, DedupeNext(r)
    PROVE  r.op = "dedupe" /\ \E pc : Moves(r, pc)
  <1>1. CASE StartDedupe(r) \/ SelectCanonical(r) \/ DeleteAccount(r) \/ GroupDone(r)
    BY <1>1, ReadMoves DEF StartDedupe, SelectCanonical, DeleteAccount, GroupDone, At
  <1>2. CASE MappedAccount(r)
    BY <1>2, ReadMoves, GoMoves DEF MappedAccount, At
  <1>3. QED
    BY <1>1, <1>2 DEF DedupeNext

LEMMA WorkMoves ==
    ASSUME JobInv, NEW r \in Batch, NEW s, NEW step, NEW review,
           To(r, s, step) \/ Review(r, s) \/ Processed(r, s, review)
    PROVE  Moves(r, "page")
  BY ReadMoves DEF To, Review, Processed

LEMMA MigrateMoves ==
    ASSUME JobInv, NEW r \in Batch, MigrateNext(r)
    PROVE  r.op = "migrate" /\ \E pc : Moves(r, pc)
  <1>1. CASE StartMigration(r) \/ ListPage(r) \/ PageDone(r) \/ NextPrice(r)
    BY <1>1, ReadMoves DEF StartMigration, ListPage, PageDone, NextPrice, At
  <1>2. ASSUME NEW s \in DOMAIN Standing,
               \/ Retrieve(r, s) \/ CreateSchedule(r, s) \/ Adjust(r, s) \/ UpdatePhases(r, s)
               \/ WorkFails(r, s) \/ FindOwner(r, s) \/ UpdateRecord(r, s)
        PROVE  r.op = "migrate" /\ Moves(r, "page")
    <2>1. CASE Retrieve(r, s)
      BY <2>1, WorkMoves, ReadMoves DEF Retrieve, InWork
    <2>2. CASE CreateSchedule(r, s) \/ Adjust(r, s) \/ UpdatePhases(r, s)
      BY <2>2, WorkMoves DEF CreateSchedule, Adjust, UpdatePhases, Call, InWork
    <2>3. CASE WorkFails(r, s)
      BY <2>3, WorkMoves DEF WorkFails, InWork
    <2>4. CASE FindOwner(r, s) \/ UpdateRecord(r, s)
      BY <2>4, WorkMoves DEF FindOwner, UpdateRecord, InWork
    <2>5. QED
      BY <1>2, <2>1, <2>2, <2>3, <2>4
  <1>3. QED
    BY <1>1, <1>2 DEF MigrateNext

(***************************************************************************)
(* Every step keeps the batch, and one of the tools or of customers is of  *)
(* no request that provisions, finds delegations or revokes one.           *)
(***************************************************************************)
Elsewhere(ops) == \A q \in Batch : q.op \in ops => job'[q] = job[q]

LEMMA ToolsAndCustomersElsewhere ==
    ASSUME JobInv, CustomersNext \/ ToolsNext
    PROVE  /\ JobInv' /\ Batch' = Batch
           /\ Elsewhere({"provision", "delegate", "find", "revoke", "reset"})
           /\ \A q \in Batch : q.op \in GrantingOps => job'[q].seen = job[q].seen
  <1>1. CASE ToolsNext
    <2>1. PICK r \in Batch : r.op \in {"dedupe", "migrate"} /\ \E pc : Moves(r, pc)
      BY <1>1, ToolsSplit, DedupeMoves, MigrateMoves
    <2>2. QED
      BY <2>1 DEF Moves, Elsewhere, GrantingOps
  <1>2. CASE CustomersNext /\ job' # job
    BY <1>2, CustomersMoves DEF Moves, Elsewhere, GrantingOps, SignUpOps
  <1>3. CASE job' = job
    BY <1>3 DEF Elsewhere, JobInv, Batch
  <1>4. QED
    BY <1>1, <1>2, <1>3

LEMMA JobsKept ==
    ASSUME JobInv, [Next]_vars
    PROVE  JobInv' /\ Batch' = Batch
  <1>1. CASE ProvisionsNext
    BY <1>1, ProvisionMoves DEF MovesOne, Moves
  <1>2. CASE AccessNext
    BY <1>2, AccessMoves DEF MovesOne, Moves
  <1>3. ASSUME NEW r \in Batch, Stop(r) PROVE JobInv' /\ Batch' = Batch
    BY <1>3, StopMoves DEF Moves
  <1>4. CASE UNCHANGED vars
    BY <1>4 DEF vars, JobInv, Batch
  <1>5. QED
    BY <1>1, <1>2, <1>3, <1>4, ToolsAndCustomersElsewhere DEF Next, Parts

LEMMA JobsBegin == Init => JobInv
  BY DEF Init, RequestsInit, JobInv, Batch

(***************************************************************************)
(* Provisions. The rows of each table are of requests, with one row of a   *)
(* key, and a request has left the row that its place says.                *)
(***************************************************************************)
RowsAreAsked(table) ==
    /\ \A x \in table : \E q \in Batch : q.op = "provision" /\ x = Row(q)
    /\ \A x, y \in table : x.provider = y.provider /\ x.space = y.space => x = y

ProvisionedInv(r) ==
    /\ job[r].pc \in {"consumer", "done"} => RowsOf(subscriptions, r) # {}
    /\ job[r].pc = "done" => Row(r) \in consumers
    /\ job[r].pc = "refused" => \E x \in RowsOf(consumers, r) : x.cause # r.cause

ProvisionsInv ==
    /\ RowsAreAsked(subscriptions) /\ RowsAreAsked(consumers)
    /\ \A r \in Batch : r.op = "provision" => ProvisionedInv(r)

LEMMA SameCause ==
    ASSUME JobInv, NEW q \in Batch, NEW r \in Batch, q.op = "provision", r.op = "provision",
           q.provider = r.provider, q.space = r.space, q.cause = r.cause
    PROVE  Row(q) = Row(r)
  BY CauseAssumption DEF JobInv, Row

\* A step of another part.
LEMMA ProvisionsRest ==
    ASSUME JobInv, ProvisionsInv, Batch' = Batch, UNCHANGED provisioning,
           \A r \in Batch : r.op = "provision" => job'[r].pc \in {job[r].pc, "failed"}
    PROVE  ProvisionsInv'
  <1>1. RowsAreAsked(subscriptions)' /\ RowsAreAsked(consumers)'
    BY DEF ProvisionsInv, RowsAreAsked, provisioning
  <1>2. ASSUME NEW r \in Batch, r.op = "provision" PROVE ProvisionedInv(r)'
    BY <1>2 DEF ProvisionsInv, ProvisionedInv, RowsOf, provisioning
  <1>3. QED
    BY <1>1, <1>2 DEF ProvisionsInv

LEMMA AddSubscriptionKeeps ==
    ASSUME JobInv, ProvisionsInv, NEW r \in Batch, AddSubscription(r)
    PROVE  ProvisionsInv'
  <1>1. /\ r.op = "provision" /\ job[r].pc = "new" /\ consumers' = consumers
        /\ subscriptions' = IF RowsOf(subscriptions, r) = {} THEN subscriptions \union {Row(r)}
                            ELSE subscriptions
        /\ Moves(r, "consumer") \/ Moves(r, "failed")
    BY AnsweredMoves DEF AddSubscription, At
  <1>2. Batch' = Batch /\ job'[r].pc \in {"consumer", "failed"} /\ \A q \in Batch \ {r} : job'[q] = job[q]
    BY <1>1 DEF Moves
  <1>3. Row(r).provider = r.provider /\ Row(r).space = r.space
    BY DEF Row
  <1>4. RowsAreAsked(subscriptions)' /\ RowsAreAsked(consumers)'
    BY <1>1, <1>2, <1>3 DEF ProvisionsInv, RowsAreAsked, RowsOf, Row
  <1>5. ASSUME NEW q \in Batch, q.op = "provision" PROVE ProvisionedInv(q)'
    <2>1. RowsOf(subscriptions, q) \subseteq RowsOf(subscriptions, q)'
      BY <1>1 DEF RowsOf
    <2>2. RowsOf(subscriptions, r)' # {}
      BY <1>1, <1>3 DEF RowsOf
    <2>3. RowsOf(consumers, q)' = RowsOf(consumers, q)
      BY <1>1 DEF RowsOf
    <2>4. QED
      BY <1>1, <1>2, <1>5, <2>1, <2>2, <2>3 DEF ProvisionsInv, ProvisionedInv
  <1>6. QED
    BY <1>2, <1>4, <1>5 DEF ProvisionsInv

LEMMA AddConsumerKeeps ==
    ASSUME JobInv, ProvisionsInv, NEW r \in Batch, AddConsumer(r)
    PROVE  ProvisionsInv'
  <1>1. r.op = "provision" /\ job[r].pc = "consumer" /\ subscriptions' = subscriptions
    BY DEF AddConsumer, At
  <1>2. Row(r).provider = r.provider /\ Row(r).space = r.space /\ Row(r).cause = r.cause
    BY DEF Row
  <1>3. CASE /\ ConditionHolds(r)
             /\ consumers' = (consumers \ RowsOf(consumers, r)) \union {Row(r)}
             /\ Answered(r, "done")
    <2>1. Batch' = Batch /\ job'[r].pc \in {"done", "failed"} /\ \A q \in Batch \ {r} : job'[q] = job[q]
      BY <1>3, AnsweredMoves DEF Moves
    <2>2. RowsAreAsked(subscriptions)' /\ RowsAreAsked(consumers)'
      BY <1>1, <1>2, <1>3, <2>1 DEF ProvisionsInv, RowsAreAsked, RowsOf
    <2>3. ASSUME NEW q \in Batch, q.op = "provision" PROVE ProvisionedInv(q)'
      <3>1. RowsOf(subscriptions, q)' = RowsOf(subscriptions, q)
        BY <1>1 DEF RowsOf
      <3>2. Row(q) \in consumers => Row(q) \in consumers'
        BY <1>1, <1>3, <2>3, SameCause DEF RowsOf, Row, ConditionHolds
      <3>3. Row(r) \in consumers'
        BY <1>3
      <3>4. ASSUME NEW x \in RowsOf(consumers, q), x.cause # q.cause
            PROVE  \E y \in RowsOf(consumers, q)' : y.cause # q.cause
        <4>1. CASE q.provider = r.provider /\ q.space = r.space
          BY <1>2, <1>3, <3>4, <4>1 DEF RowsOf, ConditionHolds
        <4>2. CASE ~(q.provider = r.provider /\ q.space = r.space)
          BY <1>2, <1>3, <3>4, <4>2 DEF RowsOf
        <4>3. QED
          BY <4>1, <4>2
      <3>5. QED
        BY <1>1, <2>1, <2>3, <3>1, <3>2, <3>3, <3>4 DEF ProvisionsInv, ProvisionedInv
    <2>4. QED
      BY <2>1, <2>2, <2>3 DEF ProvisionsInv
  <1>4. CASE ~ConditionHolds(r) /\ Go(r, "refused") /\ UNCHANGED consumers
    <2>1. Batch' = Batch /\ job'[r].pc = "refused" /\ \A q \in Batch \ {r} : job'[q] = job[q]
      BY <1>4, GoMoves DEF Moves
    <2>2. RowsAreAsked(subscriptions)' /\ RowsAreAsked(consumers)'
      BY <1>1, <1>4, <2>1 DEF ProvisionsInv, RowsAreAsked
    <2>3. ASSUME NEW q \in Batch, q.op = "provision" PROVE ProvisionedInv(q)'
      <3>1. RowsOf(subscriptions, q)' = RowsOf(subscriptions, q) /\ RowsOf(consumers, q)' = RowsOf(consumers, q)
        BY <1>1, <1>4 DEF RowsOf
      <3>2. QED
        BY <1>4, <2>1, <2>3, <3>1 DEF ProvisionsInv, ProvisionedInv, ConditionHolds
    <2>4. QED
      BY <2>1, <2>2, <2>3 DEF ProvisionsInv
  <1>5. QED
    BY <1>3, <1>4 DEF AddConsumer

LEMMA ProvisionsAnswer ==
    ASSUME JobInv, ProvisionsInv
    PROVE  SpaceHasOneCustomer
  <1> SUFFICES ASSUME NEW r \in Batch, r.op = "provision"
               PROVE  /\ job[r].pc = "done" =>
                           /\ {x.customer : x \in GetConsumer(r.provider, r.space)} = {r.customer}
                           /\ r.provider \in StorageProviders(r.space)
                           /\ \E x \in ListSubscriptions(r.customer) :
                                  x.subscription = r.space /\ r.provider \in x.providers
                           /\ Uncontested(r) =>
                                  /\ GetSubscription(r.provider, r.space) =
                                         [customers |-> {r.customer}, consumers |-> {r.space}]
                                  /\ r.space \in GetCustomer(r.provider, r.customer)
                      /\ job[r].pc = "refused" => \E x \in RowsOf(consumers, r) : x.cause # r.cause
    BY DEF SpaceHasOneCustomer
  <1>1. job[r].pc = "refused" => \E x \in RowsOf(consumers, r) : x.cause # r.cause
    BY DEF ProvisionsInv, ProvisionedInv
  <1>2. ASSUME job[r].pc = "done"
        PROVE  /\ {x.customer : x \in GetConsumer(r.provider, r.space)} = {r.customer}
               /\ r.provider \in StorageProviders(r.space)
               /\ \E x \in ListSubscriptions(r.customer) : x.subscription = r.space /\ r.provider \in x.providers
               /\ Uncontested(r) =>
                      /\ GetSubscription(r.provider, r.space) = [customers |-> {r.customer}, consumers |-> {r.space}]
                      /\ r.space \in GetCustomer(r.provider, r.customer)
    <2>1. Row(r) \in consumers /\ RowsOf(subscriptions, r) # {}
      BY <1>2 DEF ProvisionsInv, ProvisionedInv
    <2>2. /\ Row(r).provider = r.provider /\ Row(r).space = r.space
          /\ Row(r).customer = r.customer
      BY DEF Row
    <2>3. \A x \in consumers : x.provider = r.provider /\ x.space = r.space => x = Row(r)
      BY <2>1, <2>2 DEF ProvisionsInv, RowsAreAsked
    <2>4. GetConsumer(r.provider, r.space) = {Row(r)}
      BY <2>1, <2>2, <2>3 DEF GetConsumer
    <2>5. r.provider \in StorageProviders(r.space)
      BY <2>1, <2>2 DEF StorageProviders
    <2>6. \E x \in ListSubscriptions(r.customer) : x.subscription = r.space /\ r.provider \in x.providers
      <3>1. Row(r) \in ListByCustomer(r.customer)
        BY <2>1, <2>2 DEF ListByCustomer
      <3> DEFINE providers == {x.provider : x \in {y \in ListByCustomer(r.customer) : y.space = r.space}}
      <3>2. [subscription |-> r.space, providers |-> providers] \in ListSubscriptions(r.customer)
        BY <3>1, <2>2 DEF ListSubscriptions
      <3>3. r.provider \in providers
        BY <3>1, <2>2
      <3>4. QED
        BY <3>2, <3>3
    <2>7. ASSUME Uncontested(r)
          PROVE  /\ GetSubscription(r.provider, r.space) = [customers |-> {r.customer}, consumers |-> {r.space}]
                 /\ r.space \in GetCustomer(r.provider, r.customer)
      <3>1. \A x \in subscriptions : x.provider = r.provider /\ x.space = r.space => x.customer = r.customer
        BY <2>7 DEF Uncontested, ProvisionsInv, RowsAreAsked, Row
      <3>2. PICK x \in subscriptions : x.provider = r.provider /\ x.space = r.space
        BY <2>1 DEF RowsOf
      <3>3. {z.customer : z \in {y \in subscriptions : y.provider = r.provider /\ y.space = r.space}} = {r.customer}
        BY <3>1, <3>2
      <3>4. {z.space : z \in {y \in consumers : y.provider = r.provider /\ y.space = r.space}} = {r.space}
        BY <2>1, <2>2, <2>3
      <3>5. r.space \in GetCustomer(r.provider, r.customer)
        BY <3>1, <3>2 DEF GetCustomer
      <3>6. QED
        BY <3>3, <3>4, <3>5 DEF GetSubscription
    <2>8. QED
      BY <2>2, <2>4, <2>5, <2>6, <2>7
  <1>3. QED
    BY <1>1, <1>2

(***************************************************************************)
(* Whoever asks at once, sends again or stops half way, the space of an    *)
(* answered provision is its customer's, and only one that lost to another *)
(* is refused.                                                             *)
(***************************************************************************)
THEOREM SpacesKeepTheirCustomer == Spec => []SpaceHasOneCustomer
  <1>1. Init => JobInv /\ ProvisionsInv
    <2> SUFFICES ASSUME Init PROVE ProvisionsInv
      BY JobsBegin
    <2>1. \A r \in Batch : job[r].pc = "new"
      BY DEF Init, RequestsInit, Batch
    <2>2. QED
      BY <2>1 DEF Init, ProvisionsInit, ProvisionsInv, RowsAreAsked, ProvisionedInv
  <1>2. JobInv /\ ProvisionsInv /\ [Next]_vars => JobInv' /\ ProvisionsInv'
    <2> SUFFICES ASSUME JobInv, ProvisionsInv, [Next]_vars PROVE ProvisionsInv'
      BY JobsKept
    <2>1. CASE ProvisionsNext
      BY <2>1, AddSubscriptionKeeps, AddConsumerKeeps DEF ProvisionsNext
    <2>2. CASE AccessNext /\ UNCHANGED provisioning
      <3>1. \A r \in Batch : r.op = "provision" => job'[r] = job[r]
        BY <2>2, AccessMoves, OthersRest DEF GrantingOps
      <3>2. QED
        BY <2>2, <3>1, JobsKept, ProvisionsRest
    <2>3. CASE (CustomersNext \/ ToolsNext) /\ UNCHANGED provisioning
      BY <2>3, ToolsAndCustomersElsewhere, JobsKept, ProvisionsRest DEF Elsewhere
    <2>4. CASE (\E r \in Batch : Stop(r)) /\ UNCHANGED provisioning
      BY <2>4, StopMoves, JobsKept, ProvisionsRest DEF Moves
    <2>5. CASE UNCHANGED vars
      BY <2>5, JobsKept, ProvisionsRest DEF vars
    <2>6. QED
      BY <2>1, <2>2, <2>3, <2>4, <2>5 DEF Next, Parts
  <1>3. QED
    BY <1>1, <1>2, ProvisionsAnswer, PTL DEF Spec

(***************************************************************************)
(* Delegations. What a request has put is in the bucket, from which        *)
(* nothing is taken, and only what is there is in the table.               *)
(***************************************************************************)
StoredInv ==
    /\ \A x \in delegations : x.link \in stored
    /\ \A r \in Granting : job[r].seen \subseteq stored
    /\ \A r \in Batch : r.op = "find" =>
         /\ job[r].pc # "refused"
         /\ job[r].pc = "fetch" => job[r].seen \subseteq stored

\* A revocation that was added is there, or replaced by one with its scope, or a
\* reset with another has taken it away.
Stands(r) ==
    /\ RevocationsOf(r.revoke) # {}
    /\ \/ \E x \in RevocationsOf(r.revoke) : x.scope = r.scope
       \/ \E q \in Batch : q.op = "reset" /\ q.revoke = r.revoke /\ q.scope # r.scope /\ job[q].pc # "new"

RevokedInv == \A r \in Batch : r.op \in {"revoke", "reset"} /\ job[r].pc = "done" => Stands(r)

AccessInv == StoredInv /\ RevokedInv

\* A step that puts no delegation in the table and fetches none.
LEMMA StoredRests ==
    ASSUME JobInv, StoredInv, Batch' = Batch, stored \subseteq stored', delegations' = delegations,
           \A r \in Granting : job'[r].seen \subseteq job[r].seen \union stored',
           \A r \in Batch : r.op = "find" =>
               job'[r] = job[r] \/ job'[r].pc \notin {"refused", "fetch"}
    PROVE  StoredInv'
  <1>1. Granting' = Granting
    BY DEF Granting
  <1>2. QED
    BY <1>1 DEF StoredInv

\* A step that adds no revocation: no request begins again.
LEMMA RevokedRests ==
    ASSUME JobInv, RevokedInv, Batch' = Batch, revocations' = revocations,
           \A r \in Batch : r.op \in {"revoke", "reset"} =>
               job'[r] = job[r] \/ job'[r].pc = "failed"
    PROVE  RevokedInv'
  <1> SUFFICES ASSUME NEW r \in Batch, r.op \in {"revoke", "reset"}, job[r].pc = "done", job'[r] = job[r]
               PROVE  Stands(r)'
    BY DEF RevokedInv
  <1>1. Stands(r)
    BY DEF RevokedInv
  <1>2. \A q \in Batch : q.op = "reset" /\ job[q].pc # "new" => job'[q].pc # "new"
    OBVIOUS
  <1>3. RevocationsOf(r.revoke)' = RevocationsOf(r.revoke)
    BY DEF RevocationsOf
  <1>4. QED
    BY <1>1, <1>2, <1>3 DEF Stands

LEMMA DelegationsKeep ==
    ASSUME JobInv, AccessInv, NEW r \in Batch,
           Confirm(r) \/ StoreDelegation(r) \/ IndexDelegations(r)
    PROVE  AccessInv'
  <1>1. r.op \in GrantingOps /\ r \in Granting /\ Granting \subseteq Batch /\ revocations' = revocations
    BY DEF Confirm, StoreDelegation, IndexDelegations, Granting, GrantingOps, At, access
  <1>2. CASE Confirm(r)
    <2>1. Moves(r, "store") /\ job'[r].seen = job[r].seen /\ UNCHANGED access
      BY <1>2, GoMoves DEF Confirm
    <2>2. StoredInv'
      BY <1>1, <2>1, StoredRests DEF AccessInv, StoredInv, Moves, access, GrantingOps
    <2>3. RevokedInv'
      BY <1>1, <2>1, RevokedRests DEF AccessInv, Moves, access, GrantingOps
    <2>4. QED
      BY <2>2, <2>3 DEF AccessInv
  <1>3. CASE StoreDelegation(r)
    <2>1. PICK d : Sees(r, job[r].seen \union {d}) /\ stored' = stored \union {d}
      BY <1>3 DEF StoreDelegation, Sees
    <2>2. Moves(r, job[r].pc) /\ job'[r].seen = job[r].seen \union {d} /\ delegations' = delegations
      BY <1>3, <2>1, SeenMoves DEF StoreDelegation
    <2>3. StoredInv'
      BY <1>1, <2>1, <2>2, StoredRests DEF AccessInv, StoredInv, Moves, GrantingOps
    <2>4. RevokedInv'
      BY <1>1, <2>2, RevokedRests DEF AccessInv, Moves, GrantingOps
    <2>5. QED
      BY <2>3, <2>4 DEF AccessInv
  <1>4. CASE IndexDelegations(r)
    <2>1. PICK lost \in SUBSET r.delegations :
            delegations' = delegations \union {[link |-> d, audience |-> r.audience] : d \in r.delegations \ lost}
      BY <1>4 DEF IndexDelegations
    <2>2. r.delegations \subseteq stored /\ stored' = stored
      BY <1>1, <1>4 DEF IndexDelegations, Stored, AccessInv, StoredInv
    <2>3. PICK pc : Moves(r, pc) /\ job'[r].seen = job[r].seen
      BY <1>4, GoMoves DEF IndexDelegations
    <2>4. \A x \in delegations' : x.link \in stored
      BY <2>1, <2>2 DEF AccessInv, StoredInv
    <2>5. Granting' = Granting
      BY <2>3 DEF Granting, Moves
    <2>6. StoredInv'
      BY <1>1, <2>2, <2>3, <2>4, <2>5 DEF AccessInv, StoredInv, Moves, GrantingOps
    <2>7. RevokedInv'
      BY <1>1, <2>3, RevokedRests DEF AccessInv, Moves, GrantingOps
    <2>8. QED
      BY <2>6, <2>7 DEF AccessInv
  <1>5. QED
    BY <1>2, <1>3, <1>4

LEMMA FindsKeep ==
    ASSUME JobInv, AccessInv, NEW r \in Batch, FindByAudience(r) \/ Fetch(r) \/ CheckRevocations(r)
    PROVE  AccessInv'
  <1>1. UNCHANGED access /\ r.op \in {"find", "check"}
    BY DEF FindByAudience, Fetch, CheckRevocations, At
  <1>2. CASE FindByAudience(r)
    <2>1. PICK links \in SUBSET {x.link : x \in {y \in delegations : y.audience = r.audience}} :
            Read(r, "fetch", links)
      BY <1>2 DEF FindByAudience
    <2>2. Moves(r, "fetch") /\ job'[r].seen = links
      BY <2>1, ReadMoves
    <2>3. links \subseteq stored
      BY <2>1 DEF AccessInv, StoredInv
    <2>4. Granting' = Granting /\ r \notin Granting
      BY <1>1, <2>2 DEF Granting, Moves
    <2>5. StoredInv'
      BY <1>1, <2>2, <2>3, <2>4 DEF AccessInv, StoredInv, Moves, access, Granting
    <2>6. RevokedInv'
      BY <1>1, <2>2, RevokedRests DEF AccessInv, Moves, access
    <2>7. QED
      BY <2>5, <2>6 DEF AccessInv
  <1>3. CASE Fetch(r)
    <2>1. Moves(r, "done")
      BY <1>3, GoMoves DEF Fetch, At, AccessInv, StoredInv
    <2>2. StoredInv'
      BY <1>1, <2>1, StoredRests DEF AccessInv, StoredInv, Moves, access, Granting
    <2>3. RevokedInv'
      BY <1>1, <2>1, RevokedRests DEF AccessInv, Moves, access
    <2>4. QED
      BY <2>2, <2>3 DEF AccessInv
  <1>4. CASE CheckRevocations(r)
    <2>1. Moves(r, "done") /\ r.op = "check"
      BY <1>4, ReadMoves DEF CheckRevocations, At
    <2>2. StoredInv'
      BY <1>1, <2>1, StoredRests DEF AccessInv, StoredInv, Moves, access, Granting
    <2>3. RevokedInv'
      BY <1>1, <2>1, RevokedRests DEF AccessInv, Moves, access
    <2>4. QED
      BY <2>2, <2>3 DEF AccessInv
  <1>5. QED
    BY <1>2, <1>3, <1>4

LEMMA RevocationsKeep ==
    ASSUME JobInv, AccessInv, NEW r \in Batch, AddRevocation(r) \/ ResetRevocations(r)
    PROVE  AccessInv'
  <1>1. /\ r.op \in {"revoke", "reset"} /\ job[r].pc = "new" /\ UNCHANGED <<stored, delegations>>
        /\ Moves(r, "done") \/ Moves(r, "failed")
        /\ Revocation(r) \in revocations'
    BY AnsweredMoves DEF AddRevocation, ResetRevocations, At
  <1>2. Batch' = Batch /\ job'[r].pc \in {"done", "failed"} /\ \A q \in Batch \ {r} : job'[q] = job[q]
    BY <1>1 DEF Moves
  <1>3. StoredInv'
    BY <1>1, <1>2, StoredRests DEF AccessInv, StoredInv, Granting
  <1>4. Revocation(r).revoke = r.revoke /\ Revocation(r).scope = r.scope
    BY DEF Revocation
  <1>5. ASSUME NEW q \in Batch, q.op \in {"revoke", "reset"}, job'[q].pc = "done"
        PROVE  Stands(q)'
    <2>1. CASE q.revoke = r.revoke
      <3>1. Revocation(r) \in RevocationsOf(q.revoke)'
        BY <1>1, <1>4, <2>1 DEF RevocationsOf
      <3>2. CASE q.scope = r.scope
        BY <1>4, <3>1, <3>2 DEF Stands
      <3>3. CASE q.scope # r.scope /\ r.op = "reset"
        BY <1>2, <2>1, <3>1, <3>3 DEF Stands
      <3>4. CASE q.scope # r.scope /\ r.op = "revoke"
        <4>1. AddRevocation(r)
          BY <3>4 DEF ResetRevocations, At
        <4>2. Stands(q)
          BY <1>2, <1>5, <3>4 DEF AccessInv, RevokedInv
        <4>3. \A x \in RevocationsOf(q.revoke) : x.scope = q.scope => x \in RevocationsOf(q.revoke)'
          BY <2>1, <3>4, <4>1 DEF AddRevocation, Replaced, RevocationsOf
        <4>4. \A p \in Batch : job[p].pc # "new" => job'[p].pc # "new"
          BY <1>2
        <4>5. QED
          BY <1>2, <3>1, <4>2, <4>3, <4>4 DEF Stands
      <3>5. QED
        BY <1>1, <3>2, <3>3, <3>4
    <2>2. CASE q.revoke # r.revoke
      <3>1. RevocationsOf(q.revoke)' = RevocationsOf(q.revoke)
        BY <1>4, <2>2 DEF AddRevocation, ResetRevocations, Replaced, RevocationsOf
      <3>2. Stands(q)
        BY <1>2, <1>5, <2>2 DEF AccessInv, RevokedInv
      <3>3. \A p \in Batch : job[p].pc # "new" => job'[p].pc # "new"
        BY <1>2
      <3>4. QED
        BY <1>2, <3>1, <3>2, <3>3 DEF Stands
    <2>3. QED
      BY <2>1, <2>2
  <1>6. QED
    BY <1>2, <1>3, <1>5 DEF AccessInv, RevokedInv

\* A step of another part.
LEMMA AccessRests ==
    ASSUME JobInv, AccessInv, Batch' = Batch, UNCHANGED access,
           \A r \in Batch : r.op \in GrantingOps => job'[r].seen = job[r].seen,
           \A r \in Batch : r.op \in {"find", "revoke", "reset"} =>
               job'[r] = job[r] \/ job'[r].pc = "failed"
    PROVE  AccessInv'
  <1>1. StoredInv'
    BY StoredRests DEF AccessInv, StoredInv, access, Granting, GrantingOps
  <1>2. RevokedInv'
    BY RevokedRests DEF AccessInv, access
  <1>3. QED
    BY <1>1, <1>2 DEF AccessInv

(***************************************************************************)
(* Whatever stops half way, what a listing of delegations shows can be     *)
(* fetched, and a revocation that was answered stands.                     *)
(***************************************************************************)
THEOREM DelegationsAndRevocationsAreKept == Spec => []AccessIsKept
  <1>1. Init => JobInv /\ AccessInv
    <2> SUFFICES ASSUME Init PROVE AccessInv
      BY JobsBegin
    <2>1. \A r \in Batch : job[r].pc = "new" /\ job[r].seen = {}
      BY DEF Init, RequestsInit, Batch
    <2>2. QED
      BY <2>1 DEF Init, AccessInit, AccessInv, StoredInv, RevokedInv, Granting
  <1>2. JobInv /\ AccessInv /\ [Next]_vars => JobInv' /\ AccessInv'
    <2> SUFFICES ASSUME JobInv, AccessInv, [Next]_vars PROVE AccessInv'
      BY JobsKept
    <2>1. CASE AccessNext
      BY <2>1, DelegationsKeep, FindsKeep, RevocationsKeep DEF AccessNext
    <2>2. CASE ProvisionsNext /\ UNCHANGED access
      <3>1. \A r \in Batch : r.op # "provision" => job'[r] = job[r]
        BY <2>2, ProvisionMoves, OthersRest
      <3>2. QED
        BY <2>2, <3>1, JobsKept, AccessRests DEF GrantingOps
    <2>3. CASE (CustomersNext \/ ToolsNext) /\ UNCHANGED access
      BY <2>3, ToolsAndCustomersElsewhere, JobsKept, AccessRests DEF Elsewhere
    <2>4. CASE (\E r \in Batch : Stop(r)) /\ UNCHANGED access
      BY <2>4, StopMoves, JobsKept, AccessRests DEF Moves
    <2>5. CASE UNCHANGED vars
      BY <2>5, JobsKept, AccessRests DEF vars
    <2>6. QED
      BY <2>1, <2>2, <2>3, <2>4, <2>5 DEF Next, Parts
  <1>3. JobInv /\ AccessInv => AccessIsKept
    BY DEF AccessInv, StoredInv, RevokedInv, Stands, AccessIsKept
  <1>4. QED
    BY <1>1, <1>2, <1>3, PTL DEF Spec

(***************************************************************************)
(* The migration. Accounts and what a run has in hand are records.         *)
(***************************************************************************)
StripeShape ==
    stripe = [s \in Account |->
                [state |-> stripe[s].state, customer |-> stripe[s].customer, plan |-> stripe[s].plan,
                 no |-> stripe[s].no, paid |-> stripe[s].paid, schedule |-> stripe[s].schedule,
                 charges |-> stripe[s].charges, held |-> stripe[s].held]]

WorkShape(work) ==
    /\ DOMAIN work \subseteq DOMAIN Standing
    /\ work = [s \in DOMAIN work |->
                 [step |-> work[s].step, scheduled |-> work[s].scheduled, owner |-> work[s].owner]]

RunShape(n) ==
    /\ n = [last |-> n.last, from |-> n.from, work |-> n.work, more |-> n.more,
            review |-> n.review, prices |-> n.prices]
    /\ n.last \in Nat
    /\ WorkShape(n.work)

Runs == {r \in Batch : r.op = "migrate" /\ job[r].pc # "new"}

\* Run r has subscription s in its page, at a step.
Works(r, s) == job[r].pc = "page" /\ s \in DOMAIN job[r].seen.work

Step(r, s) == job[r].seen.work[s].step

\* A subscription is charged once: by the run that made its schedule, between that
\* and the phases.
AccountInv(s) ==
    /\ stripe[s].charges \in {0, 1}
    /\ stripe[s].state = "none" => stripe[s].schedule = "none"
    /\ stripe[s].schedule = "none" => stripe[s].charges = 0

Covered(r, s) == stripe[s].schedule = "phased" \/ s \in job[r].seen.review

WorkInv(r, s) ==
    /\ Step(r, s) \in {"charge", "phases", "find", "update"} => stripe[s].schedule # "none"
    /\ Step(r, s) = "charge" => stripe[s].charges = 0
    /\ Step(r, s) \in {"find", "update"} => stripe[s].schedule = "phased"
    /\ Step(r, s) = "over" => Covered(r, s)

ChargeInv ==
    \A q, r \in Runs : \A s \in DOMAIN Standing :
        Works(q, s) /\ Works(r, s) /\ Step(q, s) = "charge" /\ Step(r, s) = "charge" => q = r

\* The run is still to come to s.
Pending(r, s) ==
    \/ job[r].pc = "list" /\ s > job[r].seen.last
    \/ /\ job[r].pc = "page"
       /\ \/ s \in DOMAIN job[r].seen.work /\ Step(r, s) # "over"
          \/ /\ job[r].seen.more /\ s > job[r].seen.last
             /\ \A t \in DOMAIN job[r].seen.work : t < s

\* What a run of one price, from the start, has covered.
DueInv(r) ==
    Len(r.prices) = 1 /\ job[r].pc # "failed" /\ job[r].seen.from = 0 =>
        /\ job[r].pc # "done" => job[r].seen.prices = r.prices
        /\ \A s \in DOMAIN Standing :
             Live(s) /\ Price(s) = r.prices[1] => Covered(r, s) \/ Pending(r, s)

MigrationInv ==
    /\ StripeShape
    /\ \A s \in Account : AccountInv(s)
    /\ \A r \in Batch : r.op = "migrate" => \A s \in DOMAIN Standing : stripe[s].state # "none"
    /\ \A r \in Runs : RunShape(job[r].seen) /\ DueInv(r)
    /\ \A r \in Runs : \A s \in DOMAIN Standing : Works(r, s) => WorkInv(r, s)
    /\ ChargeInv

LEMMA AccountsTyped ==
    ASSUME StripeShape
    PROVE  stripe \in [Account -> [state : {stripe[t].state : t \in Account},
                                   customer : {stripe[t].customer : t \in Account},
                                   plan : {stripe[t].plan : t \in Account},
                                   no : {stripe[t].no : t \in Account},
                                   paid : {stripe[t].paid : t \in Account},
                                   schedule : {stripe[t].schedule : t \in Account},
                                   charges : {stripe[t].charges : t \in Account},
                                   held : {stripe[t].held : t \in Account}]]
  BY DEF StripeShape

\* A change of account s, as far as it matters here.
Becomes(s, state, schedule, charges) ==
    /\ StripeShape'
    /\ \A t \in Account \ {s} : stripe'[t] = stripe[t]
    /\ stripe'[s].state = state /\ stripe'[s].schedule = schedule /\ stripe'[s].charges = charges

LEMMA AccountBecomes ==
    ASSUME StripeShape, NEW s \in Account, NEW state, NEW customer, NEW plan, NEW no, NEW paid,
           NEW schedule, NEW charges, NEW held,
           stripe' = [t \in Account |-> stripe'[t]],
           \A t \in Account \ {s} : stripe'[t] = stripe[t],
           stripe'[s] = [state |-> state, customer |-> customer, plan |-> plan, no |-> no,
                         paid |-> paid, schedule |-> schedule, charges |-> charges, held |-> held]
    PROVE  Becomes(s, state, schedule, charges)
  BY DEF StripeShape, Becomes

LEMMA AccountSet ==
    ASSUME StripeShape, NEW s \in Account, NEW v, NEW w
    PROVE  /\ stripe' = [stripe EXCEPT ![s].state = v] =>
                Becomes(s, v, stripe[s].schedule, stripe[s].charges)
           /\ stripe' = [stripe EXCEPT ![s].customer = v] =>
                Becomes(s, stripe[s].state, stripe[s].schedule, stripe[s].charges)
           /\ stripe' = [stripe EXCEPT ![s].plan = v] =>
                Becomes(s, stripe[s].state, stripe[s].schedule, stripe[s].charges)
           /\ stripe' = [stripe EXCEPT ![s].charges = v] =>
                Becomes(s, stripe[s].state, stripe[s].schedule, v)
           /\ stripe' = [stripe EXCEPT ![s].schedule = v] =>
                Becomes(s, stripe[s].state, v, stripe[s].charges)
           /\ stripe' = [stripe EXCEPT ![s].schedule = v, ![s].plan = w] =>
                Becomes(s, stripe[s].state, v, stripe[s].charges)
  <1> DEFINE A == {stripe[t].state : t \in Account}
             B == {stripe[t].customer : t \in Account}
             C == {stripe[t].plan : t \in Account}
             D == {stripe[t].no : t \in Account}
             E == {stripe[t].paid : t \in Account}
             F == {stripe[t].schedule : t \in Account}
             G == {stripe[t].charges : t \in Account}
             H == {stripe[t].held : t \in Account}
  <1>1. stripe \in [Account -> [state : A, customer : B, plan : C, no : D, paid : E, schedule : F, charges : G, held : H]]
    BY AccountsTyped
  <1> HIDE DEF A, B, C, D, E, F, G, H
  <1>2. ASSUME stripe' = [stripe EXCEPT ![s].state = v]
        PROVE  Becomes(s, v, stripe[s].schedule, stripe[s].charges)
    <2>1. stripe'[s] = [state |-> v, customer |-> stripe[s].customer, plan |-> stripe[s].plan, no |-> stripe[s].no,
                     paid |-> stripe[s].paid, schedule |-> stripe[s].schedule, charges |-> stripe[s].charges,
                     held |-> stripe[s].held]
      BY <1>1, <1>2
    <2>2. stripe' = [t \in Account |-> stripe'[t]] /\ \A t \in Account \ {s} : stripe'[t] = stripe[t]
      BY <1>1, <1>2
    <2>3. QED
      BY <2>1, <2>2, AccountBecomes
  <1>3. ASSUME stripe' = [stripe EXCEPT ![s].customer = v]
        PROVE  Becomes(s, stripe[s].state, stripe[s].schedule, stripe[s].charges)
    <2>1. stripe'[s] = [state |-> stripe[s].state, customer |-> v, plan |-> stripe[s].plan, no |-> stripe[s].no,
                     paid |-> stripe[s].paid, schedule |-> stripe[s].schedule, charges |-> stripe[s].charges,
                     held |-> stripe[s].held]
      BY <1>1, <1>3
    <2>2. stripe' = [t \in Account |-> stripe'[t]] /\ \A t \in Account \ {s} : stripe'[t] = stripe[t]
      BY <1>1, <1>3
    <2>3. QED
      BY <2>1, <2>2, AccountBecomes
  <1>4. ASSUME stripe' = [stripe EXCEPT ![s].plan = v]
        PROVE  Becomes(s, stripe[s].state, stripe[s].schedule, stripe[s].charges)
    <2>1. stripe'[s] = [state |-> stripe[s].state, customer |-> stripe[s].customer, plan |-> v, no |-> stripe[s].no,
                     paid |-> stripe[s].paid, schedule |-> stripe[s].schedule, charges |-> stripe[s].charges,
                     held |-> stripe[s].held]
      BY <1>1, <1>4
    <2>2. stripe' = [t \in Account |-> stripe'[t]] /\ \A t \in Account \ {s} : stripe'[t] = stripe[t]
      BY <1>1, <1>4
    <2>3. QED
      BY <2>1, <2>2, AccountBecomes
  <1>5. ASSUME stripe' = [stripe EXCEPT ![s].charges = v]
        PROVE  Becomes(s, stripe[s].state, stripe[s].schedule, v)
    <2>1. stripe'[s] = [state |-> stripe[s].state, customer |-> stripe[s].customer, plan |-> stripe[s].plan, no |-> stripe[s].no,
                     paid |-> stripe[s].paid, schedule |-> stripe[s].schedule, charges |-> v,
                     held |-> stripe[s].held]
      BY <1>1, <1>5
    <2>2. stripe' = [t \in Account |-> stripe'[t]] /\ \A t \in Account \ {s} : stripe'[t] = stripe[t]
      BY <1>1, <1>5
    <2>3. QED
      BY <2>1, <2>2, AccountBecomes
  <1>6. ASSUME stripe' = [stripe EXCEPT ![s].schedule = v]
        PROVE  Becomes(s, stripe[s].state, v, stripe[s].charges)
    <2>1. stripe'[s] = [state |-> stripe[s].state, customer |-> stripe[s].customer, plan |-> stripe[s].plan, no |-> stripe[s].no,
                     paid |-> stripe[s].paid, schedule |-> v, charges |-> stripe[s].charges,
                     held |-> stripe[s].held]
      BY <1>1, <1>6
    <2>2. stripe' = [t \in Account |-> stripe'[t]] /\ \A t \in Account \ {s} : stripe'[t] = stripe[t]
      BY <1>1, <1>6
    <2>3. QED
      BY <2>1, <2>2, AccountBecomes
  <1>7. ASSUME stripe' = [stripe EXCEPT ![s].schedule = v, ![s].plan = w]
        PROVE  Becomes(s, stripe[s].state, v, stripe[s].charges)
    <2>1. stripe'[s] = [state |-> stripe[s].state, customer |-> stripe[s].customer, plan |-> w, no |-> stripe[s].no,
                     paid |-> stripe[s].paid, schedule |-> v, charges |-> stripe[s].charges,
                     held |-> stripe[s].held]
      BY <1>1, <1>7
    <2>2. stripe' = [t \in Account |-> stripe'[t]] /\ \A t \in Account \ {s} : stripe'[t] = stripe[t]
      BY <1>1, <1>7
    <2>3. QED
      BY <2>1, <2>2, AccountBecomes
  <1>8. QED
    BY <1>2, <1>3, <1>4, <1>5, <1>6, <1>7

LEMMA AccountPut ==
    ASSUME StripeShape, NEW s \in Account, NEW y,
           y = [state |-> y.state, customer |-> y.customer, plan |-> y.plan, no |-> y.no,
                paid |-> y.paid, schedule |-> y.schedule, charges |-> y.charges, held |-> y.held],
           stripe' = [stripe EXCEPT ![s] = y]
    PROVE  Becomes(s, y.state, y.schedule, y.charges)
  BY AccountBecomes DEF StripeShape

\* What is not of the migration makes an account or leaves its charges and schedule.
Undisturbed ==
    /\ StripeShape'
    /\ \A s \in Account :
         \/ /\ stripe'[s].schedule = stripe[s].schedule /\ stripe'[s].charges = stripe[s].charges
            /\ stripe'[s].state \in {stripe[s].state, "deleted"}
         \/ /\ stripe[s].state = "none" /\ stripe'[s].state = "live"
            /\ stripe'[s].schedule = "none" /\ stripe'[s].charges = 0

LEMMA NothingDisturbs == StripeShape /\ UNCHANGED stripe => Undisturbed
  BY DEF StripeShape, Undisturbed

LEMMA ChangeDisturbs ==
    ASSUME StripeShape, NEW s \in Account, NEW state,
           \/ Becomes(s, state, stripe[s].schedule, stripe[s].charges) /\ state \in {stripe[s].state, "deleted"}
           \/ Becomes(s, state, "none", 0) /\ stripe[s].state = "none" /\ state = "live"
    PROVE  Undisturbed
  BY DEF Undisturbed, Becomes

\* What a new subscription makes of the record of an account.
LEMMA Subscribed ==
    ASSUME NEW A, NEW B, NEW C, NEW D, NEW E, NEW F, NEW G, NEW H,
           NEW x \in [state : A, customer : B, plan : C, no : D, paid : E, schedule : F, charges : G, held : H],
           NEW y, NEW customer, NEW plan, NEW no, NEW held, NEW paid
    PROVE  /\ y = [x EXCEPT !.state = "live", !.customer = customer, !.plan = plan, !.no = no, !.held = held,
                           !.paid = paid] =>
                y = [state |-> "live", customer |-> customer, plan |-> plan, no |-> no, paid |-> paid,
                     schedule |-> x.schedule, charges |-> x.charges, held |-> held]
           /\ y = [x EXCEPT !.plan = plan, !.no = no, !.held = held] =>
                y = [state |-> x.state, customer |-> x.customer, plan |-> plan, no |-> no, paid |-> x.paid,
                     schedule |-> x.schedule, charges |-> x.charges, held |-> held]
  OBVIOUS

LEMMA StandingMade ==
    ASSUME NEW A, NEW B, NEW C, NEW D, NEW E, NEW F, NEW G, NEW H,
           NEW x \in [state : A, customer : B, plan : C, no : D, paid : E, schedule : F, charges : G, held : H],
           NEW y, NEW customer, NEW plan, NEW paid
    PROVE  y = [x EXCEPT !.state = "live", !.customer = customer, !.plan = plan, !.held = 1, !.paid = paid] =>
                y = [state |-> "live", customer |-> customer, plan |-> plan, no |-> x.no, paid |-> paid,
                     schedule |-> x.schedule, charges |-> x.charges, held |-> 1]
  OBVIOUS

LEMMA CheckoutUndisturbed ==
    ASSUME JobInv, StripeShape, NEW r \in Batch, CompleteCheckout(r)
    PROVE  Undisturbed
  <1>1. PICK s, y, paid :
          /\ s \in Account /\ stripe[s].state = "none" /\ Subscribe(s, y)
          /\ y = [NoAccount EXCEPT !.state = "live", !.customer = r.customer, !.plan = r.plan, !.no = 1, !.held = 1,
                                   !.paid = paid]
    BY DEF CompleteCheckout
  <1>2. /\ NoAccount \in [state : {"none"}, customer : {None}, plan : {None}, no : {0},
                          paid : {FALSE}, schedule : {"none"}, charges : {0}, held : {0}]
        /\ NoAccount.schedule = "none" /\ NoAccount.charges = 0
    BY DEF NoAccount
  <1>3. y = [state |-> "live", customer |-> r.customer, plan |-> r.plan, no |-> 1, paid |-> paid,
             schedule |-> "none", charges |-> 0, held |-> 1]
    BY <1>1, <1>2, Subscribed
  <1>4. Becomes(s, "live", "none", 0)
    <2>1. /\ y.state = "live" /\ y.schedule = "none" /\ y.charges = 0
          /\ y = [state |-> y.state, customer |-> y.customer, plan |-> y.plan, no |-> y.no,
                  paid |-> y.paid, schedule |-> y.schedule, charges |-> y.charges, held |-> y.held]
      BY <1>3
    <2>2. stripe' = [stripe EXCEPT ![s] = y]
      BY <1>1 DEF Subscribe
    <2>3. Becomes(s, y.state, y.schedule, y.charges)
      BY <1>1, <2>1, <2>2, AccountPut
    <2>4. QED
      BY <2>1, <2>3
  <1>5. QED
    BY <1>1, <1>4, ChangeDisturbs

LEMMA ResubscribeUndisturbed ==
    ASSUME JobInv, StripeShape, NEW r \in Batch, Resubscribe(r)
    PROVE  Undisturbed
  <1>1. PICK s, y, n, held :
          s \in Account /\ y = [stripe[s] EXCEPT !.plan = r.plan, !.no = n, !.held = held] /\ Subscribe(s, y)
    BY DEF Resubscribe
  <1>2. PICK A, B, C, D, E, F, G, H :
          stripe[s] \in [state : A, customer : B, plan : C, no : D, paid : E, schedule : F, charges : G, held : H]
    BY <1>1, AccountsTyped
  <1>3. y = [state |-> stripe[s].state, customer |-> stripe[s].customer, plan |-> r.plan, no |-> n,
             paid |-> stripe[s].paid, schedule |-> stripe[s].schedule, charges |-> stripe[s].charges, held |-> held]
    BY <1>1, <1>2, Subscribed
  <1>4. Becomes(s, stripe[s].state, stripe[s].schedule, stripe[s].charges)
    <2>1. /\ y.state = stripe[s].state /\ y.schedule = stripe[s].schedule /\ y.charges = stripe[s].charges
          /\ y = [state |-> y.state, customer |-> y.customer, plan |-> y.plan, no |-> y.no,
                  paid |-> y.paid, schedule |-> y.schedule, charges |-> y.charges, held |-> y.held]
      BY <1>3
    <2>2. stripe' = [stripe EXCEPT ![s] = y]
      BY <1>1 DEF Subscribe
    <2>3. Becomes(s, y.state, y.schedule, y.charges)
      BY <1>1, <2>1, <2>2, AccountPut
    <2>4. QED
      BY <2>1, <2>3
  <1>5. QED
    BY <1>1, <1>4, ChangeDisturbs

\* An account that is not there is not changed.
LEMMA NoSuchAccount ==
    ASSUME StripeShape, NEW s, s \notin Account, NEW v,
           \/ stripe' = [stripe EXCEPT ![s].plan = v]
           \/ stripe' = [stripe EXCEPT ![s].state = v]
    PROVE  UNCHANGED stripe
  <1>1. DOMAIN stripe = Account /\ stripe = [t \in Account |-> stripe[t]]
    BY DEF StripeShape
  <1>2. QED
    BY <1>1

LEMMA OthersUndisturbed ==
    ASSUME JobInv, StripeShape, CustomersNext \/ \E r \in Batch : DedupeNext(r)
    PROVE  Undisturbed
  <1>1. CASE CustomersNext
    <2>1. CASE UNCHANGED stripe
      BY <2>1, NothingDisturbs
    <2>2. CASE \E r \in Batch : CompleteCheckout(r) \/ Resubscribe(r)
      BY <2>2, CheckoutUndisturbed, ResubscribeUndisturbed
    <2>3. ASSUME NEW r \in Batch, ChangeEmail(r) PROVE Undisturbed
      <3>1. PICK s \in Account : stripe' = [stripe EXCEPT ![s].customer = r.customer]
        BY <2>3 DEF ChangeEmail
      <3>2. Becomes(s, stripe[s].state, stripe[s].schedule, stripe[s].charges)
        BY <3>1, AccountSet
      <3>3. QED
        BY <3>2, ChangeDisturbs
    <2>4. ASSUME NEW r \in Batch, SetInStripe(r), stripe' # stripe PROVE Undisturbed
      <3>1. PICK s : stripe' = [stripe EXCEPT ![s].plan = r.plan]
        BY <2>4 DEF SetInStripe
      <3>2. s \in Account
        BY <2>4, <3>1, NoSuchAccount
      <3>3. Becomes(s, stripe[s].state, stripe[s].schedule, stripe[s].charges)
        BY <3>1, <3>2, AccountSet
      <3>4. QED
        BY <3>2, <3>3, ChangeDisturbs
    <2>5. QED
      <3>1. ASSUME NEW r \in Batch,
                   \/ Checkout(r) \/ Webhook(r) \/ LookUpAccount(r) \/ UpdateOwner(r) \/ LookUpCustomer(r)
                   \/ PutSubscribed(r) \/ FindToSet(r) \/ AccountToSet(r) \/ SetInTable(r)
                   \/ Initialize(r) \/ PutInitialized(r)
            PROVE  UNCHANGED stripe
        BY <3>1 DEF Checkout, Webhook, LookUpAccount, UpdateOwner, LookUpCustomer, PutSubscribed, FindToSet,
                    AccountToSet, SetInTable, Initialize, PutInitialized, billing
      <3>2. ASSUME NEW r \in Batch,
                   \/ SignIn(r) \/ SignedUpBefore(r) \/ KnownHuman(r) \/ AskProvider(r)
                   \/ PutTrial(r) \/ AddHuman(r)
            PROVE  UNCHANGED stripe
        BY <3>2 DEF SignIn, SignedUpBefore, KnownHuman, AskProvider, PutTrial, AddHuman, billing
      <3>3. Propagate => UNCHANGED stripe
        BY DEF Propagate
      <3>4. QED
        BY <1>1, <2>1, <2>2, <2>3, <2>4, <3>1, <3>2, <3>3 DEF CustomersNext
  <1>2. ASSUME NEW r \in Batch, DedupeNext(r) PROVE Undisturbed
    <2>1. CASE UNCHANGED stripe
      BY <2>1, NothingDisturbs
    <2>2. ASSUME NEW s, stripe' = [stripe EXCEPT ![s].state = "deleted"], stripe' # stripe PROVE Undisturbed
      <3>1. s \in Account
        BY <2>2, NoSuchAccount
      <3>2. Becomes(s, "deleted", stripe[s].schedule, stripe[s].charges)
        BY <2>2, <3>1, AccountSet
      <3>3. QED
        BY <3>1, <3>2, ChangeDisturbs
    <2>3. UNCHANGED stripe \/ \E s : stripe' = [stripe EXCEPT ![s].state = "deleted"]
      BY <1>2 DEF DedupeNext, StartDedupe, MappedAccount, SelectCanonical, DeleteAccount, GroupDone, billing
    <2>4. QED
      BY <2>1, <2>2, <2>3
  <1>3. QED
    BY <1>1, <1>2

\* A step of another part, or a run that stops.
LEMMA MigrationRests ==
    ASSUME JobInv, MigrationInv, Batch' = Batch, Undisturbed,
           \A r \in Batch : r.op = "migrate" =>
               \/ job'[r] = job[r]
               \/ job'[r].pc = "failed" /\ job[r].pc # "new" /\ job'[r].seen = job[r].seen
    PROVE  MigrationInv'
  <1>1. StripeShape' /\ \A s \in Account : AccountInv(s)'
    BY DEF Undisturbed, MigrationInv, AccountInv
  <1>2. \A r \in Batch : r.op = "migrate" => \A s \in DOMAIN Standing : stripe'[s].state # "none"
    BY ToolAssumption DEF Undisturbed, MigrationInv
  <1>3. /\ Runs' = Runs
        /\ \A r \in Runs : /\ r \in Batch /\ r.op = "migrate" /\ job'[r].seen = job[r].seen
                           /\ job'[r].pc \in {job[r].pc, "failed"}
    BY DEF Runs
  <1>4. ASSUME NEW r \in Runs, NEW s \in DOMAIN Standing
        PROVE  /\ stripe'[s].schedule = stripe[s].schedule /\ stripe'[s].charges = stripe[s].charges
               /\ stripe'[s].state = "live" => stripe[s].state = "live"
    BY <1>3, ToolAssumption DEF Undisturbed, MigrationInv
  <1>5. ASSUME NEW r \in Runs PROVE RunShape(job[r].seen)' /\ DueInv(r)'
    <2>1. RunShape(job[r].seen)'
      BY <1>3 DEF MigrationInv
    <2>2. DueInv(r)'
      <3>1. DueInv(r)
        BY DEF MigrationInv
      <3>2. QED
        BY <1>3, <1>4, <3>1 DEF DueInv, Covered, Pending, Step, Live
    <2>3. QED
      BY <2>1, <2>2
  <1>6. ASSUME NEW r \in Runs, NEW s \in DOMAIN Standing, Works(r, s)'
        PROVE  Works(r, s) /\ Step(r, s)' = Step(r, s) /\ WorkInv(r, s)'
    <2>1. Works(r, s) /\ Step(r, s)' = Step(r, s)
      BY <1>3, <1>6 DEF Works, Step
    <2>2. WorkInv(r, s)
      BY <2>1 DEF MigrationInv
    <2>3. WorkInv(r, s)'
      BY <1>3, <1>4, <2>1, <2>2 DEF WorkInv, Covered
    <2>4. QED
      BY <2>1, <2>3
  <1>7. ChargeInv'
    BY <1>3, <1>6 DEF MigrationInv, ChargeInv
  <1>8. QED
    BY <1>1, <1>2, <1>3, <1>5, <1>6, <1>7 DEF MigrationInv

\* What calls of the script make of what a run has in hand, x: y.
Seen(x, y, s, step, scheduled, owner, last, review) ==
    /\ y = [last |-> last, from |-> x.from, work |-> y.work, more |-> x.more,
            review |-> review, prices |-> x.prices]
    /\ last \in {x.last, s}
    /\ y.work = [x.work EXCEPT ![s] = [step |-> step, scheduled |-> scheduled, owner |-> owner]]

LEMMA SeenSet ==
    ASSUME NEW x, RunShape(x), NEW s \in DOMAIN x.work, NEW step, NEW scheduled, NEW owner, NEW review, NEW y
    PROVE  /\ y = [x EXCEPT !.work[s].step = step] =>
                Seen(x, y, s, step, x.work[s].scheduled, x.work[s].owner, x.last, x.review)
           /\ y = [x EXCEPT !.work[s] = [step |-> step, scheduled |-> scheduled, owner |-> owner]] =>
                Seen(x, y, s, step, scheduled, owner, x.last, x.review)
           /\ y = [x EXCEPT !.work[s].step = step, !.review = @ \union review] =>
                Seen(x, y, s, step, x.work[s].scheduled, x.work[s].owner, x.last, x.review \union review)
           /\ y = [x EXCEPT !.work[s].step = step, !.last = s, !.review = @ \union review] =>
                Seen(x, y, s, step, x.work[s].scheduled, x.work[s].owner, s, x.review \union review)
  <1> DEFINE D == DOMAIN x.work
             A == {x.work[t].step : t \in D}
             B == {x.work[t].scheduled : t \in D}
             C == {x.work[t].owner : t \in D}
             L == {x.last}
             F == {x.from}
             M == {x.more}
             R == {x.review}
             Q == {x.prices}
  <1>0. s \in D /\ x \in [last : L, from : F, work : [D -> [step : A, scheduled : B, owner : C]],
                         more : M, review : R, prices : Q]
    <2>1. x.work \in [D -> [step : A, scheduled : B, owner : C]]
      BY DEF RunShape, WorkShape
    <2> HIDE DEF A, B, C, D
    <2>2. QED
      BY <2>1 DEF RunShape
  <1> HIDE DEF A, B, C, D, L, F, M, R, Q
  <1>1. ASSUME y = [x EXCEPT !.work[s].step = step]
        PROVE  Seen(x, y, s, step, x.work[s].scheduled, x.work[s].owner, x.last, x.review)
    <2>1. y.work = [x.work EXCEPT ![s] = [step |-> step, scheduled |-> x.work[s].scheduled, owner |-> x.work[s].owner]]
      BY <1>0, <1>1
    <2>2. y = [last |-> x.last, from |-> x.from, work |-> y.work, more |-> x.more,
               review |-> x.review, prices |-> x.prices]
      BY <1>0, <1>1
    <2>3. QED
      BY <2>1, <2>2 DEF Seen
  <1>2. ASSUME y = [x EXCEPT !.work[s] = [step |-> step, scheduled |-> scheduled, owner |-> owner]]
        PROVE  Seen(x, y, s, step, scheduled, owner, x.last, x.review)
    <2>1. y.work = [x.work EXCEPT ![s] = [step |-> step, scheduled |-> scheduled, owner |-> owner]]
      BY <1>0, <1>2
    <2>2. y = [last |-> x.last, from |-> x.from, work |-> y.work, more |-> x.more,
               review |-> x.review, prices |-> x.prices]
      BY <1>0, <1>2
    <2>3. QED
      BY <2>1, <2>2 DEF Seen
  <1>3. ASSUME y = [x EXCEPT !.work[s].step = step, !.review = @ \union review]
        PROVE  Seen(x, y, s, step, x.work[s].scheduled, x.work[s].owner, x.last, x.review \union review)
    <2>1. y.work = [x.work EXCEPT ![s] = [step |-> step, scheduled |-> x.work[s].scheduled, owner |-> x.work[s].owner]]
      BY <1>0, <1>3
    <2>2. y = [last |-> x.last, from |-> x.from, work |-> y.work, more |-> x.more,
               review |-> x.review \union review, prices |-> x.prices]
      BY <1>0, <1>3
    <2>3. QED
      BY <2>1, <2>2 DEF Seen
  <1>4. ASSUME y = [x EXCEPT !.work[s].step = step, !.last = s, !.review = @ \union review]
        PROVE  Seen(x, y, s, step, x.work[s].scheduled, x.work[s].owner, s, x.review \union review)
    <2>1. y.work = [x.work EXCEPT ![s] = [step |-> step, scheduled |-> x.work[s].scheduled, owner |-> x.work[s].owner]]
      BY <1>0, <1>4
    <2>2. y = [last |-> s, from |-> x.from, work |-> y.work, more |-> x.more,
               review |-> x.review \union review, prices |-> x.prices]
      BY <1>0, <1>4
    <2>3. QED
      BY <2>1, <2>2 DEF Seen
  <1>5. QED
    BY <1>1, <1>2, <1>3, <1>4

\* Run r takes subscription s to a step, with those in review.
Progresses(r, s, step, review) ==
    /\ Moves(r, "page")
    /\ RunShape(job'[r].seen)
    /\ DOMAIN job'[r].seen.work = DOMAIN job[r].seen.work
    /\ job'[r].seen.work[s].step = step
    /\ \A t \in DOMAIN job[r].seen.work \ {s} : job'[r].seen.work[t] = job[r].seen.work[t]
    /\ job'[r].seen.last \in {job[r].seen.last, s}
    /\ job'[r].seen.from = job[r].seen.from /\ job'[r].seen.more = job[r].seen.more
    /\ job'[r].seen.prices = job[r].seen.prices
    /\ job'[r].seen.review = review

LEMMA SeenProgresses ==
    ASSUME NEW r, RunShape(job[r].seen), NEW s \in DOMAIN job[r].seen.work, NEW step, NEW scheduled, NEW owner,
           NEW last, NEW review,
           Moves(r, "page"), Seen(job[r].seen, job'[r].seen, s, step, scheduled, owner, last, review)
    PROVE  Progresses(r, s, step, review)
  <1> DEFINE x == job[r].seen
             y == job'[r].seen
  <1>1. x.work = [t \in DOMAIN x.work |->
                    [step |-> x.work[t].step, scheduled |-> x.work[t].scheduled, owner |-> x.work[t].owner]]
        /\ DOMAIN x.work \subseteq DOMAIN Standing /\ x.last \in Nat
    BY DEF RunShape, WorkShape
  <1>2. y.work = [x.work EXCEPT ![s] = [step |-> step, scheduled |-> scheduled, owner |-> owner]]
    BY DEF Seen
  <1>3. y = [last |-> last, from |-> x.from, work |-> y.work, more |-> x.more, review |-> review, prices |-> x.prices]
    BY DEF Seen
  <1> HIDE DEF x, y
  <1>4. /\ DOMAIN y.work = DOMAIN x.work /\ y.work[s].step = step
        /\ \A t \in DOMAIN x.work \ {s} : y.work[t] = x.work[t]
    BY <1>1, <1>2 DEF x
  <1>5. WorkShape(y.work)
    BY <1>1, <1>2 DEF WorkShape, x
  <1>6. y.last = last /\ y.from = x.from /\ y.more = x.more /\ y.review = review /\ y.prices = x.prices
    BY <1>3
  <1>7. last \in Nat
    BY <1>1, ToolAssumption DEF x, Seen
  <1>8. RunShape(y)
    BY <1>3, <1>5, <1>6, <1>7 DEF RunShape
  <1>9. QED
    BY <1>4, <1>6, <1>8 DEF Progresses, x, y, Seen

LEMMA CallsProgress ==
    ASSUME JobInv, NEW r \in Batch, RunShape(job[r].seen), NEW s \in DOMAIN job[r].seen.work,
           NEW step, NEW scheduled, NEW owner, NEW review
    PROVE  /\ To(r, s, step) =>
                Progresses(r, s, step, job[r].seen.review)
           /\ Read(r, "page", [job[r].seen EXCEPT !.work[s] = [step |-> step, scheduled |-> scheduled, owner |-> owner]]) =>
                Progresses(r, s, step, job[r].seen.review)
           /\ Review(r, s) =>
                Progresses(r, s, "over", job[r].seen.review \union {s})
           /\ Processed(r, s, review) =>
                Progresses(r, s, "over", job[r].seen.review \union review)
  <1> DEFINE x == job[r].seen
             y == job'[r].seen
  <1>1. RunShape(x) /\ s \in DOMAIN x.work
    OBVIOUS
  <1>2. ASSUME To(r, s, step)
        PROVE  Progresses(r, s, step, x.review)
    <2>1. y = [x EXCEPT !.work[s].step = step]
      BY <1>2, ReadMoves DEF To
    <2>2. Moves(r, "page")
      BY <1>2, ReadMoves DEF To
    <2> HIDE DEF x, y
    <2>3. Seen(x, y, s, step, x.work[s].scheduled, x.work[s].owner, x.last, x.review)
      BY <1>1, <2>1, SeenSet, Zenon
    <2>4. QED
      BY <2>2, <2>3, SeenProgresses, Zenon DEF x, y
  <1>3. ASSUME Read(r, "page", [x EXCEPT !.work[s] = [step |-> step, scheduled |-> scheduled, owner |-> owner]])
        PROVE  Progresses(r, s, step, x.review)
    <2>1. y = [x EXCEPT !.work[s] = [step |-> step, scheduled |-> scheduled, owner |-> owner]]
      BY <1>3, ReadMoves
    <2>2. Moves(r, "page")
      BY <1>3, ReadMoves
    <2> HIDE DEF x, y
    <2>3. Seen(x, y, s, step, scheduled, owner, x.last, x.review)
      BY <1>1, <2>1, SeenSet, Zenon
    <2>4. QED
      BY <2>2, <2>3, SeenProgresses, Zenon DEF x, y
  <1>4. ASSUME Review(r, s)
        PROVE  Progresses(r, s, "over", x.review \union {s})
    <2>1. y = [x EXCEPT !.work[s].step = "over", !.review = @ \union {s}]
      BY <1>4, ReadMoves DEF Review
    <2>2. Moves(r, "page")
      BY <1>4, ReadMoves DEF Review
    <2> HIDE DEF x, y
    <2>3. Seen(x, y, s, "over", x.work[s].scheduled, x.work[s].owner, x.last, x.review \union {s})
      BY <1>1, <2>1, SeenSet, Zenon
    <2>4. QED
      BY <2>2, <2>3, SeenProgresses, Zenon DEF x, y
  <1>5. ASSUME Processed(r, s, review)
        PROVE  Progresses(r, s, "over", x.review \union review)
    <2>1. y = [x EXCEPT !.work[s].step = "over", !.last = s, !.review = @ \union review]
      BY <1>5, ReadMoves DEF Processed
    <2>2. Moves(r, "page")
      BY <1>5, ReadMoves DEF Processed
    <2> HIDE DEF x, y
    <2>3. Seen(x, y, s, "over", x.work[s].scheduled, x.work[s].owner, s, x.review \union review)
      BY <1>1, <2>1, SeenSet, Zenon
    <2>4. QED
      BY <2>2, <2>3, SeenProgresses, Zenon DEF x, y
  <1>6. QED
    BY <1>2, <1>3, <1>4, <1>5

(***************************************************************************)
(* A run that takes a subscription to its next step, whatever the call did *)
(* to the account: other accounts are as they were, what was scheduled or  *)
(* in its phases stays so, and only who is about to charge charges.        *)
(***************************************************************************)
LEMMA WorkKeeps ==
    ASSUME JobInv, MigrationInv, NEW r \in Runs, NEW s \in DOMAIN Standing, Works(r, s),
           NEW step, NEW review, Progresses(r, s, step, review), job[r].seen.review \subseteq review,
           StripeShape', \A t \in Account \ {s} : stripe'[t] = stripe[t],
           stripe'[s].state = stripe[s].state,
           AccountInv(s)',
           stripe[s].schedule # "none" => stripe'[s].schedule # "none",
           stripe[s].schedule = "phased" => stripe'[s].schedule = "phased",
           stripe'[s].charges = stripe[s].charges \/ Step(r, s) = "charge",
           WorkInv(r, s)',
           Step(r, s) # "over",
           step = "charge" => stripe[s].schedule = "none"
    PROVE  MigrationInv'
  <1>1. r \in Batch /\ r.op = "migrate" /\ s \in Account /\ DOMAIN Standing \subseteq Account
    BY ToolAssumption DEF Runs
  <1>2. /\ Batch' = Batch /\ job'[r].pc = "page" /\ job[r].pc = "page"
        /\ \A q \in Batch \ {r} : job'[q] = job[q]
    BY DEF Progresses, Moves, Works
  <1>3. Runs' = Runs
    BY <1>1, <1>2 DEF Runs
  <1>4. \A t \in Account : AccountInv(t)'
    BY <1>1 DEF MigrationInv, AccountInv
  <1>5. \A q \in Batch : q.op = "migrate" => \A t \in DOMAIN Standing : stripe'[t].state # "none"
    BY <1>1 DEF MigrationInv
  <1>6. \A t \in DOMAIN Standing :
          /\ stripe'[t].state = stripe[t].state
          /\ stripe[t].schedule # "none" => stripe'[t].schedule # "none"
          /\ stripe[t].schedule = "phased" => stripe'[t].schedule = "phased"
          /\ t # s => stripe'[t].charges = stripe[t].charges
    BY <1>1
  <1>7. /\ DOMAIN job'[r].seen.work = DOMAIN job[r].seen.work /\ Step(r, s)' = step
        /\ \A t \in DOMAIN job[r].seen.work \ {s} : Step(r, t)' = Step(r, t)
        /\ s \in DOMAIN job[r].seen.work
    BY DEF Progresses, Step, Works
  <1>8. \A q \in Runs \ {r} : job'[q] = job[q]
    BY <1>2 DEF Runs
  <1>9. \A q \in Runs, t \in DOMAIN Standing : Covered(q, t) => Covered(q, t)'
    BY <1>6, <1>8 DEF Covered, Progresses
  <1>10. ASSUME NEW q \in Runs, NEW t \in DOMAIN Standing, Works(q, t)'
         PROVE  /\ Works(q, t)
                /\ Step(q, t)' = IF q = r /\ t = s THEN step ELSE Step(q, t)
    BY <1>2, <1>7, <1>8, <1>10 DEF Works, Step
  <1>11. ASSUME NEW q \in Runs, NEW t \in DOMAIN Standing, Works(q, t)'
         PROVE  WorkInv(q, t)'
    <2>1. CASE q = r /\ t = s
      BY <2>1
    <2>2. CASE ~(q = r /\ t = s)
      <3>1. Works(q, t) /\ Step(q, t)' = Step(q, t) /\ WorkInv(q, t)
        BY <1>10, <1>11, <2>2 DEF MigrationInv
      <3>2. Step(q, t) = "charge" => stripe'[t].charges = stripe[t].charges
        BY <1>6, <2>2, <3>1 DEF MigrationInv, ChargeInv
      <3>3. QED
        BY <1>6, <1>9, <3>1, <3>2 DEF WorkInv
    <2>3. QED
      BY <2>1, <2>2
  <1>12. ChargeInv'
    <2> SUFFICES ASSUME NEW p \in Runs, NEW q \in Runs, NEW t \in DOMAIN Standing,
                        Works(p, t)', Works(q, t)', Step(p, t)' = "charge", Step(q, t)' = "charge"
                 PROVE  p = q
      BY <1>3 DEF ChargeInv
    <2>1. Works(p, t) /\ Works(q, t) /\ WorkInv(p, t) /\ WorkInv(q, t)
      BY <1>10 DEF MigrationInv
    <2>2. CASE Step(p, t) = "charge" /\ Step(q, t) = "charge"
      BY <2>1, <2>2 DEF MigrationInv, ChargeInv
    <2>3. CASE ~(Step(p, t) = "charge" /\ Step(q, t) = "charge")
      BY <1>10, <2>1, <2>3 DEF WorkInv
    <2>4. QED
      BY <2>2, <2>3
  <1>13. ASSUME NEW q \in Runs PROVE RunShape(job[q].seen)' /\ DueInv(q)'
    <2>1. CASE q # r
      <3>1. RunShape(job[q].seen)'
        BY <1>8, <2>1 DEF MigrationInv
      <3>2. DueInv(q)
        BY DEF MigrationInv
      <3>3. DueInv(q)'
        BY <1>6, <1>8, <1>9, <2>1, <3>2 DEF DueInv, Live, Pending, Step
      <3>4. QED
        BY <3>1, <3>3
    <2>2. CASE q = r
      <3>1. RunShape(job[r].seen)'
        BY DEF Progresses
      <3>2. ASSUME NEW t \in DOMAIN Standing, Pending(r, t)
            PROVE  Pending(r, t)' \/ Covered(r, t)'
        <4>1. CASE t \in DOMAIN job[r].seen.work /\ Step(r, t) # "over"
          <5>1. CASE t # s
            BY <1>2, <1>7, <4>1, <5>1 DEF Pending
          <5>2. CASE t = s
            BY <1>2, <1>7, <5>2 DEF Pending, WorkInv
          <5>3. QED
            BY <5>1, <5>2
        <4>2. CASE /\ job[r].seen.more /\ t > job[r].seen.last
                   /\ \A u \in DOMAIN job[r].seen.work : u < t
          <5>1. t > job'[r].seen.last
            BY <1>1, <1>7, <4>2, ToolAssumption DEF Progresses
          <5>2. job'[r].seen.more
            BY <4>2 DEF Progresses
          <5>3. QED
            BY <1>2, <1>7, <4>2, <5>1, <5>2 DEF Pending
        <4>3. QED
          BY <1>2, <3>2, <4>1, <4>2 DEF Pending
      <3>3. DueInv(r)
        BY DEF MigrationInv
      <3>4. DueInv(r)'
        BY <1>2, <1>6, <1>9, <3>2, <3>3 DEF DueInv, Live, Progresses
      <3>5. QED
        BY <2>2, <3>1, <3>4
    <2>3. QED
      BY <2>1, <2>2
  <1>14. QED
    BY <1>2, <1>3, <1>4, <1>5, <1>11, <1>12, <1>13 DEF MigrationInv

\* What a call of the script does to the account it is about.
CallsFairly(r, s) ==
    /\ StripeShape' /\ \A t \in Account \ {s} : stripe'[t] = stripe[t]
    /\ stripe'[s].state = stripe[s].state
    /\ AccountInv(s)'
    /\ stripe[s].schedule # "none" => stripe'[s].schedule # "none"
    /\ stripe[s].schedule = "phased" => stripe'[s].schedule = "phased"
    /\ stripe'[s].charges = stripe[s].charges \/ Step(r, s) = "charge"

LEMMA IdleCall ==
    ASSUME MigrationInv, NEW r, NEW s \in DOMAIN Standing, UNCHANGED stripe
    PROVE  CallsFairly(r, s)
  BY ToolAssumption DEF CallsFairly, MigrationInv, AccountInv, StripeShape

LEMMA InWorkWorks ==
    ASSUME JobInv, MigrationInv, NEW r \in Batch, NEW s, NEW step, InWork(r, s, step)
    PROVE  /\ r \in Runs /\ Works(r, s) /\ Step(r, s) = step /\ RunShape(job[r].seen)
           /\ s \in DOMAIN job[r].seen.work
           /\ s \in DOMAIN Standing => WorkInv(r, s)
  BY DEF InWork, Runs, Works, Step, MigrationInv

LEMMA ReviewKeeps ==
    ASSUME JobInv, MigrationInv, NEW r \in Batch, NEW s \in DOMAIN Standing, NEW step,
           InWork(r, s, step), step # "over", Review(r, s), CallsFairly(r, s)
    PROVE  MigrationInv'
  <1> DEFINE review == job[r].seen.review \union {s}
  <1>1. r \in Runs /\ Works(r, s) /\ Step(r, s) = step /\ RunShape(job[r].seen) /\ s \in DOMAIN job[r].seen.work
    BY InWorkWorks
  <1>2. Progresses(r, s, "over", review)
    BY <1>1, CallsProgress
  <1>3. job[r].seen.review \subseteq review
    OBVIOUS
  <1>4. WorkInv(r, s)'
    BY <1>2 DEF Progresses, WorkInv, Step, Covered
  <1> HIDE DEF review
  <1>5. QED
    BY <1>1, <1>2, <1>3, <1>4, WorkKeeps DEF CallsFairly

LEMMA RetrieveKeeps ==
    ASSUME JobInv, MigrationInv, NEW r \in Batch, NEW s \in DOMAIN Standing, Retrieve(r, s)
    PROVE  MigrationInv'
  <1> DEFINE n == job[r].seen
  <1>1. InWork(r, s, "retrieve") /\ UNCHANGED stripe
    BY DEF Retrieve, billing
  <1>2. CallsFairly(r, s)
    BY <1>1, IdleCall
  <1>3. r \in Runs /\ Works(r, s) /\ Step(r, s) = "retrieve" /\ RunShape(job[r].seen) /\ s \in DOMAIN job[r].seen.work
    BY <1>1, InWorkWorks
  <1>4. CASE Review(r, s)
    BY <1>1, <1>2, <1>4, ReviewKeeps
  <1>5. CASE Read(r, "page", [job[r].seen EXCEPT !.work[s] =
                 [step |-> "schedule", scheduled |-> FALSE, owner |-> stripe[s].customer]])
    <2>1. Progresses(r, s, "schedule", job[r].seen.review)
      BY <1>3, <1>5, CallsProgress
    <2>2. WorkInv(r, s)'
      BY <2>1 DEF Progresses, WorkInv, Step
    <2>3. QED
      BY <1>2, <1>3, <2>1, <2>2, WorkKeeps DEF CallsFairly
  <1>6. QED
    BY <1>4, <1>5 DEF Retrieve, Then

LEMMA CreateScheduleKeeps ==
    ASSUME JobInv, MigrationInv, NEW r \in Batch, NEW s \in DOMAIN Standing, CreateSchedule(r, s)
    PROVE  MigrationInv'
  <1>1. InWork(r, s, "schedule") /\ s \in Account /\ StripeShape
    BY ToolAssumption DEF CreateSchedule, MigrationInv
  <1>2. /\ r \in Runs /\ Works(r, s) /\ Step(r, s) = "schedule" /\ RunShape(job[r].seen)
        /\ s \in DOMAIN job[r].seen.work
    BY <1>1, InWorkWorks
  <1>3. CASE Review(r, s) /\ UNCHANGED billing
    BY <1>1, <1>3, IdleCall, ReviewKeeps DEF billing
  <1>4. CASE /\ Live(s) /\ stripe[s].schedule = "none"
             /\ stripe' = [stripe EXCEPT ![s].schedule = "created"]
             /\ Call(r, s, "schedule")
    <2>1. Becomes(s, stripe[s].state, "created", stripe[s].charges)
      BY <1>1, <1>4, AccountSet
    <2>2. CallsFairly(r, s)
      BY <1>1, <1>4, <2>1 DEF CallsFairly, Becomes, AccountInv, MigrationInv, Live
    <2>3. CASE Review(r, s)
      BY <1>1, <2>2, <2>3, ReviewKeeps
    <2>4. CASE To(r, s, "charge")
      <3>1. Progresses(r, s, "charge", job[r].seen.review)
        BY <1>2, <2>4, CallsProgress
      <3>2. WorkInv(r, s)'
        BY <1>1, <1>4, <2>1, <3>1 DEF Progresses, WorkInv, Step, Becomes, MigrationInv, AccountInv
      <3>3. QED
        BY <1>2, <1>4, <2>2, <3>1, <3>2, WorkKeeps DEF CallsFairly
    <2>5. QED
      BY <1>4, <2>3, <2>4 DEF Call, Then
  <1>5. QED
    BY <1>3, <1>4 DEF CreateSchedule

LEMMA AdjustKeeps ==
    ASSUME JobInv, MigrationInv, NEW r \in Batch, NEW s \in DOMAIN Standing, Adjust(r, s)
    PROVE  MigrationInv'
  <1>1. InWork(r, s, "charge") /\ s \in Account /\ StripeShape /\ Call(r, s, "charge")
    BY ToolAssumption DEF Adjust, MigrationInv
  <1>2. /\ r \in Runs /\ Works(r, s) /\ Step(r, s) = "charge" /\ RunShape(job[r].seen)
        /\ s \in DOMAIN job[r].seen.work /\ WorkInv(r, s)
    BY <1>1, InWorkWorks
  <1>3. stripe[s].charges = 0 /\ stripe[s].schedule # "none"
    BY <1>2 DEF WorkInv
  <1>4. PICK items \in {0, 1} : stripe' = [stripe EXCEPT ![s].charges = stripe[s].charges + items]
    BY DEF Adjust
  <1> DEFINE charges == stripe[s].charges + items
  <1>0. charges \in {0, 1} /\ stripe' = [stripe EXCEPT ![s].charges = charges]
    <2>1. charges \in {0, 1}
      BY <1>3
    <2>2. QED
      BY <1>4, <2>1
  <1> HIDE DEF charges
  <1>5. Becomes(s, stripe[s].state, stripe[s].schedule, charges)
    BY <1>0, <1>1, AccountSet
  <1>6. CallsFairly(r, s)
    BY <1>0, <1>1, <1>2, <1>3, <1>5 DEF CallsFairly, Becomes, AccountInv, MigrationInv
  <1>7. CASE Review(r, s)
    BY <1>1, <1>6, <1>7, ReviewKeeps
  <1>8. CASE To(r, s, "phases")
    <2>1. Progresses(r, s, "phases", job[r].seen.review)
      BY <1>2, <1>8, CallsProgress
    <2>2. WorkInv(r, s)'
      BY <1>3, <1>5, <2>1 DEF Progresses, WorkInv, Step, Becomes
    <2>3. QED
      BY <1>2, <1>6, <2>1, <2>2, WorkKeeps DEF CallsFairly
  <1>9. QED
    BY <1>1, <1>7, <1>8 DEF Call, Then

LEMMA UpdatePhasesKeeps ==
    ASSUME JobInv, MigrationInv, NEW r \in Batch, NEW s \in DOMAIN Standing, UpdatePhases(r, s)
    PROVE  MigrationInv'
  <1>1. InWork(r, s, "phases") /\ s \in Account /\ StripeShape /\ Call(r, s, "phases")
    BY ToolAssumption DEF UpdatePhases, MigrationInv
  <1>2. /\ r \in Runs /\ Works(r, s) /\ Step(r, s) = "phases" /\ RunShape(job[r].seen)
        /\ s \in DOMAIN job[r].seen.work
    BY <1>1, InWorkWorks
  <1>3. Becomes(s, stripe[s].state, "phased", stripe[s].charges)
    BY <1>1, AccountSet DEF UpdatePhases
  <1>4. stripe[s].state # "none"
    BY <1>2 DEF MigrationInv, Runs
  <1>5. CallsFairly(r, s)
    BY <1>1, <1>3, <1>4 DEF CallsFairly, Becomes, AccountInv, MigrationInv
  <1>6. CASE Review(r, s)
    BY <1>1, <1>5, <1>6, ReviewKeeps
  <1>7. CASE To(r, s, "find")
    <2>1. Progresses(r, s, "find", job[r].seen.review)
      BY <1>2, <1>7, CallsProgress
    <2>2. WorkInv(r, s)'
      BY <1>3, <2>1 DEF Progresses, WorkInv, Step, Becomes
    <2>3. QED
      BY <1>2, <1>5, <2>1, <2>2, WorkKeeps DEF CallsFairly
  <1>8. QED
    BY <1>1, <1>6, <1>7 DEF Call, Then

LEMMA RecordKeeps ==
    ASSUME JobInv, MigrationInv, NEW r \in Batch, NEW s \in DOMAIN Standing,
           FindOwner(r, s) \/ UpdateRecord(r, s)
    PROVE  MigrationInv'
  <1>1. PICK step \in {"find", "update"} : InWork(r, s, step)
    BY DEF FindOwner, UpdateRecord
  <1>2. UNCHANGED stripe
    BY DEF FindOwner, UpdateRecord, billing
  <1>3. CallsFairly(r, s)
    BY <1>2, IdleCall
  <1>4. /\ r \in Runs /\ Works(r, s) /\ Step(r, s) = step /\ RunShape(job[r].seen)
        /\ s \in DOMAIN job[r].seen.work /\ stripe[s].schedule = "phased"
    BY <1>1, InWorkWorks DEF WorkInv
  <1>5. CASE To(r, s, "update")
    <2>1. Progresses(r, s, "update", job[r].seen.review)
      BY <1>4, <1>5, CallsProgress
    <2>2. WorkInv(r, s)'
      BY <1>2, <1>4, <2>1 DEF Progresses, WorkInv, Step
    <2>3. QED
      BY <1>3, <1>4, <2>1, <2>2, WorkKeeps DEF CallsFairly
  <1>6. ASSUME NEW new, Processed(r, s, new) PROVE MigrationInv'
    <2> DEFINE review == job[r].seen.review \union new
    <2>1. Progresses(r, s, "over", review)
      BY <1>4, <1>6, CallsProgress
    <2>2. job[r].seen.review \subseteq review
      OBVIOUS
    <2> HIDE DEF review
    <2>3. WorkInv(r, s)'
      BY <1>2, <1>4, <2>1 DEF Progresses, WorkInv, Step, Covered
    <2>4. QED
      BY <1>3, <1>4, <2>1, <2>2, <2>3, WorkKeeps DEF CallsFairly
  <1>7. QED
    BY <1>5, <1>6 DEF FindOwner, UpdateRecord

LEMMA WorkFailsKeeps ==
    ASSUME JobInv, MigrationInv, NEW r \in Batch, NEW s \in DOMAIN Standing, WorkFails(r, s)
    PROVE  MigrationInv'
  <1>1. PICK step \in DOMAIN Then \ {"find"} : InWork(r, s, step)
    BY DEF WorkFails
  <1>2. step # "over" /\ UNCHANGED stripe /\ Review(r, s)
    BY DEF Then, WorkFails, billing
  <1>3. QED
    BY <1>1, <1>2, IdleCall, ReviewKeeps

(***************************************************************************)
(* Pages: of what is listed, a page has the first, and is empty only when  *)
(* nothing is.                                                             *)
(***************************************************************************)
LEMMA FirstOfSome ==
    ASSUME NEW S \in SUBSET Nat, S # {}
    PROVE  FirstOf(S) # {}
  <1>1. PICK n \in S : \A k \in S : n <= k
    BY LeastNatural
  <1>2. {t \in S : t < n} = {}
    <2>1. n \in Nat /\ \A t \in S : t \in Nat /\ n <= t
      BY <1>1
    <2>2. \A t \in S : ~(t < n)
      BY <2>1
    <2>3. QED
      BY <2>2
  <1>3. Cardinality({t \in S : t < n}) < PageSize
    BY <1>2, FS_EmptySet, ToolAssumption
  <1>4. QED
    BY <1>3 DEF FirstOf

LEMMA FirstOfAreFirst ==
    ASSUME NEW S \in SUBSET Nat, NEW s \in S \ FirstOf(S), NEW t \in FirstOf(S)
    PROVE  t < s
  <1> DEFINE before(n) == {u \in S : u < n}
  <1> SUFFICES ASSUME s <= t PROVE FALSE
    BY DEF FirstOf
  <1>1. s \in Nat /\ t \in Nat /\ Cardinality(before(t)) < PageSize /\ ~(Cardinality(before(s)) < PageSize)
    BY DEF FirstOf
  <1>0. \A u \in S : u \in Nat
    OBVIOUS
  <1>2. IsFiniteSet(before(t))
    <2>1. 0 \in Int /\ t \in Int
      BY <1>1
    <2>2. IsFiniteSet(0..t)
      BY <2>1, FS_Interval
    <2>3. \A u \in before(t) : u \in 0..t
      BY <1>1, <1>0
    <2>4. before(t) \subseteq 0..t
      BY <2>3
    <2> HIDE DEF before
    <2>5. QED
      BY <2>2, <2>4, FS_Subset
  <1>3. before(s) \subseteq before(t)
    <2>1. \A u \in before(s) : u \in S /\ u < t
      BY <1>1, <1>0
    <2>2. QED
      BY <2>1
  <1> HIDE DEF before
  <1>4. /\ Cardinality(before(s)) <= Cardinality(before(t))
        /\ Cardinality(before(s)) \in Nat /\ Cardinality(before(t)) \in Nat
    BY <1>2, <1>3, FS_Subset, FS_CardinalityType
  <1>5. QED
    BY <1>1, <1>4, ToolAssumption

LEMMA ListedNaturals == ASSUME NEW r PROVE Listed(r) \in SUBSET Nat
  BY ToolAssumption DEF Listed

(***************************************************************************)
(* A run that goes on between its pages. In a page it has just listed,     *)
(* every subscription is still to be retrieved.                            *)
(***************************************************************************)
LEMMA ReadKeeps ==
    ASSUME JobInv, MigrationInv, NEW r \in Batch, r.op = "migrate", UNCHANGED stripe,
           NEW pc, NEW seen, Read(r, pc, seen), pc # "new",
           RunShape(seen), DueInv(r)',
           pc = "page" => \A s \in DOMAIN seen.work : seen.work[s].step = "retrieve"
    PROVE  MigrationInv'
  <1>1. /\ Batch' = Batch /\ job'[r].pc = pc /\ job'[r].seen = seen
        /\ \A q \in Batch \ {r} : job'[q] = job[q]
    BY ReadMoves DEF Moves
  <1>2. /\ Runs' = Runs \union {r}
        /\ \A q \in Runs \ {r} : q \in Batch /\ job'[q] = job[q]
    BY <1>1 DEF Runs
  <1>3. /\ StripeShape' /\ \A s \in Account : AccountInv(s)'
        /\ \A q \in Batch : q.op = "migrate" => \A s \in DOMAIN Standing : stripe'[s].state # "none"
    BY DEF MigrationInv, StripeShape, AccountInv
  <1>4. ASSUME NEW q \in Runs' PROVE RunShape(job[q].seen)' /\ DueInv(q)'
    <2>1. CASE q = r
      BY <1>1, <2>1
    <2>2. CASE q # r
      <3>1. RunShape(job[q].seen) /\ DueInv(q) /\ job'[q] = job[q]
        BY <1>2, <2>2 DEF MigrationInv
      <3>2. QED
        BY <3>1 DEF DueInv, Live, Covered, Pending, Step
    <2>3. QED
      BY <2>1, <2>2
  <1>5. ASSUME NEW q \in Runs', NEW s \in DOMAIN Standing, Works(q, s)'
        PROVE  \/ q = r /\ Step(q, s)' = "retrieve"
               \/ q # r /\ q \in Runs /\ Works(q, s) /\ Step(q, s)' = Step(q, s) /\ WorkInv(q, s)
    <2>1. CASE q = r
      BY <1>1, <1>5, <2>1 DEF Works, Step
    <2>2. CASE q # r
      <3>1. q \in Runs /\ Works(q, s) /\ Step(q, s)' = Step(q, s)
        BY <1>2, <1>5, <2>2 DEF Works, Step
      <3>2. QED
        BY <2>2, <3>1 DEF MigrationInv
    <2>3. QED
      BY <2>1, <2>2
  <1>6. ASSUME NEW q \in Runs', NEW s \in DOMAIN Standing, Works(q, s)' PROVE WorkInv(q, s)'
    <2>1. CASE Step(q, s)' = "retrieve"
      BY <2>1 DEF WorkInv
    <2>2. CASE q # r /\ q \in Runs /\ Step(q, s)' = Step(q, s) /\ WorkInv(q, s)
      <3>1. job'[q] = job[q]
        BY <1>2, <2>2
      <3>2. QED
        BY <2>2, <3>1 DEF WorkInv, Covered
    <2>3. QED
      BY <1>5, <1>6, <2>1, <2>2
  <1>7. ChargeInv'
    BY <1>5 DEF MigrationInv, ChargeInv
  <1>8. QED
    BY <1>1, <1>3, <1>4, <1>6, <1>7 DEF MigrationInv

LEMMA StartKeeps ==
    ASSUME JobInv, MigrationInv, NEW r \in Batch, StartMigration(r)
    PROVE  MigrationInv'
  <1> DEFINE seen(n) == [last |-> n, from |-> n, work |-> <<>>, more |-> FALSE, review |-> {}, prices |-> r.prices]
  <1>1. PICK last \in {0} \union {job[q].seen.last : q \in {p \in Batch : p.op = "migrate" /\ job[p].pc = "failed"}} :
          Read(r, "list", seen(last))
    BY DEF StartMigration
  <1>2. last \in Nat
    <2>1. CASE last = 0
      BY <2>1
    <2>2. CASE last # 0
      <3>1. PICK q \in {p \in Batch : p.op = "migrate" /\ job[p].pc = "failed"} : last = job[q].seen.last
        BY <1>1, <2>2
      <3>2. q \in Runs
        BY <3>1 DEF Runs
      <3>3. QED
        BY <3>1, <3>2 DEF MigrationInv, RunShape
    <2>3. QED
      BY <2>1, <2>2
  <1>3. RunShape(seen(last))
    <2>1. WorkShape(<<>>)
      BY DEF WorkShape
    <2>2. QED
      BY <1>2, <2>1 DEF RunShape
  <1>4. r.op = "migrate" /\ UNCHANGED stripe
    BY DEF StartMigration, At, billing
  <1>5. DueInv(r)'
    <2>1. job'[r].pc = "list" /\ job'[r].seen = seen(last)
      BY <1>1, ReadMoves DEF Moves
    <2>2. /\ job'[r].seen.last = last /\ job'[r].seen.from = last /\ job'[r].seen.prices = r.prices
      BY <2>1
    <2>3. \A s \in DOMAIN Standing : s \in Nat \ {0}
      BY ToolAssumption
    <2>4. ASSUME last = 0, NEW s \in DOMAIN Standing PROVE Pending(r, s)'
      <3>1. s > 0
        BY <2>3
      <3>2. job'[r].pc = "list" /\ s > job'[r].seen.last
        BY <2>1, <2>2, <2>4, <3>1
      <3>3. QED
        BY <3>2 DEF Pending
    <2> HIDE DEF seen
    <2>5. QED
      BY <2>2, <2>4 DEF DueInv
  <1> HIDE DEF seen
  <1>6. QED
    BY <1>1, <1>3, <1>4, <1>5, ReadKeeps

LEMMA ListPageKeeps ==
    ASSUME JobInv, MigrationInv, NEW r \in Batch, ListPage(r)
    PROVE  MigrationInv'
  <1> DEFINE page == FirstOf(Listed(r))
             n == job[r].seen
             work == [s \in page |->
                        [step |-> "retrieve", scheduled |-> stripe[s].schedule # "none", owner |-> None]]
  <1>1. r.op = "migrate" /\ job[r].pc = "list" /\ UNCHANGED stripe /\ r \in Runs
    BY DEF ListPage, At, billing, Runs
  <1>2. RunShape(n) /\ DueInv(r)
    BY <1>1 DEF MigrationInv
  <1>3. page \subseteq Listed(r) /\ Listed(r) \subseteq DOMAIN Standing
    BY DEF FirstOf, Listed
  <1>4. ASSUME Len(r.prices) = 1, n.from = 0, NEW s \in DOMAIN Standing,
               Live(s), Price(s) = r.prices[1], ~Covered(r, s)
        PROVE  s \in Listed(r) /\ s > n.last
    <2>1. Pending(r, s) /\ n.prices = r.prices
      BY <1>1, <1>2, <1>4 DEF DueInv
    <2>2. s > n.last
      BY <1>1, <2>1 DEF Pending
    <2>3. QED
      BY <1>4, <2>1, <2>2 DEF Listed
  <1>5. CASE page = {} /\ Read(r, "price", n)
    <2>1. Listed(r) = {}
      BY <1>5, FirstOfSome, ListedNaturals
    <2>2. job'[r].pc = "price" /\ job'[r].seen = n
      BY <1>5, ReadMoves DEF Moves
    <2>3. DueInv(r)'
      BY <1>1, <1>2, <1>4, <2>1, <2>2 DEF DueInv, Live, Covered
    <2>4. QED
      BY <1>1, <1>2, <1>5, <2>3, ReadKeeps
  <1>6. CASE page # {} /\ Read(r, "page", [n EXCEPT !.work = work, !.more = Listed(r) # page])
    <2>1. PICK seen : Read(r, "page", seen) /\ seen = [n EXCEPT !.work = work, !.more = Listed(r) # page]
      BY <1>6
    <2>2. seen = [last |-> n.last, from |-> n.from, work |-> work, more |-> Listed(r) # page,
                  review |-> n.review, prices |-> n.prices]
      BY <1>2, <2>1 DEF RunShape
    <2>3. RunShape(seen)
      BY <1>2, <1>3, <2>2 DEF RunShape, WorkShape
    <2>4. \A s \in DOMAIN seen.work : seen.work[s].step = "retrieve"
      BY <2>2
    <2>5. job'[r].pc = "page" /\ job'[r].seen = seen
      BY <2>1, ReadMoves DEF Moves
    <2>6. /\ seen.last = n.last /\ seen.from = n.from /\ seen.review = n.review /\ seen.prices = n.prices
          /\ seen.work = work /\ DOMAIN work = page /\ (Listed(r) # page => seen.more)
          /\ \A s \in page : work[s].step = "retrieve"
      BY <2>2
    <2>7. ASSUME NEW s \in Listed(r), s > n.last PROVE Pending(r, s)'
      <3>1. CASE s \in page
        BY <2>5, <2>6, <3>1 DEF Pending, Step
      <3>2. CASE s \notin page
        <4>1. Listed(r) # page /\ \A t \in page : t < s
          BY <2>7, <3>2, FirstOfAreFirst, ListedNaturals
        <4>2. QED
          BY <2>5, <2>6, <2>7, <4>1 DEF Pending
      <3>3. QED
        BY <3>1, <3>2
    <2>8. DueInv(r)'
      <3> HIDE DEF page, work
      <3>1. n.from = 0 /\ Len(r.prices) = 1 => n.prices = r.prices
        BY <1>1, <1>2 DEF DueInv
      <3>2. QED
        BY <1>1, <1>4, <2>5, <2>6, <2>7, <3>1 DEF DueInv, Live, Covered
    <2>9. QED
      BY <1>1, <2>1, <2>3, <2>4, <2>8, ReadKeeps
  <1>7. QED
    BY <1>5, <1>6 DEF ListPage

LEMMA PageDoneKeeps ==
    ASSUME JobInv, MigrationInv, NEW r \in Batch, PageDone(r)
    PROVE  MigrationInv'
  <1> DEFINE n == job[r].seen
             pc == IF n.more THEN "list" ELSE "price"
  <1>1. r.op = "migrate" /\ job[r].pc = "page" /\ UNCHANGED stripe /\ r \in Runs
    BY DEF PageDone, At, billing, Runs
  <1>2. RunShape(n) /\ DueInv(r)
    BY <1>1 DEF MigrationInv
  <1>3. PICK seen : Read(r, pc, seen) /\ seen = [n EXCEPT !.work = <<>>]
    BY DEF PageDone
  <1>4. seen = [last |-> n.last, from |-> n.from, work |-> <<>>, more |-> n.more,
                review |-> n.review, prices |-> n.prices]
    BY <1>2, <1>3 DEF RunShape
  <1>5. RunShape(seen)
    <2>1. WorkShape(<<>>)
      BY DEF WorkShape
    <2>2. QED
      BY <1>2, <1>4, <2>1 DEF RunShape
  <1>6. job'[r].pc = pc /\ job'[r].seen = seen
    BY <1>3, ReadMoves DEF Moves
  <1>7. \A s \in DOMAIN n.work : Step(r, s) = "over"
    BY DEF PageDone, Step
  <1>8. ASSUME NEW s \in DOMAIN Standing, Pending(r, s) PROVE Pending(r, s)'
    BY <1>1, <1>4, <1>6, <1>7, <1>8 DEF Pending
  <1>9. DueInv(r)'
    <2>1. seen.from = n.from /\ seen.review = n.review /\ seen.prices = n.prices
      BY <1>4
    <2>2. QED
      BY <1>1, <1>2, <1>6, <1>8, <2>1 DEF DueInv, Live, Covered
  <1>10. QED
    BY <1>1, <1>3, <1>5, <1>9, ReadKeeps

LEMMA NextPriceKeeps ==
    ASSUME JobInv, MigrationInv, NEW r \in Batch, NextPrice(r)
    PROVE  MigrationInv'
  <1> DEFINE n == job[r].seen
             pc == IF Len(n.prices) > 1 THEN "list" ELSE "done"
  <1>1. r.op = "migrate" /\ job[r].pc = "price" /\ UNCHANGED stripe /\ r \in Runs
    BY DEF NextPrice, At, billing, Runs
  <1>2. RunShape(n) /\ DueInv(r)
    BY <1>1 DEF MigrationInv
  <1>3. PICK seen : Read(r, pc, seen) /\ seen = [n EXCEPT !.prices = Tail(@)]
    BY DEF NextPrice
  <1>4. seen = [last |-> n.last, from |-> n.from, work |-> n.work, more |-> n.more,
                review |-> n.review, prices |-> seen.prices]
    BY <1>2, <1>3 DEF RunShape
  <1>5. RunShape(seen)
    BY <1>2, <1>4 DEF RunShape
  <1>6. job'[r].pc = pc /\ job'[r].seen = seen
    BY <1>3, ReadMoves DEF Moves
  <1>7. DueInv(r)'
    <2>1. seen.from = n.from /\ seen.review = n.review
      BY <1>4
    <2>2. \A s \in DOMAIN Standing : ~Pending(r, s)
      BY <1>1 DEF Pending
    <2>3. Len(r.prices) = 1 /\ n.from = 0 => pc = "done"
      <3>1. Len(r.prices) = 1 /\ n.from = 0 => n.prices = r.prices
        BY <1>1, <1>2 DEF DueInv
      <3>2. Len(r.prices) = 1 => ~(Len(r.prices) > 1)
        OBVIOUS
      <3>3. QED
        BY <3>1, <3>2, Zenon
    <2>4. QED
      BY <1>1, <1>2, <1>6, <2>1, <2>2, <2>3 DEF DueInv, Live, Covered
  <1>8. QED
    BY <1>1, <1>3, <1>5, <1>7, ReadKeeps

(***************************************************************************)
(* However runs of the migration stop, start again and meet, no one is     *)
(* charged twice, and one of a single price, from the start, misses none.  *)
(***************************************************************************)
THEOREM MigrationChargesOnce == Spec => []MigratedOnce
  <1>1. Init => JobInv /\ MigrationInv
    <2> SUFFICES ASSUME Init PROVE MigrationInv
      BY JobsBegin
    <2> DEFINE tools == \E r \in Batch : r.op \in {"dedupe", "migrate"}
    <2>0. stripe = [s \in Account |-> stripe[s]]
      BY DEF Init, CustomersInit
    <2>1. ASSUME NEW s \in Account
          PROVE  /\ stripe[s].schedule = "none" /\ stripe[s].charges = 0
                 /\ stripe[s] = [state |-> stripe[s].state, customer |-> stripe[s].customer, plan |-> stripe[s].plan,
                                 no |-> stripe[s].no, paid |-> stripe[s].paid, schedule |-> stripe[s].schedule,
                                 charges |-> stripe[s].charges, held |-> stripe[s].held]
                 /\ tools /\ s \in DOMAIN Standing => stripe[s].state # "none"
      <3>1. /\ NoAccount \in [state : {"none"}, customer : {None}, plan : {None}, no : {0},
                              paid : {FALSE}, schedule : {"none"}, charges : {0}, held : {0}]
            /\ NoAccount.schedule = "none" /\ NoAccount.charges = 0 /\ NoAccount.no = 0
        BY DEF NoAccount
      <3>2. CASE tools /\ s \in DOMAIN Standing
        <4>1. PICK y, customer, plan, paid :
                /\ stripe[s] = y
                /\ y = [NoAccount EXCEPT !.state = "live", !.customer = customer, !.plan = plan, !.held = 1, !.paid = paid]
          <5>1. stripe[s] = [NoAccount EXCEPT !.state = "live", !.customer = Standing[s].customer,
                                              !.plan = Standing[s].plan, !.held = 1, !.paid = Standing[s].paid]
            BY <3>2, Zenon DEF Init, CustomersInit
          <5>2. QED
            BY <5>1, Zenon
        <4>2. y = [state |-> "live", customer |-> customer, plan |-> plan, no |-> NoAccount.no, paid |-> paid,
                   schedule |-> NoAccount.schedule, charges |-> NoAccount.charges, held |-> 1]
          BY <3>1, <4>1, StandingMade
        <4>3. QED
          BY <3>1, <4>1, <4>2
      <3>3. CASE ~(tools /\ s \in DOMAIN Standing)
        <4>1. stripe[s] = NoAccount
          BY <3>3, Zenon DEF Init, CustomersInit
        <4>2. QED
          BY <3>3, <4>1 DEF NoAccount
      <3>4. QED
        BY <3>2, <3>3
    <2>2. \A r \in Batch : r.op = "migrate" => \A s \in DOMAIN Standing : stripe[s].state # "none"
      BY <2>1, ToolAssumption
    <2>3. \A r \in Batch : job[r].pc = "new"
      BY DEF Init, RequestsInit, Batch
    <2>4. Runs = {}
      BY <2>3 DEF Runs
    <2>5. StripeShape
      BY <2>0, <2>1 DEF StripeShape
    <2> HIDE DEF tools
    <2>6. QED
      BY <2>1, <2>2, <2>4, <2>5 DEF MigrationInv, AccountInv, ChargeInv
  <1>2. JobInv /\ MigrationInv /\ [Next]_vars => JobInv' /\ MigrationInv'
    <2> SUFFICES ASSUME JobInv, MigrationInv, [Next]_vars PROVE MigrationInv'
      BY JobsKept
    <2>1. ASSUME NEW r \in Batch, MigrateNext(r) PROVE MigrationInv'
      BY <2>1, StartKeeps, ListPageKeeps, PageDoneKeeps, NextPriceKeeps, RetrieveKeeps, CreateScheduleKeeps,
         AdjustKeeps, UpdatePhasesKeeps, WorkFailsKeeps, RecordKeeps DEF MigrateNext
    <2>2. CASE CustomersNext \/ \E r \in Batch : DedupeNext(r)
      <3>1. Undisturbed
        BY <2>2, OthersUndisturbed DEF MigrationInv
      <3>2. \A r \in Batch : r.op = "migrate" => job'[r] = job[r]
        <4>1. CASE CustomersNext /\ job' # job
          BY <4>1, CustomersMoves DEF Moves, SignUpOps
        <4>2. CASE \E r \in Batch : DedupeNext(r)
          BY <4>2, DedupeMoves DEF Moves
        <4>3. QED
          BY <2>2, <4>1, <4>2
      <3>3. QED
        BY <3>1, <3>2, JobsKept, MigrationRests
    <2>3. CASE (ProvisionsNext \/ AccessNext) /\ UNCHANGED billing
      <3>1. Undisturbed
        BY <2>3, NothingDisturbs DEF MigrationInv, billing
      <3>2. \A r \in Batch : r.op = "migrate" => job'[r] = job[r]
        BY <2>3, ProvisionMoves, AccessMoves, OthersRest DEF GrantingOps
      <3>3. QED
        BY <3>1, <3>2, JobsKept, MigrationRests
    <2>4. ASSUME NEW r \in Batch, Stop(r), UNCHANGED billing PROVE MigrationInv'
      <3>1. Undisturbed
        BY <2>4, NothingDisturbs DEF MigrationInv, billing
      <3>2. QED
        BY <2>4, <3>1, StopMoves, JobsKept, MigrationRests DEF Moves
    <2>5. CASE UNCHANGED vars
      <3>1. Undisturbed
        BY <2>5, NothingDisturbs DEF MigrationInv, vars, billing
      <3>2. QED
        BY <2>5, <3>1, JobsKept, MigrationRests DEF vars
    <2>6. QED
      BY <2>1, <2>2, <2>3, <2>4, <2>5, ToolsSplit DEF Next, Parts
  <1>3. JobInv /\ MigrationInv => MigratedOnce
    <2> SUFFICES ASSUME JobInv, MigrationInv PROVE MigratedOnce
      OBVIOUS
    <2>1. \A s \in Account : stripe[s].charges <= 1
      BY DEF MigrationInv, AccountInv
    <2>2. ASSUME NEW r \in Batch, r.op = "migrate", Len(r.prices) = 1, job[r].pc = "done", job[r].seen.from = 0,
                 NEW s \in DOMAIN Standing, Live(s), Price(s) = r.prices[1]
          PROVE  stripe[s].schedule = "phased" \/ s \in job[r].seen.review
      BY <2>2 DEF MigrationInv, Runs, DueInv, Covered, Pending
    <2>3. QED
      BY <2>1, <2>2 DEF MigratedOnce
  <1>4. QED
    BY <1>1, <1>2, <1>3, PTL DEF Spec

=============================================================================
