------------------------------- MODULE Customers -------------------------------
(***************************************************************************)
(* Customers and their plans. A record of the customer table names a plan  *)
(* and, for those who pay, an account of Stripe. Stripe tells of a new     *)
(* subscription by an event, delivered late, repeatedly and in any order.  *)
(* Customers also sign up with other identity providers, for a trial, and  *)
(* change plan here. Writes to the table are not conditional.              *)
(***************************************************************************)
EXTENDS AccountRequests

CONSTANTS
    Account,   \* accounts of Stripe: naturals, in the order Stripe lists them
    Customer,
    Standing,  \* the accounts a batch with a tool finds: their owner, plan, and more
    None, Trial

VARIABLES
    customers,    \* the customer table
    accountIndex, \* what its index on accounts shows
    stripe,       \* Stripe's accounts
    events,       \* the subscriptions Stripe created, to be told of any number of times
    humanodes     \* the humans who signed up

billing == <<customers, accountIndex, stripe, events, humanodes>>

RecordOf(c) == {x \in customers : x.customer = c}

Put(x) == customers' = (customers \ RecordOf(x.customer)) \union {x}

UpdateProduct(c, p) == customers' = {IF x.customer = c THEN [x EXCEPT !.product = p] ELSE x : x \in customers}

Record(c, s, p) == [customer |-> c, account |-> s, product |-> p]

NoAccount == [state |-> "none", customer |-> None, plan |-> None, no |-> 0, held |-> 0,
              paid |-> FALSE, schedule |-> "none", charges |-> 0]

Live(s) == stripe[s].state = "live"

Propagate == accountIndex' = customers /\ UNCHANGED <<job, faults, customers, stripe, events, humanodes>>

\* createCheckoutSession: only for who is no customer yet.
Checkout(r) ==
    /\ At(r, "checkout", "new")
    /\ Go(r, IF RecordOf(r.customer) = {} THEN "session" ELSE "refused")
    /\ UNCHANGED <<billing, faults>>

\* A subscription of s is created.
Subscribe(s, account) ==
    /\ stripe' = [stripe EXCEPT ![s] = account]
    /\ events' = events \union {[account |-> s, plan |-> account.plan, no |-> account.no]}

\* The customer completes the session, which makes an account.
CompleteCheckout(r) ==
    /\ At(r, "checkout", "session")
    /\ \E s \in Account :
         /\ stripe[s].state = "none" /\ \A t \in Account : t < s => stripe[t].state # "none"
         /\ \E paid \in BOOLEAN :
              Subscribe(s, [NoAccount EXCEPT !.state = "live", !.customer = r.customer,
                                             !.plan = r.plan, !.no = 1, !.held = 1, !.paid = paid])
    /\ Go(r, "done")
    /\ UNCHANGED <<customers, accountIndex, humanodes, faults>>

\* In Stripe, an account gets another subscription, for or beside those it has,
\* or another e-mail address.
Resubscribe(r) ==
    /\ At(r, "resubscribe", "new")
    /\ \E s \in Account : \E held \in {1, stripe[s].held + 1} :
         Live(s) /\ Subscribe(s, [stripe[s] EXCEPT !.plan = r.plan, !.no = @ + 1, !.held = held])
    /\ Go(r, "done")
    /\ UNCHANGED <<customers, accountIndex, humanodes, faults>>

ChangeEmail(r) ==
    /\ At(r, "email", "new")
    /\ \E s \in Account : Live(s) /\ stripe' = [stripe EXCEPT ![s].customer = r.customer]
    /\ Go(r, "done")
    /\ UNCHANGED <<customers, accountIndex, events, humanodes, faults>>

\* The webhook is told of a subscription and asks for its account.
Webhook(r) ==
    /\ At(r, "hook", "new")
    /\ \E e \in events :
         Read(r, IF Live(e.account) THEN "account" ELSE "refused",
              [event |-> e, customer |-> stripe[e.account].customer, found |-> {}])
    /\ UNCHANGED <<billing, faults>>

Told(r) == job[r].seen.event

\* Slip: only the e-mail address is looked up.
ShownNever(s) == {}

Shown(s) == {x \in accountIndex : x.account = s}

LookUpAccount(r) ==
    /\ At(r, "hook", "account")
    /\ \/ \E x \in Shown(Told(r).account) :
            Read(r, "product", [job[r].seen EXCEPT !.customer = x.customer])
       \/ Shown(Told(r).account) = {} /\ Go(r, "customer")
    /\ UNCHANGED <<billing, faults>>

UpdateOwner(r) ==
    /\ At(r, "hook", "product")
    /\ UpdateProduct(job[r].seen.customer, Told(r).plan)
    /\ Answered(r, "done")
    /\ UNCHANGED <<accountIndex, stripe, events, humanodes>>

LookUpCustomer(r) ==
    /\ At(r, "hook", "customer")
    /\ LET found == RecordOf(job[r].seen.customer)
       IN  Read(r, IF \E x \in found : x.account \notin {None, Told(r).account} THEN "refused" ELSE "put",
                [job[r].seen EXCEPT !.found = found])
    /\ UNCHANGED <<billing, faults>>

\* The record found, if any, is put back with the account and the plan.
PutSubscribed(r) ==
    /\ At(r, "hook", "put")
    /\ Put(Record(job[r].seen.customer, Told(r).account, Told(r).plan))
    /\ Answered(r, "done")
    /\ UNCHANGED <<accountIndex, stripe, events, humanodes>>

\* plan/set: the customer, its account in Stripe, and the plan there and here.
FindToSet(r) ==
    /\ At(r, "setplan", "new")
    /\ Go(r, IF RecordOf(r.customer) = {} THEN "refused" ELSE "account")
    /\ UNCHANGED <<billing, faults>>

AccountToSet(r) ==
    /\ At(r, "setplan", "account")
    /\ LET found == {x.account : x \in RecordOf(r.customer)} \ {None}
       IN  Read(r, IF found = {} THEN "refused" ELSE "update", found)
    /\ UNCHANGED <<billing, faults>>

\* Refused unless the account has exactly one subscription.
SetInStripe(r) ==
    /\ At(r, "setplan", "update")
    /\ \E s \in job[r].seen :
         IF Live(s) /\ stripe[s].held = 1
         THEN stripe' = [stripe EXCEPT ![s].plan = r.plan] /\ Answered(r, "table")
         ELSE Go(r, "refused") /\ UNCHANGED <<stripe, faults>>
    /\ UNCHANGED <<customers, accountIndex, events, humanodes>>

SetInTable(r) ==
    /\ At(r, "setplan", "table")
    /\ UpdateProduct(r.customer, r.plan)
    /\ Answered(r, "done")
    /\ UNCHANGED <<accountIndex, stripe, events, humanodes>>

\* initialize: with an account the caller knows of. A look-up that fails has
\* found no record.
Initialize(r) ==
    /\ At(r, "initialize", "new")
    /\ \E s \in Account :
         /\ stripe[s].customer = r.customer
         /\ \/ Read(r, IF RecordOf(r.customer) = {} THEN "put" ELSE "refused", {s}) /\ UNCHANGED faults
            \/ Read(r, "put", {s}) /\ Fails
    /\ UNCHANGED billing

\* A put that fails is answered as one that did not.
PutInitialized(r) ==
    /\ At(r, "initialize", "put")
    /\ \/ /\ \E s \in job[r].seen : Put(Record(r.customer, s, r.plan))
          /\ Answered(r, "done")
       \/ Fails /\ Go(r, "done") /\ UNCHANGED customers
    /\ UNCHANGED <<accountIndex, stripe, events, humanodes>>

\* The callback of GitHub stores the request, then has the delegations confirmed.
SignIn(r) ==
    /\ At(r, "github", "new")
    /\ Go(r, "store")
    /\ UNCHANGED <<billing, faults>>

SignedUpBefore(r) ==
    /\ At(r, "github", "get")
    /\ Go(r, IF RecordOf(r.customer) # {} THEN "done" ELSE IF r.young THEN "refused" ELSE "put")
    /\ UNCHANGED <<billing, faults>>

\* The callback of Humanode: one who signed up has nothing more.
KnownHuman(r) ==
    /\ At(r, "humanode", "new")
    /\ Go(r, IF \E h \in humanodes : h.sub = r.sub THEN "refused" ELSE "put")
    /\ UNCHANGED <<billing, faults>>

\* Sign-in with a mail provider asks it for the user, three times at most. Any
\* answer that is no success is thrown and asked for again, one that asks to slow
\* down too: the wait its caller has for it is not come to.
AskAgain == [new |-> "again", again |-> "last", last |-> "refused"]

AskProvider(r) ==
    /\ r.op = "sso" /\ job[r].pc \in DOMAIN AskAgain
    /\ \E answer \in {"user", "unverified", "failure"} :
         Go(r, IF answer = "user" THEN "store"
               ELSE IF answer = "unverified" THEN "refused" ELSE AskAgain[job[r].pc])
    /\ UNCHANGED <<billing, faults>>

\* Only the callback of GitHub has looked for a record first.
PutTrial(r) ==
    /\ r.op \in {"github", "humanode", "sso"} /\ job[r].pc = "put"
    /\ Put(Record(r.customer, None, Trial))
    /\ Answered(r, IF r.op = "humanode" THEN "add" ELSE "done")
    /\ UNCHANGED <<accountIndex, stripe, events, humanodes>>

\* An error of this call is not looked at.
AddHuman(r) ==
    /\ At(r, "humanode", "add")
    /\ Go(r, "done")
    /\ \/ /\ humanodes' = {h \in humanodes : h.sub # r.sub} \union {[sub |-> r.sub, customer |-> r.customer]}
          /\ UNCHANGED faults
       \/ Fails /\ UNCHANGED humanodes
    /\ UNCHANGED <<customers, accountIndex, stripe, events>>

\* The accounts there are at the start: none, or those a tool is run on.
CustomersInit(tools) ==
    /\ stripe = [s \in Account |->
                   IF tools /\ s \in DOMAIN Standing
                   THEN [NoAccount EXCEPT !.state = "live", !.customer = Standing[s].customer,
                                          !.plan = Standing[s].plan, !.held = 1, !.paid = Standing[s].paid]
                   ELSE NoAccount]
    /\ customers = IF tools
                   THEN {Record(Standing[s].customer, s, Standing[s].plan) :
                           s \in {t \in DOMAIN Standing : Standing[t].recorded}}
                   ELSE {}
    /\ accountIndex = customers
    /\ events = {}
    /\ humanodes = {}

CustomersNext ==
    \/ Propagate
    \/ \E r \in Batch :
         \/ Checkout(r) \/ CompleteCheckout(r) \/ Resubscribe(r) \/ ChangeEmail(r)
         \/ Webhook(r) \/ LookUpAccount(r) \/ UpdateOwner(r) \/ LookUpCustomer(r) \/ PutSubscribed(r)
         \/ FindToSet(r) \/ AccountToSet(r) \/ SetInStripe(r) \/ SetInTable(r)
         \/ Initialize(r) \/ PutInitialized(r)
         \/ SignIn(r) \/ SignedUpBefore(r) \/ KnownHuman(r) \/ AskProvider(r) \/ PutTrial(r) \/ AddHuman(r)

=============================================================================
