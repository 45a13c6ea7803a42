------------------------------ MODULE StripeTools ------------------------------
(***************************************************************************)
(* Two scripts an operator runs on Stripe's accounts and the customer      *)
(* table. stripe-dedupe-customers takes groups of accounts with the same   *)
(* e-mail address from a file and deletes those, but one, that cost        *)
(* nothing. schedule-stripe-migration moves the subscriptions with an old  *)
(* price, a page at a time and all of a page at once, to a schedule, a     *)
(* charge, its phases and a new plan. Both stop on a signal and are run    *)
(* again, from where they were or from the start.                          *)
(***************************************************************************)
EXTENDS Customers, Sequences

CONSTANTS
    Escaped,  \* customers whose address has capitals, or characters to be encoded
    PageSize,
    NewPlan   \* of an old plan, the one it becomes

\* 0 comes before all accounts, which are in the order of the listing.
ASSUME ToolAssumption ==
    PageSize \in Nat \ {0} /\ Account \subseteq Nat \ {0} /\ DOMAIN Standing \subseteq Account

(***************************************************************************)
(* Deduplication. What a run knows is in job[r].seen: the groups processed *)
(* and the accounts of one that are still to be deleted.                   *)
(***************************************************************************)

\* What stopped runs have left in the checkpoint.
Checkpoint ==
    UNION {job[q].seen.processed : q \in {p \in Batch : p.op = "dedupe" /\ job[p].pc = "failed"}}

StartDedupe(r) ==
    /\ At(r, "dedupe", "new")
    /\ \E resumed \in {{}, Checkpoint} :
         Read(r, "groups", [processed |-> resumed, group |-> None, account |-> None, deletions |-> {}])
    /\ UNCHANGED <<billing, faults>>

\* The account of the record, unless its address is looked for under another,
\* in small letters and encoded once more. A look-up that fails has found none.
MappedAccount(r) ==
    /\ At(r, "dedupe", "groups")
    /\ \/ \E g \in DOMAIN r.groups \ job[r].seen.processed, account \in {None} \union Account :
            /\ Read(r, "details", [job[r].seen EXCEPT !.group = g, !.account = account])
            /\ \/ /\ account = IF g \in Escaped \/ RecordOf(g) = {} THEN None
                              ELSE (CHOOSE x \in RecordOf(g) : TRUE).account
                  /\ UNCHANGED faults
               \/ account = None /\ Fails
       \/ DOMAIN r.groups \subseteq job[r].seen.processed /\ Go(r, "done") /\ UNCHANGED faults
    /\ UNCHANGED billing

ZeroFootprint(s) == ~stripe[s].paid

\* The one to keep: that of the record, else one that paid, else any.
Canonical(group, mapped) ==
    IF mapped \in group THEN {mapped}
    ELSE IF \E s \in group : stripe[s].paid THEN {s \in group : stripe[s].paid}
    ELSE group

SelectCanonical(r) ==
    /\ At(r, "dedupe", "details")
    /\ LET group == r.groups[job[r].seen.group]
       IN  \E kept \in Canonical(group, job[r].seen.account) :
             Read(r, "delete", [job[r].seen EXCEPT !.deletions = {s \in group \ {kept} : ZeroFootprint(s)}])
    /\ UNCHANGED <<billing, faults>>

\* An error is told of and passed over.
DeleteAccount(r) ==
    /\ At(r, "dedupe", "delete")
    /\ \E s \in job[r].seen.deletions :
         /\ Read(r, "delete", [job[r].seen EXCEPT !.deletions = @ \ {s}])
         /\ \/ stripe' = [stripe EXCEPT ![s].state = "deleted"] /\ UNCHANGED faults
            \/ Fails /\ UNCHANGED stripe
    /\ UNCHANGED <<customers, accountIndex, events, humanodes>>

GroupDone(r) ==
    /\ At(r, "dedupe", "delete") /\ job[r].seen.deletions = {}
    /\ Read(r, "groups", [job[r].seen EXCEPT !.processed = @ \union {job[r].seen.group}])
    /\ UNCHANGED <<billing, faults>>

(***************************************************************************)
(* Migration. job[r].seen has the account whose subscription was processed *)
(* last, the step each subscription of the page is at, those put up for    *)
(* manual attention, whether there are more, and the prices to go.         *)
(***************************************************************************)
Price(s) == Standing[s].plan

\* A run starts from the newest, or after one that a stopped run named.
StartMigration(r) ==
    /\ At(r, "migrate", "new")
    /\ \E last \in {0} \union {job[q].seen.last :
                        q \in {p \in Batch : p.op = "migrate" /\ job[p].pc = "failed"}} :
         Read(r, "list", [last |-> last, from |-> last, work |-> <<>>, more |-> FALSE, review |-> {}, prices |-> r.prices])
    /\ UNCHANGED <<billing, faults>>

\* The subscriptions with the price, after the one processed last.
Listed(r) ==
    {s \in DOMAIN Standing : Live(s) /\ Price(s) = Head(job[r].seen.prices) /\ s > job[r].seen.last}

FirstOf(S) == {s \in S : Cardinality({t \in S : t < s}) < PageSize}

ListPage(r) ==
    /\ At(r, "migrate", "list")
    /\ LET page == FirstOf(Listed(r))
       IN  IF page = {} THEN Read(r, "price", job[r].seen)
           ELSE Read(r, "page", [job[r].seen EXCEPT
                    !.work = [s \in page |->
                        [step |-> "retrieve", scheduled |-> stripe[s].schedule # "none", owner |-> None]],
                    !.more = Listed(r) # page])
    /\ UNCHANGED <<billing, faults>>

\* Slip: the customer is charged before there is a schedule.
ThenCharged ==
    [retrieve |-> "charge", charge |-> "schedule", schedule |-> "phases", phases |-> "find", find |-> "update"]

\* The step after one that succeeded.
Then ==
    [retrieve |-> "schedule", schedule |-> "charge", charge |-> "phases", phases |-> "find", find |-> "update"]

InWork(r, s, step) ==
    /\ r.op = "migrate" /\ job[r].pc = "page"
    /\ s \in DOMAIN job[r].seen.work /\ job[r].seen.work[s].step = step

To(r, s, step) == Read(r, "page", [job[r].seen EXCEPT !.work[s].step = step])

\* The subscription is put up for manual attention, or left to it.
Review(r, s) ==
    Read(r, "page", [job[r].seen EXCEPT !.work[s].step = "over", !.review = @ \union {s}])

\* A subscription that was listed with a schedule, or whose customer is gone, is passed over.
Retrieve(r, s) ==
    /\ InWork(r, s, "retrieve")
    /\ IF Live(s) /\ ~job[r].seen.work[s].scheduled
       THEN Read(r, "page", [job[r].seen EXCEPT
                !.work[s] = [step |-> Then["retrieve"], scheduled |-> FALSE, owner |-> stripe[s].customer]])
       ELSE Review(r, s)
    /\ UNCHANGED <<billing, faults>>

\* A call that changes Stripe, whose answer may be lost.
Call(r, s, step) ==
    /\ \/ To(r, s, Then[step]) /\ UNCHANGED faults
       \/ Fails /\ Review(r, s)
    /\ UNCHANGED <<customers, accountIndex, events, humanodes>>

\* A subscription has one schedule.
CreateSchedule(r, s) ==
    /\ InWork(r, s, "schedule")
    /\ \/ /\ Live(s) /\ stripe[s].schedule = "none"
          /\ stripe' = [stripe EXCEPT ![s].schedule = "created"]
          /\ Call(r, s, "schedule")
       \/ /\ ~Live(s) \/ stripe[s].schedule # "none"
          /\ Review(r, s)
          /\ UNCHANGED <<billing, faults>>

\* The adjustment: for the days to the next month, unless it is of nothing.
Adjust(r, s) ==
    /\ InWork(r, s, "charge")
    /\ \E items \in {0, 1} : stripe' = [stripe EXCEPT ![s].charges = @ + items]
    /\ Call(r, s, "charge")

UpdatePhases(r, s) ==
    /\ InWork(r, s, "phases")
    /\ stripe' = [stripe EXCEPT ![s].schedule = "phased", ![s].plan = NewPlan[Price(s)]]
    /\ Call(r, s, "phases")

\* A call of Stripe fails, which is caught.
WorkFails(r, s) ==
    /\ \E step \in DOMAIN Then \ {"find"} : InWork(r, s, step)
    /\ Fails /\ Review(r, s)
    /\ UNCHANGED billing

\* Processed, as far as the subscription goes, whatever came of the record.
Processed(r, s, review) ==
    Read(r, "page", [job[r].seen EXCEPT !.work[s].step = "over", !.last = s, !.review = @ \union review])

FindOwner(r, s) ==
    /\ InWork(r, s, "find")
    /\ \/ /\ IF \E x \in RecordOf(job[r].seen.work[s].owner) : x.account = s
             THEN To(r, s, "update")
             ELSE Processed(r, s, {s})
          /\ UNCHANGED faults
       \/ Fails /\ Processed(r, s, {s})
    /\ UNCHANGED billing

UpdateRecord(r, s) ==
    /\ InWork(r, s, "update")
    /\ \/ /\ UpdateProduct(job[r].seen.work[s].owner, NewPlan[Price(s)])
          /\ \/ Processed(r, s, {}) /\ UNCHANGED faults
             \/ Processed(r, s, {s}) /\ Fails
       \/ Processed(r, s, {s}) /\ Fails /\ UNCHANGED customers
    /\ UNCHANGED <<accountIndex, stripe, events, humanodes>>

PageDone(r) ==
    /\ At(r, "migrate", "page")
    /\ \A s \in DOMAIN job[r].seen.work : job[r].seen.work[s].step = "over"
    /\ Read(r, IF job[r].seen.more THEN "list" ELSE "price", [job[r].seen EXCEPT !.work = <<>>])
    /\ UNCHANGED <<billing, faults>>

\* The next price is listed after the subscription processed last, too.
NextPrice(r) ==
    /\ At(r, "migrate", "price")
    /\ Read(r, IF Len(job[r].seen.prices) > 1 THEN "list" ELSE "done",
            [job[r].seen EXCEPT !.prices = Tail(@)])
    /\ UNCHANGED <<billing, faults>>

ToolsNext ==
    \E r \in Batch :
        \/ StartDedupe(r) \/ MappedAccount(r) \/ SelectCanonical(r) \/ DeleteAccount(r) \/ GroupDone(r)
        \/ StartMigration(r) \/ ListPage(r) \/ PageDone(r) \/ NextPrice(r)
        \/ \E s \in DOMAIN Standing :
             \/ Retrieve(r, s) \/ CreateSchedule(r, s) \/ Adjust(r, s) \/ UpdatePhases(r, s)
             \/ WorkFails(r, s) \/ FindOwner(r, s) \/ UpdateRecord(r, s)

(***************************************************************************)
(* Whatever stops the migration, and however often it is run again, a      *)
(* customer is charged for its change at most once, and a run of one price *)
(* that was made from the start and ended has each subscription with that  *)
(* price in its phases or up for manual attention. (A run of all prices    *)
(* lists the second after the last of the first, and one from --lastId     *)
(* passes over what was under way before: neither is promised this.)       *)
(* Manual attention is all that a subscription gets that an earlier run    *)
(* left with a schedule: see ReleasedFirst.                                *)
(***************************************************************************)
MigratedOnce ==
    /\ \A s \in Account : stripe[s].charges <= 1
    /\ \A r \in Batch :
         r.op = "migrate" /\ Len(r.prices) = 1 /\ job[r].pc = "done" /\ job[r].seen.from = 0 =>
             \A s \in DOMAIN Standing :
                 Live(s) /\ Price(s) = r.prices[1] => stripe[s].schedule = "phased" \/ s \in job[r].seen.review

(***************************************************************************)
(* What the README beside the script says, and the script does not do: a   *)
(* run that comes, while no other is under way, to a subscription that an  *)
(* earlier one left with a schedule and without its phases goes on to give *)
(* it a new one ("If a schedule exists, it is released first"; "this makes *)
(* re-runs predictable").                                                  *)
(***************************************************************************)
ReleasedFirst ==
    [][\A r \in Batch, s \in DOMAIN Standing :
         UnderWay = {r} /\ Live(s) /\ stripe[s].schedule = "created" /\ Retrieve(r, s) =>
             job'[r].seen.work[s].step # "over"]_<<job, billing>>

=============================================================================
