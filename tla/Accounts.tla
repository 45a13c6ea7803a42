-------------------------------- MODULE Accounts --------------------------------
(***************************************************************************)
(* The account subsystem: provisioning, delegations and revocations,       *)
(* customers and the tools on them, at once. Their requests share the      *)
(* processes they run in, a sign-in stores delegations before it makes a   *)
(* customer, and the tools change the table and the accounts customers     *)
(* use. Any request can stop where it is.                                  *)
(***************************************************************************)
EXTENDS Provisions, Access, StripeTools

VARIABLE inTurn \* so far, what is told of below has not happened

vars == <<job, faults, provisioning, access, billing, inTurn>>

\* A customer who is at Stripe's checkout does not keep others from it.
Busy == {r \in UnderWay : job[r].pc # "session"}

Interleaves == \E q \in Busy : \E r \in Batch \ {q} : job'[r].pc # job[r].pc

\* A webhook is told of a plan that is no longer the account's, or looks an
\* account up in an index that is behind.
Misled ==
    \E r \in Busy : r.op = "hook" /\ \/ Told(r).plan # stripe[Told(r).account].plan
                                     \/ job[r].pc = "account" /\ accountIndex # customers

Parts ==
    \/ ProvisionsNext /\ UNCHANGED <<access, billing>>
    \/ AccessNext /\ UNCHANGED <<provisioning, billing>>
    \/ (CustomersNext \/ ToolsNext) /\ UNCHANGED <<provisioning, access>>
    \/ \E r \in Batch : Stop(r) /\ UNCHANGED <<provisioning, access, billing>>

Next == Parts /\ inTurn' = (inTurn /\ ~Interleaves /\ ~Misled /\ faults' = 0)

Init ==
    /\ RequestsInit /\ ProvisionsInit /\ AccessInit
    /\ CustomersInit(\E r \in Batch : r.op \in {"dedupe", "migrate"})
    /\ inTurn = TRUE

Spec == Init /\ [][Next]_vars

-----------------------------------------------------------------------------

Done(op) == {r \in Batch : r.op = op /\ job[r].pc = "done"}

\* Stripe's last word about s has been heard.
Heard(s) == stripe[s].no = 0 \/ \E r \in Done("hook") : Told(r).account = s /\ Told(r).no = stripe[s].no

InReview(s) == \E r \in Batch : r.op = "migrate" /\ job[r].pc # "new" /\ s \in job[r].seen.review

RecordsMatchStripe ==
    /\ \A x \in customers : x.account # None =>
         /\ \A y \in customers : y.account = x.account => y = x
         /\ Heard(x.account) /\ ~InReview(x.account) => x.product = stripe[x.account].plan
         /\ stripe[x.account].customer = x.customer /\ x.customer \notin Escaped => Live(x.account)
    /\ \A r \in Done("hook") :
         \/ \E x \in customers : x.account = Told(r).account
         \/ \E q \in Done("humanode") \union Done("sso") : q.customer = job[r].seen.customer

(***************************************************************************)
(* While requests are handled one after another, however they are ordered, *)
(* and whatever customers do at Stripe in between, the customer table is   *)
(* what Stripe has: an account whose subscriptions were told of has one    *)
(* record, also when its e-mail address changes (getByAccount), with its   *)
(* plan, and tools do not delete it. Two sign-ups with one Humanode are    *)
(* one. A sign-up with Humanode or a mail provider replaces the record     *)
(* there is, a customer with an address that has to be escaped may have    *)
(* its account deleted by the deduplication, and so may one whose address  *)
(* changed in Stripe.                                                      *)
(* Without the condition none of this holds: webhook, sign-up and          *)
(* initialize read a record and put it back whatever it has become.        *)
(***************************************************************************)
CustomersMatchStripe ==
    inTurn /\ Busy = {} =>
        /\ RecordsMatchStripe
        /\ \A q, r \in Done("humanode") : q.sub = r.sub => q = r

=============================================================================
