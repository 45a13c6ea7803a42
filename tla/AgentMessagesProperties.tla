----------------------- MODULE AgentMessagesProperties -----------------------
(* What an answered write promises, and what the consumers make of the      *)
(* stream.                                                                  *)
EXTENDS AgentMessages

Item == [kind : {"in", "out"}, task : Task, message : Nat \ {0}]

TypeOK ==
    /\ bucket \subseteq {w.id : w \in Sendings}
    /\ index \subseteq Item
    /\ ToSet(stream) \subseteq Record /\ IsInjective(stream)
    /\ \A w \in Sendings :
         /\ job[w].pc \in {"new", "open", "ok", "error"}
         /\ job[w].left \subseteq Commands(w)
         /\ job[w].log \in {"none", "find", "read", "done", "failed"}
         /\ job[w].find \subseteq Task
    /\ metrics.at \in Nat /\ metrics.end - metrics.at \in 0..BatchSize
    /\ metrics.end <= Len(stream) /\ metrics.left \subseteq Steps
    /\ billed \in 0..Len(stream)
    /\ totals \in [offer : Nat, accept : Nat]
    /\ rejected \subseteq Record
    /\ faults \in 0..MaxFaults

-----------------------------------------------------------------------------
Answered(id) == \E w \in Sendings : w.id = id /\ job[w].pc = "ok"

\* A message that is named in the index and not in the bucket: its write stopped
\* half way, or has yet to end.
Torn(id) == id # 0 /\ id \notin bucket /\ ~Answered(id)

(***************************************************************************)
(* What was answered can be read again, once the index shows its items:    *)
(* the invocation of a task whose message was answered, and its receipt,   *)
(* which is not got without the invocation, whatever other writes are      *)
(* under way or failed. Only a torn message that has the same task and     *)
(* comes first in the index can hide them, since the first item is taken   *)
(* without a look at whether its message is there; and one that hides the  *)
(* invocation hides every receipt of the task.                             *)
(***************************************************************************)
AnsweredIsReadable ==
    \A w \in Sendings : job[w].pc = "ok" =>
        /\ \A t \in w.in : Readable("in", t) \/ Torn(First("in", t))
        /\ \A r \in w.out :
             \/ ReceiptReadable(r.task)
             \/ Torn(First("in", r.task)) \/ Torn(First("out", r.task))

(***************************************************************************)
(* A message that was answered has a record on the stream for each of its  *)
(* invocations and receipts, but for those over the size, which are left   *)
(* out of a write that is answered all the same, and for those Kinesis     *)
(* rejected one by one; and each of its receipts has an invocation that    *)
(* was found.                                                              *)
(***************************************************************************)
AnsweredIsOnStream ==
    \A w \in Sendings : job[w].pc = "ok" =>
        /\ \A e \in Entries(w) :
             e \in ToSet(stream) \/ e \in rejected \/ TooLarge(e)
        /\ \A r \in w.out : r.task \in w.in \/ First("in", r.task) # 0

-----------------------------------------------------------------------------
Upto(n) == {stream[i] : i \in 1..n}

MessagesOf(records) == {r.message : r \in records}

\* The places of the good receipts of an ability among the first records.
Places(ability, n) == {i \in 1..n : OkReceipts({stream[i]}, ability) # {}}

\* Some batch that begins after record a has an offer in it.
OfferAhead(a) == \E i \in Places("offer", Len(stream)) : a < i /\ i <= a + BatchSize

(***************************************************************************)
(* The totals of the pipeline count each receipt at least once, the offers *)
(* of a message as one at least, and repeat no more than was counted of    *)
(* batches that failed: for an error of their own, or for an offer whose   *)
(* message is not there. That one is found out again by each half that has *)
(* it, from each place where a batch with it can begin, and the accepts of *)
(* the batch pay for it; the offers do not, which are counted at its end.  *)
(***************************************************************************)
AggregatesCounted ==
    LET Errors == BatchSize * faults
        Begun == {a \in 0..metrics.at : OfferAhead(a)}
    IN  /\ Cardinality(MessagesOf(OkReceipts(Upto(metrics.at), "offer"))) <= totals.offer
        /\ totals.offer <= Cardinality(Places("offer", metrics.end)) + Errors
        /\ Cardinality(OkReceipts(Upto(metrics.at), "accept")) <= totals.accept
        /\ totals.accept <= Cardinality(Places("accept", metrics.end)) + Errors
                              + 2 * (BatchSize - 1) * Cardinality(Begun)

(***************************************************************************)
(* Each receipt of a space that changed size is billed to each provider    *)
(* once, however often its batch is taken: "multiple calls to this         *)
(* function with the same data must not add another record". A message     *)
(* that is written twice has its receipts on the stream twice.             *)
(***************************************************************************)
ReceiptsBilledOnce ==
    LET passed == OkReceipts(Upto(billed), "store")
        taken == OkReceipts(ToSet(stream), "store")
        Billed(p) == Cardinality({d \in diffs : d.provider = p})
    IN  \A p \in Provider : Cardinality(passed) <= Billed(p) /\ Billed(p) <= Cardinality(taken)

\* The invocation is not found, and a write of it failed.
Blocking(r) ==
    ~Readable("in", r.task) /\ \E w \in Sendings : r.task \in w.in /\ job[w].pc = "error"

(***************************************************************************)
(* The consumers come to the end of the stream: but for an offer whose     *)
(* invocation cannot be read since a write of it failed, which holds up    *)
(* the metrics, alone, for as long as the stream keeps it.                 *)
(***************************************************************************)
StreamConsumed ==
    <>[](/\ billed = Len(stream)
         /\ metrics.at = Len(stream) \/ \E r \in Offers(BatchOf(metrics)) : Blocking(r))
=============================================================================
