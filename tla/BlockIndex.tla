------------------------------ MODULE BlockIndex ------------------------------
(***************************************************************************)
(* Publishing the index of an upload. publish (ipni-service.js) puts the   *)
(* blocks of all its shards on the queue of advertisements, in messages    *)
(* of at most MaxDigests; and, for a space with a legacy provider, the     *)
(* blocks of each shard, with the location of the shard, on the queue of   *)
(* the block index writer. The indexer (indexer/functions) takes a message *)
(* at a time and writes its blocks in batches, all of them at once: to the *)
(* multihashes queue and to the blocks table of Elastic IPFS, which are    *)
(* outside this repository. A handler that meets an error answers with a   *)
(* status 500 and does not throw, so that its message is deleted; that of  *)
(* an invocation that dies is received again, as often as it takes (short  *)
(* of the days a queue keeps it): the dead letter queue is given to the    *)
(* consumers and not to the queues (stacks/indexer-stack.js).              *)
(***************************************************************************)
EXTENDS Integers, FiniteSets, SequencesExt

CONSTANTS
    Location,      \* where shards can be read
    Block,
    Publications,  \* sets of calls of publish, of which a behaviour has one
    MaxDigests,    \* MAX_BLOCK_DIGESTS
    MaxEntries,    \* MAX_INDEX_ENTRIES
    QueueBatch,    \* MAX_BATCH_SIZE of the multihashes queue
    TableBatch,    \* MAX_BATCH_SIZE of the blocks table
    MaxIndexFaults \* bound on the failures injected in a behaviour

ASSUME IndexAssumption ==
    /\ \A ps \in Publications : \A p \in ps :
         /\ p.legacy \in BOOLEAN
         /\ p.shards \in Seq([location : Location, blocks : Seq(Block)]) /\ IsInjective(p.shards)
    /\ {MaxDigests, MaxEntries, QueueBatch, TableBatch} \subseteq Nat \ {0}
    /\ MaxIndexFaults \in Nat

VARIABLES
    publishing,  \* the calls of a behaviour: their step, and the messages to send
    notices,     \* messages on the two queues, or being handled
    multihashes, \* blocks on the multihashes queue
    positions,   \* the blocks table: blocks by the location of their shard
    givenUp,     \* what handlers could not write, of messages that were deleted
    indexFaults  \* failures injected so far

index == <<publishing, notices, multihashes, positions, givenUp, indexFaults>>

IndexFault == indexFaults < MaxIndexFaults /\ indexFaults' = indexFaults + 1

\* What is left of a list, taken so many at a time.
Chunks(list, size) ==
    {SubSeq(list, i, IF i + size > Len(list) THEN Len(list) ELSE i + size - 1) :
        i \in {j \in DOMAIN list : j % size = 1 \/ size = 1}}

\* A block as it is written: of the multihashes queue, or at a location.
Item(to, location, b) == [to |-> to, location |-> location, block |-> b]

Everywhere == "everywhere"

AllBlocks(p) == FlattenSeq([i \in DOMAIN p.shards |-> p.shards[i].blocks])

ItemsIn(to, location, blocks) == {Item(to, location, b) : b \in ToSet(blocks)}

Adverts(p) == {ItemsIn("advert", Everywhere, c) : c \in Chunks(AllBlocks(p), MaxDigests)}

IndexMessages(p) ==
    UNION {{ItemsIn("index", p.shards[i].location, c) : c \in Chunks(p.shards[i].blocks, MaxEntries)} :
             i \in DOMAIN p.shards}

\* The batches of a message, whose order does not matter: a handler splits a list.
BatchesOf(items) ==
    LET size == IF \E i \in items : i.to = "advert" THEN QueueBatch ELSE TableBatch
    IN  {ToSet(c) : c \in Chunks(SetToSeq(items), size)}

Notice(p, items, copy) ==
    [of |-> p, items |-> items, copy |-> copy, left |-> BatchesOf(items), lost |-> {}]

-----------------------------------------------------------------------------
PublishStep(p, step, messages) ==
    publishing' = [publishing EXCEPT ![p] = [pc |-> step, left |-> messages]]

PublishAdverts(p) ==
    /\ publishing[p].pc = "new"
    /\ PublishStep(p, "adverts", Adverts(p))
    /\ UNCHANGED <<notices, multihashes, positions, givenUp, indexFaults>>

\* A message is sent again when its answer is lost, and is then there twice. When one
\* failed for good, those under way may be sent all the same.
SendNotice(p, items) ==
    /\ items \in publishing[p].left
    /\ publishing' = [publishing EXCEPT ![p].left = @ \ {items}]
    /\ \/ notices' = notices \union {Notice(p, items, 1)} /\ UNCHANGED indexFaults
       \/ IndexFault /\ notices' = notices \union {Notice(p, items, 1), Notice(p, items, 2)}
    /\ UNCHANGED <<multihashes, positions, givenUp>>

SendFails(p) ==
    /\ publishing[p].pc \in {"adverts", "index"} /\ publishing[p].left # {}
    /\ IndexFault
    /\ \E items \in publishing[p].left :
         /\ PublishStep(p, "error", publishing[p].left \ {items})
         /\ notices' \in {notices, notices \union {Notice(p, items, 1)}}
    /\ UNCHANGED <<multihashes, positions, givenUp>>

\* When its adverts are on their queue, those of a legacy space follow.
PublishIndex(p) ==
    /\ publishing[p].pc = "adverts" /\ publishing[p].left = {} /\ p.legacy
    /\ PublishStep(p, "index", IndexMessages(p))
    /\ UNCHANGED <<notices, multihashes, positions, givenUp, indexFaults>>

AnswerPublish(p) ==
    /\ publishing[p].left = {}
    /\ publishing[p].pc = IF p.legacy THEN "index" ELSE "adverts"
    /\ PublishStep(p, "ok", {})
    /\ UNCHANGED <<notices, multihashes, positions, givenUp, indexFaults>>

-----------------------------------------------------------------------------
Written(items) ==
    /\ multihashes' = multihashes \union {i.block : i \in {j \in items : j.to = "advert"}}
    /\ positions' = positions \union {i \in items : i.to = "index"}

\* Slip: the answer is not looked at for items that were not taken.
RetriedNone(batch, done) == {}

\* What a batch that was taken in part is sent again with.
Retried(batch, done) == batch \ done

\* A batch is taken, in full or in part.
WriteBatch(m) ==
    /\ \E batch \in m.left : \E done \in SUBSET batch \ {{}} :
         /\ Written(done)
         /\ notices' = (notices \ {m}) \union
                {[m EXCEPT !.left = (@ \ {batch}) \union ({Retried(batch, done)} \ {{}})]}
    /\ UNCHANGED <<publishing, givenUp, indexFaults>>

\* A batch fails after its last retry. The others are written all the same.
BatchFails(m) ==
    /\ IndexFault
    /\ \E batch \in m.left :
         notices' = (notices \ {m}) \union {[m EXCEPT !.left = @ \ {batch}, !.lost = @ \union batch]}
    /\ UNCHANGED <<publishing, multihashes, positions, givenUp>>

\* The handler answers, with an error or not, and the message is deleted.
HandlerEnds(m) ==
    /\ m.left = {}
    /\ notices' = notices \ {m}
    /\ givenUp' = givenUp \union m.lost
    /\ UNCHANGED <<publishing, multihashes, positions, indexFaults>>

\* The invocation dies, or runs into its timeout: the message is received again.
InvocationDies(m) ==
    /\ m # Notice(m.of, m.items, m.copy)
    /\ IndexFault
    /\ notices' = (notices \ {m}) \union {Notice(m.of, m.items, m.copy)}
    /\ UNCHANGED <<publishing, multihashes, positions, givenUp>>

-----------------------------------------------------------------------------
IndexInit ==
    /\ \E ps \in Publications : publishing = [p \in ps |-> [pc |-> "new", left |-> {}]]
    /\ notices = {} /\ multihashes = {} /\ positions = {} /\ givenUp = {}
    /\ indexFaults = 0

IndexNext ==
    \/ \E p \in DOMAIN publishing :
         \/ PublishAdverts(p) \/ SendFails(p) \/ PublishIndex(p) \/ AnswerPublish(p)
         \/ \E items \in publishing[p].left : SendNotice(p, items)
    \/ \E m \in notices : WriteBatch(m) \/ BatchFails(m) \/ HandlerEnds(m) \/ InvocationDies(m)

-----------------------------------------------------------------------------
\* Taken in, as far as the queues go: written, on its way, or given up after an error.
TakenIn(i) ==
    \/ IF i.to = "advert" THEN i.block \in multihashes ELSE i \in positions
    \/ i \in givenUp \/ \E m \in notices : i \in m.items

ItemsOfAdverts(p) ==
    UNION {ItemsIn("advert", Everywhere, p.shards[i].blocks) : i \in DOMAIN p.shards}

ItemsOfIndex(p) ==
    UNION {ItemsIn("index", p.shards[i].location, p.shards[i].blocks) : i \in DOMAIN p.shards}

(***************************************************************************)
(* A publication that was answered reaches the index: each of its blocks   *)
(* is advertised and, for a legacy space, at the location of each shard it *)
(* is in, or a message is on its way to it; unless a batch failed for good *)
(* under a handler, which costs that batch and no other. That is so though *)
(* batches are taken in part, messages doubled and invocations die half    *)
(* way. And the legacy index never runs ahead of the adverts (publish):    *)
(* what is at a location was published with all its adverts taken in.      *)
(***************************************************************************)
PublishedIsIndexed ==
    /\ \A p \in DOMAIN publishing :
         publishing[p].pc = "ok" =>
             \A i \in ItemsOfAdverts(p) \union (IF p.legacy THEN ItemsOfIndex(p) ELSE {}) : TakenIn(i)
    /\ \A i \in positions :
         \E p \in DOMAIN publishing :
             p.legacy /\ i \in ItemsOfIndex(p) /\ \A j \in ItemsOfAdverts(p) : TakenIn(j)
    /\ Cardinality(givenUp) <= indexFaults * (IF QueueBatch > TableBatch THEN QueueBatch ELSE TableBatch)
=============================================================================
