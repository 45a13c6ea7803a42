------------------------------ MODULE UploadTable ------------------------------
(***************************************************************************)
(* The upload table: which shards make up each upload of a space. Few      *)
(* shards are kept inline as a string set, which an update adds to; from   *)
(* Threshold on they are kept as a list in an object of a bucket, under a  *)
(* key made of the space and the hash of the list, which the item refers   *)
(* to. An upsert reads the item, fetches the list, merges, puts the new    *)
(* list and updates the item; a removal deletes the item and then the      *)
(* object; both then count themselves in two metrics tables. Nothing       *)
(* orders the requests, and each can stop between any two calls.           *)
(***************************************************************************)
EXTENDS Integers, FiniteSets, SequencesExt

CONSTANTS
    Space,
    Root,        \* roots, numbered in the order of their listing
    Shard,       \* shards, numbered in the order of a string set
    Threshold,   \* SHARD_THRESHOLD
    Batches,     \* sets of requests, of which a behaviour has those of one
    Limit,       \* most requests under way at once
    MaxTime,     \* bound on the clock
    Listings,    \* the listings a client may make, one in a behaviour
    MaxPage,     \* most shards in a page of a listing
    DefaultPage, \* uploads in a page of a listing that asks for none
    Faults,      \* the kinds of failure considered, a subset of FaultKind
    MaxFaults    \* bound on the failures injected in a behaviour

\* stop: a call fails without effect, or the process dies before it. metrics:
\* one of the two metrics stores fails.
FaultKind == {"stop", "metrics"}

Key == Space \X Root

Requests == UNION Batches

ASSUME UploadAssumption ==
    /\ Root \subseteq Nat \ {0} /\ Shard \subseteq Nat \ {0} /\ IsFiniteSet(Shard)
    /\ Threshold \in Nat \ {0}
    /\ \A r \in Requests :
         /\ r.op \in {"add", "remove"} /\ r.key \in Key
         /\ r.op = "add" => r.shards \in Seq(Shard) /\ IsInjective(r.shards)
    /\ \A l \in Listings :
         l.key \in Key /\ l.of \in {"shards", "uploads"} /\ l.pre \in BOOLEAN /\ l.size \in Nat
    /\ MaxPage \in Nat \ {0} /\ DefaultPage \in Nat \ {0}
    /\ Limit \in Nat /\ MaxTime \in Nat /\ MaxFaults \in Nat
    /\ Faults \subseteq FaultKind

VARIABLES
    uploads,      \* the upload table: items by space and root
    versions,     \* what each item has been: a read may still find it so
    objects,      \* the shards bucket: pairs of a space and a list
    spaceTotals,  \* the space metrics table, by space
    adminTotals,  \* the admin metrics table
    now,          \* the clock
    job,          \* what each request is about to do, and what it knows
    listing,      \* the listing a client makes, with its pages so far
    added,        \* the shards added to each upload since it was last removed
    raced,        \* uploads two requests were about at once, that an upsert read as
                  \* they were before, or that lost their object
    faults        \* failures injected so far

tables == <<uploads, versions, objects>>
totals == <<spaceTotals, adminTotals>>
history == <<added, raced>>
vars == <<tables, totals, now, job, listing, history, faults>>

Time == 0..MaxTime

\* No list has no shards: the empty one stands for no reference.
NoRef == <<>>

Lists == {l \in BoundedSeq(Shard, Cardinality(Shard)) : IsInjective(l)}

Upload == [shards : SUBSET Shard, ref : Lists, insertedAt : Time, updatedAt : Time]

Answer == {"ok", "notFound", "error"}

\* Of an item an upsert reads its shards; of one that is not there it has none.
Version == [shards : SUBSET Shard, ref : Lists]
NoItem == [shards |-> {}, ref |-> NoRef]

Job == [pc : {"new", "get", "fetch", "put", "update", "delete", "object", "count"} \union Answer,
        at : Time, ref : Lists, all : Lists]

NoListing == [state |-> "none"]

Init ==
    /\ uploads = << >> /\ objects = {}
    /\ versions = [k \in Key |-> {NoItem}]
    /\ spaceTotals = [s \in Space |-> [added |-> 0, removed |-> 0]]
    /\ adminTotals = [added |-> 0, removed |-> 0]
    /\ now = 0
    /\ job = [r \in Requests |-> [pc |-> "new", at |-> 0, ref |-> NoRef, all |-> NoRef]]
    /\ listing = NoListing
    /\ added = [k \in Key |-> {}]
    /\ raced = {}
    /\ faults = 0

-----------------------------------------------------------------------------
UnderWay == {r \in Requests : job[r].pc \notin {"new"} \union Answer}

GoTo(r, step) == job' = [job EXCEPT ![r].pc = step]

\* What follows needs nothing of what was read.
End(r, step) == job' = [job EXCEPT ![r].pc = step, ![r].ref = NoRef, ![r].all = NoRef]

Ascending(S) ==
    CHOOSE l \in [1..Cardinality(S) -> S] : \A i, j \in DOMAIN l : i < j => l[i] < l[j]

ObjectOf(k, list) == <<k[1], list>>

Exists(k) == k \in DOMAIN uploads

Held(k) == IF Exists(k) THEN [shards |-> uploads[k].shards, ref |-> uploads[k].ref] ELSE NoItem

RootsOf(s, up) == {k[2] : k \in {k \in DOMAIN up : k[1] = s}}

\* What a listing ranges over: the shards of an upload, or the roots of a space.
\* An upload whose object is not there cannot be listed.
ItemsOf(l, up, obj) ==
    IF l.of = "uploads" THEN Ascending(RootsOf(l.key[1], up))
    ELSE IF l.key \notin DOMAIN up THEN <<>>
    ELSE IF up[l.key].ref = NoRef THEN Ascending(up[l.key].shards)
    ELSE IF ObjectOf(l.key, up[l.key].ref) \in obj THEN up[l.key].ref
    ELSE <<>>

\* The client's listing: what was there all along, and whether anything went.
Watched ==
    IF listing.state # "open" THEN UNCHANGED listing
    ELSE LET before == ToSet(ItemsOf(listing, uploads, objects))
             after == ToSet(ItemsOf(listing, uploads', objects'))
         IN  listing' = [listing EXCEPT !.watch = @ \intersect after,
                                        !.gone = @ \/ ~(before \subseteq after)]

-----------------------------------------------------------------------------
\* An upsert takes the time first.
Begin(r) ==
    /\ job[r].pc = "new"
    /\ \E b \in Batches : r \in b /\ \A q \in Requests : job[q].pc # "new" => q \in b
    /\ Cardinality(UnderWay) < Limit
    /\ job' = [job EXCEPT ![r].pc = IF r.op = "add" THEN "get" ELSE "delete", ![r].at = now]
    /\ raced' = raced \union {r.key : q \in {q \in UnderWay : q.key = r.key}}
    /\ UNCHANGED <<tables, totals, now, listing, added, faults>>

\* Slip: the shards there are are not merged.
MergedNewOnly(existing, shards) == shards

\* The shards there are, in their order, and then those that are new.
Merged(existing, shards) ==
    LET upTo[i \in 0..Len(shards)] ==
          IF i = 0 THEN existing
          ELSE IF Contains(upTo[i - 1], shards[i]) THEN upTo[i - 1]
          ELSE Append(upTo[i - 1], shards[i])
    IN  upTo[Len(shards)]

Merge(r, existing, ref) ==
    LET all == Merged(existing, r.shards)
    IN  job' = [job EXCEPT ![r].pc = IF Len(all) >= Threshold THEN "put" ELSE "update",
                           ![r].ref = ref, ![r].all = all]

\* The read does not ask to be consistent: it finds the item, or what it was before.
GetItem(r) ==
    /\ job[r].pc = "get"
    /\ \E item \in versions[r.key] :
         /\ IF item.ref = NoRef
            THEN Merge(r, Ascending(item.shards), NoRef)
            ELSE job' = [job EXCEPT ![r].pc = "fetch", ![r].ref = item.ref]
         /\ raced' = raced \union {k \in {r.key} : item # Held(k)}
    /\ UNCHANGED <<tables, totals, now, listing, added, faults>>

FetchShards(r) ==
    /\ job[r].pc = "fetch"
    /\ IF ObjectOf(r.key, job[r].ref) \in objects
       THEN Merge(r, job[r].ref, job[r].ref) ELSE End(r, "error")
    /\ UNCHANGED <<tables, totals, now, listing, history, faults>>

StoreShards(r) ==
    /\ job[r].pc = "put"
    /\ objects' = objects \union {ObjectOf(r.key, job[r].all)}
    /\ GoTo(r, "update")
    /\ UNCHANGED <<uploads, versions, totals, now, history, faults>>
    /\ Watched

\* The item before the update: one that is not there is made.
Old(r) ==
    IF Exists(r.key) THEN uploads[r.key]
    ELSE [shards |-> {}, ref |-> NoRef, insertedAt |-> job[r].at, updatedAt |-> job[r].at]

\* From the threshold on the item refers to the list just put. Below it the
\* shards of the request are added, and a reference that was read is dropped.
Updated(r) ==
    IF Len(job[r].all) >= Threshold
    THEN [Old(r) EXCEPT !.updatedAt = job[r].at, !.ref = job[r].all, !.shards = {}]
    ELSE [Old(r) EXCEPT !.updatedAt = job[r].at, !.shards = @ \union ToSet(r.shards),
                        !.ref = IF r.shards # <<>> /\ job[r].ref # NoRef THEN NoRef ELSE @]

\* Slip: an upload is counted whenever it is updated.
IsNewAlways(item) == TRUE

IsNew(item) == item.insertedAt = item.updatedAt

UpdateItem(r) ==
    /\ job[r].pc = "update"
    /\ uploads' = [k \in DOMAIN uploads \union {r.key} |->
                     IF k = r.key THEN Updated(r) ELSE uploads[k]]
    /\ versions' = [versions EXCEPT ![r.key] = @ \union {Held(r.key)'}]
    /\ added' = [added EXCEPT ![r.key] = @ \union ToSet(r.shards)]
    /\ End(r, IF IsNew(Updated(r)) THEN "count" ELSE "ok")
    /\ UNCHANGED <<objects, totals, now, raced, faults>>
    /\ Watched

\* The delete is conditional, and returns the item.
DeleteItem(r) ==
    /\ job[r].pc = "delete"
    /\ IF Exists(r.key)
       THEN /\ uploads' = [k \in DOMAIN uploads \ {r.key} |-> uploads[k]]
            /\ added' = [added EXCEPT ![r.key] = {}]
            /\ job' = [job EXCEPT ![r].ref = uploads[r.key].ref,
                                  ![r].pc = IF uploads[r.key].ref = NoRef THEN "count" ELSE "object"]
       ELSE End(r, "notFound") /\ UNCHANGED <<uploads, added>>
    /\ UNCHANGED <<versions, objects, totals, now, raced, faults>>
    /\ Watched

\* Uploads of the space that refer to the list, or whose upsert is about to.
Sharing(s, list) ==
    {k \in DOMAIN uploads : k[1] = s /\ uploads[k].ref = list}
      \union {q.key : q \in {q \in UnderWay : q.key[1] = s /\ list \in {job[q].ref, job[q].all}}}

DeleteShards(r) ==
    /\ job[r].pc = "object"
    /\ objects' = objects \ {ObjectOf(r.key, job[r].ref)}
    /\ raced' = raced \union (Sharing(r.key[1], job[r].ref) \ {r.key})
    /\ End(r, "count")
    /\ UNCHANGED <<uploads, versions, totals, now, added, faults>>
    /\ Watched

\* A removal counts down in its space, and up for the service.
CountSpace(r) ==
    spaceTotals' = IF r.op = "add" THEN [spaceTotals EXCEPT ![r.key[1]].added = @ + 1]
                                   ELSE [spaceTotals EXCEPT ![r.key[1]].removed = @ - 1]

CountAdmin(r) ==
    adminTotals' = IF r.op = "add" THEN [adminTotals EXCEPT !.added = @ + 1]
                                   ELSE [adminTotals EXCEPT !.removed = @ + 1]

Count(r) ==
    /\ job[r].pc = "count"
    /\ CountSpace(r) /\ CountAdmin(r)
    /\ End(r, "ok")
    /\ UNCHANGED <<tables, now, listing, history, faults>>

CountFails(r) ==
    /\ "metrics" \in Faults
    /\ faults < MaxFaults
    /\ job[r].pc = "count"
    /\ \/ CountSpace(r) /\ UNCHANGED adminTotals
       \/ CountAdmin(r) /\ UNCHANGED spaceTotals
    /\ End(r, "error")
    /\ faults' = faults + 1
    /\ UNCHANGED <<tables, now, listing, history>>

\* The next call fails, or the process dies.
Stop(r) ==
    /\ "stop" \in Faults
    /\ faults < MaxFaults
    /\ r \in UnderWay
    /\ End(r, "error")
    /\ faults' = faults + 1
    /\ UNCHANGED <<tables, totals, now, listing, history>>

-----------------------------------------------------------------------------
OpenListing(l) ==
    /\ listing = NoListing
    /\ listing' = [state |-> "open", of |-> l.of, key |-> l.key, pre |-> l.pre, size |-> l.size,
                   cursor |-> 0, seen |-> <<>>, gone |-> FALSE,
                   watch |-> ToSet(ItemsOf(l, uploads, objects))]
    /\ UNCHANGED <<tables, totals, now, job, history, faults>>

Clamped(size) == IF size < 1 THEN 1 ELSE IF size > MaxPage THEN MaxPage ELSE size

PageThen(page, cursor) ==
    listing' = [listing EXCEPT !.seen = @ \o page, !.cursor = cursor,
                               !.state = IF cursor = 0 THEN "done" ELSE "open"]

\* Slip: the page after starts behind the cursor.
FromBehind(list, cursor) ==
    IF Contains(list, cursor) THEN SelectSeq(list, LAMBDA s : s > cursor) ELSE list

\* A page of shards starts at the cursor, or at the start when it is not there.
From(list, cursor) ==
    LET at == {i \in DOMAIN list : list[i] = cursor}
    IN  IF at = {} THEN list ELSE SubSeq(list, Min(at), Len(list))

ListShards ==
    /\ listing.state = "open" /\ listing.of = "shards"
    /\ IF listing.key \notin DOMAIN uploads THEN listing' = [listing EXCEPT !.state = "failed"]
       ELSE LET up == uploads[listing.key]
                list == From(ItemsOf(listing, uploads, objects), listing.cursor)
                size == Clamped(listing.size)
            IN  IF up.ref # NoRef /\ ObjectOf(listing.key, up.ref) \notin objects
                THEN listing' = [listing EXCEPT !.state = "failed"]
                ELSE IF Len(list) > size THEN PageThen(SubSeq(list, 1, size), list[size + 1])
                                         ELSE PageThen(list, 0)
    /\ UNCHANGED <<tables, totals, now, job, history, faults>>

\* A page of uploads starts after the cursor; with pre it goes downwards, and the
\* client takes what the answer calls before. A page that is full has a cursor
\* even when it is the last.
ListUploads ==
    /\ listing.state = "open" /\ listing.of = "uploads"
    /\ LET roots == RootsOf(listing.key[1], uploads)
           rest == IF listing.pre
                   THEN Reverse(Ascending({t \in roots : listing.cursor = 0 \/ t < listing.cursor}))
                   ELSE Ascending({t \in roots : t > listing.cursor})
           size == IF listing.size = 0 THEN DefaultPage ELSE listing.size
       IN  IF Len(rest) >= size THEN PageThen(SubSeq(rest, 1, size), rest[size])
                                ELSE PageThen(rest, 0)
    /\ UNCHANGED <<tables, totals, now, job, history, faults>>

Tick ==
    /\ now < MaxTime
    /\ now' = now + 1
    /\ UNCHANGED <<tables, totals, job, listing, history, faults>>

-----------------------------------------------------------------------------
Upsert(r) == GetItem(r) \/ FetchShards(r) \/ StoreShards(r) \/ UpdateItem(r)

Removal(r) == DeleteItem(r) \/ DeleteShards(r)

Listing == (\E l \in Listings : OpenListing(l)) \/ ListShards \/ ListUploads

Next ==
    \/ \E r \in Requests :
         Begin(r) \/ Upsert(r) \/ Removal(r) \/ Count(r) \/ CountFails(r) \/ Stop(r)
    \/ Listing \/ Tick

Spec == Init /\ [][Next]_vars
=============================================================================
