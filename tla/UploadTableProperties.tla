------------------------ MODULE UploadTableProperties ------------------------
(* What an upload lists, what is counted, and what a client's pages add up  *)
(* to.                                                                      *)
EXTENDS UploadTable

TypeOK ==
    /\ DOMAIN uploads \subseteq Key
    /\ \A k \in DOMAIN uploads : uploads[k] \in Upload
    /\ versions \in [Key -> SUBSET Version]
    /\ objects \subseteq {<<s, l>> : s \in Space, l \in Lists}
    /\ spaceTotals \in [Space -> [added : Nat, removed : Int]]
    /\ adminTotals \in [added : Nat, removed : Int]
    /\ now \in Time
    /\ job \in [Requests -> Job]
    /\ listing = NoListing \/ listing.state \in {"open", "done", "failed"}
    /\ added \in [Key -> SUBSET Shard]
    /\ raced \subseteq Key
    /\ faults \in 0..MaxFaults

-----------------------------------------------------------------------------
\* All the shards that may ever be added to the upload are few.
Small(k) ==
    Cardinality(UNION {ToSet(r.shards) : r \in {r \in Requests : r.op = "add" /\ r.key = k}})
      < Threshold

Readable(k) ==
    uploads[k].ref = NoRef \/ ObjectOf(k, uploads[k].ref) \in objects

\* What listShards answers from.
Shards(k) == IF uploads[k].ref = NoRef THEN uploads[k].shards ELSE ToSet(uploads[k].ref)

(***************************************************************************)
(* An upload lists the shards added to it since it was last removed, all   *)
(* and no others, while it grows from the item into the bucket and as      *)
(* requests stop anywhere: as long as it stays below the threshold,        *)
(* whatever is asked at once and however late a read is, and above it if   *)
(* no two requests were about it at once, no upsert read what it was       *)
(* before, and no removal took the object it shared. upsert says "check if *)
(* record exists to get existing shards" and "Merge existing and new".     *)
(***************************************************************************)
ShardsKept ==
    \A k \in DOMAIN uploads :
        k \notin raced \/ Small(k) => Readable(k) /\ Shards(k) = added[k]

-----------------------------------------------------------------------------
Uncounted == {r \in Requests : job[r].pc \in {"object", "count"}}

Failed == {r \in Requests : job[r].pc = "error"}

\* Upserts of an upload that began within one millisecond of each other's.
Begun == {r \in Requests : r.op = "add" /\ job[r].pc # "new"}

Together ==
    {r \in Begun : \E q \in Begun \ {r} : q.key = r.key /\ job[q].at = job[r].at}

InSpace(s, rs) == {r \in rs : r.key[1] = s}

Change(rs) ==
    Cardinality({r \in rs : r.op = "add"}) - Cardinality({r \in rs : r.op = "remove"})

UploadsOf(s) == {k \in DOMAIN uploads : k[1] = s}

(***************************************************************************)
(* The metrics of a space, and those of the service, count its uploads     *)
(* ("if new, increment total"), less those of requests that have yet to    *)
(* count, that failed, or, twice, of upserts of one upload that began in   *)
(* the same millisecond: an upsert is new when its two times are the same. *)
(* A space's removals are counted downwards, the service's upwards.        *)
(***************************************************************************)
UploadsCounted ==
    \E spaceMissed \in SUBSET Failed, adminMissed \in SUBSET Failed, twice \in SUBSET Together :
        /\ Cardinality(spaceMissed \union adminMissed) <= faults
        /\ \A s \in Space :
             spaceTotals[s].added + spaceTotals[s].removed
               + Change(InSpace(s, Uncounted \union spaceMissed)) - Change(InSpace(s, twice))
                 = Cardinality(UploadsOf(s))
        /\ adminTotals.added - adminTotals.removed
             + Change(Uncounted \union adminMissed) - Change(twice) = Cardinality(DOMAIN uploads)

-----------------------------------------------------------------------------
(***************************************************************************)
(* A client that follows the cursors to the end has seen everything that   *)
(* was there all along, and, when nothing was removed meanwhile, nothing   *)
(* twice: with pages of any size asked for, upwards or downwards, while    *)
(* uploads are added on both sides of the cursor, and while the shards     *)
(* move from the item, where they are sorted, to a list, where they are in *)
(* the order of arrival. Two requests about an upload at once may reorder  *)
(* its shards, which a client then misses or sees twice.                   *)
(***************************************************************************)
ListingsComplete ==
    listing.state = "done" /\ (listing.of = "uploads" \/ listing.key \notin raced) =>
        /\ listing.watch \subseteq ToSet(listing.seen)
        /\ listing.gone \/ IsInjective(listing.seen)
=============================================================================
