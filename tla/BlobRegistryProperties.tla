----------------------- MODULE BlobRegistryProperties -----------------------
(* The totals of the blob registry against the diffs and the metrics.      *)
EXTENDS BlobRegistry, Functions

Held(s) == {e \in registry : e[1] = s}

SizeHeld(s) == SumFunction([e \in Held(s) |-> Size[e[2]]])

DiffsOf(s, p) == {d \in diffs : d.space = s /\ d.provider = p}

DiffTotal(s, p) == SumFunction([d \in DiffsOf(s, p) |-> d.delta])

(***************************************************************************)
(* For every provider of a space the diffs add up to the size of the blobs *)
(* registered in it: what storage billing integrates is what the space     *)
(* holds, whatever requests are under way and wherever they stop. In a     *)
(* space whose invocations are sent again they do not: see the comment in  *)
(* register, "skipping the diff insert is enough to prevent                *)
(* double-counting".                                                       *)
(***************************************************************************)
DiffsMatchRegistry ==
    \A e \in Consumers : e[1] \in SentOnce => DiffTotal(e[1], e[2]) = SizeHeld(e[1])

Change(rs) == SumFunction([r \in rs |-> Delta(r)])

In(s, rs) == {r \in rs : r.space = s}

Balance(totals) == totals.addedSize - totals.removedSize

\* Requests that changed the registry and have yet to count it.
ToCount == {r \in Requests : pc[r] = "metrics"}

Failed == {r \in Requests : pc[r] = "error"}

(***************************************************************************)
(* The metrics of a space count the size of its blobs, and those of the    *)
(* service the size of all, but for the requests that have yet to count    *)
(* theirs and at most one for each failure: two blobs at once, causes sent *)
(* again and transactions that are cancelled do not disturb them.          *)
(***************************************************************************)
MetricsMatchRegistry ==
    \E spaceMissed \in SUBSET Failed, adminMissed \in SUBSET Failed :
        /\ Cardinality(spaceMissed \union adminMissed) <= faults
        /\ \A s \in Space : Balance(spaceMetrics[s])
                              + Change(In(s, ToCount \union spaceMissed)) = SizeHeld(s)
        /\ Balance(adminMetrics) + Change(ToCount \union adminMissed)
             = SumFunction([s \in Space |-> SizeHeld(s)])
=============================================================================
