----------------------------- MODULE BlobRegistry -----------------------------
(***************************************************************************)
(* The blob registry of the upload API, behind the wrapper that keeps the  *)
(* legacy allocations table: which blobs a space holds, and the space      *)
(* diffs that storage billing integrates.                                  *)
(*                                                                         *)
(* A request first puts or deletes an allocation, then looks its cause up  *)
(* in the diffs, then changes the registry and puts the diffs in one       *)
(* transaction, and last increments the metrics. Requests are answered     *)
(* concurrently, by processes that can stop between any two calls.         *)
(***************************************************************************)
EXTENDS Integers, FiniteSets

CONSTANTS
    Space,
    Blob,
    Provider,
    Size,       \* the size of each blob: a digest has one content
    Consumers,  \* the consumer table: pairs of a space and a provider
    Requests,   \* the requests that may be sent
    Limit,      \* most requests under way at once
    Faults,     \* the kinds of failure considered, a subset of FaultKind
    MaxFaults   \* bound on the failures injected in a behaviour

\* stop: a call fails without effect, or the process dies before it. metrics:
\* one of the two metrics stores fails. stale: the lookup of a cause misses diffs
\* (it reads an index, and a failed listing is taken for no diffs).
FaultKind == {"stop", "metrics", "stale"}

Request == [op : {"register", "deregister"}, space : Space, blob : Blob,
            cause : STRING, sending : Nat]

\* The cause of a request is the UCAN invocation it was sent as: the requests
\* with the same cause are sendings of one invocation.
ASSUME RegistryAssumption ==
    /\ IsFiniteSet(Space)
    /\ Size \in [Blob -> Nat \ {0}]
    /\ Consumers \subseteq Space \X Provider
    /\ Requests \subseteq Request
    /\ \A r, q \in Requests :
         r.cause = q.cause => r.op = q.op /\ r.space = q.space /\ r.blob = q.blob
    /\ Limit \in Nat
    /\ Faults \subseteq FaultKind
    /\ MaxFaults \in Nat

VARIABLES
    allocations,   \* the allocations table: pairs of a space and a blob
    registry,      \* the blob registry table: pairs of a space and a blob
    diffs,         \* the space diff table
    spaceMetrics,  \* the space metrics table, by space
    adminMetrics,  \* the admin metrics table
    pc,            \* what each request is about to do
    known,         \* a request found its cause in the diffs
    faults         \* failures injected so far

tables == <<allocations, registry, diffs>>
metrics == <<spaceMetrics, adminMetrics>>
vars == <<tables, metrics, pc, known, faults>>

Answer == {"ok", "exists", "notFound", "error"}

Pc == {"new", "get", "lookup", "transact", "metrics"} \union Answer

\* A diff's receipt time and cause tell it apart: at is the request that put it.
Diff == [space : Space, provider : Provider, cause : STRING, at : Requests, delta : Int]

Totals == [added : Nat, addedSize : Nat, removed : Nat, removedSize : Nat]

NoTotals == [added |-> 0, addedSize |-> 0, removed |-> 0, removedSize |-> 0]

Entry(r) == <<r.space, r.blob>>

Init ==
    /\ allocations = {} /\ registry = {} /\ diffs = {}
    /\ spaceMetrics = [s \in Space |-> NoTotals]
    /\ adminMetrics = NoTotals
    /\ pc = [r \in Requests |-> "new"]
    /\ known = [r \in Requests |-> FALSE]
    /\ faults = 0

-----------------------------------------------------------------------------
UnderWay == {r \in Requests : pc[r] \notin {"new"} \union Answer}

GoTo(r, step) == pc' = [pc EXCEPT ![r] = step]

\* Slip: an allocation is left behind.
AllocationKept(r) == allocations \union {Entry(r)}

\* The conditional put or delete of the allocation.
Allocation(r) ==
    IF r.op = "register" THEN allocations \union {Entry(r)} ELSE allocations \ {Entry(r)}

\* Register: put the allocation unless it is there.
PutAllocation(r) ==
    /\ r.op = "register"
    /\ \/ Entry(r) \notin allocations /\ GoTo(r, "lookup")
       \/ Entry(r) \in allocations /\ GoTo(r, "exists")

\* Deregister: delete the allocation if it is there.
DeleteAllocation(r) ==
    /\ r.op = "deregister"
    /\ \/ Entry(r) \in allocations /\ GoTo(r, "get")
       \/ Entry(r) \notin allocations /\ GoTo(r, "notFound")

Start(r) ==
    /\ pc[r] = "new"
    /\ Cardinality(UnderWay) < Limit
    /\ PutAllocation(r) \/ DeleteAllocation(r)
    /\ allocations' = Allocation(r)
    /\ UNCHANGED <<registry, diffs, metrics, known, faults>>

\* Deregister: the blob must be registered. The read is not a consistent one: it
\* may miss a blob just registered, which ends the request as Stop does.
GetItem(r) ==
    /\ pc[r] = "get"
    /\ \/ Entry(r) \in registry /\ GoTo(r, "lookup")
       \/ Entry(r) \notin registry /\ GoTo(r, "error")
    /\ UNCHANGED <<tables, metrics, known, faults>>

\* listByCause.
CauseKnown(r) == \E d \in diffs : d.cause = r.cause

LookupCause(r) ==
    /\ pc[r] = "lookup"
    /\ known' = [known EXCEPT ![r] = CauseKnown(r)]
    /\ GoTo(r, "transact")
    /\ UNCHANGED <<tables, metrics, faults>>

MissCause(r) ==
    /\ "stale" \in Faults
    /\ faults < MaxFaults
    /\ pc[r] = "lookup"
    /\ CauseKnown(r)
    /\ GoTo(r, "transact")
    /\ faults' = faults + 1
    /\ UNCHANGED <<tables, metrics, known>>

\* Slip: the transaction has no condition.
Unconditional(r) == TRUE

\* The condition of the transaction.
ConditionHolds(r) ==
    IF r.op = "register" THEN Entry(r) \notin registry ELSE Entry(r) \in registry

Delta(r) == IF r.op = "register" THEN Size[r.blob] ELSE -Size[r.blob]

\* Slip: only one provider of the space gets a diff.
SpaceDiffsOfOne(r) ==
    {[space |-> r.space, provider |-> CHOOSE p \in Provider : <<r.space, p>> \in Consumers,
      cause |-> r.cause, at |-> r, delta |-> Delta(r)]}

\* buildSpaceDiffs: one for each provider the space is a consumer of, and none
\* when the cause is known.
SpaceDiffs(r) ==
    {[space |-> r.space, provider |-> p, cause |-> r.cause, at |-> r, delta |-> Delta(r)] :
        p \in {q \in Provider : <<r.space, q>> \in Consumers /\ ~known[r]}}

\* One transaction changes the registry and puts the diffs. When its condition
\* fails it is cancelled: the error is not one the handler looks for.
Transact(r) ==
    /\ pc[r] = "transact"
    /\ \/ /\ ConditionHolds(r)
          /\ registry' = IF r.op = "register" THEN registry \union {Entry(r)}
                                             ELSE registry \ {Entry(r)}
          /\ diffs' = diffs \union SpaceDiffs(r)
          /\ GoTo(r, "metrics")
       \/ /\ ~ConditionHolds(r)
          /\ GoTo(r, "error")
          /\ UNCHANGED <<registry, diffs>>
    /\ UNCHANGED <<allocations, metrics, known, faults>>

\* Slip: the size of a blob removed is counted as added.
CountedAsAdded(t, r) == [t EXCEPT !.added = @ + 1, !.addedSize = @ + Size[r.blob]]

\* incrementTotals.
Counted(t, r) ==
    IF r.op = "register"
    THEN [t EXCEPT !.added = @ + 1, !.addedSize = @ + Size[r.blob]]
    ELSE [t EXCEPT !.removed = @ + 1, !.removedSize = @ + Size[r.blob]]

CountSpace(r) == spaceMetrics' = [spaceMetrics EXCEPT ![r.space] = Counted(@, r)]

CountAdmin(r) == adminMetrics' = Counted(adminMetrics, r)

\* Both metrics stores are incremented at once.
Metrics(r) ==
    /\ pc[r] = "metrics"
    /\ CountSpace(r) /\ CountAdmin(r)
    /\ GoTo(r, "ok")
    /\ UNCHANGED <<tables, known, faults>>

\* One of them fails: the blob is registered, and the answer is an error.
MetricsFail(r) ==
    /\ "metrics" \in Faults
    /\ faults < MaxFaults
    /\ pc[r] = "metrics"
    /\ \/ CountSpace(r) /\ UNCHANGED adminMetrics
       \/ CountAdmin(r) /\ UNCHANGED spaceMetrics
    /\ GoTo(r, "error")
    /\ faults' = faults + 1
    /\ UNCHANGED <<tables, known>>

\* The next call fails, or the process dies.
Stop(r) ==
    /\ "stop" \in Faults
    /\ faults < MaxFaults
    /\ r \in UnderWay
    /\ GoTo(r, "error")
    /\ faults' = faults + 1
    /\ UNCHANGED <<tables, metrics, known>>

-----------------------------------------------------------------------------
Step(r) == Start(r) \/ GetItem(r) \/ LookupCause(r) \/ Transact(r) \/ Metrics(r)

Failure(r) == MissCause(r) \/ MetricsFail(r) \/ Stop(r)

Next == \E r \in Requests : Step(r) \/ Failure(r)

Spec == Init /\ [][Next]_vars

-----------------------------------------------------------------------------
TypeOK ==
    /\ allocations \subseteq Space \X Blob
    /\ registry \subseteq Space \X Blob
    /\ diffs \subseteq Diff
    /\ spaceMetrics \in [Space -> Totals]
    /\ adminMetrics \in Totals
    /\ pc \in [Requests -> Pc]
    /\ known \in [Requests -> BOOLEAN]
    /\ faults \in 0..MaxFaults

AtRest == UnderWay = {}

(***************************************************************************)
(* When no request is under way the allocations are the blobs registered:  *)
(* find and list answer from the first, bills are made from the second.    *)
(* find says "we need to know 100% if a blob is registered or not".        *)
(***************************************************************************)
FindIsRight == AtRest => allocations = registry

(***************************************************************************)
(* Where they are not, a request about the blob was answered with an       *)
(* error: whatever requests come at once, stop half way or are sent again, *)
(* the legacy table and the registry do not part without a caller knowing. *)
(***************************************************************************)
PartedIsAnswered ==
    AtRest =>
        \A e \in Space \X Blob :
            \/ e \in allocations <=> e \in registry
            \/ \E r \in Requests : Entry(r) = e /\ pc[r] = "error"

\* The spaces none of whose invocations are sent twice.
SentOnce ==
    {s \in Space : \A r, q \in Requests : r.space = s /\ r.cause = q.cause => r = q}
=============================================================================
