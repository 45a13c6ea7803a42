------------------------------- MODULE DiffTools -------------------------------
(***************************************************************************)
(* The tools run by hand on the diffs and snapshots of a space, while      *)
(* clients go on adding and removing blobs and billing goes on taking      *)
(* snapshots: the compaction of diffs into one that sums them, the removal *)
(* of duplicate diffs, and the snapshot computed from the allocations into *)
(* a file, which another script puts in the table, over one that is there. *)
(* The size of a space, as its usage report and its next bill have it, is  *)
(* its newest snapshot and the diffs after it.                             *)
(***************************************************************************)
EXTENDS Integers, FiniteSets, FiniteSetsExt, Functions

CONSTANTS
    Blob,       \* blobs of the space
    Size,       \* the size of each
    DayLength,  \* instants in a day
    EndOfTime,  \* bound on the clock
    MaxChanges, \* bound on the diffs clients cause
    MaxAgain,   \* bound on diffs put twice
    Runs,       \* runs of the compaction
    Mode,       \* options it is run with, a subset of ModeKind
    QueryPage,  \* diffs in a page of a query
    MaxWrites,  \* items of a BatchWriteItem, 25 in the code
    MaxUses,    \* bound on the runs of tools
    MaxToolFaults \* bound on the failures injected in a behaviour

ModeKind == {"current", "previous-month"}

ASSUME ToolsAssumption ==
    /\ IsFiniteSet(Blob) /\ Size \in [Blob -> Nat \ {0}]
    /\ IsFiniteSet(Runs) /\ Mode \subseteq ModeKind
    /\ {DayLength, EndOfTime, QueryPage, MaxWrites} \subseteq Nat \ {0}
    /\ {MaxChanges, MaxAgain, MaxUses, MaxToolFaults} \subseteq Nat

VARIABLES
    now,       \* the clock
    allocated, \* the allocations: when each blob was added, or None
    diffs,     \* the table of diffs
    archive,   \* the table of archived diffs: pairs of a diff and the sum it is in
    snapshots, \* the table of snapshots
    file,      \* the file of the snapshot computed from the allocations, if there is one
    run,       \* the runs of the compaction
    dedupe,    \* the run of the removal of duplicates
    logged,    \* diffs that were ever put for a change
    removed,   \* diffs the removal of duplicates took out
    clash,     \* two of billing and the tools were at work at once
    uses,      \* runs of tools so far
    toolFaults \* failures injected so far

spaceTables == <<allocated, diffs, archive, snapshots>>
toolsVars == <<now, spaceTables, file, run, dedupe, logged, removed, clash, uses, toolFaults>>

None == -1

\* The instant after all others.
Never == EndOfTime + 1

NotRun ==
    [pc |-> "idle", from |-> 0, to |-> 0, read |-> {}, left |-> {}, sum |-> {}]

ToolsInit ==
    /\ now = 0
    /\ allocated = [b \in Blob |-> None]
    /\ diffs = {} /\ archive = {}
    /\ snapshots = {[at |-> 0, size |-> 0]} /\ file = {}
    /\ run = [c \in Runs |-> NotRun]
    /\ dedupe = [pc |-> "idle", left |-> {}, duplicates |-> {}, failed |-> {}]
    /\ logged = {} /\ removed = {}
    /\ clash = FALSE
    /\ uses = 0
    /\ toolFaults = 0

Use == uses < MaxUses /\ uses' = uses + 1

Fails == toolFaults < MaxToolFaults /\ toolFaults' = toolFaults + 1

-----------------------------------------------------------------------------
\* The key of a diff, receiptAt and then cause, orders the diffs of a space.
Before(d, e) == d.at < e.at \/ (d.at = e.at /\ d.cause < e.cause)

DeltaSum(ds) == SumFunction([d \in ds |-> d.delta])

Between(from, to) == {d \in diffs : from <= d.at /\ d.at < to}

StartOfDay(t) == t - (t % DayLength)

Newest(t) ==
    CHOOSE s \in snapshots : s.at <= t /\ \A o \in snapshots : o.at <= t => o.at <= s.at

\* The size at an instant, from the newest snapshot of a given instant or before.
SizeFrom(t, to) == LET s == Newest(t) IN s.size + DeltaSum(Between(s.at, to))

\* The final size of the usage report of a period that has today as its last day.
ReportedSize == SizeFrom(StartOfDay(now), Never)

\* A run has put its sum, or may, and has not deleted what the sum stands for.
UnderWay(c) ==
    \/ run[c].pc \in {"read", "sum", "archive", "delete"}
    \/ run[c].pc = "stopped" /\ run[c].sum # {}

\* Taken note of when a tool, or billing, works while a compaction is under way.
Clashes == clash' = (clash \/ \E c \in Runs : UnderWay(c))

-----------------------------------------------------------------------------
Tick ==
    /\ now < EndOfTime
    /\ now' = now + 1
    /\ UNCHANGED <<spaceTables, file, run, dedupe, logged, removed, clash, uses, toolFaults>>

\* A new cause.
Fresh == Cardinality(logged) + Cardinality({c \in Runs : run[c].sum # {}})

\* A snapshot of an instant still to come leaves out what changes until then.
Put(d) ==
    /\ diffs' = diffs \union {d} /\ logged' = logged \union {d}
    /\ clash' = (clash \/ \E s \in snapshots : now < s.at)

PutDiff(delta) == Put([at |-> now, cause |-> Fresh, delta |-> delta])

AddBlob(b) ==
    /\ Cardinality(logged) < MaxChanges /\ allocated[b] = None
    /\ allocated' = [allocated EXCEPT ![b] = now]
    /\ PutDiff(Size[b])
    /\ UNCHANGED <<now, archive, snapshots, file, run, dedupe, removed, uses, toolFaults>>

RemoveBlob(b) ==
    /\ Cardinality(logged) < MaxChanges /\ allocated[b] # None
    /\ allocated' = [allocated EXCEPT ![b] = None]
    /\ PutDiff(-Size[b])
    /\ UNCHANGED <<now, archive, snapshots, file, run, dedupe, removed, uses, toolFaults>>

\* Two sendings of an invocation both put its diff, with receipts of two instants.
PutAgain(d) ==
    /\ d.at < now /\ Cardinality(logged) < MaxChanges + MaxAgain
    /\ ~\E e \in logged : e # d /\ e.cause = d.cause
    /\ Put([d EXCEPT !.at = now])
    /\ UNCHANGED <<now, allocated, archive, snapshots, file, run, dedupe, removed, uses, toolFaults>>

\* A snapshot is put, in the place of one of the same instant.
PutSnapshot(e, size) ==
    snapshots' = {s \in snapshots : s.at # e} \union {[at |-> e, size |-> size]}

\* Billing takes the snapshot of the end of a day, from that of its start, or one
\* before, and the diffs since. A day may be billed again.
Bill(e) ==
    /\ e % DayLength = 0 /\ DayLength <= e /\ e <= now
    /\ PutSnapshot(e, SizeFrom(e - DayLength, e))
    /\ Clashes
    /\ UNCHANGED <<now, allocated, diffs, archive, file, run, dedupe, logged, removed, uses, toolFaults>>

\* What was allocated until an instant, as far as it still is.
AllocatedUntil(e) == {b \in Blob : allocated[b] \in 0..e}

AllocatedSize(e) == SumFunction([b \in AllocatedUntil(e) |-> Size[b]])

\* A script computes the snapshot of the end of a day, which may be still to come,
\* from the allocations. (It knows nothing of the changes, which are noted here.)
ComputeSnapshot(e) ==
    /\ Use
    /\ e % DayLength = 0 /\ DayLength <= e
    /\ file' = {[at |-> e, size |-> AllocatedSize(e), changes |-> logged]}
    /\ UNCHANGED <<now, spaceTables, run, dedupe, logged, removed, clash, toolFaults>>

\* What a file does not tell: blobs removed between its instant and its computation,
\* one added at that very instant, which is before and after it, what changed since it
\* was computed and before the instant, a blob that is counted twice, and a sum that is
\* after the instant of diffs that were before.
Untold(f) ==
    \/ \E d \in f.changes : d.at > f.at /\ d.delta < 0
    \/ \E d \in logged : d.at = f.at \/ (d.at < f.at /\ d \notin f.changes)
    \/ \E d, o \in logged : d # o /\ d.cause = o.cause
    \/ \E c \in Runs : \E d \in run[c].read, s \in run[c].sum : d.at < f.at /\ f.at <= s.at

\* Another puts the file in the table, now or later, once or again. A batch that fails
\* is passed over.
UpsertSnapshot(f) ==
    /\ PutSnapshot(f.at, f.size)
    /\ clash' = (clash \/ Untold(f) \/ \E c \in Runs : UnderWay(c))
    /\ UNCHANGED <<now, allocated, diffs, archive, file, run, dedupe, logged, removed, uses, toolFaults>>

-----------------------------------------------------------------------------
Go(c, r) == run' = [run EXCEPT ![c] = r]

\* The two newest snapshots, newest first.
Second == CHOOSE s \in snapshots : s.at < Newest(Never).at
                /\ \A o \in snapshots : o.at < Newest(Never).at => o.at <= s.at

\* A run reads the diffs since the newest snapshot, or between the two newest.
StartCompaction(c, mode) ==
    /\ Use
    /\ run[c].pc = "idle"
    /\ mode = "previous-month" => Cardinality(snapshots) > 1
    /\ Go(c, [run[c] EXCEPT
           !.pc = "read",
           !.from = IF mode = "current" THEN Newest(Never).at ELSE Second.at,
           !.to = IF mode = "current" THEN Never ELSE Newest(Never).at])
    /\ Clashes
    /\ UNCHANGED <<now, spaceTables, file, dedupe, logged, removed, toolFaults>>

\* The first n of a set of diffs, by key.
FirstOf(ds, n) == {d \in ds : Cardinality({e \in ds : Before(e, d)}) < n}

Unread(c) == {d \in Between(run[c].from, run[c].to) : \A e \in run[c].read : Before(e, d)}

\* A page is read. One that is full has a cursor.
ReadPage(c) ==
    /\ run[c].pc = "read"
    /\ LET page == FirstOf(Unread(c), QueryPage)
           read == run[c].read \union page
       IN  Go(c, [run[c] EXCEPT
               !.read = read,
               !.pc = CASE Cardinality(page) = QueryPage -> "read"
                        [] read = {} -> "done"
                        [] OTHER -> "sum"])
    /\ UNCHANGED <<now, spaceTables, file, dedupe, logged, removed, clash, uses, toolFaults>>

\* The sum of the diffs that were read, at the receipt of the last of them.
Summation(c) ==
    [at |-> Max({d.at : d \in run[c].read}), cause |-> Fresh, delta |-> DeltaSum(run[c].read)]

PutSum(c) ==
    /\ run[c].pc = "sum"
    /\ diffs' = diffs \union {Summation(c)}
    /\ Go(c, [run[c] EXCEPT !.pc = "archive", !.sum = {Summation(c)}, !.left = run[c].read])
    /\ UNCHANGED <<now, allocated, archive, snapshots, file, dedupe, logged, removed, clash, uses, toolFaults>>

Batch(c) == FirstOf(run[c].left, MaxWrites)

\* The archived copy of a diff names the sum, in place of one archived before.
Archived(ds, c) ==
    {x \in archive : x.diff \notin ds}
        \union {[diff |-> d, sum |-> s.cause] : d \in ds, s \in run[c].sum}

\* What is left to write after a batch.
Left(c) == run[c].left \ Batch(c)

\* Nothing is deleted before all is archived.
ArchiveBatch(c) ==
    /\ run[c].pc = "archive"
    /\ archive' = Archived(Batch(c), c)
    /\ Go(c, IF Left(c) = {} THEN [run[c] EXCEPT !.pc = "delete", !.left = run[c].read]
                             ELSE [run[c] EXCEPT !.left = Left(c)])
    /\ UNCHANGED <<now, allocated, diffs, snapshots, file, dedupe, logged, removed, clash, uses, toolFaults>>

\* Slip: what is in the range that was read is deleted.
DeletionOfRange(c, ds) == ds \union (Between(run[c].from, run[c].to) \ run[c].sum)

\* The diffs a batch of deletions takes out.
Deletion(c, ds) == ds

DeleteBatch(c) ==
    /\ run[c].pc = "delete"
    /\ diffs' = diffs \ Deletion(c, Batch(c))
    /\ Go(c, [run[c] EXCEPT !.left = Left(c), !.pc = IF Left(c) = {} THEN "done" ELSE "delete"])
    /\ UNCHANGED <<now, allocated, archive, snapshots, file, dedupe, logged, removed, clash, uses, toolFaults>>

Stopped(c) == [run[c] EXCEPT !.pc = "stopped"]

\* A call fails with or without effect, part of a batch is not processed even when
\* it is tried again, or the run dies: it stops.
RunFails(c) ==
    /\ Fails
    /\ \/ /\ run[c].pc \in {"read", "sum", "archive", "delete"}
          /\ Go(c, Stopped(c)) /\ UNCHANGED <<archive, diffs>>
       \/ /\ run[c].pc = "sum"
          /\ diffs' = diffs \union {Summation(c)}
          /\ Go(c, [Stopped(c) EXCEPT !.sum = {Summation(c)}]) /\ UNCHANGED archive
       \/ /\ run[c].pc = "archive"
          /\ \E part \in SUBSET Batch(c) : archive' = Archived(part, c)
          /\ Go(c, Stopped(c)) /\ UNCHANGED diffs
       \/ /\ run[c].pc = "delete"
          /\ \E part \in SUBSET Batch(c) : diffs' = diffs \ part
          /\ Go(c, Stopped(c)) /\ UNCHANGED archive
    /\ UNCHANGED <<now, allocated, snapshots, file, dedupe, logged, removed, clash, uses>>

-----------------------------------------------------------------------------
\* The diffs of a cause but the first.
Duplicates == {d \in diffs : \E e \in diffs : e.cause = d.cause /\ e.at < d.at}

\* The table is exported, and its duplicates found.
FindDuplicates ==
    /\ Use
    /\ dedupe.pc = "idle"
    /\ dedupe' = [dedupe EXCEPT !.pc = "remove", !.left = Duplicates, !.duplicates = Duplicates]
    /\ UNCHANGED <<now, spaceTables, file, run, logged, removed, clash, toolFaults>>

\* A snapshot keeps the duplicates it has.
ClashesOver(ds) ==
    clash' = (clash \/ (\E c \in Runs : UnderWay(c)) \/ \E d \in ds : d.at < Newest(Never).at)

\* Batches are deleted several at a time. Those that are not processed are tried
\* again three times.
RemoveDuplicates ==
    /\ dedupe.pc = "remove"
    /\ \E batch \in SUBSET dedupe.left :
         /\ batch # {} /\ Cardinality(batch) <= MaxWrites
         /\ diffs' = diffs \ batch
         /\ removed' = removed \union (batch \intersect diffs)
         /\ dedupe' = [dedupe EXCEPT !.left = @ \ batch]
         /\ ClashesOver(batch)
    /\ UNCHANGED <<now, allocated, archive, snapshots, file, run, logged, uses, toolFaults>>

\* Slip: what failed is not noted.
FailedForgotten(rest) == {}

\* What is noted of a batch that failed, of which some may be processed.
Failed(rest) == rest

RemoveFails ==
    /\ dedupe.pc = "remove"
    /\ Fails
    /\ \E batch \in SUBSET dedupe.left, part \in SUBSET dedupe.left :
         /\ batch # {} /\ part \subseteq batch /\ Cardinality(batch) <= MaxWrites
         /\ diffs' = diffs \ part
         /\ removed' = removed \union (part \intersect diffs)
         /\ \E noted \in {batch, batch \ part} :
              dedupe' = [dedupe EXCEPT !.left = @ \ batch, !.failed = @ \union Failed(noted)]
         /\ ClashesOver(batch)
    /\ UNCHANGED <<now, allocated, archive, snapshots, file, run, logged, uses>>

RemoveEnds ==
    /\ dedupe.pc = "remove" /\ dedupe.left = {}
    /\ dedupe' = [dedupe EXCEPT !.pc = "done"]
    /\ UNCHANGED <<now, spaceTables, file, run, logged, removed, clash, uses, toolFaults>>

-----------------------------------------------------------------------------
Client ==
    \/ \E b \in Blob : AddBlob(b) \/ RemoveBlob(b)
    \/ \E d \in logged : PutAgain(d)

Snapshots ==
    \/ \E e \in 0..EndOfTime : Bill(e) \/ ComputeSnapshot(e)
    \/ \E f \in file : UpsertSnapshot(f)

Compaction ==
    \E c \in Runs :
        \/ \E mode \in Mode : StartCompaction(c, mode)
        \/ ReadPage(c) \/ PutSum(c) \/ ArchiveBatch(c) \/ DeleteBatch(c)
        \/ RunFails(c)

Removal == FindDuplicates \/ RemoveDuplicates \/ RemoveFails \/ RemoveEnds

ToolsNext == Tick \/ Client \/ Snapshots \/ Compaction \/ Removal

ToolsSpec == ToolsInit /\ [][ToolsNext]_toolsVars
=============================================================================
