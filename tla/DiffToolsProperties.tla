-------------------------- MODULE DiffToolsProperties --------------------------
(* What the tools leave of the diffs and of the size of a space.            *)
EXTENDS DiffTools

Diff == [at : 0..EndOfTime, cause : Nat, delta : Int]

ToolsTypeOK ==
    /\ now \in 0..EndOfTime
    /\ allocated \in [Blob -> 0..now \union {None}]
    /\ diffs \subseteq Diff /\ logged \subseteq Diff /\ removed \subseteq logged
    /\ \A d, e \in diffs : d.at = e.at /\ d.cause = e.cause => d = e
    /\ archive \subseteq [diff : Diff, sum : Nat]
    /\ snapshots \subseteq [at : 0..EndOfTime, size : Int]
    /\ file \subseteq [at : 1..EndOfTime, size : Nat, changes : SUBSET logged]
    /\ \A c \in Runs : run[c].read \subseteq Diff /\ run[c].left \subseteq run[c].read
    /\ uses \in 0..MaxUses /\ toolFaults \in 0..MaxToolFaults /\ clash \in BOOLEAN

-----------------------------------------------------------------------------
\* What counts twice: diffs since the snapshot of the report that a run has summed, as
\* long as they are there.
Twice ==
    LET since == Newest(StartOfDay(now)).at
        summed == {c \in Runs : run[c].sum # {} /\ run[c].pc # "done" /\ since < run[c].to}
    IN  SumFunction([c \in summed |-> DeltaSum(run[c].read \intersect diffs)])

\* In the table, in the archive, or removed as a second diff of its cause.
Kept(d) ==
    \/ d \in diffs \/ \E x \in archive : x.diff = d
    \/ d \in removed /\ \E e \in logged : e.cause = d.cause /\ e.at < d.at

(***************************************************************************)
(* No diff that was put is lost, wherever a run of a tool stops, and       *)
(* whatever billing and clients do meanwhile. And the size reported is     *)
(* what the changes of clients, and what was put twice, add up to: a run   *)
(* that stops counts what it has summed and not deleted twice ("This WILL  *)
(* result in double-charging for usage") and nothing else. So it is as     *)
(* long as billing and the tools are run in turn, duplicates are removed   *)
(* before they are billed, and a snapshot is taken from allocations that   *)
(* tell what was there.                                                    *)
(***************************************************************************)
SizeAccounted ==
    /\ \A d \in logged : Kept(d)
    /\ ~clash => ReportedSize = DeltaSum(logged \ removed) + Twice

(***************************************************************************)
(* When the removal has ended, each duplicate it was given is gone or is   *)
(* in its file of failed items, though batches are removed at once, some   *)
(* of them in part; and it took out no diff that is not a duplicate.       *)
(***************************************************************************)
DuplicatesGone ==
    /\ dedupe.pc = "done" => dedupe.duplicates \intersect diffs \subseteq dedupe.failed
    /\ \A d \in removed : \E e \in logged : e.cause = d.cause /\ e.at < d.at
=============================================================================
