---------------------------- MODULE AccountRequests ----------------------------
(***************************************************************************)
(* What the parts of the account subsystem have in common: requests, each  *)
(* handled by an invocation of its own that makes one call after another   *)
(* to the stores. Nothing orders the invocations. A call can fail without  *)
(* effect, an invocation can die before it, and an answer can be lost      *)
(* after it took effect; in each case the request fails as far as its      *)
(* sender can tell.                                                        *)
(***************************************************************************)
EXTENDS Integers, FiniteSets

CONSTANTS
    Batches,   \* sets of requests, of which a behaviour has those of one
    MaxFaults  \* bound on the failures injected in a behaviour

ASSUME RequestsAssumption == MaxFaults \in Nat

VARIABLES
    job,       \* the requests, with the call each is about to make and what it read
    faults     \* failures injected so far

Ends == {"done", "refused", "failed"}

Batch == DOMAIN job

UnderWay == {r \in Batch : job[r].pc \notin {"new"} \union Ends}

At(r, op, pc) == r.op = op /\ job[r].pc = pc

Go(r, pc) == job' = [job EXCEPT ![r].pc = pc]

Read(r, pc, seen) == job' = [job EXCEPT ![r] = [pc |-> pc, seen |-> seen]]

Fails == faults < MaxFaults /\ faults' = faults + 1

\* A call that took effect answers, or its answer is lost.
Answered(r, pc) == (Go(r, pc) /\ UNCHANGED faults) \/ (Fails /\ Go(r, "failed"))

\* The next call of r fails, or its process dies before it.
Stop(r) == r \in UnderWay /\ Fails /\ Go(r, "failed")

RequestsInit ==
    /\ \E batch \in Batches : job = [r \in batch |-> [pc |-> "new", seen |-> {}]]
    /\ faults = 0

=============================================================================
