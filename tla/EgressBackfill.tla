----------------------------- MODULE EgressBackfill -----------------------------
(***************************************************************************)
(* The scripts that bring the monthly totals of egress up to what was      *)
(* saved before there were any, while the handler of the queue adds to     *)
(* them. The first script scans the events of a range and writes their     *)
(* sums by customer, month and space to a file. The second adds the sums   *)
(* to the table, several at once; told to stop, it writes down the keys it *)
(* has done, and the next run may leave those out. An ADD is not           *)
(* idempotent, so everything rests on what is written down.                *)
(***************************************************************************)
EXTENDS EgressBilling, Functions

CONSTANTS
    History,     \* the events saved before there were totals
    From, To,    \* the range of the scan: its end is not in it
    Concurrency, \* most sums under way at once
    MaxSent,     \* bound on the messages sent in a behaviour
    MaxBeside    \* the same in a behaviour with the scripts

ASSUME BackfillAssumption ==
    /\ IsFiniteSet(History)
    /\ \A e \in History : e.at \in Time /\ e.bytes \in Nat /\ KeyOf(e) \in MonthKey /\ e \notin Events
    /\ Concurrency \in Nat \ {0}
    /\ MaxSent \in Nat /\ MaxBeside \in Nat

VARIABLES
    script,     \* the script that runs
    files,      \* which of the two files there are
    aggregates, \* the one of the sums: the events they are of
    processed,  \* the one of the keys done: those of the run that last wrote it
    wanted,     \* there is a run to make: the first, or one after a stop or an error
    added,      \* keys that a run has added so far
    unsure      \* those of them that may have been added more than once, or not at all

backfill == <<script, files, aggregates, processed, wanted, added, unsure>>

allVars == <<vars, backfill>>

InRange(e) == From <= e.at /\ e.at < To

EventsTable == History \union raw

Bytes(es) == SumFunction([e \in es |-> e.bytes])

Keys(es) == {KeyOf(e) : e \in es}

\* What the first script writes for a key.
SumOf(es, k) ==
    LET of == {e \in es : KeyOf(e) = k}
    IN  [bytes |-> Bytes(of), eventCount |-> Cardinality(of)]

BackfillInit ==
    /\ script = Idle
    /\ files = {} /\ aggregates = {} /\ processed = {}
    /\ wanted = TRUE
    /\ added = {} /\ unsure = {}

-----------------------------------------------------------------------------
StartScan ==
    /\ script = Idle /\ "sums" \notin files
    /\ script' = [pc |-> "scan", present |-> {e \in EventsTable : InRange(e)}]
    /\ UNCHANGED <<vars, files, aggregates, processed, wanted, added, unsure>>

\* The pages of a scan show what was there all along, and what was saved
\* meanwhile where it had not passed.
EndScan ==
    /\ script.pc = "scan"
    /\ \E late \in SUBSET {e \in raw \ script.present : InRange(e)} :
         aggregates' = script.present \union late
    /\ files' = files \union {"sums"}
    /\ script' = Idle
    /\ UNCHANGED <<vars, processed, wanted, added, unsure>>

\* Slip: the keys done are added again.
RemainingAll(resume) == Keys(aggregates)

\* A run that resumes leaves out the keys of the state file, which has to be there.
Remaining(resume) == Keys(aggregates) \ (IF resume THEN processed ELSE {})

\* The operator runs it once, and then again with what is left. A run writes its
\* keys over those of the run before it, whose keys a third run adds again.
StartWrite(resume) ==
    /\ script = Idle /\ "sums" \in files
    /\ resume <=> "keys" \in files
    /\ wanted /\ wanted' = FALSE
    /\ script' = [pc |-> "write", left |-> Remaining(resume), sent |-> {}, done |-> {}]
    /\ unsure' = unsure \union (added \ processed)
    /\ UNCHANGED <<vars, files, aggregates, processed, added>>

Plus(total, sum, times) ==
    [bytes |-> total.bytes + times * sum.bytes, eventCount |-> total.eventCount + times * sum.eventCount]

AddTimes(k, times) == monthly' = [monthly EXCEPT ![k] = Plus(@, SumOf(aggregates, k), times)]

AddSum(k) ==
    /\ script.pc = "write" /\ k \in script.left
    /\ Cardinality(script.sent) < Concurrency
    /\ AddTimes(k, 1)
    /\ script' = [script EXCEPT !.left = @ \ {k}, !.sent = @ \union {k}]
    /\ added' = added \union {k}
    /\ UNCHANGED <<sent, queue, worker, dlq, raw, meter, failed, faults, files, aggregates, processed, wanted, unsure>>

\* The answer has come: the key is done.
SumAdded(k) ==
    /\ script.pc = "write" /\ k \in script.sent
    /\ script' = [script EXCEPT !.sent = @ \ {k}, !.done = @ \union {k}]
    /\ UNCHANGED <<vars, files, aggregates, processed, wanted, added, unsure>>

Fault(kind) == kind \in Faults /\ faults < MaxFaults /\ faults' = faults + 1

\* Each try fails, with or without effect: the key is an error and not done. Or
\* answers are lost, and the sum is added again until one comes.
SumFails(k) ==
    /\ script.pc = "write" /\ k \in script.left
    /\ \/ /\ Fault("call")
          /\ \E times \in 0..(Retries + 1) : AddTimes(k, times)
          /\ script' = [script EXCEPT !.left = @ \ {k}]
          /\ wanted' = TRUE
       \/ /\ Fault("answer")
          /\ \E again \in 1..Retries : AddTimes(k, 1 + again)
          /\ script' = [script EXCEPT !.left = @ \ {k}, !.sent = @ \union {k}]
          /\ UNCHANGED wanted
    /\ added' = added \union {k}
    /\ unsure' = unsure \union {k}
    /\ UNCHANGED <<sent, queue, worker, dlq, raw, meter, failed, files, aggregates, processed>>

EndWrite ==
    /\ script.pc = "write" /\ script.left = {} /\ script.sent = {}
    /\ processed' = script.done /\ files' = files \union {"keys"}
    /\ script' = Idle
    /\ UNCHANGED <<vars, aggregates, wanted, added, unsure>>

\* SIGINT, SIGTERM and what is not caught have the keys done written down; those
\* under way are not among them. A process that is killed writes nothing down.
StopScript ==
    /\ script # Idle
    /\ Fault("crash")
    /\ script' = Idle
    /\ wanted' = (script.pc = "write" \/ wanted)
    /\ \/ UNCHANGED <<files, processed>>
       \/ /\ script.pc = "write"
          /\ processed' = script.done /\ files' = files \union {"keys"}
    /\ UNCHANGED <<sent, queue, worker, dlq, raw, meter, monthly, failed, aggregates, added, unsure>>

BackfillNext ==
    \/ StartScan \/ EndScan \/ EndWrite \/ StopScript
    \/ \E resume \in BOOLEAN : StartWrite(resume)
    \/ \E k \in MonthKey : AddSum(k) \/ SumAdded(k) \/ SumFails(k)

BothInit == Init /\ BackfillInit

ScriptsRun == script # Idle \/ files # {}

BothNext ==
    /\ BackfillNext \/ (Next /\ UNCHANGED backfill)
    /\ Cardinality(sent') <= IF ScriptsRun' THEN MaxBeside ELSE MaxSent

BothSpec == BothInit /\ [][BothNext]_allVars

\* Nobody has to run a script.
BothFairSpec == BothSpec /\ \A w \in Worker : WF_vars(Handler(w))
=============================================================================
