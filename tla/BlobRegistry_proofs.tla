------------------------- MODULE BlobRegistry_proofs -------------------------
(***************************************************************************)
(* Theorems about the blob registry, for every set of spaces, blobs,       *)
(* providers and requests and every bound.                                 *)
(***************************************************************************)
EXTENDS BlobRegistryRefinement, BlobRegistryProperties, DataLemmas, FiniteSetTheorems, TLAPS

-----------------------------------------------------------------------------
(* Type correctness.                                                       *)

LEMMA RequestType ==
    ASSUME NEW r \in Requests
    PROVE  /\ Entry(r) \in Space \X Blob
           /\ r.space \in Space /\ r.blob \in Blob /\ Size[r.blob] \in Nat
           /\ r.op \in {"register", "deregister"} /\ r.cause \in STRING
  BY RegistryAssumption DEF Request, Entry

LEMMA DiffsType ==
    ASSUME NEW r \in Requests
    PROVE  SpaceDiffs(r) \subseteq Diff
  <1>1. Delta(r) \in Int
    BY RequestType DEF Delta
  <1>2. ASSUME NEW p \in Provider
        PROVE  [space |-> r.space, provider |-> p, cause |-> r.cause, at |-> r,
                delta |-> Delta(r)] \in Diff
    BY <1>1, RequestType DEF Diff
  <1>3. QED
    BY <1>2 DEF SpaceDiffs

LEMMA CountedType ==
    ASSUME NEW r \in Requests, NEW t \in Totals
    PROVE  Counted(t, r) \in Totals
  <1>1. Size[r.blob] \in Nat
    BY RequestType
  <1>2. /\ t.added + 1 \in Nat /\ t.addedSize + Size[r.blob] \in Nat
        /\ t.removed + 1 \in Nat /\ t.removedSize + Size[r.blob] \in Nat
    BY <1>1 DEF Totals
  <1>3. [t EXCEPT !.added = @ + 1, !.addedSize = @ + Size[r.blob]] \in Totals
    BY <1>2 DEF Totals
  <1>4. [t EXCEPT !.removed = @ + 1, !.removedSize = @ + Size[r.blob]] \in Totals
    BY <1>2 DEF Totals
  <1>5. QED
    BY <1>3, <1>4 DEF Counted

LEMMA InitType == Init => TypeOK
  BY RegistryAssumption DEF Init, TypeOK, Totals, NoTotals, Pc

LEMMA StepType ==
    ASSUME TypeOK, NEW r \in Requests, Step(r) \/ Failure(r)
    PROVE  TypeOK'
  <1>1. CASE Start(r)
    <2>1. allocations' \subseteq Space \X Blob
      BY <1>1, RequestType DEF Start, Allocation, TypeOK
    <2>2. pc' \in [Requests -> Pc]
      BY <1>1 DEF Start, PutAllocation, DeleteAllocation, GoTo, TypeOK, Pc, Answer
    <2>3. QED
      BY <1>1, <2>1, <2>2 DEF Start, metrics, TypeOK
  <1>2. CASE GetItem(r)
    BY <1>2 DEF GetItem, GoTo, TypeOK, Pc, Answer, tables, metrics
  <1>3. CASE LookupCause(r)
    BY <1>3 DEF LookupCause, CauseKnown, GoTo, TypeOK, Pc, tables, metrics
  <1>4. CASE Transact(r)
    <2>1. registry' \subseteq Space \X Blob
      BY <1>4, RequestType DEF Transact, TypeOK
    <2>2. diffs' \subseteq Diff
      BY <1>4, DiffsType DEF Transact, TypeOK
    <2>3. pc' \in [Requests -> Pc]
      BY <1>4 DEF Transact, GoTo, TypeOK, Pc, Answer
    <2>4. QED
      BY <1>4, <2>1, <2>2, <2>3 DEF Transact, metrics, TypeOK
  <1>5. CASE Metrics(r)
    <2>1. spaceMetrics' \in [Space -> Totals] /\ adminMetrics' \in Totals
      BY <1>5, RequestType, CountedType DEF Metrics, CountSpace, CountAdmin, TypeOK
    <2>2. QED
      BY <1>5, <2>1 DEF Metrics, GoTo, TypeOK, Pc, Answer, tables
  <1>6. CASE MissCause(r)
    BY <1>6, RegistryAssumption DEF MissCause, GoTo, TypeOK, Pc, tables, metrics
  <1>7. CASE MetricsFail(r)
    <2>1. spaceMetrics' \in [Space -> Totals] /\ adminMetrics' \in Totals
      BY <1>7, RequestType, CountedType DEF MetricsFail, CountSpace, CountAdmin, TypeOK
    <2>2. QED
      BY <1>7, <2>1, RegistryAssumption DEF MetricsFail, GoTo, TypeOK, Pc, Answer, tables
  <1>8. CASE Stop(r)
    BY <1>8, RegistryAssumption DEF Stop, GoTo, TypeOK, Pc, Answer, tables, metrics
  <1>9. QED
    BY <1>1, <1>2, <1>3, <1>4, <1>5, <1>6, <1>7, <1>8 DEF Step, Failure

LEMMA NextType == TypeOK /\ [Next]_vars => TypeOK'
  <1> SUFFICES ASSUME TypeOK, [Next]_vars PROVE TypeOK'
    OBVIOUS
  <1>1. CASE UNCHANGED vars
    BY <1>1 DEF vars, tables, metrics, TypeOK
  <1>2. QED
    BY <1>1, StepType DEF Next

(***************************************************************************)
(* Every reachable state is well typed: whatever the order in which        *)
(* requests are counted, the metrics are natural numbers.                  *)
(***************************************************************************)
THEOREM TypeCorrect == Spec => []TypeOK
  BY InitType, NextType, PTL DEF Spec

-----------------------------------------------------------------------------
(* The registry implements the log. The invariant: a diff was put by a     *)
(* request that is past its transaction, and so no request about a space   *)
(* whose invocations are sent once finds its cause known.                  *)

PutByPast(d) ==
    d.cause = d.at.cause /\ d.space = d.at.space /\ pc[d.at] \in {"metrics", "ok", "error"}

LogInv ==
    /\ \A d \in diffs : PutByPast(d)
    /\ \A r \in Requests : r.space \in SentOnce => ~known[r]

LEMMA CauseIsNew ==
    ASSUME TypeOK, LogInv, NEW r \in Requests, r.space \in SentOnce,
           pc[r] \in {"lookup", "transact"}
    PROVE  ~CauseKnown(r)
  <1> SUFFICES ASSUME NEW d \in diffs, d.cause = r.cause PROVE FALSE
    BY DEF CauseKnown
  <1>1. d.at \in Requests
    BY DEF TypeOK, Diff
  <1>2. d.at = r
    BY <1>1 DEF LogInv, PutByPast, SentOnce
  <1>3. QED
    BY <1>2 DEF LogInv, PutByPast

(* A step that puts no diff and moves a request on keeps the invariant.    *)
LEMMA MovesOn ==
    ASSUME TypeOK, LogInv, NEW r \in Requests, NEW step,
           pc[r] \in {"metrics", "ok", "error"} => step \in {"metrics", "ok", "error"},
           GoTo(r, step), UNCHANGED diffs,
           \A q \in Requests : q.space \in SentOnce => known'[q] = known[q]
    PROVE  LogInv'
  <1>1. ASSUME NEW d \in diffs
        PROVE  PutByPast(d)'
    <2>1. d.at \in Requests
      BY DEF TypeOK, Diff
    <2>2. QED
      BY <2>1 DEF LogInv, PutByPast, GoTo, TypeOK
  <1>2. QED
    BY <1>1 DEF LogInv

LEMMA LogInvStep ==
    ASSUME TypeOK, LogInv, NEW r \in Requests, Step(r) \/ Failure(r)
    PROVE  LogInv'
  <1>1. CASE Start(r)
    BY <1>1, MovesOn DEF Start, PutAllocation, DeleteAllocation
  <1>2. CASE GetItem(r)
    BY <1>2, MovesOn DEF GetItem, tables
  <1>3. CASE LookupCause(r)
    <2>1. ASSUME NEW q \in Requests, q.space \in SentOnce
          PROVE  known'[q] = known[q]
      <3>1. CASE q = r
        <4>1. CauseKnown(r) = FALSE
          BY <1>3, <2>1, <3>1, CauseIsNew DEF LookupCause, CauseKnown
        <4>2. known'[r] = FALSE
          BY <1>3, <4>1 DEF LookupCause, TypeOK
        <4>3. known[r] = FALSE
          BY <2>1, <3>1 DEF LogInv, TypeOK
        <4>4. QED
          BY <3>1, <4>2, <4>3
      <3>2. CASE q # r
        BY <1>3, <3>2 DEF LookupCause, TypeOK
      <3>3. QED
        BY <3>1, <3>2
    <2>2. QED
      BY <1>3, <2>1, MovesOn DEF LookupCause, tables
  <1>4. CASE Transact(r)
    <2>1. CASE ~ConditionHolds(r)
      BY <1>4, <2>1, MovesOn DEF Transact
    <2>2. CASE ConditionHolds(r)
      <3>1. /\ pc[r] = "transact" /\ GoTo(r, "metrics") /\ known' = known
            /\ diffs' = diffs \union SpaceDiffs(r)
        BY <1>4, <2>2 DEF Transact
      <3>2. ASSUME NEW d \in diffs
            PROVE  PutByPast(d)'
        <4>1. d.at \in Requests
          BY DEF TypeOK, Diff
        <4>2. QED
          BY <3>1, <4>1 DEF LogInv, PutByPast, GoTo, TypeOK
      <3>3. ASSUME NEW d \in SpaceDiffs(r)
            PROVE  PutByPast(d)'
        <4>1. PICK p \in Provider :
                d = [space |-> r.space, provider |-> p, cause |-> r.cause, at |-> r,
                     delta |-> Delta(r)]
          BY <3>3 DEF SpaceDiffs
        <4>2. QED
          BY <3>1, <4>1 DEF PutByPast, GoTo, TypeOK
      <3>4. QED
        BY <3>1, <3>2, <3>3 DEF LogInv
    <2>3. QED
      BY <2>1, <2>2
  <1>5. CASE Metrics(r)
    BY <1>5, MovesOn DEF Metrics, tables
  <1>6. CASE MissCause(r)
    BY <1>6, MovesOn DEF MissCause, tables
  <1>7. CASE MetricsFail(r)
    BY <1>7, MovesOn DEF MetricsFail, tables
  <1>8. CASE Stop(r)
    BY <1>8, MovesOn DEF Stop, tables
  <1>9. QED
    BY <1>1, <1>2, <1>3, <1>4, <1>5, <1>6, <1>7, <1>8 DEF Step, Failure

LEMMA LogInvNext == TypeOK /\ LogInv /\ [Next]_vars => LogInv'
  <1> SUFFICES ASSUME TypeOK, LogInv, [Next]_vars PROVE LogInv'
    OBVIOUS
  <1>1. CASE UNCHANGED vars
    BY <1>1 DEF vars, tables, LogInv, PutByPast
  <1>2. QED
    BY <1>1, LogInvStep DEF Next

LEMMA SpaceOfDiffs ==
    ASSUME NEW r \in Requests, NEW d \in SpaceDiffs(r)
    PROVE  d.space = r.space
  <1>1. PICK p \in Provider :
          d = [space |-> r.space, provider |-> p, cause |-> r.cause, at |-> r,
               delta |-> Delta(r)]
    BY DEF SpaceDiffs
  <1>2. QED
    BY <1>1

(* A transaction is a step of the log if it is about a space whose         *)
(* invocations are sent once, and nothing else is.                         *)
LEMMA StepLogs ==
    ASSUME TypeOK, LogInv, NEW r \in Requests, Step(r) \/ Failure(r)
    PROVE  [Log!Next]_(Log!vars)
  <1>1. CASE UNCHANGED <<registry, diffs>>
    BY <1>1 DEF Log!vars, SentOnce
  <1>2. CASE Transact(r) /\ ConditionHolds(r) /\ r.space \notin SentOnce
    <2>1. \A d \in SpaceDiffs(r) : d.space = r.space
      BY SpaceOfDiffs
    <2>2. Entry(r)[1] = r.space
      BY DEF Entry
    <2>3. /\ {e \in registry' : e[1] \in SentOnce} = {e \in registry : e[1] \in SentOnce}
          /\ {d \in diffs' : d.space \in SentOnce} = {d \in diffs : d.space \in SentOnce}
      BY <1>2, <2>1, <2>2 DEF Transact
    <2>4. QED
      BY <2>3 DEF Log!vars, SentOnce
  <1>3. CASE Transact(r) /\ ConditionHolds(r) /\ r.space \in SentOnce
    <2> DEFINE put == {[space |-> r.space, provider |-> p, cause |-> r.cause, at |-> r,
                        delta |-> Delta(r)] :
                         p \in {q \in Provider : <<r.space, q>> \in Consumers}}
               logged == {d \in diffs : d.space \in SentOnce}
               held == {e \in registry : e[1] \in SentOnce}
    <2>1. \A d \in logged : d.cause # r.cause
      BY <1>3, CauseIsNew DEF Transact, CauseKnown
    <2>2. SpaceDiffs(r) = put
      BY <1>3 DEF SpaceDiffs, LogInv
    <2>3. \A d \in put : d.space = r.space
      BY <2>2, SpaceOfDiffs
    <2>4. {d \in diffs' : d.space \in SentOnce} = logged \union put
      BY <1>3, <2>2, <2>3 DEF Transact
    <2>5. SentOnce' = SentOnce
      BY DEF SentOnce
    <2>6. Log!Logged(r.space, Delta(r), r.cause, r)
      BY <2>1, <2>4, <2>5 DEF Log!Logged
    <2>7. Entry(r) = <<r.space, r.blob>> /\ Entry(r)[1] \in SentOnce
      BY <1>3 DEF Entry
    <2>8. ASSUME r.op = "register"
          PROVE  Log!Add(r.space, r.blob, r.cause, r)
      <3>1. Entry(r) \notin held
        BY <1>3, <2>8 DEF ConditionHolds
      <3>2. {e \in registry' : e[1] \in SentOnce} = held \union {Entry(r)}
        BY <1>3, <2>7, <2>8 DEF Transact
      <3>3. QED
        BY <2>5, <2>6, <2>7, <2>8, <3>1, <3>2 DEF Log!Add, Delta
    <2>9. ASSUME r.op = "deregister"
          PROVE  Log!Remove(r.space, r.blob, r.cause, r)
      <3>1. Entry(r) \in held
        BY <1>3, <2>7, <2>9 DEF ConditionHolds
      <3>2. {e \in registry' : e[1] \in SentOnce} = held \ {Entry(r)}
        BY <1>3, <2>7, <2>9 DEF Transact
      <3>3. QED
        BY <2>5, <2>6, <2>7, <2>9, <3>1, <3>2 DEF Log!Remove, Delta
    <2>10. \/ Log!Add(r.space, r.blob, r.cause, r)
           \/ Log!Remove(r.space, r.blob, r.cause, r)
      BY <2>8, <2>9, RequestType
    <2>11. \E s \in Space, b \in Blob, c \in {q.cause : q \in Requests}, at \in Requests :
             Log!Add(s, b, c, at) \/ Log!Remove(s, b, c, at)
      <3>1. r.space \in Space /\ r.blob \in Blob /\ r.cause \in {q.cause : q \in Requests}
        BY RequestType
      <3>2. QED
        BY <2>10, <3>1, Zenon
    <2>12. QED
      BY <2>11 DEF Log!Next
  <1>4. QED
    BY <1>1, <1>2, <1>3
       DEF Step, Failure, Start, GetItem, LookupCause, Transact, Metrics, MissCause,
           MetricsFail, Stop, tables

(***************************************************************************)
(* In the spaces whose invocations are sent once, the registry and the     *)
(* diffs change as the log does: at once, and for every provider.          *)
(***************************************************************************)
THEOREM RegistryIsLogged == Spec => ImplementsLog
  <1>1. Init => Log!Init /\ LogInv
    BY DEF Init, Log!Init, LogInv
  <1>2. TypeOK /\ LogInv /\ [Next]_vars => LogInv'
    BY LogInvNext
  <1>3. TypeOK /\ LogInv /\ [Next]_vars => [Log!Next]_(Log!vars)
    <2> SUFFICES ASSUME TypeOK, LogInv, [Next]_vars PROVE [Log!Next]_(Log!vars)
      OBVIOUS
    <2>1. CASE UNCHANGED vars
      BY <2>1 DEF vars, tables, Log!vars, SentOnce
    <2>2. QED
      BY <2>1, StepLogs DEF Next
  <1>4. QED
    BY <1>1, <1>2, <1>3, TypeCorrect, PTL DEF Spec, ImplementsLog, Log!Spec

-----------------------------------------------------------------------------
(* Requests answered one at a time, none of them failing, keep the         *)
(* allocations equal to the registry. The invariant says where they differ *)
(* while a request is under way.                                           *)

AtStep(r) ==
    IF pc[r] = "metrics" THEN allocations = registry
    ELSE IF r.op = "register" /\ pc[r] # "get"
    THEN Entry(r) \notin registry /\ allocations = registry \union {Entry(r)}
    ELSE /\ r.op = "deregister"
         /\ Entry(r) \in registry /\ allocations = registry \ {Entry(r)}

TurnInv ==
    /\ \A r, q \in UnderWay : r = q
    /\ \A r \in UnderWay : AtStep(r)
    /\ FindIsRight

(* The request under way is answered.                                      *)
LEMMA TurnEnds ==
    ASSUME TypeOK, TurnInv, NEW r \in UnderWay, NEW a \in Answer, GoTo(r, a),
           allocations' = registry'
    PROVE  TurnInv'
  <1>1. UnderWay' = {}
    BY DEF TurnInv, UnderWay, GoTo, TypeOK
  <1>2. QED
    BY <1>1 DEF TurnInv, FindIsRight

(* The request under way goes on.                                          *)
LEMMA TurnGoesOn ==
    ASSUME TypeOK, TurnInv, NEW r \in UnderWay,
           NEW step \in {"get", "lookup", "transact", "metrics"}, GoTo(r, step), AtStep(r)'
    PROVE  TurnInv'
  <1>1. UnderWay' = {r}
    BY DEF TurnInv, UnderWay, GoTo, TypeOK, Answer
  <1>2. QED
    BY <1>1 DEF TurnInv, FindIsRight, AtRest

(***************************************************************************)
(* With requests one at a time that do not stop half way, what find and    *)
(* list answer from is what the registry holds, causes that are missed and *)
(* metrics that fail included. (With two at once it is not: a blob removed *)
(* while it is being registered is left in the registry alone.)            *)
(***************************************************************************)
THEOREM InTurnFindIsRight ==
    ASSUME "stop" \notin Faults, Limit = 1, IsFiniteSet(Requests)
    PROVE  Spec => []FindIsRight
  <1>1. Init => TurnInv
    BY DEF Init, TurnInv, UnderWay, FindIsRight
  <1>2. TypeOK /\ TurnInv /\ [Next]_vars => TurnInv'
    <2> SUFFICES ASSUME TypeOK, TurnInv, [Next]_vars PROVE TurnInv'
      OBVIOUS
    <2>1. ASSUME NEW r \in Requests, Start(r)
          PROVE  TurnInv'
      <3>1. IsFiniteSet(UnderWay)
        BY FS_Subset DEF UnderWay
      <3>2. UnderWay = {}
        BY <2>1, <3>1, FS_CardinalityType, FS_EmptySet DEF Start
      <3>3. allocations = registry
        BY <3>2 DEF TurnInv, FindIsRight, AtRest
      <3>4. /\ UnderWay' \subseteq {r} /\ registry' = registry
            /\ pc' = [pc EXCEPT ![r] = pc'[r]]
        BY <2>1, <3>2 DEF Start, PutAllocation, DeleteAllocation, GoTo, UnderWay, TypeOK
      <3>5. CASE r \notin UnderWay'
        <4>1. allocations' = allocations
          BY <2>1, <3>5 DEF Start, PutAllocation, DeleteAllocation, GoTo, UnderWay, TypeOK,
                            Allocation, Answer
        <4>2. QED
          BY <3>3, <3>4, <3>5, <4>1 DEF TurnInv, FindIsRight
      <3>6. CASE r \in UnderWay'
        <4>1. AtStep(r)'
          BY <2>1, <3>3, <3>6 DEF Start, PutAllocation, DeleteAllocation, GoTo, UnderWay, TypeOK,
                            Allocation, Answer, AtStep
        <4>2. QED
          BY <3>4, <3>6, <4>1 DEF TurnInv, FindIsRight, AtRest
      <3>7. QED
        BY <3>5, <3>6
    <2>2. ASSUME NEW r \in Requests, GetItem(r)
          PROVE  TurnInv'
      <3>1. r \in UnderWay /\ AtStep(r)
        BY <2>2 DEF GetItem, TurnInv, UnderWay, Answer
      <3>2. Entry(r) \in registry /\ r.op = "deregister" /\ GoTo(r, "lookup")
        BY <2>2, <3>1, RequestType DEF GetItem, AtStep
      <3>3. AtStep(r)'
        BY <2>2, <3>1, <3>2 DEF GetItem, AtStep, GoTo, TypeOK, tables
      <3>4. QED
        BY <3>1, <3>2, <3>3, TurnGoesOn
    <2>3. ASSUME NEW r \in Requests, LookupCause(r)
          PROVE  TurnInv'
      <3>1. r \in UnderWay /\ AtStep(r)
        BY <2>3 DEF LookupCause, TurnInv, UnderWay, Answer
      <3>2. AtStep(r)'
        BY <2>3, <3>1 DEF LookupCause, AtStep, GoTo, TypeOK, tables
      <3>3. QED
        BY <2>3, <3>1, <3>2, TurnGoesOn DEF LookupCause
    <2>4. ASSUME NEW r \in Requests, Transact(r)
          PROVE  TurnInv'
      <3>1. r \in UnderWay /\ AtStep(r)
        BY <2>4 DEF Transact, TurnInv, UnderWay, Answer
      <3>2. ConditionHolds(r) /\ allocations' = registry'
        BY <2>4, <3>1, RequestType DEF Transact, AtStep, ConditionHolds
      <3>3. GoTo(r, "metrics")
        BY <2>4, <3>2 DEF Transact
      <3>4. AtStep(r)'
        BY <3>2, <3>3 DEF AtStep, GoTo, TypeOK
      <3>5. QED
        BY <3>1, <3>3, <3>4, TurnGoesOn
    <2>5. ASSUME NEW r \in Requests, Metrics(r)
          PROVE  TurnInv'
      <3>1. r \in UnderWay /\ AtStep(r)
        BY <2>5 DEF Metrics, TurnInv, UnderWay, Answer
      <3>2. QED
        BY <2>5, <3>1, TurnEnds DEF Metrics, AtStep, tables, Answer
    <2>6. ASSUME NEW r \in Requests, Failure(r)
          PROVE  TurnInv'
      <3>1. CASE MissCause(r)
        <4>1. r \in UnderWay /\ AtStep(r)
          BY <3>1 DEF MissCause, TurnInv, UnderWay, Answer
        <4>2. AtStep(r)'
          BY <3>1, <4>1 DEF MissCause, AtStep, GoTo, TypeOK, tables
        <4>3. QED
          BY <3>1, <4>1, <4>2, TurnGoesOn DEF MissCause
      <3>2. CASE MetricsFail(r)
        <4>1. r \in UnderWay /\ AtStep(r)
          BY <3>2 DEF MetricsFail, TurnInv, UnderWay, Answer
        <4>2. QED
          BY <3>2, <4>1, TurnEnds DEF MetricsFail, AtStep, tables, Answer
      <3>3. QED
        BY <2>6, <3>1, <3>2 DEF Failure, Stop
    <2>7. CASE UNCHANGED vars
      BY <2>7 DEF vars, tables, TurnInv, UnderWay, AtStep, FindIsRight, AtRest
    <2>8. QED
      BY <2>1, <2>2, <2>3, <2>4, <2>5, <2>6, <2>7 DEF Next, Step
  <1>3. TurnInv => FindIsRight
    BY DEF TurnInv
  <1>4. QED
    BY <1>1, <1>2, <1>3, TypeCorrect, PTL DEF Spec

-----------------------------------------------------------------------------
(* The allocations and the registry. The invariant: as long as no request   *)
(* about a blob was answered with an error, what the two tables differ by   *)
(* are the requests about it between their allocation and their             *)
(* transaction.                                                             *)

Unfinished == {"get", "lookup", "transact"}

Between(e, op) ==
    {r \in Requests : Entry(r) = e /\ r.op = op /\ pc[r] \in Unfinished}

OneIf(e, table) == IF e \in table THEN 1 ELSE 0

Balanced(e) ==
    /\ IsFiniteSet(Between(e, "register")) /\ IsFiniteSet(Between(e, "deregister"))
    /\ OneIf(e, allocations) - OneIf(e, registry)
         = Cardinality(Between(e, "register")) - Cardinality(Between(e, "deregister"))

Refused(e) == \E r \in Requests : Entry(r) = e /\ pc[r] = "error"

PartedInv == \A e \in Space \X Blob : Refused(e) \/ Balanced(e)

LEMMA OthersBalance ==
    ASSUME TypeOK, NEW r \in Requests, NEW step, pc' = [pc EXCEPT ![r] = step], NEW e, e # Entry(r),
           e \in allocations' <=> e \in allocations, e \in registry' <=> e \in registry
    PROVE  (Refused(e) => Refused(e)') /\ (Balanced(e) => Balanced(e)')
  <1>1. \A q \in Requests : Entry(q) = e => pc'[q] = pc[q]
    BY DEF TypeOK
  <1>2. \A op : Between(e, op)' = Between(e, op)
    BY <1>1 DEF Between
  <1>3. Refused(e) => Refused(e)'
    BY <1>1 DEF Refused
  <1>4. OneIf(e, allocations)' = OneIf(e, allocations) /\ OneIf(e, registry)' = OneIf(e, registry)
    BY DEF OneIf
  <1>5. QED
    BY <1>2, <1>3, <1>4 DEF Balanced

LEMMA RefusedStays ==
    ASSUME TypeOK, NEW r \in Requests, NEW step, pc' = [pc EXCEPT ![r] = step], pc[r] # "error", NEW e
    PROVE  Refused(e) => Refused(e)'
  BY DEF Refused, TypeOK

\* The requests of a blob that are between, after a step of one of them.
LEMMA BetweenMoves ==
    ASSUME TypeOK, NEW r \in Requests, NEW step, pc' = [pc EXCEPT ![r] = step], NEW op
    PROVE  LET B == Between(Entry(r), op) IN
             /\ r.op # op => B' = B
             /\ (pc[r] \in Unfinished <=> step \in Unfinished) => B' = B
             /\ r.op = op /\ pc[r] \notin Unfinished /\ step \in Unfinished => B' = B \union {r} /\ r \notin B
             /\ r.op = op /\ pc[r] \in Unfinished /\ step \notin Unfinished => B' = B \ {r} /\ r \in B
  <1>1. pc'[r] = step /\ \A q \in Requests : q # r => pc'[q] = pc[q]
    BY DEF TypeOK
  <1>2. r.op # op => Between(Entry(r), op)' = Between(Entry(r), op)
    BY <1>1 DEF Between
  <1>3. (pc[r] \in Unfinished <=> step \in Unfinished) => Between(Entry(r), op)' = Between(Entry(r), op)
    BY <1>1 DEF Between, Unfinished
  <1>4. r.op = op /\ pc[r] \notin Unfinished /\ step \in Unfinished
          => Between(Entry(r), op)' = Between(Entry(r), op) \union {r} /\ r \notin Between(Entry(r), op)
    BY <1>1 DEF Between, Unfinished
  <1>5. r.op = op /\ pc[r] \in Unfinished /\ step \notin Unfinished
          => Between(Entry(r), op)' = Between(Entry(r), op) \ {r} /\ r \in Between(Entry(r), op)
    BY <1>1 DEF Between, Unfinished
  <1>6. QED
    BY <1>2, <1>3, <1>4, <1>5

LEMMA OneMore ==
    ASSUME NEW S, IsFiniteSet(S), NEW x
    PROVE  /\ Cardinality(S) \in Nat
           /\ IsFiniteSet(S \union {x}) /\ IsFiniteSet(S \ {x})
           /\ x \notin S => Cardinality(S \union {x}) = Cardinality(S) + 1
           /\ x \in S => Cardinality(S \ {x}) = Cardinality(S) - 1
  BY FS_CardinalityType, FS_AddElement, FS_RemoveElement

\* A request about the blob of e begins, with its allocation.
LEMMA StartBalances ==
    ASSUME TypeOK, NEW r \in Requests, Start(r), Balanced(Entry(r))
    PROVE  Balanced(Entry(r))'
  <1> DEFINE e == Entry(r)
             R == Between(e, "register")
             D == Between(e, "deregister")
  <1>1. IsFiniteSet(R) /\ IsFiniteSet(D)
        /\ OneIf(e, allocations) - OneIf(e, registry) = Cardinality(R) - Cardinality(D)
    BY DEF Balanced
  <1>2. Cardinality(R) \in Nat /\ Cardinality(D) \in Nat
    BY <1>1, OneMore
  <1>3. pc[r] = "new" /\ allocations' = Allocation(r) /\ registry' = registry
    BY DEF Start
  <1>4. CASE r.op = "register" /\ e \notin allocations
    <2>1. pc' = [pc EXCEPT ![r] = "lookup"] /\ allocations' = allocations \union {e}
      BY <1>3, <1>4 DEF Start, PutAllocation, DeleteAllocation, GoTo, Allocation
    <2>2. R' = R \union {r} /\ r \notin R /\ D' = D
      BY <1>3, <1>4, <2>1, BetweenMoves DEF Unfinished
    <2>3. OneIf(e, allocations) = 0 /\ OneIf(e, allocations)' = 1 /\ OneIf(e, registry)' = OneIf(e, registry)
      BY <1>3, <1>4, <2>1 DEF OneIf
    <2> HIDE DEF R, D
    <2>4. Cardinality(R') = Cardinality(R) + 1 /\ IsFiniteSet(R')
      BY <1>1, <2>2, OneMore
    <2>5. OneIf(e, registry) \in Nat
      BY DEF OneIf
    <2>6. OneIf(e, allocations)' - OneIf(e, registry)' = Cardinality(R') - Cardinality(D')
      BY <1>1, <1>2, <2>2, <2>3, <2>4, <2>5
    <2>7. QED
      BY <1>1, <2>2, <2>4, <2>6 DEF Balanced, R, D
  <1>5. CASE r.op = "deregister" /\ e \in allocations
    <2>1. pc' = [pc EXCEPT ![r] = "get"] /\ allocations' = allocations \ {e}
      BY <1>3, <1>5 DEF Start, PutAllocation, DeleteAllocation, GoTo, Allocation
    <2>2. D' = D \union {r} /\ r \notin D /\ R' = R
      BY <1>3, <1>5, <2>1, BetweenMoves DEF Unfinished
    <2>3. OneIf(e, allocations) = 1 /\ OneIf(e, allocations)' = 0 /\ OneIf(e, registry)' = OneIf(e, registry)
      BY <1>3, <1>5, <2>1 DEF OneIf
    <2> HIDE DEF R, D
    <2>4. Cardinality(D') = Cardinality(D) + 1 /\ IsFiniteSet(D')
      BY <1>1, <2>2, OneMore
    <2>5. OneIf(e, registry) \in Nat
      BY DEF OneIf
    <2>6. OneIf(e, allocations)' - OneIf(e, registry)' = Cardinality(R') - Cardinality(D')
      BY <1>1, <1>2, <2>2, <2>3, <2>4, <2>5
    <2>7. QED
      BY <1>1, <2>2, <2>4, <2>6 DEF Balanced, R, D
  <1>6. CASE ~(r.op = "register" /\ e \notin allocations) /\ ~(r.op = "deregister" /\ e \in allocations)
    <2>1. allocations' = allocations
      BY <1>3, <1>6, RequestType DEF Allocation
    <2>2. \E step \in {"exists", "notFound"} : pc' = [pc EXCEPT ![r] = step]
      BY <1>6 DEF Start, PutAllocation, DeleteAllocation, GoTo
    <2>3. R' = R /\ D' = D
      BY <1>3, <2>2, BetweenMoves DEF Unfinished
    <2>4. QED
      BY <1>1, <1>3, <2>1, <2>3 DEF Balanced, OneIf
  <1>7. QED
    BY <1>4, <1>5, <1>6

\* It ends with its transaction.
LEMMA TransactBalances ==
    ASSUME TypeOK, NEW r \in Requests, Transact(r), ConditionHolds(r), Balanced(Entry(r))
    PROVE  Balanced(Entry(r))'
  <1> DEFINE e == Entry(r)
             R == Between(e, "register")
             D == Between(e, "deregister")
  <1>1. IsFiniteSet(R) /\ IsFiniteSet(D)
        /\ OneIf(e, allocations) - OneIf(e, registry) = Cardinality(R) - Cardinality(D)
    BY DEF Balanced
  <1>2. Cardinality(R) \in Nat /\ Cardinality(D) \in Nat /\ OneIf(e, allocations) \in Nat
    BY <1>1, OneMore DEF OneIf
  <1>3. pc[r] = "transact" /\ pc' = [pc EXCEPT ![r] = "metrics"] /\ allocations' = allocations
        /\ registry' = IF r.op = "register" THEN registry \union {e} ELSE registry \ {e}
    BY DEF Transact, GoTo
  <1>4. CASE r.op = "register"
    <2>1. R' = R \ {r} /\ r \in R /\ D' = D
      <3>1. pc[r] \in Unfinished /\ "metrics" \notin Unfinished
        BY <1>3 DEF Unfinished
      <3>2. R' = R \ {r} /\ r \in R
        BY <1>3, <1>4, <3>1, BetweenMoves
      <3>3. D' = D
        BY <1>3, <1>4, <3>1, BetweenMoves
      <3>4. QED
        BY <3>2, <3>3
    <2>2. OneIf(e, registry) = 0 /\ OneIf(e, registry)' = 1 /\ OneIf(e, allocations)' = OneIf(e, allocations)
      BY <1>3, <1>4 DEF OneIf, ConditionHolds
    <2> HIDE DEF R, D
    <2>3. Cardinality(R') = Cardinality(R) - 1 /\ IsFiniteSet(R')
      BY <1>1, <2>1, OneMore
    <2>4. OneIf(e, allocations)' - OneIf(e, registry)' = Cardinality(R') - Cardinality(D')
      BY <1>1, <1>2, <2>1, <2>2, <2>3
    <2>5. QED
      BY <1>1, <2>1, <2>3, <2>4 DEF Balanced, R, D
  <1>5. CASE r.op # "register"
    <2>1. D' = D \ {r} /\ r \in D /\ R' = R
      <3>1. pc[r] \in Unfinished /\ "metrics" \notin Unfinished /\ r.op = "deregister"
        BY <1>3, <1>5, RequestType DEF Unfinished
      <3>2. D' = D \ {r} /\ r \in D
        BY <1>3, <3>1, BetweenMoves
      <3>3. R' = R
        BY <1>3, <3>1, BetweenMoves
      <3>4. QED
        BY <3>2, <3>3
    <2>2. OneIf(e, registry) = 1 /\ OneIf(e, registry)' = 0 /\ OneIf(e, allocations)' = OneIf(e, allocations)
      BY <1>3, <1>5 DEF OneIf, ConditionHolds
    <2> HIDE DEF R, D
    <2>3. Cardinality(D') = Cardinality(D) - 1 /\ IsFiniteSet(D')
      BY <1>1, <2>1, OneMore
    <2>4. OneIf(e, allocations)' - OneIf(e, registry)' = Cardinality(R') - Cardinality(D')
      BY <1>1, <1>2, <2>1, <2>2, <2>3
    <2>5. QED
      BY <1>1, <2>1, <2>3, <2>4 DEF Balanced, R, D
  <1>6. QED
    BY <1>4, <1>5

LEMMA PartedStep ==
    ASSUME TypeOK, PartedInv, NEW r \in Requests, Step(r) \/ Failure(r)
    PROVE  PartedInv'
  <1> DEFINE e == Entry(r)
  <1>1. \E step : pc' = [pc EXCEPT ![r] = step]
    BY DEF Step, Failure, Start, PutAllocation, DeleteAllocation, GetItem, LookupCause, Transact, Metrics,
           MissCause, MetricsFail, Stop, GoTo
  <1>2. PICK step : pc' = [pc EXCEPT ![r] = step]
    BY <1>1
  <1>3. pc[r] # "error"
    BY DEF Step, Failure, Start, GetItem, LookupCause, Transact, Metrics, MissCause, MetricsFail, Stop,
           UnderWay, Answer
  <1>4. \A x : x # e => (x \in allocations' <=> x \in allocations) /\ (x \in registry' <=> x \in registry)
    BY DEF Step, Failure, Start, Allocation, GetItem, LookupCause, Transact, Metrics,
           MissCause, MetricsFail, Stop, tables
  <1>5. e \in Space \X Blob /\ pc'[r] = step
    BY <1>2, RequestType DEF TypeOK
  <1>6. ASSUME NEW x \in Space \X Blob, x # e PROVE Refused(x)' \/ Balanced(x)'
    BY <1>2, <1>4, <1>6, OthersBalance DEF PartedInv
  <1>7. Refused(e)' \/ Balanced(e)'
    <2>1. CASE Refused(e)
      BY <1>2, <1>3, <2>1, RefusedStays
    <2>2. CASE step = "error"
      BY <1>5, <2>2 DEF Refused
    <2>3. CASE ~Refused(e) /\ step # "error"
      <3>1. Balanced(e)
        BY <1>5, <2>3 DEF PartedInv
      <3>2. CASE Start(r)
        BY <3>1, <3>2, StartBalances
      <3>3. CASE Transact(r)
        <4>1. ConditionHolds(r)
          <5> SUFFICES ASSUME ~ConditionHolds(r) PROVE FALSE
            OBVIOUS
          <5>1. pc' = [pc EXCEPT ![r] = "error"]
            BY <3>3 DEF Transact, GoTo
          <5>2. QED
            BY <1>5, <2>3, <5>1 DEF TypeOK
        <4>2. QED
          BY <3>1, <3>3, <4>1, TransactBalances
      <3>4. CASE GetItem(r) \/ LookupCause(r) \/ MissCause(r) \/ Metrics(r) \/ MetricsFail(r) \/ Stop(r)
        <4>1. UNCHANGED <<allocations, registry>>
          BY <3>4 DEF GetItem, LookupCause, MissCause, Metrics, MetricsFail, Stop, tables
        <4>2. \/ pc[r] \in Unfinished /\ pc'[r] \in {"lookup", "transact"}
              \/ pc[r] = "metrics" /\ pc'[r] = "ok"
          <5>1. CASE GetItem(r)
            BY <1>5, <2>3, <5>1 DEF GetItem, GoTo, TypeOK, Unfinished
          <5>2. CASE LookupCause(r) \/ MissCause(r)
            BY <5>2 DEF LookupCause, MissCause, GoTo, TypeOK, Unfinished
          <5>3. CASE Metrics(r)
            BY <5>3 DEF Metrics, GoTo, TypeOK
          <5>4. CASE MetricsFail(r) \/ Stop(r)
            BY <1>5, <2>3, <5>4 DEF MetricsFail, Stop, GoTo, TypeOK
          <5>5. QED
            BY <3>4, <5>1, <5>2, <5>3, <5>4
        <4>3. \A op : Between(e, op)' = Between(e, op)
          BY <1>2, <1>5, <4>2, BetweenMoves DEF Unfinished
        <4>4. QED
          BY <3>1, <4>1, <4>3 DEF Balanced, OneIf
      <3>5. QED
        BY <3>2, <3>3, <3>4 DEF Step, Failure
    <2>4. QED
      BY <2>1, <2>2, <2>3
  <1>8. QED
    BY <1>6, <1>7 DEF PartedInv

(***************************************************************************)
(* Whatever requests come at once, stop or are sent again: where the       *)
(* allocations and the registry differ, with no request under way, one of  *)
(* the requests about that blob was answered with an error.                *)
(***************************************************************************)
THEOREM PartedTablesAreAnswered == Spec => []PartedIsAnswered
  <1>1. Init => PartedInv
    <2> SUFFICES ASSUME Init, NEW e \in Space \X Blob PROVE Balanced(e)
      BY DEF PartedInv
    <2>1. \A op : Between(e, op) = {}
      BY DEF Init, Between, Unfinished
    <2>2. OneIf(e, allocations) = 0 /\ OneIf(e, registry) = 0
      BY DEF Init, OneIf
    <2>3. IsFiniteSet({}) /\ Cardinality({}) = 0
      BY FS_EmptySet
    <2>4. QED
      BY <2>1, <2>2, <2>3 DEF Balanced
  <1>2. TypeOK /\ PartedInv /\ [Next]_vars => PartedInv'
    <2> SUFFICES ASSUME TypeOK, PartedInv, [Next]_vars PROVE PartedInv'
      OBVIOUS
    <2>1. CASE UNCHANGED vars
      BY <2>1 DEF vars, tables, PartedInv, Refused, Balanced, Between, OneIf
    <2>2. QED
      BY <2>1, PartedStep DEF Next
  <1>3. PartedInv => PartedIsAnswered
    <2> SUFFICES ASSUME PartedInv, AtRest, NEW e \in Space \X Blob, ~Refused(e)
                 PROVE  e \in allocations <=> e \in registry
      BY DEF PartedIsAnswered, Refused
    <2>1. Balanced(e)
      BY DEF PartedInv
    <2>2. \A op : Between(e, op) = {}
      BY DEF AtRest, UnderWay, Between, Unfinished, Answer
    <2>3. Cardinality({}) = 0
      BY FS_EmptySet
    <2>4. OneIf(e, allocations) - OneIf(e, registry) = 0
      BY <2>1, <2>2, <2>3 DEF Balanced
    <2>5. QED
      BY <2>4 DEF OneIf
  <1>4. QED
    BY <1>1, <1>2, <1>3, TypeCorrect, PTL DEF Spec


-----------------------------------------------------------------------------
(* The sums. A transaction adds the same number to what its space holds    *)
(* and to the diffs of each of its providers.                              *)

LEMMA HeldType ==
    ASSUME TypeOK, NEW s
    PROVE  [e \in Held(s) |-> Size[e[2]]] \in [Held(s) -> Int]
  BY RegistryAssumption DEF TypeOK, Held

FiniteTables == \A s \in Space : IsFiniteSet(Held(s))

LEMMA SizeHeldType ==
    ASSUME TypeOK, FiniteTables, NEW s \in Space
    PROVE  SizeHeld(s) \in Int
  BY HeldType, TotalType DEF SizeHeld, FiniteTables

(* What a transaction does to the size a space holds.                       *)
Goes(r, s) == IF r.space = s THEN Delta(r) ELSE 0

Transacts(r) == Transact(r) /\ ConditionHolds(r)

LEMMA RegistryStays ==
    ASSUME TypeOK, FiniteTables, UNCHANGED registry
    PROVE  FiniteTables' /\ \A s \in Space : SizeHeld(s)' = SizeHeld(s)
  BY DEF FiniteTables, Held, SizeHeld

LEMMA TransactMovesSize ==
    ASSUME TypeOK, TypeOK', FiniteTables, NEW r \in Requests, Transacts(r)
    PROVE  /\ FiniteTables'
           /\ \A s \in Space : SizeHeld(s)' = SizeHeld(s) + Goes(r, s)
  <1> SUFFICES ASSUME NEW s \in Space
               PROVE  IsFiniteSet(Held(s)') /\ SizeHeld(s)' = SizeHeld(s) + Goes(r, s)
    BY DEF FiniteTables
  <1> DEFINE before == [e \in Held(s) |-> Size[e[2]]]
             after == [e \in Held(s)' |-> Size[e[2]]]
  <1>1. IsFiniteSet(Held(s)) /\ before \in [Held(s) -> Int] /\ after \in [Held(s)' -> Int]
    BY HeldType, RegistryAssumption DEF FiniteTables, TypeOK, Held
  <1>2. SizeHeld(s) = SumFunction(before) /\ SizeHeld(s)' = SumFunction(after)
    BY DEF SizeHeld
  <1>3. SizeHeld(s) \in Int
    BY SizeHeldType
  <1>4. Entry(r)[1] = r.space /\ Entry(r)[2] = r.blob
    BY DEF Entry
  <1>5. CASE r.space # s
    <2>1. Held(s)' = Held(s)
      BY <1>4, <1>5 DEF Transacts, Transact, Held
    <2>2. after = before
      BY <2>1
    <2>3. QED
      BY <1>1, <1>2, <1>3, <1>5, <2>1, <2>2 DEF Goes
  <1>6. CASE r.space = s /\ r.op = "register"
    <2>1. Entry(r) \notin Held(s) /\ Held(s)' = Held(s) \union {Entry(r)}
      BY <1>4, <1>6 DEF Transacts, Transact, ConditionHolds, Held
    <2>2. \A e \in Held(s) : after[e] = before[e]
      BY <2>1
    <2>3. after[Entry(r)] = Size[r.blob]
      BY <1>4, <2>1
    <2> HIDE DEF before, after
    <2>4. SumFunction(after) = SumFunction(before) + after[Entry(r)]
      BY <1>1, <2>1, <2>2, TotalWith
    <2>5. IsFiniteSet(Held(s)')
      BY <1>1, <2>1, FS_AddElement
    <2>6. QED
      BY <1>2, <1>6, <2>3, <2>4, <2>5 DEF Goes, Delta
  <1>7. CASE r.space = s /\ r.op = "deregister"
    <2>1. Entry(r) \in Held(s) /\ Held(s)' = Held(s) \ {Entry(r)}
      BY <1>4, <1>7 DEF Transacts, Transact, ConditionHolds, Held
    <2>2. \A e \in Held(s)' : before[e] = after[e]
      BY <2>1
    <2>3. before[Entry(r)] = Size[r.blob] /\ Size[r.blob] \in Int
      BY <1>4, <2>1, RequestType
    <2>4. IsFiniteSet(Held(s)') /\ Held(s) = Held(s)' \union {Entry(r)} /\ Entry(r) \notin Held(s)'
      BY <1>1, <2>1, FS_RemoveElement
    <2> HIDE DEF before, after
    <2>5. SumFunction(before) = SumFunction(after) + before[Entry(r)]
      BY <1>1, <2>2, <2>4, TotalWith
    <2>6. SumFunction(after) \in Int
      BY <1>1, <2>4, TotalType
    <2>7. SizeHeld(s)' = SizeHeld(s) + (-Size[r.blob])
      BY <1>2, <2>3, <2>5, <2>6
    <2>8. Goes(r, s) = -Size[r.blob]
      BY <1>7 DEF Goes, Delta
    <2>9. QED
      BY <2>4, <2>7, <2>8
  <1>8. QED
    BY <1>5, <1>6, <1>7, RequestType

(***************************************************************************)
(* The diffs of a provider.                                                *)
(***************************************************************************)
DiffsInv ==
    /\ FiniteTables
    /\ \A e \in Consumers : e[1] \in SentOnce =>
         IsFiniteSet(DiffsOf(e[1], e[2])) /\ DiffTotal(e[1], e[2]) = SizeHeld(e[1])

LEMMA TransactMovesDiffs ==
    ASSUME TypeOK, TypeOK', LogInv, NEW r \in Requests, Transacts(r),
           NEW s \in SentOnce, NEW p, <<s, p>> \in Consumers, IsFiniteSet(DiffsOf(s, p))
    PROVE  IsFiniteSet(DiffsOf(s, p)') /\ DiffTotal(s, p)' = DiffTotal(s, p) + Goes(r, s)
  <1> DEFINE d == [space |-> r.space, provider |-> p, cause |-> r.cause, at |-> r, delta |-> Delta(r)]
             before == [c \in DiffsOf(s, p) |-> c.delta]
             after == [c \in DiffsOf(s, p)' |-> c.delta]
  <1>1. before \in [DiffsOf(s, p) -> Int] /\ after \in [DiffsOf(s, p)' -> Int]
    BY DEF TypeOK, Diff, DiffsOf
  <1>2. DiffTotal(s, p) = SumFunction(before) /\ DiffTotal(s, p)' = SumFunction(after)
    BY DEF DiffTotal
  <1>3. DiffTotal(s, p) \in Int
    BY <1>1, <1>2, TotalType
  <1>4. diffs' = diffs \union SpaceDiffs(r)
    BY DEF Transacts, Transact
  <1>5. CASE r.space # s
    <2>1. DiffsOf(s, p)' = DiffsOf(s, p)
      BY <1>4, <1>5, SpaceOfDiffs DEF DiffsOf
    <2>2. QED
      BY <1>2, <1>3, <1>5, <2>1 DEF Goes
  <1>6. CASE r.space = s
    <2>1. d \in SpaceDiffs(r)
      BY <1>6, RegistryAssumption DEF SpaceDiffs, LogInv
    <2>2. ASSUME NEW c \in SpaceDiffs(r), c.provider = p
          PROVE  c = d
      <3>1. PICK q \in Provider :
              c = [space |-> r.space, provider |-> q, cause |-> r.cause, at |-> r,
                   delta |-> Delta(r)]
        BY DEF SpaceDiffs
      <3>2. q = p
        BY <2>2, <3>1
      <3>3. QED
        BY <3>1, <3>2
    <2>3. DiffsOf(s, p)' = DiffsOf(s, p) \union {d}
      BY <1>4, <1>6, <2>1, <2>2 DEF DiffsOf
    <2>4. d \notin diffs
      <3>1. pc[r] = "transact"
        BY DEF Transacts, Transact
      <3>2. \A c \in diffs : c.cause # r.cause
        BY <1>6, <3>1, CauseIsNew DEF CauseKnown
      <3>3. QED
        BY <3>2
    <2>5. d \notin DiffsOf(s, p)
      BY <2>4 DEF DiffsOf
    <2>6. (\A c \in DiffsOf(s, p) : after[c] = before[c]) /\ after[d] = Delta(r)
      BY <2>3
    <2> HIDE DEF before, after, d
    <2>7. SumFunction(after) = SumFunction(before) + after[d]
      BY <1>1, <2>3, <2>5, <2>6, TotalWith
    <2>8. IsFiniteSet(DiffsOf(s, p)')
      BY <2>3, FS_AddElement
    <2>9. QED
      BY <1>2, <1>6, <2>6, <2>7, <2>8 DEF Goes
  <1>7. QED
    BY <1>5, <1>6

LEMMA DiffsStep ==
    ASSUME TypeOK, TypeOK', LogInv, DiffsInv, NEW r \in Requests, Step(r) \/ Failure(r)
    PROVE  DiffsInv'
  <1>1. CASE UNCHANGED <<registry, diffs>>
    <2>1. FiniteTables' /\ \A s \in Space : SizeHeld(s)' = SizeHeld(s)
      BY <1>1, RegistryStays DEF DiffsInv
    <2>2. \A s, p : DiffsOf(s, p)' = DiffsOf(s, p) /\ DiffTotal(s, p)' = DiffTotal(s, p)
      BY <1>1 DEF DiffsOf, DiffTotal
    <2>3. \A e \in Consumers : e[1] \in Space
      BY RegistryAssumption
    <2>4. QED
      BY <2>1, <2>2, <2>3 DEF DiffsInv, SentOnce
  <1>2. CASE Transacts(r)
    <2>1. FiniteTables' /\ \A s \in Space : SizeHeld(s)' = SizeHeld(s) + Goes(r, s)
      BY <1>2, TransactMovesSize DEF DiffsInv
    <2>2. ASSUME NEW e \in Consumers, e[1] \in SentOnce
          PROVE  IsFiniteSet(DiffsOf(e[1], e[2])') /\ DiffTotal(e[1], e[2])' = SizeHeld(e[1])'
      <3>1. e = <<e[1], e[2]>> /\ e[1] \in Space
        BY RegistryAssumption
      <3>2. IsFiniteSet(DiffsOf(e[1], e[2])) /\ DiffTotal(e[1], e[2]) = SizeHeld(e[1])
        BY <2>2 DEF DiffsInv
      <3>3. <<e[1], e[2]>> \in Consumers
        BY <3>1
      <3>4. /\ IsFiniteSet(DiffsOf(e[1], e[2])')
            /\ DiffTotal(e[1], e[2])' = DiffTotal(e[1], e[2]) + Goes(r, e[1])
        BY <1>2, <2>2, <3>2, <3>3, TransactMovesDiffs
      <3>5. QED
        BY <2>1, <3>1, <3>2, <3>4
    <2>3. SentOnce' = SentOnce
      BY DEF SentOnce
    <2>4. QED
      BY <2>1, <2>2, <2>3 DEF DiffsInv
  <1>3. QED
    BY <1>1, <1>2
       DEF Transacts, Step, Failure, Start, GetItem, LookupCause, Transact, Metrics, MissCause,
           MetricsFail, Stop, tables

(***************************************************************************)
(* In the spaces whose invocations are sent once, the diffs of every       *)
(* provider add up to the size of the blobs registered, whatever requests  *)
(* are under way and wherever they stop.                                   *)
(***************************************************************************)
THEOREM DiffsAddUpToTheRegistry == Spec => []DiffsMatchRegistry
  <1>1. Init => LogInv /\ DiffsInv
    <2> SUFFICES ASSUME Init PROVE LogInv /\ DiffsInv
      OBVIOUS
    <2>1. LogInv
      BY DEF Init, LogInv
    <2>2. \A s, p : Held(s) = {} /\ DiffsOf(s, p) = {}
      BY DEF Init, Held, DiffsOf
    <2>3. \A s, p : SizeHeld(s) = 0 /\ DiffTotal(s, p) = 0
      BY <2>2, TotalEmpty DEF SizeHeld, DiffTotal
    <2>4. QED
      BY <2>1, <2>2, <2>3, FS_EmptySet DEF DiffsInv, FiniteTables
  <1>2. TypeOK /\ TypeOK' /\ LogInv /\ DiffsInv /\ [Next]_vars => DiffsInv'
    <2> SUFFICES ASSUME TypeOK, TypeOK', LogInv, DiffsInv, [Next]_vars PROVE DiffsInv'
      OBVIOUS
    <2>1. CASE UNCHANGED vars
      BY <2>1 DEF vars, tables, DiffsInv, FiniteTables, Held, SizeHeld, DiffsOf, DiffTotal, SentOnce
    <2>2. QED
      BY <2>1, DiffsStep DEF Next
  <1>3. TypeOK /\ LogInv /\ [Next]_vars => LogInv'
    BY LogInvNext
  <1>4. DiffsInv => DiffsMatchRegistry
    BY DEF DiffsInv, DiffsMatchRegistry
  <1>5. QED
    BY <1>1, <1>2, <1>3, <1>4, TypeCorrect, PTL DEF Spec


-----------------------------------------------------------------------------
(* The metrics. Change adds up what requests do to the size held.          *)

LEMMA ChangeType ==
    ASSUME NEW rs \in SUBSET Requests, IsFiniteSet(rs)
    PROVE  Change(rs) \in Int
  <1>1. [r \in rs |-> Delta(r)] \in [rs -> Int]
    BY RequestType DEF Delta
  <1>2. QED
    BY <1>1, TotalType DEF Change

LEMMA ChangeWith ==
    ASSUME NEW rs \in SUBSET Requests, IsFiniteSet(rs), NEW r \in Requests, r \notin rs
    PROVE  Change(rs \union {r}) = Change(rs) + Delta(r)
  <1> DEFINE before == [q \in rs |-> Delta(q)]
             after == [q \in rs \union {r} |-> Delta(q)]
  <1>1. \A q \in Requests : Delta(q) \in Int
    BY RequestType DEF Delta
  <1>2. before \in [rs -> Int] /\ after \in [rs \union {r} -> Int]
    BY <1>1
  <1>3. (\A q \in rs : after[q] = before[q]) /\ after[r] = Delta(r)
    OBVIOUS
  <1> HIDE DEF before, after
  <1>4. SumFunction(after) = SumFunction(before) + after[r]
    BY <1>2, <1>3, TotalWith
  <1> USE DEF before, after
  <1>5. QED
    BY <1>3, <1>4 DEF Change

LEMMA InWith ==
    ASSUME NEW rs \in SUBSET Requests, IsFiniteSet(rs), NEW r \in Requests, r \notin rs, NEW s
    PROVE  /\ Change(In(s, rs)) \in Int
           /\ Change(In(s, rs \union {r})) = Change(In(s, rs)) + Goes(r, s)
  <1>1. In(s, rs) \in SUBSET Requests /\ IsFiniteSet(In(s, rs)) /\ r \notin In(s, rs)
    BY FS_Subset DEF In
  <1>2. Change(In(s, rs)) \in Int
    BY <1>1, ChangeType
  <1>3. CASE r.space = s
    <2>1. In(s, rs \union {r}) = In(s, rs) \union {r}
      BY <1>3 DEF In
    <2>2. QED
      BY <1>1, <1>2, <1>3, <2>1, ChangeWith DEF Goes
  <1>4. CASE r.space # s
    <2>1. In(s, rs \union {r}) = In(s, rs)
      BY <1>4 DEF In
    <2>2. QED
      BY <1>2, <1>4, <2>1 DEF Goes
  <1>5. QED
    BY <1>3, <1>4

\* The requests whose change is in one store and not in the other.
SpaceBalanced(rs) ==
    \A s \in Space : Balance(spaceMetrics[s]) + Change(In(s, rs)) = SizeHeld(s)

TotalHeld == SumFunction([s \in Space |-> SizeHeld(s)])

AdminBalanced(rs) == Balance(adminMetrics) + Change(rs) = TotalHeld

Missing(spaceMissed, adminMissed) ==
    /\ spaceMissed \in SUBSET Failed /\ adminMissed \in SUBSET Failed
    /\ IsFiniteSet(spaceMissed \union adminMissed)
    /\ Cardinality(spaceMissed \union adminMissed) <= faults
    /\ SpaceBalanced(ToCount \union spaceMissed)
    /\ AdminBalanced(ToCount \union adminMissed)

MetricsInv ==
    /\ FiniteTables
    /\ IsFiniteSet(ToCount)
    /\ \E spaceMissed \in SUBSET Failed, adminMissed \in SUBSET Failed :
         Missing(spaceMissed, adminMissed)

LEMMA CountedBalance ==
    ASSUME NEW r \in Requests, NEW t \in Totals
    PROVE  Balance(t) \in Int /\ Balance(Counted(t, r)) = Balance(t) + Delta(r)
  <1>1. Size[r.blob] \in Nat /\ r.op \in {"register", "deregister"}
    BY RequestType
  <1>2. /\ t.added \in Nat /\ t.addedSize \in Nat
        /\ t.removed \in Nat /\ t.removedSize \in Nat
    BY DEF Totals
  <1>3. CASE r.op = "register"
    <2>1. /\ Counted(t, r).addedSize = t.addedSize + Size[r.blob]
          /\ Counted(t, r).removedSize = t.removedSize
      BY <1>3 DEF Counted, Totals
    <2>2. QED
      BY <1>1, <1>2, <1>3, <2>1 DEF Balance, Delta
  <1>4. CASE r.op = "deregister"
    <2>1. /\ Counted(t, r).removedSize = t.removedSize + Size[r.blob]
          /\ Counted(t, r).addedSize = t.addedSize
      BY <1>4 DEF Counted, Totals
    <2>2. QED
      BY <1>1, <1>2, <1>4, <2>1 DEF Balance, Delta
  <1>5. QED
    BY <1>1, <1>3, <1>4

(* A transaction adds one request to those that have yet to count.         *)
LEMMA TransactBalanced ==
    ASSUME TypeOK, TypeOK', FiniteTables, NEW r \in Requests, Transacts(r),
           NEW rs \in SUBSET Requests, IsFiniteSet(rs), r \notin rs
    PROVE  /\ SpaceBalanced(rs) => SpaceBalanced(rs \union {r})'
           /\ AdminBalanced(rs) => AdminBalanced(rs \union {r})'
  <1>1. FiniteTables' /\ \A s \in Space : SizeHeld(s)' = SizeHeld(s) + Goes(r, s)
    BY TransactMovesSize
  <1>2. spaceMetrics' = spaceMetrics /\ adminMetrics' = adminMetrics
    BY DEF Transacts, Transact, metrics
  <1>3. \A s \in Space : Balance(spaceMetrics[s]) \in Int
    BY CountedBalance DEF TypeOK
  <1>4. Balance(adminMetrics) \in Int /\ Delta(r) \in Int
    BY CountedBalance, RequestType DEF TypeOK, Delta
  <1>5. ASSUME SpaceBalanced(rs)
        PROVE  SpaceBalanced(rs \union {r})'
    <2> SUFFICES ASSUME NEW s \in Space
                 PROVE  Balance(spaceMetrics'[s]) + Change(In(s, rs \union {r})) = SizeHeld(s)'
      BY DEF SpaceBalanced
    <2>1. Balance(spaceMetrics[s]) + Change(In(s, rs)) = SizeHeld(s)
      BY <1>5 DEF SpaceBalanced
    <2>2. Change(In(s, rs)) \in Int /\ Change(In(s, rs \union {r})) = Change(In(s, rs)) + Goes(r, s)
      BY InWith
    <2>3. Goes(r, s) \in Int
      BY <1>4 DEF Goes
    <2>4. QED
      BY <1>1, <1>2, <1>3, <2>1, <2>2, <2>3
  <1>6. TotalHeld' = TotalHeld + Delta(r)
    <2> DEFINE before == [s \in Space |-> SizeHeld(s)]
               after == [s \in Space |-> SizeHeld(s)']
    <2>1. before \in [Space -> Int] /\ after \in [Space -> Int]
      <3>1. \A s \in Space : SizeHeld(s) \in Int /\ SizeHeld(s)' \in Int
        BY <1>1, <1>4, SizeHeldType DEF Goes
      <3>2. QED
        BY <3>1
    <2>2. r.space \in Space /\ IsFiniteSet(Space)
      BY RequestType, RegistryAssumption
    <2>3. \A s \in Space \ {r.space} : after[s] = before[s]
      <3>1. \A s \in Space \ {r.space} : SizeHeld(s)' = SizeHeld(s)
        BY <1>1, SizeHeldType DEF Goes
      <3>2. QED
        BY <3>1
    <2>4. after[r.space] = before[r.space] + Delta(r)
      BY <1>1, <2>2 DEF Goes
    <2>5. SumFunction(before) \in Int /\ before[r.space] \in Int
      BY <2>1, <2>2, TotalType
    <2>6. TotalHeld = SumFunction(before) /\ TotalHeld' = SumFunction(after)
      BY DEF TotalHeld
    <2> HIDE DEF before, after
    <2>7. SumFunction(after) = SumFunction(before) + after[r.space] - before[r.space]
      BY <2>1, <2>2, <2>3, TotalMoves
    <2>8. QED
      BY <1>4, <2>4, <2>5, <2>6, <2>7
  <1>7. ASSUME AdminBalanced(rs)
        PROVE  AdminBalanced(rs \union {r})'
    <2>1. Balance(adminMetrics) + Change(rs) = TotalHeld
      BY <1>7 DEF AdminBalanced
    <2>2. Change(rs) \in Int /\ Change(rs \union {r}) = Change(rs) + Delta(r)
      BY ChangeType, ChangeWith
    <2>3. Balance(adminMetrics') + Change(rs \union {r}) = TotalHeld'
      BY <1>2, <1>4, <1>6, <2>1, <2>2
    <2>4. QED
      BY <2>3 DEF AdminBalanced
  <1>8. QED
    BY <1>5, <1>7

(* Counting a request takes it from those that have yet to.                *)
LEMMA CountSpaceBalanced ==
    ASSUME TypeOK, NEW r \in Requests, CountSpace(r), UNCHANGED registry,
           NEW rs \in SUBSET Requests, IsFiniteSet(rs), r \notin rs, SpaceBalanced(rs \union {r})
    PROVE  SpaceBalanced(rs)'
  <1> SUFFICES ASSUME NEW s \in Space
               PROVE  Balance(spaceMetrics'[s]) + Change(In(s, rs)) = SizeHeld(s)'
    BY DEF SpaceBalanced
  <1>1. SizeHeld(s)' = SizeHeld(s)
    BY DEF SizeHeld, Held
  <1>2. Balance(spaceMetrics[s]) + Change(In(s, rs \union {r})) = SizeHeld(s)
    BY DEF SpaceBalanced
  <1>3. Change(In(s, rs)) \in Int /\ Change(In(s, rs \union {r})) = Change(In(s, rs)) + Goes(r, s)
    BY InWith
  <1>4. spaceMetrics[s] \in Totals
    BY DEF TypeOK
  <1>5. Balance(spaceMetrics[s]) \in Int /\ Delta(r) \in Int
    BY <1>4, CountedBalance, RequestType DEF Delta
  <1>6. Balance(spaceMetrics'[s]) = Balance(spaceMetrics[s]) + Goes(r, s)
    <2>1. CASE r.space = s
      <3>1. spaceMetrics'[s] = Counted(spaceMetrics[s], r)
        BY <2>1 DEF CountSpace, TypeOK
      <3>2. QED
        BY <1>4, <2>1, <3>1, CountedBalance DEF Goes
    <2>2. CASE r.space # s
      <3>1. spaceMetrics'[s] = spaceMetrics[s]
        BY <2>2 DEF CountSpace, TypeOK
      <3>2. QED
        BY <1>5, <2>2, <3>1 DEF Goes
    <2>3. QED
      BY <2>1, <2>2
  <1>7. Goes(r, s) \in Int
    BY <1>5 DEF Goes
  <1>8. QED
    BY <1>1, <1>2, <1>3, <1>5, <1>6, <1>7

LEMMA CountAdminBalanced ==
    ASSUME TypeOK, NEW r \in Requests, CountAdmin(r), UNCHANGED registry,
           NEW rs \in SUBSET Requests, IsFiniteSet(rs), r \notin rs, AdminBalanced(rs \union {r})
    PROVE  AdminBalanced(rs)'
  <1>1. TotalHeld' = TotalHeld
    BY DEF TotalHeld, SizeHeld, Held
  <1>2. Balance(adminMetrics) + Change(rs \union {r}) = TotalHeld
    BY DEF AdminBalanced
  <1>3. Change(rs) \in Int /\ Change(rs \union {r}) = Change(rs) + Delta(r)
    BY ChangeType, ChangeWith
  <1>4. adminMetrics \in Totals /\ Delta(r) \in Int
    BY RequestType DEF TypeOK, Delta
  <1>5. Balance(adminMetrics) \in Int /\ Balance(adminMetrics') = Balance(adminMetrics) + Delta(r)
    BY <1>4, CountedBalance DEF CountAdmin
  <1>6. Balance(adminMetrics') + Change(rs) = TotalHeld'
    BY <1>1, <1>2, <1>3, <1>4, <1>5
  <1>7. QED
    BY <1>6 DEF AdminBalanced


LEMMA Rebalanced ==
    ASSUME NEW rs, NEW missed, ToCount' \union missed = rs
    PROVE  /\ SpaceBalanced(rs)' => SpaceBalanced(ToCount \union missed)'
           /\ AdminBalanced(rs)' => AdminBalanced(ToCount \union missed)'
  BY DEF SpaceBalanced, AdminBalanced

(* What moving on does to the two sets of requests.                         *)
LEMMA ToCountMoves ==
    ASSUME TypeOK, NEW r \in Requests, NEW step \in Pc, GoTo(r, step)
    PROVE  /\ ToCount' = IF step = "metrics" THEN ToCount \union {r} ELSE ToCount \ {r}
           /\ Failed' = IF step = "error" THEN Failed \union {r} ELSE Failed \ {r}
  <1>1. \A q \in Requests : pc'[q] = IF q = r THEN step ELSE pc[q]
    BY DEF GoTo, TypeOK
  <1>2. QED
    BY <1>1 DEF ToCount, Failed

LEMMA FiniteMissing ==
    ASSUME NEW a, NEW b, IsFiniteSet(a \union b), IsFiniteSet(ToCount)
    PROVE  IsFiniteSet(ToCount \union a) /\ IsFiniteSet(ToCount \union b)
  <1>1. IsFiniteSet(a) /\ IsFiniteSet(b)
    BY FS_Subset
  <1>2. QED
    BY <1>1, FS_Union

(* A request that changed nothing, or had yet to: the sets stay.           *)
LEMMA PassesBy ==
    ASSUME TypeOK, MetricsInv, NEW r \in Requests, NEW step \in Pc \ {"metrics"}, GoTo(r, step),
           pc[r] \notin {"metrics", "error"}, UNCHANGED <<registry, metrics>>, faults' >= faults,
           faults' \in Nat
    PROVE  MetricsInv'
  <1>1. ToCount' = ToCount /\ Failed \subseteq Failed'
    BY ToCountMoves DEF ToCount, Failed
  <1>2. PICK sm \in SUBSET Failed, am \in SUBSET Failed : Missing(sm, am)
    BY DEF MetricsInv
  <1>3. UNCHANGED <<registry, spaceMetrics, adminMetrics>>
    BY DEF metrics
  <1>4. SpaceBalanced(ToCount \union sm)' /\ AdminBalanced(ToCount \union am)'
    BY <1>1, <1>2, <1>3 DEF Missing, SpaceBalanced, AdminBalanced, TotalHeld, SizeHeld, Held
  <1>5. faults \in Nat /\ Cardinality(sm \union am) \in Nat
    BY <1>2, FS_CardinalityType, RegistryAssumption DEF TypeOK, Missing
  <1>6. Cardinality(sm \union am) <= faults'
    BY <1>2, <1>5 DEF Missing
  <1>7. sm \in SUBSET Failed' /\ am \in SUBSET Failed'
    BY <1>1
  <1>8. Missing(sm, am)'
    BY <1>2, <1>4, <1>6, <1>7 DEF Missing
  <1>9. FiniteTables' /\ IsFiniteSet(ToCount')
    BY <1>1, <1>3, RegistryStays DEF MetricsInv
  <1>10. QED
    BY <1>7, <1>8, <1>9 DEF MetricsInv

(* A request that is counted, in both stores or in one, or in none as it   *)
(* stops: it then is one of those that are missing.                        *)
LEMMA CountsOrMisses ==
    ASSUME TypeOK, MetricsInv, NEW r \in Requests, pc[r] = "metrics",
           NEW step \in {"ok", "error"}, GoTo(r, step), UNCHANGED registry,
           CountSpace(r) \/ UNCHANGED spaceMetrics,
           CountAdmin(r) \/ UNCHANGED adminMetrics,
           \/ CountSpace(r) /\ CountAdmin(r) /\ faults' = faults
           \/ step = "error" /\ faults' = faults + 1
    PROVE  MetricsInv'
  <1>1. PICK sm \in SUBSET Failed, am \in SUBSET Failed : Missing(sm, am)
    BY DEF MetricsInv
  <1>2. /\ ToCount' = ToCount \ {r} /\ r \in ToCount /\ r \notin Failed
        /\ Failed' = IF step = "error" THEN Failed \union {r} ELSE Failed
    BY ToCountMoves DEF Pc, Answer, ToCount, Failed
  <1>3. FiniteTables' /\ IsFiniteSet(ToCount')
    BY <1>2, RegistryStays, FS_Subset DEF MetricsInv
  <1>4. faults \in Nat /\ Cardinality(sm \union am) \in Nat
    BY <1>1, FS_CardinalityType, RegistryAssumption DEF TypeOK, Missing
  <1>5. ToCount \in SUBSET Requests /\ Failed \in SUBSET Requests
    BY DEF ToCount, Failed
  <1>6. /\ IsFiniteSet(ToCount' \union sm) /\ IsFiniteSet(ToCount' \union am)
    <2>1. IsFiniteSet(ToCount \union sm) /\ IsFiniteSet(ToCount \union am)
      BY <1>1, FiniteMissing DEF MetricsInv, Missing
    <2>2. ToCount' \union sm \in SUBSET (ToCount \union sm) /\ ToCount' \union am \in SUBSET (ToCount \union am)
      BY <1>2
    <2>3. QED
      BY <2>1, <2>2, FS_Subset
  <1>7. PICK ss, as : ss = ToCount' \union sm /\ as = ToCount' \union am
    OBVIOUS
  <1>8. /\ ss \in SUBSET Requests /\ IsFiniteSet(ss) /\ r \notin ss
        /\ as \in SUBSET Requests /\ IsFiniteSet(as) /\ r \notin as
    BY <1>1, <1>2, <1>5, <1>6, <1>7
  <1>9. ToCount \union sm = ss \union {r} /\ ToCount \union am = as \union {r}
    BY <1>2, <1>7
  <1>10. SpaceBalanced(ss \union {r}) /\ AdminBalanced(as \union {r})
    BY <1>1, <1>9 DEF Missing, SpaceBalanced, AdminBalanced
  <1>11. CountSpace(r) => SpaceBalanced(ToCount \union sm)'
    BY <1>7, <1>8, <1>10, CountSpaceBalanced, Rebalanced
  <1>12. CountAdmin(r) => AdminBalanced(ToCount \union am)'
    BY <1>7, <1>8, <1>10, CountAdminBalanced, Rebalanced
  <1>13. CASE CountSpace(r) /\ CountAdmin(r) /\ faults' = faults
    <2>1. sm \in SUBSET Failed' /\ am \in SUBSET Failed'
      BY <1>2
    <2>2. Missing(sm, am)'
      BY <1>1, <1>11, <1>12, <1>13, <2>1 DEF Missing
    <2>3. QED
      BY <1>3, <2>1, <2>2 DEF MetricsInv
  <1>14. CASE step = "error" /\ faults' = faults + 1
    <2>1. PICK sn, an : /\ sn = IF CountSpace(r) THEN sm ELSE sm \union {r}
                        /\ an = IF CountAdmin(r) THEN am ELSE am \union {r}
      OBVIOUS
    <2>2. sn \in SUBSET Failed' /\ an \in SUBSET Failed'
      BY <1>2, <1>14, <2>1
    <2>3. SpaceBalanced(ToCount \union sn)'
      <3>1. CASE CountSpace(r)
        BY <1>11, <2>1, <3>1
      <3>2. CASE ~CountSpace(r)
        <4>1. SpaceBalanced(ss \union {r})'
          BY <1>10, <3>2 DEF SpaceBalanced, SizeHeld, Held
        <4>2. ToCount' \union sn = ss \union {r}
          BY <1>2, <1>7, <2>1, <3>2
        <4>3. QED
          BY <4>1, <4>2, Rebalanced
      <3>3. QED
        BY <3>1, <3>2
    <2>4. AdminBalanced(ToCount \union an)'
      <3>1. CASE CountAdmin(r)
        BY <1>12, <2>1, <3>1
      <3>2. CASE ~CountAdmin(r)
        <4>1. AdminBalanced(as \union {r})'
          BY <1>10, <3>2 DEF AdminBalanced, TotalHeld, SizeHeld, Held
        <4>2. ToCount' \union an = as \union {r}
          BY <1>2, <1>7, <2>1, <3>2
        <4>3. QED
          BY <4>1, <4>2, Rebalanced
      <3>3. QED
        BY <3>1, <3>2
    <2>5. IsFiniteSet(sn \union an) /\ Cardinality(sn \union an) <= faults'
      <3>1. sn \union an \in SUBSET ((sm \union am) \union {r})
        BY <2>1
      <3>2. IsFiniteSet(sm \union am) /\ Cardinality(sm \union am) <= faults
        BY <1>1 DEF Missing
      <3>3. /\ IsFiniteSet((sm \union am) \union {r})
            /\ Cardinality((sm \union am) \union {r}) <= Cardinality(sm \union am) + 1
        <4>1. PICK missed : missed = sm \union am
          OBVIOUS
        <4>2. /\ IsFiniteSet(missed \union {r})
              /\ Cardinality(missed \union {r}) \in {Cardinality(missed), Cardinality(missed) + 1}
          BY <3>2, <4>1, FS_AddElement
        <4>3. Cardinality(missed) \in Nat
          BY <1>4, <4>1
        <4>4. Cardinality(missed \union {r}) <= Cardinality(missed) + 1
          BY <4>2, <4>3
        <4>5. QED
          BY <4>1, <4>2, <4>4
      <3>4. /\ IsFiniteSet(sn \union an) /\ Cardinality(sn \union an) \in Nat
            /\ Cardinality((sm \union am) \union {r}) \in Nat
            /\ Cardinality(sn \union an) <= Cardinality((sm \union am) \union {r})
        BY <3>1, <3>3, FS_Subset, FS_CardinalityType
      <3>5. QED
        BY <1>4, <1>14, <3>2, <3>3, <3>4
    <2>6. Missing(sn, an)'
      BY <2>2, <2>3, <2>4, <2>5 DEF Missing
    <2>7. QED
      BY <1>3, <2>2, <2>6 DEF MetricsInv
  <1>15. QED
    BY <1>13, <1>14

LEMMA MetricsInvStep ==
    ASSUME TypeOK, TypeOK', MetricsInv, NEW r \in Requests, Step(r) \/ Failure(r)
    PROVE  MetricsInv'
  <1>1. faults \in Nat /\ faults' \in Nat
    BY RegistryAssumption DEF TypeOK
  <1>2. CASE Start(r)
    <2>1. PICK step \in {"lookup", "exists", "get", "notFound"} : GoTo(r, step)
      BY <1>2 DEF Start, PutAllocation, DeleteAllocation
    <2>2. QED
      BY <1>1, <1>2, <2>1, PassesBy DEF Start, Pc, Answer
  <1>3. CASE GetItem(r)
    <2>1. PICK step \in {"lookup", "error"} : GoTo(r, step)
      BY <1>3 DEF GetItem
    <2>2. QED
      BY <1>1, <1>3, <2>1, PassesBy DEF GetItem, Pc, Answer, tables
  <1>4. CASE LookupCause(r)
    BY <1>1, <1>4, PassesBy DEF LookupCause, Pc, Answer, tables
  <1>5. CASE MissCause(r)
    BY <1>1, <1>5, PassesBy DEF MissCause, Pc, Answer, tables
  <1>6. CASE Transact(r) /\ ~ConditionHolds(r)
    BY <1>1, <1>6, PassesBy DEF Transact, Pc, Answer
  <1>7. CASE Transacts(r)
    <2>1. /\ pc[r] = "transact" /\ GoTo(r, "metrics") /\ faults' = faults
      BY <1>7 DEF Transacts, Transact
    <2>2. /\ ToCount' = ToCount \union {r} /\ Failed' = Failed
          /\ r \notin ToCount /\ r \notin Failed
      BY <2>1, ToCountMoves DEF Pc, ToCount, Failed
    <2>3. PICK sm \in SUBSET Failed, am \in SUBSET Failed : Missing(sm, am)
      BY DEF MetricsInv
    <2>4. IsFiniteSet(ToCount \union sm) /\ IsFiniteSet(ToCount \union am)
      BY <2>3, FiniteMissing DEF MetricsInv, Missing
    <2>5. PICK ss, as : ss = ToCount \union sm /\ as = ToCount \union am
      OBVIOUS
    <2>6. /\ ss \in SUBSET Requests /\ IsFiniteSet(ss) /\ r \notin ss
          /\ as \in SUBSET Requests /\ IsFiniteSet(as) /\ r \notin as
      BY <2>2, <2>3, <2>4, <2>5 DEF ToCount, Failed
    <2>7. SpaceBalanced(ss) /\ AdminBalanced(as)
      BY <2>3, <2>5 DEF Missing
    <2>8. SpaceBalanced(ss \union {r})' /\ AdminBalanced(as \union {r})'
      BY <1>7, <2>6, <2>7, TransactBalanced DEF MetricsInv
    <2>9. ToCount' \union sm = ss \union {r} /\ ToCount' \union am = as \union {r}
      BY <2>2, <2>5
    <2>10. SpaceBalanced(ToCount \union sm)' /\ AdminBalanced(ToCount \union am)'
      BY <2>8, <2>9, Rebalanced
    <2>11. Missing(sm, am)'
      BY <2>1, <2>2, <2>3, <2>10 DEF Missing
    <2>12. FiniteTables' /\ IsFiniteSet(ToCount')
      BY <1>7, <2>2, TransactMovesSize, FS_AddElement DEF MetricsInv
    <2>13. sm \in SUBSET Failed' /\ am \in SUBSET Failed'
      BY <2>2
    <2>14. QED
      BY <2>11, <2>12, <2>13 DEF MetricsInv
  <1>8. CASE Metrics(r)
    BY <1>8, CountsOrMisses DEF Metrics, tables
  <1>9. CASE MetricsFail(r)
    BY <1>9, CountsOrMisses DEF MetricsFail, tables
  <1>10. CASE Stop(r) /\ pc[r] = "metrics"
    BY <1>10, CountsOrMisses DEF Stop, tables, metrics
  <1>11. CASE Stop(r) /\ pc[r] # "metrics"
    BY <1>1, <1>11, PassesBy DEF Stop, Pc, Answer, UnderWay, tables
  <1>12. QED
    BY <1>2, <1>3, <1>4, <1>5, <1>6, <1>7, <1>8, <1>9, <1>10, <1>11 DEF Step, Failure, Transacts

(***************************************************************************)
(* The metrics count what is registered but for requests that have yet to  *)
(* count theirs, and for one request at most for each failure.             *)
(***************************************************************************)
THEOREM MetricsCountTheRegistry == Spec => []MetricsMatchRegistry
  <1>1. Init => MetricsInv
    <2> SUFFICES ASSUME Init PROVE MetricsInv
      OBVIOUS
    <2>1. ToCount = {} /\ Failed = {} /\ \A s : Held(s) = {}
      BY DEF Init, ToCount, Failed, Held
    <2>2. \A s : SizeHeld(s) = 0
      BY <2>1, TotalEmpty DEF SizeHeld
    <2>3. TotalHeld = 0
      <3> DEFINE none == [s \in Space |-> 0]
      <3>1. TotalHeld = SumFunction(none)
        BY <2>2 DEF TotalHeld
      <3>2. SumFunction(none) = 0
        BY TotalZero, RegistryAssumption
      <3>3. QED
        BY <3>1, <3>2
    <2>4. Balance(NoTotals) = 0 /\ Change({}) = 0
      BY TotalEmpty DEF Balance, NoTotals, Change
    <2>5. \A s : In(s, {}) = {}
      BY DEF In
    <2>6. SpaceBalanced({}) /\ AdminBalanced({})
      BY <2>2, <2>3, <2>4, <2>5 DEF Init, SpaceBalanced, AdminBalanced
    <2>7. IsFiniteSet({}) /\ Cardinality({}) = 0
      BY FS_EmptySet
    <2>8. faults = 0 /\ {} \in SUBSET Failed /\ {} \union {} = {} /\ ToCount \union {} = {}
      BY <2>1 DEF Init
    <2>9. Missing({}, {})
      BY <2>6, <2>7, <2>8 DEF Missing
    <2>10. QED
      BY <2>1, <2>7, <2>8, <2>9 DEF MetricsInv, FiniteTables
  <1>2. TypeOK /\ TypeOK' /\ MetricsInv /\ [Next]_vars => MetricsInv'
    <2> SUFFICES ASSUME TypeOK, TypeOK', MetricsInv, [Next]_vars PROVE MetricsInv'
      OBVIOUS
    <2>1. CASE UNCHANGED vars
      <3>1. UNCHANGED <<registry, spaceMetrics, adminMetrics, pc, faults>>
        BY <2>1 DEF vars, tables, metrics
      <3>2. ToCount' = ToCount /\ Failed' = Failed
        BY <3>1 DEF ToCount, Failed
      <3>3. FiniteTables'
        BY <3>1, RegistryStays DEF MetricsInv
      <3>4. PICK sm \in SUBSET Failed, am \in SUBSET Failed : Missing(sm, am)
        BY DEF MetricsInv
      <3>5. SpaceBalanced(ToCount \union sm)' /\ AdminBalanced(ToCount \union am)'
        BY <3>1, <3>2, <3>4 DEF Missing, SpaceBalanced, AdminBalanced, TotalHeld, SizeHeld, Held
      <3>6. Missing(sm, am)'
        BY <3>1, <3>2, <3>4, <3>5 DEF Missing
      <3>7. QED
        BY <3>2, <3>3, <3>6 DEF MetricsInv
    <2>2. QED
      BY <2>1, MetricsInvStep DEF Next
  <1>3. MetricsInv => MetricsMatchRegistry
    BY DEF MetricsInv, Missing, MetricsMatchRegistry, SpaceBalanced, AdminBalanced, TotalHeld
  <1>4. QED
    BY <1>1, <1>2, <1>3, TypeCorrect, PTL DEF Spec

=============================================================================
