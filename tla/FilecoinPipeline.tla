--------------------------- MODULE FilecoinPipeline ---------------------------
(***************************************************************************)
(* The Filecoin pipeline of the storefront. A CAR put in the bucket has    *)
(* its piece computed and offered (filecoin/offer), as a client may offer  *)
(* it as well; the piece is checked against its content and put in the     *)
(* piece table; the table's stream publishes an equals claim and submits   *)
(* the piece (filecoin/submit), which is offered to the aggregator; a cron *)
(* reads the pieces submitted, and those the aggregator has answered are   *)
(* updated; the stream announces that (filecoin/accept).                   *)
(*                                                                         *)
(* Queues receive a message up to MaxReceive times, but a handler that     *)
(* meets an error answers with a status 500 and does not throw: its        *)
(* message is deleted, its stream record passed. What such a handler was   *)
(* about is noted in dropped. Only an invocation that dies is retried.     *)
(* What the handlers call is in the package @storacha/filecoin-api.        *)
(***************************************************************************)
EXTENDS Integers, FiniteSets, Sequences

CONSTANTS
    Piece,      \* pieces, each with one content
    Cars,       \* pieces whose CAR is put in the bucket
    Mismatched, \* pieces that are not what their content computes to
    Copies,     \* for each piece, bound on the offers a client makes
    Tick,       \* runs of the cron that may overlap
    PageSize,   \* pieces in a page of the cron
    MaxReceive, \* maxReceiveCount of the queues
    Scenarios   \* of which a behaviour has one: pieces that are put, the kinds of
                \* failure it may meet, and the most of them

\* error: a call of a handler fails, with or without effect. die: an invocation
\* dies. throw: the indexer cannot be queried. expire: the stream drops a record.
\* event: the bus takes no event. tick: a run of the cron fails.
FaultKind == {"error", "die", "throw", "expire", "event", "tick"}

ASSUME PipelineAssumption ==
    /\ Piece \subseteq Nat \ {0}
    /\ Cars \subseteq Piece
    /\ Mismatched \subseteq Piece \ Cars
    /\ Copies \in [Piece -> Nat]
    /\ PageSize \in Nat \ {0} /\ MaxReceive \in Nat \ {0}
    /\ Scenarios \subseteq [pieces : SUBSET Piece, faults : SUBSET FaultKind, most : Nat]

VARIABLES
    scenario,  \* the scenario of the behaviour
    stored,    \* pieces whose CAR is in the bucket
    messages,  \* messages on the queues or being handled
    dlq,       \* messages in the dead letter queues
    made,      \* messages sent so far, by queue and piece
    pieces,    \* the piece table
    clock,     \* the time of the last put
    stream,    \* changes of the piece table
    at,        \* for each consumer, the records it has passed
    looked,    \* whether the one that claims has found no claim, and is to publish one
    claims,    \* equals claims published, by piece
    offered,   \* pieces offered to the aggregator
    answer,    \* the receipts of the aggregator, by piece
    announced, \* filecoin/accept invocations
    tick,      \* the runs of the cron
    dropped,   \* what handlers gave up, by stage and piece
    faults     \* failures injected so far

queues == <<messages, dlq, made>>
table == <<pieces, clock, stream>>
position == <<at, looked>>
external == <<claims, offered, answer, announced>>
vars == <<scenario, stored, queues, table, position, external, tick, dropped, faults>>

Queue == {"compute", "submit", "offer"}

Consumer == {"claim", "submitInsert", "status"}

Stage == Queue \union Consumer \union {"event"}

Stat == {"submitted", "accepted", "invalid"}

Absent == [stat |-> "none", at |-> 0]

\* A run of the cron between two ticks.
Resting == [pc |-> "rest", cursor |-> 0, page |-> {}, more |-> FALSE]

Init ==
    /\ scenario \in Scenarios
    /\ stored = {}
    /\ messages = {} /\ dlq = {} /\ made = [q \in Queue |-> [p \in Piece |-> 0]]
    /\ pieces = [p \in Piece |-> Absent] /\ clock = 0 /\ stream = <<>>
    /\ at = [c \in Consumer |-> 0] /\ looked = FALSE
    /\ claims = [p \in Piece |-> 0] /\ offered = {}
    /\ answer = [p \in Piece |-> "none"] /\ announced = {}
    /\ tick = [t \in Tick |-> Resting]
    /\ dropped = {}
    /\ faults = 0

Fails(kind) == kind \in scenario.faults /\ faults < scenario.most /\ faults' = faults + 1

Known(p) == pieces[p] # Absent

Drop(stage, p) == dropped' = dropped \union {[stage |-> stage, piece |-> p]}

-----------------------------------------------------------------------------
\* A message as a queue takes it: receives counts the invocations that died with
\* it, step is "put" between the check of a piece and its put.
NewMessage(q, p) ==
    [to |-> q, piece |-> p, nth |-> made[q][p] + 1, receives |-> 0, step |-> "visible"]

Sent(q, p) == made' = [made EXCEPT ![q][p] = @ + 1]

\* A CAR is put in the bucket, and the bus takes the event, or the consumer does
\* not see that it does not: the answer of putEvents is not looked at.
StoreCar(p) ==
    /\ p \in (Cars \intersect scenario.pieces) \ stored
    /\ stored' = stored \union {p}
    /\ \/ /\ messages' = messages \union {NewMessage("compute", p)} /\ Sent("compute", p)
          /\ UNCHANGED <<dropped, faults>>
       \/ /\ Fails("event") /\ Drop("event", p)
          /\ UNCHANGED <<messages, made>>
    /\ UNCHANGED <<scenario, dlq, table, position, external, tick>>

\* The service queues an offer of a piece it does not know.
Offered(p) == IF Known(p) THEN {} ELSE {NewMessage("submit", p)}

ClientOffer(p) ==
    /\ p \in scenario.pieces /\ made["submit"][p] < Copies[p]
    /\ ~Known(p)
    /\ messages' = messages \union Offered(p)
    /\ Sent("submit", p)
    /\ UNCHANGED <<scenario, stored, dlq, table, position, external, tick, dropped, faults>>

\* The piece of the CAR is computed and offered.
ComputePiece(m) ==
    /\ m.to = "compute"
    /\ messages' = (messages \ {m}) \union Offered(m.piece)
    /\ IF Known(m.piece) THEN UNCHANGED made ELSE Sent("submit", m.piece)
    /\ UNCHANGED <<scenario, stored, dlq, table, position, external, tick, dropped, faults>>

\* handleFilecoinSubmitMessage: a piece that is known is done with. Another is
\* compared with its content, and put.
CheckPiece(m) ==
    /\ m.to = "submit" /\ m.step = "visible"
    /\ messages' = (messages \ {m}) \union
           (IF Known(m.piece) \/ m.piece \in Mismatched THEN {} ELSE {[m EXCEPT !.step = "put"]})
    /\ IF ~Known(m.piece) /\ m.piece \in Mismatched THEN Drop("submit", m.piece)
                                                    ELSE UNCHANGED dropped
    /\ UNCHANGED <<scenario, stored, dlq, made, table, position, external, tick, faults>>

\* A change of the table, as its stream has it.
Change(p, kind, stat) == [piece |-> p, kind |-> kind, stat |-> stat]

\* The put has no condition: it makes what the piece has become submitted again.
Put(p) ==
    /\ clock' = clock + 1
    /\ pieces' = [pieces EXCEPT ![p] = [stat |-> "submitted", at |-> clock']]
    /\ stream' = Append(stream, Change(p, IF Known(p) THEN "MODIFY" ELSE "INSERT", "submitted"))

PutPiece(m) ==
    /\ m.to = "submit" /\ m.step = "put"
    /\ Put(m.piece)
    /\ messages' = messages \ {m}
    /\ UNCHANGED <<scenario, stored, dlq, made, position, external, tick, dropped, faults>>

\* The piece is offered to the aggregator.
OfferPiece(m) ==
    /\ m.to = "offer"
    /\ offered' = offered \union {m.piece}
    /\ messages' = messages \ {m}
    /\ UNCHANGED <<scenario, stored, dlq, made, table, position, claims, answer, announced, tick, dropped, faults>>

\* What a handler has done, when it meets an error or dies: its call failed without
\* effect, or with it.
Effected(m, rest) ==
    \/ messages' = rest /\ UNCHANGED <<made, table, offered>>
    \/ /\ m.to = "compute" /\ ~Known(m.piece)
       /\ messages' = rest \union Offered(m.piece) /\ Sent("submit", m.piece)
       /\ UNCHANGED <<table, offered>>
    \/ m.step = "put" /\ Put(m.piece) /\ messages' = rest /\ UNCHANGED <<made, offered>>
    \/ /\ m.to = "offer" /\ offered' = offered \union {m.piece}
       /\ messages' = rest /\ UNCHANGED <<made, table>>

\* A handler that meets an error answers, and its message is deleted.
HandlerErrs(m) ==
    /\ Fails("error")
    /\ Effected(m, messages \ {m})
    /\ Drop(m.to, m.piece)
    /\ UNCHANGED <<scenario, stored, dlq, position, claims, answer, announced, tick>>

\* Slip: the message of an invocation that dies is deleted.
ReturnedNever(m) == {}

\* Whether a message has been received as often as its queue allows.
Spent(m) == m.receives + 1 = MaxReceive

\* What is visible again of the message of an invocation that dies.
Returned(m) ==
    IF Spent(m) THEN {} ELSE {[m EXCEPT !.step = "visible", !.receives = @ + 1]}

HandlerDies(m) ==
    /\ Fails("die")
    /\ Effected(m, (messages \ {m}) \union Returned(m))
    /\ dlq' = IF Spent(m) THEN dlq \union {m} ELSE dlq
    /\ UNCHANGED <<scenario, stored, position, claims, answer, announced, tick, dropped>>

-----------------------------------------------------------------------------
\* Slips: the status consumer takes any change; or those of accepted pieces only.
ConcernsAnyChange(c, r) == IF c = "status" THEN r.kind = "MODIFY" ELSE r.kind = "INSERT"
ConcernsAccepted(c, r) == IF c = "status" THEN r.stat = "accepted" ELSE r.kind = "INSERT"

\* The records a consumer is invoked for.
Concerns(c, r) == IF c = "status" THEN r.stat # "submitted" ELSE r.kind = "INSERT"

\* The record a consumer is at, and the position after it. Those before it are no
\* concern of its.
Heads(c) ==
    {i \in at[c] + 1 .. Len(stream) :
        Concerns(c, stream[i]) /\ \A j \in at[c] + 1 .. i - 1 : ~Concerns(c, stream[j])}

Pass(c, i) == at' = [at EXCEPT ![c] = i]

\* Slip: any claim is taken for an equals claim.
ClaimSeenAlways(p) == {TRUE}

\* Whether an equals claim is seen among the claims the indexer answers with. One that
\* was published may not be: it went to the legacy service, the indexer has yet to
\* take it in, or a location claim that names a space comes first, behind which no
\* claim is looked at.
ClaimSeen(p) == IF claims[p] = 0 THEN {FALSE} ELSE BOOLEAN

QueryClaims ==
    \E i \in Heads("claim") : \E seen \in ClaimSeen(stream[i].piece) :
        /\ ~looked
        /\ IF seen THEN Pass("claim", i) /\ UNCHANGED looked ELSE looked' = TRUE /\ UNCHANGED at
        /\ UNCHANGED <<scenario, stored, queues, table, external, tick, dropped, faults>>

PublishClaim ==
    \E i \in Heads("claim") :
        /\ looked /\ looked' = FALSE
        /\ claims' = [claims EXCEPT ![stream[i].piece] = @ + 1]
        /\ Pass("claim", i)
        /\ UNCHANGED <<scenario, stored, queues, table, offered, answer, announced, tick, dropped, faults>>

\* filecoin/submit puts the piece on the offer queue.
SubmitPiece ==
    \E i \in Heads("submitInsert") :
        /\ messages' = messages \union {NewMessage("offer", stream[i].piece)}
        /\ Sent("offer", stream[i].piece)
        /\ Pass("submitInsert", i)
        /\ UNCHANGED <<looked, scenario, stored, dlq, table, external, tick, dropped, faults>>

Announce(r) == announced' = announced \union {[piece |-> r.piece, stat |-> r.stat]}

\* A status other than submitted is announced as filecoin/accept.
AnnouncePiece ==
    \E i \in Heads("status") :
        /\ Announce(stream[i])
        /\ Pass("status", i)
        /\ UNCHANGED <<looked, scenario, stored, queues, table, claims, offered, answer, tick, dropped, faults>>

\* The effect a consumer has, when its answer is an error or is lost.
Effect(c, r) ==
    \/ UNCHANGED <<messages, made, claims, announced>>
    \/ /\ c = "claim" /\ looked
       /\ claims' = [claims EXCEPT ![r.piece] = @ + 1]
       /\ UNCHANGED <<messages, made, announced>>
    \/ /\ c = "submitInsert"
       /\ messages' = messages \union {NewMessage("offer", r.piece)} /\ Sent("offer", r.piece)
       /\ UNCHANGED <<claims, announced>>
    \/ c = "status" /\ Announce(r) /\ UNCHANGED <<messages, made, claims>>

\* An invocation that ends leaves nothing behind of what it has looked at.
Forgets(c) == looked' = (looked /\ c # "claim")

\* The consumer answers with an error, and its record is passed. The query of claims
\* is not answered with one.
ConsumerErrs(c) ==
    \E i \in Heads(c) :
        /\ c = "claim" => looked
        /\ Fails("error")
        /\ Effect(c, stream[i])
        /\ Drop(c, stream[i].piece)
        /\ Pass(c, i) /\ Forgets(c)
        /\ UNCHANGED <<scenario, stored, dlq, table, offered, answer, tick>>

\* The consumer dies, or throws as the indexer cannot be queried: its record is
\* taken again, and those behind it wait.
ConsumerDies(c) ==
    \E i \in Heads(c) :
        /\ \/ Fails("die") /\ Effect(c, stream[i])
           \/ /\ c = "claim" /\ ~looked /\ Fails("throw")
              /\ UNCHANGED <<messages, made, claims, announced>>
        /\ Forgets(c)
        /\ UNCHANGED <<scenario, stored, dlq, table, at, offered, answer, tick, dropped>>

\* The stream drops a record after a day, however often it was taken.
Expire(c) ==
    \E i \in Heads(c) :
        /\ Fails("expire")
        /\ Drop(c, stream[i].piece)
        /\ Pass(c, i) /\ Forgets(c)
        /\ UNCHANGED <<scenario, stored, queues, table, external, tick>>

-----------------------------------------------------------------------------
\* The aggregator answers in its own time, with receipts in the agent store.
Answer(p) ==
    /\ p \in offered /\ answer[p] = "none"
    /\ \E a \in {"accepted", "invalid"} : answer' = [answer EXCEPT ![p] = a]
    /\ UNCHANGED <<scenario, stored, queues, table, position, claims, offered, announced, tick, dropped, faults>>

\* The index of pieces by status, in the order of their puts.
Submitted(after) == {p \in Piece : pieces[p].stat = "submitted" /\ pieces[p].at > after}

FirstOf(ps) ==
    {p \in ps : Cardinality({q \in ps : pieces[q].at < pieces[p].at}) < PageSize}

\* The cursor is the key of the last item read, and not a number of items.
CursorAfter(page) ==
    CHOOSE n \in {pieces[p].at : p \in page} : \A p \in page : pieces[p].at <= n

\* A page that is full has a cursor, even when it is the last.
TickPage(t) ==
    /\ \/ tick[t].pc = "rest"
       \/ tick[t].pc = "run" /\ tick[t].page = {} /\ tick[t].more
    /\ LET page == FirstOf(Submitted(tick[t].cursor))
           full == Cardinality(page) = PageSize
       IN  /\ page # {} \/ tick[t].pc = "run"
           /\ tick' = [tick EXCEPT ![t] =
                [pc |-> "run", page |-> page, more |-> full,
                 cursor |-> IF full THEN CursorAfter(page) ELSE 0]]
    /\ UNCHANGED <<scenario, stored, queues, table, position, external, dropped, faults>>

\* The pieces of a page are looked up at once, and those answered are updated,
\* whatever they have become.
TickPiece(t, p) ==
    /\ p \in tick[t].page
    /\ tick' = [tick EXCEPT ![t].page = @ \ {p}]
    /\ IF answer[p] = "none" THEN UNCHANGED table
       ELSE /\ pieces' = [pieces EXCEPT ![p].stat = answer[p]]
            /\ stream' = Append(stream, Change(p, "MODIFY", answer[p]))
            /\ UNCHANGED clock
    /\ UNCHANGED <<scenario, stored, queues, position, external, dropped, faults>>

TickEnd(t) ==
    /\ tick[t].pc = "run" /\ tick[t].page = {} /\ ~tick[t].more
    /\ tick' = [tick EXCEPT ![t] = Resting]
    /\ UNCHANGED <<scenario, stored, queues, table, position, external, dropped, faults>>

\* A run that meets an error, or dies, is over: the next starts anew.
TickFails(t) ==
    /\ tick[t].pc = "run"
    /\ Fails("tick")
    /\ tick' = [tick EXCEPT ![t] = Resting]
    /\ UNCHANGED <<scenario, stored, queues, table, position, external, dropped>>

-----------------------------------------------------------------------------
Handle(m) == ComputePiece(m) \/ CheckPiece(m) \/ PutPiece(m) \/ OfferPiece(m)

Consume == QueryClaims \/ PublishClaim \/ SubmitPiece \/ AnnouncePiece

Run(t) == TickPage(t) \/ (\E p \in Piece : TickPiece(t, p)) \/ TickEnd(t)

Next ==
    \/ \E p \in Piece : StoreCar(p) \/ ClientOffer(p) \/ Answer(p)
    \/ \E m \in messages : Handle(m) \/ HandlerErrs(m) \/ HandlerDies(m)
    \/ Consume \/ \E c \in Consumer : ConsumerErrs(c) \/ ConsumerDies(c) \/ Expire(c)
    \/ \E t \in Tick : Run(t) \/ TickFails(t)

Spec == Init /\ [][Next]_vars

\* Queues, stream and cron are served, and the aggregator answers. A run that has
\* begun goes on.
FairSpec ==
    /\ Spec
    /\ WF_vars(\E m \in messages : Handle(m))
    /\ WF_vars(Consume)
    /\ \A p \in Piece : WF_vars(Answer(p))
    /\ \A t \in Tick : WF_vars(Run(t))
=============================================================================
