----------------------- MODULE FilecoinPipeline_proofs -----------------------
(***************************************************************************)
(* Theorems about the Filecoin pipeline, for every set of pieces and CARs, *)
(* every page size, any number of overlapping runs of the cron and every   *)
(* bound on receives and failures.                                         *)
(***************************************************************************)
EXTENDS FilecoinPipelineProperties, SequenceTheorems, DataLemmas

Record == [piece : Piece, kind : {"INSERT", "MODIFY"}, stat : Stat]

\* Messages that were sent.
Counted == {m \in Message : m.nth <= made[m.to][m.piece]}

MessagesTyped ==
    /\ messages \subseteq Message
    /\ made \in [Queue -> [Piece -> Nat]]
    /\ \A m \in messages : m.nth <= made[m.to][m.piece]

TableTyped ==
    /\ clock \in Nat
    /\ pieces \in [Piece -> [stat : Stat, at : 1..clock] \union {Absent}]
    /\ stream \in Seq(Record)

\* What consumers and runs know of the table.
ReadersTyped ==
    /\ at \in [Consumer -> 0..Len(stream)]
    /\ tick \in [Tick -> [pc : {"rest", "run"}, cursor : 0..clock, page : SUBSET Piece, more : BOOLEAN]]

OthersTyped ==
    /\ scenario \in Scenarios /\ looked \in BOOLEAN
    /\ stored \subseteq Piece /\ dlq \subseteq Message
    /\ claims \in [Piece -> Nat] /\ offered \subseteq Piece
    /\ answer \in [Piece -> {"none", "accepted", "invalid"}]
    /\ announced \subseteq [piece : Piece, stat : {"accepted", "invalid"}]
    /\ dropped \subseteq [stage : Stage, piece : Piece]
    /\ faults \in 0..scenario.most

LEMMA TypeParts == TypeOK => MessagesTyped /\ TableTyped /\ ReadersTyped /\ OthersTyped
  BY DEF TypeOK, MessagesTyped, TableTyped, ReadersTyped, OthersTyped, Record

LEMMA PartsTyped == MessagesTyped' /\ TableTyped' /\ ReadersTyped' /\ OthersTyped' => TypeOK'
  BY DEF TypeOK, MessagesTyped, TableTyped, ReadersTyped, OthersTyped, Record

-----------------------------------------------------------------------------
(* Type correctness: what a send, a put of a piece and the effects of a     *)
(* handler that fails do to the types.                                      *)

LEMMA NewMessageType ==
    ASSUME TypeOK, NEW q \in Queue, NEW p \in Piece
    PROVE  /\ NewMessage(q, p) \in Message
           /\ NewMessage(q, p).to = q /\ NewMessage(q, p).piece = p
           /\ NewMessage(q, p).nth = made[q][p] + 1
  <1>1. made[q][p] + 1 \in Nat \ {0}
    BY DEF TypeOK
  <1>2. 0 \in 0..MaxReceive - 1
    BY PipelineAssumption
  <1>3. QED
    BY <1>1, <1>2 DEF NewMessage, Message

LEMMA MessagesCounted == TypeOK => messages \subseteq Counted
  BY DEF TypeOK, Counted

LEMMA SendType ==
    ASSUME TypeOK, NEW q \in Queue, NEW p \in Piece, Sent(q, p),
           messages' \subseteq Counted \union {NewMessage(q, p)}
    PROVE  MessagesTyped'
  <1>1. made' \in [Queue -> [Piece -> Nat]]
    BY DEF Sent, TypeOK
  <1>2. \A k \in Queue, x \in Piece :
          made'[k][x] = IF k = q /\ x = p THEN made[k][x] + 1 ELSE made[k][x]
    BY DEF Sent, TypeOK
  <1>3. ASSUME NEW m \in messages'
        PROVE  m \in Message /\ m.nth <= made'[m.to][m.piece]
    <2>1. CASE m \in Counted
      <3>1. m.to \in Queue /\ m.piece \in Piece /\ m.nth \in Nat /\ made[m.to][m.piece] \in Nat
        BY <2>1 DEF Counted, Message, TypeOK
      <3>2. QED
        BY <2>1, <3>1, <1>2 DEF Counted
    <2>2. CASE m = NewMessage(q, p)
      <3>1. made[q][p] \in Nat
        BY DEF TypeOK
      <3>2. QED
        BY <2>2, <3>1, <1>2, NewMessageType
    <2>3. QED
      BY <2>1, <2>2
  <1>4. QED
    BY <1>1, <1>3 DEF MessagesTyped

LEMMA NoSendType ==
    ASSUME TypeOK, UNCHANGED made, messages' \subseteq Counted
    PROVE  MessagesTyped'
  BY DEF TypeOK, Counted, MessagesTyped

LEMMA PutType ==
    ASSUME TypeOK, NEW p \in Piece, Put(p)
    PROVE  /\ TableTyped'
           /\ clock' = clock + 1
           /\ Len(stream') = Len(stream) + 1
           /\ \A i \in 1..Len(stream) : stream'[i] = stream[i]
           /\ stream'[Len(stream')] = Change(p, IF Known(p) THEN "MODIFY" ELSE "INSERT", "submitted")
           /\ at \in [Consumer -> 0..Len(stream')]
           /\ tick \in [Tick -> [pc : {"rest", "run"}, cursor : 0..clock', page : SUBSET Piece, more : BOOLEAN]]
  <1>1. clock \in Nat /\ clock' = clock + 1
    BY DEF TypeOK, Put
  <1>2. [stat |-> "submitted", at |-> clock'] \in [stat : Stat, at : 1..clock']
    BY <1>1 DEF Stat
  <1>3. [stat : Stat, at : 1..clock] \subseteq [stat : Stat, at : 1..clock']
    BY <1>1
  <1>4. pieces' \in [Piece -> [stat : Stat, at : 1..clock'] \union {Absent}]
    BY <1>2, <1>3 DEF Put, TypeOK
  <1>5. stream \in Seq(Record)
    BY DEF TypeOK, Record
  <1>6. Change(p, IF Known(p) THEN "MODIFY" ELSE "INSERT", "submitted") \in Record
    BY DEF Change, Record, Stat
  <1>7. /\ stream' \in Seq(Record) /\ Len(stream') = Len(stream) + 1
        /\ \A i \in 1..Len(stream) : stream'[i] = stream[i]
        /\ stream'[Len(stream')] = Change(p, IF Known(p) THEN "MODIFY" ELSE "INSERT", "submitted")
    BY <1>5, <1>6, AppendProperties DEF Put
  <1>8. at \in [Consumer -> 0..Len(stream')]
    BY <1>5, <1>7 DEF TypeOK
  <1>9. tick \in [Tick -> [pc : {"rest", "run"}, cursor : 0..clock', page : SUBSET Piece, more : BOOLEAN]]
    BY <1>1 DEF TypeOK
  <1>10. QED
    BY <1>1, <1>4, <1>7, <1>8, <1>9 DEF TableTyped
LEMMA OfferedType ==
    ASSUME TypeOK, NEW p \in Piece
    PROVE  Offered(p) \subseteq {NewMessage("submit", p)}
  BY DEF Offered

\* A change of the stream of a piece that a run updates.
LEMMA UpdateType ==
    ASSUME TypeOK, NEW p \in Piece, Known(p), answer[p] # "none",
           pieces' = [pieces EXCEPT ![p].stat = answer[p]],
           stream' = Append(stream, Change(p, "MODIFY", answer[p])), UNCHANGED clock
    PROVE  /\ TableTyped'
           /\ pieces'[p] # Absent
           /\ Len(stream') = Len(stream) + 1
           /\ \A i \in 1..Len(stream) : stream'[i] = stream[i]
           /\ stream'[Len(stream')] = Change(p, "MODIFY", answer[p])
           /\ at \in [Consumer -> 0..Len(stream')]
  <1>1. answer[p] \in Stat
    BY DEF TypeOK, Stat
  <1>2. pieces[p] \in [stat : Stat, at : 1..clock]
    BY DEF TypeOK, Known
  <1>3. pieces'[p] \in [stat : Stat, at : 1..clock]
    BY <1>1, <1>2 DEF TypeOK
  <1>4. pieces' \in [Piece -> [stat : Stat, at : 1..clock'] \union {Absent}]
    BY <1>3 DEF TypeOK
  <1>5. pieces'[p] # Absent
    BY <1>3 DEF Absent, Stat
  <1>6. stream \in Seq(Record)
    BY DEF TypeOK, Record
  <1>7. Change(p, "MODIFY", answer[p]) \in Record
    BY <1>1 DEF Change, Record
  <1>8. /\ stream' \in Seq(Record) /\ Len(stream') = Len(stream) + 1
        /\ \A i \in 1..Len(stream) : stream'[i] = stream[i]
        /\ stream'[Len(stream')] = Change(p, "MODIFY", answer[p])
    BY <1>6, <1>7, AppendProperties
  <1>9. at \in [Consumer -> 0..Len(stream')]
    BY <1>6, <1>8 DEF TypeOK
  <1>10. clock' \in Nat
    BY DEF TypeOK
  <1>11. QED
    BY <1>4, <1>5, <1>8, <1>9, <1>10 DEF TableTyped

\* What a put, or nothing, does.
LEMMA EffectedType ==
    ASSUME TypeOK, NEW m \in messages, NEW rest, rest \subseteq Counted, Effected(m, rest)
    PROVE  /\ MessagesTyped' /\ TableTyped' /\ offered' \subseteq Piece
           /\ UNCHANGED <<at, tick>> => ReadersTyped'
  <1>1. m.piece \in Piece /\ "submit" \in Queue
    BY DEF TypeOK, Message, Queue
  <1>2. UNCHANGED table => TableTyped' /\ (UNCHANGED <<at, tick>> => ReadersTyped')
    BY TypeParts DEF table, TableTyped, ReadersTyped
  <1>3. CASE messages' = rest /\ UNCHANGED <<made, table, offered>>
    BY <1>2, <1>3, NoSendType DEF TypeOK
  <1>4. CASE messages' = rest \union Offered(m.piece) /\ Sent("submit", m.piece)
             /\ UNCHANGED <<table, offered>>
    BY <1>1, <1>2, <1>4, OfferedType, SendType DEF TypeOK
  <1>5. CASE Put(m.piece) /\ messages' = rest /\ UNCHANGED <<made, offered>>
    BY <1>1, <1>5, PutType, NoSendType DEF TypeOK, ReadersTyped
  <1>6. CASE offered' = offered \union {m.piece} /\ messages' = rest /\ UNCHANGED <<made, table>>
    BY <1>1, <1>2, <1>6, NoSendType DEF TypeOK
  <1>7. QED
    BY <1>3, <1>4, <1>5, <1>6 DEF Effected

LEMMA HeadsType ==
    ASSUME TypeOK, NEW c \in Consumer, NEW i \in Heads(c)
    PROVE  /\ i \in 1..Len(stream) /\ stream[i] \in Record /\ i > at[c]
           /\ Pass(c, i) => at' \in [Consumer -> 0..Len(stream)]
  <1>1. at[c] \in 0..Len(stream) /\ i \in at[c] + 1..Len(stream) /\ Len(stream) \in Nat
    BY DEF TypeOK, Heads
  <1>2. i \in 1..Len(stream) /\ i > at[c]
    BY <1>1
  <1>3. stream \in Seq(Record)
    BY DEF TypeOK, Record
  <1>4. stream[i] \in Record
    BY <1>2, <1>3, ElementOfSeq
  <1>5. ASSUME Pass(c, i) PROVE at' \in [Consumer -> 0..Len(stream)]
    <2>1. i \in 0..Len(stream)
      BY <1>1
    <2>2. QED
      BY <1>5, <2>1 DEF Pass, TypeOK
  <1>6. QED
    BY <1>2, <1>4, <1>5

LEMMA EffectType ==
    ASSUME TypeOK, NEW c \in Consumer, NEW i \in Heads(c), Effect(c, stream[i])
    PROVE  /\ MessagesTyped' /\ claims' \in [Piece -> Nat]
           /\ announced' \subseteq [piece : Piece, stat : {"accepted", "invalid"}]
  <1>1. stream[i] \in Record /\ "offer" \in Queue
    BY HeadsType DEF Queue
  <1>2. messages' = messages /\ made' = made => MessagesTyped'
    BY MessagesCounted, NoSendType
  <1>3. CASE UNCHANGED <<messages, made, claims, announced>>
    BY <1>2, <1>3 DEF TypeOK
  <1>4. CASE claims' = [claims EXCEPT ![stream[i].piece] = @ + 1]
             /\ UNCHANGED <<messages, made, announced>>
    BY <1>1, <1>2, <1>4 DEF TypeOK, Record
  <1>5. CASE /\ messages' = messages \union {NewMessage("offer", stream[i].piece)}
             /\ Sent("offer", stream[i].piece) /\ UNCHANGED <<claims, announced>>
    BY <1>1, <1>5, MessagesCounted, SendType DEF TypeOK, Record
  <1>6. CASE c = "status" /\ Announce(stream[i]) /\ UNCHANGED <<messages, made, claims>>
    <2>1. stream[i].stat \in {"accepted", "invalid"}
      BY <1>1, <1>6 DEF Heads, Concerns, Record, Stat
    <2>2. QED
      BY <1>1, <1>2, <1>6, <2>1 DEF Announce, TypeOK, Record
  <1>7. QED
    BY <1>3, <1>4, <1>5, <1>6 DEF Effect
LEMMA CursorType ==
    ASSUME TypeOK, NEW page \in SUBSET Piece, page # {}, \A p \in page : Known(p)
    PROVE  CursorAfter(page) \in 0..clock
  <1> DEFINE times == {pieces[p].at : p \in page}
             bounds == {n \in Nat : \A k \in times : k <= n}
  <1>1. times \subseteq 1..clock /\ times # {} /\ clock \in Nat
    BY DEF TypeOK, Known
  <1>2. clock \in bounds
    BY <1>1
  <1>3. PICK n \in bounds : \A k \in bounds : n <= k
    BY <1>2, LeastNatural
  <1>4. n \in times
    <2> SUFFICES ASSUME n \notin times PROVE FALSE
      OBVIOUS
    <2>1. \A k \in times : k <= n - 1
      <3> SUFFICES ASSUME NEW k \in times PROVE k <= n - 1
        OBVIOUS
      <3>1. k \in Nat /\ n \in Nat /\ k <= n /\ k # n
        BY <1>1
      <3>2. QED
        BY <3>1
    <2>2. n - 1 \in Nat
      <3>1. PICK k \in times : TRUE
        BY <1>1
      <3>2. k \in 1..clock /\ k <= n - 1 /\ n \in Nat
        BY <1>1, <2>1
      <3>3. QED
        BY <3>2
    <2>3. n - 1 \in bounds
      BY <2>1, <2>2
    <2>4. QED
      BY <1>3, <2>3
  <1>5. \E k \in times : \A p \in page : pieces[p].at <= k
    BY <1>4
  <1>6. CursorAfter(page) \in times
    BY <1>5 DEF CursorAfter
  <1>7. QED
    BY <1>1, <1>6

\* The pieces of a page are in the table.
PageInv == \A t \in Tick : \A p \in tick[t].page : Known(p)

LEMMA PageType ==
    ASSUME TypeOK, NEW t \in Tick, TickPage(t)
    PROVE  /\ tick' \in [Tick -> [pc : {"rest", "run"}, cursor : 0..clock, page : SUBSET Piece, more : BOOLEAN]]
           /\ \A p \in tick'[t].page : Known(p)
           /\ \A u \in Tick \ {t} : tick'[u] = tick[u]
  <1> DEFINE page == FirstOf(Submitted(tick[t].cursor))
             full == Cardinality(page) = PageSize
             cursor == IF full THEN CursorAfter(page) ELSE 0
  <1>1. page \subseteq Piece /\ \A p \in page : Known(p)
    BY DEF FirstOf, Submitted, Known, Absent
  <1>2. full => page # {}
    BY PipelineAssumption, FS_EmptySet
  <1>3. cursor \in 0..clock
    <2>1. clock \in Nat
      BY DEF TypeOK
    <2>2. CASE full
      BY <1>1, <1>2, <2>2, CursorType
    <2>3. CASE ~full
      BY <2>1, <2>3
    <2>4. QED
      BY <2>2, <2>3
  <1>4. tick' = [tick EXCEPT ![t] = [pc |-> "run", page |-> page, more |-> full, cursor |-> cursor]]
    BY DEF TickPage, position
  <1>5. [pc |-> "run", page |-> page, more |-> full, cursor |-> cursor]
          \in [pc : {"rest", "run"}, cursor : 0..clock, page : SUBSET Piece, more : BOOLEAN]
    BY <1>1, <1>3
  <1> HIDE DEF page, full, cursor
  <1>6. QED
    BY <1>1, <1>4, <1>5 DEF TypeOK

LEMMA RestingType ==
    ASSUME TypeOK, NEW t \in Tick, tick' = [tick EXCEPT ![t] = Resting]
    PROVE  tick' \in [Tick -> [pc : {"rest", "run"}, cursor : 0..clock, page : SUBSET Piece, more : BOOLEAN]]
  <1>1. Resting \in [pc : {"rest", "run"}, cursor : 0..clock, page : SUBSET Piece, more : BOOLEAN]
    BY DEF Resting, TypeOK
  <1>2. QED
    BY <1>1 DEF TypeOK

LEMMA FailsType ==
    ASSUME TypeOK, NEW kind, Fails(kind)
    PROVE  faults' \in 0..scenario.most
  BY PipelineAssumption DEF Fails, TypeOK

LEMMA DropType ==
    ASSUME TypeOK, NEW s \in Stage, NEW p \in Piece, Drop(s, p)
    PROVE  dropped' \subseteq [stage : Stage, piece : Piece]
  BY DEF Drop, TypeOK
LEMMA HandlerStepType ==
    ASSUME TypeOK, NEW m \in messages, Handle(m) \/ HandlerErrs(m) \/ HandlerDies(m)
    PROVE  TypeOK'
  <1>1. /\ m \in Message /\ m \in Counted /\ m.to \in Queue /\ m.piece \in Piece
        /\ m.receives \in 0..MaxReceive - 1 /\ m.step \in {"visible", "put"}
    BY MessagesCounted DEF TypeOK, Message
  <1>2. messages \ {m} \subseteq Counted /\ Queue \subseteq Stage /\ "submit" \in Queue
    BY MessagesCounted DEF Stage, Queue
  <1>3. \A p \in Piece, q \in Queue : [stage |-> q, piece |-> p] \in [stage : Stage, piece : Piece]
    BY <1>2
  <1>4. CASE ComputePiece(m)
    <2>1. MessagesTyped'
      <3>1. CASE Known(m.piece)
        BY <1>1, <1>2, <1>4, <3>1, NoSendType DEF ComputePiece, Offered, position
      <3>2. CASE ~Known(m.piece)
        BY <1>1, <1>2, <1>4, <3>2, OfferedType, SendType DEF ComputePiece, position
      <3>3. QED
        BY <3>1, <3>2
    <2>2. QED
      BY <1>4, <2>1, TypeParts, PartsTyped
      DEF ComputePiece, table, external, TableTyped, ReadersTyped, OthersTyped, position
  <1>5. CASE CheckPiece(m)
    <2>1. [m EXCEPT !.step = "put"] \in Counted
      BY <1>1 DEF Counted, Message
    <2>2. MessagesTyped'
      BY <1>2, <1>5, <2>1, NoSendType DEF CheckPiece, position
    <2>3. dropped' \subseteq [stage : Stage, piece : Piece]
      BY <1>1, <1>2, <1>5, DropType DEF CheckPiece, TypeOK, position
    <2>4. QED
      BY <1>5, <2>2, <2>3, TypeParts, PartsTyped DEF CheckPiece, table, external, TableTyped, ReadersTyped, OthersTyped, position
  <1>6. CASE PutPiece(m)
    <2>1. MessagesTyped'
      BY <1>2, <1>6, NoSendType DEF PutPiece, position
    <2>2. TableTyped' /\ ReadersTyped'
      BY <1>1, <1>6, PutType DEF PutPiece, ReadersTyped, position
    <2>3. QED
      BY <1>6, <2>1, <2>2, TypeParts, PartsTyped DEF PutPiece, external, OthersTyped, position
  <1>7. CASE OfferPiece(m)
    <2>1. MessagesTyped'
      BY <1>2, <1>7, NoSendType DEF OfferPiece, position
    <2>2. offered' \subseteq Piece
      BY <1>1, <1>7 DEF OfferPiece, TypeOK, position
    <2>3. QED
      BY <1>7, <2>1, <2>2, TypeParts, PartsTyped DEF OfferPiece, table, TableTyped, ReadersTyped, OthersTyped, position
  <1>8. CASE HandlerErrs(m)
    <2>1. MessagesTyped' /\ TableTyped' /\ ReadersTyped' /\ offered' \subseteq Piece
      BY <1>2, <1>8, EffectedType DEF HandlerErrs, position
    <2>2. dropped' \subseteq [stage : Stage, piece : Piece]
      BY <1>1, <1>2, <1>8, DropType DEF HandlerErrs, position
    <2>3. faults' \in 0..scenario.most
      BY <1>8, FailsType DEF HandlerErrs, position
    <2>4. QED
      BY <1>8, <2>1, <2>2, <2>3, TypeParts, PartsTyped DEF HandlerErrs, OthersTyped, position
  <1>9. CASE HandlerDies(m)
    <2>1. Returned(m) \subseteq Counted
      <3>1. ~Spent(m) => m.receives + 1 \in 0..MaxReceive - 1
        BY <1>1, PipelineAssumption DEF Spent
      <3>2. m.receives + 1 \in 0..MaxReceive - 1 =>
              [m EXCEPT !.step = "visible", !.receives = @ + 1] \in Counted
        BY <1>1 DEF Counted, Message
      <3>3. QED
        BY <3>1, <3>2 DEF Returned
    <2>2. (messages \ {m}) \union Returned(m) \subseteq Counted
      BY <1>2, <2>1
    <2>3. MessagesTyped' /\ TableTyped' /\ ReadersTyped' /\ offered' \subseteq Piece
      BY <1>9, <2>2, EffectedType DEF HandlerDies, position
    <2>4. dlq' \subseteq Message
      BY <1>1, <1>9 DEF HandlerDies, TypeOK, position
    <2>5. faults' \in 0..scenario.most
      BY <1>9, FailsType DEF HandlerDies, position
    <2>6. QED
      BY <1>9, <2>3, <2>4, <2>5, TypeParts, PartsTyped DEF HandlerDies, OthersTyped, position
  <1>10. QED
    BY <1>4, <1>5, <1>6, <1>7, <1>8, <1>9 DEF Handle

LEMMA ConsumerStepType ==
    ASSUME TypeOK, Consume \/ \E c \in Consumer : ConsumerErrs(c) \/ ConsumerDies(c) \/ Expire(c)
    PROVE  TypeOK'
  <1>1. messages' = messages /\ made' = made => MessagesTyped'
    BY MessagesCounted, NoSendType
  <1>2. UNCHANGED table => TableTyped'
    BY TypeParts DEF table, TableTyped
  <1>3. \A c \in Consumer : \A i \in Heads(c) : Pass(c, i) /\ UNCHANGED <<table, tick>> => ReadersTyped'
    BY HeadsType, TypeParts DEF table, ReadersTyped
  <1>4. Consumer \subseteq Stage /\ "offer" \in Queue
    BY DEF Consumer, Stage, Queue
  <1>5. CASE QueryClaims \/ PublishClaim
    <2>1. PICK i \in Heads("claim") :
            /\ Pass("claim", i) \/ UNCHANGED at
            /\ looked' \in BOOLEAN
            /\ claims' = claims \/ claims' = [claims EXCEPT ![stream[i].piece] = @ + 1]
            /\ UNCHANGED <<scenario, stored, queues, table, offered, answer, announced, tick, dropped, faults>>
      BY <1>5 DEF QueryClaims, PublishClaim, external, TypeOK
    <2>2. "claim" \in Consumer
      BY DEF Consumer
    <2>3. claims' \in [Piece -> Nat]
      <3>1. claims \in [Piece -> Nat]
        BY DEF TypeOK
      <3>2. stream[i].piece \in Piece
        BY <2>2, HeadsType DEF Record
      <3>3. [claims EXCEPT ![stream[i].piece] = @ + 1] \in [Piece -> Nat]
        BY <3>1, <3>2
      <3>4. QED
        BY <2>1, <3>1, <3>3
    <2>4. ReadersTyped'
      BY <1>3, <2>1, <2>2, TypeParts DEF ReadersTyped, table
    <2>5. QED
      BY <1>1, <1>2, <2>1, <2>3, <2>4, TypeParts, PartsTyped DEF queues, OthersTyped
  <1>6. CASE SubmitPiece
    <2>1. PICK i \in Heads("submitInsert") :
            /\ messages' = messages \union {NewMessage("offer", stream[i].piece)}
            /\ Sent("offer", stream[i].piece)
            /\ Pass("submitInsert", i)
            /\ UNCHANGED <<looked, scenario, stored, dlq, table, external, tick, dropped, faults>>
      BY <1>6 DEF SubmitPiece
    <2>2. "submitInsert" \in Consumer
      BY DEF Consumer
    <2>3. MessagesTyped'
      BY <1>4, <2>1, <2>2, HeadsType, SendType, MessagesCounted DEF Record
    <2>4. ReadersTyped'
      BY <1>3, <2>1, <2>2
    <2>5. QED
      BY <1>2, <2>1, <2>3, <2>4, TypeParts, PartsTyped DEF external, OthersTyped
  <1>7. CASE AnnouncePiece
    <2>1. PICK i \in Heads("status") :
            /\ Announce(stream[i]) /\ Pass("status", i)
            /\ UNCHANGED <<looked, scenario, stored, queues, table, claims, offered, answer, tick, dropped, faults>>
      BY <1>7 DEF AnnouncePiece
    <2>2. "status" \in Consumer
      BY DEF Consumer
    <2>3. stream[i] \in Record /\ stream[i].stat # "submitted"
      BY <2>1, <2>2, HeadsType DEF Heads, Concerns
    <2>4. announced' \subseteq [piece : Piece, stat : {"accepted", "invalid"}]
      BY <2>1, <2>3 DEF Announce, TypeOK, Record, Stat
    <2>5. ReadersTyped'
      BY <1>3, <2>1, <2>2
    <2>6. QED
      BY <1>1, <1>2, <2>1, <2>4, <2>5, TypeParts, PartsTyped DEF queues, OthersTyped
  <1>8. ASSUME NEW c \in Consumer, ConsumerErrs(c) PROVE TypeOK'
    <2>1. PICK i \in Heads(c) :
            /\ Fails("error") /\ Effect(c, stream[i]) /\ Drop(c, stream[i].piece) /\ Pass(c, i)
            /\ looked' \in BOOLEAN
            /\ UNCHANGED <<scenario, stored, dlq, table, offered, answer, tick>>
      BY <1>8 DEF ConsumerErrs, Forgets, TypeOK
    <2>2. /\ MessagesTyped' /\ claims' \in [Piece -> Nat]
          /\ announced' \subseteq [piece : Piece, stat : {"accepted", "invalid"}]
      BY <2>1, EffectType
    <2>3. dropped' \subseteq [stage : Stage, piece : Piece]
      BY <1>4, <2>1, HeadsType, DropType DEF Record
    <2>4. ReadersTyped' /\ faults' \in 0..scenario.most
      BY <1>3, <2>1, FailsType
    <2>5. QED
      BY <1>2, <2>1, <2>2, <2>3, <2>4, TypeParts, PartsTyped DEF OthersTyped
  <1>9. ASSUME NEW c \in Consumer, ConsumerDies(c) PROVE TypeOK'
    <2>1. PICK i \in Heads(c) :
            /\ \/ Fails("die") /\ Effect(c, stream[i])
               \/ c = "claim" /\ Fails("throw") /\ UNCHANGED <<messages, made, claims, announced>>
            /\ looked' \in BOOLEAN
            /\ UNCHANGED <<scenario, stored, dlq, table, at, offered, answer, tick, dropped>>
      BY <1>9 DEF ConsumerDies, Forgets, TypeOK
    <2>2. /\ MessagesTyped' /\ claims' \in [Piece -> Nat]
          /\ announced' \subseteq [piece : Piece, stat : {"accepted", "invalid"}]
      BY <1>1, <2>1, EffectType, TypeParts DEF OthersTyped
    <2>3. faults' \in 0..scenario.most
      BY <2>1, FailsType
    <2>4. ReadersTyped'
      BY <2>1, TypeParts DEF table, ReadersTyped
    <2>5. QED
      BY <1>2, <2>1, <2>2, <2>3, <2>4, TypeParts, PartsTyped DEF OthersTyped
  <1>10. ASSUME NEW c \in Consumer, Expire(c) PROVE TypeOK'
    <2>1. PICK i \in Heads(c) :
            /\ Fails("expire") /\ Drop(c, stream[i].piece) /\ Pass(c, i) /\ looked' \in BOOLEAN
            /\ UNCHANGED <<scenario, stored, queues, table, external, tick>>
      BY <1>10 DEF Expire, Forgets, TypeOK
    <2>2. dropped' \subseteq [stage : Stage, piece : Piece]
      BY <1>4, <2>1, HeadsType, DropType DEF Record
    <2>3. ReadersTyped' /\ faults' \in 0..scenario.most
      BY <1>3, <2>1, FailsType
    <2>4. QED
      BY <1>1, <1>2, <2>1, <2>2, <2>3, TypeParts, PartsTyped DEF queues, external, OthersTyped
  <1>11. QED
    BY <1>5, <1>6, <1>7, <1>8, <1>9, <1>10 DEF Consume

LEMMA CronStepType ==
    ASSUME TypeOK, PageInv, NEW t \in Tick, Run(t) \/ TickFails(t)
    PROVE  TypeOK'
  <1>1. UNCHANGED queues => MessagesTyped'
    BY MessagesCounted, NoSendType DEF queues
  <1>2. UNCHANGED table => TableTyped'
    BY TypeParts DEF table, TableTyped
  <1>3. CASE TickPage(t)
    <2>1. ReadersTyped'
      BY <1>3, PageType DEF TickPage, table, ReadersTyped, TypeOK, position
    <2>2. QED
      BY <1>1, <1>2, <1>3, <2>1, TypeParts, PartsTyped DEF TickPage, queues, external, OthersTyped, position
  <1>4. ASSUME NEW p \in Piece, TickPiece(t, p) PROVE TypeOK'
    <2>1. tick' \in [Tick -> [pc : {"rest", "run"}, cursor : 0..clock, page : SUBSET Piece, more : BOOLEAN]]
      <3>1. tick' = [tick EXCEPT ![t].page = @ \ {p}]
        BY <1>4 DEF TickPiece, position
      <3>2. [tick[t] EXCEPT !.page = @ \ {p}]
              \in [pc : {"rest", "run"}, cursor : 0..clock, page : SUBSET Piece, more : BOOLEAN]
        BY DEF TypeOK
      <3>3. tick' = [tick EXCEPT ![t] = [tick[t] EXCEPT !.page = @ \ {p}]]
        BY <3>1
      <3>4. QED
        BY <3>2, <3>3 DEF TypeOK
    <2>2. TableTyped' /\ ReadersTyped'
      <3>1. CASE answer[p] = "none"
        BY <1>2, <1>4, <2>1, <3>1, TypeParts DEF TickPiece, ReadersTyped, table, position
      <3>2. CASE answer[p] # "none"
        BY <1>4, <2>1, <3>2, UpdateType DEF TickPiece, PageInv, ReadersTyped, position
      <3>3. QED
        BY <3>1, <3>2
    <2>3. QED
      BY <1>1, <1>4, <2>2, TypeParts, PartsTyped DEF TickPiece, queues, external, OthersTyped, position
  <1>5. CASE TickEnd(t) \/ TickFails(t)
    <2>1. ReadersTyped' /\ UNCHANGED <<queues, table>>
      BY <1>5, RestingType DEF TickEnd, TickFails, ReadersTyped, table, TypeOK, position
    <2>2. faults' \in 0..scenario.most
      BY <1>5, FailsType DEF TickEnd, TickFails, TypeOK, position
    <2>3. QED
      BY <1>1, <1>2, <1>5, <2>1, <2>2, TypeParts, PartsTyped DEF TickEnd, TickFails, queues, external, OthersTyped, position
  <1>6. QED
    BY <1>3, <1>4, <1>5 DEF Run

LEMMA OutsideStepType ==
    ASSUME TypeOK, NEW p \in Piece, StoreCar(p) \/ ClientOffer(p) \/ Answer(p)
    PROVE  TypeOK'
  <1>1. {"compute", "submit"} \subseteq Queue /\ "event" \in Stage
    BY DEF Queue, Stage
  <1>2. UNCHANGED <<table, at, tick>> => TableTyped' /\ ReadersTyped'
    BY TypeParts DEF table, TableTyped, ReadersTyped
  <1>3. CASE StoreCar(p)
    <2>1. MessagesTyped'
      BY <1>1, <1>3, MessagesCounted, SendType, NoSendType DEF StoreCar, position
    <2>2. dropped' \subseteq [stage : Stage, piece : Piece] /\ faults' \in 0..scenario.most
      BY <1>1, <1>3, DropType, FailsType, TypeParts DEF StoreCar, OthersTyped, position
    <2>3. QED
      BY <1>2, <1>3, <2>1, <2>2, TypeParts, PartsTyped DEF StoreCar, external, OthersTyped, position
  <1>4. CASE ClientOffer(p)
    <2>1. MessagesTyped'
      BY <1>1, <1>4, MessagesCounted, OfferedType, SendType DEF ClientOffer, position
    <2>2. QED
      BY <1>2, <1>4, <2>1, TypeParts, PartsTyped DEF ClientOffer, external, OthersTyped, position
  <1>5. CASE Answer(p)
    <2>1. MessagesTyped'
      BY <1>5, MessagesCounted, NoSendType DEF Answer, queues, position
    <2>2. answer' \in [Piece -> {"none", "accepted", "invalid"}]
      BY <1>5 DEF Answer, TypeOK, position
    <2>3. QED
      BY <1>2, <1>5, <2>1, <2>2, TypeParts, PartsTyped DEF Answer, queues, OthersTyped, position
  <1>6. QED
    BY <1>3, <1>4, <1>5

LEMMA NextType == TypeOK /\ PageInv /\ [Next]_vars => TypeOK'
  <1> SUFFICES ASSUME TypeOK, PageInv, [Next]_vars PROVE TypeOK'
    OBVIOUS
  <1>1. CASE UNCHANGED vars
    BY <1>1 DEF vars, queues, table, external, TypeOK, position
  <1>2. CASE Next
    BY <1>2, HandlerStepType, ConsumerStepType, CronStepType, OutsideStepType DEF Next
  <1>3. QED
    BY <1>1, <1>2
-----------------------------------------------------------------------------
(* What the table and its stream go through: a put, an update of a piece     *)
(* that is known, or nothing. A piece that is known stays so.                *)

Update(p) ==
    /\ Known(p) /\ answer[p] # "none"
    /\ pieces' = [pieces EXCEPT ![p].stat = answer[p]]
    /\ stream' = Append(stream, Change(p, "MODIFY", answer[p]))
    /\ UNCHANGED clock

LEMMA EffectedTable ==
    ASSUME NEW m, NEW rest, Effected(m, rest)
    PROVE  UNCHANGED table \/ Put(m.piece)
  BY DEF Effected

LEMMA TableStep ==
    ASSUME TypeOK, PageInv, [Next]_vars
    PROVE  \/ UNCHANGED table
           \/ (\E p \in Piece : Put(p)) /\ UNCHANGED <<answer, tick, at>>
           \/ (\E p \in Piece : Update(p)) /\ UNCHANGED <<answer, at>>
  <1>1. \A m \in messages : m.piece \in Piece
    BY DEF TypeOK, Message
  <1>2. ASSUME NEW m \in messages, Handle(m)
        PROVE  UNCHANGED table \/ (Put(m.piece) /\ UNCHANGED <<answer, tick, at>>)
    BY <1>2 DEF Handle, ComputePiece, CheckPiece, PutPiece, OfferPiece, external, position
  <1>3. ASSUME NEW m \in messages, HandlerErrs(m) \/ HandlerDies(m)
        PROVE  UNCHANGED table \/ (Put(m.piece) /\ UNCHANGED <<answer, tick, at>>)
    BY <1>3, EffectedTable DEF HandlerErrs, HandlerDies, position
  <1>4. Consume \/ (\E c \in Consumer : ConsumerErrs(c) \/ ConsumerDies(c) \/ Expire(c)) => UNCHANGED table
    BY DEF Consume, QueryClaims, PublishClaim, SubmitPiece, AnnouncePiece, ConsumerErrs, ConsumerDies, Expire
  <1>5. ASSUME NEW t \in Tick, Run(t) \/ TickFails(t)
        PROVE  UNCHANGED table \/ ((\E p \in Piece : Update(p)) /\ UNCHANGED <<answer, at>>)
    <2>1. CASE TickPage(t) \/ TickEnd(t) \/ TickFails(t)
      BY <2>1 DEF TickPage, TickEnd, TickFails, position
    <2>2. ASSUME NEW p \in Piece, TickPiece(t, p)
          PROVE  UNCHANGED table \/ (Update(p) /\ UNCHANGED <<answer, at>>)
      BY <2>2 DEF TickPiece, Update, PageInv, external, position
    <2>3. QED
      BY <1>5, <2>1, <2>2 DEF Run
  <1>6. ASSUME NEW p \in Piece, StoreCar(p) \/ ClientOffer(p) \/ Answer(p)
        PROVE  UNCHANGED table
    BY <1>6 DEF StoreCar, ClientOffer, Answer, position
  <1>7. UNCHANGED vars => UNCHANGED table
    BY DEF vars, position
  <1>8. QED
    BY <1>1, <1>2, <1>3, <1>4, <1>5, <1>6, <1>7 DEF Next

LEMMA KnownStays ==
    ASSUME TypeOK, PageInv, [Next]_vars, NEW p \in Piece, Known(p)
    PROVE  Known(p)'
  <1>1. CASE UNCHANGED table
    BY <1>1 DEF table, Known
  <1>2. ASSUME NEW q \in Piece, Put(q) PROVE Known(p)'
    BY <1>2 DEF Put, Known, TypeOK, Absent
  <1>3. ASSUME NEW q \in Piece, Update(q) PROVE Known(p)'
    <2>1. CASE q = p
      BY <1>3, <2>1, UpdateType DEF Update, Known
    <2>2. CASE q # p
      BY <1>3, <2>2 DEF Update, Known, TypeOK
    <2>3. QED
      BY <2>1, <2>2
  <1>4. QED
    BY <1>1, <1>2, <1>3, TableStep

LEMMA StreamGrows ==
    ASSUME TypeOK, PageInv, [Next]_vars
    PROVE  Len(stream) <= Len(stream') /\ \A i \in 1..Len(stream) : stream'[i] = stream[i]
  <1>1. Len(stream) \in Nat
    BY DEF TypeOK
  <1>2. CASE UNCHANGED table
    BY <1>1, <1>2 DEF table
  <1>3. ASSUME NEW p \in Piece, Put(p)
        PROVE  Len(stream) <= Len(stream') /\ \A i \in 1..Len(stream) : stream'[i] = stream[i]
    BY <1>1, <1>3, PutType
  <1>4. ASSUME NEW p \in Piece, Update(p)
        PROVE  Len(stream) <= Len(stream') /\ \A i \in 1..Len(stream) : stream'[i] = stream[i]
    BY <1>1, <1>4, UpdateType DEF Update
  <1>5. QED
    BY <1>2, <1>3, <1>4, TableStep

LEMMA NextPage ==
    ASSUME TypeOK, PageInv, [Next]_vars
    PROVE  PageInv'
  <1> SUFFICES ASSUME NEW t \in Tick, NEW p \in tick'[t].page
               PROVE  Known(p)'
    BY DEF PageInv
  <1>1. p \in Piece /\ Known(p)
    <2>1. tick' = tick => p \in Piece /\ Known(p)
      BY DEF PageInv, TypeOK
    <2>2. ASSUME NEW u \in Tick, Run(u) \/ TickFails(u) PROVE p \in Piece /\ Known(p)
      <3>1. CASE TickPage(u)
        <4>1. p \in Piece
          BY <3>1, PageType
        <4>2. QED
          BY <3>1, <4>1, PageType DEF PageInv
      <3>2. ASSUME NEW q \in Piece, TickPiece(u, q) PROVE p \in Piece /\ Known(p)
        BY <3>2 DEF TickPiece, PageInv, TypeOK, position
      <3>3. CASE TickEnd(u) \/ TickFails(u)
        <4>1. tick' = [tick EXCEPT ![u] = Resting]
          BY <3>3 DEF TickEnd, TickFails, position
        <4>2. tick'[t] = IF t = u THEN Resting ELSE tick[t]
          BY <4>1 DEF TypeOK
        <4>3. p \in tick[t].page
          BY <4>2 DEF Resting
        <4>4. QED
          BY <4>3 DEF PageInv, TypeOK
      <3>4. QED
        BY <2>2, <3>1, <3>2, <3>3 DEF Run
    <2>3. ASSUME NEW m \in messages, Handle(m) \/ HandlerErrs(m) \/ HandlerDies(m)
          PROVE  tick' = tick
      BY <2>3 DEF Handle, ComputePiece, CheckPiece, PutPiece, OfferPiece, HandlerErrs, HandlerDies, position
    <2>4. Consume \/ (\E c \in Consumer : ConsumerErrs(c) \/ ConsumerDies(c) \/ Expire(c)) => tick' = tick
      BY DEF Consume, QueryClaims, PublishClaim, SubmitPiece, AnnouncePiece, ConsumerErrs, ConsumerDies, Expire
    <2>5. ASSUME NEW q \in Piece, StoreCar(q) \/ ClientOffer(q) \/ Answer(q)
          PROVE  tick' = tick
      BY <2>5 DEF StoreCar, ClientOffer, Answer, position
    <2>6. UNCHANGED vars => tick' = tick
      BY DEF vars, position
    <2>7. QED
      BY <2>1, <2>2, <2>3, <2>4, <2>5, <2>6 DEF Next
  <1>2. QED
    BY <1>1, KnownStays

LEMMA InitTyped == Init => TypeOK /\ PageInv
  <1> SUFFICES ASSUME Init PROVE TypeOK /\ PageInv
    OBVIOUS
  <1>1. scenario \in Scenarios /\ 0 \in 0..scenario.most
    BY PipelineAssumption DEF Init
  <1>2. Resting \in [pc : {"rest", "run"}, cursor : 0..clock, page : SUBSET Piece, more : BOOLEAN]
    BY DEF Init, Resting
  <1>3. TypeOK
    <2>1. /\ stream \in Seq([piece : Piece, kind : {"INSERT", "MODIFY"}, stat : Stat])
          /\ at \in [Consumer -> 0..Len(stream)]
          /\ pieces \in [Piece -> [stat : Stat, at : 1..clock] \union {Absent}]
      BY DEF Init
    <2>2. tick \in [Tick -> [pc : {"rest", "run"}, cursor : 0..clock, page : SUBSET Piece, more : BOOLEAN]]
      BY <1>2 DEF Init
    <2>3. QED
      BY <1>1, <2>1, <2>2 DEF Init, TypeOK
  <1>4. PageInv
    BY DEF Init, PageInv, Resting
  <1>5. QED
    BY <1>3, <1>4

(***************************************************************************)
(* Every reachable state is well typed: in particular the cron updates no  *)
(* piece that is not in the table, whatever its runs read, and its cursor  *)
(* is one of the times there were.                                         *)
(***************************************************************************)
THEOREM TypeCorrect == Spec => []TypeOK
  <1>1. TypeOK /\ PageInv /\ [Next]_vars => TypeOK' /\ PageInv'
    BY NextType, NextPage
  <1>2. QED
    BY InitTyped, <1>1, PTL DEF Spec
-----------------------------------------------------------------------------
(* What is announced was answered: a record of the stream that has a status *)
(* other than submitted has that which the aggregator answered, for good.   *)

StreamInv ==
    \A i \in 1..Len(stream) :
        stream[i].stat # "submitted" => answer[stream[i].piece] = stream[i].stat

LEMMA AnswerStays ==
    ASSUME TypeOK, [Next]_vars, NEW p \in Piece, answer[p] # "none"
    PROVE  answer'[p] = answer[p]
  <1>1. ASSUME NEW q \in Piece, Answer(q) PROVE answer'[p] = answer[p]
    BY <1>1 DEF Answer, TypeOK, position
  <1>2. ASSUME NEW q \in Piece, StoreCar(q) \/ ClientOffer(q) PROVE answer'[p] = answer[p]
    BY <1>2 DEF StoreCar, ClientOffer, external, position
  <1>3. ASSUME NEW m \in messages, Handle(m) \/ HandlerErrs(m) \/ HandlerDies(m)
        PROVE  answer'[p] = answer[p]
    BY <1>3 DEF Handle, ComputePiece, CheckPiece, PutPiece, OfferPiece, HandlerErrs, HandlerDies, external, position
  <1>4. Consume \/ (\E c \in Consumer : ConsumerErrs(c) \/ ConsumerDies(c) \/ Expire(c)) => answer'[p] = answer[p]
    BY DEF Consume, QueryClaims, PublishClaim, SubmitPiece, AnnouncePiece, ConsumerErrs, ConsumerDies, Expire, external
  <1>5. ASSUME NEW t \in Tick, Run(t) \/ TickFails(t) PROVE answer'[p] = answer[p]
    BY <1>5 DEF Run, TickPage, TickPiece, TickEnd, TickFails, external, position
  <1>6. UNCHANGED vars => answer'[p] = answer[p]
    BY DEF vars, external, position
  <1>7. QED
    BY <1>1, <1>2, <1>3, <1>4, <1>5, <1>6 DEF Next

LEMMA NextStream ==
    ASSUME TypeOK, PageInv, StreamInv, [Next]_vars
    PROVE  StreamInv'
  <1> SUFFICES ASSUME NEW i \in 1..Len(stream'), stream'[i].stat # "submitted"
               PROVE  answer'[stream'[i].piece] = stream'[i].stat
    BY DEF StreamInv
  <1>1. CASE i \in 1..Len(stream)
    <2>1. stream[i] \in Record /\ stream'[i] = stream[i]
      BY <1>1, StreamGrows, ElementOfSeq DEF TypeOK, Record
    <2>2. answer[stream[i].piece] = stream[i].stat /\ stream[i].stat # "none"
      BY <1>1, <2>1 DEF StreamInv, Record, Stat
    <2>3. QED
      BY <2>1, <2>2, AnswerStays DEF Record
  <1>2. CASE i \notin 1..Len(stream)
    <2>1. ~UNCHANGED table
      BY <1>2 DEF table
    <2>2. ASSUME NEW p \in Piece, Put(p) PROVE FALSE
      <3>1. i = Len(stream')
        BY <1>2, <2>2, PutType DEF TypeOK
      <3>2. stream'[i] = Change(p, IF Known(p) THEN "MODIFY" ELSE "INSERT", "submitted")
        BY <2>2, <3>1, PutType
      <3>3. stream'[i].stat = "submitted"
        BY <3>2 DEF Change
      <3>4. QED
        BY <3>3
    <2>3. ASSUME NEW p \in Piece, Update(p), UNCHANGED answer
          PROVE  answer'[stream'[i].piece] = stream'[i].stat
      <3>1. i = Len(stream')
        BY <1>2, <2>3, UpdateType DEF TypeOK, Update
      <3>2. stream'[i] = Change(p, "MODIFY", answer[p])
        BY <2>3, <3>1, UpdateType DEF Update
      <3>3. QED
        BY <2>3, <3>2 DEF Change
    <2>4. QED
      BY <2>1, <2>2, <2>3, TableStep
  <1>3. QED
    BY <1>1, <1>2

\* A record announced is one of those.
LEMMA AnnouncedNow ==
    ASSUME TypeOK, PageInv, StreamInv, AnnouncedIsAnswered, [Next]_vars, NEW a \in announced'
    PROVE  a \in announced \/ (answer[a.piece] = a.stat /\ a.piece \in Piece /\ a.stat # "none")
  <1>1. ASSUME NEW i \in Heads("status"), Announce(stream[i]), a \notin announced
        PROVE  answer[a.piece] = a.stat /\ a.piece \in Piece /\ a.stat # "none"
    <2>1. i \in 1..Len(stream) /\ stream[i] \in Record /\ stream[i].stat # "submitted"
      BY HeadsType DEF Heads, Concerns, Consumer
    <2>2. a = [piece |-> stream[i].piece, stat |-> stream[i].stat]
      BY <1>1 DEF Announce
    <2>3. QED
      BY <2>1, <2>2 DEF StreamInv, Record, Stat
  <1>2. ASSUME NEW q \in Piece, StoreCar(q) \/ ClientOffer(q) \/ Answer(q) PROVE a \in announced
    BY <1>2 DEF StoreCar, ClientOffer, Answer, external, position
  <1>3. ASSUME NEW m \in messages, Handle(m) \/ HandlerErrs(m) \/ HandlerDies(m)
        PROVE  a \in announced
    BY <1>3 DEF Handle, ComputePiece, CheckPiece, PutPiece, OfferPiece, HandlerErrs, HandlerDies, external, position
  <1>4. ASSUME NEW t \in Tick, Run(t) \/ TickFails(t) PROVE a \in announced
    BY <1>4 DEF Run, TickPage, TickPiece, TickEnd, TickFails, external, position
  <1>5. QueryClaims \/ PublishClaim \/ SubmitPiece \/ UNCHANGED vars => a \in announced
    BY DEF QueryClaims, PublishClaim, SubmitPiece, vars, external, position
  <1>6. CASE AnnouncePiece
    BY <1>1, <1>6 DEF AnnouncePiece
  <1>7. ASSUME NEW c \in Consumer, ConsumerErrs(c) \/ ConsumerDies(c) \/ Expire(c)
        PROVE  \/ a \in announced
               \/ answer[a.piece] = a.stat /\ a.piece \in Piece /\ a.stat # "none"
    <2>1. \A i \in Heads(c) : Effect(c, stream[i]) =>
             a \in announced \/ (c = "status" /\ Announce(stream[i]))
      BY DEF Effect
    <2>2. QED
      BY <1>1, <1>7, <2>1 DEF ConsumerErrs, ConsumerDies, Expire, external
  <1>8. QED
    BY <1>2, <1>3, <1>4, <1>5, <1>6, <1>7 DEF Next, Consume

LEMMA NextAnnounced ==
    ASSUME TypeOK, PageInv, StreamInv, AnnouncedIsAnswered, [Next]_vars
    PROVE  AnnouncedIsAnswered'
  <1> SUFFICES ASSUME NEW a \in announced' PROVE answer'[a.piece] = a.stat
    BY DEF AnnouncedIsAnswered
  <1>1. answer[a.piece] = a.stat /\ a.piece \in Piece /\ a.stat # "none"
    BY AnnouncedNow DEF AnnouncedIsAnswered, TypeOK
  <1>2. QED
    BY <1>1, AnswerStays

(***************************************************************************)
(* What is announced as filecoin/accept is what the aggregator answered,   *)
(* however puts, runs of the cron and failures meet.                       *)
(***************************************************************************)
THEOREM AnnouncementsAreAnswers == Spec => []AnnouncedIsAnswered
  <1>1. Init => StreamInv /\ AnnouncedIsAnswered
    BY DEF Init, StreamInv, AnnouncedIsAnswered
  <1>2. /\ TypeOK /\ PageInv /\ StreamInv /\ AnnouncedIsAnswered /\ [Next]_vars
        => TypeOK' /\ PageInv' /\ StreamInv' /\ AnnouncedIsAnswered'
    BY NextType, NextPage, NextStream, NextAnnounced
  <1>3. QED
    BY InitTyped, <1>1, <1>2, PTL DEF Spec
-----------------------------------------------------------------------------
(* Where the pieces are. What is known stays known, what is dropped stays   *)
(* noted, and a message leaves its queue with something in its place.       *)

\* A record of the piece that the consumer of inserts has yet to take.
Ahead(p) ==
    \E i \in at["submitInsert"] + 1 .. Len(stream) :
        stream[i].piece = p /\ stream[i].kind = "INSERT"

CarAccounted(p) ==
    p \in stored => \/ Known(p) \/ OnQueue("compute", p) \/ OnQueue("submit", p)
                    \/ \E s \in {"event", "compute", "submit"} : Dropped(s, p)

PieceAccounted(p) ==
    Known(p) => \/ p \in offered \/ OnQueue("offer", p) \/ Ahead(p)
                \/ \E s \in {"submitInsert", "offer"} : Dropped(s, p)

LEMMA AccountedParts ==
    PiecesAccounted <=> \A p \in Piece \ Mismatched : CarAccounted(p) /\ PieceAccounted(p)
  BY DEF PiecesAccounted, CarAccounted, PieceAccounted, Ahead

LEMMA NotedStays ==
    ASSUME [Next]_vars
    PROVE  dropped \subseteq dropped' /\ offered \subseteq offered' /\ dlq \subseteq dlq'
  <1>1. ASSUME NEW p \in Piece, StoreCar(p) \/ ClientOffer(p) \/ Answer(p)
        PROVE  dropped \subseteq dropped' /\ offered \subseteq offered' /\ dlq \subseteq dlq'
    BY <1>1 DEF StoreCar, ClientOffer, Answer, Drop, external, queues, position
  <1>2. ASSUME NEW m \in messages, Handle(m)
        PROVE  dropped \subseteq dropped' /\ offered \subseteq offered' /\ dlq \subseteq dlq'
    BY <1>2 DEF Handle, ComputePiece, CheckPiece, PutPiece, OfferPiece, Drop, external, position
  <1>3. ASSUME NEW m \in messages, HandlerErrs(m) \/ HandlerDies(m)
        PROVE  dropped \subseteq dropped' /\ offered \subseteq offered' /\ dlq \subseteq dlq'
    <2>1. \A rest : Effected(m, rest) => offered \subseteq offered'
      BY DEF Effected
    <2>2. QED
      BY <1>3, <2>1 DEF HandlerErrs, HandlerDies, Drop, position
  <1>4. Consume \/ (\E c \in Consumer : ConsumerErrs(c) \/ ConsumerDies(c) \/ Expire(c)) =>
          dropped \subseteq dropped' /\ offered \subseteq offered' /\ dlq \subseteq dlq'
    BY DEF Consume, QueryClaims, PublishClaim, SubmitPiece, AnnouncePiece, ConsumerErrs, ConsumerDies, Expire, Drop, queues, external
  <1>5. ASSUME NEW t \in Tick, Run(t) \/ TickFails(t)
        PROVE  dropped \subseteq dropped' /\ offered \subseteq offered' /\ dlq \subseteq dlq'
    BY <1>5 DEF Run, TickPage, TickPiece, TickEnd, TickFails, queues, external, position
  <1>6. UNCHANGED vars => dropped \subseteq dropped' /\ offered \subseteq offered' /\ dlq \subseteq dlq'
    BY DEF vars, queues, external, position
  <1>7. QED
    BY <1>1, <1>2, <1>3, <1>4, <1>5, <1>6 DEF Next

LEMMA DroppedStays ==
    ASSUME [Next]_vars, NEW s, NEW p, Dropped(s, p)
    PROVE  Dropped(s, p)'
  BY NotedStays DEF Dropped

\* A put of a piece that is not known is ahead of the consumer.
LEMMA PutIsAhead ==
    ASSUME TypeOK, NEW p \in Piece, Put(p), ~Known(p), UNCHANGED at
    PROVE  Ahead(p)'
  <1>1. /\ Len(stream') = Len(stream) + 1
        /\ stream'[Len(stream')] = Change(p, "INSERT", "submitted")
    BY PutType
  <1>2. at["submitInsert"] \in 0..Len(stream) /\ Len(stream) \in Nat
    BY DEF TypeOK, Consumer
  <1>3. Len(stream') \in at'["submitInsert"] + 1..Len(stream')
    BY <1>1, <1>2
  <1>4. QED
    BY <1>1, <1>3 DEF Ahead, Change

LEMMA AheadStays ==
    ASSUME TypeOK, PageInv, [Next]_vars, NEW p \in Piece, Ahead(p),
           at'["submitInsert"] = at["submitInsert"]
    PROVE  Ahead(p)'
  <1>1. PICK i \in at["submitInsert"] + 1..Len(stream) : stream[i].piece = p /\ stream[i].kind = "INSERT"
    BY DEF Ahead
  <1>2. at["submitInsert"] \in 0..Len(stream) /\ Len(stream) \in Nat /\ Len(stream') \in Nat
    <2>1. Len(stream') \in Nat
      BY NextType DEF TypeOK
    <2>2. QED
      BY <2>1 DEF TypeOK, Consumer
  <1>3. i \in at'["submitInsert"] + 1..Len(stream') /\ i \in 1..Len(stream)
    BY <1>2, StreamGrows
  <1>4. QED
    BY <1>1, <1>3, StreamGrows DEF Ahead
LEMMA QueueStays ==
    ASSUME NEW q, NEW p, OnQueue(q, p), NEW m, messages \ {m} \subseteq messages',
           dlq \subseteq dlq', m.to = q /\ m.piece = p => OnQueue(q, p)'
    PROVE  OnQueue(q, p)'
  BY DEF OnQueue

\* What a handler leaves in the place of its message.
Replaced(m, p) ==
    /\ m.to = "compute" => \/ Known(p) \/ OnQueue("submit", p)' \/ OnQueue("compute", p)'
                           \/ Dropped("compute", p)'
    /\ m.to = "submit" => Known(p) \/ Known(p)' \/ OnQueue("submit", p)' \/ Dropped("submit", p)'
    /\ m.to = "offer" => p \in offered' \/ OnQueue("offer", p)' \/ Dropped("offer", p)'

LEMMA HandlerReplaces ==
    ASSUME TypeOK, NEW m \in messages, m.piece \notin Mismatched,
           Handle(m) \/ HandlerErrs(m) \/ HandlerDies(m)
    PROVE  Replaced(m, m.piece)
  <1> DEFINE p == m.piece
  <1>1. m \in Message /\ p \in Piece
    BY DEF TypeOK, Message
  <1>2. CASE ComputePiece(m)
    <2>1. m.to = "compute" /\ (~Known(p) => NewMessage("submit", p) \in messages')
      BY <1>2 DEF ComputePiece, Offered, position
    <2>2. QED
      BY <1>1, <2>1, NewMessageType DEF Replaced, OnQueue, Queue
  <1>3. CASE CheckPiece(m)
    <2>1. m.to = "submit" /\ (~Known(p) => [m EXCEPT !.step = "put"] \in messages')
      BY <1>3 DEF CheckPiece, position
    <2>2. [m EXCEPT !.step = "put"].to = "submit" /\ [m EXCEPT !.step = "put"].piece = p
      BY <1>1, <2>1 DEF Message
    <2>3. QED
      BY <2>1, <2>2 DEF Replaced, OnQueue
  <1>4. CASE PutPiece(m)
    <2>1. Known(p)'
      BY <1>1, <1>4 DEF PutPiece, Put, Known, Absent, TypeOK, position
    <2>2. QED
      BY <1>4, <2>1 DEF PutPiece, Replaced, position
  <1>5. CASE OfferPiece(m)
    BY <1>5 DEF OfferPiece, Replaced, position
  <1>6. CASE HandlerErrs(m)
    <2>1. Dropped(m.to, p)'
      BY <1>6 DEF HandlerErrs, Drop, Dropped, position
    <2>2. QED
      BY <2>1 DEF Replaced
  <1>7. CASE HandlerDies(m)
    <2>1. OnQueue(m.to, p)'
      <3>1. CASE Spent(m)
        BY <1>7, <3>1 DEF HandlerDies, OnQueue, position
      <3>2. CASE ~Spent(m)
        <4> DEFINE back == [m EXCEPT !.step = "visible", !.receives = @ + 1]
        <4>1. back.to = m.to /\ back.piece = p
          BY <1>1 DEF Message
        <4>2. (messages \ {m}) \union Returned(m) \subseteq messages'
          BY <1>7 DEF HandlerDies, Effected, position
        <4>3. back \in messages'
          BY <3>2, <4>2 DEF Returned
        <4>4. QED
          BY <4>1, <4>3 DEF OnQueue
      <3>3. QED
        BY <3>1, <3>2
    <2>2. QED
      BY <2>1 DEF Replaced
  <1>8. QED
    BY <1>2, <1>3, <1>4, <1>5, <1>6, <1>7 DEF Handle

LEMMA HandlerFrame ==
    ASSUME NEW m \in messages, Handle(m) \/ HandlerErrs(m) \/ HandlerDies(m)
    PROVE  messages \ {m} \subseteq messages' /\ UNCHANGED <<stored, at>>
  <1>1. \A rest : Effected(m, rest) => rest \subseteq messages'
    BY DEF Effected
  <1>2. QED
    BY <1>1 DEF Handle, ComputePiece, CheckPiece, PutPiece, OfferPiece, HandlerErrs, HandlerDies, position

\* A piece comes to be known by a put.
LEMMA KnownNow ==
    ASSUME TypeOK, PageInv, [Next]_vars, NEW p \in Piece, ~Known(p), Known(p)'
    PROVE  Put(p) /\ UNCHANGED at
  <1>1. CASE UNCHANGED table
    BY <1>1 DEF table, Known
  <1>2. ASSUME NEW q \in Piece, Put(q), q # p PROVE FALSE
    BY <1>2 DEF Put, Known, TypeOK
  <1>3. ASSUME NEW q \in Piece, Update(q) PROVE FALSE
    BY <1>3 DEF Update, Known, TypeOK
  <1>4. QED
    BY <1>1, <1>2, <1>3, TableStep

LEMMA HandlerAccounts ==
    ASSUME TypeOK, PageInv, [Next]_vars, NEW p \in Piece \ Mismatched, CarAccounted(p), PieceAccounted(p),
           NEW m \in messages, Handle(m) \/ HandlerErrs(m) \/ HandlerDies(m)
    PROVE  CarAccounted(p)' /\ PieceAccounted(p)'
  <1>1. m.piece = p => Replaced(m, p)
    BY HandlerReplaces
  <1>2. /\ messages \ {m} \subseteq messages' /\ stored' = stored /\ at' = at
        /\ offered \subseteq offered' /\ dlq \subseteq dlq'
    BY HandlerFrame, NotedStays
  <1>3. Known(p) => Known(p)'
    BY KnownStays
  <1>4. \A q : OnQueue(q, p) => OnQueue(q, p)' \/ (m.to = q /\ m.piece = p)
    BY <1>2, QueueStays
  <1>5. CarAccounted(p)'
    <2> SUFFICES ASSUME p \in stored, ~Known(p)'
                 PROVE  \/ OnQueue("compute", p)' \/ OnQueue("submit", p)'
                        \/ \E s \in {"event", "compute", "submit"} : Dropped(s, p)'
      BY <1>2 DEF CarAccounted
    <2>1. \/ OnQueue("compute", p) \/ OnQueue("submit", p)
          \/ \E s \in {"event", "compute", "submit"} : Dropped(s, p)
      BY <1>3 DEF CarAccounted
    <2>2. CASE \E s \in {"event", "compute", "submit"} : Dropped(s, p)
      BY <2>2, DroppedStays
    <2>3. CASE OnQueue("compute", p)
      BY <1>1, <1>3, <1>4, <2>3 DEF Replaced
    <2>4. CASE OnQueue("submit", p)
      BY <1>1, <1>3, <1>4, <2>4 DEF Replaced
    <2>5. QED
      BY <2>1, <2>2, <2>3, <2>4
  <1>6. PieceAccounted(p)'
    <2>1. CASE ~Known(p) /\ Known(p)'
      BY <2>1, KnownNow, PutIsAhead DEF PieceAccounted
    <2>2. CASE Known(p)
      <3>1. Ahead(p) => Ahead(p)'
        BY <1>2, AheadStays
      <3>2. OnQueue("offer", p) => p \in offered' \/ OnQueue("offer", p)' \/ Dropped("offer", p)'
        BY <1>1, <1>4 DEF Replaced
      <3>3. \A s : Dropped(s, p) => Dropped(s, p)'
        BY DroppedStays
      <3>4. QED
        BY <1>2, <2>2, <3>1, <3>2, <3>3 DEF PieceAccounted
    <2>3. QED
      BY <2>1, <2>2 DEF PieceAccounted
  <1>7. QED
    BY <1>5, <1>6

\* The other steps take no message away.
LEMMA OthersAccount ==
    ASSUME TypeOK, PageInv, [Next]_vars, NEW p \in Piece \ Mismatched, CarAccounted(p), PieceAccounted(p),
           messages \subseteq messages',
           p \in stored' => p \in stored \/ OnQueue("compute", p)' \/ Dropped("event", p)',
           Ahead(p) => \/ Ahead(p)' \/ OnQueue("offer", p)' \/ Dropped("submitInsert", p)'
    PROVE  CarAccounted(p)' /\ PieceAccounted(p)'
  <1>1. \A q : OnQueue(q, p) => OnQueue(q, p)'
    BY NotedStays DEF OnQueue
  <1>2. \A s : Dropped(s, p) => Dropped(s, p)'
    BY DroppedStays
  <1>3. Known(p) => Known(p)'
    BY KnownStays
  <1>4. CarAccounted(p)'
    BY <1>1, <1>2, <1>3 DEF CarAccounted
  <1>5. PieceAccounted(p)'
    <2>1. CASE ~Known(p) /\ Known(p)'
      BY <2>1, KnownNow, PutIsAhead DEF PieceAccounted
    <2>2. CASE Known(p)
      BY <1>1, <1>2, <2>2, NotedStays DEF PieceAccounted
    <2>3. QED
      BY <2>1, <2>2 DEF PieceAccounted
  <1>6. QED
    BY <1>4, <1>5

\* The consumer of inserts passes the first that is ahead.
LEMMA PassedInsert ==
    ASSUME TypeOK, PageInv, [Next]_vars, NEW p \in Piece, Ahead(p),
           NEW i \in Heads("submitInsert"), Pass("submitInsert", i), UNCHANGED stream
    PROVE  stream[i].piece = p \/ Ahead(p)'
  <1>1. PICK j \in at["submitInsert"] + 1..Len(stream) : stream[j].piece = p /\ stream[j].kind = "INSERT"
    BY DEF Ahead
  <1>2. /\ at["submitInsert"] \in 0..Len(stream) /\ Len(stream) \in Nat
        /\ i \in at["submitInsert"] + 1..Len(stream) /\ at'["submitInsert"] = i
    BY DEF TypeOK, Consumer, Heads, Pass
  <1>3. CASE j < i
    <2>1. j \in at["submitInsert"] + 1..i - 1
      BY <1>1, <1>2, <1>3
    <2>2. QED
      BY <1>1, <2>1 DEF Heads, Concerns
  <1>4. CASE j = i
    BY <1>1, <1>4
  <1>5. CASE j > i
    <2>1. j \in at'["submitInsert"] + 1..Len(stream')
      BY <1>1, <1>2, <1>5
    <2>2. QED
      BY <1>1, <2>1 DEF Ahead
  <1>6. QED
    BY <1>1, <1>2, <1>3, <1>4, <1>5
LEMMA NextAccounted ==
    ASSUME TypeOK, PageInv, PiecesAccounted, [Next]_vars
    PROVE  PiecesAccounted'
  <1> SUFFICES ASSUME NEW p \in Piece \ Mismatched
               PROVE  CarAccounted(p)' /\ PieceAccounted(p)'
    BY DEF PiecesAccounted, CarAccounted, PieceAccounted, Ahead
  <1>1. CarAccounted(p) /\ PieceAccounted(p)
    BY AccountedParts
  <1>2. \A m : m \in messages' /\ m.to = "compute" /\ m.piece = p => OnQueue("compute", p)'
    BY DEF OnQueue
  <1>3. ASSUME NEW q \in Piece, StoreCar(q) PROVE CarAccounted(p)' /\ PieceAccounted(p)'
    <2>1. messages \subseteq messages' /\ UNCHANGED at /\ stored' = stored \union {q}
      BY <1>3 DEF StoreCar, position
    <2>2. p \in stored' => p \in stored \/ OnQueue("compute", p)' \/ Dropped("event", p)'
      <3> SUFFICES ASSUME q = p PROVE OnQueue("compute", p)' \/ Dropped("event", p)'
        BY <2>1
      <3>1. NewMessage("compute", p) \in messages' \/ Dropped("event", p)'
        BY <1>3 DEF StoreCar, Drop, Dropped, position
      <3>2. QED
        BY <1>2, <3>1, NewMessageType DEF Queue
    <2>3. Ahead(p) => Ahead(p)'
      BY <2>1, AheadStays
    <2>4. QED
      BY <1>1, <2>1, <2>2, <2>3, OthersAccount
  <1>4. ASSUME messages \subseteq messages', UNCHANGED <<stored, at>>
        PROVE  CarAccounted(p)' /\ PieceAccounted(p)'
    <2>1. Ahead(p) => Ahead(p)'
      BY <1>4, AheadStays
    <2>2. QED
      BY <1>1, <1>4, <2>1, OthersAccount
  <1>5. ASSUME NEW q \in Piece, ClientOffer(q) \/ Answer(q)
        PROVE  CarAccounted(p)' /\ PieceAccounted(p)'
    BY <1>4, <1>5 DEF ClientOffer, Answer, queues, position
  <1>6. ASSUME NEW m \in messages, Handle(m) \/ HandlerErrs(m) \/ HandlerDies(m)
        PROVE  CarAccounted(p)' /\ PieceAccounted(p)'
    BY <1>1, <1>6, HandlerAccounts
  <1>7. ASSUME NEW c \in {"claim", "status"}, NEW i \in Heads(c), Pass(c, i),
               messages \subseteq messages', UNCHANGED stored
        PROVE  CarAccounted(p)' /\ PieceAccounted(p)'
    <2>1. at'["submitInsert"] = at["submitInsert"]
      BY <1>7 DEF Pass, TypeOK, Consumer
    <2>2. Ahead(p) => Ahead(p)'
      BY <2>1, AheadStays
    <2>3. QED
      BY <1>1, <1>7, <2>2, OthersAccount
  <1>8. CASE QueryClaims \/ PublishClaim \/ AnnouncePiece
    <2>1. CASE QueryClaims
      BY <1>4, <1>7, <2>1 DEF QueryClaims, queues
    <2>2. CASE PublishClaim \/ AnnouncePiece
      BY <1>7, <2>2 DEF PublishClaim, AnnouncePiece, queues
    <2>3. QED
      BY <1>8, <2>1, <2>2
  <1>9. CASE SubmitPiece
    <2>1. PICK i \in Heads("submitInsert") :
            /\ messages' = messages \union {NewMessage("offer", stream[i].piece)}
            /\ Pass("submitInsert", i) /\ UNCHANGED <<stored, stream>>
      BY <1>9 DEF SubmitPiece, table
    <2>2. stream[i].piece = p => OnQueue("offer", p)'
      <3>1. NewMessage("offer", stream[i].piece) \in messages'
        BY <2>1
      <3>2. QED
        BY <3>1, NewMessageType DEF OnQueue, Queue
    <2>3. Ahead(p) => Ahead(p)' \/ OnQueue("offer", p)'
      BY <2>1, <2>2, PassedInsert
    <2>4. QED
      BY <1>1, <2>1, <2>3, OthersAccount
  <1>10. ASSUME NEW c \in Consumer, ConsumerErrs(c) \/ Expire(c) PROVE CarAccounted(p)' /\ PieceAccounted(p)'
    <2>1. PICK i \in Heads(c) :
            /\ Effect(c, stream[i]) \/ UNCHANGED messages
            /\ Drop(c, stream[i].piece) /\ Pass(c, i)
            /\ UNCHANGED <<stored, stream>>
      BY <1>10 DEF ConsumerErrs, Expire, table, queues
    <2>2. messages \subseteq messages'
      BY <2>1 DEF Effect
    <2>3. CASE c = "submitInsert"
      <3>1. stream[i].piece = p => Dropped("submitInsert", p)'
        BY <2>1, <2>3 DEF Drop, Dropped
      <3>2. Ahead(p) => Ahead(p)' \/ Dropped("submitInsert", p)'
        BY <2>1, <2>3, <3>1, PassedInsert
      <3>3. QED
        BY <1>1, <2>1, <2>2, <3>2, OthersAccount
    <2>4. CASE c # "submitInsert"
      BY <1>7, <2>1, <2>2, <2>4 DEF Consumer
    <2>5. QED
      BY <2>3, <2>4
  <1>11. ASSUME NEW c \in Consumer, ConsumerDies(c) PROVE CarAccounted(p)' /\ PieceAccounted(p)'
    BY <1>4, <1>11 DEF ConsumerDies, Effect
  <1>12. ASSUME NEW t \in Tick, Run(t) \/ TickFails(t) PROVE CarAccounted(p)' /\ PieceAccounted(p)'
    BY <1>4, <1>12 DEF Run, TickPage, TickPiece, TickEnd, TickFails, queues, position
  <1>13. CASE UNCHANGED vars
    BY <1>4, <1>13 DEF vars, queues, position
  <1>14. QED
    BY <1>3, <1>5, <1>6, <1>8, <1>9, <1>10, <1>11, <1>12, <1>13 DEF Next, Consume

(***************************************************************************)
(* No piece vanishes between the bucket and the aggregator without a       *)
(* trace, whatever fails or dies and however often messages are received.  *)
(***************************************************************************)
THEOREM EveryPieceIsAccounted == Spec => []PiecesAccounted
  <1>1. Init => PiecesAccounted
    BY DEF Init, PiecesAccounted, Known
  <1>2. TypeOK /\ PageInv /\ PiecesAccounted /\ [Next]_vars
        => TypeOK' /\ PageInv' /\ PiecesAccounted'
    BY NextType, NextPage, NextAccounted
  <1>3. QED
    BY InitTyped, <1>1, <1>2, PTL DEF Spec
==============================================================================
