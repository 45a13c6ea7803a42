---------------------- MODULE FilecoinPipelineProperties ----------------------
(* Where the pieces of the pipeline are, and where they end.                *)
EXTENDS FilecoinPipeline

Message ==
    [to : Queue, piece : Piece, nth : Nat \ {0}, receives : 0..MaxReceive - 1,
     step : {"visible", "put"}]

TypeOK ==
    /\ scenario \in Scenarios
    /\ stored \subseteq Piece
    /\ messages \subseteq Message /\ dlq \subseteq Message
    /\ made \in [Queue -> [Piece -> Nat]] /\ clock \in Nat
    /\ \A m \in messages : m.nth <= made[m.to][m.piece]
    /\ pieces \in [Piece -> [stat : Stat, at : 1..clock] \union {Absent}]
    /\ stream \in Seq([piece : Piece, kind : {"INSERT", "MODIFY"}, stat : Stat])
    /\ at \in [Consumer -> 0..Len(stream)] /\ looked \in BOOLEAN
    /\ claims \in [Piece -> Nat] /\ offered \subseteq Piece
    /\ answer \in [Piece -> {"none", "accepted", "invalid"}]
    /\ announced \subseteq [piece : Piece, stat : {"accepted", "invalid"}]
    /\ tick \in [Tick -> [pc : {"rest", "run"}, cursor : 0..clock, page : SUBSET Piece, more : BOOLEAN]]
    /\ dropped \subseteq [stage : Stage, piece : Piece]
    /\ faults \in 0..scenario.most

-----------------------------------------------------------------------------
Dropped(stage, p) == [stage |-> stage, piece |-> p] \in dropped

OnQueue(q, p) == \E m \in messages \union dlq : m.to = q /\ m.piece = p

(***************************************************************************)
(* No piece vanishes between the bucket and the aggregator without a       *)
(* trace: a CAR that was stored has its piece in the table, or on its way  *)
(* there, and a piece of the table is with the aggregator, on its way, or  *)
(* ahead of the consumer; else a message about it is dead-lettered, its    *)
(* record was dropped by the stream, or one handler answered with an       *)
(* error. A retry, an offer of the same piece by a client and a put that   *)
(* is made twice do not lose it.                                           *)
(***************************************************************************)
PiecesAccounted ==
    \A p \in Piece \ Mismatched :
        /\ p \in stored => \/ Known(p) \/ OnQueue("compute", p) \/ OnQueue("submit", p)
                           \/ \E s \in {"event", "compute", "submit"} : Dropped(s, p)
        /\ Known(p) => \/ p \in offered \/ OnQueue("offer", p)
                       \/ \E i \in at["submitInsert"] + 1 .. Len(stream) :
                            stream[i].piece = p /\ stream[i].kind = "INSERT"
                       \/ \E s \in {"submitInsert", "offer"} : Dropped(s, p)

(***************************************************************************)
(* What is announced as filecoin/accept is what the aggregator answered: a *)
(* piece that is put again while the cron runs, records of the stream      *)
(* taken twice and runs that fail announce nothing else.                   *)
(***************************************************************************)
AnnouncedIsAnswered ==
    \A a \in announced : answer[a.piece] = a.stat

-----------------------------------------------------------------------------
\* The aggregator has the piece, or will: nothing about it was given up.
Reaches(p) ==
    /\ Known(p)
    /\ \A s \in {"submitInsert", "offer"} : ~Dropped(s, p)
    /\ ~\E m \in dlq : m.to = "offer" /\ m.piece = p

(***************************************************************************)
(* A piece of the table that reaches the aggregator comes to have the      *)
(* status that it was answered, for good: though the cron reads an index   *)
(* in pages while its updates take pieces out of it, a run fails, and a    *)
(* second put of the piece makes it submitted again. It is then announced, *)
(* if no error was met there.                                              *)
(***************************************************************************)
PiecesSettle ==
    <>[]\A p \in Piece :
          Reaches(p) =>
            /\ answer[p] # "none" /\ pieces[p].stat = answer[p]
            /\ [piece |-> p, stat |-> answer[p]] \in announced \/ Dropped("status", p)

(***************************************************************************)
(* Every piece that is put gets its equals claim, if its handler meets no  *)
(* error and its record does not expire; an indexer that cannot be queried *)
(* delays it and those behind it, and an invocation that dies between the  *)
(* query and the claim is made up for.                                     *)
(***************************************************************************)
PiecesClaimed ==
    <>[]\A p \in Piece : Known(p) => claims[p] > 0 \/ Dropped("claim", p)
=============================================================================
