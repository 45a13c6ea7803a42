-------------------------- MODULE FilecoinPipelineMC --------------------------
(* An instance of the Filecoin pipeline for TLC. *)
EXTENDS FilecoinPipelineProperties, TLC

\* Clients offer each piece once.
OneOfferEach == [p \in Piece |-> 1]

Scenario(ps, kinds, n) == [pieces |-> ps, faults |-> kinds, most |-> n]

\* A CAR whose piece a client offers too, with two failures of any kind; that piece
\* and another one, with one failure of an indexer or of a run of the cron; an offer
\* of something that is not its piece.
CarAndClient == Scenario({1}, FaultKind, 2)
TwoPieces == Scenario({1, 2}, {"throw", "tick"}, 1)
Mismatch == Scenario({3}, {"error", "die"}, 2)

AllScenarios == {CarAndClient, TwoPieces, Mismatch}
=============================================================================
