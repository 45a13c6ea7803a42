\* What becomes of a CAR, its claim and its announcement, beside other offers and
\* with failures anywhere, and where everything ends.
SPECIFICATION FairSpec
CONSTANTS
    Piece = {1, 2, 3}
    Cars = {1}
    Mismatched = {3}
    Copies <- OneOfferEach
    Tick = {t1}
    PageSize = 1
    MaxReceive = 2
    Scenarios <- AllScenarios
INVARIANTS PiecesAccounted AnnouncedIsAnswered
PROPERTIES PiecesSettle PiecesClaimed
CHECK_DEADLOCK FALSE
