SPECIFICATION Spec
CONSTANTS
    p1 = p1
    p2 = p2
    Peers <- MCPeers
    Topics <- MCTopics
    OtherTopic = "other"
    Never = Never
    MaxSent = 3
    Cells <- MCCells
    Values = {1, 2}
    Leftovers <- MCLeftovers
    NoRoot = NoRoot
    MaxFaults = 2
    Hashes = {1, 2, 3, 4, 5}
    Fee <- MCFee
    cap = 3
    MaxMillis = 3
    b1 = b1
    b2 = b2
    Blocks <- MCBlocks
    LenCells = 2
    BodyCells = 1
    None = None
    IoErrors = TRUE
    PowerLoss = TRUE
    MaxRecords = 3
SYMMETRY Symmetry
INVARIANTS
    AnswersLikeMemState
    WithinCap
    ReadableMeansCached
    AckedSurvives
PROPERTIES
    DeliversLikeGossip
    OneOutOneIn
\* A log that cannot be read back ends the behaviour: the node does not start again.
CHECK_DEADLOCK FALSE
