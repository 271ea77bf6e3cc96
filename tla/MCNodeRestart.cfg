SPECIFICATION Spec
CONSTANTS
    alice = alice
    bob = bob
    Actors = {"rpc"}
    Hashes = {3, 6}
    Fee <- MCFee
    cap = 1
    Senders = {alice, bob}
    Sender <- MCSender
    Nonce <- MCNonce
    KnownForm <- MCKnownForm
    Covers <- MCCovers
    EffectFails <- MCEffectFails
    Reward <- MCReward
    NextBits <- MCSteadyBits
    GenesisBits = 7
    GenesisTime = 1
    Skew = 1
    BlockTxs = 3
    None = None
    IoErrors = FALSE
    Faults = 1
    MaxTime = 2
    MaxHeight = 3
    MaxOffered = 1
    MaxBody = 1
    MaxIds = 6
    ListCap = 2
    PointCap = 2
    Retries = FALSE
    OrderlyWallets = FALSE
INVARIANTS
    WholeLogStarts

\* Every behaviour of the bounded model ends at height MaxHeight and time MaxTime.
CHECK_DEADLOCK FALSE
