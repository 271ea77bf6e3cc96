SPECIFICATION Spec
CONSTANTS
    alice = alice
    bob = bob
    Actors = {"rpc", "miner"}
    Hashes = {1}
    Fee <- MCFee
    cap = 2
    Senders = {alice, bob}
    Sender <- MCSender
    Nonce <- MCNonce
    KnownForm <- MCKnownForm
    Covers <- MCCovers
    EffectFails <- MCEffectFails
    Reward <- MCReward
    NextBits <- MCSteadyBits
    GenesisBits = 7
    GenesisTime = 0
    Skew = 1
    BlockTxs = 3
    None = None
    IoErrors = FALSE
    Faults = 0
    MaxTime = 0
    MaxHeight = 2
    MaxOffered = 1
    MaxBody = 1
    MaxIds = 6
    ListCap = 2
    PointCap = 2
    Retries = FALSE
    OrderlyWallets = FALSE
INVARIANTS
    ChainLinked

\* Every behaviour of the bounded model ends at height MaxHeight and time MaxTime.
CHECK_DEADLOCK FALSE
