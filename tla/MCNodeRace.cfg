SPECIFICATION Spec
CONSTANTS
    alice = alice
    bob = bob
    Actors = {"rpc", "miner"}
    Hashes = {1, 3, 4}
    Fee <- MCFee
    cap = 2
    Senders = {alice, bob}
    Sender <- MCSender
    Nonce <- MCNonce
    KnownForm <- MCKnownForm
    Covers <- MCFunded
    EffectFails <- MCOnceRefused
    Reward <- MCReward
    NextBits <- MCSteadyBits
    GenesisBits = 7
    GenesisTime = 0
    Skew = 0
    BlockTxs = 3
    None = None
    IoErrors = TRUE
    Faults = 1
    MaxTime = 0
    MaxHeight = 2
    MaxOffered = 1
    MaxBody = 0
    MaxIds = 3
    ListCap = 2
    PointCap = 2
    Retries = TRUE
    OrderlyWallets = TRUE
INVARIANTS
    ParentsLogged
    TxOncePerLog
    LogNeverAhead

\* Every behaviour of the bounded model ends at height MaxHeight and time MaxTime.
CHECK_DEADLOCK FALSE
