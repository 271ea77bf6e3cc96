SPECIFICATION FairSpec
CONSTANTS
    alice = alice
    bob = bob
    Actors = {"rpc", "miner"}
    Hashes = {1, 6}
    Fee <- MCFee
    cap = 2
    Senders = {alice, bob}
    Sender <- MCSender
    Nonce <- MCNonce
    KnownForm <- MCKnownForm
    Covers <- MCFunded
    EffectFails <- MCEffectFails
    Reward <- MCReward
    NextBits <- MCNextBits
    GenesisBits = 7
    GenesisTime = 0
    Skew = 0
    BlockTxs = 3
    None = None
    IoErrors = TRUE
    Faults = 2
    MaxTime = 0
    MaxHeight = 1
    MaxOffered = 1
    MaxBody = 0
    MaxIds = 5
    ListCap = 2
    PointCap = 2
    Retries = FALSE
    OrderlyWallets = TRUE
PROPERTIES
    ChainGrows

\* Every behaviour of the bounded model ends at height MaxHeight and time MaxTime.
CHECK_DEADLOCK FALSE
