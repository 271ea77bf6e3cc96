SPECIFICATION Spec
CONSTANTS
    a = a
    b = b
    ka = ka
    kb = kb
    alg = alg
    alg2 = alg2
    j1 = j1
    Accounts = {a, b}
    Keys = {ka, kb}
    Derive <- MCDerive
    NoKey = NoKey
    Algos = {alg, alg2}
    AllowedAlgos = {alg}
    Jobs = {j1}
    Items = {1}
    Signers = {}
    None = None
    Bodies <- MCBodies
    Miners = {a, b}
    Rewards = {0, 3}
    GenesisFiles <- MCGenesis
    MaxAmount = 8
    MaxBlocks = 3
INVARIANTS
    SupplyExact
    KeyBinding
    SenderOncePerBlock
PROPERTIES
    DebitAuthorised
\* Every behaviour of the bounded model ends after MaxBlocks blocks.
CHECK_DEADLOCK FALSE
