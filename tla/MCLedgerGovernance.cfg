SPECIFICATION Spec
CONSTANTS
    a = a
    b = b
    ka = ka
    kb = kb
    alg = alg
    alg2 = alg2
    j1 = j1
    s1 = s1
    s2 = s2
    Accounts = {a, b}
    Keys = {ka, kb}
    Derive <- MCDerive
    NoKey = NoKey
    Algos = {alg, alg2}
    AllowedAlgos = {alg}
    Jobs = {j1}
    Items = {1}
    Signers = {s1, s2}
    None = None
    Bodies <- MCBodies
    Miners = {b}
    Rewards = {1}
    GenesisFiles <- MCGenesis
    MaxAmount = 8
    MaxBlocks = 3
INVARIANTS
    CommitteeCanAct
    RotationOnTime
PROPERTIES
    GovernedByCommittee
\* Every behaviour of the bounded model ends after MaxBlocks blocks.
CHECK_DEADLOCK FALSE
