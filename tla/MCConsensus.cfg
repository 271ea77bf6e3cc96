SPECIFICATION ChainSpec
CONSTANTS
    R0 = 16
    initial_reward = 16
    t_h = 8
    target = 2
    supply_cap = 128
    Scheduled <- scheduled_supply_at
    EpochReward <- epoch_reward
    target_block_time = 2
    pct = 25
    bootstrap_height = 3
    bootstrap_pct = 50
    MaxTime = 18
    MaxHeight = 8
    Byte = 32
    N = 6
    Q = 128
    LN2 = 89
    spacing = 2
    boot_height = 3
    boot_tau = 8
    tau = 40
    Limb = 6
    InitialBits <- MCInitialBits
INVARIANTS
    OvershootBounded
    RetargetExact
PROPERTIES
    AheadPaysLess
    CeilingHolds
    StepWithin8Percent
    FollowsSchedule
\* Every behaviour of the bounded model ends at height MaxHeight.
CHECK_DEADLOCK FALSE
