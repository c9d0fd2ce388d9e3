SPECIFICATION LeavingSpec
CONSTANTS
    a1 = a1
    a2 = a2
    k1 = k1
    k2 = k2
    k3 = k3
    v1 = v1
    v2 = v2
    v3 = v3
    none = none
    NoPubkey = none
    UpgradeAuthority = a2
    Authorities <- MCAuthorities
    ValidatorKeys <- MCOneKey
    Validators <- MCValidators
    Stakes <- MCStakes
    Projections <- MCNoProjections
    Graces <- MCNoGrace
    InitialLayouts <- MCStakingLayouts
    Fees <- MCFees
    MigrationFees <- MCNoFees
    Genesis = 3
    Horizon = 0
    RentMin = 2
    MaxGrace = 2
    MaxTreasury = 4
    MaxVault = 8
INVARIANTS
    VaultBacksStakes
    StakeRedeemable
PROPERTIES
    StakeReturned
    TreasuryKeepsRent
