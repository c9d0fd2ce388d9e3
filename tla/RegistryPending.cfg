SPECIFICATION Spec
CONSTANTS
    a1 = a1
    a2 = a2
    k1 = k1
    k2 = k2
    k3 = k3
    v1 = v1
    v2 = v2
    v3 = v3
    none = none
    NoPubkey = none
    UpgradeAuthority = a2
    Authorities <- MCAuthorities
    ValidatorKeys <- MCOneKey
    Validators <- MCNoValidators
    Stakes <- MCOneStake
    Projections <- MCNoProjections
    Graces <- MCNoGrace
    InitialLayouts <- MCLayouts
    Fees <- MCNoFees
    MigrationFees <- MCNoFees
    Genesis = 3
    Horizon = 0
    RentMin = 2
    MaxGrace = 2
    MaxTreasury = 2
    MaxVault = 0
INVARIANT
    PendingProposedByCurrentAdmin
