SPECIFICATION Spec
CONSTANTS
    w1 = w1
    w2 = w2
    c1 = c1
    c2 = c2
    n1 = n1
    n2 = n2
    k1 = k1
    k2 = k2
    a1 = a1
    none = none
    noc = noc
    non = non
    NoPubkey = none
    NoCommitment = noc
    NoNonce = non
    UpgradeAuthority = a1
    Authorities <- OneAuthority
    ValidatorKeys <- TwoKeys
    Validators <- MCNone
    Stakes <- ZeroOnly
    Fees <- ZeroOnly
    MigrationFees <- ZeroOnly
    Projections <- ZeroTwo
    Graces <- OneOnly
    InitialLayouts <- NoneOrOld
    Genesis = 4
    Horizon = 2
    RentMin = 0
    MaxGrace = 1
    MaxTreasury = 0
    MaxVault = 0
    RequestBound = FALSE
    Wallets <- OneWallet
    Commitments <- OneCommitment
    Scalars <- OneCommitment
    Nonces <- MCNone
    HammingInputs <- GoodHamming
    ChallengeExpiry = 1
    MaxRequestLifetime = 1
    CurrentIdentityLen = 593
    RingLen = 3
    RegistrySlots = 2
    BinSize = 2
    NumBins = 2
    DaySize = 1
    MaxTrustScore = 9
    BaseTrustIncrement = 4
    MaxProofAge = 2
    MaxReceiptAge = 2
    ResetCooldown = 3
    RebaselineCooldown = 1
    MaxCounter = 1
    MaxCount = 3
    OldIdentityLens <- MidLen
    OldLives <- UpToOnce
    MaxLineages = 1
    MaxSigned = 1
    MaxProofs = 0
    ClockSkew = 0
    SignedPurposes <- MintRebaseReset
    SignedVersions <- Plain
INVARIANTS
    RetiredKeysFade
    ProjectionNeverAhead
PROPERTIES
    ProjectionAdvances
    ImplementsLedger
CHECK_DEADLOCK FALSE
