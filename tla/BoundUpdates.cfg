SPECIFICATION QuietSpec
CONSTANTS
    w1 = w1
    w2 = w2
    c1 = c1
    c2 = c2
    n1 = n1
    n2 = n2
    k1 = k1
    k2 = k2
    a1 = a1
    none = none
    noc = noc
    non = non
    NoPubkey = none
    NoCommitment = noc
    NoNonce = non
    UpgradeAuthority = a1
    Authorities <- OneAuthority
    ValidatorKeys <- OneKey
    Validators <- MCNone
    Stakes <- ZeroOnly
    Fees <- ZeroOnly
    MigrationFees <- ZeroOnly
    Projections <- ZeroOnly
    Graces <- ZeroOnly
    InitialLayouts <- Current
    Genesis = 4
    Horizon = 2
    RentMin = 0
    MaxGrace = 2
    MaxTreasury = 0
    MaxVault = 0
    RequestBound = TRUE
    Wallets <- OneWallet
    Commitments <- TwoCommitments
    Scalars <- TwoCommitments
    Nonces <- TwoNonces
    HammingInputs <- Hamming
    ChallengeExpiry = 1
    MaxRequestLifetime = 1
    CurrentIdentityLen = 593
    RingLen = 3
    RegistrySlots = 2
    BinSize = 2
    NumBins = 2
    DaySize = 1
    MaxTrustScore = 9
    BaseTrustIncrement = 4
    MaxProofAge = 2
    MaxReceiptAge = 1
    ResetCooldown = 2
    RebaselineCooldown = 3
    MaxCounter = 3
    MaxCount = 3
    OldIdentityLens <- MCNone
    OldLives <- Unverified
    MaxLineages = 1
    MaxSigned = 3
    MaxProofs = 2
    ClockSkew = 0
    SignedPurposes <- MintUpdateReset
    SignedVersions <- PlainAndDigest
INVARIANTS
    NoProofSpentTwice
    BoundResultFresh
    LifeInOrder
    ReputationIsEarned
PROPERTIES
    ImplementsLedger
CHECK_DEADLOCK FALSE
