SPECIFICATION Spec
CONSTANTS
    RingLen = 4
    RegistrySlots = 2
    BinSize = 3
    NumBins = 3
    DaySize = 2
    MaxTrustScore = 99
    BaseTrustIncrement = 5
    Start = 1
    MaxTime = 15
INVARIANTS
    RingIsSpaced
    RingCoversYear
    BinsNearlyKept
    SpanOverFrequency
    IsqrtIsFloor
    RegistryAgrees
