---------------------------- MODULE ActivityRing ---------------------------
(***************************************************************************)
(* The weekly activity ring of an identity and the Trust Score computed    *)
(* from it.  Pure operators: entros-anchor uses them in every update.      *)
(*                                                                         *)
(* A ring is a sequence of RingLen timestamps, newest first, zero where no *)
(* entry has been recorded yet.                                            *)
(***************************************************************************)
EXTENDS Integers, Sequences, FiniteSets

CONSTANTS
    RingLen,       \* slots of recent_timestamps (52)
    RegistrySlots, \* slots of compute_trust_score's argument (10)
    BinSize,       \* BIN_SIZE_SECS
    NumBins,       \* NUM_BINS, bins of the scoring window
    DaySize,       \* seconds in a day
    MaxTrustScore,        \* ProtocolConfig.max_trust_score
    BaseTrustIncrement    \* ProtocolConfig.base_trust_increment

ASSUME RingAssumption ==
    /\ RingLen \in Nat \ {0}
    /\ RegistrySlots \in 1 .. RingLen
    /\ BinSize \in Nat \ {0}
    /\ NumBins \in 1 .. RingLen    \* 12 bins, 52 slots
    /\ DaySize \in Nat \ {0}
    /\ MaxTrustScore \in Nat
    /\ BaseTrustIncrement \in Nat

Bins == 0 .. (NumBins - 1)

EmptyRing == [i \in 1 .. RingLen |-> 0]

\* Faults: the ring records too often, or too rarely.
OpensOnEveryTick(ring, t) == ring[1] = 0 \/ t > ring[1]
OpensEverySecondBin(ring, t) == ring[1] = 0 \/ t - ring[1] >= 2 * BinSize

\* record_verification: an entry is written only when it opens a new bin.
OpensNewBin(ring, t) == ring[1] = 0 \/ t - ring[1] >= BinSize

RecordVerification(ring, t) ==
    IF OpensNewBin(ring, t)
      THEN [i \in 1 .. RingLen |-> IF i = 1 THEN t ELSE ring[i - 1]]
      ELSE ring

\* The bin of a timestamp, counted back from t.  Rust's division truncates
\* towards zero, so an entry less than a bin ahead of the clock is in bin 0;
\* one further ahead is negative and becomes a huge usize, in no bin.
BinOf(t, entry) ==
    IF t >= entry THEN (t - entry) \div BinSize
    ELSE IF entry - t < BinSize THEN 0 ELSE NumBins

ActiveBins(entries, t) ==
    {BinOf(t, e) : e \in entries \ {0}} \cap Bins

RingEntries(ring) == {ring[i] : i \in 1 .. RingLen}

\* Fault: an old bin weighs as much as a new one.
FlatWeight(k) == BaseTrustIncrement

\* The weight of one active bin, in integer arithmetic.
BinWeight(k) == (BaseTrustIncrement * (NumBins - k)) \div NumBins

\* The sum of the weights of the active bins, added up bin by bin.
WeightsUpTo(weights, active) ==
    LET upTo[k \in 0 .. NumBins] ==
            IF k = 0 THEN 0
            ELSE upTo[k - 1] + (IF k - 1 \in active THEN weights[k - 1] ELSE 0)
    IN upTo
WeightSum(weights, active) == WeightsUpTo(weights, active)[NumBins]

BaseScore(active) == WeightSum([k \in Bins |-> BinWeight(k)], active)

\* isqrt: Newton's iteration from above, stopped at the first non-decrease.
Better(x, n) == (x + n \div x) \div 2

Newton(n) ==
    LET from[x \in 1 .. n] ==
            IF Better(x, n) < x THEN from[Better(x, n)] ELSE x
    IN from

\* Fault: the iteration stops after one step.
IsqrtOneStep(n) ==
    IF n = 0 THEN 0 ELSE LET x == (n + 1) \div 2 IN (x + n \div x) \div 2
Isqrt(n) ==
    IF n = 0 THEN 0
    ELSE IF (n + 1) \div 2 < n THEN Newton(n)[(n + 1) \div 2] ELSE n

\* Capped at u16 max_trust_score; a negative age counts as no age.
AgeBonus(creation, t) ==
    LET days == IF t < creation THEN 0 ELSE (t - creation) \div DaySize
    IN Isqrt(IF days > 365 THEN 365 ELSE days) * 4

TrustScore(entries, creation, t) ==
    LET total == BaseScore(ActiveBins(entries, t)) + AgeBonus(creation, t)
    IN IF total \in 0 .. MaxTrustScore THEN total ELSE MaxTrustScore

----------------------------------------------------------------------------
(* The registry's own score                                                *)

\* isqrt, a copy of the iteration in the other program
RegistryNewton(n) ==
    LET from[x \in 1 .. n] ==
            IF (x + n \div x) \div 2 < x THEN from[(x + n \div x) \div 2] ELSE x
    IN from
RegistryIsqrt(n) ==
    IF n = 0 THEN 0
    ELSE IF (n + 1) \div 2 < n THEN RegistryNewton(n)[(n + 1) \div 2] ELSE n

\* Fault: the weight as it was before it was normalised to the increment.
RegistryWeightUnscaled(k) == BaseTrustIncrement * (NumBins - k)
RegistryWeight(k) == (BaseTrustIncrement * (NumBins - k)) \div NumBins

\* compute_trust_score scores the timestamps and the creation time that it
\* is given, whatever they are, and reports the result in an event.
ComputeTrustScore(recent, creation, t) ==
    LET active == ActiveBins({recent[i] : i \in DOMAIN recent}, t)
        days == IF t < creation THEN 0 ELSE (t - creation) \div DaySize
        total == WeightSum([k \in Bins |-> RegistryWeight(k)], active)
                   + RegistryIsqrt(IF days > 365 THEN 365 ELSE days) * 4
    IN IF total < MaxTrustScore THEN total ELSE MaxTrustScore
============================================================================
