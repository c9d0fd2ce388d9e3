-------------------------- MODULE ActivityHistory --------------------------
(***************************************************************************)
(* One identity that verifies at arbitrary times: the ring that            *)
(* entros-anchor keeps beside the full history it stands for, and the      *)
(* score it last wrote.                                                    *)
(***************************************************************************)
EXTENDS ActivityRing

CONSTANTS
    Start,      \* time of the mint
    MaxTime     \* bound: the clock stops here

ASSUME HistoryAssumption == Start \in Nat \ {0} /\ MaxTime \in Nat

VARIABLES
    time,       \* the clock
    ring,       \* IdentityState.recent_timestamps
    score,      \* IdentityState.trust_score
    history     \* every verification so far

historyVars == <<time, ring, score, history>>

Init ==
    /\ time = Start
    /\ ring = EmptyRing
    /\ score = 0
    /\ history = {}

Verify ==
    /\ ring' = RecordVerification(ring, time)
    /\ score' = TrustScore(RingEntries(ring'), Start, time)
    /\ history' = history \cup {time}
    /\ UNCHANGED time

Pass ==
    /\ time < MaxTime
    /\ time' = time + 1
    /\ UNCHANGED <<ring, score, history>>

Next == Verify \/ Pass

Spec == Init /\ [][Next]_historyVars

----------------------------------------------------------------------------
(* Properties                                                              *)

\* The ring is newest first, a bin apart from slot to slot, and its unused
\* slots are the last ones.
RingIsSpaced ==
    \A i \in 1 .. RingLen - 1 :
        ring[i + 1] # 0 => ring[i] - ring[i + 1] >= BinSize

\* "Makes the 52 slots cover a full year no matter how often a wallet
\* verifies": a verification younger than RingLen - 1 bins still has an entry
\* less than a bin older than itself.
RingCoversYear ==
    \A h \in history :
        time - h <= (RingLen - 1) * BinSize =>
            \E r \in RingEntries(ring) \ {0} : r <= h /\ h - r < BinSize

\* What the rate limit costs: a bin the full history would activate is active
\* from the ring, or the next older one is.
BinsNearlyKept ==
    \A k \in ActiveBins(history, time) :
        \/ {k, k + 1} \cap ActiveBins(RingEntries(ring), time) # {}
        \/ k + 1 = NumBins

\* "Span over frequency": apart from the age bonus, a score is at most what
\* one verification in each of the newest n bins is worth, n being the bins
\* the time from the first to the latest verification touches, however many
\* verifications there were.  Bin k is worth (NumBins - k) / NumBins of the
\* increment, so n of them are worth n (2 NumBins - n + 1) / (2 NumBins).
Span == (CHOOSE t \in history : \A h \in history : t >= h)
          - (CHOOSE t \in history : \A h \in history : t <= h)
BinsSpanned == IF Span \div BinSize + 1 < NumBins THEN Span \div BinSize + 1
                                               ELSE NumBins
SpanOverFrequency ==
    time \in history =>
        2 * NumBins * (score - AgeBonus(Start, time))
            <= BaseTrustIncrement * BinsSpanned
                 * (2 * NumBins - BinsSpanned + 1)

\* The claim of record_verification's comment: an entry that is not recorded
\* would have added nothing to the scores written later.
SkippedEntryAddsNothing ==
    time \in history => score = TrustScore(history, Start, time)

\* A client that asks the registry to score the newest entries of an identity
\* is never told more than the identity's own score, and exactly that score
\* while the activity fits the registry's shorter argument: the spacing of
\* the ring keeps two entries from sharing a bin and crowding one out.
NewestEntries == [i \in 1 .. RegistrySlots |-> ring[i]]
RegistryAgrees ==
    time \in history =>
        LET reported == ComputeTrustScore(NewestEntries, Start, time)
            active == ActiveBins(RingEntries(ring), time)
        IN /\ reported <= score
           /\ Cardinality(active) <= RegistrySlots => reported = score

\* isqrt rounds down: the largest integer whose square does not exceed n,
\* for every age in days up to the cap (one residue class per clock value);
\* and the two programs' copies of it agree.
IsqrtIsFloor ==
    history = {} =>
        \A n \in {d \in 0 .. 365 : d % MaxTime = time % MaxTime} :
            /\ Isqrt(n) * Isqrt(n) <= n
            /\ n < (Isqrt(n) + 1) * (Isqrt(n) + 1)
            /\ RegistryIsqrt(n) = Isqrt(n)
============================================================================
