---------------------------- MODULE ReceiptProofs --------------------------
(***************************************************************************)
(* Theorems about the two things that an update spends: the receipt of the *)
(* validator service and the proof that the verifier accepted.             *)
(***************************************************************************)
EXTENDS PolicyProofs, FiniteSetTheorems

----------------------------------------------------------------------------
(* What an account remembers of the receipts used on it                    *)

\* An account remembers the use of a receipt in the fields that the
\* instructions compare the next one with.
Remembered(u, id) ==
    /\ u.at <= id.last_verification_timestamp
    /\ u.receipt.version = 2 /\ u.receipt.purpose = "Reset" =>
          u.at <= id.last_reset_timestamp
    /\ u.receipt.version = 2 /\ u.receipt.purpose = "Rebaseline" =>
          u.receipt.projection <= id.projection_version

\* No receipt was used before it was signed, and the account that the lineage
\* lives in remembers every use, wherever it has moved.
MemoryInv ==
    \A u \in uses :
        /\ u.receipt.validated_at <= u.at
        /\ \A w \in Wallets :
              lineage[w] = u.lineage => Remembered(u, identities[w])

\* What every step of the system may rely on.
LifeFacts ==
    TypeInv /\ WindowInv /\ HomeInv /\ LifeInv /\ ProjectionNeverAhead /\ UsesInv

\* Types, homes and times hold at the start.
LEMMA LifeFactsInit == Init => LifeFacts
BY TypeInit, WindowAlways, HomeInit, LifeInvInit, NeverAheadInit, KeyInit
   DEF LifeFacts

\* Types, homes and times are kept by every step.
LEMMA LifeFactsStep == LifeFacts /\ [Next]_vars => LifeFacts'
BY TypeStep, WindowAlways, HomeStep, LifeStep, NeverAheadStep, UsesStep
   DEF LifeFacts

\* A lineage that lives after a step lived before it, or was born in it.
LEMMA Ancestor ==
    ASSUME TypeInv, HomeInv, [Next]_vars, NEW x \in Wallets,
           lineage'[x] # 0, lineage'[x] <= born
    PROVE  \E w \in Wallets : lineage[w] = lineage'[x]
<1>0. lineage \in [Wallets -> 0 .. MaxLineages] /\ born \in 0 .. MaxLineages
  BY DEF TypeInv, TypeOK, HistoryTypeOK
<1> DEFINE Goal == \E w \in Wallets : lineage[w] = lineage'[x]
<1>1. ASSUME NEW w \in Wallets, NEW c \in AnyCommitment, NEW r \in signed,
             Mint(w, c, r)
      PROVE  Goal
  <2>1. lineage' = [lineage EXCEPT ![w] = born + 1]
    BY <1>1 DEF Mint
  <2>2. x # w
    BY <1>0, <2>1
  <2> QED
    BY <1>0, <2>1, <2>2
<1>2. ASSUME UNCHANGED lineage PROVE Goal
  BY <1>2
<1>3. ASSUME NEW old \in Wallets, NEW user \in Wallets, Migrate(old, user)
      PROVE  Goal
  <2>1. lineage' = [lineage EXCEPT ![user] = lineage[old], ![old] = 0]
    BY <1>3 DEF Migrate
  <2> QED
    BY <1>0, <2>1
<1>4. CASE \E w \in Wallets, c \in AnyCommitment, r \in signed :
              Updated(w, c, r)
  BY <1>2, <1>4 DEF Updated, UpdateStep
<1>5. CASE \E w \in Wallets, c \in AnyCommitment, p \in Projections,
              r \in signed : Reset(w, c, p, r) \/ Rebaseline(w, c, p, r)
  BY <1>2, <1>5 DEF Reset, Rebaseline
<1>6. CASE Quiet
  BY <1>2, <1>6 DEF Quiet
<1> QED
  BY <1>1, <1>3, <1>4, <1>5, <1>6, LifeSteps

\* What an account remembers of a use survives every step.
LEMMA MemoryKept ==
    ASSUME LifeFacts, MemoryInv, [Next]_vars, NEW u \in uses,
           NEW x \in Wallets, lineage'[x] = u.lineage
    PROVE  Remembered(u, identities'[x])
<1>0. /\ u.lineage \in Lineages /\ u.lineage <= born /\ u.at \in Nat
      /\ u.receipt.projection \in Nat
  BY Constants DEF LifeFacts, UsesInv, UseRecords, Receipts
<1>1. PICK w \in Wallets : lineage[w] = u.lineage
  <2>1. lineage'[x] # 0 /\ lineage'[x] <= born
    BY <1>0 DEF Lineages
  <2> QED
    BY <2>1, Ancestor DEF LifeFacts
<1>2. Advances(w, x)
  <2>1. lineage[w] # 0 /\ lineage'[x] = lineage[w]
    BY <1>0, <1>1 DEF Lineages
  <2> QED
    BY <2>1, AdvanceStep DEF LifeFacts
<1>3. Remembered(u, identities[w])
  BY <1>1 DEF MemoryInv
<1>4. /\ identities[w] \in Identities /\ identities'[x] \in Identities
      /\ CurrentProjection \in Nat
  BY TypeStep, CurrentGrows DEF LifeFacts, TypeInv, TypeOK, AnchorTypeOK
<1>5. /\ identities[w].last_verification_timestamp \in Nat
      /\ identities[w].last_reset_timestamp \in Nat
      /\ identities[w].projection_version \in Nat
      /\ identities'[x].last_verification_timestamp \in Nat
      /\ identities'[x].last_reset_timestamp \in Nat
      /\ identities'[x].projection_version \in Nat
  BY <1>4, IdentityTimes, Constants DEF Identities
<1> QED
  BY <1>0, <1>2, <1>3, <1>4, <1>5 DEF Remembered, Advances, VersionAdvances

\* The record of a use that happens now.
UseNow(r, l) == [receipt |-> r, lineage |-> l, at |-> now]

\* A step that uses a receipt is remembered if the account it uses it on
\* remembers it.
LEMMA NewUse ==
    ASSUME LifeFacts, MemoryInv, [Next]_vars, NEW r \in Receipts,
           NEW l \in Lineages, Used(r, l), ReceiptTimely(r),
           NEW w \in Wallets, lineage'[w] = l,
           Remembered(UseNow(r, l), identities'[w])
    PROVE  MemoryInv'
<1>1. \A u \in uses' : u \in uses \/ u = UseNow(r, l)
  BY DEF Used, UseNow
<1>2. ASSUME NEW x \in Wallets, lineage'[x] = l
      PROVE  x = w
  <2>1. HomeInv' /\ l # 0
    BY LifeFactsStep DEF LifeFacts, Lineages
  <2> QED
    BY <1>2, <2>1 DEF HomeInv, LivesAtOneWallet
<1>3. ASSUME NEW u \in uses
      PROVE  /\ u.receipt.validated_at <= u.at
             /\ \A x \in Wallets :
                   lineage'[x] = u.lineage => Remembered(u, identities'[x])
  BY MemoryKept DEF MemoryInv
<1>4. /\ UseNow(r, l).receipt.validated_at <= UseNow(r, l).at
      /\ UseNow(r, l).lineage = l
  BY DEF UseNow, ReceiptTimely
<1>5. ASSUME NEW u \in uses'
      PROVE  /\ u.receipt.validated_at <= u.at
             /\ \A x \in Wallets :
                   lineage'[x] = u.lineage => Remembered(u, identities'[x])
  BY <1>1, <1>2, <1>3, <1>4, <1>5
<1> QED
  BY <1>5 DEF MemoryInv, Remembered

\* A receipt is used again within bounds if its earlier uses are in bounds.
LEMMA ReuseKept ==
    ASSUME ReceiptReuseBounded, NEW r, NEW l, Used(r, l),
           \A u \in uses : u.receipt = r /\ u.lineage = l =>
               r.purpose = "Update" /\ u.at = r.validated_at
    PROVE  ReceiptReuseBounded'
<1>1. CASE \E u \in uses : u.receipt = r /\ u.lineage = l
  <2>1. reused' = reused \cup {<<r, l>>} /\ uses \subseteq uses'
    BY <1>1 DEF Used, UsedBefore
  <2> QED
    BY <1>1, <2>1 DEF ReceiptReuseBounded
<1>2. CASE ~\E u \in uses : u.receipt = r /\ u.lineage = l
  <2>1. reused' = reused /\ uses \subseteq uses'
    BY <1>2 DEF Used, UsedBefore
  <2> QED
    BY <2>1 DEF ReceiptReuseBounded
<1> QED
  BY <1>1, <1>2

\* No receipt has been used before the first step.
LEMMA ReuseInit == Init => MemoryInv /\ ReceiptReuseBounded
BY DEF Init, MemoryInv, ReceiptReuseBounded

\* A receipt that an account remembers passes again only for such an update.
LEMMA ReuseStep ==
    LifeFacts /\ MemoryInv /\ ReceiptReuseBounded /\ [Next]_vars
        => MemoryInv' /\ ReceiptReuseBounded'
<1> SUFFICES ASSUME LifeFacts, MemoryInv, ReceiptReuseBounded, [Next]_vars
             PROVE  MemoryInv' /\ ReceiptReuseBounded'
  OBVIOUS
<1>0. /\ signed \subseteq Receipts
      /\ identities \in [Wallets -> Identities]
      /\ lineage \in [Wallets -> 0 .. MaxLineages] /\ born \in 0 .. MaxLineages
      /\ now \in Nat /\ now # 0
  BY NowType DEF LifeFacts, TypeInv, TypeOK, AnchorTypeOK, HistoryTypeOK
<1>h. /\ \A w \in Wallets : Exists(w) => lineage[w] # 0
      /\ \A w \in Wallets : lineage[w] <= born
      /\ \A w \in Wallets : Exists(w) => lineage[w] \in Lineages
  <2>1. \A w \in Wallets : /\ Exists(w) => lineage[w] # 0
                           /\ lineage[w] <= born
    BY DEF LifeFacts, HomeInv, LivesAtOneWallet
  <2> QED
    BY <1>0, <2>1, SystemConstants DEF Lineages
<1>u. ASSUME NEW u \in uses
      PROVE  /\ u.at \in Nat /\ u.lineage \in Nat /\ u.lineage <= born
             /\ u.receipt \in Receipts /\ u.receipt.validated_at \in Nat
             /\ u.receipt.validated_at <= u.at /\ u.at <= now
  BY DEF LifeFacts, UsesInv, UseRecords, Receipts, Lineages, MemoryInv
<1>1. ASSUME NEW w \in Wallets, NEW c \in AnyCommitment, NEW r \in signed,
             Mint(w, c, r)
      PROVE  MemoryInv' /\ ReceiptReuseBounded'
  <2>1. /\ identities' = [identities EXCEPT ![w] = MintedIdentity(w, c)]
        /\ lineage' = [lineage EXCEPT ![w] = born + 1]
        /\ born < MaxLineages /\ Used(r, born + 1)
        /\ ReceiptAccepted(r, w, c, "Mint", CurrentProjection)
    BY <1>1 DEF Mint, MintAnchor
  <2>2. /\ ReceiptTimely(r) /\ born + 1 \in Lineages
        /\ r.version = 2 => r.purpose = "Mint"
    BY <1>0, <2>1, SystemConstants DEF ReceiptAccepted, Lineages
  <2>3. lineage'[w] = born + 1 /\ identities'[w] = MintedIdentity(w, c)
    BY <1>0, <2>1
  <2>4. Remembered(UseNow(r, born + 1), identities'[w])
    BY <1>0, <2>2, <2>3, MintedFields DEF Remembered, UseNow
  <2>5. MemoryInv'
    BY <1>0, <2>1, <2>2, <2>3, <2>4, NewUse
  <2>6. \A u \in uses : u.lineage # born + 1
    BY <1>0, <1>u
  <2> QED
    BY <2>1, <2>5, <2>6, ReuseKept
<1>2. ASSUME NEW w \in Wallets, NEW c \in AnyCommitment, NEW r \in signed,
             Updated(w, c, r)
      PROVE  MemoryInv' /\ ReceiptReuseBounded'
  <2> DEFINE l == lineage[w]
  <2>1. /\ identities' = [identities EXCEPT ![w] = UpdatedIdentity(w, c)]
        /\ lineage' = lineage /\ Used(r, l) /\ Exists(w)
        /\ UpdateReceiptAccepted(r, w, c, identities[w].projection_version)
        /\ r.validated_at >= identities[w].last_verification_timestamp
    BY <1>2 DEF Updated, UpdateReady, UpdateAllowed, UpdateStep
  <2>2. /\ ReceiptTimely(r) /\ r.purpose = "Update" /\ r \in Receipts
        /\ r.validated_at \in Nat
    BY <1>0, <2>1 DEF UpdateReceiptAccepted, Receipts
  <2>3. identities'[w].last_verification_timestamp = now
    BY <1>0, <2>1, UpdatedFields
  <2>4. Remembered(UseNow(r, l), identities'[w])
    BY <1>0, <2>2, <2>3 DEF Remembered, UseNow
  <2>5. MemoryInv'
    BY <1>h, <2>1, <2>2, <2>4, NewUse
  <2>6. ASSUME NEW u \in uses, u.receipt = r, u.lineage = l
        PROVE  u.at = r.validated_at
    <3>1. u.at <= identities[w].last_verification_timestamp
      BY <2>6 DEF MemoryInv, Remembered
    <3>2. identities[w].last_verification_timestamp \in Nat
      BY <1>0, IdentityTimes
    <3> QED
      BY <1>u, <2>1, <2>2, <2>6, <3>1, <3>2
  <2> QED
    BY <2>1, <2>2, <2>5, <2>6, ReuseKept
<1>3. ASSUME NEW w \in Wallets, NEW c \in AnyCommitment, NEW p \in Projections,
             NEW r \in signed, Reset(w, c, p, r)
      PROVE  MemoryInv' /\ ReceiptReuseBounded'
  <2> DEFINE l == lineage[w]
  <2>1. /\ identities' = [identities EXCEPT ![w] = ResetIdentity(w, c)]
        /\ lineage' = lineage /\ Used(r, l) /\ Exists(w)
        /\ ReceiptAccepted(r, w, c, "Reset", CurrentProjection)
        /\ now - identities[w].last_reset_timestamp >= ResetCooldown
    BY <1>3 DEF Reset, ResetIdentityState
  <2>2. /\ ReceiptTimely(r) /\ r.purpose = "Reset" /\ r.version = 2
        /\ r \in Receipts /\ r.validated_at \in Nat
    BY <1>0, <2>1 DEF ReceiptAccepted, Receipts
  <2>3. /\ identities'[w].last_verification_timestamp = now
        /\ identities'[w].last_reset_timestamp = now
    BY <1>0, <2>1, ResetFields
  <2>4. Remembered(UseNow(r, l), identities'[w])
    BY <1>0, <2>2, <2>3 DEF Remembered, UseNow
  <2>5. MemoryInv'
    BY <1>h, <2>1, <2>2, <2>4, NewUse
  <2>6. ASSUME NEW u \in uses, u.receipt = r, u.lineage = l
        PROVE  FALSE
    <3>1. u.at <= identities[w].last_reset_timestamp
      BY <2>2, <2>6 DEF MemoryInv, Remembered
    <3>2. /\ identities[w].last_reset_timestamp \in Nat
          /\ MaxReceiptAge < ResetCooldown
          /\ MaxReceiptAge \in Nat /\ ResetCooldown \in Nat
      BY <1>0, IdentityTimes, SystemConstants
    <3>3. now - r.validated_at <= MaxReceiptAge
      BY <2>2 DEF ReceiptTimely
    <3> QED
      BY <1>0, <1>u, <2>1, <2>2, <2>6, <3>1, <3>2, <3>3
  <2> QED
    BY <2>1, <2>5, <2>6, ReuseKept
<1>4. ASSUME NEW w \in Wallets, NEW c \in AnyCommitment, NEW p \in Projections,
             NEW r \in signed, Rebaseline(w, c, p, r)
      PROVE  MemoryInv' /\ ReceiptReuseBounded'
  <2> DEFINE l == lineage[w]
  <2>1. /\ identities' = [identities EXCEPT ![w] = RebaselinedIdentity(w, c)]
        /\ lineage' = lineage /\ Used(r, l) /\ Exists(w)
        /\ ReceiptAccepted(r, w, c, "Rebaseline", CurrentProjection)
        /\ identities[w].projection_version < CurrentProjection
    BY <1>4 DEF Rebaseline, RebaselineAnchor, RebaselineDue
  <2>2. /\ ReceiptTimely(r) /\ r.purpose = "Rebaseline" /\ r.version = 2
        /\ r \in Receipts /\ r.projection = CurrentProjection
        /\ CurrentProjection \in Nat
    BY <1>0, <2>1, CurrentGrows DEF ReceiptAccepted, LifeFacts
  <2>3. /\ identities'[w].last_verification_timestamp = now
        /\ identities'[w].projection_version = CurrentProjection
    BY <1>0, <2>1, RebaselinedFields
  <2>4. Remembered(UseNow(r, l), identities'[w])
    BY <1>0, <2>2, <2>3 DEF Remembered, UseNow
  <2>5. MemoryInv'
    BY <1>h, <2>1, <2>2, <2>4, NewUse
  <2>6. ASSUME NEW u \in uses, u.receipt = r, u.lineage = l
        PROVE  FALSE
    <3>1. r.projection <= identities[w].projection_version
      BY <2>2, <2>6 DEF MemoryInv, Remembered
    <3>2. identities[w].projection_version \in Nat
      <4>1. identities[w].projection_version \in Projections
        BY <1>0 DEF Identities
      <4> QED
        BY <4>1, Constants
    <3> QED
      BY <2>1, <2>2, <3>1, <3>2
  <2> QED
    BY <2>1, <2>5, <2>6, ReuseKept
<1>5. ASSUME UNCHANGED <<uses, reused>>
      PROVE  MemoryInv' /\ ReceiptReuseBounded'
  <2>1. ASSUME NEW u \in uses, NEW x \in Wallets, lineage'[x] = u.lineage
        PROVE  Remembered(u, identities'[x])
    BY <2>1, MemoryKept
  <2> QED
    BY <1>5, <2>1 DEF MemoryInv, Remembered, ReceiptReuseBounded
<1>6. CASE \E old, user \in Wallets : Migrate(old, user)
  BY <1>5, <1>6 DEF Migrate, ReceiptHistory
<1>7. CASE Quiet
  BY <1>5, <1>7 DEF Quiet
<1> QED
  BY <1>1, <1>2, <1>3, <1>4, <1>6, <1>7, LifeSteps DEF LifeFacts

\* The instructions keep no list of the receipts they have seen.  Comparing a
\* receipt with the account that it is used on is enough, with one exception:
\* no receipt works twice on one identity, however it has moved, unless it is
\* an update receipt first used in the second it was signed for.
THEOREM ReuseIsBounded == Spec => []ReceiptReuseBounded
BY LifeFactsInit, LifeFactsStep, ReuseInit, ReuseStep, PTL DEF Spec

----------------------------------------------------------------------------
(* What an update spends                                                   *)

\* Each build has its own kind of result.
BuildInv ==
    \A w \in Wallets, n \in Nonces :
        /\ results[<<w, n>>].open => ~RequestBound
        /\ boundResults[<<w, n>>].open => RequestBound

\* A result is opened, or closed: the others stay as they are.
OthersKept(w) ==
    \A x \in Wallets : x # w => OpenResults(x)' = OpenResults(x)
Opened(w, n) ==
    /\ n \notin OpenResults(w)
    /\ OpenResults(w)' = OpenResults(w) \cup {n}
    /\ OthersKept(w)
Closed(w, n) ==
    /\ n \in OpenResults(w)
    /\ OpenResults(w)' = OpenResults(w) \ {n}
    /\ OthersKept(w)

\* No result is open in either build.
LEMMA BuildInit == Init => BuildInv
BY DEF Init, VerifierInit, BuildInv, NoResult, NoBoundResult

\* Closing either kind of result takes one nonce out of the open ones.
LEMMA ResultCloses ==
    ASSUME TypeInv, BuildInv, NEW w \in Wallets, NEW n \in Nonces,
           \/ /\ results[<<w, n>>].open
              /\ ResultClosed(w, n) /\ UNCHANGED boundResults
           \/ /\ boundResults[<<w, n>>].open
              /\ BoundResultClosed(w, n) /\ UNCHANGED results
    PROVE  BuildInv' /\ Closed(w, n)
<1>0. DOMAIN results = Wallets \X Nonces /\ DOMAIN boundResults = Wallets \X Nonces
  BY DEF TypeInv, TypeOK, VerifierTypeOK
<1>1. ~NoResult.open /\ ~NoBoundResult.open
  BY DEF NoResult, NoBoundResult
<1>2. CASE results[<<w, n>>].open /\ ResultClosed(w, n) /\ UNCHANGED boundResults
  <2>1. \A x \in Wallets, m \in Nonces :
            results'[<<x, m>>] = IF x = w /\ m = n THEN NoResult
                                 ELSE results[<<x, m>>]
    BY <1>0, <1>2 DEF ResultClosed
  <2>2. ~boundResults[<<w, n>>].open
    BY <1>2 DEF BuildInv
  <2> QED
    BY <1>1, <1>2, <2>1, <2>2 DEF BuildInv, Closed, OthersKept, OpenResults
<1>3. CASE /\ boundResults[<<w, n>>].open
           /\ BoundResultClosed(w, n) /\ UNCHANGED results
  <2>1. \A x \in Wallets, m \in Nonces :
            boundResults'[<<x, m>>] = IF x = w /\ m = n THEN NoBoundResult
                                      ELSE boundResults[<<x, m>>]
    BY <1>0, <1>3 DEF BoundResultClosed
  <2>2. ~results[<<w, n>>].open
    BY <1>3 DEF BuildInv
  <2> QED
    BY <1>1, <1>3, <2>1, <2>2 DEF BuildInv, Closed, OthersKept, OpenResults
<1> QED
  BY <1>2, <1>3

\* A step opens one result, closes one, spent or not, or touches none.
LEMMA ProofSteps ==
    ASSUME TypeInv, BuildInv, [Next]_vars
    PROVE  /\ BuildInv'
           /\ \/ UNCHANGED <<results, boundResults, proofs>>
              \/ \E w \in Wallets, n \in Nonces :
                    \/ /\ Opened(w, n)
                       /\ proofs' = [proofs EXCEPT ![w].made = @ + 1]
                    \/ /\ Closed(w, n)
                       /\ proofs' = [proofs EXCEPT ![w].spent = @ + 1]
                    \/ Closed(w, n) /\ UNCHANGED proofs
<1>0. DOMAIN results = Wallets \X Nonces /\ DOMAIN boundResults = Wallets \X Nonces
  BY DEF TypeInv, TypeOK, VerifierTypeOK
<1> DEFINE Goal ==
      /\ BuildInv'
      /\ \/ UNCHANGED <<results, boundResults, proofs>>
         \/ \E w \in Wallets, n \in Nonces :
               \/ /\ Opened(w, n)
                  /\ proofs' = [proofs EXCEPT ![w].made = @ + 1]
               \/ /\ Closed(w, n)
                  /\ proofs' = [proofs EXCEPT ![w].spent = @ + 1]
               \/ Closed(w, n) /\ UNCHANGED proofs
<1>1. ASSUME NEW w \in Wallets, NEW n \in Nonces, NEW r \in signed,
             UpdateCompact(w, n, r) \/ UpdateBound(w, n, r)
      PROVE  Goal
  <2>1. BuildInv' /\ Closed(w, n)
    BY <1>1, ResultCloses
    DEF UpdateCompact, UpdateAnchorCompact, ResultUsable, UpdateBound,
        UpdateAnchorBound, BoundResultUsable
  <2>2. proofs' = [proofs EXCEPT ![w].spent = @ + 1]
    BY <1>1 DEF UpdateCompact, UpdateBound, UpdateStep
  <2> QED
    BY <2>1, <2>2
<1>2. ASSUME NEW w \in Wallets, NEW n \in Nonces, CloseResult(w, n)
      PROVE  Goal
  <2>1. BuildInv' /\ Closed(w, n)
    BY <1>2, ResultCloses
    DEF CloseResult, CloseVerificationResult, CloseBoundVerificationResult
  <2> QED
    BY <1>2, <2>1 DEF CloseResult
<1>3. ASSUME NEW w \in Wallets, NEW n \in Nonces, NEW new, NEW prev, NEW h,
             Verify(w, n, new, prev, h)
      PROVE  Goal
  <2>1. /\ ~RequestBound /\ ~results[<<w, n>>].open /\ boundResults' = boundResults
        /\ \A x \in Wallets, m \in Nonces : x # w \/ m # n =>
              results'[<<x, m>>] = results[<<x, m>>]
        /\ results'[<<w, n>>].open
    BY <1>0, <1>3 DEF Verify, VerifyProof
  <2>2. ~boundResults[<<w, n>>].open
    BY <2>1 DEF BuildInv
  <2>3. BuildInv' /\ Opened(w, n)
    BY <2>1, <2>2 DEF BuildInv, Opened, OthersKept, OpenResults
  <2> QED
    BY <1>3, <2>3 DEF Verify, ProofMade
<1>4. ASSUME NEW w \in Wallets, NEW n \in Nonces, NEW new, NEW prev, NEW h,
             NEW u, VerifyBound(w, n, new, prev, h, u)
      PROVE  Goal
  <2>1. /\ RequestBound /\ ~boundResults[<<w, n>>].open /\ results' = results
        /\ \A x \in Wallets, m \in Nonces : x # w \/ m # n =>
              boundResults'[<<x, m>>] = boundResults[<<x, m>>]
        /\ boundResults'[<<w, n>>].open
    BY <1>0, <1>4 DEF VerifyBound, VerifyProofBound
  <2>2. ~results[<<w, n>>].open
    BY <2>1 DEF BuildInv
  <2>3. BuildInv' /\ Opened(w, n)
    BY <2>1, <2>2 DEF BuildInv, Opened, OthersKept, OpenResults
  <2> QED
    BY <1>4, <2>3 DEF VerifyBound, ProofMade
<1>5. ASSUME UNCHANGED <<results, boundResults, proofs>> PROVE Goal
  BY <1>5 DEF BuildInv
<1>6. CASE \E w \in Wallets, c \in AnyCommitment, r \in signed : Mint(w, c, r)
  BY <1>5, <1>6 DEF Mint, MintAnchor
<1>7. CASE \E w \in Wallets, c \in AnyCommitment, p \in Projections,
              r \in signed : Reset(w, c, p, r) \/ Rebaseline(w, c, p, r)
  BY <1>5, <1>7 DEF Reset, ResetIdentityState, Rebaseline, RebaselineAnchor
<1>8. CASE \E w, x \in Wallets : Migrate(w, x)
  BY <1>5, <1>8 DEF Migrate, MigrateIdentity
<1>9. CASE \E w \in Wallets : Holding(w)
  BY <1>5, <1>9
  DEF Holding, Authorize, AuthorizeNewWallet, Prepare, PrepareProofRequest,
      Upgrade, UpgradeIdentityLayout, HolderStep, TokenBurned, TokenDelegated,
      TokenAccountCreated, TokenAccountClosed, MintAddressFunded,
      historyVars
<1>10. CASE ChallengeStep
  BY <1>5, <1>10
  DEF ChallengeStep, ChallengeNext, CreateChallenge, CloseChallenge
<1>11. CASE ServiceNext \/ RegistryStep \/ ClockTick \/ UNCHANGED vars
  <2>1. ServiceNext => UNCHANGED <<verifierVars, historyVars>>
    BY DEF ServiceNext, SignReceipt
  <2>2. (RegistryStep \/ ClockTick \/ UNCHANGED vars)
          => UNCHANGED <<verifierVars, historyVars>>
    BY DEF RegistryStep, ClockTick, vars
  <2> QED
    BY <1>5, <1>11, <2>1, <2>2 DEF verifierVars, historyVars
<1> QED
  BY <1>1, <1>2, <1>3, <1>4, <1>6, <1>7, <1>8, <1>9, <1>10, <1>11, NextSteps

\* The open results are counted one by one.
SpentInv ==
    /\ NoProofSpentTwice
    /\ \A w \in Wallets : IsFiniteSet(OpenResults(w))

\* No proof has been made or spent.
LEMMA SpentInit == Init => SpentInv
<1> SUFFICES ASSUME Init PROVE SpentInv
  OBVIOUS
<1>1. \A w \in Wallets : OpenResults(w) = {}
  BY DEF Init, VerifierInit, OpenResults, NoResult, NoBoundResult
<1> QED
  BY <1>1, FS_EmptySet DEF Init, SpentInv, NoProofSpentTwice

\* Opening counts one proof made, closing at most one spent, in one slot.
LEMMA SpentStep ==
    TypeInv /\ BuildInv /\ SpentInv /\ [Next]_vars => SpentInv'
<1> SUFFICES ASSUME TypeInv, BuildInv, SpentInv, [Next]_vars, NEW x \in Wallets
             PROVE  /\ IsFiniteSet(OpenResults(x)')
                    /\ proofs'[x].spent + Cardinality(OpenResults(x)')
                         <= proofs'[x].made
  BY DEF SpentInv, NoProofSpentTwice, OpenResults
<1> DEFINE open == OpenResults(x)
<1>0. /\ proofs \in [Wallets -> [made : Nat, spent : Nat]]
      /\ IsFiniteSet(open) /\ Cardinality(open) \in Nat
      /\ proofs[x].spent + Cardinality(open) <= proofs[x].made
  BY FS_CardinalityType
  DEF TypeInv, TypeOK, HistoryTypeOK, SpentInv, NoProofSpentTwice
<1>1. ASSUME NEW w \in Wallets, NEW n \in Nonces, Opened(w, n),
             proofs' = [proofs EXCEPT ![w].made = @ + 1]
      PROVE  /\ IsFiniteSet(open') /\ Cardinality(open') \in Nat
             /\ proofs'[x].spent + Cardinality(open') <= proofs'[x].made
  <2>1. CASE x = w
    <3>1. n \notin open /\ open' = open \cup {n}
      BY <1>1, <2>1 DEF Opened
    <3>2. IsFiniteSet(open') /\ Cardinality(open') = Cardinality(open) + 1
      BY <1>0, <3>1, FS_AddElement
    <3> HIDE DEF open
    <3> QED
      BY <1>0, <1>1, <2>1, <3>2
  <2>2. CASE x # w
    <3>1. open' = open
      BY <1>1, <2>2 DEF Opened, OthersKept
    <3> HIDE DEF open
    <3> QED
      BY <1>0, <1>1, <2>2, <3>1
  <2> QED
    BY <2>1, <2>2
<1>2. ASSUME NEW w \in Wallets, NEW n \in Nonces, Closed(w, n),
             \/ proofs' = [proofs EXCEPT ![w].spent = @ + 1]
             \/ UNCHANGED proofs
      PROVE  /\ IsFiniteSet(open') /\ Cardinality(open') \in Nat
             /\ proofs'[x].spent + Cardinality(open') <= proofs'[x].made
  <2>1. CASE x = w
    <3>1. n \in open /\ open' = open \ {n}
      BY <1>2, <2>1 DEF Closed
    <3>2. /\ IsFiniteSet(open') /\ Cardinality(open') = Cardinality(open) - 1
          /\ Cardinality(open') \in Nat
      BY <1>0, <3>1, FS_RemoveElement, FS_CardinalityType
    <3> HIDE DEF open
    <3> QED
      BY <1>0, <1>2, <2>1, <3>2
  <2>2. CASE x # w
    <3>1. open' = open
      BY <1>2, <2>2 DEF Closed, OthersKept
    <3> HIDE DEF open
    <3> QED
      BY <1>0, <1>2, <2>2, <3>1
  <2> QED
    BY <2>1, <2>2
<1>3. CASE UNCHANGED <<results, boundResults, proofs>>
  <2>1. open' = open
    BY <1>3 DEF OpenResults
  <2> HIDE DEF open
  <2>2. IsFiniteSet(open') /\ proofs'[x].spent + Cardinality(open') <= proofs'[x].made
    BY <1>0, <1>3, <2>1
  <2> QED
    BY <2>2 DEF open
<1> QED
  BY <1>1, <1>2, <1>3, ProofSteps

\* In either build, an accepted proof advances an identity at most once: the
\* update closes the result in the step that spends it, so closing, reusing
\* the nonce and proving again never make one proof count twice.
THEOREM ProofsSpentOnce == Spec => []NoProofSpentTwice
<1>1. TypeInv /\ BuildInv /\ [Next]_vars => BuildInv'
  BY ProofSteps
<1>2. SpentInv => NoProofSpentTwice
  BY DEF SpentInv
<1> QED
  BY <1>1, <1>2, TypeInit, TypeStep, BuildInit, SpentInit, SpentStep, PTL
  DEF Spec

----------------------------------------------------------------------------
(* Request counters                                                        *)

\* In the request-bound build, whatever changes what a result was made for
\* advances the counter of the wallet.
LEMMA CounterSteps ==
    ASSUME TypeInv, RequestBound, [Next]_vars, NEW x \in Wallets
    PROVE  \/ requests'[x].counter > requests[x].counter
           \/ requests'[x].counter = requests[x].counter /\ SameLife(x)
<1>0. /\ identities \in [Wallets -> Identities]
      /\ requests \in [Wallets -> [version : {0, 1}, counter : 0 .. MaxCounter]]
      /\ requests[x].counter \in Nat
  BY SystemConstants DEF TypeInv, TypeOK, AnchorTypeOK
<1> DEFINE Goal == \/ requests'[x].counter > requests[x].counter
                   \/ requests'[x].counter = requests[x].counter /\ SameLife(x)
<1>a. ASSUME NEW ws \in SUBSET Wallets, CountersAdvanced(ws),
             \A y \in Wallets : y \notin ws => identities'[y] = identities[y]
      PROVE  Goal
  <2>1. requests' = [w \in Wallets |->
               IF w \in ws THEN Advanced(requests[w]) ELSE requests[w]]
    BY <1>a DEF CountersAdvanced
  <2>2. Advanced(requests[x]).counter = requests[x].counter + 1
    BY DEF Advanced
  <2>3. CASE x \in ws
    BY <1>0, <2>1, <2>2, <2>3
  <2>4. CASE x \notin ws
    BY <1>a, <2>1, <2>4 DEF SameLife
  <2> QED
    BY <2>3, <2>4
<1>1. ASSUME NEW w \in Wallets, NEW c \in AnyCommitment, NEW r \in signed,
             Mint(w, c, r)
      PROVE  Goal
  BY <1>0, <1>1, <1>a, {w} \in SUBSET Wallets DEF Mint, MintAnchor
<1>2. ASSUME NEW w \in Wallets, NEW n \in Nonces, NEW r \in signed,
             UpdateCompact(w, n, r) \/ UpdateBound(w, n, r)
      PROVE  Goal
  BY <1>0, <1>2, <1>a, {w} \in SUBSET Wallets
  DEF UpdateCompact, UpdateAnchorCompact, UpdateBound, UpdateAnchorBound
<1>3. ASSUME NEW w \in Wallets, NEW c \in AnyCommitment, NEW p \in Projections,
             NEW r \in signed, Reset(w, c, p, r)
      PROVE  Goal
  BY <1>0, <1>3, <1>a, {w} \in SUBSET Wallets DEF Reset, ResetIdentityState
<1>4. ASSUME NEW w \in Wallets, NEW c \in AnyCommitment, NEW p \in Projections,
             NEW r \in signed, Rebaseline(w, c, p, r)
      PROVE  Goal
  BY <1>0, <1>4, <1>a, {w} \in SUBSET Wallets DEF Rebaseline, RebaselineAnchor
<1>5. ASSUME NEW old \in Wallets, NEW user \in Wallets, Migrate(old, user)
      PROVE  Goal
  BY <1>0, <1>5, <1>a, {old, user} \in SUBSET Wallets
  DEF Migrate, MigrateIdentity, IdentityMoved
<1>6. ASSUME NEW w \in Wallets, Holding(w) PROVE Goal
  <2>1. SameLife(x)
    BY <1>6, HoldingQuiet DEF Quiet
  <2>2. requests'[x].counter = requests[x].counter
    BY <1>0, <1>6
    DEF Holding, Authorize, AuthorizeNewWallet, Prepare, PrepareProofRequest,
        Upgrade, UpgradeIdentityLayout, HolderStep, TokenBurned, TokenDelegated,
        TokenAccountCreated, TokenAccountClosed, MintAddressFunded
  <2> QED
    BY <2>1, <2>2
<1>7. ASSUME UNCHANGED <<identities, requests>> PROVE Goal
  BY <1>7 DEF SameLife
<1>8. CASE \/ \E w \in Wallets, n \in Nonces, new, prev \in AnyCommitment,
                 h \in HammingInputs : Verify(w, n, new, prev, h)
           \/ \E w \in Wallets, n \in Nonces : CloseResult(w, n)
           \/ ChallengeStep
  BY <1>7, <1>8 DEF Verify, CloseResult, ChallengeStep, VerifierFrame, anchorVars
<1>9. ASSUME NEW w \in Wallets, NEW n \in Nonces, NEW new, NEW prev, NEW h,
             NEW u, VerifyBound(w, n, new, prev, h, u)
      PROVE  Goal
  BY <1>7, <1>9 DEF VerifyBound, VerifierFrame, anchorVars
<1>10. CASE ServiceNext \/ RegistryStep \/ ClockTick \/ UNCHANGED vars
  <2>1. ServiceNext => UNCHANGED anchorVars
    BY DEF ServiceNext, SignReceipt
  <2>2. (RegistryStep \/ ClockTick \/ UNCHANGED vars) => UNCHANGED anchorVars
    BY DEF RegistryStep, ClockTick, vars
  <2> QED
    BY <1>7, <1>10, <2>1, <2>2 DEF anchorVars
<1> QED
  BY <1>1, <1>2, <1>3, <1>4, <1>5, <1>6, <1>8, <1>9, <1>10, NextSteps

\* The default build has no counters to advance.
LEMMA PlainCounters ==
    ASSUME ~RequestBound, [Next]_vars
    PROVE  UNCHANGED requests
<1>1. CASE \E w \in Wallets, c \in AnyCommitment, r \in signed : Mint(w, c, r)
  BY <1>1 DEF Mint, MintAnchor, CountersAdvanced
<1>2. CASE \E w \in Wallets, n \in Nonces, r \in signed :
              UpdateCompact(w, n, r) \/ UpdateBound(w, n, r)
  BY <1>2 DEF UpdateCompact, UpdateAnchorCompact, UpdateBound, UpdateAnchorBound
<1>3. CASE \E w \in Wallets, c \in AnyCommitment, p \in Projections,
              r \in signed : Reset(w, c, p, r) \/ Rebaseline(w, c, p, r)
  BY <1>3 DEF Reset, ResetIdentityState, Rebaseline, RebaselineAnchor,
              CountersAdvanced
<1>4. CASE \E w, y \in Wallets : Migrate(w, y)
  BY <1>4 DEF Migrate, MigrateIdentity, CountersAdvanced
<1>5. CASE \E w \in Wallets : Holding(w)
  BY <1>5
  DEF Holding, Authorize, AuthorizeNewWallet, Prepare, PrepareProofRequest,
      Upgrade, UpgradeIdentityLayout, HolderStep, TokenBurned, TokenDelegated,
      TokenAccountCreated, TokenAccountClosed, MintAddressFunded
<1>6. CASE \/ \E w \in Wallets, n \in Nonces, new, prev \in AnyCommitment,
                 h \in HammingInputs : Verify(w, n, new, prev, h)
           \/ \E w \in Wallets, n \in Nonces : CloseResult(w, n)
           \/ ChallengeStep
  BY <1>6 DEF Verify, CloseResult, ChallengeStep, VerifierFrame, anchorVars
<1>7. ASSUME NEW w, NEW n, NEW new, NEW prev, NEW h, NEW u,
             VerifyBound(w, n, new, prev, h, u)
      PROVE  UNCHANGED requests
  BY <1>7 DEF VerifyBound, VerifierFrame, anchorVars
<1>8. CASE ServiceNext \/ RegistryStep \/ ClockTick \/ UNCHANGED vars
  <2>1. ServiceNext => UNCHANGED anchorVars
    BY DEF ServiceNext, SignReceipt
  <2>2. (RegistryStep \/ ClockTick \/ UNCHANGED vars) => UNCHANGED anchorVars
    BY DEF RegistryStep, ClockTick, vars
  <2> QED
    BY <1>8, <2>1, <2>2 DEF anchorVars
<1> QED
  BY <1>1, <1>2, <1>3, <1>4, <1>5, <1>6, <1>7, <1>8, NextSteps

\* A result stays as it is, is closed, or is made for the present identity.
LEMMA BoundResultSteps ==
    ASSUME TypeInv, [Next]_vars, NEW x \in Wallets, NEW m \in Nonces
    PROVE  \/ boundResults'[<<x, m>>] = boundResults[<<x, m>>]
           \/ boundResults'[<<x, m>>] = NoBoundResult
           \/ /\ RequestBound
              /\ UNCHANGED <<identities, requests>>
              /\ boundResults'[<<x, m>>].counter = requests[x].counter
              /\ identities[x].layout # 0
              /\ boundResults'[<<x, m>>].commitment_prev
                    = identities[x].current_commitment
              /\ boundResults'[<<x, m>>].request_digest.projection
                    = identities[x].projection_version
<1>0. DOMAIN boundResults = Wallets \X Nonces
  BY DEF TypeInv, TypeOK, VerifierTypeOK
<1> DEFINE Goal ==
           \/ boundResults'[<<x, m>>] = boundResults[<<x, m>>]
           \/ boundResults'[<<x, m>>] = NoBoundResult
           \/ /\ RequestBound
              /\ UNCHANGED <<identities, requests>>
              /\ boundResults'[<<x, m>>].counter = requests[x].counter
              /\ identities[x].layout # 0
              /\ boundResults'[<<x, m>>].commitment_prev
                    = identities[x].current_commitment
              /\ boundResults'[<<x, m>>].request_digest.projection
                    = identities[x].projection_version
<1>1. ASSUME NEW w \in Wallets, NEW n \in Nonces, NEW new, NEW prev, NEW h,
             NEW u, VerifyBound(w, n, new, prev, h, u)
      PROVE  Goal
  <2>1. CASE x = w /\ m = n
    <3> DEFINE result ==
          [open |-> TRUE, commitment_new |-> new, commitment_prev |-> prev,
           bounds |-> h, verified_at |-> now,
           counter |-> requests[w].counter, valid_until |-> u,
           request_digest |->
               RequestDigest(w, n, requests[w].counter,
                             identities[w].projection_version, new, prev,
                             h, u)]
    <3>1. boundResults'[<<x, m>>] = result
      BY <1>0, <1>1, <2>1 DEF VerifyBound, VerifyProofBound
    <3>2. /\ result.counter = requests[w].counter /\ result.commitment_prev = prev
          /\ result.request_digest.projection = identities[w].projection_version
      BY DEF RequestDigest
    <3>3. /\ RequestBound /\ identities[w].layout # 0
          /\ identities[w].current_commitment = prev
          /\ UNCHANGED <<identities, requests>>
      BY <1>1, SystemConstants
      DEF VerifyBound, VerifyProofBound, VerifierFrame, anchorVars
    <3> HIDE DEF result
    <3> QED
      BY <2>1, <3>1, <3>2, <3>3
  <2>2. CASE ~(x = w /\ m = n)
    BY <1>0, <1>1, <2>2 DEF VerifyBound, VerifyProofBound
  <2> QED
    BY <2>1, <2>2
<1>2. ASSUME NEW w \in Wallets, NEW n \in Nonces, BoundResultClosed(w, n)
      PROVE  Goal
  BY <1>0, <1>2 DEF BoundResultClosed
<1>3. ASSUME UNCHANGED boundResults PROVE Goal
  BY <1>3
<1>4. CASE \E w \in Wallets, n \in Nonces, r \in signed :
              UpdateCompact(w, n, r) \/ UpdateBound(w, n, r)
  BY <1>2, <1>3, <1>4
  DEF UpdateCompact, UpdateAnchorCompact, UpdateBound, UpdateAnchorBound
<1>5. CASE \E w \in Wallets, n \in Nonces : CloseResult(w, n)
  BY <1>2, <1>3, <1>5
  DEF CloseResult, CloseVerificationResult, CloseBoundVerificationResult
<1>6. CASE \E w \in Wallets, c \in AnyCommitment, r \in signed : Mint(w, c, r)
  BY <1>3, <1>6 DEF Mint, MintAnchor
<1>7. CASE \E w \in Wallets, c \in AnyCommitment, p \in Projections,
              r \in signed : Reset(w, c, p, r) \/ Rebaseline(w, c, p, r)
  BY <1>3, <1>7 DEF Reset, ResetIdentityState, Rebaseline, RebaselineAnchor
<1>8. CASE \E w, y \in Wallets : Migrate(w, y)
  BY <1>3, <1>8 DEF Migrate, MigrateIdentity
<1>9. CASE \E w \in Wallets : Holding(w)
  BY <1>3, <1>9
  DEF Holding, Authorize, AuthorizeNewWallet, Prepare, PrepareProofRequest,
      Upgrade, UpgradeIdentityLayout, HolderStep, TokenBurned, TokenDelegated,
      TokenAccountCreated, TokenAccountClosed, MintAddressFunded
<1>10. CASE \/ \E w \in Wallets, n \in Nonces, new, prev \in AnyCommitment,
                 h \in HammingInputs : Verify(w, n, new, prev, h)
            \/ ChallengeStep
  BY <1>3, <1>10
  DEF Verify, VerifyProof, ChallengeStep, ChallengeNext, CreateChallenge,
      CloseChallenge
<1>11. CASE ServiceNext \/ RegistryStep \/ ClockTick \/ UNCHANGED vars
  <2>1. ServiceNext => UNCHANGED verifierVars
    BY DEF ServiceNext, SignReceipt
  <2>2. (RegistryStep \/ ClockTick \/ UNCHANGED vars) => UNCHANGED verifierVars
    BY DEF RegistryStep, ClockTick, vars
  <2> QED
    BY <1>3, <1>11, <2>1, <2>2 DEF verifierVars
<1> QED
  BY <1>1, <1>4, <1>5, <1>6, <1>7, <1>8, <1>9, <1>10, <1>11, NextSteps

\* No bound result is open.
LEMMA FreshInit == Init => BoundResultFresh
<1> SUFFICES ASSUME Init, NEW w \in Wallets, NEW n \in Nonces
             PROVE  /\ boundResults[<<w, n>>].counter <= requests[w].counter
                    /\ ~boundResults[<<w, n>>].open
  BY DEF BoundResultFresh
<1>1. boundResults[<<w, n>>] = NoBoundResult /\ requests[w] = NoRequest
  BY DEF Init, VerifierInit, AnchorInit
<1>2. NoBoundResult.counter = 0 /\ ~NoBoundResult.open /\ NoRequest.counter = 0
  BY DEF NoBoundResult, NoRequest
<1> QED
  BY <1>1, <1>2

\* Whatever changes an identity advances its counter past the open results.
LEMMA FreshStep ==
    TypeInv /\ BuildInv /\ BoundResultFresh /\ [Next]_vars => BoundResultFresh'
<1> SUFFICES ASSUME TypeInv, BuildInv, BoundResultFresh, [Next]_vars,
                    NEW x \in Wallets, NEW m \in Nonces
             PROVE  /\ boundResults'[<<x, m>>].counter <= requests'[x].counter
                    /\ (/\ boundResults'[<<x, m>>].open
                        /\ boundResults'[<<x, m>>].counter
                              = requests'[x].counter)
                          => MadeForPresentIdentity(x, m)'
  BY DEF BoundResultFresh, MadeForPresentIdentity
<1> DEFINE old == boundResults[<<x, m>>]
           new == boundResults'[<<x, m>>]
<1>0. /\ old.counter \in Nat /\ new.counter \in Nat
      /\ requests[x].counter \in Nat /\ requests'[x].counter \in Nat
  BY TypeStep, SystemConstants
  DEF TypeInv, TypeOK, VerifierTypeOK, AnchorTypeOK
<1>1. /\ old.counter <= requests[x].counter
      /\ old.open /\ old.counter = requests[x].counter =>
            /\ identities[x].layout # 0
            /\ old.commitment_prev = identities[x].current_commitment
            /\ old.request_digest.projection = identities[x].projection_version
  BY DEF BoundResultFresh, MadeForPresentIdentity, Exists
<1>2. new.open => RequestBound
  BY ProofSteps DEF BuildInv
<1>3. ~RequestBound => requests'[x].counter = requests[x].counter
  BY PlainCounters
<1>4. RequestBound => \/ requests'[x].counter > requests[x].counter
                      \/ /\ requests'[x].counter = requests[x].counter
                         /\ SameLife(x)
  BY CounterSteps
<1>5. /\ new.counter <= requests'[x].counter
      /\ new.open /\ new.counter = requests'[x].counter =>
            /\ identities'[x].layout # 0
            /\ new.commitment_prev = identities'[x].current_commitment
            /\ new.request_digest.projection = identities'[x].projection_version
  <2>1. CASE new = old
    <3> HIDE DEF old, new
    <3> QED
      BY <1>0, <1>1, <1>2, <1>3, <1>4, <2>1 DEF SameLife
  <2>2. CASE new = NoBoundResult
    BY <1>0, <2>2 DEF NoBoundResult
  <2>3. CASE /\ UNCHANGED <<identities, requests>>
             /\ new.counter = requests[x].counter
             /\ identities[x].layout # 0
             /\ new.commitment_prev = identities[x].current_commitment
             /\ new.request_digest.projection = identities[x].projection_version
    <3> HIDE DEF new
    <3> QED
      BY <1>0, <2>3
  <2> QED
    BY <2>1, <2>2, <2>3, BoundResultSteps
<1> QED
  BY <1>5 DEF MadeForPresentIdentity, Exists

\* A result whose counter still matches was made for the identity as it is:
\* no mint, update, reset, rebaseline or migration ever comes between the
\* proof and the update that accepts it, in any order of instructions.
THEOREM BoundResultsFresh == Spec => []BoundResultFresh
<1>1. TypeInv /\ BuildInv /\ [Next]_vars => BuildInv'
  BY ProofSteps
<1> QED
  BY <1>1, TypeInit, TypeStep, BuildInit, FreshInit, FreshStep, PTL DEF Spec

============================================================================
