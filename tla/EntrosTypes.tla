---------------------------- MODULE EntrosTypes ----------------------------
(***************************************************************************)
(* Type correctness of the composed programs: the lemmas about what each   *)
(* instruction writes, and the theorem that every account always holds a   *)
(* value its type allows.                                                  *)
(***************************************************************************)
EXTENDS EntrosProperties, RegistryLemmas

\* Facts about the constants of the three programs and of the system.
LEMMA SystemConstants ==
    /\ RequestBound \in BOOLEAN
    /\ NoPubkey \notin Wallets /\ NoCommitment \notin Commitments
    /\ Scalars \subseteq Commitments
    /\ NoNonce \notin Nonces
    /\ ChallengeExpiry \in Nat /\ MaxRequestLifetime \in Nat
    /\ CurrentIdentityLen \in Nat /\ CurrentIdentityLen # 0
    /\ RingLen \in Nat /\ RingLen # 0
    /\ BinSize \in Nat /\ BinSize # 0
    /\ MaxTrustScore \in Nat
    /\ MaxProofAge \in Nat /\ MaxReceiptAge \in Nat
    /\ ResetCooldown \in Nat /\ ResetCooldown <= Genesis
    /\ MaxReceiptAge < ResetCooldown
    /\ RebaselineCooldown \in Nat /\ RebaselineCooldown <= Genesis
    /\ MaxCounter \in Nat /\ MaxCount \in Nat
    /\ OldIdentityLens \subseteq 1 .. CurrentIdentityLen
    /\ OldLives \subseteq [count : 0 .. MaxCount, resetAt : {0, Genesis}]
    /\ MaxLineages \in Nat /\ MaxLineages # 0
    /\ ClockSkew \in Nat
    /\ SignedPurposes \subseteq Purposes
    /\ SignedVersions \subseteq {1, 2, 4}
BY VerifierAssumption, RingAssumption, AnchorAssumption, SystemAssumption

----------------------------------------------------------------------------
(* What the instructions write into an identity                            *)

\* An absent identity has the type of one.
LEMMA NoIdentityType == NoIdentity \in Identities
BY Constants, SystemConstants
   DEF NoIdentity, Identities, Layouts, Stamps, AnyCommitment, EmptyRing

\* The present time can be stored.
LEMMA NowType == RegistryTypeOK => now \in Stamps /\ now \in Nat /\ now # 0
BY Constants DEF RegistryTypeOK, Times, Stamps

\* The version that mint, reset and rebaseline store is in use.
LEMMA CurrentProjectionType == RegistryTypeOK => CurrentProjection \in Projections
BY DEF RegistryTypeOK, Configs, CurrentProjection

\* Recording a verification keeps a ring of time stamps.
LEMMA RecordVerificationType ==
    ASSUME NEW ring \in [1 .. RingLen -> Stamps], NEW t \in Stamps
    PROVE  RecordVerification(ring, t) \in [1 .. RingLen -> Stamps]
BY SystemConstants DEF RecordVerification

\* The score is capped, whatever the sum of its parts.
LEMMA TrustScoreType ==
    ASSUME NEW entries, NEW creation, NEW t
    PROVE  TrustScore(entries, creation, t) \in 0 .. MaxTrustScore
BY SystemConstants DEF TrustScore

\* An identity that is resized, minted, reset or rebaselined has its type.
LEMMA GrownIdentityType ==
    ASSUME NEW id \in Identities
    PROVE  GrownIdentity(id) \in Identities
BY DEF GrownIdentity, Identities, Layouts

\* mint_anchor writes a well-formed identity.
LEMMA MintedIdentityType ==
    ASSUME RegistryTypeOK, NEW w \in Wallets, NEW c \in AnyCommitment
    PROVE  MintedIdentity(w, c) \in Identities
BY NoIdentityType, NowType, CurrentProjectionType
   DEF MintedIdentity, Identities, Layouts

\* reset_identity_state writes a well-formed identity.
LEMMA ResetIdentityType ==
    ASSUME RegistryTypeOK, NEW w \in Wallets, NEW c \in AnyCommitment,
           identities[w] \in Identities
    PROVE  ResetIdentity(w, c) \in Identities
<1>1. GrownIdentity(identities[w]) \in Identities
  BY GrownIdentityType
<1>2. EmptyRing \in [1 .. RingLen -> Stamps]
  BY DEF EmptyRing, Stamps
<1>3. 0 \in 0 .. MaxCount /\ 0 \in 0 .. MaxTrustScore
  BY SystemConstants
<1> DEFINE id == GrownIdentity(identities[w])
           cleared == [id EXCEPT !.current_commitment = c,
                           !.verification_count = 0, !.trust_score = 0,
                           !.recent_timestamps = EmptyRing]
<1>4. ResetIdentity(w, c) =
        [cleared EXCEPT !.last_verification_timestamp = now,
             !.last_reset_timestamp = now,
             !.projection_version = CurrentProjection]
  BY DEF ResetIdentity
<1> HIDE DEF id
<1>5. cleared \in Identities
  BY <1>1, <1>2, <1>3 DEF id, Identities
<1> HIDE DEF cleared
<1> QED
  BY <1>4, <1>5, NowType, CurrentProjectionType DEF Identities

\* rebaseline_projection writes a well-formed identity.
LEMMA RebaselinedIdentityType ==
    ASSUME RegistryTypeOK, NEW w \in Wallets, NEW c \in AnyCommitment,
           identities[w] \in Identities
    PROVE  RebaselinedIdentity(w, c) \in Identities
<1>1. GrownIdentity(identities[w]) \in Identities
  BY GrownIdentityType
<1> QED
  BY <1>1, NowType, CurrentProjectionType DEF RebaselinedIdentity, Identities

\* An update stores a ring, a capped score and a count that did not overflow.
LEMMA UpdatedIdentityType ==
    ASSUME RegistryTypeOK, NEW w \in Wallets, NEW c \in AnyCommitment,
           identities[w] \in Identities,
           identities[w].verification_count < MaxCount
    PROVE  UpdatedIdentity(w, c) \in Identities
<1> DEFINE id == identities[w]
           ring == RecordVerification(id.recent_timestamps, now)
           score == TrustScore(RingEntries(ring), id.creation_timestamp, now)
<1>1. ring \in [1 .. RingLen -> Stamps]
  BY NowType, RecordVerificationType DEF Identities
<1>2. score \in 0 .. MaxTrustScore
  BY TrustScoreType
<1>3. UpdatedIdentity(w, c) =
        [GrownIdentity(id) EXCEPT
            !.current_commitment = c, !.verification_count = @ + 1,
            !.last_verification_timestamp = now, !.recent_timestamps = ring,
            !.trust_score = score]
  BY DEF UpdatedIdentity
<1>4. GrownIdentity(id) \in Identities
  BY GrownIdentityType
<1>5. GrownIdentity(id).verification_count + 1 \in 0 .. MaxCount
  <2>1. GrownIdentity(id).verification_count = id.verification_count
    BY DEF GrownIdentity, Identities
  <2>2. id.verification_count \in 0 .. MaxCount
    BY DEF Identities
  <2> QED
    BY <2>1, <2>2, SystemConstants
<1> DEFINE counted == [GrownIdentity(id) EXCEPT
                            !.current_commitment = c,
                            !.verification_count = @ + 1,
                            !.last_verification_timestamp = now]
<1> HIDE DEF ring, score
<1>6. counted \in Identities
  BY <1>4, <1>5, NowType DEF Identities
<1>7. UpdatedIdentity(w, c) =
        [counted EXCEPT !.recent_timestamps = ring, !.trust_score = score]
  BY <1>3
<1> HIDE DEF counted
<1> QED
  BY <1>1, <1>2, <1>6, <1>7 DEF Identities

\* migrate_identity writes a well-formed identity.
LEMMA MigratedIdentityType ==
    ASSUME NEW old \in Wallets, NEW user \in Wallets,
           identities[old] \in Identities
    PROVE  MigratedIdentity(old, user) \in Identities
BY DEF MigratedIdentity, Identities

----------------------------------------------------------------------------
(* Pieces the instructions share                                           *)

\* A token account holds a token only while its mint exists, so minting never
\* adds a second one.
TokenInv == \A w \in Wallets : tokens[w].amount = 1 => tokens[w].mint

TypeInv == TypeOK /\ TokenInv

\* The fee of an instruction leaves the registry's accounts well-typed.
LEMMA FeeType ==
    ASSUME RegistryTypeOK, NEW fee \in Nat, FeeCharged(fee),
           UNCHANGED <<now, config, vault, stakes, retiredAt, proposedBy>>
    PROVE  RegistryTypeOK'
<1>1. CASE UNCHANGED treasury
  BY <1>1 DEF RegistryTypeOK
<1>2. CASE Pay(fee)
  BY <1>2, PaidType
<1> QED
  BY <1>1, <1>2 DEF FeeCharged

\* The fees read from the config are amounts.
LEMMA FeeAmounts ==
    RegistryTypeOK => config.verification_fee \in Nat /\ config.migration_fee \in Nat
BY DEF RegistryTypeOK, Configs

Counters == [Wallets -> [version : {0, 1}, counter : 0 .. MaxCounter]]

\* Advancing counters never passes the largest one.
LEMMA CountersType ==
    ASSUME requests \in Counters, NEW ws \in SUBSET Wallets, CountersAdvanced(ws)
    PROVE  requests' \in Counters
<1>1. CASE UNCHANGED requests
  BY <1>1
<1>2. CASE /\ \A w \in ws : requests[w].counter < MaxCounter
           /\ requests' = [w \in Wallets |->
                  IF w \in ws THEN Advanced(requests[w]) ELSE requests[w]]
  <2> SUFFICES ASSUME NEW w \in Wallets
               PROVE  (IF w \in ws THEN Advanced(requests[w]) ELSE requests[w])
                         \in [version : {0, 1}, counter : 0 .. MaxCounter]
    BY <1>2 DEF Counters
  <2>1. requests[w].counter \in 0 .. MaxCounter
    BY DEF Counters
  <2>2. CASE w \in ws
    BY <1>2, <2>1, <2>2, SystemConstants DEF Advanced
  <2>3. CASE w \notin ws
    BY <2>3 DEF Counters
  <2> QED
    BY <2>2, <2>3
<1> QED
  BY <1>1, <1>2 DEF CountersAdvanced

\* Closing a result of either build leaves the results well-typed.
LEMMA ClosedType ==
    ASSUME VerifierTypeOK, NEW w \in Wallets, NEW n \in Nonces,
           UNCHANGED challenges
    PROVE  /\ ResultClosed(w, n) /\ UNCHANGED boundResults => VerifierTypeOK'
           /\ BoundResultClosed(w, n) /\ UNCHANGED results => VerifierTypeOK'
<1>1. CASE ResultClosed(w, n) /\ UNCHANGED boundResults
  BY <1>1 DEF VerifierTypeOK, ResultClosed, NoResult, AnyCommitment
<1>2. CASE BoundResultClosed(w, n) /\ UNCHANGED results
  <2> DEFINE Kept == [open : BOOLEAN, commitment_new : AnyCommitment,
                      commitment_prev : AnyCommitment,
                      bounds : HammingInputs \cup {<<0, 0>>},
                      verified_at : Nat, counter : Nat, valid_until : Nat,
                      request_digest : Digests \cup {NoDigest}]
  <2>1. NoBoundResult \in Kept
    BY DEF NoBoundResult, AnyCommitment
  <2>2. boundResults \in [Wallets \X Nonces -> Kept]
    BY DEF VerifierTypeOK
  <2>3. boundResults' = [boundResults EXCEPT ![<<w, n>>] = NoBoundResult]
    BY <1>2 DEF BoundResultClosed
  <2> HIDE DEF Kept
  <2>4. boundResults' \in [Wallets \X Nonces -> Kept]
    BY <2>1, <2>2, <2>3
  <2> QED
    BY <1>2, <2>4 DEF VerifierTypeOK, Kept
<1> QED
  BY <1>1, <1>2

\* Minting where there is no mint yields one token.
LEMMA MintedTokenType ==
    ASSUME tokens \in [Wallets -> Tokens], TokenInv, NEW w \in Wallets,
           TokenMintable(w)
    PROVE  MintedToken(w) \in Tokens /\ MintedToken(w).mint
BY DEF TokenInv, TokenMintable, MintedToken, Tokens

----------------------------------------------------------------------------
(* One lemma per instruction                                               *)

\* mint_anchor: token, identity, counter and fee keep their types.
LEMMA MintTypes ==
    ASSUME TypeInv, NEW w \in Wallets, NEW c \in AnyCommitment,
           NEW r \in signed, Mint(w, c, r)
    PROVE  TypeInv'
<1> USE DEF TypeInv, TypeOK
<1>1. MintAnchor(w, c, r) /\ AnchorFrame
  BY DEF Mint
<1>2. RegistryTypeOK'
  BY <1>1, FeeType, FeeAmounts DEF MintAnchor, AnchorFrame
<1>3. VerifierTypeOK'
  BY <1>1 DEF MintAnchor, AnchorFrame, VerifierTypeOK
<1>4. MintedIdentity(w, c) \in Identities
  BY MintedIdentityType
<1>5. MintedToken(w) \in Tokens /\ MintedToken(w).mint
  BY <1>1, MintedTokenType DEF MintAnchor, AnchorTypeOK
<1>6. requests' \in Counters
  BY <1>1, CountersType DEF MintAnchor, AnchorTypeOK, Counters
<1>7. AnchorTypeOK'
  BY <1>1, <1>4, <1>5, <1>6 DEF MintAnchor, AnchorFrame, AnchorTypeOK, Counters
<1>8. TokenInv'
  BY <1>1, <1>5 DEF MintAnchor, AnchorTypeOK, TokenInv
<1>9. HistoryTypeOK'
  BY SystemConstants DEF Mint, HistoryTypeOK
<1> QED
  BY <1>2, <1>3, <1>7, <1>8, <1>9

\* What is noted in the history of a lineage keeps its type.
LEMMA LedgerAssigned ==
    ASSUME NEW lives \in [Lineages -> LifeRecords], NEW l, NEW s \in Stamps,
           NEW score \in Nat
    PROVE  /\ [lives EXCEPT ![l].earned = 0] \in [Lineages -> LifeRecords]
           /\ [lives EXCEPT ![l].earned = @ + 1] \in [Lineages -> LifeRecords]
           /\ [lives EXCEPT ![l].score = score] \in [Lineages -> LifeRecords]
           /\ [lives EXCEPT ![l].resets = @ + 1] \in [Lineages -> LifeRecords]
           /\ [lives EXCEPT ![l].resetAt = s] \in [Lineages -> LifeRecords]
           /\ [lives EXCEPT ![l].rebaselines = @ + 1]
                \in [Lineages -> LifeRecords]
           /\ [lives EXCEPT ![l].rebasedAt = s] \in [Lineages -> LifeRecords]
<1>1. ASSUME NEW x \in LifeRecords
      PROVE  /\ [x EXCEPT !.earned = 0] \in LifeRecords
             /\ [x EXCEPT !.earned = @ + 1] \in LifeRecords
             /\ [x EXCEPT !.score = score] \in LifeRecords
             /\ [x EXCEPT !.resets = @ + 1] \in LifeRecords
             /\ [x EXCEPT !.resetAt = s] \in LifeRecords
             /\ [x EXCEPT !.rebaselines = @ + 1] \in LifeRecords
             /\ [x EXCEPT !.rebasedAt = s] \in LifeRecords
  BY DEF LifeRecords
<1> QED
  BY <1>1

\* What an update of either build does to the histories.
LEMMA UpdateStepTypes ==
    ASSUME HistoryTypeOK, NEW w \in Wallets, NEW r \in signed, UpdateStep(w, r),
           identities'[w] \in Identities
    PROVE  HistoryTypeOK'
<1>1. ledger' \in [Lineages -> LifeRecords]
  <2> DEFINE l == lineage[w]
             counted == [ledger EXCEPT ![l].earned = @ + 1]
             score == identities'[w].trust_score
  <2>1. 0 \in Stamps /\ score \in Nat
    BY SystemConstants DEF Stamps, Identities
  <2>2. counted \in [Lineages -> LifeRecords]
    BY <2>1, LedgerAssigned DEF HistoryTypeOK
  <2>3. ledger' = [counted EXCEPT ![l].score = score]
    BY DEF UpdateStep
  <2> HIDE DEF counted, score
  <2> QED
    BY <2>1, <2>2, <2>3, LedgerAssigned
<1>2. proofs' \in [Wallets -> [made : Nat, spent : Nat]]
  BY DEF UpdateStep, HistoryTypeOK
<1> QED
  BY <1>1, <1>2 DEF UpdateStep, HistoryTypeOK

\* update_anchor, in the default build, keeps every type.
LEMMA UpdateTypes ==
    ASSUME TypeInv, NEW w \in Wallets, NEW n \in Nonces, NEW r \in signed,
           UpdateCompact(w, n, r)
    PROVE  TypeInv'
<1> USE DEF TypeInv, TypeOK
<1>1. UpdateAnchorCompact(w, n, r) /\ UpdateStep(w, r) /\ AnchorFrame
  BY DEF UpdateCompact, UpdateStep
<1>2. RegistryTypeOK'
  BY <1>1, FeeType, FeeAmounts DEF UpdateAnchorCompact, AnchorFrame
<1>3. VerifierTypeOK'
  BY <1>1, ClosedType DEF UpdateAnchorCompact, AnchorFrame
<1>4. results[<<w, n>>].commitment_new \in AnyCommitment
  BY DEF VerifierTypeOK
<1>5. identities[w] \in Identities /\ identities[w].verification_count < MaxCount
  BY <1>1 DEF UpdateAnchorCompact, UpdateAllowed, AnchorTypeOK
<1>6. UpdatedIdentity(w, results[<<w, n>>].commitment_new) \in Identities
  BY <1>4, <1>5, UpdatedIdentityType
<1>7. AnchorTypeOK' /\ TokenInv'
  BY <1>1, <1>6 DEF UpdateAnchorCompact, AnchorFrame, AnchorTypeOK, TokenInv
<1>8. HistoryTypeOK'
  BY <1>1, <1>7, UpdateStepTypes DEF AnchorTypeOK
<1> QED
  BY <1>2, <1>3, <1>7, <1>8

\* update_anchor, in the request-bound build, keeps every type.
LEMMA UpdateBoundTypes ==
    ASSUME TypeInv, NEW w \in Wallets, NEW n \in Nonces, NEW r \in signed,
           UpdateBound(w, n, r)
    PROVE  TypeInv'
<1> USE DEF TypeInv, TypeOK
<1>1. UpdateAnchorBound(w, n, r) /\ UpdateStep(w, r) /\ AnchorFrame
  BY DEF UpdateBound, UpdateStep
<1>2. RegistryTypeOK'
  BY <1>1, FeeType, FeeAmounts DEF UpdateAnchorBound, AnchorFrame
<1>3. VerifierTypeOK'
  BY <1>1, ClosedType DEF UpdateAnchorBound, AnchorFrame
<1>4. boundResults[<<w, n>>].commitment_new \in AnyCommitment
  BY DEF VerifierTypeOK
<1>5. identities[w] \in Identities /\ identities[w].verification_count < MaxCount
  BY <1>1 DEF UpdateAnchorBound, UpdateAllowed, AnchorTypeOK
<1>6. UpdatedIdentity(w, boundResults[<<w, n>>].commitment_new) \in Identities
  BY <1>4, <1>5, UpdatedIdentityType
<1>7. requests' \in Counters
  BY <1>1, CountersType DEF UpdateAnchorBound, AnchorTypeOK, Counters
<1>8. AnchorTypeOK' /\ TokenInv'
  BY <1>1, <1>6, <1>7
  DEF UpdateAnchorBound, AnchorFrame, AnchorTypeOK, TokenInv, Counters
<1>9. HistoryTypeOK'
  BY <1>1, <1>8, UpdateStepTypes DEF AnchorTypeOK
<1> QED
  BY <1>2, <1>3, <1>8, <1>9

\* reset_identity_state keeps every type.
LEMMA ResetTypes ==
    ASSUME TypeInv, NEW w \in Wallets, NEW c \in AnyCommitment,
           NEW p \in Projections, NEW r \in signed, Reset(w, c, p, r)
    PROVE  TypeInv'
<1> USE DEF TypeInv, TypeOK
<1>1. ResetIdentityState(w, c, p, r) /\ AnchorFrame
  BY DEF Reset
<1>2. RegistryTypeOK'
  BY <1>1, FeeType, FeeAmounts DEF ResetIdentityState, AnchorFrame
<1>3. VerifierTypeOK'
  BY <1>1 DEF ResetIdentityState, AnchorFrame, VerifierTypeOK
<1>4. ResetIdentity(w, c) \in Identities
  BY ResetIdentityType DEF AnchorTypeOK
<1>5. requests' \in Counters
  BY <1>1, CountersType DEF ResetIdentityState, AnchorTypeOK, Counters
<1>6. AnchorTypeOK' /\ TokenInv'
  BY <1>1, <1>4, <1>5
  DEF ResetIdentityState, AnchorFrame, AnchorTypeOK, TokenInv, Counters
<1>7. ledger' \in [Lineages -> LifeRecords]
  <2> DEFINE l == lineage[w]
             unearned == [ledger EXCEPT ![l].earned = 0]
             forgotten == [unearned EXCEPT ![l].score = 0]
             counted == [forgotten EXCEPT ![l].resets = @ + 1]
  <2>1. now \in Stamps /\ 0 \in Nat /\ ledger \in [Lineages -> LifeRecords]
    BY NowType DEF HistoryTypeOK
  <2>2. forgotten \in [Lineages -> LifeRecords]
    <3>1. unearned \in [Lineages -> LifeRecords]
      BY <2>1, LedgerAssigned
    <3> HIDE DEF unearned
    <3> QED
      BY <2>1, <3>1, LedgerAssigned
  <2>3. ledger' = [counted EXCEPT ![l].resetAt = now]
    BY DEF Reset
  <2> HIDE DEF forgotten
  <2>4. counted \in [Lineages -> LifeRecords]
    BY <2>1, <2>2, LedgerAssigned
  <2> HIDE DEF counted
  <2> QED
    BY <2>1, <2>3, <2>4, LedgerAssigned
<1>8. HistoryTypeOK'
  BY <1>7 DEF Reset, HistoryTypeOK
<1> QED
  BY <1>2, <1>3, <1>6, <1>8

\* rebaseline_projection keeps every type.
LEMMA RebaselineTypes ==
    ASSUME TypeInv, NEW w \in Wallets, NEW c \in AnyCommitment,
           NEW p \in Projections, NEW r \in signed, Rebaseline(w, c, p, r)
    PROVE  TypeInv'
<1> USE DEF TypeInv, TypeOK
<1>1. RebaselineAnchor(w, c, p, r) /\ AnchorFrame
  BY DEF Rebaseline
<1>2. RegistryTypeOK'
  BY <1>1, FeeType, FeeAmounts DEF RebaselineAnchor, AnchorFrame
<1>3. VerifierTypeOK'
  BY <1>1 DEF RebaselineAnchor, AnchorFrame, VerifierTypeOK
<1>4. RebaselinedIdentity(w, c) \in Identities
  BY RebaselinedIdentityType DEF AnchorTypeOK
<1>5. requests' \in Counters
  BY <1>1, CountersType DEF RebaselineAnchor, AnchorTypeOK, Counters
<1>6. AnchorTypeOK' /\ TokenInv'
  BY <1>1, <1>4, <1>5
  DEF RebaselineAnchor, AnchorFrame, AnchorTypeOK, TokenInv, Counters
<1>7. ledger' \in [Lineages -> LifeRecords]
  <2> DEFINE l == lineage[w]
             counted == [ledger EXCEPT ![l].rebaselines = @ + 1]
  <2>1. now \in Stamps /\ ledger \in [Lineages -> LifeRecords]
    BY NowType DEF HistoryTypeOK
  <2>2. counted \in [Lineages -> LifeRecords]
    BY <2>1, LedgerAssigned
  <2>3. ledger' = [counted EXCEPT ![l].rebasedAt = now]
    BY DEF Rebaseline
  <2> HIDE DEF counted
  <2> QED
    BY <2>1, <2>2, <2>3, LedgerAssigned
<1>8. HistoryTypeOK'
  BY <1>7 DEF Rebaseline, HistoryTypeOK
<1> QED
  BY <1>2, <1>3, <1>6, <1>8

\* migrate_identity keeps every type, on both wallets.
LEMMA MigrateTypes ==
    ASSUME TypeInv, NEW old \in Wallets, NEW user \in Wallets,
           Migrate(old, user)
    PROVE  TypeInv'
<1> USE DEF TypeInv, TypeOK
<1>1. MigrateIdentity(old, user) /\ AnchorFrame
  BY DEF Migrate
<1>2. RegistryTypeOK'
  BY <1>1, FeeType, FeeAmounts DEF MigrateIdentity, AnchorFrame
<1>3. VerifierTypeOK'
  BY <1>1 DEF MigrateIdentity, AnchorFrame, VerifierTypeOK
<1>4. MigratedIdentity(old, user) \in Identities /\ NoIdentity \in Identities
  BY MigratedIdentityType, NoIdentityType DEF AnchorTypeOK
<1>5. MintedToken(user) \in Tokens /\ MintedToken(user).mint
  BY <1>1, MintedTokenType DEF MigrateIdentity, AnchorTypeOK
<1>6. requests' \in Counters
  BY <1>1, CountersType DEF MigrateIdentity, AnchorTypeOK, Counters
<1>7. BurnedToken \in Tokens /\ BurnedToken.amount = 0
  BY DEF BurnedToken, Tokens
<1>8. AnchorTypeOK'
  BY <1>1, <1>4, <1>5, <1>6, <1>7
  DEF MigrateIdentity, IdentityMoved, AnchorFrame, AnchorTypeOK, Counters
<1>9. TokenInv'
  BY <1>1, <1>5, <1>7 DEF MigrateIdentity, AnchorTypeOK, TokenInv
<1>10. HistoryTypeOK'
  BY SystemConstants DEF Migrate, HistoryTypeOK
<1> QED
  BY <1>2, <1>3, <1>8, <1>9, <1>10

\* The instructions and token operations that move no reputation.
AccountsOK ==
    /\ identities \in [Wallets -> Identities]
    /\ requests \in Counters
    /\ tokens \in [Wallets -> Tokens]
    /\ TokenInv

\* authorize_new_wallet: accounts alone.
LEMMA AuthorizeAccounts ==
    ASSUME AccountsOK, NEW w \in Wallets, NEW new \in Wallets,
           AuthorizeNewWallet(w, new)
    PROVE  AccountsOK'
<1>1. ASSUME NEW id \in Identities PROVE [id EXCEPT !.new_wallet = new] \in Identities
  BY <1>1 DEF Identities
<1>2. identities' \in [Wallets -> Identities]
  BY <1>1 DEF AccountsOK, AuthorizeNewWallet
<1>3. tokens' \in [Wallets -> Tokens] /\ TokenInv'
  BY DEF AccountsOK, AuthorizeNewWallet, Tokens, TokenInv
<1> QED
  BY <1>2, <1>3 DEF AccountsOK, AuthorizeNewWallet

\* prepare_proof_request: accounts alone.
LEMMA PrepareAccounts ==
    ASSUME AccountsOK, NEW w \in Wallets, PrepareProofRequest(w)
    PROVE  AccountsOK'
<1>1. requests' \in Counters
  BY DEF AccountsOK, PrepareProofRequest, Counters
<1> QED
  BY <1>1 DEF AccountsOK, PrepareProofRequest, TokenInv

\* The layout upgrade: accounts alone.
LEMMA UpgradeAccounts ==
    ASSUME AccountsOK, NEW w \in Wallets, UpgradeIdentityLayout(w)
    PROVE  AccountsOK'
BY GrownIdentityType DEF AccountsOK, UpgradeIdentityLayout, TokenInv

\* What holders do with their tokens: accounts alone.
LEMMA HolderAccounts ==
    ASSUME AccountsOK, NEW w \in Wallets,
           \/ TokenBurned(w)
           \/ \E d \in Wallets \cup {NoPubkey} : TokenDelegated(w, d)
           \/ TokenAccountCreated(w) \/ TokenAccountClosed(w)
           \/ MintAddressFunded(w)
    PROVE  AccountsOK'
<1>1. UNCHANGED <<identities, requests>>
  BY DEF TokenBurned, TokenDelegated, TokenAccountCreated, TokenAccountClosed,
         MintAddressFunded
<1>2. /\ tokens' \in [Wallets -> Tokens]
      /\ \A x \in Wallets : /\ tokens'[x].mint = tokens[x].mint
                            /\ tokens'[x].amount = 1 => tokens[x].amount = 1
  <2> USE DEF AccountsOK, Tokens
  <2>1. CASE TokenBurned(w)
    BY <2>1 DEF TokenBurned
  <2>2. ASSUME NEW d \in Wallets \cup {NoPubkey}, TokenDelegated(w, d)
        PROVE  <1>2
    BY <2>2 DEF TokenDelegated
  <2>3. CASE TokenAccountCreated(w)
    BY <2>3 DEF TokenAccountCreated
  <2>4. CASE TokenAccountClosed(w)
    BY <2>4 DEF TokenAccountClosed
  <2>5. CASE MintAddressFunded(w)
    BY <2>5 DEF MintAddressFunded
  <2> QED
    BY <2>1, <2>2, <2>3, <2>4, <2>5
<1> QED
  BY <1>1, <1>2 DEF AccountsOK, TokenInv

Holding(w) ==
    \/ \E new \in Wallets : Authorize(w, new)
    \/ Prepare(w) \/ Upgrade(w) \/ HolderStep(w)

\* All that a holder sends without a proof or a receipt keeps every type.
LEMMA HoldingTypes ==
    ASSUME TypeInv, NEW w \in Wallets, Holding(w)
    PROVE  TypeInv'
<1>0. /\ AnchorFrame /\ UNCHANGED historyVars
      /\ \/ \E new \in Wallets : AuthorizeNewWallet(w, new)
         \/ PrepareProofRequest(w)
         \/ UpgradeIdentityLayout(w)
         \/ TokenBurned(w)
         \/ \E d \in Wallets \cup {NoPubkey} : TokenDelegated(w, d)
         \/ TokenAccountCreated(w)
         \/ TokenAccountClosed(w)
         \/ MintAddressFunded(w)
  BY DEF Holding, Authorize, Prepare, Upgrade, HolderStep
<1>1. UNCHANGED <<results, boundResults, treasury>>
  BY <1>0 DEF AuthorizeNewWallet, PrepareProofRequest, UpgradeIdentityLayout,
         TokenBurned, TokenDelegated, TokenAccountCreated, TokenAccountClosed,
         MintAddressFunded
<1>2. /\ RegistryTypeOK' /\ VerifierTypeOK' /\ HistoryTypeOK'
      /\ signed' \subseteq Receipts
  BY <1>0, <1>1 DEF TypeInv, TypeOK, AnchorFrame, RegistryTypeOK,
     VerifierTypeOK, HistoryTypeOK, historyVars, AnchorTypeOK
<1>3. AccountsOK
  BY DEF TypeInv, TypeOK, AnchorTypeOK, AccountsOK, Counters
<1>4. AccountsOK'
  BY <1>0, <1>3, AuthorizeAccounts, PrepareAccounts, UpgradeAccounts, HolderAccounts
<1> QED
  BY <1>2, <1>4 DEF TypeInv, TypeOK, AnchorTypeOK, AccountsOK, Counters

\* The verifications of both builds keep every type.
LEMMA VerifyTypes ==
    ASSUME TypeInv, NEW w \in Wallets, NEW n \in Nonces,
           NEW new \in AnyCommitment, NEW prev \in AnyCommitment,
           NEW h \in HammingInputs, Verify(w, n, new, prev, h)
    PROVE  TypeInv'
<1> USE DEF TypeInv, TypeOK
<1>1. /\ RegistryTypeOK' /\ AnchorTypeOK' /\ TokenInv'
      /\ UNCHANGED <<lineage, born, ledger>>
  BY DEF Verify, VerifierFrame, RegistryTypeOK, registryVars, anchorVars,
         AnchorTypeOK, TokenInv, LifeHistory
<1>2. proofs' \in [Wallets -> [made : Nat, spent : Nat]]
  BY DEF Verify, ProofMade, HistoryTypeOK
<1>3. VerifierTypeOK'
  BY NowType DEF Verify, VerifyProof, VerifierTypeOK
<1> QED
  BY <1>1, <1>2, <1>3 DEF HistoryTypeOK

\* A bound result pins the identity's own projection version and commitment,
\* and the wallet's counter.
LEMMA VerifyBoundTypes ==
    ASSUME TypeInv, NEW w \in Wallets, NEW n \in Nonces,
           NEW new \in AnyCommitment, NEW prev \in AnyCommitment,
           NEW h \in HammingInputs,
           NEW u \in now .. now + MaxRequestLifetime + 1,
           VerifyBound(w, n, new, prev, h, u)
    PROVE  TypeInv'
<1> USE DEF TypeInv, TypeOK
<1>1. /\ RegistryTypeOK' /\ AnchorTypeOK' /\ TokenInv'
      /\ UNCHANGED <<lineage, born, ledger>>
  BY DEF VerifyBound, VerifierFrame, RegistryTypeOK, registryVars, anchorVars,
         AnchorTypeOK, TokenInv, LifeHistory
<1>2. proofs' \in [Wallets -> [made : Nat, spent : Nat]]
  BY DEF VerifyBound, ProofMade, HistoryTypeOK
<1>3. VerifierTypeOK'
  <2> DEFINE counter == requests[w].counter
             projection == identities[w].projection_version
             digest == RequestDigest(w, n, counter, projection, new, prev, h, u)
             result == [open |-> TRUE, commitment_new |-> new,
                        commitment_prev |-> prev, bounds |-> h,
                        verified_at |-> now, counter |-> counter,
                        valid_until |-> u, request_digest |-> digest]
  <2>1. VerifyProofBound(w, n, new, prev, h, u)
    BY DEF VerifyBound
  <2>2. now \in Nat /\ u \in Nat /\ counter \in Nat
    BY NowType, SystemConstants DEF AnchorTypeOK
  <2>3. projection \in Projections
    BY DEF AnchorTypeOK, Identities
  <2>4. new \in Commitments /\ prev \in Commitments
    BY <2>1, SystemConstants DEF VerifyProofBound, Encodable
  <2>5. boundResults' = [boundResults EXCEPT ![<<w, n>>] = result]
    BY <2>1 DEF VerifyProofBound
  <2> HIDE DEF counter, projection
  <2>6. digest \in Digests
    BY <2>2, <2>3, <2>4 DEF RequestDigest, Digests
  <2> HIDE DEF digest
  <2>7. result \in [open : BOOLEAN, commitment_new : AnyCommitment,
                    commitment_prev : AnyCommitment,
                    bounds : HammingInputs \cup {<<0, 0>>}, verified_at : Nat,
                    counter : Nat, valid_until : Nat,
                    request_digest : Digests \cup {NoDigest}]
    BY <2>2, <2>6
  <2> HIDE DEF result
  <2> QED
    BY <2>1, <2>5, <2>7 DEF VerifyProofBound, VerifierTypeOK
<1> QED
  BY <1>1, <1>2, <1>3 DEF HistoryTypeOK

\* Closing a result keeps every type.
LEMMA CloseTypes ==
    ASSUME TypeInv, NEW w \in Wallets, NEW n \in Nonces, CloseResult(w, n)
    PROVE  TypeInv'
<1> USE DEF TypeInv, TypeOK
<1>1. RegistryTypeOK' /\ AnchorTypeOK' /\ TokenInv' /\ HistoryTypeOK'
  BY DEF CloseResult, VerifierFrame, RegistryTypeOK, registryVars, anchorVars,
         AnchorTypeOK, TokenInv, LifeHistory, HistoryTypeOK
<1>2. VerifierTypeOK'
  BY ClosedType DEF CloseResult, CloseVerificationResult,
                    CloseBoundVerificationResult
<1> QED
  BY <1>1, <1>2

\* Challenges keep every type.
LEMMA ChallengeTypes == TypeInv /\ ChallengeStep => TypeInv'
<1> SUFFICES ASSUME TypeInv, ChallengeStep PROVE TypeInv'
  OBVIOUS
<1> USE DEF TypeInv, TypeOK
<1>1. RegistryTypeOK' /\ AnchorTypeOK' /\ TokenInv' /\ HistoryTypeOK'
  BY DEF ChallengeStep, VerifierFrame, RegistryTypeOK, registryVars, anchorVars,
         AnchorTypeOK, TokenInv, LifeHistory, HistoryTypeOK
<1>2. PICK w \in Wallets, n \in Nonces \cup {NoNonce} :
          CreateChallenge(w, n) \/ (n \in Nonces /\ CloseChallenge(w, n))
  BY DEF ChallengeStep, ChallengeNext
<1>3. now \in Nat /\ now + ChallengeExpiry \in Nat
  BY NowType, SystemConstants
<1>4. CASE CreateChallenge(w, n)
  BY <1>1, <1>3, <1>4 DEF CreateChallenge, VerifierTypeOK
<1>5. CASE CloseChallenge(w, n)
  BY <1>1, <1>5 DEF CloseChallenge, NoChallenge, VerifierTypeOK
<1> QED
  BY <1>2, <1>4, <1>5

\* The service signs only receipts with a key of its own and a time stamp.
LEMMA ServiceTypes == TypeInv /\ ServiceNext => TypeInv'
<1> SUFFICES ASSUME TypeInv, ServiceNext PROVE TypeInv'
  OBVIOUS
<1> USE DEF TypeInv, TypeOK
<1>1. PICK v \in SignedVersions, k \in ValidatorKeys, u \in SignedPurposes,
           w \in Wallets, c \in Commitments, p \in Projections,
           at \in now .. now + ClockSkew :
           SignReceipt(v, k, u, w, c, p, at)
  BY DEF ServiceNext
<1>2. at \in Nat /\ v \in {1, 2, 4} /\ u \in Purposes
  BY NowType, SystemConstants
<1>3. [version |-> v, key |-> k, purpose |-> u, wallet |-> w, commitment |-> c,
       projection |-> p, validated_at |-> at] \in Receipts
  BY <1>2 DEF Receipts
<1>4. signed' \subseteq Receipts
  BY <1>1, <1>3 DEF SignReceipt, AnchorTypeOK
<1> QED
  BY <1>1, <1>4 DEF SignReceipt, RegistryTypeOK, registryVars, VerifierTypeOK,
     verifierVars, AnchorTypeOK, anchorVars, TokenInv, HistoryTypeOK, historyVars

\* No instruction of the registry moves the clock.
LEMMA RegistryHoldsClock == RegistryStep => now' = now
BY DEF RegistryStep, RegistryNext, ConfigNext, AuthorityNext, StakeNext,
       TreasuryNext, InitializeProtocol, UpdateProtocolConfig,
       SetValidatorPubkey, RotateValidatorPubkey, SetProjectionVersions,
       ProposeAuthority, AcceptAuthority, MigrateAdmin, RegisterValidator,
       UnstakeValidator, WithdrawTreasury, Funding, TreasuryFunded, VaultFunded

\* The registry's instructions and the clock keep every type.
LEMMA RegistryTypes == TypeInv /\ (RegistryStep \/ ClockTick) => TypeInv'
<1> SUFFICES ASSUME TypeInv, RegistryStep \/ ClockTick PROVE TypeInv'
  OBVIOUS
<1> USE DEF TypeInv, TypeOK
<1>1. RegistryTypeOK'
  BY RegistryNextType, FundedType, TickType DEF RegistryStep, ClockTick
<1>2. UNCHANGED <<verifierVars, anchorVars, signed, historyVars>>
  BY DEF RegistryStep, ClockTick
<1> QED
  BY <1>1, <1>2 DEF VerifierTypeOK, verifierVars, AnchorTypeOK, anchorVars,
     TokenInv, HistoryTypeOK, historyVars

----------------------------------------------------------------------------
(* The theorem                                                             *)

\* The instructions one by one: what a step of the system can be.
LEMMA NextSteps ==
    ASSUME [Next]_vars
    PROVE  \/ \E w \in Wallets, c \in AnyCommitment, r \in signed : Mint(w, c, r)
           \/ \E w \in Wallets, n \in Nonces, r \in signed :
                 UpdateCompact(w, n, r) \/ UpdateBound(w, n, r)
           \/ \E w \in Wallets, c \in AnyCommitment, p \in Projections,
                 r \in signed : Reset(w, c, p, r) \/ Rebaseline(w, c, p, r)
           \/ \E w, x \in Wallets : Migrate(w, x)
           \/ \E w \in Wallets : Holding(w)
           \/ \E w \in Wallets, n \in Nonces, new, prev \in AnyCommitment,
                 h \in HammingInputs : Verify(w, n, new, prev, h)
           \/ \E w \in Wallets, n \in Nonces, new, prev \in AnyCommitment,
                 h \in HammingInputs,
                 u \in now .. now + MaxRequestLifetime + 1 :
                 VerifyBound(w, n, new, prev, h, u)
           \/ \E w \in Wallets, n \in Nonces : CloseResult(w, n)
           \/ ChallengeStep
           \/ ServiceNext
           \/ RegistryStep \/ ClockTick
           \/ UNCHANGED vars
<1>1. AnchorNext =>
        \/ \E w \in Wallets, c \in AnyCommitment, r \in signed : Mint(w, c, r)
        \/ UpdateNext
        \/ RecoveryNext
        \/ \E w, x \in Wallets : Migrate(w, x)
        \/ \E w \in Wallets : Holding(w)
  BY DEF AnchorNext, Holding
<1>2. UpdateNext => \E w \in Wallets, n \in Nonces, r \in signed :
                       UpdateCompact(w, n, r) \/ UpdateBound(w, n, r)
  BY DEF UpdateNext, UpdateWithArgument, UpdateCompact, UpdateAnchor
<1> QED
  BY <1>1, <1>2 DEF Next, RecoveryNext, ProofNext

\* Every step of the composition keeps every type.
LEMMA TypeStep == TypeInv /\ [Next]_vars => TypeInv'
<1> SUFFICES ASSUME TypeInv, [Next]_vars PROVE TypeInv'
  OBVIOUS
<1>1. CASE UNCHANGED vars
  BY <1>1 DEF TypeInv, TypeOK, vars, RegistryTypeOK, registryVars,
     VerifierTypeOK, verifierVars, AnchorTypeOK, anchorVars, TokenInv,
     HistoryTypeOK, historyVars
<1> QED
  BY <1>1, NextSteps, MintTypes, UpdateTypes, UpdateBoundTypes, ResetTypes,
     RebaselineTypes, MigrateTypes, HoldingTypes, VerifyTypes,
     VerifyBoundTypes, CloseTypes, ChallengeTypes, ServiceTypes, RegistryTypes

\* An identity that was there before has the type of one.
LEMMA InheritedIdentityType ==
    ASSUME NEW w \in Wallets, NEW c \in Commitments,
           NEW len \in OldIdentityLens, NEW life \in OldLives
    PROVE  InheritedIdentity(w, c, len, life) \in Identities
<1> DEFINE ring == IF life.count = 0 THEN EmptyRing
                   ELSE RecordVerification(EmptyRing, Genesis)
           score == IF life.count = 0 THEN 0
                    ELSE TrustScore(RingEntries(ring), Genesis, Genesis)
           dated == [NoIdentity EXCEPT !.layout = len, !.owner = w,
                        !.creation_timestamp = Genesis,
                        !.last_verification_timestamp = Genesis,
                        !.verification_count = life.count]
<1>1. Genesis \in Stamps /\ 0 \in Stamps /\ life.resetAt \in Stamps
      /\ life.count \in 0 .. MaxCount
  BY Constants, SystemConstants DEF Stamps, Times
<1>2. ring \in [1 .. RingLen -> Stamps]
  BY <1>1, RecordVerificationType DEF EmptyRing
<1>3. score \in 0 .. MaxTrustScore
  BY TrustScoreType, SystemConstants
<1>4. InheritedIdentity(w, c, len, life) =
        [dated EXCEPT !.trust_score = score, !.current_commitment = c,
                      !.recent_timestamps = ring,
                      !.last_reset_timestamp = life.resetAt]
  BY DEF InheritedIdentity
<1> HIDE DEF ring, score
<1>5. dated \in Identities
  BY <1>1, NoIdentityType DEF Identities, Layouts
<1> HIDE DEF dated
<1> QED
  BY <1>1, <1>2, <1>3, <1>4, <1>5 DEF Identities, AnyCommitment

\* The accounts an earlier release left are well-typed.
LEMMA TypeInit == Init => TypeInv
<1> SUFFICES ASSUME Init PROVE TypeInv
  OBVIOUS
<1>1. RegistryTypeOK
  BY RegistryInitType DEF Init
<1>2. VerifierTypeOK
  <2>1. NoChallenge \in [open : BOOLEAN, created_at : Nat, expires_at : Nat,
                         used : BOOLEAN]
    BY DEF NoChallenge
  <2>2. NoResult \in [open : BOOLEAN, commitment_new : AnyCommitment,
                      commitment_prev : AnyCommitment, verified_at : Nat]
    BY DEF NoResult, AnyCommitment
  <2>3. NoBoundResult \in
          [open : BOOLEAN, commitment_new : AnyCommitment,
           commitment_prev : AnyCommitment,
           bounds : HammingInputs \cup {<<0, 0>>}, verified_at : Nat,
           counter : Nat, valid_until : Nat,
           request_digest : Digests \cup {NoDigest}]
    BY DEF NoBoundResult, AnyCommitment
  <2> QED
    BY <2>1, <2>2, <2>3 DEF Init, VerifierInit, VerifierTypeOK
<1>3. NoToken \in Tokens /\ FreshToken \in Tokens
  BY DEF NoToken, FreshToken, Tokens
<1>4. ASSUME NEW w \in Wallets, NEW c \in Commitments, NEW len \in OldIdentityLens,
             NEW life \in OldLives
      PROVE  InheritedIdentity(w, c, len, life) \in Identities
  BY InheritedIdentityType
<1>5. identities \in [Wallets -> Identities] /\ tokens \in [Wallets -> Tokens]
  BY <1>3, <1>4, NoIdentityType DEF Init, AnchorInit
<1>6. TokenInv
  BY DEF Init, AnchorInit, TokenInv, NoToken, FreshToken
<1>7. AnchorTypeOK
  BY <1>5, SystemConstants DEF Init, AnchorInit, AnchorTypeOK, NoRequest
<1>8. HistoryTypeOK
  <2>1. NewLife \in LifeRecords
    BY DEF NewLife, LifeRecords, Stamps
  <2>2. ASSUME NEW w \in Wallets PROVE EarlierLife(identities[w]) \in LifeRecords
    <3>1. /\ identities[w].verification_count \in Nat
          /\ identities[w].trust_score \in Nat
          /\ identities[w].last_reset_timestamp \in Stamps
      BY <1>5, SystemConstants DEF Identities
    <3>2. ASSUME NEW e \in Nat, NEW s \in Nat, NEW t \in Stamps
          PROVE  [NewLife EXCEPT !.earned = e, !.score = s, !.resetAt = t]
                    \in LifeRecords
      BY <2>1 DEF LifeRecords
    <3> QED
      BY <3>1, <3>2 DEF EarlierLife
  <2>3. ASSUME NEW l \in Lineages PROVE ledger[l] \in LifeRecords
    <3>1. ledger[l] = IF \E w \in Wallets : lineage[w] = l
            THEN EarlierLife(identities[CHOOSE w \in Wallets : lineage[w] = l])
            ELSE NewLife
      BY DEF Init
    <3> QED
      BY <2>1, <2>2, <3>1
  <2>4. ledger \in [Lineages -> LifeRecords]
    BY <2>3 DEF Init
  <2>5. lineage \in [Wallets -> 0 .. MaxLineages] /\ born \in 0 .. MaxLineages
    BY SystemConstants DEF Init
  <2>6. proofs \in [Wallets -> [made : Nat, spent : Nat]]
    BY DEF Init
  <2> QED
    BY <2>4, <2>5, <2>6 DEF HistoryTypeOK
<1> QED
  BY <1>1, <1>2, <1>6, <1>7, <1>8 DEF TypeInv, TypeOK

\* Every account of the three programs, in either build and from any earlier
\* layout, always holds a value of its type: counters and counts stay within
\* their widths, scores under their cap, a wallet never holds two tokens, and
\* results pin only commitments, versions and counters that exist.
THEOREM SystemTypeCorrect == Spec => []TypeOK
<1>1. TypeInv => TypeOK
  BY DEF TypeInv
<1> QED
  BY <1>1, TypeInit, TypeStep, PTL DEF Spec

============================================================================
