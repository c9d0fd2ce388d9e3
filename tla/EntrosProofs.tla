---------------------------- MODULE EntrosProofs ---------------------------
(***************************************************************************)
(* Theorems about identities, tokens, proofs, receipts and projections in  *)
(* the composed programs, for every set of wallets, keys and commitments,  *)
(* every sequence of instructions and a clock without a bound.             *)
(***************************************************************************)
EXTENDS EntrosTypes

----------------------------------------------------------------------------
(* What a step does to identities                                          *)

\* The fields of the identities that the instructions write.
LEMMA MintedFields ==
    ASSUME NEW w \in Wallets, NEW c
    PROVE  LET id == MintedIdentity(w, c)
           IN /\ id.layout = CurrentIdentityLen /\ id.owner = w
              /\ id.creation_timestamp = now
              /\ id.last_verification_timestamp = now
              /\ id.verification_count = 0 /\ id.current_commitment = c
              /\ id.trust_score = 0
              /\ id.recent_timestamps = EmptyRing
              /\ id.last_reset_timestamp = 0
              /\ id.last_rebaseline_timestamp = 0
              /\ id.new_wallet = NoPubkey
              /\ id.projection_version = CurrentProjection
BY DEF MintedIdentity, NoIdentity

\* What process_anchor_update writes, field by field.
LEMMA UpdatedFields ==
    ASSUME NEW w \in Wallets, NEW c, identities[w] \in Identities
    PROVE  LET id == identities[w]
               up == UpdatedIdentity(w, c)
           IN /\ up.layout = CurrentIdentityLen /\ up.owner = id.owner
              /\ up.creation_timestamp = id.creation_timestamp
              /\ up.last_verification_timestamp = now
              /\ up.verification_count = id.verification_count + 1
              /\ up.current_commitment = c
              /\ up.recent_timestamps
                    = RecordVerification(id.recent_timestamps, now)
              /\ up.last_reset_timestamp = id.last_reset_timestamp
              /\ up.last_rebaseline_timestamp = id.last_rebaseline_timestamp
              /\ up.new_wallet = id.new_wallet
              /\ up.projection_version = id.projection_version
BY DEF UpdatedIdentity, GrownIdentity, Identities

\* What reset_identity_state writes, field by field.
LEMMA ResetFields ==
    ASSUME NEW w \in Wallets, NEW c, identities[w] \in Identities
    PROVE  LET id == identities[w]
               up == ResetIdentity(w, c)
           IN /\ up.layout = CurrentIdentityLen /\ up.owner = id.owner
              /\ up.creation_timestamp = id.creation_timestamp
              /\ up.last_verification_timestamp = now
              /\ up.verification_count = 0 /\ up.trust_score = 0
              /\ up.current_commitment = c
              /\ up.recent_timestamps = EmptyRing
              /\ up.last_reset_timestamp = now
              /\ up.last_rebaseline_timestamp = id.last_rebaseline_timestamp
              /\ up.new_wallet = id.new_wallet
              /\ up.projection_version = CurrentProjection
BY DEF ResetIdentity, GrownIdentity, Identities

\* What rebaseline_projection writes, field by field.
LEMMA RebaselinedFields ==
    ASSUME NEW w \in Wallets, NEW c, identities[w] \in Identities
    PROVE  LET id == identities[w]
               up == RebaselinedIdentity(w, c)
           IN /\ up.layout = CurrentIdentityLen /\ up.owner = id.owner
              /\ up.creation_timestamp = id.creation_timestamp
              /\ up.last_verification_timestamp = now
              /\ up.verification_count = id.verification_count
              /\ up.trust_score = id.trust_score
              /\ up.current_commitment = c
              /\ up.recent_timestamps = id.recent_timestamps
              /\ up.last_reset_timestamp = id.last_reset_timestamp
              /\ up.last_rebaseline_timestamp = now
              /\ up.new_wallet = id.new_wallet
              /\ up.projection_version = CurrentProjection
BY DEF RebaselinedIdentity, GrownIdentity, Identities

\* What migrate_identity carries over, field by field.
LEMMA MigratedFields ==
    ASSUME NEW old \in Wallets, NEW user \in Wallets,
           identities[old] \in Identities
    PROVE  LET id == identities[old]
               up == MigratedIdentity(old, user)
           IN /\ up.layout = id.layout /\ up.owner = user
              /\ up.creation_timestamp = id.creation_timestamp
              /\ up.last_verification_timestamp = id.last_verification_timestamp
              /\ up.verification_count = id.verification_count
              /\ up.trust_score = id.trust_score
              /\ up.current_commitment = id.current_commitment
              /\ up.recent_timestamps = id.recent_timestamps
              /\ up.last_reset_timestamp = id.last_reset_timestamp
              /\ up.last_rebaseline_timestamp = id.last_rebaseline_timestamp
              /\ up.new_wallet = NoPubkey
              /\ up.projection_version = id.projection_version
BY DEF MigratedIdentity, Identities

\* What an update of either build does to the identity and its history.
Updated(w, c, r) ==
    /\ UpdateReady(w)
    /\ UpdateAllowed(w, c, identities[w].current_commitment, r)
    /\ identities' = [identities EXCEPT ![w] = UpdatedIdentity(w, c)]
    /\ UNCHANGED tokens
    /\ UpdateStep(w, r)

\* Every other step leaves an identity as it is, but for the length of its
\* account and the wallet that may take it over.
SameLife(w) ==
    LET id == identities[w]
        up == identities'[w]
    IN /\ up.layout = 0 <=> id.layout = 0
       /\ up.owner = id.owner
       /\ up.creation_timestamp = id.creation_timestamp
       /\ up.last_verification_timestamp = id.last_verification_timestamp
       /\ up.verification_count = id.verification_count
       /\ up.trust_score = id.trust_score
       /\ up.current_commitment = id.current_commitment
       /\ up.recent_timestamps = id.recent_timestamps
       /\ up.last_reset_timestamp = id.last_reset_timestamp
       /\ up.last_rebaseline_timestamp = id.last_rebaseline_timestamp
       /\ up.projection_version = id.projection_version

Quiet ==
    /\ UNCHANGED <<lineage, born, ledger, uses, reused>>
    /\ now' \in {now, now + 1}
    /\ \A w \in Wallets :
          /\ SameLife(w)
          /\ tokens'[w].mint = tokens[w].mint
          /\ tokens'[w].amount = 1 => tokens[w].amount = 1

\* Holders' own steps touch no commitment, score, cooldown or home.
LEMMA HoldingQuiet ==
    ASSUME TypeInv, NEW w \in Wallets, Holding(w)
    PROVE  Quiet
<1>1. AnchorFrame /\ UNCHANGED historyVars
  BY DEF Holding, Authorize, Prepare, Upgrade, HolderStep
<1>2. identities \in [Wallets -> Identities] /\ tokens \in [Wallets -> Tokens]
  BY DEF TypeInv, TypeOK, AnchorTypeOK
<1>3. \A x \in Wallets : SameLife(x)
  <2>1. CASE UNCHANGED identities
    BY <2>1 DEF SameLife
  <2>2. CASE UpgradeIdentityLayout(w)
    BY <1>2, <2>2, SystemConstants
    DEF UpgradeIdentityLayout, GrownIdentity, SameLife, Identities
  <2>3. ASSUME NEW new \in Wallets, AuthorizeNewWallet(w, new)
        PROVE  <1>3
    BY <1>2, <2>3 DEF AuthorizeNewWallet, SameLife, Identities
  <2> QED
    BY <2>1, <2>2, <2>3
    DEF Holding, Authorize, Prepare, Upgrade, HolderStep, PrepareProofRequest,
        TokenBurned, TokenDelegated, TokenAccountCreated, TokenAccountClosed,
        MintAddressFunded
<1>4. \A x \in Wallets : /\ tokens'[x].mint = tokens[x].mint
                         /\ tokens'[x].amount = 1 => tokens[x].amount = 1
  <2> USE DEF Tokens
  <2>1. CASE UNCHANGED tokens
    BY <2>1
  <2>2. ASSUME NEW new \in Wallets, AuthorizeNewWallet(w, new)
        PROVE  <1>4
    BY <1>2, <2>2 DEF AuthorizeNewWallet
  <2>3. CASE TokenBurned(w)
    BY <1>2, <2>3 DEF TokenBurned
  <2>4. ASSUME NEW d \in Wallets \cup {NoPubkey}, TokenDelegated(w, d)
        PROVE  <1>4
    BY <1>2, <2>4 DEF TokenDelegated
  <2>5. CASE TokenAccountCreated(w) \/ TokenAccountClosed(w)
    BY <1>2, <2>5 DEF TokenAccountCreated, TokenAccountClosed
  <2>6. CASE MintAddressFunded(w)
    BY <1>2, <2>6 DEF MintAddressFunded
  <2> QED
    BY <2>1, <2>2, <2>3, <2>4, <2>5, <2>6
    DEF Holding, Authorize, Prepare, Upgrade, HolderStep, PrepareProofRequest,
        UpgradeIdentityLayout
<1> QED
  BY <1>1, <1>3, <1>4 DEF Quiet, AnchorFrame, historyVars

\* Every step is one of the instructions that change a life, or a quiet one.
LEMMA LifeSteps ==
    ASSUME TypeInv, [Next]_vars
    PROVE  \/ \E w \in Wallets, c \in AnyCommitment, r \in signed : Mint(w, c, r)
           \/ \E w \in Wallets, c \in AnyCommitment, r \in signed :
                 Updated(w, c, r)
           \/ \E w \in Wallets, c \in AnyCommitment, p \in Projections,
                 r \in signed : Reset(w, c, p, r) \/ Rebaseline(w, c, p, r)
           \/ \E w, x \in Wallets : Migrate(w, x)
           \/ Quiet
<1>1. ASSUME NEW w \in Wallets, NEW n \in Nonces, NEW r \in signed,
             UpdateCompact(w, n, r)
      PROVE  \E c \in AnyCommitment : Updated(w, c, r)
  <2>1. results[<<w, n>>].commitment_new \in AnyCommitment
    BY DEF TypeInv, TypeOK, VerifierTypeOK
  <2>2. results[<<w, n>>].commitment_prev = identities[w].current_commitment
    BY <1>1 DEF UpdateCompact, UpdateAnchorCompact, UpdateAllowed
  <2> QED
    BY <1>1, <2>1, <2>2 DEF UpdateCompact, UpdateAnchorCompact, Updated
<1>2. ASSUME NEW w \in Wallets, NEW n \in Nonces, NEW r \in signed,
             UpdateBound(w, n, r)
      PROVE  \E c \in AnyCommitment : Updated(w, c, r)
  <2>1. boundResults[<<w, n>>].commitment_new \in AnyCommitment
    BY DEF TypeInv, TypeOK, VerifierTypeOK
  <2>2. boundResults[<<w, n>>].commitment_prev
          = identities[w].current_commitment
    BY <1>2 DEF UpdateBound, UpdateAnchorBound, UpdateAllowed
  <2> QED
    BY <1>2, <2>1, <2>2 DEF UpdateBound, UpdateAnchorBound, Updated
<1>3. ASSUME UNCHANGED <<identities, tokens, lineage, born, ledger, uses, reused>>,
             now' \in {now, now + 1}
      PROVE  Quiet
  BY <1>3 DEF Quiet, SameLife
<1>4. ASSUME NEW w \in Wallets, NEW n \in Nonces, CloseResult(w, n) PROVE Quiet
  BY <1>3, <1>4 DEF CloseResult, VerifierFrame, anchorVars, LifeHistory,
                    ReceiptHistory
<1>5. ASSUME NEW w \in Wallets, NEW n \in Nonces, NEW new, NEW prev, NEW h,
             Verify(w, n, new, prev, h)
      PROVE  Quiet
  BY <1>3, <1>5 DEF Verify, VerifierFrame, anchorVars, LifeHistory,
                    ReceiptHistory
<1>6. ASSUME NEW w \in Wallets, NEW n \in Nonces, NEW new, NEW prev, NEW h,
             NEW u, VerifyBound(w, n, new, prev, h, u)
      PROVE  Quiet
  BY <1>3, <1>6 DEF VerifyBound, VerifierFrame, anchorVars, LifeHistory,
                    ReceiptHistory
<1>7. CASE ChallengeStep \/ ServiceNext
  <2>1. ChallengeStep => UNCHANGED <<now, anchorVars, LifeHistory, ReceiptHistory>>
    BY DEF ChallengeStep, VerifierFrame
  <2>2. ServiceNext => UNCHANGED <<now, anchorVars, historyVars>>
    BY DEF ServiceNext, SignReceipt
  <2> QED
    BY <1>3, <1>7, <2>1, <2>2
    DEF anchorVars, historyVars, LifeHistory, ReceiptHistory
<1>8. CASE ClockTick
  BY <1>3, <1>8 DEF ClockTick, Tick, anchorVars, historyVars
<1>9. CASE UNCHANGED vars
  BY <1>3, <1>9 DEF vars, anchorVars, historyVars
<1>10. CASE RegistryStep
  <2>1. UNCHANGED now
    BY <1>10, RegistryHoldsClock
  <2> QED
    BY <1>3, <1>10, <2>1 DEF RegistryStep, anchorVars, historyVars
<1> QED
  BY <1>1, <1>2, <1>4, <1>5, <1>6, <1>7, <1>8, <1>9, <1>10,
     HoldingQuiet, NextSteps

----------------------------------------------------------------------------
(* Where identities live                                                   *)

\* Lineages are numbered as they are born, so the next one is new; and the
\* mint of a wallet exists exactly as long as its identity.
HomeInv ==
    /\ LivesAtOneWallet
    /\ TokenFollowsIdentity
    /\ \A w \in Wallets : lineage[w] <= born

\* At the start every living lineage is at one wallet, beside its token.
LEMMA HomeInit == Init => HomeInv
<1> SUFFICES ASSUME Init PROVE HomeInv
  OBVIOUS
<1>1. CASE identities = [w \in Wallets |-> NoIdentity]
           /\ tokens = [w \in Wallets |-> NoToken]
  BY <1>1 DEF Init, HomeInv, LivesAtOneWallet, TokenFollowsIdentity, Exists,
              NoIdentity, NoToken
<1>2. ASSUME NEW u \in Wallets, NEW c \in Commitments, NEW len \in OldIdentityLens,
             NEW life \in OldLives,
             identities = [w \in Wallets |->
                 IF w = u THEN InheritedIdentity(w, c, len, life)
                 ELSE NoIdentity],
             tokens = [w \in Wallets |-> IF w = u THEN FreshToken ELSE NoToken]
      PROVE  HomeInv
  <2>1. InheritedIdentity(u, c, len, life).layout = len /\ len # 0
    BY SystemConstants DEF InheritedIdentity, NoIdentity
  <2>2. \A w \in Wallets : Exists(w) <=> w = u
    BY <1>2, <2>1 DEF Exists, NoIdentity
  <2> QED
    BY <1>2, <2>2 DEF Init, HomeInv, LivesAtOneWallet, TokenFollowsIdentity,
                      NoToken, FreshToken
<1> QED
  BY <1>1, <1>2 DEF Init, AnchorInit

\* Only mint and migration move a lineage: into a free wallet, token along.
LEMMA HomeStep == TypeInv /\ HomeInv /\ [Next]_vars => HomeInv'
<1> SUFFICES ASSUME TypeInv, HomeInv, [Next]_vars PROVE HomeInv'
  OBVIOUS
<1>0. /\ identities \in [Wallets -> Identities] /\ tokens \in [Wallets -> Tokens]
      /\ lineage \in [Wallets -> 0 .. MaxLineages] /\ born \in 0 .. MaxLineages
  BY DEF TypeInv, TypeOK, AnchorTypeOK, HistoryTypeOK
<1> USE DEF HomeInv, LivesAtOneWallet, TokenFollowsIdentity, Exists
<1>1. ASSUME NEW w \in Wallets, NEW c \in AnyCommitment, NEW r \in signed,
             Mint(w, c, r)
      PROVE  HomeInv'
  <2>1. /\ identities' = [identities EXCEPT ![w] = MintedIdentity(w, c)]
        /\ tokens' = [tokens EXCEPT ![w] = MintedToken(w)]
        /\ born' = born + 1 /\ lineage' = [lineage EXCEPT ![w] = born + 1]
    BY <1>1 DEF Mint, MintAnchor
  <2>2. MintedIdentity(w, c).layout # 0 /\ MintedToken(w).mint
    BY MintedFields, SystemConstants DEF MintedToken
  <2> QED
    BY <1>0, <2>1, <2>2
<1>2. ASSUME NEW w \in Wallets, NEW c \in AnyCommitment, NEW r \in signed,
             Updated(w, c, r)
      PROVE  HomeInv'
  <2>1. UpdatedIdentity(w, c).layout # 0 /\ identities[w].layout # 0
    BY <1>0, <1>2, UpdatedFields, SystemConstants DEF Updated, UpdateReady
  <2> QED
    BY <1>0, <1>2, <2>1 DEF Updated, UpdateStep
<1>3. ASSUME NEW w \in Wallets, NEW c \in AnyCommitment, NEW p \in Projections,
             NEW r \in signed, Reset(w, c, p, r)
      PROVE  HomeInv'
  <2>1. ResetIdentity(w, c).layout # 0 /\ identities[w].layout # 0
    BY <1>0, <1>3, ResetFields, SystemConstants DEF Reset, ResetIdentityState
  <2> QED
    BY <1>0, <1>3, <2>1 DEF Reset, ResetIdentityState
<1>4. ASSUME NEW w \in Wallets, NEW c \in AnyCommitment, NEW p \in Projections,
             NEW r \in signed, Rebaseline(w, c, p, r)
      PROVE  HomeInv'
  <2>1. RebaselinedIdentity(w, c).layout # 0 /\ identities[w].layout # 0
    BY <1>0, <1>4, RebaselinedFields, SystemConstants
    DEF Rebaseline, RebaselineAnchor
  <2> QED
    BY <1>0, <1>4, <2>1 DEF Rebaseline, RebaselineAnchor
<1>5. ASSUME NEW old \in Wallets, NEW user \in Wallets, Migrate(old, user)
      PROVE  HomeInv'
  <2>1. /\ old # user /\ identities[user].layout = 0
        /\ identities[old].layout # 0
        /\ identities' = [identities EXCEPT
                              ![user] = MigratedIdentity(old, user),
                              ![old] = NoIdentity]
        /\ tokens' = [tokens EXCEPT ![user] = MintedToken(user),
                                    ![old] = BurnedToken]
        /\ lineage' = [lineage EXCEPT ![user] = lineage[old], ![old] = 0]
        /\ born' = born
    BY <1>5, SystemConstants
    DEF Migrate, MigrateIdentity, IdentityMoved, Readable
  <2>2. /\ MigratedIdentity(old, user).layout # 0 /\ NoIdentity.layout = 0
        /\ MintedToken(user).mint /\ ~BurnedToken.mint /\ BurnedToken.amount = 0
    BY <1>0, <2>1, MigratedFields DEF NoIdentity, MintedToken, BurnedToken
  <2> QED
    BY <1>0, <2>1, <2>2
<1>6. CASE Quiet
  BY <1>0, <1>6 DEF Quiet, SameLife
<1> QED
  BY <1>1, <1>2, <1>3, <1>4, <1>5, <1>6, LifeSteps

\* However often identities are minted and moved, two wallets never hold the
\* same one, and a closed account never keeps one.
THEOREM OneWalletEach == Spec => []LivesAtOneWallet
<1>1. HomeInv => LivesAtOneWallet
  BY DEF HomeInv
<1> QED
  BY <1>1, TypeInit, TypeStep, HomeInit, HomeStep, PTL DEF Spec

\* A wallet's mint exists exactly as long as its identity does, whatever its
\* holder burns, delegates, closes or migrates: so the token that a wallet may
\* hold always stands for the identity it has.
THEOREM TokenBoundToIdentity == Spec => []TokenFollowsIdentity
<1>1. HomeInv => TokenFollowsIdentity
  BY DEF HomeInv
<1> QED
  BY <1>1, TypeInit, TypeStep, HomeInit, HomeStep, PTL DEF Spec

----------------------------------------------------------------------------
(* What identities have earned                                             *)

\* Histories of lineages that are not born yet are blank.
ReputationInv ==
    /\ ReputationIsEarned
    /\ \A l \in Lineages : l > born => ledger[l] = NewLife

\* The histories of the other lineages stay as they are.
LEMMA LedgerFields ==
    ASSUME NEW lives \in [Lineages -> LifeRecords], NEW l \in Lineages, NEW t,
           NEW lives2,
           \/ lives2 = [lives EXCEPT ![l].earned = @ + 1, ![l].score = t]
           \/ lives2 = [lives EXCEPT ![l].earned = 0, ![l].score = 0,
                                     ![l].resets = @ + 1, ![l].resetAt = t]
           \/ lives2 = [lives EXCEPT ![l].rebaselines = @ + 1,
                                     ![l].rebasedAt = t]
    PROVE  \A m \in Lineages : m # l => lives2[m] = lives[m]
OBVIOUS

\* At the start the accounts are what the ledger remembers of them.
LEMMA ReputationInit == Init => ReputationInv
<1> SUFFICES ASSUME Init PROVE ReputationInv
  OBVIOUS
<1>0. HomeInv
  BY HomeInit
<1>1. ASSUME NEW w \in Wallets
      PROVE  identities[w].last_rebaseline_timestamp = 0
  <2>1. ASSUME NEW c, NEW len, NEW life
        PROVE  InheritedIdentity(w, c, len, life).last_rebaseline_timestamp = 0
    BY DEF InheritedIdentity, NoIdentity
  <2>2. NoIdentity.last_rebaseline_timestamp = 0
    BY DEF NoIdentity
  <2> QED
    BY <2>1, <2>2 DEF Init, AnchorInit
<1>2. ASSUME NEW w \in Wallets, Exists(w)
      PROVE  ledger[lineage[w]] = EarlierLife(identities[w])
  <2>1. lineage[w] \in Lineages
    BY <1>2, SystemConstants DEF Init, Lineages
  <2>2. (CHOOSE x \in Wallets : lineage[x] = lineage[w]) = w
    BY <1>0, <1>2 DEF HomeInv, LivesAtOneWallet
  <2> QED
    BY <2>1, <2>2 DEF Init
<1>3. ASSUME NEW w \in Wallets
      PROVE  LET life == EarlierLife(identities[w])
             IN /\ life.earned = identities[w].verification_count
                /\ life.score = identities[w].trust_score
                /\ life.resetAt = identities[w].last_reset_timestamp
                /\ life.rebasedAt = 0
  BY DEF EarlierLife, NewLife
<1>4. ASSUME NEW l \in Lineages, l > born PROVE ledger[l] = NewLife
  <2>1. ASSUME NEW w \in Wallets PROVE lineage[w] # l
    <3>1. lineage[w] \in {0, 1} /\ born \in {0, 1} /\ lineage[w] <= born
      BY <1>0 DEF Init, HomeInv
    <3> QED
      BY <1>4, <3>1
  <2> QED
    BY <2>1 DEF Init
<1> QED
  BY <1>1, <1>2, <1>3, <1>4 DEF ReputationInv, ReputationIsEarned

\* Count and score follow the updates, restart with a reset, and move whole.
LEMMA ReputationStep ==
    TypeInv /\ HomeInv /\ ReputationInv /\ [Next]_vars => ReputationInv'
<1> SUFFICES ASSUME TypeInv, HomeInv, ReputationInv, [Next]_vars
             PROVE  ReputationInv'
  OBVIOUS
<1>0. /\ identities \in [Wallets -> Identities]
      /\ lineage \in [Wallets -> 0 .. MaxLineages] /\ born \in 0 .. MaxLineages
      /\ ledger \in [Lineages -> LifeRecords]
      /\ MaxLineages \in Nat
  BY SystemConstants DEF TypeInv, TypeOK, AnchorTypeOK, HistoryTypeOK
<1>h. /\ \A w \in Wallets : identities[w].layout # 0 <=> lineage[w] # 0
      /\ \A w, x \in Wallets :
            lineage[w] = lineage[x] /\ w # x => lineage[w] = 0
      /\ \A w \in Wallets : lineage[w] <= born
  BY DEF HomeInv, LivesAtOneWallet, Exists
<1> USE DEF ReputationInv, ReputationIsEarned, Exists, Lineages
<1>1. ASSUME NEW w \in Wallets, NEW c \in AnyCommitment, NEW r \in signed,
             Mint(w, c, r)
      PROVE  ReputationInv'
  <2>1. /\ identities' = [identities EXCEPT ![w] = MintedIdentity(w, c)]
        /\ born < MaxLineages /\ born' = born + 1
        /\ lineage' = [lineage EXCEPT ![w] = born + 1] /\ ledger' = ledger
    BY <1>1 DEF Mint, MintAnchor
  <2>2. ledger[born + 1] = NewLife
    BY <1>0, <2>1
  <2> QED
    BY <1>0, <1>h, <2>1, <2>2, MintedFields DEF NewLife
<1>2. ASSUME NEW w \in Wallets, NEW c \in AnyCommitment, NEW r \in signed,
             Updated(w, c, r)
      PROVE  ReputationInv'
  <2> DEFINE l == lineage[w]
  <2>1. /\ identities[w].layout # 0
        /\ identities' = [identities EXCEPT ![w] = UpdatedIdentity(w, c)]
        /\ ledger' = [ledger EXCEPT ![l].earned = @ + 1,
                                    ![l].score = identities'[w].trust_score]
        /\ lineage' = lineage /\ born' = born
    BY <1>2 DEF Updated, UpdateReady, UpdateStep
  <2>2. l \in Lineages /\ l <= born
    BY <1>0, <1>h, <2>1
  <2>3. \A m \in Lineages : m # l => ledger'[m] = ledger[m]
    BY <1>0, <2>1, <2>2, LedgerFields
  <2>4. /\ ledger'[l].earned = ledger[l].earned + 1
        /\ ledger'[l].resetAt = ledger[l].resetAt
        /\ ledger'[l].rebasedAt = ledger[l].rebasedAt
    BY <1>0, <2>1, <2>2 DEF LifeRecords
  <2>5. \A x \in Wallets : x # w /\ lineage[x] # 0 =>
            lineage[x] # l /\ lineage[x] \in Lineages
    BY <1>0, <1>h, <2>1
  <2> QED
    BY <1>0, <1>h, <2>1, <2>2, <2>3, <2>4, <2>5, UpdatedFields
<1>3. ASSUME NEW w \in Wallets, NEW c \in AnyCommitment, NEW p \in Projections,
             NEW r \in signed, Reset(w, c, p, r)
      PROVE  ReputationInv'
  <2> DEFINE l == lineage[w]
  <2>1. /\ identities[w].layout # 0
        /\ identities' = [identities EXCEPT ![w] = ResetIdentity(w, c)]
        /\ ledger' = [ledger EXCEPT ![l].earned = 0, ![l].score = 0,
                                    ![l].resets = @ + 1, ![l].resetAt = now]
        /\ lineage' = lineage /\ born' = born
    BY <1>3 DEF Reset, ResetIdentityState
  <2>2. l \in Lineages /\ l <= born
    BY <1>0, <1>h, <2>1
  <2>3. \A m \in Lineages : m # l => ledger'[m] = ledger[m]
    BY <1>0, <2>1, <2>2, LedgerFields
  <2>4. /\ ledger'[l].earned = 0 /\ ledger'[l].score = 0
        /\ ledger'[l].resetAt = now
        /\ ledger'[l].rebasedAt = ledger[l].rebasedAt
    BY <1>0, <2>1, <2>2 DEF LifeRecords
  <2>5. \A x \in Wallets : x # w /\ lineage[x] # 0 =>
            lineage[x] # l /\ lineage[x] \in Lineages
    BY <1>0, <1>h, <2>1
  <2> QED
    BY <1>0, <1>h, <2>1, <2>2, <2>3, <2>4, <2>5, ResetFields
<1>4. ASSUME NEW w \in Wallets, NEW c \in AnyCommitment, NEW p \in Projections,
             NEW r \in signed, Rebaseline(w, c, p, r)
      PROVE  ReputationInv'
  <2> DEFINE l == lineage[w]
  <2>1. /\ identities[w].layout # 0
        /\ identities' = [identities EXCEPT ![w] = RebaselinedIdentity(w, c)]
        /\ ledger' = [ledger EXCEPT ![l].rebaselines = @ + 1,
                                    ![l].rebasedAt = now]
        /\ lineage' = lineage /\ born' = born
    BY <1>4 DEF Rebaseline, RebaselineAnchor
  <2>2. l \in Lineages /\ l <= born
    BY <1>0, <1>h, <2>1
  <2>3. \A m \in Lineages : m # l => ledger'[m] = ledger[m]
    BY <1>0, <2>1, <2>2, LedgerFields
  <2>4. /\ ledger'[l].earned = ledger[l].earned
        /\ ledger'[l].score = ledger[l].score
        /\ ledger'[l].resetAt = ledger[l].resetAt
        /\ ledger'[l].rebasedAt = now
    BY <1>0, <2>1, <2>2 DEF LifeRecords
  <2>5. \A x \in Wallets : x # w /\ lineage[x] # 0 =>
            lineage[x] # l /\ lineage[x] \in Lineages
    BY <1>0, <1>h, <2>1
  <2> QED
    BY <1>0, <1>h, <2>1, <2>2, <2>3, <2>4, <2>5, RebaselinedFields
<1>5. ASSUME NEW old \in Wallets, NEW user \in Wallets, Migrate(old, user)
      PROVE  ReputationInv'
  <2>1. /\ old # user /\ identities[old].layout # 0
        /\ identities' = [identities EXCEPT
                              ![user] = MigratedIdentity(old, user),
                              ![old] = NoIdentity]
        /\ lineage' = [lineage EXCEPT ![user] = lineage[old], ![old] = 0]
        /\ born' = born /\ ledger' = ledger
    BY <1>5, SystemConstants
    DEF Migrate, MigrateIdentity, IdentityMoved, Readable
  <2>2. NoIdentity.layout = 0
    BY DEF NoIdentity
  <2> QED
    BY <1>0, <1>h, <2>1, <2>2, MigratedFields
<1>6. CASE Quiet
  BY <1>0, <1>6 DEF Quiet, SameLife
<1> QED
  BY <1>1, <1>2, <1>3, <1>4, <1>5, <1>6, LifeSteps

\* The count, the score and the cooldown times of an account are those its
\* lineage earned, through every update, reset, rebaseline and migration.
THEOREM ReputationEarned == Spec => []ReputationIsEarned
<1>1. ReputationInv => ReputationIsEarned
  BY DEF ReputationInv
<1> QED
  BY <1>1, TypeInit, TypeStep, HomeInit, HomeStep, ReputationInit,
     ReputationStep, PTL DEF Spec

\* A lineage is reset, and rebaselined, at most once per cooldown: the
\* account's own time stamps tell its lineage's, wherever it has moved to.
THEOREM CooldownsKept == Spec => CooldownsHold
<1> DEFINE Cooled ==
        \A l \in Lineages :
            /\ ledger'[l].resets > ledger[l].resets =>
                  now - ledger[l].resetAt >= ResetCooldown
            /\ ledger'[l].rebaselines > ledger[l].rebaselines =>
                  now - ledger[l].rebasedAt >= RebaselineCooldown
<1>1. TypeInv /\ HomeInv /\ ReputationInv /\ [Next]_vars => [Cooled]_vars
  <2> SUFFICES ASSUME TypeInv, HomeInv, ReputationInv, [Next]_vars PROVE Cooled
    OBVIOUS
  <2>0. /\ ledger \in [Lineages -> LifeRecords]
        /\ lineage \in [Wallets -> 0 .. MaxLineages]
        /\ \A l \in Lineages : /\ ledger[l].resets \in Nat
                               /\ ledger[l].rebaselines \in Nat
        /\ \A w \in Wallets : Exists(w) => lineage[w] \in Lineages
    BY SystemConstants DEF TypeInv, TypeOK, HistoryTypeOK, LifeRecords, HomeInv,
       LivesAtOneWallet, Lineages
  <2>1. CASE UNCHANGED ledger
    BY <2>0, <2>1
  <2>2. ASSUME NEW w \in Wallets, NEW c \in AnyCommitment, NEW r \in signed,
               Updated(w, c, r)
        PROVE  Cooled
    <3>1. ledger' = [ledger EXCEPT ![lineage[w]].earned = @ + 1,
                                   ![lineage[w]].score = identities'[w].trust_score]
      BY <2>2 DEF Updated, UpdateStep
    <3>2. \A l \in Lineages : /\ ledger'[l].resets = ledger[l].resets
                              /\ ledger'[l].rebaselines = ledger[l].rebaselines
      BY <2>0, <3>1 DEF LifeRecords
    <3> QED
      BY <2>0, <3>2
  <2>3. ASSUME NEW w \in Wallets, NEW c \in AnyCommitment, NEW p \in Projections,
               NEW r \in signed, Reset(w, c, p, r)
        PROVE  Cooled
    <3> DEFINE l == lineage[w]
    <3>1. /\ ledger' = [ledger EXCEPT ![l].earned = 0, ![l].score = 0,
                                      ![l].resets = @ + 1, ![l].resetAt = now]
          /\ Exists(w)
          /\ now - identities[w].last_reset_timestamp >= ResetCooldown
      BY <2>3 DEF Reset, ResetIdentityState
    <3>2. now - ledger[l].resetAt >= ResetCooldown
      BY <3>1 DEF ReputationInv, ReputationIsEarned
    <3>3. \A m \in Lineages : m # l => ledger'[m] = ledger[m]
      BY <2>0, <3>1, LedgerFields
    <3>4. ledger'[l].rebaselines = ledger[l].rebaselines
      BY <2>0, <3>1 DEF LifeRecords
    <3> QED
      BY <2>0, <3>2, <3>3, <3>4
  <2>4. ASSUME NEW w \in Wallets, NEW c \in AnyCommitment, NEW p \in Projections,
               NEW r \in signed, Rebaseline(w, c, p, r)
        PROVE  Cooled
    <3> DEFINE l == lineage[w]
    <3>1. /\ ledger' = [ledger EXCEPT ![l].rebaselines = @ + 1,
                                      ![l].rebasedAt = now]
          /\ Exists(w)
          /\ now - identities[w].last_rebaseline_timestamp >= RebaselineCooldown
      BY <2>4 DEF Rebaseline, RebaselineAnchor, RebaselineDue
    <3>2. now - ledger[l].rebasedAt >= RebaselineCooldown
      BY <3>1 DEF ReputationInv, ReputationIsEarned
    <3>3. \A m \in Lineages : m # l => ledger'[m] = ledger[m]
      BY <2>0, <3>1, LedgerFields
    <3>4. ledger'[l].resets = ledger[l].resets
      BY <2>0, <3>1 DEF LifeRecords
    <3> QED
      BY <2>0, <3>2, <3>3, <3>4
  <2> QED
    BY <2>1, <2>2, <2>3, <2>4, LifeSteps DEF Mint, Migrate, Quiet
<1> QED
  BY <1>1, TypeInit, TypeStep, HomeInit, HomeStep, ReputationInit,
     ReputationStep, PTL DEF Spec, CooldownsHold

----------------------------------------------------------------------------
(* The times an account records                                            *)

\* One identity's times are in order, up to t.
InOrder(id, t) ==
    /\ id.creation_timestamp <= id.last_verification_timestamp
    /\ id.last_verification_timestamp <= t
    /\ id.last_reset_timestamp <= id.last_verification_timestamp
    /\ id.last_rebaseline_timestamp <= id.last_verification_timestamp
    /\ \A i \in 1 .. RingLen :
          LET e == id.recent_timestamps[i]
          IN e # 0 => /\ e >= id.creation_timestamp
                      /\ e >= id.last_reset_timestamp
                      /\ e <= id.last_verification_timestamp
    /\ id.verification_count = 0 <=> id.recent_timestamps[1] = 0

\* The ring's entries are its slots.
LEMMA InOrderIsLife ==
    LifeInOrder <=> \A w \in Wallets : Exists(w) => InOrder(identities[w], now)
BY DEF LifeInOrder, InOrder, RingEntries

\* A ring that is in order stays so when a verification is recorded: the new
\* entry is the latest time, and the first slot is not empty any more.
LEMMA RecordInOrder ==
    ASSUME NEW ring \in [1 .. RingLen -> Stamps], NEW t \in Nat, t # 0,
           NEW low \in Nat, NEW last \in Nat, low <= last, last <= t,
           \A i \in 1 .. RingLen :
               ring[i] # 0 => low <= ring[i] /\ ring[i] <= last
    PROVE  LET new == RecordVerification(ring, t)
           IN /\ \A i \in 1 .. RingLen :
                     new[i] # 0 => low <= new[i] /\ new[i] <= t
              /\ new[1] # 0
<1> DEFINE new == RecordVerification(ring, t)
<1>0. RingLen \in Nat /\ RingLen >= 1
      /\ \A i \in 1 .. RingLen : ring[i] \in Nat
  BY Constants, SystemConstants DEF Stamps, Times
<1>1. CASE OpensNewBin(ring, t)
  <2>1. new = [i \in 1 .. RingLen |-> IF i = 1 THEN t ELSE ring[i - 1]]
    BY <1>1 DEF RecordVerification
  <2> HIDE DEF new
  <2>2. new[1] = t
    BY <1>0, <2>1
  <2>3. ASSUME NEW i \in 1 .. RingLen, i # 1
        PROVE  i - 1 \in 1 .. RingLen /\ new[i] = ring[i - 1]
    BY <1>0, <2>1, <2>3
  <2>4. ASSUME NEW i \in 1 .. RingLen, new[i] # 0
        PROVE  low <= new[i] /\ new[i] <= t
    <3>1. CASE i = 1
      BY <2>2, <3>1
    <3>2. CASE i # 1
      <4>1. /\ ring[i - 1] \in Nat /\ new[i] = ring[i - 1]
            /\ low <= ring[i - 1] /\ ring[i - 1] <= last
        BY <1>0, <2>3, <2>4, <3>2
      <4> QED
        BY <4>1
    <3> QED
      BY <3>1, <3>2
  <2> QED
    BY <2>2, <2>4 DEF new
<1>2. CASE ~OpensNewBin(ring, t)
  <2>1. new = ring /\ ring[1] # 0
    BY <1>2 DEF RecordVerification, OpensNewBin
  <2> HIDE DEF new
  <2>2. ASSUME NEW i \in 1 .. RingLen, new[i] # 0
        PROVE  low <= new[i] /\ new[i] <= t
    BY <1>0, <2>1, <2>2
  <2> QED
    BY <2>1, <2>2 DEF new
<1> QED
  BY <1>1, <1>2

\* Inherited identities are in order.
LEMMA LifeInit == Init => LifeInOrder
<1> SUFFICES ASSUME Init, NEW w \in Wallets, Exists(w)
             PROVE  InOrder(identities[w], now)
  BY InOrderIsLife
<1>1. PICK c \in Commitments, len \in OldIdentityLens, life \in OldLives :
          identities[w] = InheritedIdentity(w, c, len, life)
  BY DEF Init, AnchorInit, Exists, NoIdentity
<1>2. now = Genesis
  BY DEF Init, RegistryInit
<1>3. Genesis \in Nat /\ Genesis # 0 /\ RingLen \in Nat /\ RingLen >= 1
      /\ life.count \in Nat /\ life.resetAt \in {0, Genesis}
  BY Constants, SystemConstants
<1> DEFINE id == InheritedIdentity(w, c, len, life)
           ring == IF life.count = 0 THEN EmptyRing
                   ELSE RecordVerification(EmptyRing, Genesis)
<1>4. /\ id.creation_timestamp = Genesis
      /\ id.last_verification_timestamp = Genesis
      /\ id.verification_count = life.count /\ id.recent_timestamps = ring
      /\ id.last_reset_timestamp = life.resetAt
      /\ id.last_rebaseline_timestamp = 0
  BY DEF InheritedIdentity, NoIdentity
<1>5. /\ \A i \in 1 .. RingLen : ring[i] \in {0, Genesis}
      /\ life.count = 0 <=> ring[1] = 0
  <2>1. /\ EmptyRing \in [1 .. RingLen -> {0}]
        /\ EmptyRing[1] = 0
    BY <1>3 DEF EmptyRing
  <2>2. CASE life.count = 0
    BY <2>1, <2>2
  <2>3. CASE life.count # 0
    <3>1. ring = [i \in 1 .. RingLen |-> IF i = 1 THEN Genesis
                                         ELSE EmptyRing[i - 1]]
      BY <2>1, <2>3 DEF RecordVerification, OpensNewBin
    <3> HIDE DEF ring
    <3>2. ring[1] = Genesis
      BY <1>3, <3>1
    <3>3. ASSUME NEW i \in 1 .. RingLen, i # 1 PROVE ring[i] = 0
      <4>1. i - 1 \in 1 .. RingLen
        BY <1>3, <3>3
      <4> QED
        BY <2>1, <3>1, <3>3, <4>1
    <3> QED
      BY <1>3, <2>3, <3>2, <3>3
  <2> QED
    BY <2>2, <2>3
<1> HIDE DEF id, ring
<1>6. identities[w] = id
  BY <1>1 DEF id
<1> QED
  BY <1>2, <1>3, <1>4, <1>5, <1>6 DEF InOrder

\* The times and counts of an account are natural numbers.
LEMMA StampsAreNat == Stamps \subseteq Nat
BY Constants DEF Stamps, Times

\* The timestamps of a stored identity are numbers.
LEMMA IdentityTimes ==
    ASSUME NEW id \in Identities
    PROVE  /\ id.creation_timestamp \in Nat
           /\ id.last_verification_timestamp \in Nat
           /\ id.last_reset_timestamp \in Nat
           /\ id.last_rebaseline_timestamp \in Nat
           /\ id.verification_count \in Nat
           /\ id.recent_timestamps \in [1 .. RingLen -> Stamps]
           /\ \A i \in 1 .. RingLen : id.recent_timestamps[i] \in Nat
<1>1. /\ id.creation_timestamp \in Stamps
      /\ id.last_verification_timestamp \in Stamps
      /\ id.last_reset_timestamp \in Stamps
      /\ id.last_rebaseline_timestamp \in Stamps
      /\ id.verification_count \in 0 .. MaxCount
      /\ id.recent_timestamps \in [1 .. RingLen -> Stamps]
  BY DEF Identities
<1>2. id.verification_count \in Nat
  BY <1>1, SystemConstants
<1>3. \A i \in 1 .. RingLen : id.recent_timestamps[i] \in Nat
  BY <1>1, StampsAreNat
<1> QED
  BY <1>1, <1>2, <1>3, StampsAreNat

\* An update leaves the times of an identity in order, with the present as
\* the latest one.
LEMMA UpdatedInOrder ==
    ASSUME TypeInv, NEW w \in Wallets, NEW c, InOrder(identities[w], now)
    PROVE  InOrder(UpdatedIdentity(w, c), now)
<1> DEFINE id == identities[w]
           ring == id.recent_timestamps
           new == RecordVerification(ring, now)
           up == UpdatedIdentity(w, c)
<1>1. id \in Identities /\ now \in Nat /\ now \in Stamps /\ now # 0
  BY NowType DEF TypeInv, TypeOK, AnchorTypeOK
<1>2. /\ id.creation_timestamp \in Nat
      /\ id.last_verification_timestamp \in Nat
      /\ id.last_reset_timestamp \in Nat
      /\ id.last_rebaseline_timestamp \in Nat
      /\ id.verification_count \in Nat
      /\ ring \in [1 .. RingLen -> Stamps]
      /\ \A i \in 1 .. RingLen : ring[i] \in Nat
  BY <1>1, IdentityTimes
<1>3. /\ \A i \in 1 .. RingLen :
             ring[i] # 0 => /\ id.creation_timestamp <= ring[i]
                            /\ id.last_reset_timestamp <= ring[i]
                            /\ ring[i] <= id.last_verification_timestamp
      /\ id.creation_timestamp <= id.last_verification_timestamp
      /\ id.last_reset_timestamp <= id.last_verification_timestamp
      /\ id.last_rebaseline_timestamp <= id.last_verification_timestamp
      /\ id.last_verification_timestamp <= now
  <2> HIDE DEF id
  <2>1. InOrder(id, now)
    BY DEF id
  <2> QED
    BY <1>2, <2>1 DEF InOrder
<1>5. new \in [1 .. RingLen -> Stamps]
  BY <1>1, <1>2, RecordVerificationType
<1>6. \A i \in 1 .. RingLen : new[i] \in Nat
  <2> HIDE DEF new
  <2> QED
    BY <1>5, StampsAreNat
<1>7. /\ up.creation_timestamp = id.creation_timestamp
      /\ up.last_verification_timestamp = now
      /\ up.verification_count = id.verification_count + 1
      /\ up.recent_timestamps = new
      /\ up.last_reset_timestamp = id.last_reset_timestamp
      /\ up.last_rebaseline_timestamp = id.last_rebaseline_timestamp
  BY <1>1, UpdatedFields
<1> HIDE DEF id, ring, up
<1>4. /\ \A i \in 1 .. RingLen :
             new[i] # 0 => id.creation_timestamp <= new[i] /\ new[i] <= now
      /\ \A i \in 1 .. RingLen :
             new[i] # 0 => id.last_reset_timestamp <= new[i]
      /\ new[1] # 0
  <2>1. /\ \A i \in 1 .. RingLen :
               new[i] # 0 => id.creation_timestamp <= new[i] /\ new[i] <= now
        /\ new[1] # 0
    BY <1>1, <1>2, <1>3, RecordInOrder
  <2>2. \A i \in 1 .. RingLen :
            new[i] # 0 => id.last_reset_timestamp <= new[i]
    BY <1>1, <1>2, <1>3, RecordInOrder
  <2> QED
    BY <2>1, <2>2
<1> HIDE DEF new
<1>8. \A i \in 1 .. RingLen : up.recent_timestamps[i] # 0 =>
          /\ up.recent_timestamps[i] >= up.creation_timestamp
          /\ up.recent_timestamps[i] >= up.last_reset_timestamp
          /\ up.recent_timestamps[i] <= up.last_verification_timestamp
  BY <1>1, <1>2, <1>4, <1>6, <1>7
<1>9. InOrder(up, now)
  BY <1>1, <1>2, <1>3, <1>4, <1>7, <1>8 DEF InOrder
<1> QED
  BY <1>9 DEF up

\* So does what restarts the life of an identity, or only dates its last
\* verification.
LEMMA RestartedInOrder ==
    ASSUME NEW up, up.last_verification_timestamp = now, now \in Nat,
           up.creation_timestamp \in 0 .. now,
           up.last_reset_timestamp \in 0 .. now,
           up.last_rebaseline_timestamp \in 0 .. now,
           up.verification_count = 0, up.recent_timestamps = EmptyRing
    PROVE  InOrder(up, now)
<1>1. \A i \in 1 .. RingLen : EmptyRing[i] = 0
  BY DEF EmptyRing
<1>2. 1 \in 1 .. RingLen
  BY SystemConstants
<1> QED
  BY <1>1, <1>2 DEF InOrder

\* An identity in order stays so when it is only verified or rebaselined later.
LEMMA LaterInOrder ==
    ASSUME NEW id \in Identities, NEW up, NEW t \in Nat, NEW u \in Nat, t <= u,
           InOrder(id, t),
           up.creation_timestamp = id.creation_timestamp,
           up.last_reset_timestamp = id.last_reset_timestamp,
           up.verification_count = id.verification_count,
           up.recent_timestamps = id.recent_timestamps,
           up.last_verification_timestamp \in id.last_verification_timestamp .. u,
           \/ up.last_rebaseline_timestamp = id.last_rebaseline_timestamp
           \/ up.last_rebaseline_timestamp = up.last_verification_timestamp
    PROVE  InOrder(up, u)
<1>1. /\ id.creation_timestamp \in Nat /\ id.last_reset_timestamp \in Nat
      /\ id.last_rebaseline_timestamp \in Nat
      /\ id.last_verification_timestamp \in Nat
      /\ \A i \in 1 .. RingLen : id.recent_timestamps[i] \in Nat
  BY IdentityTimes
<1>2. \A i \in 1 .. RingLen : up.recent_timestamps[i] # 0 =>
          /\ up.recent_timestamps[i] >= up.creation_timestamp
          /\ up.recent_timestamps[i] >= up.last_reset_timestamp
          /\ up.recent_timestamps[i] <= up.last_verification_timestamp
  <2>1. ASSUME NEW i \in 1 .. RingLen, up.recent_timestamps[i] # 0
        PROVE  /\ id.recent_timestamps[i] >= id.creation_timestamp
               /\ id.recent_timestamps[i] >= id.last_reset_timestamp
               /\ id.recent_timestamps[i] <= id.last_verification_timestamp
    BY <2>1 DEF InOrder
  <2> QED
    BY <1>1, <2>1
<1> QED
  BY <1>1, <1>2 DEF InOrder

\* The clock never goes back.
LEMMA ClockStep == TypeInv /\ [Next]_vars => now' \in {now, now + 1}
<1> SUFFICES ASSUME TypeInv, [Next]_vars PROVE now' \in {now, now + 1}
  OBVIOUS
<1>1. CASE \E w \in Wallets, c \in AnyCommitment, r \in signed : Mint(w, c, r)
  BY <1>1 DEF Mint, AnchorFrame
<1>2. CASE \E w \in Wallets, c \in AnyCommitment, r \in signed :
              Updated(w, c, r)
  BY <1>2 DEF Updated, UpdateStep, AnchorFrame
<1>3. CASE \E w \in Wallets, c \in AnyCommitment, p \in Projections,
              r \in signed : Reset(w, c, p, r) \/ Rebaseline(w, c, p, r)
  BY <1>3 DEF Reset, Rebaseline, AnchorFrame
<1>4. CASE \E w, x \in Wallets : Migrate(w, x)
  BY <1>4 DEF Migrate, AnchorFrame
<1>5. CASE Quiet
  BY <1>5 DEF Quiet
<1> QED
  BY <1>1, <1>2, <1>3, <1>4, <1>5, LifeSteps

LifeInv == \A w \in Wallets : Exists(w) => InOrder(identities[w], now)

\* At the start every life is in order.
LEMMA LifeInvInit == Init => LifeInv
BY LifeInit, InOrderIsLife DEF LifeInv

\* No instruction writes a timestamp out of order.
LEMMA LifeStep == TypeInv /\ TypeInv' /\ LifeInv /\ [Next]_vars => LifeInv'
<1> SUFFICES ASSUME TypeInv, TypeInv', LifeInv, [Next]_vars, NEW x \in Wallets,
                    identities'[x].layout # 0
             PROVE  InOrder(identities'[x], now')
  BY DEF LifeInv, Exists, InOrder
<1>0. /\ identities \in [Wallets -> Identities]
      /\ now \in Nat /\ now' \in Nat /\ now' >= now
  <2>1. now \in Nat /\ now' \in Nat
    BY Constants DEF TypeInv, TypeOK, RegistryTypeOK, Times
  <2>2. now' >= now
    BY <2>1, ClockStep
  <2> QED
    BY <2>1, <2>2 DEF TypeInv, TypeOK, AnchorTypeOK
<1>k. \A w \in Wallets : identities[w].layout # 0 => InOrder(identities[w], now)
  BY DEF LifeInv, Exists
<1>s. ASSUME NEW w \in Wallets, NEW id, identities' = [identities EXCEPT ![w] = id],
             now' = now, InOrder(id, now)
      PROVE  InOrder(identities'[x], now')
  BY <1>0, <1>k, <1>s
<1>1. ASSUME NEW w \in Wallets, NEW c \in AnyCommitment, NEW r \in signed,
             Mint(w, c, r)
      PROVE  InOrder(identities'[x], now')
  <2>1. identities' = [identities EXCEPT ![w] = MintedIdentity(w, c)]
        /\ now' = now
    BY <1>1 DEF Mint, MintAnchor, AnchorFrame
  <2>2. InOrder(MintedIdentity(w, c), now)
    BY <1>0, MintedFields, RestartedInOrder
  <2> QED
    BY <1>s, <2>1, <2>2
<1>2. ASSUME NEW w \in Wallets, NEW c \in AnyCommitment, NEW r \in signed,
             Updated(w, c, r)
      PROVE  InOrder(identities'[x], now')
  <2>1. /\ identities' = [identities EXCEPT ![w] = UpdatedIdentity(w, c)]
        /\ now' = now /\ identities[w].layout # 0
    BY <1>2 DEF Updated, UpdateStep, UpdateReady, Exists, AnchorFrame
  <2>2. InOrder(UpdatedIdentity(w, c), now)
    BY <1>k, <2>1, UpdatedInOrder
  <2> QED
    BY <1>s, <2>1, <2>2
<1>3. ASSUME NEW w \in Wallets, NEW c \in AnyCommitment, NEW p \in Projections,
             NEW r \in signed, Reset(w, c, p, r)
      PROVE  InOrder(identities'[x], now')
  <2>1. /\ identities' = [identities EXCEPT ![w] = ResetIdentity(w, c)]
        /\ now' = now /\ identities[w].layout # 0
    BY <1>3 DEF Reset, ResetIdentityState, Exists, AnchorFrame
  <2>2. /\ identities[w].creation_timestamp \in 0 .. now
        /\ identities[w].last_rebaseline_timestamp \in 0 .. now
    BY <1>0, <1>k, <2>1, IdentityTimes DEF InOrder
  <2>3. InOrder(ResetIdentity(w, c), now)
    BY <1>0, <2>2, ResetFields, RestartedInOrder
  <2> QED
    BY <1>s, <2>1, <2>3
<1>4. ASSUME NEW w \in Wallets, NEW c \in AnyCommitment, NEW p \in Projections,
             NEW r \in signed, Rebaseline(w, c, p, r)
      PROVE  InOrder(identities'[x], now')
  <2>1. /\ identities' = [identities EXCEPT ![w] = RebaselinedIdentity(w, c)]
        /\ now' = now /\ identities[w].layout # 0
    BY <1>4 DEF Rebaseline, RebaselineAnchor, Exists, AnchorFrame
  <2>2. now \in identities[w].last_verification_timestamp .. now
    BY <1>0, <1>k, <2>1, IdentityTimes DEF InOrder
  <2>3. InOrder(RebaselinedIdentity(w, c), now)
    BY <1>0, <1>k, <2>1, <2>2, RebaselinedFields, LaterInOrder
  <2> QED
    BY <1>s, <2>1, <2>3
<1>5. ASSUME NEW old \in Wallets, NEW user \in Wallets, Migrate(old, user)
      PROVE  InOrder(identities'[x], now')
  <2>1. /\ identities' = [identities EXCEPT
                              ![user] = MigratedIdentity(old, user),
                              ![old] = NoIdentity]
        /\ now' = now /\ identities[old].layout # 0
    BY <1>5, SystemConstants
    DEF Migrate, MigrateIdentity, IdentityMoved, Readable, AnchorFrame
  <2>2. identities[old].last_verification_timestamp
          \in identities[old].last_verification_timestamp .. now
    BY <1>0, <1>k, <2>1, IdentityTimes DEF InOrder
  <2>3. InOrder(MigratedIdentity(old, user), now)
    BY <1>0, <1>k, <2>1, <2>2, MigratedFields, LaterInOrder
  <2>4. NoIdentity.layout = 0
    BY DEF NoIdentity
  <2> QED
    BY <1>0, <1>k, <2>1, <2>3, <2>4
<1>6. CASE Quiet
  <2>1. SameLife(x) /\ identities[x].layout # 0
    BY <1>6 DEF Quiet, SameLife
  <2>2. identities'[x].last_verification_timestamp
          \in identities[x].last_verification_timestamp .. now'
    BY <1>0, <1>k, <2>1, IdentityTimes DEF InOrder, SameLife
  <2> QED
    BY <1>0, <1>k, <2>1, <2>2, LaterInOrder DEF SameLife
<1> QED
  BY <1>1, <1>2, <1>3, <1>4, <1>5, <1>6, LifeSteps

\* The times of an account never run backwards through updates, resets,
\* rebaselines and migrations, and the ring that the Trust Score is computed
\* from never holds activity from before the mint or the last reset, or from
\* the future.
THEOREM TimesInOrder == Spec => []LifeInOrder
<1>1. LifeInv => LifeInOrder
  BY InOrderIsLife DEF LifeInv
<1> QED
  BY <1>1, TypeInit, TypeStep, LifeInvInit, LifeStep, PTL DEF Spec

============================================================================
