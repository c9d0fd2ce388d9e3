---------------------------- MODULE PolicyProofs ---------------------------
(***************************************************************************)
(* Theorems about the config and the identities that depend on it:         *)
(* projection versions, and the keys that receipts are signed with, across *)
(* every order of governance, signing and use.                             *)
(***************************************************************************)
EXTENDS EntrosProofs

----------------------------------------------------------------------------
(* What a step does to the config                                          *)

\* The registry's instructions leave the other programs' accounts alone, and
\* every other step leaves the config and the key history alone.
LEMMA ConfigSteps ==
    ASSUME [Next]_vars
    PROVE  /\ ConfigChange
           /\ \/ UNCHANGED <<now, verifierVars, anchorVars, signed, historyVars>>
              \/ UNCHANGED <<config, retiredAt>>
<1>1. CASE RegistryStep
  <2>1. UNCHANGED now
    BY <1>1, RegistryHoldsClock
  <2>2. ConfigChange
    BY <1>1, RegistryConfigChange DEF RegistryStep
  <2> QED
    BY <1>1, <2>1, <2>2 DEF RegistryStep
<1>2. ASSUME UNCHANGED <<config, retiredAt>> PROVE ConfigChange
  BY <1>2 DEF ConfigChange
<1>3. CASE AnchorNext
  <2>1. UpdateNext => AnchorFrame
    BY DEF UpdateNext, UpdateWithArgument, UpdateCompact, UpdateBound, UpdateStep
  <2>2. RecoveryNext => AnchorFrame
    BY DEF RecoveryNext, Reset, Rebaseline
  <2>3. \A w \in Wallets : Prepare(w) \/ Upgrade(w) \/ HolderStep(w) => AnchorFrame
    BY DEF Prepare, Upgrade, HolderStep
  <2>4. AnchorNext => AnchorFrame
    BY <2>1, <2>2, <2>3 DEF AnchorNext, Mint, Authorize, Migrate
  <2> QED
    BY <1>2, <1>3, <2>4 DEF AnchorFrame
<1>4. CASE ProofNext \/ ChallengeStep
  BY <1>2, <1>4
  DEF ProofNext, Verify, VerifyBound, CloseResult, ChallengeStep,
      VerifierFrame, registryVars
<1>5. CASE ServiceNext \/ ClockTick
  <2>1. ServiceNext => UNCHANGED registryVars
    BY DEF ServiceNext, SignReceipt
  <2>2. ClockTick => UNCHANGED registryVars
    BY DEF ClockTick
  <2> QED
    BY <1>2, <1>5, <2>1, <2>2 DEF registryVars
<1>6. CASE UNCHANGED vars
  BY <1>2, <1>6 DEF vars, registryVars
<1> QED
  BY <1>1, <1>3, <1>4, <1>5, <1>6 DEF Next

\* The registry's WindowInv, carried by the steps of the composition.
LEMMA WindowAlways ==
    /\ Init => WindowInv
    /\ TypeInv /\ WindowInv /\ [Next]_vars => WindowInv'
<1>1. Init => WindowInv
  BY WindowInit DEF Init
<1>2. TypeInv /\ WindowInv /\ [Next]_vars => WindowInv'
  BY WindowStep, ConfigSteps DEF TypeInv, TypeOK
<1> QED
  BY <1>1, <1>2

\* The current version never goes back.
LEMMA CurrentGrows ==
    ASSUME TypeInv, WindowInv, [Next]_vars
    PROVE  /\ CurrentProjection \in Nat /\ CurrentProjection' \in Nat
           /\ CurrentProjection' >= CurrentProjection
<1>1. RegistryTypeOK /\ RegistryTypeOK' /\ ConfigChange
  BY TypeStep, ConfigSteps DEF TypeInv, TypeOK
<1>2. CurrentProjection \in Nat /\ CurrentProjection' \in Nat
  BY <1>1, Constants DEF RegistryTypeOK, Configs, CurrentProjection
<1> QED
  BY <1>1, <1>2, ProjectionStep
  DEF WindowInv, ProjectionTransitionOK, CurrentProjection

----------------------------------------------------------------------------
(* Projection versions                                                     *)

\* Inherited identities are at or below the current version.
LEMMA NeverAheadInit == Init => ProjectionNeverAhead
<1> SUFFICES ASSUME Init, NEW w \in Wallets
             PROVE  identities[w].projection_version <= CurrentProjection
  BY DEF ProjectionNeverAhead
<1>1. \A c, len, life :
          InheritedIdentity(w, c, len, life).projection_version = 0
  BY DEF InheritedIdentity, NoIdentity
<1>2. NoIdentity.projection_version = 0
  BY DEF NoIdentity
<1>3. identities[w].projection_version = 0
  BY <1>1, <1>2 DEF Init, AnchorInit
<1> QED
  BY <1>3, InitFields DEF Init, CurrentProjection

\* A version is written only from inside the window, which moves up only.
LEMMA NeverAheadStep ==
    TypeInv /\ WindowInv /\ ProjectionNeverAhead /\ [Next]_vars
        => ProjectionNeverAhead'
<1> SUFFICES ASSUME TypeInv, WindowInv, ProjectionNeverAhead, [Next]_vars,
                    NEW x \in Wallets
             PROVE  identities'[x].projection_version <= CurrentProjection'
  BY DEF ProjectionNeverAhead
<1>0. /\ identities \in [Wallets -> Identities]
      /\ CurrentProjection \in Nat /\ CurrentProjection' \in Nat
      /\ CurrentProjection' >= CurrentProjection
      /\ \A w \in Wallets : /\ identities[w].projection_version \in Nat
                            /\ identities[w].projection_version
                                 <= CurrentProjection
  BY CurrentGrows, Constants
  DEF TypeInv, TypeOK, AnchorTypeOK, Identities, ProjectionNeverAhead
<1> HIDE DEF CurrentProjection
<1>1. ASSUME NEW w \in Wallets, NEW c \in AnyCommitment, NEW r \in signed,
             Mint(w, c, r)
      PROVE  identities'[x].projection_version <= CurrentProjection'
  BY <1>0, <1>1, MintedFields DEF Mint, MintAnchor
<1>2. ASSUME NEW w \in Wallets, NEW c \in AnyCommitment, NEW r \in signed,
             Updated(w, c, r)
      PROVE  identities'[x].projection_version <= CurrentProjection'
  BY <1>0, <1>2, UpdatedFields DEF Updated
<1>3. ASSUME NEW w \in Wallets, NEW c \in AnyCommitment, NEW p \in Projections,
             NEW r \in signed, Reset(w, c, p, r)
      PROVE  identities'[x].projection_version <= CurrentProjection'
  BY <1>0, <1>3, ResetFields DEF Reset, ResetIdentityState
<1>4. ASSUME NEW w \in Wallets, NEW c \in AnyCommitment, NEW p \in Projections,
             NEW r \in signed, Rebaseline(w, c, p, r)
      PROVE  identities'[x].projection_version <= CurrentProjection'
  BY <1>0, <1>4, RebaselinedFields DEF Rebaseline, RebaselineAnchor
<1>5. ASSUME NEW old \in Wallets, NEW user \in Wallets, Migrate(old, user)
      PROVE  identities'[x].projection_version <= CurrentProjection'
  <2>1. NoIdentity.projection_version = 0
    BY DEF NoIdentity
  <2> QED
    BY <1>0, <1>5, <2>1, MigratedFields
    DEF Migrate, MigrateIdentity, IdentityMoved
<1>6. CASE Quiet
  BY <1>0, <1>6 DEF Quiet, SameLife
<1> QED
  BY <1>1, <1>2, <1>3, <1>4, <1>5, <1>6, LifeSteps

\* No account is ever ahead of the projection version in force, whatever the
\* admins do between its mint, its rebaselines and its migrations: the upper
\* half of validate_identity_projection never refuses an update.
THEOREM NeverAhead == Spec => []ProjectionNeverAhead
BY TypeInit, TypeStep, WindowAlways, NeverAheadInit, NeverAheadStep, PTL
   DEF Spec

\* One step of one lineage's projection version, and of the times that its
\* cooldowns and receipts are compared with.
VersionAdvances(w, x) ==
    \/ identities'[x].projection_version = identities[w].projection_version
    \/ /\ identities'[x].projection_version = CurrentProjection
       /\ CurrentProjection > identities[w].projection_version

Advances(w, x) ==
    /\ VersionAdvances(w, x)
    /\ identities'[x].last_verification_timestamp
          >= identities[w].last_verification_timestamp
    /\ identities'[x].last_reset_timestamp
          >= identities[w].last_reset_timestamp

\* One step of a lineage changes its version forward and inside the window.
LEMMA AdvanceStep ==
    ASSUME TypeInv, WindowInv, HomeInv, LifeInv, ProjectionNeverAhead,
           [Next]_vars, NEW a \in Wallets, NEW x \in Wallets,
           lineage[a] # 0, lineage'[x] = lineage[a]
    PROVE  Advances(a, x)
<1>0. /\ identities \in [Wallets -> Identities]
      /\ CurrentProjection \in Nat
      /\ \A w \in Wallets : /\ identities[w].projection_version \in Nat
                            /\ identities[w].projection_version
                                 <= CurrentProjection
  BY CurrentGrows, Constants
  DEF TypeInv, TypeOK, AnchorTypeOK, Identities, ProjectionNeverAhead
<1>t. /\ now \in Nat
      /\ identities[a].last_verification_timestamp \in Nat
      /\ identities[a].last_reset_timestamp \in Nat
      /\ identities[a].last_verification_timestamp <= now
      /\ identities[a].last_reset_timestamp <= now
  <2>1. InOrder(identities[a], now)
    BY DEF LifeInv, HomeInv, LivesAtOneWallet
  <2> QED
    BY <1>0, <2>1, IdentityTimes, NowType DEF InOrder, TypeInv, TypeOK
<1>h. /\ \A w, y \in Wallets :
            lineage[w] = lineage[y] /\ w # y => lineage[w] = 0
      /\ \A w \in Wallets : lineage[w] <= born
      /\ lineage \in [Wallets -> 0 .. MaxLineages] /\ born \in 0 .. MaxLineages
  BY DEF HomeInv, LivesAtOneWallet, TypeInv, TypeOK, HistoryTypeOK
<1> USE DEF Advances, VersionAdvances
<1>s. ASSUME UNCHANGED lineage PROVE x = a
  BY <1>h, <1>s
<1>1. ASSUME NEW w \in Wallets, NEW c \in AnyCommitment, NEW r \in signed,
             Mint(w, c, r)
      PROVE  Advances(a, x)
  <2>1. identities' = [identities EXCEPT ![w] = MintedIdentity(w, c)]
        /\ lineage' = [lineage EXCEPT ![w] = born + 1]
    BY <1>1 DEF Mint, MintAnchor
  <2>2. x # w /\ x = a
    BY <1>h, <2>1
  <2> QED
    BY <1>0, <1>t, <2>1, <2>2
<1>2. ASSUME NEW w \in Wallets, NEW c \in AnyCommitment, NEW r \in signed,
             Updated(w, c, r)
      PROVE  Advances(a, x)
  <2>1. x = a
    BY <1>2, <1>s DEF Updated, UpdateStep
  <2> QED
    BY <1>0, <1>t, <1>2, <2>1, UpdatedFields DEF Updated
<1>3. ASSUME NEW w \in Wallets, NEW c \in AnyCommitment, NEW p \in Projections,
             NEW r \in signed, Reset(w, c, p, r)
      PROVE  Advances(a, x)
  <2>1. x = a /\ identities' = [identities EXCEPT ![w] = ResetIdentity(w, c)]
    BY <1>3, <1>s DEF Reset, ResetIdentityState
  <2> QED
    BY <1>0, <1>t, <2>1, ResetFields
<1>4. ASSUME NEW w \in Wallets, NEW c \in AnyCommitment, NEW p \in Projections,
             NEW r \in signed, Rebaseline(w, c, p, r)
      PROVE  Advances(a, x)
  <2>1. /\ x = a
        /\ identities' = [identities EXCEPT ![w] = RebaselinedIdentity(w, c)]
    BY <1>4, <1>s DEF Rebaseline, RebaselineAnchor
  <2> QED
    BY <1>0, <1>t, <2>1, RebaselinedFields
<1>5. ASSUME NEW old \in Wallets, NEW user \in Wallets, Migrate(old, user)
      PROVE  Advances(a, x)
  <2>1. /\ old # user
        /\ identities' = [identities EXCEPT
                              ![user] = MigratedIdentity(old, user),
                              ![old] = NoIdentity]
        /\ lineage' = [lineage EXCEPT ![user] = lineage[old], ![old] = 0]
    BY <1>5 DEF Migrate, MigrateIdentity, IdentityMoved
  <2>2. x # old
    BY <1>h, <2>1
  <2>3. CASE x = user
    <3>1. a = old
      BY <1>h, <2>1, <2>3
    <3> QED
      BY <1>0, <1>t, <2>1, <2>3, <3>1, MigratedFields
  <2>4. CASE x # user
    <3>1. a = x
      BY <1>h, <2>1, <2>2, <2>4
    <3> QED
      BY <1>0, <1>t, <2>1, <2>2, <2>4, <3>1
  <2> QED
    BY <2>3, <2>4
<1>6. CASE Quiet
  <2>1. x = a
    BY <1>6, <1>s DEF Quiet
  <2> QED
    BY <1>6, <1>t, <2>1 DEF Quiet, SameLife
<1> QED
  BY <1>1, <1>2, <1>3, <1>4, <1>5, <1>6, LifeSteps

\* Followed from wallet to wallet, the projection version of an identity only
\* ever jumps forward, and only to the version current at that moment: an
\* update keeps it, a migration carries it, a reset or rebaseline renews it.
THEOREM VersionsAdvance == Spec => ProjectionAdvances
<1>1. TypeInv /\ WindowInv /\ HomeInv /\ LifeInv /\ ProjectionNeverAhead
      /\ [Next]_vars
        => [\A w, x \in Wallets :
               (lineage[w] # 0 /\ lineage'[x] = lineage[w]) =>
                  \/ identities'[x].projection_version
                        = identities[w].projection_version
                  \/ /\ identities'[x].projection_version = CurrentProjection
                     /\ CurrentProjection
                          > identities[w].projection_version]_vars
  BY AdvanceStep DEF Advances, VersionAdvances
<1> QED
  BY <1>1, TypeInit, TypeStep, WindowAlways, HomeInit, HomeStep, LifeInvInit,
     LifeStep, NeverAheadInit, NeverAheadStep, PTL DEF Spec, ProjectionAdvances

----------------------------------------------------------------------------
(* The use of receipts                                                     *)

\* What is recorded of the use of a receipt.
UseRecords == [receipt : Receipts, lineage : Lineages, at : Nat]

\* A step that uses a receipt does so for a lineage that lives, with a key
\* that the config accepts and within the receipt's age.
LEMMA UseSteps ==
    ASSUME TypeInv, HomeInv, [Next]_vars
    PROVE  \/ \E r \in Receipts, l \in Lineages :
                 /\ Used(r, l)
                 /\ l <= born'
                 /\ SignerAccepted(r.key)
                 /\ ReceiptTimely(r)
                 /\ UNCHANGED <<now, config, retiredAt>>
           \/ UNCHANGED <<uses, reused>>
<1>0. /\ signed \subseteq Receipts
      /\ lineage \in [Wallets -> 0 .. MaxLineages] /\ born \in 0 .. MaxLineages
      /\ MaxLineages \in Nat
      /\ \A w \in Wallets : Exists(w) => lineage[w] # 0
      /\ \A w \in Wallets : lineage[w] <= born
  BY SystemConstants DEF TypeInv, TypeOK, AnchorTypeOK, HistoryTypeOK, HomeInv,
                         LivesAtOneWallet
<1>h. \A w \in Wallets : Exists(w) => lineage[w] \in Lineages
  BY <1>0 DEF Lineages
<1> DEFINE Goal == \E r \in Receipts, l \in Lineages :
                      /\ Used(r, l)
                      /\ l <= born'
                      /\ SignerAccepted(r.key)
                      /\ ReceiptTimely(r)
                      /\ UNCHANGED <<now, config, retiredAt>>
<1>1. ASSUME NEW w \in Wallets, NEW c \in AnyCommitment, NEW r \in signed,
             Mint(w, c, r)
      PROVE  Goal
  <2>1. /\ Used(r, born + 1) /\ born < MaxLineages /\ born' = born + 1
        /\ ReceiptAccepted(r, w, c, "Mint", CurrentProjection)
        /\ UNCHANGED <<now, config, retiredAt>>
    BY <1>1 DEF Mint, MintAnchor, AnchorFrame
  <2>2. born + 1 \in Lineages /\ born + 1 <= born'
    BY <1>0, <2>1 DEF Lineages
  <2>3. SignerAccepted(r.key) /\ ReceiptTimely(r)
    BY <2>1 DEF ReceiptAccepted, ReceiptLoaded
  <2> QED
    BY <1>0, <2>1, <2>2, <2>3
<1>2. ASSUME NEW w \in Wallets, NEW c \in AnyCommitment, NEW r \in signed,
             Updated(w, c, r)
      PROVE  Goal
  <2>1. /\ Used(r, lineage[w]) /\ born' = born /\ Exists(w)
        /\ UpdateReceiptAccepted(r, w, c, identities[w].projection_version)
        /\ UNCHANGED <<now, config, retiredAt>>
    BY <1>2 DEF Updated, UpdateReady, UpdateAllowed, UpdateStep, AnchorFrame
  <2>2. SignerAccepted(r.key) /\ ReceiptTimely(r)
    BY <2>1 DEF UpdateReceiptAccepted, ReceiptLoaded
  <2> QED
    BY <1>0, <1>h, <2>1, <2>2
<1>3. ASSUME NEW w \in Wallets, NEW c \in AnyCommitment, NEW p \in Projections,
             NEW r \in signed, Reset(w, c, p, r) \/ Rebaseline(w, c, p, r)
      PROVE  Goal
  <2>1. /\ Used(r, lineage[w]) /\ born' = born /\ Exists(w)
        /\ \E purpose \in Purposes :
              ReceiptAccepted(r, w, c, purpose, CurrentProjection)
        /\ UNCHANGED <<now, config, retiredAt>>
    BY <1>3 DEF Reset, ResetIdentityState, Rebaseline, RebaselineAnchor,
                AnchorFrame, Purposes
  <2>2. SignerAccepted(r.key) /\ ReceiptTimely(r)
    BY <2>1 DEF ReceiptAccepted, ReceiptLoaded
  <2> QED
    BY <1>0, <1>h, <2>1, <2>2
<1>4. ASSUME NEW old \in Wallets, NEW user \in Wallets, Migrate(old, user)
      PROVE  UNCHANGED <<uses, reused>>
  BY <1>4 DEF Migrate, ReceiptHistory
<1>5. CASE Quiet
  BY <1>5 DEF Quiet
<1> QED
  BY <1>1, <1>2, <1>3, <1>4, <1>5, LifeSteps

\* No use is of the future, or of a lineage that is still to be born.
UsesInv ==
    /\ uses \subseteq UseRecords
    /\ \A u \in uses : u.at <= now /\ u.lineage <= born

\* Lineages are only ever added.
LEMMA BornStep ==
    ASSUME TypeInv, [Next]_vars
    PROVE  born \in Nat /\ born' \in Nat /\ born' >= born
<1>0. born \in Nat
  BY SystemConstants DEF TypeInv, TypeOK, HistoryTypeOK
<1>1. CASE \E w \in Wallets, c \in AnyCommitment, r \in signed : Mint(w, c, r)
  BY <1>0, <1>1 DEF Mint
<1>2. CASE \E w \in Wallets, c \in AnyCommitment, r \in signed :
              Updated(w, c, r)
  BY <1>0, <1>2 DEF Updated, UpdateStep
<1>3. CASE \E w \in Wallets, c \in AnyCommitment, p \in Projections,
              r \in signed : Reset(w, c, p, r) \/ Rebaseline(w, c, p, r)
  BY <1>0, <1>3 DEF Reset, Rebaseline
<1>4. CASE \E w, x \in Wallets : Migrate(w, x)
  BY <1>0, <1>4 DEF Migrate
<1>5. CASE Quiet
  BY <1>0, <1>5 DEF Quiet
<1> QED
  BY <1>1, <1>2, <1>3, <1>4, <1>5, LifeSteps

\* A use is stamped with the clock and with a key that was accepted then.
LEMMA UsesStep == TypeInv /\ HomeInv /\ UsesInv /\ [Next]_vars => UsesInv'
<1> SUFFICES ASSUME TypeInv, HomeInv, UsesInv, [Next]_vars PROVE UsesInv'
  OBVIOUS
<1>0. /\ now \in Nat /\ now' \in Nat /\ now' >= now
      /\ born \in Nat /\ born' \in Nat /\ born' >= born
  <2>1. now \in Nat /\ now' \in {now, now + 1}
    BY NowType, ClockStep DEF TypeInv, TypeOK
  <2> QED
    BY <2>1, BornStep
<1>1. ASSUME NEW u \in uses
      PROVE  u \in UseRecords /\ u.at <= now' /\ u.lineage <= born'
  <2>1. /\ u \in UseRecords /\ u.at \in Nat /\ u.lineage \in Nat
        /\ u.at <= now /\ u.lineage <= born
    BY DEF UsesInv, UseRecords, Lineages
  <2> QED
    BY <1>0, <2>1
<1>2. ASSUME NEW r \in Receipts, NEW l \in Lineages, Used(r, l), l <= born',
             now' = now
      PROVE  UsesInv'
  <2>1. \A u \in uses' : \/ u \in uses
                         \/ u = [receipt |-> r, lineage |-> l, at |-> now]
    BY <1>2 DEF Used
  <2>2. [receipt |-> r, lineage |-> l, at |-> now] \in UseRecords
    BY <1>0 DEF UseRecords
  <2> QED
    BY <1>0, <1>1, <1>2, <2>1, <2>2 DEF UsesInv
<1>3. CASE UNCHANGED <<uses, reused>>
  BY <1>1, <1>3 DEF UsesInv
<1> QED
  BY <1>2, <1>3, UseSteps

----------------------------------------------------------------------------
(* Keys that were replaced                                                 *)

\* An absent config has no key.
KeyInv ==
    /\ config.layout = 0 => config.validator_pubkey = NoPubkey
    /\ GraceInv
    /\ RetiredKeysFade

\* What a step may do to the primary key: it stays, it is the first one, or
\* it retires now.
LEMMA KeyStep ==
    ASSUME RegistryTypeOK, ConfigChange,
           config.layout = 0 => config.validator_pubkey = NoPubkey
    PROVE  /\ config'.layout = 0 => config'.validator_pubkey = NoPubkey
           /\ \/ config'.validator_pubkey = config.validator_pubkey
              \/ config.validator_pubkey = NoPubkey
              \/ retiredAt'[config.validator_pubkey] = now
           /\ \A k \in Keys : k # config.validator_pubkey =>
                                 retiredAt'[k] = retiredAt[k]
           /\ config'.validator_pubkey = config.validator_pubkey =>
                 retiredAt' = retiredAt
<1>0. config \in Configs /\ retiredAt \in [Keys -> Nat]
  BY DEF RegistryTypeOK
<1>l. config'.layout = 0 => config'.validator_pubkey = NoPubkey
  BY LayoutStep
<1> USE DEF Configs
<1>1. CASE \E a \in Authorities, s \in Stakes, f \in Fees, k \in Keys :
              InitializeProtocol(a, s, f, k)
  BY <1>0, <1>1, <1>l DEF InitializeProtocol
<1>2. CASE \E a \in Authorities, f \in Fees : UpdateProtocolConfig(a, f)
  BY <1>0, <1>2, <1>l DEF UpdateProtocolConfig
<1>3. CASE \E a \in Authorities, k \in Keys : SetValidatorPubkey(a, k)
  BY <1>0, <1>3, <1>l DEF SetValidatorPubkey, Grown, Retire
<1>4. CASE \E a \in Authorities, k \in Keys, g \in Graces :
              RotateValidatorPubkey(a, k, g)
  BY <1>0, <1>4, <1>l DEF RotateValidatorPubkey, Grown, Retire
<1>5. CASE \E a \in Authorities, p, m \in Projections :
              SetProjectionVersions(a, p, m)
  BY <1>0, <1>5, <1>l DEF SetProjectionVersions, Grown
<1>6. CASE \E a \in Authorities, n \in Authorities \cup {NoPubkey} :
              ProposeAuthority(a, n)
  BY <1>0, <1>6, <1>l DEF ProposeAuthority, Grown
<1>7. CASE \E a \in Authorities : AcceptAuthority(a)
  BY <1>0, <1>7, <1>l DEF AcceptAuthority
<1>8. CASE \E a \in Authorities : MigrateAdmin(a)
  BY <1>0, <1>8, <1>l DEF MigrateAdmin, Grown
<1>9. CASE UNCHANGED <<config, retiredAt>>
  BY <1>9, <1>l
<1> QED
  BY <1>1, <1>2, <1>3, <1>4, <1>5, <1>6, <1>7, <1>8, <1>9
  DEF ConfigChange, ConfigStep

\* No key has been retired and none used.
LEMMA KeyInit == Init => KeyInv /\ UsesInv
<1> SUFFICES ASSUME Init PROVE KeyInv /\ UsesInv
  OBVIOUS
<1>1. uses = {}
  BY DEF Init
<1>2. config.secondary_validator_pubkey = NoPubkey
  BY InitFields DEF Init
<1>3. config.layout = 0 => config.validator_pubkey = NoPubkey
  <2>1. EmptyConfig.validator_pubkey = NoPubkey
    BY DEF EmptyConfig
  <2>2. \A l, a, s, f, k : InheritedConfig(l, a, s, f, k).layout = l
    BY DEF InheritedConfig, EmptyConfig
  <2> QED
    BY <2>1, <2>2 DEF Init, RegistryInit
<1> QED
  BY <1>1, <1>2, <1>3 DEF KeyInv, GraceInv, RetiredKeysFade, UsesInv

\* Retiring and using keys keep the grace of each retired key bounded.
LEMMA KeyInvStep ==
    TypeInv /\ HomeInv /\ UsesInv /\ KeyInv /\ [Next]_vars => KeyInv'
<1> SUFFICES ASSUME TypeInv, HomeInv, UsesInv, KeyInv, [Next]_vars PROVE KeyInv'
  OBVIOUS
<1>0. /\ RegistryTypeOK /\ ConfigChange
      /\ now \in Nat /\ MaxGrace \in Nat /\ config \in Configs
      /\ retiredAt \in [Keys -> Nat] /\ retiredAt' \in [Keys -> Nat]
  BY ConfigSteps, TypeStep, NowType, Constants
  DEF TypeInv, TypeOK, RegistryTypeOK
<1>1. GraceInv'
  BY <1>0, GraceStep DEF KeyInv
<1>2. config'.layout = 0 => config'.validator_pubkey = NoPubkey
  BY <1>0, KeyStep DEF KeyInv
<1>3. ASSUME NEW u \in uses
      PROVE  \/ u.receipt.key = config'.validator_pubkey
             \/ u.at <= retiredAt'[u.receipt.key] + MaxGrace
  <2> DEFINE k == u.receipt.key
  <2>1. /\ k \in ValidatorKeys /\ u.at \in Nat /\ u.at <= now
        /\ k = config.validator_pubkey \/ u.at <= retiredAt[k] + MaxGrace
    BY DEF UsesInv, UseRecords, Receipts, KeyInv, RetiredKeysFade
  <2>2. k \in Keys /\ k # NoPubkey
    BY <2>1, Constants DEF Keys
  <2> HIDE DEF k
  <2>3. CASE k = config.validator_pubkey
    <3>1. \/ config'.validator_pubkey = k
          \/ retiredAt'[k] = now
      BY <1>0, <2>2, <2>3, KeyStep DEF KeyInv
    <3> QED
      BY <1>0, <2>1, <2>2, <3>1 DEF k
  <2>4. CASE k # config.validator_pubkey
    <3>1. retiredAt'[k] = retiredAt[k]
      BY <1>0, <2>2, <2>4, KeyStep DEF KeyInv
    <3> QED
      BY <1>0, <2>1, <2>4, <3>1 DEF k
  <2> QED
    BY <2>3, <2>4
<1>4. ASSUME NEW r \in Receipts, NEW l \in Lineages, Used(r, l),
             SignerAccepted(r.key), UNCHANGED <<now, config, retiredAt>>
      PROVE  RetiredKeysFade'
  <2>1. \A u \in uses' : \/ u \in uses
                         \/ u = [receipt |-> r, lineage |-> l, at |-> now]
    BY <1>4 DEF Used
  <2>2. \/ r.key = config.validator_pubkey
        \/ now <= retiredAt[r.key] + MaxGrace
    <3>1. \/ r.key = config.validator_pubkey
          \/ /\ r.key = config.secondary_validator_pubkey
             /\ r.key # NoPubkey
             /\ now <= config.secondary_validator_valid_until
      BY <1>4 DEF SignerAccepted, Accepts
    <3>2. /\ config.secondary_validator_valid_until \in Nat
          /\ config.secondary_validator_pubkey \in Keys
      BY <1>0 DEF Configs
    <3> QED
      BY <1>0, <3>1, <3>2 DEF KeyInv, GraceInv
  <2> QED
    BY <1>3, <1>4, <2>1, <2>2 DEF RetiredKeysFade
<1>5. ASSUME UNCHANGED <<uses, reused>> PROVE RetiredKeysFade'
  BY <1>3, <1>5 DEF RetiredKeysFade
<1>6. RetiredKeysFade'
  BY <1>4, <1>5, UseSteps
<1> QED
  BY <1>1, <1>2, <1>6 DEF KeyInv

\* Whatever the order of signing, rotations and instructions, no receipt is
\* honoured more than MAX_VALIDATOR_GRACE_PERIOD_SECS after the key that
\* signed it stopped being the primary one.
THEOREM ReplacedKeysFade == Spec => []RetiredKeysFade
<1>1. KeyInv => RetiredKeysFade
  BY DEF KeyInv
<1> QED
  BY <1>1, TypeInit, TypeStep, HomeInit, HomeStep, KeyInit, KeyInvStep,
     UsesStep, PTL DEF Spec

============================================================================
