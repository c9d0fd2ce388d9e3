--------------------------- MODULE RegistryLemmas --------------------------
(***************************************************************************)
(* Lemmas about the registry's instructions, shared by the theorems about  *)
(* the registry alone and by those about the composed system: the types    *)
(* of its accounts, and the invariants of its config.                      *)
(***************************************************************************)
EXTENDS ConfigPolicy, TLAPS

\* Facts about the constants in one place.
LEMMA Constants ==
    /\ Genesis \in Nat /\ Genesis > 0 /\ Horizon \in Nat /\ RentMin \in Nat
    /\ UpgradeAuthority \in Authorities
    /\ NoPubkey \notin Authorities /\ NoPubkey \notin ValidatorKeys
    /\ Stakes \subseteq Nat /\ Fees \subseteq Nat /\ MigrationFees \subseteq Nat
    /\ Projections \subseteq Nat /\ 0 \in Projections
    /\ Graces \subseteq Int
    /\ InitialLayouts \subseteq ConfigLayouts
    /\ MaxGrace \in Nat /\ MaxTreasury \in Nat /\ MaxVault \in Nat
    /\ IsFiniteSet(Validators)
BY RuntimeAssumption, RegistryAssumption

\* An absent config is a well-formed record.
LEMMA EmptyConfigType == EmptyConfig \in Configs
BY Constants DEF EmptyConfig, Keys, Configs, ConfigLayouts

\* Assigning the three key fields keeps a config's type.
LEMMA KeysAssigned ==
    ASSUME NEW c \in Configs, NEW k \in Keys, NEW old \in Keys, NEW until \in Nat
    PROVE  [c EXCEPT !.validator_pubkey = k,
                !.secondary_validator_pubkey = old,
                !.secondary_validator_valid_until = until] \in Configs
<1> DEFINE c1 == [c EXCEPT !.validator_pubkey = k]
           c2 == [c1 EXCEPT !.secondary_validator_pubkey = old]
           c3 == [c2 EXCEPT !.secondary_validator_valid_until = until]
<1>1. c1 \in Configs
  BY DEF Configs
<1>2. c2 \in Configs
  <2> HIDE DEF c1
  <2> QED BY <1>1 DEF Configs
<1>3. c3 \in Configs
  <2> HIDE DEF c2
  <2> QED BY <1>2 DEF Configs
<1> QED
  BY <1>3

\* Assigning what an inherited config holds keeps a config's type.
LEMMA TermsAssigned ==
    ASSUME NEW c \in Configs, NEW l \in ConfigLayouts, NEW a \in Authorities,
           NEW s \in Nat
    PROVE  [c EXCEPT !.layout = l, !.admin = a, !.min_stake = s] \in Configs
<1> DEFINE c1 == [c EXCEPT !.layout = l]
           c2 == [c1 EXCEPT !.admin = a]
           c3 == [c2 EXCEPT !.min_stake = s]
<1>1. c1 \in Configs
  BY DEF Configs
<1>2. c2 \in Configs
  <2> HIDE DEF c1
  <2> QED BY <1>1 DEF Configs
<1>3. c3 \in Configs
  <2> HIDE DEF c2
  <2> QED BY <1>2 DEF Configs
<1> QED
  BY <1>3

\* A config of an earlier release has the type of a config.
LEMMA InheritedConfigType ==
    ASSUME NEW l \in InitialLayouts, NEW a \in Authorities, NEW s \in Stakes,
           NEW f \in MigrationFees, NEW k \in ValidatorKeys
    PROVE  InheritedConfig(l, a, s, f, k) \in Configs
<1> DEFINE key == IF l >= 109 THEN k ELSE NoPubkey
           fee == IF l >= 77 THEN f ELSE 0
       terms == [EmptyConfig EXCEPT !.layout = l, !.admin = a, !.min_stake = s]
<1>1. key \in Keys
  BY DEF Keys
<1>2. terms \in Configs
  BY TermsAssigned, EmptyConfigType, Constants
<1>3. InheritedConfig(l, a, s, f, k) =
        [terms EXCEPT !.migration_fee = fee, !.validator_pubkey = key]
  BY DEF InheritedConfig
<1>4. fee \in Nat
  BY Constants
<1> HIDE DEF key, terms, fee
<1>5. [terms EXCEPT !.migration_fee = fee] \in Configs
  BY <1>2, <1>4 DEF Configs
<1>6. [terms EXCEPT !.migration_fee = fee, !.validator_pubkey = key]
        \in Configs
  BY <1>1, <1>5 DEF Configs
<1> QED
  BY <1>3, <1>6

\* The registry's accounts hold what their types allow when it starts.
LEMMA RegistryInitType == RegistryInit => RegistryTypeOK
<1> SUFFICES ASSUME RegistryInit PROVE RegistryTypeOK
  OBVIOUS
<1>1. now \in Times
  BY Constants DEF RegistryInit, Times
<1>2. config \in Configs
  BY EmptyConfigType, InheritedConfigType DEF RegistryInit
<1> QED
  BY <1>1, <1>2, Constants DEF RegistryInit, RegistryTypeOK, Keys, NotStaked

\* Growing a short config keeps its type.
LEMMA GrownType == config \in Configs => Grown(config) \in Configs
BY DEF Grown, Configs, ConfigLen, ConfigLayouts

\* Retiring a key notes the present time.
LEMMA RetireType ==
    ASSUME RegistryTypeOK, NEW k \in Keys, Retire(k)
    PROVE  retiredAt' \in [Keys -> Nat]
<1>1. now \in Nat
  BY Constants DEF RegistryTypeOK, Times
<1>2. retiredAt \in [Keys -> Nat]
  BY DEF RegistryTypeOK
<1>3. \/ retiredAt' = retiredAt
      \/ retiredAt' = [retiredAt EXCEPT ![config.validator_pubkey] = now]
  BY DEF Retire
<1> QED
  BY <1>1, <1>2, <1>3

\* Every instruction of the registry keeps the types of its accounts.
LEMMA RegistryNextType == RegistryTypeOK /\ RegistryNext => RegistryTypeOK'
<1> SUFFICES ASSUME RegistryTypeOK, RegistryNext PROVE RegistryTypeOK'
  OBVIOUS
<1> USE DEF RegistryTypeOK
<1>1. ASSUME NEW a \in Authorities, NEW s \in Stakes, NEW f \in Fees,
             NEW k \in Keys, InitializeProtocol(a, s, f, k)
      PROVE  RegistryTypeOK'
  <2>1. config' \in Configs
    <3> DEFINE terms == [EmptyConfig EXCEPT !.layout = 185, !.admin = a,
                             !.min_stake = s]
    <3>0. 185 \in ConfigLayouts
      BY DEF ConfigLayouts
    <3>1. terms \in Configs
      BY <3>0, TermsAssigned, EmptyConfigType, Constants
    <3>2. config' = [terms EXCEPT !.verification_fee = f, !.validator_pubkey = k]
      BY <1>1 DEF InitializeProtocol, ConfigLen
    <3> HIDE DEF terms
    <3> QED
      BY <3>1, <3>2, Constants DEF Configs
  <2> QED
    BY <1>1, <2>1 DEF InitializeProtocol
<1>2. ASSUME NEW a \in Authorities, NEW f \in Fees, UpdateProtocolConfig(a, f)
      PROVE  RegistryTypeOK'
  BY <1>2, Constants DEF UpdateProtocolConfig, Configs
<1>3. ASSUME NEW a \in Authorities, NEW k \in Keys, SetValidatorPubkey(a, k)
      PROVE  RegistryTypeOK'
  <2>1. config' \in Configs
    BY <1>3, GrownType, KeysAssigned DEF SetValidatorPubkey, Keys
  <2>2. retiredAt' \in [Keys -> Nat]
    BY <1>3, RetireType DEF SetValidatorPubkey
  <2> QED
    BY <1>3, <2>1, <2>2 DEF SetValidatorPubkey
<1>4. ASSUME NEW a \in Authorities, NEW k \in Keys, NEW g \in Graces,
             RotateValidatorPubkey(a, k, g)
      PROVE  RegistryTypeOK'
  <2> DEFINE old == IF KeepsOldKey(k, g)
                      THEN config.validator_pubkey ELSE NoPubkey
             until == IF KeepsOldKey(k, g) THEN now + g ELSE 0
  <2>1. old \in Keys
    BY DEF Keys, Configs
  <2>2. until \in Nat
    BY <1>4, Constants DEF RotateValidatorPubkey, GraceAllowed, Times
  <2>3. config' = [Grown(config) EXCEPT !.validator_pubkey = k,
                       !.secondary_validator_pubkey = old,
                       !.secondary_validator_valid_until = until]
    BY <1>4 DEF RotateValidatorPubkey
  <2> HIDE DEF old, until
  <2>4. config' \in Configs
    BY <2>1, <2>2, <2>3, GrownType, KeysAssigned
  <2>5. retiredAt' \in [Keys -> Nat]
    BY <1>4, RetireType DEF RotateValidatorPubkey
  <2> QED
    BY <1>4, <2>4, <2>5 DEF RotateValidatorPubkey
<1>5. ASSUME NEW a \in Authorities, NEW p \in Projections, NEW m \in Projections,
             SetProjectionVersions(a, p, m)
      PROVE  RegistryTypeOK'
  <2>1. config' \in Configs
    BY <1>5, GrownType DEF SetProjectionVersions, Configs
  <2> QED
    BY <1>5, <2>1 DEF SetProjectionVersions
<1>6. ASSUME NEW a \in Authorities, NEW n \in Authorities \cup {NoPubkey},
             ProposeAuthority(a, n)
      PROVE  RegistryTypeOK'
  <2>1. config' \in Configs
    BY <1>6, GrownType DEF ProposeAuthority, Configs
  <2> QED
    BY <1>6, <2>1 DEF ProposeAuthority
<1>7. ASSUME NEW a \in Authorities, AcceptAuthority(a)
      PROVE  RegistryTypeOK'
  BY <1>7 DEF AcceptAuthority, Configs
<1>8. ASSUME NEW a \in Authorities, MigrateAdmin(a)
      PROVE  RegistryTypeOK'
  <2>1. config' \in Configs
    BY <1>8, GrownType DEF MigrateAdmin, Configs
  <2> QED
    BY <1>8, <2>1 DEF MigrateAdmin
<1>9. ASSUME NEW v \in Validators, NEW s \in Stakes, RegisterValidator(v, s)
      PROVE  RegistryTypeOK'
  BY <1>9, Constants DEF RegisterValidator, NotStaked
<1>10. ASSUME NEW v \in Validators, UnstakeValidator(v)
       PROVE  RegistryTypeOK'
  BY <1>10 DEF UnstakeValidator, NotStaked
<1>11. ASSUME NEW a \in Authorities, NEW amount \in 0 .. MaxTreasury,
              WithdrawTreasury(a, amount)
       PROVE  RegistryTypeOK'
  BY <1>11, Constants DEF WithdrawTreasury, Available
<1> QED
  BY <1>1, <1>2, <1>3, <1>4, <1>5, <1>6, <1>7, <1>8, <1>9, <1>10, <1>11
  DEF RegistryNext, ConfigNext, AuthorityNext, StakeNext, TreasuryNext

\* So does a payment into the treasury, whoever makes it.
LEMMA PaidType ==
    ASSUME RegistryTypeOK, NEW fee \in Nat, Pay(fee),
           UNCHANGED <<now, config, vault, stakes, retiredAt, proposedBy>>
    PROVE  RegistryTypeOK'
BY DEF RegistryTypeOK, Pay

\* Money from outside keeps the registry's types.
LEMMA FundedType == RegistryTypeOK /\ Funding => RegistryTypeOK'
<1> SUFFICES ASSUME RegistryTypeOK, Funding PROVE RegistryTypeOK'
  OBVIOUS
<1>1. ASSUME NEW amount \in 1 .. MaxTreasury, TreasuryFunded(amount)
      PROVE  RegistryTypeOK'
  BY <1>1, PaidType, Constants DEF TreasuryFunded
<1>2. ASSUME NEW amount \in 1 .. MaxVault, VaultFunded(amount)
      PROVE  RegistryTypeOK'
  BY <1>2, Constants DEF VaultFunded, RegistryTypeOK
<1> QED
  BY <1>1, <1>2 DEF Funding

\* And the clock.
LEMMA TickType == RegistryTypeOK /\ Tick /\ UNCHANGED registryVars
                    => RegistryTypeOK'
BY Constants DEF RegistryTypeOK, Tick, registryVars, Times

\* Which steps write the config: the rest leave it and the key history alone.
ConfigStep ==
    \/ \E a \in Authorities, s \in Stakes, f \in Fees, k \in Keys :
          InitializeProtocol(a, s, f, k)
    \/ \E a \in Authorities, f \in Fees : UpdateProtocolConfig(a, f)
    \/ \E a \in Authorities, k \in Keys : SetValidatorPubkey(a, k)
    \/ \E a \in Authorities, k \in Keys, g \in Graces :
          RotateValidatorPubkey(a, k, g)
    \/ \E a \in Authorities, p, m \in Projections :
          SetProjectionVersions(a, p, m)
    \/ \E a \in Authorities, n \in Authorities \cup {NoPubkey} :
          ProposeAuthority(a, n)
    \/ \E a \in Authorities : AcceptAuthority(a)
    \/ \E a \in Authorities : MigrateAdmin(a)

\* A step as the config sees it.
ConfigChange == ConfigStep \/ UNCHANGED <<config, retiredAt>>

\* Instructions that only touch balances and stakes leave the config alone.
LEMMA RegistryConfigChange == RegistryNext \/ Funding => ConfigChange
BY DEF RegistryNext, ConfigNext, AuthorityNext, StakeNext, TreasuryNext,
       ConfigStep, ConfigChange, RegisterValidator, UnstakeValidator,
       WithdrawTreasury, Funding, TreasuryFunded, VaultFunded

\* What a step may do to the projection window.
LEMMA ProjectionStep ==
    ASSUME RegistryTypeOK, ConfigChange
    PROVE  \/ /\ config'.current_projection_version
                    = config.current_projection_version
              /\ config'.minimum_supported_projection_version
                    = config.minimum_supported_projection_version
           \/ /\ config.layout = 0
              /\ config'.current_projection_version = 0
              /\ config'.minimum_supported_projection_version = 0
           \/ ProjectionTransitionOK(config'.current_projection_version,
                                     config'.minimum_supported_projection_version)
<1> USE DEF RegistryTypeOK, Configs
<1>1. CASE \E a \in Authorities, s \in Stakes, f \in Fees, k \in Keys :
              InitializeProtocol(a, s, f, k)
  BY <1>1 DEF InitializeProtocol, EmptyConfig
<1>2. CASE \E a \in Authorities, f \in Fees : UpdateProtocolConfig(a, f)
  BY <1>2 DEF UpdateProtocolConfig
<1>3. CASE \E a \in Authorities, k \in Keys : SetValidatorPubkey(a, k)
  BY <1>3 DEF SetValidatorPubkey, Grown
<1>4. CASE \E a \in Authorities, k \in Keys, g \in Graces :
              RotateValidatorPubkey(a, k, g)
  BY <1>4 DEF RotateValidatorPubkey, Grown
<1>5. CASE \E a \in Authorities, p, m \in Projections :
              SetProjectionVersions(a, p, m)
  BY <1>5 DEF SetProjectionVersions, Grown
<1>6. CASE \E a \in Authorities, n \in Authorities \cup {NoPubkey} :
              ProposeAuthority(a, n)
  BY <1>6 DEF ProposeAuthority, Grown
<1>7. CASE \E a \in Authorities : AcceptAuthority(a)
  BY <1>7 DEF AcceptAuthority
<1>8. CASE \E a \in Authorities : MigrateAdmin(a)
  BY <1>8 DEF MigrateAdmin, Grown
<1>9. CASE UNCHANGED <<config, retiredAt>>
  BY <1>9
<1> QED
  BY <1>1, <1>2, <1>3, <1>4, <1>5, <1>6, <1>7, <1>8, <1>9
  DEF ConfigChange, ConfigStep

\* The window of an absent config is the (0, 0) that a reader assumes, and a
\* window is never inverted.
WindowInv ==
    /\ PolicyReadable
    /\ config.layout = 0 =>
          /\ config.current_projection_version = 0
          /\ config.minimum_supported_projection_version = 0

\* An instruction that ends without a config account has not had one.
LEMMA LayoutStep ==
    ASSUME RegistryTypeOK, ConfigChange
    PROVE  config'.layout = 0 => UNCHANGED config
<1> USE DEF RegistryTypeOK, Configs, ConfigLen, PreRolloverLen
<1>1. CASE \E a \in Authorities, s \in Stakes, f \in Fees, k \in Keys :
              InitializeProtocol(a, s, f, k)
  BY <1>1 DEF InitializeProtocol, EmptyConfig
<1>2. CASE \E a \in Authorities, f \in Fees : UpdateProtocolConfig(a, f)
  BY <1>2 DEF UpdateProtocolConfig, Deserialises
<1>3. CASE \E a \in Authorities, k \in Keys : SetValidatorPubkey(a, k)
  BY <1>3 DEF SetValidatorPubkey, Grown
<1>4. CASE \E a \in Authorities, k \in Keys, g \in Graces :
              RotateValidatorPubkey(a, k, g)
  BY <1>4 DEF RotateValidatorPubkey, Grown
<1>5. CASE \E a \in Authorities, p, m \in Projections :
              SetProjectionVersions(a, p, m)
  BY <1>5 DEF SetProjectionVersions, Grown
<1>6. CASE \E a \in Authorities, n \in Authorities \cup {NoPubkey} :
              ProposeAuthority(a, n)
  BY <1>6 DEF ProposeAuthority, Grown
<1>7. CASE \E a \in Authorities : AcceptAuthority(a)
  BY <1>7 DEF AcceptAuthority
<1>8. CASE \E a \in Authorities : MigrateAdmin(a)
  BY <1>8 DEF MigrateAdmin, Grown
<1>9. CASE UNCHANGED <<config, retiredAt>>
  BY <1>9
<1> QED
  BY <1>1, <1>2, <1>3, <1>4, <1>5, <1>6, <1>7, <1>8, <1>9
  DEF ConfigChange, ConfigStep

\* The eight writers of the config keep the window in order.
LEMMA WindowStep == RegistryTypeOK /\ WindowInv /\ ConfigChange => WindowInv'
<1> SUFFICES ASSUME RegistryTypeOK, WindowInv, ConfigChange PROVE WindowInv'
  OBVIOUS
<1>1. PolicyReadable'
  BY ProjectionStep DEF WindowInv, PolicyReadable, ProjectionTransitionOK
<1>2. config'.layout = 0 => /\ config'.current_projection_version = 0
                            /\ config'.minimum_supported_projection_version = 0
  BY LayoutStep DEF WindowInv
<1> QED
  BY <1>1, <1>2 DEF WindowInv

\* A fresh config and an inherited one have no window and no second key.
LEMMA InitFields ==
    RegistryInit => /\ config.current_projection_version = 0
                    /\ config.minimum_supported_projection_version = 0
                    /\ config.secondary_validator_pubkey = NoPubkey
<1> SUFFICES ASSUME RegistryInit
             PROVE  /\ config.current_projection_version = 0
                    /\ config.minimum_supported_projection_version = 0
                    /\ config.secondary_validator_pubkey = NoPubkey
  OBVIOUS
<1>1. CASE config = EmptyConfig
  BY <1>1 DEF EmptyConfig
<1>2. CASE \E l \in InitialLayouts \ {0}, a \in Authorities, s \in Stakes,
              f \in MigrationFees, k \in ValidatorKeys :
              config = InheritedConfig(l, a, s, f, k)
  <2>1. PICK l \in InitialLayouts \ {0}, a \in Authorities, s \in Stakes,
             f \in MigrationFees, k \in ValidatorKeys :
                config = InheritedConfig(l, a, s, f, k)
    BY <1>2
  <2> QED
    BY <2>1 DEF InheritedConfig, EmptyConfig
<1> QED
  BY <1>1, <1>2 DEF RegistryInit

\* The window of the first state is in order.
LEMMA WindowInit == RegistryInit => WindowInv
BY InitFields DEF WindowInv, PolicyReadable

\* The old key that a rotation keeps expires at most a grace period after the
\* moment the rotation retired it.
GraceInv ==
    config.secondary_validator_pubkey # NoPubkey =>
        config.secondary_validator_valid_until
            <= retiredAt[config.secondary_validator_pubkey] + MaxGrace

\* The eight writers of the config keep the grace of the retired key bounded.
LEMMA GraceStep == RegistryTypeOK /\ GraceInv /\ ConfigChange => GraceInv'
<1> SUFFICES ASSUME RegistryTypeOK, GraceInv, ConfigChange PROVE GraceInv'
  OBVIOUS
<1> USE DEF GraceInv
<1>0. now \in Nat /\ config \in Configs /\ retiredAt \in [Keys -> Nat]
  BY Constants DEF RegistryTypeOK, Times
<1> USE DEF Configs
<1>1. CASE \E a \in Authorities, s \in Stakes, f \in Fees, k \in Keys :
              InitializeProtocol(a, s, f, k)
  BY <1>1, <1>0 DEF InitializeProtocol, EmptyConfig
<1>2. CASE \E a \in Authorities, f \in Fees : UpdateProtocolConfig(a, f)
  BY <1>2, <1>0 DEF UpdateProtocolConfig
<1>3. CASE \E a \in Authorities, k \in Keys : SetValidatorPubkey(a, k)
  BY <1>3, <1>0 DEF SetValidatorPubkey, Grown, Retire
<1>4. CASE \E a \in Authorities, k \in Keys, g \in Graces :
              RotateValidatorPubkey(a, k, g)
  BY <1>4, <1>0, Constants DEF RotateValidatorPubkey, Grown, Retire, KeepsOldKey,
      GraceAllowed
<1>5. CASE \E a \in Authorities, p, m \in Projections :
              SetProjectionVersions(a, p, m)
  BY <1>5, <1>0 DEF SetProjectionVersions, Grown
<1>6. CASE \E a \in Authorities, n \in Authorities \cup {NoPubkey} :
              ProposeAuthority(a, n)
  BY <1>6, <1>0 DEF ProposeAuthority, Grown
<1>7. CASE \E a \in Authorities : AcceptAuthority(a)
  BY <1>7, <1>0 DEF AcceptAuthority
<1>8. CASE \E a \in Authorities : MigrateAdmin(a)
  BY <1>8, <1>0 DEF MigrateAdmin, Grown
<1>9. CASE UNCHANGED <<config, retiredAt>>
  BY <1>9
<1> QED
  BY <1>1, <1>2, <1>3, <1>4, <1>5, <1>6, <1>7, <1>8, <1>9
  DEF ConfigChange, ConfigStep
============================================================================
