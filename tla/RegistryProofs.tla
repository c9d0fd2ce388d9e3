--------------------------- MODULE RegistryProofs --------------------------
(***************************************************************************)
(* Theorems about the registry's accounts, for every set of authorities,   *)
(* keys, validators and amounts, and for a clock without a bound.          *)
(***************************************************************************)
EXTENDS RegistryLifecycle, RegistryLemmas, FiniteSetTheorems

\* Every step keeps the types of the registry's accounts.
LEMMA RegistryStepType == RegistryTypeOK /\ [Next]_vars => RegistryTypeOK'
<1> SUFFICES ASSUME RegistryTypeOK, [Next]_vars PROVE RegistryTypeOK'
  OBVIOUS
<1>1. CASE RegistryNext
  BY <1>1, RegistryNextType
<1>2. CASE FeePaid
  <2>1. config.verification_fee \in Nat
    BY DEF RegistryTypeOK, Configs
  <2> QED
    BY <1>2, <2>1, PaidType DEF FeePaid
<1>3. CASE Funding
  BY <1>3, FundedType
<1>4. CASE ClockTick
  BY <1>4, TickType DEF ClockTick
<1>5. CASE UNCHANGED vars
  BY <1>5 DEF vars, registryVars, RegistryTypeOK
<1> QED
  BY <1>1, <1>2, <1>3, <1>4, <1>5 DEF Next

\* Every account of the registry holds a value of its type: the length of
\* the config is one the program knows, its keys are keys or the zero key,
\* its versions are in use, and no balance is negative.
THEOREM TypeCorrect == Spec => []TypeOK
<1>1. Init => TypeOK
  BY RegistryInitType DEF Init, TypeOK
<1>2. TypeOK /\ [Next]_vars => TypeOK'
  BY RegistryStepType DEF TypeOK
<1> QED
  BY <1>1, <1>2, PTL DEF Spec

\* Every step is one of the registry's, as the config sees it.
LEMMA ConfigWriters == [Next]_vars => ConfigChange
BY RegistryConfigChange
   DEF Next, FeePaid, ClockTick, registryVars, vars, ConfigChange

\* No sequence of instructions, whoever the admin is in between, inverts the
\* projection window, so entros-anchor can always read it.
THEOREM PolicyReadableAlways == Spec => []PolicyAlwaysReadable
<1>1. Init => RegistryTypeOK /\ WindowInv
  BY RegistryInitType, WindowInit DEF Init
<1>2. RegistryTypeOK /\ WindowInv /\ [Next]_vars
        => RegistryTypeOK' /\ WindowInv'
  BY RegistryStepType, WindowStep, ConfigWriters
<1>3. WindowInv => PolicyAlwaysReadable
  BY DEF WindowInv, PolicyAlwaysReadable
<1> QED
  BY <1>1, <1>2, <1>3, PTL DEF Spec

\* Neither version of the window ever moves backwards, not even when the
\* config account is created or grown.
THEOREM ProjectionNeverBack == Spec => ProjectionMonotone
<1> DEFINE Mono == /\ CurrentProjection' >= CurrentProjection
                   /\ config'.minimum_supported_projection_version
                        >= config.minimum_supported_projection_version
<1>1. Init => RegistryTypeOK /\ WindowInv
  BY RegistryInitType, WindowInit DEF Init
<1>2. RegistryTypeOK /\ WindowInv /\ [Next]_vars
        => RegistryTypeOK' /\ WindowInv'
  BY RegistryStepType, WindowStep, ConfigWriters
<1>3. RegistryTypeOK /\ WindowInv /\ [Next]_vars => [Mono]_vars
  <2> SUFFICES ASSUME RegistryTypeOK, WindowInv, [Next]_vars PROVE Mono
    OBVIOUS
  <2>1. /\ config.current_projection_version \in Nat
        /\ config.minimum_supported_projection_version \in Nat
    <3>1. /\ config.current_projection_version \in Projections
          /\ config.minimum_supported_projection_version \in Projections
      BY DEF RegistryTypeOK, Configs
    <3> QED
      BY <3>1, Constants
  <2>2. /\ config'.current_projection_version
             >= config.current_projection_version
        /\ config'.minimum_supported_projection_version
             >= config.minimum_supported_projection_version
    BY <2>1, ProjectionStep, ConfigWriters DEF WindowInv, ProjectionTransitionOK
  <2> QED
    BY <2>1, <2>2 DEF CurrentProjection
<1> QED
  BY <1>1, <1>2, <1>3, PTL DEF Spec, ProjectionMonotone

\* A replaced validator key stops being accepted at most a maximum grace
\* period after it was replaced, for every sequence of rotations and resets.
THEOREM GraceBounded == Spec => []KeyGraceBounded
<1>1. Init => RegistryTypeOK /\ GraceInv
  BY RegistryInitType, InitFields DEF Init, GraceInv
<1>2. RegistryTypeOK /\ GraceInv /\ [Next]_vars => RegistryTypeOK' /\ GraceInv'
  BY RegistryStepType, GraceStep, ConfigWriters
<1>3. RegistryTypeOK /\ GraceInv => KeyGraceBounded
  <2> SUFFICES ASSUME RegistryTypeOK, GraceInv, NEW k \in ValidatorKeys,
                      SignerAccepted(k), k # config.validator_pubkey
               PROVE  now <= retiredAt[k] + MaxGrace
    BY DEF KeyGraceBounded
  <2>1. /\ k = config.secondary_validator_pubkey
        /\ k # NoPubkey
        /\ now <= config.secondary_validator_valid_until
    BY DEF SignerAccepted, Accepts
  <2>2. /\ now \in Int /\ retiredAt[k] \in Int /\ MaxGrace \in Int
        /\ config.secondary_validator_valid_until \in Int
    BY Constants DEF RegistryTypeOK, Times, Configs, Keys
  <2> QED
    BY <2>1, <2>2 DEF GraceInv
<1> QED
  BY <1>1, <1>2, <1>3, PTL DEF Spec

\* Once the config of this program holds a validator key, no instruction
\* takes it away: both key instructions refuse the zero key.
THEOREM KeyForGood == Spec => ConfiguredForGood
<1> DEFINE Kept == (config.layout # 0 /\ IsConfigured) => IsConfigured'
<1>1. RegistryTypeOK /\ [Next]_vars => [Kept]_vars
  <2> SUFFICES ASSUME RegistryTypeOK, [Next]_vars, config.layout # 0,
                      IsConfigured
               PROVE  IsConfigured'
    OBVIOUS
  <2> USE DEF RegistryTypeOK, Configs, IsConfigured, ValidKey
  <2>1. CASE \E a \in Authorities, s \in Stakes, f \in Fees, k \in Keys :
                InitializeProtocol(a, s, f, k)
    BY <2>1 DEF InitializeProtocol
  <2>2. CASE \E a \in Authorities, f \in Fees : UpdateProtocolConfig(a, f)
    BY <2>2 DEF UpdateProtocolConfig
  <2>3. CASE \E a \in Authorities, k \in Keys : SetValidatorPubkey(a, k)
    BY <2>3 DEF SetValidatorPubkey, Grown
  <2>4. CASE \E a \in Authorities, k \in Keys, g \in Graces :
                RotateValidatorPubkey(a, k, g)
    BY <2>4 DEF RotateValidatorPubkey, Grown
  <2>5. CASE \E a \in Authorities, p, m \in Projections :
                SetProjectionVersions(a, p, m)
    BY <2>5 DEF SetProjectionVersions, Grown
  <2>6. CASE \E a \in Authorities, n \in Authorities \cup {NoPubkey} :
                ProposeAuthority(a, n)
    BY <2>6 DEF ProposeAuthority, Grown
  <2>7. CASE \E a \in Authorities : AcceptAuthority(a)
    BY <2>7 DEF AcceptAuthority
  <2>8. CASE \E a \in Authorities : MigrateAdmin(a)
    BY <2>8 DEF MigrateAdmin, Grown
  <2>9. CASE UNCHANGED <<config, retiredAt>>
    BY <2>9
  <2> QED
    BY <2>1, <2>2, <2>3, <2>4, <2>5, <2>6, <2>7, <2>8, <2>9, ConfigWriters
    DEF ConfigChange, ConfigStep
<1> QED
  BY <1>1, TypeCorrect, PTL DEF Spec, ConfiguredForGood, TypeOK

\* The admin is replaced only by the authority that the standing proposal
\* names, which consumes it, or by the program's upgrade authority.
THEOREM AdminOnlyHandedOver == Spec => AdminHandover
<1> DEFINE Handed == (config.layout # 0 /\ config'.admin # config.admin) =>
                        \/ /\ config'.admin = config.pending_authority
                           /\ config'.pending_authority = NoPubkey
                        \/ config'.admin = UpgradeAuthority
<1>1. RegistryTypeOK /\ [Next]_vars => [Handed]_vars
  <2> SUFFICES ASSUME RegistryTypeOK, [Next]_vars PROVE Handed
    OBVIOUS
  <2> USE DEF RegistryTypeOK, Configs
  <2>1. CASE \E a \in Authorities, s \in Stakes, f \in Fees, k \in Keys :
                InitializeProtocol(a, s, f, k)
    BY <2>1 DEF InitializeProtocol
  <2>2. CASE \E a \in Authorities, f \in Fees : UpdateProtocolConfig(a, f)
    BY <2>2 DEF UpdateProtocolConfig
  <2>3. CASE \E a \in Authorities, k \in Keys : SetValidatorPubkey(a, k)
    BY <2>3 DEF SetValidatorPubkey, Grown
  <2>4. CASE \E a \in Authorities, k \in Keys, g \in Graces :
                RotateValidatorPubkey(a, k, g)
    BY <2>4 DEF RotateValidatorPubkey, Grown
  <2>5. CASE \E a \in Authorities, p, m \in Projections :
                SetProjectionVersions(a, p, m)
    BY <2>5 DEF SetProjectionVersions, Grown
  <2>6. CASE \E a \in Authorities, n \in Authorities \cup {NoPubkey} :
                ProposeAuthority(a, n)
    BY <2>6 DEF ProposeAuthority, Grown
  <2>7. CASE \E a \in Authorities : AcceptAuthority(a)
    BY <2>7 DEF AcceptAuthority
  <2>8. CASE \E a \in Authorities : MigrateAdmin(a)
    BY <2>8 DEF MigrateAdmin, Grown
  <2>9. CASE UNCHANGED <<config, retiredAt>>
    BY <2>9
  <2> QED
    BY <2>1, <2>2, <2>3, <2>4, <2>5, <2>6, <2>7, <2>8, <2>9, ConfigWriters
    DEF ConfigChange, ConfigStep
<1> QED
  BY <1>1, TypeCorrect, PTL DEF Spec, AdminHandover, TypeOK

\* No withdrawal takes a funded treasury below its rent-exempt minimum.
THEOREM TreasuryStaysFunded == Spec => TreasuryKeepsRent
<1>1. RegistryTypeOK /\ [Next]_vars
        => [treasury >= RentMin => treasury' >= RentMin]_vars
  <2> SUFFICES ASSUME RegistryTypeOK, [Next]_vars, treasury >= RentMin
               PROVE  treasury' >= RentMin
    OBVIOUS
  <2>0. treasury \in Nat /\ RentMin \in Nat /\ config.verification_fee \in Nat
    BY Constants DEF RegistryTypeOK, Configs
  <2>1. CASE \E a \in Authorities, amount \in 0 .. MaxTreasury :
                WithdrawTreasury(a, amount)
    BY <2>0, <2>1, Constants DEF WithdrawTreasury, Available
  <2>2. CASE FeePaid
    BY <2>0, <2>2 DEF FeePaid, Pay
  <2>3. CASE \E amount \in 1 .. MaxTreasury : TreasuryFunded(amount)
    BY <2>0, <2>3, Constants DEF TreasuryFunded, Pay
  <2>4. CASE UNCHANGED treasury
    BY <2>4
  <2>5. \/ \E a \in Authorities, amount \in 0 .. MaxTreasury :
              WithdrawTreasury(a, amount)
        \/ FeePaid
        \/ \E amount \in 1 .. MaxTreasury : TreasuryFunded(amount)
        \/ UNCHANGED treasury
    BY DEF Next, RegistryNext, ConfigNext, AuthorityNext, StakeNext,
       TreasuryNext, InitializeProtocol, UpdateProtocolConfig,
       SetValidatorPubkey, RotateValidatorPubkey, SetProjectionVersions,
       ProposeAuthority, AcceptAuthority, MigrateAdmin, RegisterValidator,
       UnstakeValidator, Funding, VaultFunded, ClockTick, registryVars, vars
  <2> QED
    BY <2>1, <2>2, <2>3, <2>4, <2>5
<1> QED
  BY <1>1, TypeCorrect, PTL DEF Spec, TreasuryKeepsRent, TypeOK

----------------------------------------------------------------------------
\* Every family of sets of validators has a member that ceases to be one when
\* any element is taken from it: what a proof by induction over sets uses.
LEMMA SmallestSet ==
    ASSUME NEW B \in SUBSET SUBSET Validators, B # {}
    PROVE  \E T \in B : \A x \in T : T \ {x} \notin B
<1> DEFINE R == StrictSubsetOrdering(Validators)
<1>1. IsWellFoundedOn(R, SUBSET Validators)
  <2>1. FiniteSubsetsOf(Validators) = SUBSET Validators
    BY Constants, FS_FiniteSubsetsOfFinite
  <2>2. IsWellFoundedOn(R, FiniteSubsetsOf(Validators))
    BY FS_StrictSubsetOrderingWellFounded
  <2> QED
    BY <2>1, <2>2
<1>2. PICK T \in B : \A U \in B : ~ (<<U, T>> \in R)
  <2> HIDE DEF R
  <2> QED BY <1>1, WFMin
<1>3. ASSUME NEW x \in T PROVE T \ {x} \notin B
  <2>1. <<T \ {x}, T>> \in (SUBSET Validators) \X (SUBSET Validators)
    OBVIOUS
  <2>2. <<T \ {x}, T>> \in R
    BY <1>3, <2>1 DEF StrictSubsetOrdering
  <2> QED
    BY <1>2, <2>2
<1> QED
  BY <1>3

\* The validator that StakeTotal takes first, what one adds to the sum when the
\* stakes are s, and the recursion on the sets of at most n validators.
First(S) == CHOOSE x \in S : TRUE
Share(s, v) == IF s[v] = NotStaked THEN 0 ELSE s[v]
Upto(n) == {S \in SUBSET Validators : Cardinality(S) <= n}
Row(g, s, n) ==
    \A S \in Upto(n) :
        g[S] = IF S = {} THEN 0
               ELSE Share(s, First(S)) + g[S \ {First(S)}]

\* The recursion has a solution on the sets of at most n validators.
LEMMA SumUpto ==
    ASSUME NEW s, NEW n \in Nat PROVE \E g : Row(g, s, n)
<1> DEFINE B == {m \in Nat : ~ \E g : Row(g, s, m)}
           R == OpToRel(<, Nat)
<1>0. SUFFICES ASSUME B # {} PROVE FALSE
  OBVIOUS
<1>1. PICK m \in B : \A k \in B : ~ (<<k, m>> \in R)
  <2> HIDE DEF R, B
  <2>1. IsWellFoundedOn(R, Nat)
    BY NatLessThanWellFounded DEF R
  <2>2. B \subseteq Nat
    BY DEF B
  <2> QED BY <1>0, <2>1, <2>2, WFMin
<1>2. \A k \in B : ~ (k < m)
  <2> SUFFICES ASSUME NEW k \in B, k < m PROVE FALSE
    OBVIOUS
  <2>1. <<k, m>> \in R
    BY DEF OpToRel
  <2> QED
    BY <1>1, <2>1
<1>3. \A S \in SUBSET Validators :
         /\ IsFiniteSet(S) /\ Cardinality(S) \in Nat
         /\ Cardinality(S) = 0 <=> S = {}
  BY Constants, FS_Subset, FS_CardinalityType, FS_EmptySet
<1>4. CASE m = 0
  <2>1. Row([S \in SUBSET Validators |-> 0], s, 0)
    BY <1>3 DEF Row, Upto
  <2> QED
    BY <1>4, <2>1
<1>5. CASE m # 0
  <2>1. m - 1 \in Nat /\ m - 1 \notin B
    BY <1>2, <1>5
  <2>2. PICK g : Row(g, s, m - 1)
    BY <2>1
  <2> DEFINE h == [S \in SUBSET Validators |->
                     IF Cardinality(S) <= m - 1 THEN g[S]
                     ELSE Share(s, First(S)) + g[S \ {First(S)}]]
  <2>3. ASSUME NEW S \in Upto(m)
        PROVE  h[S] = IF S = {} THEN 0
                      ELSE Share(s, First(S)) + h[S \ {First(S)}]
    <3>1. CASE S = {}
      <4>1. S \in Upto(m - 1)
        BY <1>3, <2>1, <3>1 DEF Upto
      <4> QED
        BY <2>2, <3>1, <4>1 DEF Row, Upto
    <3>2. CASE S # {}
      <4>1. First(S) \in S
        BY <3>2 DEF First
      <4> DEFINE T == S \ {First(S)}
      <4>2. T \in SUBSET Validators /\ Cardinality(T) = Cardinality(S) - 1
        BY <1>3, <4>1, FS_RemoveElement DEF Upto
      <4>3. Cardinality(T) <= m - 1
        BY <1>3, <4>2 DEF Upto
      <4>4. h[T] = g[T]
        BY <4>2, <4>3
      <4>5. CASE Cardinality(S) <= m - 1
        <5>1. S \in Upto(m - 1)
          BY <4>5 DEF Upto
        <5>2. g[S] = Share(s, First(S)) + g[T]
          BY <2>2, <3>2, <5>1 DEF Row
        <5>3. h[S] = g[S]
          BY <4>5 DEF Upto
        <5> QED
          BY <3>2, <4>4, <5>2, <5>3
      <4>6. CASE ~ (Cardinality(S) <= m - 1)
        <5>1. h[S] = Share(s, First(S)) + g[T]
          BY <4>6 DEF Upto
        <5> QED
          BY <3>2, <4>4, <5>1
      <4> QED
        BY <4>5, <4>6
    <3> QED
      BY <3>1, <3>2
  <2>4. Row(h, s, m)
    <3> HIDE DEF h
    <3> QED BY <2>3 DEF Row
  <2> QED
    BY <2>4
<1> QED
  BY <1>4, <1>5

\* StakeTotal satisfies its recursion, in every state.
LEMMA StakeRecursion ==
    \A S \in SUBSET Validators :
        StakeTotal[S] = IF S = {} THEN 0
                        ELSE StakeOf(First(S)) + StakeTotal[S \ {First(S)}]
<1> DEFINE n == Cardinality(Validators)
<1>1. n \in Nat /\ \A S \in SUBSET Validators : S \in Upto(n)
  BY Constants, FS_CardinalityType, FS_Subset DEF Upto
<1>2. PICK g : Row(g, stakes, n)
  BY <1>1, SumUpto
<1> DEFINE f == [S \in SUBSET Validators |-> g[S]]
<1>3. f = [S \in SUBSET Validators |->
             IF S = {} THEN 0
             ELSE LET v == CHOOSE x \in S : TRUE
                  IN StakeOf(v) + f[S \ {v}]]
  BY <1>1, <1>2 DEF Row, First, Share, StakeOf
<1>4. StakeTotal = [S \in SUBSET Validators |->
             IF S = {} THEN 0
             ELSE LET v == CHOOSE x \in S : TRUE
                  IN StakeOf(v) + StakeTotal[S \ {v}]]
  <2> HIDE DEF f
  <2> QED BY <1>3 DEF StakeTotal
<1> QED
  BY <1>4 DEF First

\* What one validator staked is a natural number.
LEMMA StakeOfType ==
    RegistryTypeOK => \A v \in Validators : StakeOf(v) \in Nat
BY DEF RegistryTypeOK, StakeOf, NotStaked

\* The total is a natural number.
LEMMA StakeTotalType ==
    RegistryTypeOK => \A S \in SUBSET Validators : StakeTotal[S] \in Nat
<1> DEFINE B == {S \in SUBSET Validators : StakeTotal[S] \notin Nat}
<1> SUFFICES ASSUME RegistryTypeOK, B # {} PROVE FALSE
  OBVIOUS
<1>1. PICK T \in B : \A x \in T : T \ {x} \notin B
  <2> HIDE DEF B
  <2>1. B \in SUBSET SUBSET Validators
    BY DEF B
  <2> QED BY <2>1, SmallestSet
<1>2. T # {}
  <2>1. StakeTotal[{}] = 0
    BY StakeRecursion
  <2> QED
    BY <2>1
<1>3. First(T) \in T
  BY <1>2 DEF First
<1>4. StakeTotal[T \ {First(T)}] \in Nat
  BY <1>1, <1>3
<1>5. StakeOf(First(T)) \in Nat
  BY <1>3, StakeOfType
<1> QED
  BY <1>2, <1>4, <1>5, StakeRecursion

\* Any one validator's stake can be split off the total, not only the one
\* the recursion happens to choose.
LEMMA SplitOff ==
    RegistryTypeOK => \A S \in SUBSET Validators : \A v \in S :
                          StakeTotal[S] = StakeOf(v) + StakeTotal[S \ {v}]
<1> DEFINE Splits(S) == \A v \in S :
                            StakeTotal[S] = StakeOf(v) + StakeTotal[S \ {v}]
           B == {S \in SUBSET Validators : ~ Splits(S)}
<1> SUFFICES ASSUME RegistryTypeOK, B # {} PROVE FALSE
  OBVIOUS
<1>1. PICK T \in B : \A x \in T : T \ {x} \notin B
  <2>1. B \in SUBSET SUBSET Validators
    OBVIOUS
  <2> HIDE DEF B
  <2> QED BY <2>1, SmallestSet
<1>2. PICK v \in T : StakeTotal[T] # StakeOf(v) + StakeTotal[T \ {v}]
  OBVIOUS
<1> DEFINE c == First(T)
<1>3. c \in T
  BY <1>2 DEF First
<1>4. StakeTotal[T] = StakeOf(c) + StakeTotal[T \ {c}]
  BY <1>2, StakeRecursion
<1>5. c # v
  BY <1>2, <1>4
<1>6. StakeTotal[T \ {c}] = StakeOf(v) + StakeTotal[(T \ {c}) \ {v}]
  <2>1. Splits(T \ {c})
    BY <1>1, <1>3
  <2> QED
    BY <1>2, <1>5, <2>1
<1>7. StakeTotal[T \ {v}] = StakeOf(c) + StakeTotal[(T \ {v}) \ {c}]
  <2>1. Splits(T \ {v})
    BY <1>1, <1>2
  <2> QED
    BY <1>3, <1>5, <2>1
<1>8. (T \ {c}) \ {v} = (T \ {v}) \ {c}
  OBVIOUS
<1>9. /\ StakeOf(v) \in Nat /\ StakeOf(c) \in Nat
      /\ StakeTotal[(T \ {v}) \ {c}] \in Nat
  BY <1>2, <1>3, StakeOfType, StakeTotalType
<1>10. StakeTotal[T \ {c}] = StakeOf(v) + StakeTotal[(T \ {v}) \ {c}]
  BY <1>6, <1>8
<1>11. StakeOf(v) + StakeTotal[T \ {v}] = StakeOf(c) + StakeTotal[T \ {c}]
  BY <1>7, <1>9, <1>10
<1> QED
  BY <1>2, <1>4, <1>11

\* The same two facts about the state that a step leads to.
LEMMA NextTotal ==
    (\A S \in SUBSET Validators :
        StakeTotal[S] = IF S = {} THEN 0
                        ELSE StakeOf(First(S)) + StakeTotal[S \ {First(S)}])'
BY StakeRecursion, PTL

\* SplitOff of the next state.
LEMMA NextSplitOff ==
    (RegistryTypeOK => \A S \in SUBSET Validators : \A v \in S :
                          StakeTotal[S] = StakeOf(v) + StakeTotal[S \ {v}])'
BY SplitOff, PTL

\* The total over validators whose stakes a step leaves alone stays.
LEMMA SameTotal ==
    ASSUME NEW S \in SUBSET Validators, \A v \in S : stakes'[v] = stakes[v]
    PROVE  StakeTotal'[S] = StakeTotal[S]
<1> DEFINE B == {U \in SUBSET S : StakeTotal'[U] # StakeTotal[U]}
<1> SUFFICES ASSUME B # {} PROVE FALSE
  OBVIOUS
<1>1. PICK T \in B : \A x \in T : T \ {x} \notin B
  <2>1. B \in SUBSET SUBSET Validators
    OBVIOUS
  <2> HIDE DEF B
  <2> QED BY <2>1, SmallestSet
<1>2. T # {}
  <2>1. StakeTotal[{}] = 0 /\ StakeTotal'[{}] = 0
    BY NextTotal, StakeRecursion
  <2> QED
    BY <2>1
<1>3. First(T) \in T
  BY <1>2 DEF First
<1>4. StakeTotal'[T \ {First(T)}] = StakeTotal[T \ {First(T)}]
  BY <1>1, <1>3
<1>5. StakeOf(First(T))' = StakeOf(First(T))
  BY <1>3 DEF StakeOf
<1> QED
  BY <1>2, <1>4, <1>5, NextTotal, StakeRecursion

\* Stakes that are zero or at least m add up to zero or at least m.
LEMMA TotalOverMin ==
    ASSUME RegistryTypeOK, NEW m \in Nat,
           \A v \in Validators : StakeOf(v) = 0 \/ StakeOf(v) >= m
    PROVE  \A S \in SUBSET Validators : StakeTotal[S] = 0 \/ StakeTotal[S] >= m
<1> DEFINE B == {S \in SUBSET Validators :
                    ~ (StakeTotal[S] = 0 \/ StakeTotal[S] >= m)}
<1> SUFFICES ASSUME B # {} PROVE FALSE
  OBVIOUS
<1>1. PICK T \in B : \A x \in T : T \ {x} \notin B
  <2>1. B \in SUBSET SUBSET Validators
    OBVIOUS
  <2> HIDE DEF B
  <2> QED BY <2>1, SmallestSet
<1>2. T # {}
  <2>1. StakeTotal[{}] = 0
    BY StakeRecursion
  <2> QED
    BY <2>1
<1>3. First(T) \in T
  BY <1>2 DEF First
<1> DEFINE c == First(T)
           rest == StakeTotal[T \ {c}]
<1>4. rest = 0 \/ rest >= m
  BY <1>1, <1>3
<1>5. /\ rest \in Nat /\ StakeOf(c) \in Nat
      /\ StakeOf(c) = 0 \/ StakeOf(c) >= m
  BY <1>3, StakeOfType, StakeTotalType
<1>6. StakeTotal[T] = StakeOf(c) + rest
  BY <1>2, StakeRecursion
<1>7. StakeTotal[T] = 0 \/ StakeTotal[T] >= m
  <2> HIDE DEF c, rest
  <2> QED BY <1>4, <1>5, <1>6
<1> QED
  BY <1>7

\* Every stake is at least the minimum stake, which no instruction changes
\* once a config exists, and there is no stake before there is a config.
StakedInv ==
    \A v \in Validators :
        stakes[v] # NotStaked =>
            config.layout # 0 /\ stakes[v] >= config.min_stake

BackedInv == StakedInv /\ VaultBacksStakes

\* Only creation writes the minimum stake.
LEMMA MinStakeStep ==
    ASSUME RegistryTypeOK, ConfigChange
    PROVE  config.layout # 0 => config'.min_stake = config.min_stake
<1> USE DEF RegistryTypeOK, Configs
<1>1. CASE \E a \in Authorities, s \in Stakes, f \in Fees, k \in Keys :
              InitializeProtocol(a, s, f, k)
  BY <1>1 DEF InitializeProtocol
<1>2. CASE \E a \in Authorities, f \in Fees : UpdateProtocolConfig(a, f)
  BY <1>2 DEF UpdateProtocolConfig
<1>3. CASE \E a \in Authorities, k \in Keys : SetValidatorPubkey(a, k)
  BY <1>3 DEF SetValidatorPubkey, Grown
<1>4. CASE \E a \in Authorities, k \in Keys, g \in Graces :
              RotateValidatorPubkey(a, k, g)
  BY <1>4 DEF RotateValidatorPubkey, Grown
<1>5. CASE \E a \in Authorities, p, m \in Projections :
              SetProjectionVersions(a, p, m)
  BY <1>5 DEF SetProjectionVersions, Grown
<1>6. CASE \E a \in Authorities, n \in Authorities \cup {NoPubkey} :
              ProposeAuthority(a, n)
  BY <1>6 DEF ProposeAuthority, Grown
<1>7. CASE \E a \in Authorities : AcceptAuthority(a)
  BY <1>7 DEF AcceptAuthority
<1>8. CASE \E a \in Authorities : MigrateAdmin(a)
  BY <1>8 DEF MigrateAdmin, Grown
<1>9. CASE UNCHANGED <<config, retiredAt>>
  BY <1>9
<1> QED
  BY <1>1, <1>2, <1>3, <1>4, <1>5, <1>6, <1>7, <1>8, <1>9
  DEF ConfigChange, ConfigStep

\* The steps as the stakes see them.
LEMMA StakeWriters ==
    [Next]_vars =>
        \/ \E v \in Validators, s \in Stakes : RegisterValidator(v, s)
        \/ \E v \in Validators : UnstakeValidator(v)
        \/ \E amount \in 1 .. MaxVault : VaultFunded(amount)
        \/ UNCHANGED <<vault, stakes>>
BY DEF Next, RegistryNext, ConfigNext, AuthorityNext, StakeNext, TreasuryNext,
       InitializeProtocol, UpdateProtocolConfig, SetValidatorPubkey,
       RotateValidatorPubkey, SetProjectionVersions, ProposeAuthority,
       AcceptAuthority, MigrateAdmin, WithdrawTreasury, FeePaid,
       Funding, TreasuryFunded, ClockTick, registryVars, vars

\* An empty vault backs no stakes.
LEMMA BackedInit == Init => BackedInv
<1> SUFFICES ASSUME Init PROVE BackedInv
  OBVIOUS
<1>1. RegistryTypeOK
  BY RegistryInitType DEF Init
<1>2. \A v \in Validators : stakes[v] = NotStaked
  BY DEF Init, RegistryInit
<1>3. StakeTotal[Validators] = 0
  <2> DEFINE m == StakeTotal[Validators] + 1
  <2>1. StakeTotal[Validators] \in Nat
    BY <1>1, StakeTotalType
  <2>2. StakeTotal[Validators] = 0 \/ StakeTotal[Validators] >= m
    BY <1>1, <1>2, <2>1, TotalOverMin DEF StakeOf
  <2> QED
    BY <2>1, <2>2
<1> QED
  BY <1>2, <1>3 DEF BackedInv, StakedInv, VaultBacksStakes, Init, RegistryInit

\* A registration pays its stake in, an unstake takes out its own, and what
\* outsiders do only adds to the vault.
LEMMA BackedStep ==
    RegistryTypeOK /\ BackedInv /\ [Next]_vars => BackedInv'
<1> SUFFICES ASSUME RegistryTypeOK, BackedInv, [Next]_vars PROVE BackedInv'
  OBVIOUS
<1>1. RegistryTypeOK'
  BY RegistryStepType
<1>2. /\ stakes \in [Validators -> Nat \cup {NotStaked}]
      /\ config.min_stake \in Nat /\ vault \in Int
  BY DEF RegistryTypeOK, Configs
<1>3. Validators \in SUBSET Validators
  OBVIOUS
<1>4. ASSUME NEW v \in Validators, NEW s \in Stakes, RegisterValidator(v, s)
      PROVE  BackedInv'
  <2>1. s \in Nat /\ stakes[v] = NotStaked /\ stakes' = [stakes EXCEPT ![v] = s]
        /\ vault' = vault + s /\ s >= config.min_stake /\ config.layout # 0
        /\ config' = config
    BY <1>4, Constants DEF RegisterValidator, StakeAllowed, Deserialises, ConfigLen
  <2>2. StakedInv'
    BY <1>2, <2>1 DEF BackedInv, StakedInv
  <2>3. StakeTotal'[Validators \ {v}] = StakeTotal[Validators \ {v}]
    BY <1>2, <2>1, SameTotal
  <2>4. StakeTotal[Validators] = StakeOf(v) + StakeTotal[Validators \ {v}]
    BY <1>3, SplitOff
  <2>5. StakeTotal'[Validators] = StakeOf(v)' + StakeTotal'[Validators \ {v}]
    BY <1>1, <1>3, NextSplitOff
  <2>6. StakeOf(v) = 0 /\ StakeOf(v)' = s
    BY <1>2, <2>1 DEF StakeOf, NotStaked
  <2>7. StakeTotal[Validators \ {v}] \in Nat
    BY StakeTotalType
  <2>8. VaultBacksStakes'
    BY <1>2, <2>1, <2>3, <2>4, <2>5, <2>6, <2>7 DEF BackedInv, VaultBacksStakes
  <2> QED
    BY <2>2, <2>8 DEF BackedInv
<1>5. ASSUME NEW v \in Validators, UnstakeValidator(v) PROVE BackedInv'
  <2>1. stakes[v] # NotStaked /\ stakes' = [stakes EXCEPT ![v] = NotStaked]
        /\ vault' = vault - stakes[v] /\ config' = config
    BY <1>5 DEF UnstakeValidator
  <2>2. StakedInv'
    BY <1>2, <2>1 DEF BackedInv, StakedInv
  <2>3. StakeTotal'[Validators \ {v}] = StakeTotal[Validators \ {v}]
    BY <1>2, <2>1, SameTotal
  <2>4. StakeTotal[Validators] = StakeOf(v) + StakeTotal[Validators \ {v}]
    BY <1>3, SplitOff
  <2>5. StakeTotal'[Validators] = StakeOf(v)' + StakeTotal'[Validators \ {v}]
    BY <1>1, <1>3, NextSplitOff
  <2>6. StakeOf(v) = stakes[v] /\ StakeOf(v) \in Nat /\ StakeOf(v)' = 0
    BY <1>2, <2>1 DEF StakeOf
  <2>7. StakeTotal[Validators \ {v}] \in Nat
    BY StakeTotalType
  <2>8. VaultBacksStakes'
    BY <1>2, <2>1, <2>3, <2>4, <2>5, <2>6, <2>7 DEF BackedInv, VaultBacksStakes
  <2> QED
    BY <2>2, <2>8 DEF BackedInv
<1>6. ASSUME UNCHANGED stakes, vault' \in Int, vault' >= vault
      PROVE  BackedInv'
  <2>1. config.layout # 0 =>
            config'.layout # 0 /\ config'.min_stake = config.min_stake
    BY ConfigWriters, LayoutStep, MinStakeStep
  <2>2. StakedInv'
    BY <1>6, <2>1 DEF BackedInv, StakedInv
  <2>3. StakeTotal'[Validators] = StakeTotal[Validators]
    BY <1>3, <1>6, SameTotal
  <2>4. StakeTotal[Validators] \in Nat
    BY <1>3, StakeTotalType
  <2> QED
    BY <1>2, <1>6, <2>2, <2>3, <2>4 DEF BackedInv, VaultBacksStakes
<1>7. ASSUME NEW amount \in 1 .. MaxVault, VaultFunded(amount) PROVE BackedInv'
  BY <1>2, <1>6, <1>7, Constants DEF VaultFunded
<1>8. CASE UNCHANGED <<vault, stakes>>
  BY <1>2, <1>6, <1>8
<1> QED
  BY <1>4, <1>5, <1>7, <1>8, StakeWriters

\* The vault covers the registered stakes, for any finite number of
\* validators, any order of registering, leaving and registering again, and
\* any payments from outside.
THEOREM StakesBacked == Spec => []VaultBacksStakes
<1>1. Init => RegistryTypeOK /\ BackedInv
  BY RegistryInitType, BackedInit DEF Init
<1>2. RegistryTypeOK /\ BackedInv /\ [Next]_vars
        => RegistryTypeOK' /\ BackedInv'
  BY RegistryStepType, BackedStep
<1>3. BackedInv => VaultBacksStakes
  BY DEF BackedInv
<1> QED
  BY <1>1, <1>2, <1>3, PTL DEF Spec

\* When the minimum stake is rent-exempt by itself, a validator can unstake
\* as long as another one is registered, whoever pays into the vault: the
\* vault covers the stake, and what remains includes the other's stake, which
\* is rent-exempt alone.
THEOREM StakesRedeemable == Spec => []StakeRedeemable
<1>1. Init => RegistryTypeOK /\ BackedInv
  BY RegistryInitType, BackedInit DEF Init
<1>2. RegistryTypeOK /\ BackedInv /\ [Next]_vars
        => RegistryTypeOK' /\ BackedInv'
  BY RegistryStepType, BackedStep
<1>3. RegistryTypeOK /\ BackedInv => StakeRedeemable
  <2> SUFFICES ASSUME RegistryTypeOK, BackedInv, config.min_stake >= RentMin,
                      NEW v \in Validators, stakes[v] # NotStaked
               PROVE  /\ stakes[v] <= vault
                      /\ \A u \in Validators \ {v} :
                             stakes[u] # NotStaked =>
                                 RentExempt(vault - stakes[v])
    BY DEF StakeRedeemable, HeldBack
  <2>1. stakes \in [Validators -> Nat \cup {NotStaked}]
        /\ config.min_stake \in Nat /\ RentMin \in Nat /\ vault \in Int
    BY Constants DEF RegistryTypeOK, Configs
  <2> DEFINE others == StakeTotal[Validators \ {v}]
  <2>2. others \in Nat
    BY StakeTotalType
  <2>3. vault >= stakes[v] + others
    <3>1. StakeTotal[Validators] = StakeOf(v) + others
      BY SplitOff
    <3> QED
      BY <3>1 DEF BackedInv, VaultBacksStakes, StakeOf
  <2>4. stakes[v] \in Nat
    BY <2>1
  <2>5. ASSUME NEW u \in Validators \ {v}, stakes[u] # NotStaked
        PROVE  RentExempt(vault - stakes[v])
    <3> DEFINE rest == StakeTotal[(Validators \ {v}) \ {u}]
    <3>1. others = StakeOf(u) + rest
      BY SplitOff
    <3>2. rest \in Nat
      BY StakeTotalType
    <3>3. StakeOf(u) \in Nat /\ StakeOf(u) >= RentMin
      BY <2>1, <2>5 DEF BackedInv, StakedInv, StakeOf
    <3> HIDE DEF others, rest
    <3>4. others >= RentMin
      BY <2>1, <3>1, <3>2, <3>3
    <3> QED
      BY <2>1, <2>2, <2>3, <2>4, <3>4 DEF RentExempt
  <2>6. stakes[v] <= vault
    <3> HIDE DEF others
    <3> QED BY <2>1, <2>2, <2>3, <2>4
  <2> QED
    BY <2>5, <2>6
<1> QED
  BY <1>1, <1>2, <1>3, PTL DEF Spec
============================================================================
