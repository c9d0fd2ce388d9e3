------------------------- MODULE RegistryLifecycle -------------------------
(***************************************************************************)
(* The life of the registry's accounts: every instruction of the program,  *)
(* the clock, the fees that entros-anchor sends to the treasury, and what  *)
(* anybody else sends to the treasury or the vault.                        *)
(***************************************************************************)
EXTENDS ConfigPolicy

vars == <<now, registryVars>>

\* A fee transfer of entros-anchor, as the registry's accounts see it.
FeePaid ==
    /\ config.layout >= 69
    /\ config.verification_fee > 0
    /\ treasury + config.verification_fee <= MaxTreasury
    /\ Pay(config.verification_fee)
    /\ UNCHANGED <<now, config, vault, stakes, retiredAt, proposedBy>>

ClockTick == Tick /\ UNCHANGED registryVars

Init == RegistryInit

Next == RegistryNext \/ FeePaid \/ Funding \/ ClockTick

Spec == Init /\ [][Next]_vars

\* The clock sysvar advances whatever the programs do.
FairSpec == Spec /\ WF_vars(ClockTick)

\* A validator that wants its stake back unstakes, or, while the rest of the
\* vault would be too little to stay there, first adds the rent minimum to it.
HeldBack(v) ==
    stakes[v] # NotStaked /\ ~RentExempt(vault - stakes[v])
Leaving(v) ==
    \/ UnstakeValidator(v)
    \/ HeldBack(v) /\ VaultFunded(RentMin)

\* Validators that persist in leaving; all others act as they please.
LeavingSpec == Spec /\ \A v \in Validators : WF_vars(Leaving(v))

----------------------------------------------------------------------------
(* Safety                                                                  *)

\* Every field stays within the values its account type can hold.
TypeOK == RegistryTypeOK

\* The vault holds at least what the registered validators staked, whatever
\* the order in which they register, leave and register again, and whoever
\* else pays into it.
StakeOf(v) == IF stakes[v] = NotStaked THEN 0 ELSE stakes[v]
StakeTotal[S \in SUBSET Validators] ==
    IF S = {} THEN 0
    ELSE LET v == CHOOSE x \in S : TRUE
         IN StakeOf(v) + StakeTotal[S \ {v}]
VaultBacksStakes == vault >= StakeTotal[Validators]

\* With a minimum stake that is rent-exempt by itself, no order in which the
\* others register and leave, and nothing that outsiders pay into the vault,
\* keeps a validator from unstaking while another one is registered.  Only the
\* last one to leave can be held back.
StakeRedeemable ==
    config.min_stake >= RentMin =>
        \A v \in Validators :
            stakes[v] # NotStaked =>
                /\ stakes[v] <= vault
                /\ HeldBack(v) =>
                       \A u \in Validators \ {v} : stakes[u] = NotStaked

\* A key that was replaced is accepted for at most the maximum grace period
\* after the instruction that replaced it, however many rotations followed.
KeyGraceBounded ==
    \A k \in ValidatorKeys :
        (SignerAccepted(k) /\ k # config.validator_pubkey) =>
            now <= retiredAt[k] + MaxGrace

\* The projection window that entros-anchor reads is never inverted, so an
\* instruction that reads it never fails for that reason.
PolicyAlwaysReadable == PolicyReadable

\* Once the program has created a config, a validator key is configured in
\* it for good: receipts are refused for a missing key only before that.
ConfiguredForGood ==
    [][(config.layout # 0 /\ IsConfigured) => IsConfigured']_vars

\* Projection versions never move backwards, so an identity that is at the
\* current version stays supported until the minimum is raised past it.
ProjectionMonotone ==
    [][/\ CurrentProjection' >= CurrentProjection
       /\ config'.minimum_supported_projection_version
            >= config.minimum_supported_projection_version]_vars

\* The admin changes only to the authority the standing proposal names or to
\* the upgrade authority; a proposal is consumed by the acceptance.
AdminHandover ==
    [][(config.layout # 0 /\ config'.admin # config.admin) =>
          \/ /\ config'.admin = config.pending_authority
             /\ config'.pending_authority = NoPubkey
          \/ config'.admin = UpgradeAuthority]_vars

\* A funded treasury keeps its rent-exempt minimum through every withdrawal.
TreasuryKeepsRent ==
    [][treasury >= RentMin => treasury' >= RentMin]_vars

\* The claim of the pending_authority field's comment: whoever is pending was
\* proposed by the authority that is the admin now.
PendingProposedByCurrentAdmin ==
    config.pending_authority # NoPubkey => proposedBy = config.admin

----------------------------------------------------------------------------
(* Liveness                                                                *)

\* A key kept through a rotation stops being accepted once its grace period
\* is over, unless the authority makes it the primary key again.
SecondaryExpires ==
    \A k \in ValidatorKeys :
        (/\ config.secondary_validator_pubkey = k
         /\ config.secondary_validator_valid_until < Genesis + Horizon)
          ~> (k = config.validator_pubkey \/ ~SignerAccepted(k))

\* Whatever the stakes and the minimum stake, and whatever the others do, a
\* validator that persists gets its stake back: what holds it back is less
\* than the rent minimum, and it can make up for that itself.
StakeReturned ==
    \A v \in Validators : stakes[v] # NotStaked ~> stakes[v] = NotStaked
============================================================================
