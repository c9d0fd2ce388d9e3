--------------------------- MODULE EntrosRegistry --------------------------
(***************************************************************************)
(* The entros-registry program: the ProtocolConfig singleton, the protocol *)
(* treasury, and the validators' stakes with the vault that holds them.    *)
(*                                                                         *)
(* The config is one record.  Its `layout` is the length of the account:   *)
(* 0 when it does not exist, 69 before the migration fee was appended, 77  *)
(* before the validator key, 109 before the projection versions, 113       *)
(* before the authority transfer and the key rollover, 185 now.            *)
(* Fields past the end of a short account hold their zero value, which is  *)
(* what the length guards of the readers return and what a resize writes.  *)
(***************************************************************************)
EXTENDS SolanaRuntime, FiniteSets

CONSTANTS
    Authorities,       \* public keys that may administer the protocol
    UpgradeAuthority,  \* the upgrade authority in the registry's programdata
    ValidatorKeys,     \* receipt-signing keys of the validator service
    Validators,        \* wallets that may stake
    Stakes,            \* stake amounts and minimum stakes offered
    Fees,              \* verification fees the authority may choose
    MigrationFees,     \* migration fees an inherited config may hold
    Projections,       \* projection versions in use
    Graces,            \* grace periods the authority may ask for, in seconds
    InitialLayouts,    \* config layouts the model starts from
    MaxGrace,          \* MAX_VALIDATOR_GRACE_PERIOD_SECS
    MaxTreasury,       \* bound: payments to the treasury stop at it
    MaxVault           \* bound: outsiders' payments to the vault stop at it

ConfigLayouts == {0, 69, 77, 109, 113, 185}

ASSUME RegistryAssumption ==
    /\ UpgradeAuthority \in Authorities
    /\ NoPubkey \notin Authorities \cup ValidatorKeys
    /\ IsFiniteSet(Validators)      \* keys of 32 bytes
    /\ Stakes \subseteq Nat
    /\ Fees \subseteq Nat
    /\ MigrationFees \subseteq Nat
    /\ Projections \subseteq Nat /\ 0 \in Projections
    /\ Graces \subseteq Int
    /\ InitialLayouts \subseteq ConfigLayouts
    /\ MaxGrace \in Nat
    /\ MaxTreasury \in Nat
    /\ MaxVault \in Nat

VARIABLES
    config,      \* ProtocolConfig
    treasury,    \* lamports of the protocol_treasury PDA
    vault,       \* lamports of the vault PDA
    stakes,      \* ValidatorState.stake by wallet, NotStaked when closed
    retiredAt,   \* history: when each key last stopped being the primary one
    proposedBy   \* history: the admin that signed the last proposal

registryVars == <<config, treasury, vault, stakes, retiredAt, proposedBy>>

\* Fault: a field is left out of ProtocolConfig::LEN.
ShortConfigLen == 184

ConfigLen == 185
PreRolloverLen == 113
NotStaked == -1

Keys == ValidatorKeys \cup {NoPubkey}

EmptyConfig ==
    [layout |-> 0, admin |-> NoPubkey, min_stake |-> 0,
     verification_fee |-> 0, migration_fee |-> 0,
     validator_pubkey |-> NoPubkey,
     current_projection_version |-> 0,
     minimum_supported_projection_version |-> 0,
     pending_authority |-> NoPubkey,
     secondary_validator_pubkey |-> NoPubkey,
     secondary_validator_valid_until |-> 0]

Configs ==
    [layout : ConfigLayouts,
     admin : Authorities \cup {NoPubkey},
     min_stake : Nat,
     verification_fee : Nat,
     migration_fee : Nat,
     validator_pubkey : Keys,
     current_projection_version : Projections,
     minimum_supported_projection_version : Projections,
     pending_authority : Authorities \cup {NoPubkey},
     secondary_validator_pubkey : Keys,
     secondary_validator_valid_until : Nat]

RegistryTypeOK ==
    /\ now \in Times
    /\ config \in Configs
    /\ treasury \in Nat
    /\ vault \in Int
    /\ stakes \in [Validators -> Nat \cup {NotStaked}]
    /\ retiredAt \in [Keys -> Nat]
    /\ proposedBy \in Authorities \cup {NoPubkey}

\* A deployment starts without a config, or with one an earlier release
\* of the program created: that one has its admin and, in the layouts that
\* hold them, a migration fee (which no instruction of this release sets)
\* and its validator key.
InheritedConfig(l, a, s, f, k) ==
    [EmptyConfig EXCEPT !.layout = l, !.admin = a, !.min_stake = s,
         !.migration_fee = IF l >= 77 THEN f ELSE 0,
         !.validator_pubkey = IF l >= 109 THEN k ELSE NoPubkey]

RegistryInit ==
    /\ now = Genesis
    /\ \/ 0 \in InitialLayouts /\ config = EmptyConfig
       \/ \E l \in InitialLayouts \ {0}, a \in Authorities, s \in Stakes,
             f \in MigrationFees, k \in ValidatorKeys :
             config = InheritedConfig(l, a, s, f, k)
    /\ treasury \in {0, RentMin}
    /\ vault = 0
    /\ stakes = [v \in Validators |-> NotStaked]
    /\ retiredAt = [k \in Keys |-> 0]
    /\ proposedBy = NoPubkey

----------------------------------------------------------------------------
(* Helpers                                                                 *)

\* read_projection_versions, as stored: a config that ends before these
\* fields has both at zero, and one that holds half of them is refused.
StoredProjectionOK ==
    config.minimum_supported_projection_version
        <= config.current_projection_version

\* Faults: one of the transition's checks is missing.
InvertedTransitionOK(current, minimum) ==
    /\ current >= config.current_projection_version
    /\ minimum >= config.minimum_supported_projection_version
RollbackTransitionOK(current, minimum) == minimum <= current

\* validate_projection_transition
ProjectionTransitionOK(current, minimum) ==
    /\ minimum <= current
    /\ current >= config.current_projection_version
    /\ minimum >= config.minimum_supported_projection_version

\* ensure_protocol_config_len: grow a short account, zero-filled
Grown(c) == [c EXCEPT !.layout = ConfigLen]

\* The raw-byte handlers compare the signer with the stored admin.
SignedByAdmin(a) == config.layout >= 40 /\ config.admin = a

\* Account<ProtocolConfig> fails to deserialise a shorter layout.
Deserialises == config.layout = ConfigLen

\* An all-zero validator key would disable every receipt.
\* Fault: it is not refused.
AnyKey(k) == TRUE
ValidKey(k) == k # NoPubkey

\* The key that stops being the primary one, when it changes.
Retire(k) ==
    retiredAt' = IF k = config.validator_pubkey
                   THEN retiredAt
                   ELSE [retiredAt EXCEPT ![config.validator_pubkey] = now]

----------------------------------------------------------------------------
(* Protocol configuration                                                  *)

InitializeProtocol(a, min_stake, fee, k) ==
    /\ config.layout = 0
    /\ ValidKey(k)
    /\ config' = [EmptyConfig EXCEPT !.layout = ConfigLen, !.admin = a,
                      !.min_stake = min_stake, !.verification_fee = fee,
                      !.validator_pubkey = k]
    /\ UNCHANGED <<now, treasury, vault, stakes, retiredAt, proposedBy>>

UpdateProtocolConfig(a, fee) ==
    /\ Deserialises
    /\ config.admin = a
    /\ config' = [config EXCEPT !.verification_fee = fee]
    /\ UNCHANGED <<now, treasury, vault, stakes, retiredAt, proposedBy>>

SetValidatorPubkey(a, k) ==
    /\ ValidKey(k)
    /\ SignedByAdmin(a)
    /\ config' = [Grown(config) EXCEPT !.validator_pubkey = k,
                      !.secondary_validator_pubkey = NoPubkey,
                      !.secondary_validator_valid_until = 0]
    /\ Retire(k)
    /\ UNCHANGED <<now, treasury, vault, stakes, proposedBy>>

\* The previous key stays accepted for the grace period when there is one
\* and the key really changes; in every other case no secondary is left.
KeepsOldKey(k, grace) ==
    /\ grace > 0
    /\ config.validator_pubkey # NoPubkey
    /\ config.validator_pubkey # k

\* Fault: the grace period has no upper bound.
AnyGrace(grace) == grace >= 0
GraceAllowed(grace) == grace \in 0 .. MaxGrace

RotateValidatorPubkey(a, k, grace) ==
    /\ ValidKey(k)
    /\ GraceAllowed(grace)
    /\ SignedByAdmin(a)
    /\ config' = [Grown(config) EXCEPT !.validator_pubkey = k,
                      !.secondary_validator_pubkey =
                          IF KeepsOldKey(k, grace)
                            THEN config.validator_pubkey ELSE NoPubkey,
                      !.secondary_validator_valid_until =
                          IF KeepsOldKey(k, grace) THEN now + grace ELSE 0]
    /\ Retire(k)
    /\ UNCHANGED <<now, treasury, vault, stakes, proposedBy>>

ProposeAuthority(a, new) ==
    /\ new # NoPubkey
    /\ SignedByAdmin(a)
    /\ config' = [Grown(config) EXCEPT !.pending_authority = new]
    /\ proposedBy' = a
    /\ UNCHANGED <<now, treasury, vault, stakes, retiredAt>>

\* Fault: the proposal is not consumed.
AcceptAuthorityAgain(signer) ==
    /\ config.pending_authority # NoPubkey
    /\ config.pending_authority = signer
    /\ config' = [config EXCEPT !.admin = signer]
    /\ UNCHANGED <<now, treasury, vault, stakes, retiredAt, proposedBy>>

AcceptAuthority(signer) ==
    /\ config.layout >= PreRolloverLen + 32
    /\ config.pending_authority # NoPubkey
    /\ config.pending_authority = signer
    /\ config' = [config EXCEPT !.admin = signer,
                      !.pending_authority = NoPubkey]
    /\ UNCHANGED <<now, treasury, vault, stakes, retiredAt, proposedBy>>

\* The emergency path: the upgrade authority makes itself the admin.
MigrateAdmin(signer) ==
    /\ signer = UpgradeAuthority
    /\ config.layout >= 40
    /\ config' = [Grown(config) EXCEPT !.admin = signer]
    /\ UNCHANGED <<now, treasury, vault, stakes, retiredAt, proposedBy>>

SetProjectionVersions(a, current, minimum) ==
    /\ SignedByAdmin(a)
    /\ StoredProjectionOK
    /\ ProjectionTransitionOK(current, minimum)
    /\ config' = [Grown(config) EXCEPT
                      !.current_projection_version = current,
                      !.minimum_supported_projection_version = minimum]
    /\ UNCHANGED <<now, treasury, vault, stakes, retiredAt, proposedBy>>

----------------------------------------------------------------------------
(* Treasury and stakes                                                     *)

\* The fee transfers of entros-anchor, and direct transfers to the PDA.
Pay(fee) ==
    /\ treasury' = treasury + fee
    /\ RentExempt(treasury')

\* The treasury and the vault are addresses like any other: anyone may send
\* either of them lamports, at any time, with no instruction of the program.
TreasuryFunded(amount) ==
    /\ amount > 0
    /\ treasury + amount <= MaxTreasury
    /\ Pay(amount)
    /\ UNCHANGED <<now, config, vault, stakes, retiredAt, proposedBy>>

VaultFunded(amount) ==
    /\ amount > 0
    /\ vault + amount <= MaxVault
    /\ vault' = vault + amount
    /\ RentExempt(vault')
    /\ UNCHANGED <<now, config, treasury, stakes, retiredAt, proposedBy>>

\* Fault: the rent-exempt minimum may be withdrawn too.
WholeTreasury == treasury
Available == IF treasury >= RentMin THEN treasury - RentMin ELSE 0

WithdrawTreasury(a, amount) ==
    /\ Deserialises
    /\ config.admin = a
    /\ amount <= Available
    /\ treasury' = treasury - amount
    /\ RentExempt(treasury')
    /\ UNCHANGED <<now, config, vault, stakes, retiredAt, proposedBy>>

\* Fault: the minimum stake is not checked.
AnyStake(amount) == TRUE
StakeAllowed(amount) == amount >= config.min_stake

RegisterValidator(v, amount) ==
    /\ Deserialises
    /\ stakes[v] = NotStaked
    /\ StakeAllowed(amount)
    /\ vault' = vault + amount
    /\ RentExempt(vault')
    /\ stakes' = [stakes EXCEPT ![v] = amount]
    /\ UNCHANGED <<now, config, treasury, retiredAt, proposedBy>>

\* Fault: the validator account stays open.
UnstakeAndStay(v) ==
    /\ stakes[v] # NotStaked
    /\ stakes[v] <= vault
    /\ vault' = vault - stakes[v]
    /\ RentExempt(vault')
    /\ UNCHANGED <<now, config, treasury, stakes, retiredAt, proposedBy>>

UnstakeValidator(v) ==
    /\ stakes[v] # NotStaked
    /\ stakes[v] <= vault
    /\ vault' = vault - stakes[v]
    /\ RentExempt(vault')
    /\ stakes' = [stakes EXCEPT ![v] = NotStaked]
    /\ UNCHANGED <<now, config, treasury, retiredAt, proposedBy>>

----------------------------------------------------------------------------
(* The program's next-state relation                                       *)

ConfigNext ==
    \/ \E a \in Authorities, s \in Stakes, f \in Fees, k \in Keys :
          InitializeProtocol(a, s, f, k)
    \/ \E a \in Authorities, f \in Fees : UpdateProtocolConfig(a, f)
    \/ \E a \in Authorities, k \in Keys : SetValidatorPubkey(a, k)
    \/ \E a \in Authorities, k \in Keys, g \in Graces :
          RotateValidatorPubkey(a, k, g)
    \/ \E a \in Authorities, p, m \in Projections :
          SetProjectionVersions(a, p, m)

AuthorityNext ==
    \/ \E a \in Authorities, n \in Authorities \cup {NoPubkey} :
          ProposeAuthority(a, n)
    \/ \E a \in Authorities : AcceptAuthority(a)
    \/ \E a \in Authorities : MigrateAdmin(a)

StakeNext ==
    \/ \E v \in Validators, s \in Stakes : RegisterValidator(v, s)
    \/ \E v \in Validators : UnstakeValidator(v)

TreasuryNext ==
    \E a \in Authorities, amount \in 0 .. MaxTreasury :
        WithdrawTreasury(a, amount)

RegistryNext == ConfigNext \/ AuthorityNext \/ StakeNext \/ TreasuryNext

\* What outsiders do to the program's accounts.
Funding ==
    \/ \E amount \in 1 .. MaxTreasury : TreasuryFunded(amount)
    \/ \E amount \in 1 .. MaxVault : VaultFunded(amount)
============================================================================
