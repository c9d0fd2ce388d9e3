---------------------------- MODULE ConfigPolicy ---------------------------
(***************************************************************************)
(* How entros-anchor reads the registry's ProtocolConfig account: raw      *)
(* bytes behind length guards, so a short account yields "no validator     *)
(* key", projection versions (0, 0) and no fee.                            *)
(***************************************************************************)
EXTENDS EntrosRegistry

\* ValidatorKeyPolicy::is_configured.  An all-zero primary key fails closed.
IsConfigured == config.validator_pubkey # NoPubkey

\* Fault: the secondary key is accepted past its expiry.
AcceptsForever(k) ==
    k \in {config.validator_pubkey, config.secondary_validator_pubkey}

\* ValidatorKeyPolicy::accepts
Accepts(k) ==
    \/ k = config.validator_pubkey
    \/ /\ config.secondary_validator_pubkey # NoPubkey
       /\ now <= config.secondary_validator_valid_until
       /\ k = config.secondary_validator_pubkey

\* A receipt signed by k passes load_preceding_ed25519_receipt's key checks.
SignerAccepted(k) == IsConfigured /\ Accepts(k)

\* read_projection_policy refuses an inverted window.
PolicyReadable ==
    config.minimum_supported_projection_version
        <= config.current_projection_version

CurrentProjection == config.current_projection_version

\* validate_identity_projection
ProjectionSupported(version) ==
    /\ version >= config.minimum_supported_projection_version
    /\ version <= config.current_projection_version

\* validate_requested_projection
ProjectionRequested(version) == version = config.current_projection_version
============================================================================
