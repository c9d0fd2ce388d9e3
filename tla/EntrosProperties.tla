-------------------------- MODULE EntrosProperties -------------------------
(***************************************************************************)
(* What the three programs together must keep true.                        *)
(***************************************************************************)
EXTENDS EntrosSystem

LifeRecords ==
    [earned : Nat, score : Nat, resets : Nat, resetAt : Stamps,
     rebaselines : Nat, rebasedAt : Stamps]

HistoryTypeOK ==
    /\ lineage \in [Wallets -> 0 .. MaxLineages]
    /\ born \in 0 .. MaxLineages
    /\ ledger \in [Lineages -> LifeRecords]
    /\ proofs \in [Wallets -> [made : Nat, spent : Nat]]

\* Every account holds what its type allows, and the histories are sane.
TypeOK == RegistryTypeOK /\ VerifierTypeOK /\ AnchorTypeOK /\ HistoryTypeOK

----------------------------------------------------------------------------
(* Identity and reputation                                                 *)

\* A lineage lives at one wallet at a time: migrating moves it whole, closes
\* the old account in the same step and never leaves two copies.
LivesAtOneWallet ==
    /\ \A w \in Wallets : Exists(w) <=> lineage[w] # 0
    /\ \A w, x \in Wallets : lineage[w] = lineage[x] /\ w # x => lineage[w] = 0

\* The reputation of an account is the reputation its lineage earned: one
\* count per update since the last reset, the score that the last of them
\* wrote, and the times of the last reset and rebaseline, whatever wallets it
\* has moved through.
ReputationIsEarned ==
    \A w \in Wallets :
        Exists(w) =>
            LET life == ledger[lineage[w]]
            IN /\ identities[w].verification_count = life.earned
               /\ identities[w].trust_score = life.score
               /\ identities[w].last_reset_timestamp = life.resetAt
               /\ identities[w].last_rebaseline_timestamp = life.rebasedAt

\* The timestamps of an account are ordered, and its activity ring holds
\* only activity of the present life: nothing from before the mint or the
\* last reset, nothing later than the last verification.
LifeInOrder ==
    \A w \in Wallets :
        Exists(w) =>
            LET id == identities[w]
            IN /\ id.creation_timestamp <= id.last_verification_timestamp
               /\ id.last_verification_timestamp <= now
               /\ id.last_reset_timestamp <= id.last_verification_timestamp
               /\ id.last_rebaseline_timestamp <= id.last_verification_timestamp
               /\ \A e \in RingEntries(id.recent_timestamps) \ {0} :
                      /\ e >= id.creation_timestamp
                      /\ e >= id.last_reset_timestamp
                      /\ e <= id.last_verification_timestamp
               /\ id.verification_count = 0 <=> id.recent_timestamps[1] = 0

\* A lineage is reset, and rebaselined, at most once per cooldown, however
\* often it moves between wallets in the meantime.
CooldownsHold ==
    [][\A l \in Lineages :
          /\ ledger'[l].resets > ledger[l].resets =>
                now - ledger[l].resetAt >= ResetCooldown
          /\ ledger'[l].rebaselines > ledger[l].rebaselines =>
                now - ledger[l].rebasedAt >= RebaselineCooldown]_vars

----------------------------------------------------------------------------
(* Proofs and receipts                                                     *)

\* Each accepted proof is spent by at most one update: what is spent and what
\* is still open never exceed what was made.
OpenResults(w) ==
    {n \in Nonces : results[<<w, n>>].open \/ boundResults[<<w, n>>].open}
NoProofSpentTwice ==
    \A w \in Wallets :
        proofs[w].spent + Cardinality(OpenResults(w)) <= proofs[w].made

\* A receipt is used again on the same identity only if it is an update
\* receipt that was used in the very second it was signed for.
ReceiptReuseBounded ==
    \A again \in reused :
        LET r == again[1]
        IN /\ r.purpose = "Update"
           /\ \E u \in uses :
                 u.receipt = r /\ u.lineage = again[2] /\ u.at = r.validated_at

\* A receipt stops working at most the maximum grace period after the key
\* that signed it was replaced, whatever the order of signing, rotations and
\* use.
RetiredKeysFade ==
    \A u \in uses :
        \/ u.receipt.key = config.validator_pubkey
        \/ u.at <= retiredAt[u.receipt.key] + MaxGrace

\* The claim of update_anchor's comment: closing the result and advancing
\* the commitment and the last verification time make a receipt single-use.
ReceiptSingleUse == reused = {}

----------------------------------------------------------------------------
(* Projection versions                                                     *)

\* No account is ahead of the policy that its next update is checked against.
ProjectionNeverAhead ==
    \A w \in Wallets :
        identities[w].projection_version <= CurrentProjection

\* Along a lineage the projection version only moves forward, and only to the
\* version that is current in that step.
ProjectionAdvances ==
    [][\A w, x \in Wallets :
          (lineage[w] # 0 /\ lineage'[x] = lineage[w]) =>
              \/ identities'[x].projection_version
                    = identities[w].projection_version
              \/ /\ identities'[x].projection_version = CurrentProjection
                 /\ CurrentProjection > identities[w].projection_version]_vars
============================================================================
