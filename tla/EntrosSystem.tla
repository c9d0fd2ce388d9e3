---------------------------- MODULE EntrosSystem ---------------------------
(***************************************************************************)
(* The three programs on one ledger, with the validator service that signs *)
(* receipts, the clock, and what holders and outsiders do by themselves.   *)
(*                                                                         *)
(* An identity moves between wallets, so what happens to it is told along  *)
(* its lineage: a number drawn at its mint and carried by its migrations.  *)
(* The variables below are history: no guard reads them, except through    *)
(* the named bounds.                                                       *)
(***************************************************************************)
EXTENDS EntrosAnchor

CONSTANTS
    MaxLineages,      \* bound: mints, with the inherited identity
    MaxSigned,        \* bound: receipts the validator service signs
    MaxProofs,        \* bound: proofs verified per wallet
    ClockSkew,        \* how far the service's clock may run ahead
    SignedPurposes,   \* purposes it signs for in this instance
    SignedVersions    \* receipt formats it uses in this instance

ASSUME SystemAssumption ==
    /\ MaxLineages \in Nat \ {0}
    /\ MaxSigned \in Nat
    /\ MaxProofs \in Nat
    /\ ClockSkew \in Nat
    /\ SignedPurposes \subseteq Purposes
    /\ SignedVersions \subseteq {1, 2, 4}

VARIABLES
    lineage,    \* the lineage living at each wallet, 0 for none
    born,       \* lineages so far
    ledger,     \* what each lineage has been through
    proofs,     \* proofs each wallet has had verified, and has spent
    uses,       \* every use of a receipt on a lineage
    reused      \* receipts used again on the same lineage

historyVars == <<lineage, born, ledger, proofs, uses, reused>>

vars == <<now, registryVars, verifierVars, anchorVars, signed, historyVars>>

Lineages == 1 .. MaxLineages

NewLife == [earned |-> 0, score |-> 0, resets |-> 0, resetAt |-> 0,
            rebaselines |-> 0, rebasedAt |-> 0]

\* What an inherited identity has been through before the model starts.
EarlierLife(id) ==
    [NewLife EXCEPT !.earned = id.verification_count, !.score = id.trust_score,
                    !.resetAt = id.last_reset_timestamp]

Init ==
    /\ RegistryInit
    /\ VerifierInit
    /\ AnchorInit
    /\ lineage = [w \in Wallets |-> IF Exists(w) THEN 1 ELSE 0]
    /\ born = IF \E w \in Wallets : Exists(w) THEN 1 ELSE 0
    /\ ledger = [l \in Lineages |->
           IF \E w \in Wallets : lineage[w] = l
             THEN EarlierLife(identities[CHOOSE w \in Wallets : lineage[w] = l])
             ELSE NewLife]
    /\ proofs = [w \in Wallets |-> [made |-> 0, spent |-> 0]]
    /\ uses = {}
    /\ reused = {}

----------------------------------------------------------------------------
(* History                                                                 *)

\* Receipt r is presented for lineage l: the first time, or again.
UsedBefore(r, l) == \E u \in uses : u.receipt = r /\ u.lineage = l
Used(r, l) ==
    /\ uses' = uses \cup {[receipt |-> r, lineage |-> l, at |-> now]}
    /\ reused' = IF UsedBefore(r, l) THEN reused \cup {<<r, l>>} ELSE reused

ReceiptHistory == <<uses, reused>>
LifeHistory == <<lineage, born, ledger>>

----------------------------------------------------------------------------
(* The validator service                                                   *)

\* A version 1 receipt has no purpose and no projection version; the update
\* digest is the only version 4 receipt.
WellFormed(r) ==
    /\ r.version = 1 => r.purpose = "Mint" /\ r.projection = 0
    /\ r.version = 4 <=> r.purpose = "Update"

SignReceipt(version, k, purpose, w, c, projection, at) ==
    LET r == [version |-> version, key |-> k, purpose |-> purpose,
              wallet |-> w, commitment |-> c, projection |-> projection,
              validated_at |-> at]
    IN /\ Cardinality(signed) < MaxSigned
       /\ WellFormed(r)
       /\ signed' = signed \cup {r}
       /\ UNCHANGED <<now, registryVars, verifierVars, anchorVars, historyVars>>

----------------------------------------------------------------------------
(* Instructions of entros-anchor                                           *)

AnchorFrame ==
    UNCHANGED <<now, config, vault, stakes, retiredAt, proposedBy,
                challenges, signed>>

Mint(w, c, r) ==
    /\ born < MaxLineages
    /\ MintAnchor(w, c, r)
    /\ AnchorFrame
    /\ born' = born + 1
    /\ lineage' = [lineage EXCEPT ![w] = born + 1]
    /\ Used(r, born + 1)
    /\ UNCHANGED <<ledger, proofs>>

UpdateStep(w, r) ==
    /\ AnchorFrame
    /\ ledger' = [ledger EXCEPT ![lineage[w]].earned = @ + 1,
                                ![lineage[w]].score = identities'[w].trust_score]
    /\ proofs' = [proofs EXCEPT ![w].spent = @ + 1]
    /\ Used(r, lineage[w])
    /\ UNCHANGED <<lineage, born>>

UpdateWithArgument(w, n, r, expected) ==
    UpdateAnchor(w, n, r, expected) /\ UpdateStep(w, r)
UpdateCompact(w, n, r) == UpdateAnchorCompact(w, n, r) /\ UpdateStep(w, r)
UpdateBound(w, n, r) == UpdateAnchorBound(w, n, r) /\ UpdateStep(w, r)

Reset(w, c, p, r) ==
    /\ ResetIdentityState(w, c, p, r)
    /\ AnchorFrame
    /\ ledger' = [ledger EXCEPT ![lineage[w]].earned = 0,
                                ![lineage[w]].score = 0,
                                ![lineage[w]].resets = @ + 1,
                                ![lineage[w]].resetAt = now]
    /\ Used(r, lineage[w])
    /\ UNCHANGED <<lineage, born, proofs>>

Rebaseline(w, c, p, r) ==
    /\ RebaselineAnchor(w, c, p, r)
    /\ AnchorFrame
    /\ ledger' = [ledger EXCEPT ![lineage[w]].rebaselines = @ + 1,
                                ![lineage[w]].rebasedAt = now]
    /\ Used(r, lineage[w])
    /\ UNCHANGED <<lineage, born, proofs>>

Authorize(w, new) ==
    AuthorizeNewWallet(w, new) /\ AnchorFrame /\ UNCHANGED historyVars

Migrate(old, user) ==
    /\ MigrateIdentity(old, user)
    /\ AnchorFrame
    /\ lineage' = [lineage EXCEPT ![user] = lineage[old], ![old] = 0]
    /\ UNCHANGED <<born, ledger, proofs, ReceiptHistory>>

Prepare(w) ==
    PrepareProofRequest(w) /\ AnchorFrame /\ UNCHANGED historyVars

Upgrade(w) ==
    UpgradeIdentityLayout(w) /\ AnchorFrame /\ UNCHANGED historyVars

\* What holders and outsiders do to a token.
HolderStep(w) ==
    /\ \/ TokenBurned(w)
       \/ \E d \in Wallets \cup {NoPubkey} : TokenDelegated(w, d)
       \/ TokenAccountCreated(w) \/ TokenAccountClosed(w)
       \/ MintAddressFunded(w)
    /\ AnchorFrame
    /\ UNCHANGED historyVars

----------------------------------------------------------------------------
(* Instructions of entros-verifier                                         *)

VerifierFrame ==
    UNCHANGED <<now, registryVars, anchorVars, signed, LifeHistory,
                ReceiptHistory>>

ProofMade(w) ==
    /\ proofs[w].made < MaxProofs
    /\ proofs' = [proofs EXCEPT ![w].made = @ + 1]

Verify(w, n, new, prev, h) ==
    VerifyProof(w, n, new, prev, h) /\ ProofMade(w) /\ VerifierFrame

VerifyBound(w, n, new, prev, h, u) ==
    VerifyProofBound(w, n, new, prev, h, u) /\ ProofMade(w) /\ VerifierFrame

CloseResult(w, n) ==
    /\ CloseVerificationResult(w, n) \/ CloseBoundVerificationResult(w, n)
    /\ VerifierFrame
    /\ UNCHANGED proofs

ChallengeStep ==
    ChallengeNext /\ VerifierFrame /\ UNCHANGED proofs

----------------------------------------------------------------------------
(* The whole system                                                        *)

RegistryStep ==
    /\ RegistryNext \/ Funding
    /\ UNCHANGED <<verifierVars, anchorVars, signed, historyVars>>

ClockTick ==
    /\ Tick
    /\ UNCHANGED <<registryVars, verifierVars, anchorVars, signed, historyVars>>

ServiceNext ==
    \E v \in SignedVersions, k \in ValidatorKeys, u \in SignedPurposes,
       w \in Wallets, c \in Commitments, p \in Projections,
       at \in now .. now + ClockSkew :
        SignReceipt(v, k, u, w, c, p, at)

UpdateNext ==
    \E w \in Wallets, n \in Nonces, r \in signed :
        \/ \E c \in AnyCommitment : UpdateWithArgument(w, n, r, c)
        \/ UpdateCompact(w, n, r)
        \/ UpdateBound(w, n, r)

RecoveryNext ==
    \E w \in Wallets, c \in AnyCommitment, p \in Projections, r \in signed :
        Reset(w, c, p, r) \/ Rebaseline(w, c, p, r)

AnchorNext ==
    \/ \E w \in Wallets, c \in AnyCommitment, r \in signed : Mint(w, c, r)
    \/ UpdateNext
    \/ RecoveryNext
    \/ \E w, new \in Wallets : Authorize(w, new) \/ Migrate(w, new)
    \/ \E w \in Wallets : Prepare(w) \/ Upgrade(w) \/ HolderStep(w)

ProofNext ==
    \E w \in Wallets, n \in Nonces :
        \/ \E new, prev \in AnyCommitment, h \in HammingInputs :
              Verify(w, n, new, prev, h)
        \/ \E new, prev \in AnyCommitment, h \in HammingInputs,
              u \in now .. now + MaxRequestLifetime + 1 :
              VerifyBound(w, n, new, prev, h, u)
        \/ CloseResult(w, n)

Next ==
    \/ RegistryStep
    \/ ServiceNext
    \/ AnchorNext
    \/ ProofNext
    \/ ChallengeStep
    \/ ClockTick

Spec == Init /\ [][Next]_vars
============================================================================
