--------------------------- MODULE HolderProgress --------------------------
(***************************************************************************)
(* Can a holder that keeps trying always get on?  The instructions of the  *)
(* three programs, the authority's policy changes and the clock, driven by *)
(* holders that ask the validator service for a receipt of each kind, keep *)
(* the newest, and retry: results expire, receipts grow old or lose their  *)
(* key, requests are overtaken by other instructions of the same wallet.   *)
(***************************************************************************)
EXTENDS EntrosAnchor

CONSTANT
    Wanted      \* purposes holders ask receipts for in this instance

ASSUME ProgressAssumption == Wanted \subseteq Purposes

vars == <<now, registryVars, verifierVars, anchorVars, signed>>

Init == RegistryInit /\ VerifierInit /\ AnchorInit

----------------------------------------------------------------------------
(* The environment                                                         *)

\* The service answers with its present key, for the versions in force.
Answer(w, c, purpose) ==
    [version |-> IF purpose = "Update" THEN 4 ELSE 2,
     key |-> config.validator_pubkey, purpose |-> purpose, wallet |-> w,
     commitment |-> c,
     projection |-> IF purpose = "Update"
                      THEN identities[w].projection_version
                      ELSE CurrentProjection,
     validated_at |-> now]

\* A holder keeps the newest receipt it got for each purpose.
Ask(w, c, purpose) ==
    /\ purpose \in Wanted
    /\ IsConfigured
    /\ signed' = {r \in signed : r.wallet # w \/ r.purpose # purpose}
                     \cup {Answer(w, c, purpose)}
    /\ UNCHANGED <<now, registryVars, verifierVars, anchorVars>>

\* Bound: the window stays while a cooldown could outlast the clock.
WindowMoves == now + RebaselineCooldown <= Genesis + Horizon

\* The authority raises the projection window, shutting out every identity
\* behind it; it rotates the key and sets the fee.
Policy ==
    /\ \E a \in Authorities :
          \/ /\ WindowMoves
             /\ \E p \in Projections : SetProjectionVersions(a, p, p)
          \/ \E k \in ValidatorKeys, g \in Graces :
                k # config.validator_pubkey /\ RotateValidatorPubkey(a, k, g)
          \/ \E f \in Fees : UpdateProtocolConfig(a, f)
    /\ UNCHANGED <<verifierVars, anchorVars, signed>>

\* Somebody gives an empty treasury its rent minimum.  Of all payments from
\* outside only this one is needed here, and the rest of the bound is left to
\* the fees.
Funded ==
    /\ treasury = 0
    /\ TreasuryFunded(RentMin)
    /\ UNCHANGED <<verifierVars, anchorVars, signed>>

ClockTick ==
    Tick /\ UNCHANGED <<registryVars, verifierVars, anchorVars, signed>>

----------------------------------------------------------------------------
(* The holders' instructions                                               *)

AnchorFrame ==
    UNCHANGED <<now, config, vault, stakes, retiredAt, proposedBy,
                challenges, signed>>
VerifierFrame == UNCHANGED <<now, registryVars, anchorVars, signed>>

Mint(w) ==
    /\ \E c \in Commitments, r \in signed : MintAnchor(w, c, r)
    /\ AnchorFrame

Update(w) ==
    /\ \E n \in Nonces, r \in signed :
          UpdateAnchorCompact(w, n, r) \/ UpdateAnchorBound(w, n, r)
    /\ AnchorFrame

Reset(w) ==
    /\ \E c \in Commitments, r \in signed :
          ResetIdentityState(w, c, CurrentProjection, r)
    /\ AnchorFrame

Rebaseline(w) ==
    /\ \E c \in Commitments, r \in signed :
          RebaselineAnchor(w, c, CurrentProjection, r)
    /\ AnchorFrame

Move(w) ==
    /\ \E x \in Wallets \ {w} : AuthorizeNewWallet(w, x) \/ MigrateIdentity(w, x)
    /\ AnchorFrame

Prepare(w) == PrepareProofRequest(w) /\ AnchorFrame
Upgrade(w) == UpgradeIdentityLayout(w) /\ AnchorFrame
CloseToken(w) == TokenAccountClosed(w) /\ AnchorFrame
OpenToken(w) == TokenAccountCreated(w) /\ AnchorFrame
Burn(w) == TokenBurned(w) /\ AnchorFrame

\* Anyone may fund the address of a mint that does not exist.
FundMint(w) == MintAddressFunded(w) /\ AnchorFrame

Verify(w) ==
    /\ \E n \in Nonces, new \in Commitments, h \in HammingInputs :
          LET prev == identities[w].current_commitment
          IN /\ new # prev
             /\ \/ VerifyProof(w, n, new, prev, h)
                \/ VerifyProofBound(w, n, new, prev, h,
                                    now + MaxRequestLifetime)
    /\ VerifierFrame

\* A result that the identity can no longer spend occupies its nonce.
Spendable(w, n) ==
    \/ /\ ResultUsable(w, n)
       /\ results[<<w, n>>].commitment_prev = identities[w].current_commitment
    \/ BoundResultUsable(w, n)

CloseDead(w) ==
    /\ \E n \in Nonces :
          /\ ~Spendable(w, n)
          /\ \/ CloseVerificationResult(w, n)
             \/ CloseBoundVerificationResult(w, n)
    /\ VerifierFrame

----------------------------------------------------------------------------
(* What a holder asks the service for: a receipt for its next step         *)

AskMint(w) == ~Exists(w) /\ \E c \in Commitments : Ask(w, c, "Mint")

AskRebaseline(w) ==
    /\ Exists(w)
    /\ identities[w].projection_version < CurrentProjection
    /\ \E c \in Commitments : Ask(w, c, "Rebaseline")

AskUpdate(w) ==
    \E n \in Nonces :
        /\ Spendable(w, n)
        /\ Ask(w, IF RequestBound THEN boundResults[<<w, n>>].commitment_new
                                  ELSE results[<<w, n>>].commitment_new, "Update")

AskReset(w) == Exists(w) /\ \E c \in Commitments : Ask(w, c, "Reset")

\* An identity whose layout only a reset or a rebaseline grows.
Old(w) == RequestBound /\ Exists(w) /\ identities[w].layout < 543

HolderNext ==
    \E w \in Wallets :
        \/ Mint(w) \/ Update(w) \/ Reset(w) \/ Rebaseline(w) \/ Move(w)
        \/ Prepare(w) \/ Upgrade(w)
        \/ CloseToken(w) \/ OpenToken(w) \/ Burn(w)
        \/ Verify(w) \/ CloseDead(w)
        \/ AskMint(w) \/ AskRebaseline(w) \/ AskUpdate(w) \/ AskReset(w)

Next ==
    \/ HolderNext
    \/ \E w \in Wallets : FundMint(w)
    \/ Policy \/ Funded \/ ClockTick

Spec == Init /\ [][Next]_vars

\* A holder without an identity, or with one that is behind, takes each step
\* that stays possible.  An identity may change wallets for ever: its
\* rebaseline is possible again and again without staying possible at one
\* wallet.
RecoveryFairness ==
    /\ WF_vars(ClockTick)
    /\ WF_vars(Funded)
    /\ \A w \in Wallets :
          /\ WF_vars(AskMint(w)) /\ WF_vars(Mint(w))
          /\ WF_vars(~Exists(w) /\ CloseToken(w))
    /\ SF_vars(\E w \in Wallets : AskRebaseline(w))
    /\ SF_vars(\E w \in Wallets : Rebaseline(w))
RecoverySpec == Spec /\ RecoveryFairness

\* A holder that wants an update takes each step towards it.
RequestFairness ==
    /\ WF_vars(ClockTick)
    /\ WF_vars(Funded)
    /\ \A w \in Wallets :
          /\ WF_vars(Prepare(w)) /\ WF_vars(Upgrade(w))
          /\ WF_vars(Old(w) /\ AskReset(w)) /\ WF_vars(Old(w) /\ Reset(w))
          /\ WF_vars(Verify(w)) /\ WF_vars(CloseDead(w))
          /\ WF_vars(AskUpdate(w)) /\ WF_vars(Update(w))
RequestSpec == Spec /\ RequestFairness

----------------------------------------------------------------------------
(* Liveness                                                                *)

\* Raising the minimum version shuts identities out of updates; a holder that
\* keeps asking to rebaseline gets back in, with the reputation it had.
Stuck == {w \in Wallets :
              Exists(w) /\ ~ProjectionSupported(identities[w].projection_version)}
StuckRecover == (Stuck # {}) ~> (Stuck = {})

\* In the default build a wallet that an identity moved away from is left with
\* a token account that makes a mint or a migration to it fail; its holder can
\* always clear it and have an identity again, unless somebody has meanwhile
\* sent lamports to the address of its mint, which nothing clears.
VacatedWalletReusable ==
    \A w \in Wallets : ~Exists(w) ~> (Exists(w) \/ tokens[w].funded)

\* An identity, even one that an earlier release created, always gets its
\* first update counted: whatever became of results, receipts and counters.
\* MaxCounter stands for 2^64 - 1 and ends the claim.
FirstUpdateCounts ==
    \A w \in Wallets :
        Exists(w) ~> \/ identities[w].verification_count > 0
                     \/ ~Exists(w)
                     \/ requests[w].counter = MaxCounter
============================================================================
