---------------------------- MODULE EntrosAnchor ---------------------------
(***************************************************************************)
(* The entros-anchor program: identities, their soulbound tokens, and the  *)
(* per-wallet request counters of the request-bound-v1 build.              *)
(*                                                                         *)
(* Every instruction that gives an identity a commitment needs a receipt   *)
(* that a validator key signed, presented as the Ed25519 instruction just  *)
(* before it.  `signed` is the set of receipts that exist; an instruction  *)
(* may present any of them, as often as it likes.                          *)
(*                                                                         *)
(* PDAs are indexed by the wallet that seeds them.  An identity whose      *)
(* layout is 0 does not exist; one shorter than CurrentIdentityLen was     *)
(* created by an earlier release and is grown by the first handler that    *)
(* can read it raw.                                                        *)
(***************************************************************************)
EXTENDS EntrosVerifier, ActivityRing

CONSTANTS
    MaxProofAge,          \* MAX_PROOF_AGE_SECS
    MaxReceiptAge,        \* MAX_RECEIPT_AGE_SECS
    ResetCooldown,        \* RESET_COOLDOWN_SECS
    RebaselineCooldown,   \* REBASELINE_COOLDOWN_SECS
    MaxCounter,           \* largest request counter (u64::MAX)
    MaxCount,             \* largest verification count (u32::MAX)
    OldIdentityLens,      \* layouts an inherited identity may have
    OldLives              \* counts and reset times it may have

ASSUME AnchorAssumption ==
    /\ MaxProofAge \in Nat
    /\ MaxReceiptAge \in Nat
    /\ ResetCooldown \in Nat /\ ResetCooldown <= Genesis
    /\ MaxReceiptAge < ResetCooldown    \* 300 s and seven days
    /\ RebaselineCooldown \in Nat /\ RebaselineCooldown <= Genesis
    /\ MaxCounter \in Nat
    /\ MaxCount \in Nat
    /\ OldIdentityLens \subseteq 1 .. CurrentIdentityLen
    /\ OldLives \subseteq [count : 0 .. MaxCount, resetAt : {0, Genesis}]

VARIABLES
    tokens,     \* mint PDA and associated token account, by wallet
    signed      \* receipts the validator service has signed

anchorVars == <<identities, requests, tokens>>

Layouts == {0, CurrentIdentityLen} \cup OldIdentityLens

Purposes == {"Mint", "Rebaseline", "Reset", "Update"}

\* The receipt formats: 1 has neither purpose nor projection version, 2
\* stands for the 103- and 136-byte formats (the longer one adds a session
\* that only reaches an event), 4 is the digest form of an update.
Receipts ==
    [version : {1, 2, 4}, key : ValidatorKeys, purpose : Purposes,
     wallet : Wallets, commitment : Commitments, projection : Projections,
     validated_at : Nat]

Identities ==
    [layout : Layouts, owner : Wallets \cup {NoPubkey},
     creation_timestamp : Stamps, last_verification_timestamp : Stamps,
     verification_count : 0 .. MaxCount, trust_score : 0 .. MaxTrustScore,
     current_commitment : AnyCommitment,
     recent_timestamps : [1 .. RingLen -> Stamps],
     last_reset_timestamp : Stamps, new_wallet : Wallets \cup {NoPubkey},
     projection_version : Projections, last_rebaseline_timestamp : Stamps]

NoIdentity ==
    [layout |-> 0, owner |-> NoPubkey, creation_timestamp |-> 0,
     last_verification_timestamp |-> 0, verification_count |-> 0,
     trust_score |-> 0, current_commitment |-> NoCommitment,
     recent_timestamps |-> EmptyRing, last_reset_timestamp |-> 0,
     new_wallet |-> NoPubkey, projection_version |-> 0,
     last_rebaseline_timestamp |-> 0]

\* mint: the mint PDA exists; funded: it does not, but its address holds
\* lamports; ata: the associated token account exists, with `amount` tokens
\* and a delegate that may move or burn one of them.
Tokens == [mint : BOOLEAN, funded : BOOLEAN, ata : BOOLEAN, amount : 0 .. 1,
           delegate : Wallets \cup {NoPubkey}]

NoToken == [mint |-> FALSE, funded |-> FALSE, ata |-> FALSE, amount |-> 0,
            delegate |-> NoPubkey]
FreshToken == [mint |-> TRUE, funded |-> FALSE, ata |-> TRUE, amount |-> 1,
               delegate |-> NoPubkey]

NoRequest == [version |-> 0, counter |-> 0]

AnchorTypeOK ==
    /\ identities \in [Wallets -> Identities]
    /\ requests \in [Wallets -> [version : {0, 1}, counter : 0 .. MaxCounter]]
    /\ tokens \in [Wallets -> Tokens]
    /\ signed \subseteq Receipts

\* An identity that was there before the model starts, minted at Genesis and
\* then reset, verified `count` times, or both, as `life` says.  It was never
\* rebaselined (the inherited configs are at version 0) and no wallet is
\* authorised to take it; layouts below 551 have no reset time.
LifeFits(life, len) == life.resetAt = 0 \/ len >= 551
InheritedIdentity(w, c, len, life) ==
    LET ring == IF life.count = 0 THEN EmptyRing
                ELSE RecordVerification(EmptyRing, Genesis)
    IN [NoIdentity EXCEPT !.layout = len, !.owner = w,
            !.creation_timestamp = Genesis,
            !.last_verification_timestamp = Genesis,
            !.verification_count = life.count,
            !.trust_score =
                IF life.count = 0 THEN 0
                ELSE TrustScore(RingEntries(ring), Genesis, Genesis),
            !.current_commitment = c,
            !.recent_timestamps = ring,
            !.last_reset_timestamp = life.resetAt]

AnchorInit ==
    /\ requests = [w \in Wallets |-> NoRequest]
    /\ signed = {}
    /\ \/ /\ identities = [w \in Wallets |-> NoIdentity]
          /\ tokens = [w \in Wallets |-> NoToken]
       \/ \E u \in Wallets, c \in Commitments, len \in OldIdentityLens,
             life \in OldLives :
             /\ LifeFits(life, len)
             /\ identities = [w \in Wallets |->
                    IF w = u THEN InheritedIdentity(w, c, len, life)
                    ELSE NoIdentity]
             /\ tokens = [w \in Wallets |->
                    IF w = u THEN FreshToken ELSE NoToken]

Exists(w) == identities[w].layout # 0

\* Handlers that read the account raw resize it first.
GrownIdentity(id) == [id EXCEPT !.layout = CurrentIdentityLen]

\* Account<IdentityState> fails to deserialise a shorter layout.
Readable(w) == identities[w].layout = CurrentIdentityLen

----------------------------------------------------------------------------
(* Receipts                                                                *)

\* load_preceding_ed25519_receipt: one of the formats the handler allows,
\* signed by a key the config accepts now.
ReceiptLoaded(r, versions) ==
    /\ r \in signed
    /\ r.version \in versions
    /\ SignerAccepted(r.key)

ReceiptTimely(r) ==
    /\ r.validated_at <= now
    /\ now - r.validated_at <= MaxReceiptAge

\* verify_validator_receipt: mint, reset and rebaseline
ReceiptAccepted(r, w, c, purpose, projection) ==
    /\ ReceiptLoaded(r, {1, 2})
    /\ \/ r.version = 1 /\ purpose = "Mint" /\ projection = 0
       \/ r.version = 2 /\ r.purpose = purpose /\ r.projection = projection
    /\ r.wallet = w
    /\ r.commitment = c
    /\ ReceiptTimely(r)

\* verify_update_receipt_digest: the digest is rebuilt from the wallet, the
\* proof's new commitment and the identity's own projection version.
UpdateReceiptAccepted(r, w, c, projection) ==
    /\ ReceiptLoaded(r, {4})
    /\ r.purpose = "Update"
    /\ r.wallet = w
    /\ r.commitment = c
    /\ r.projection = projection
    /\ ReceiptTimely(r)

----------------------------------------------------------------------------
(* Pieces the instructions share                                           *)

\* The fee transfer to the treasury, skipped when the fee is zero.
FeeCharged(fee) ==
    \/ fee = 0 /\ UNCHANGED treasury
    \/ /\ fee > 0
       /\ treasury + fee <= MaxTreasury
       /\ Pay(fee)

\* Fault: the counter is created and checked but not advanced.
NotAdvanced(request) == [version |-> 1, counter |-> request.counter]

\* proof_request::advance creates a missing account with counter 0 first.
Advanced(request) == [version |-> 1, counter |-> request.counter + 1]

\* Fault: only the account of a wallet that has no identity yet is advanced.
NewCountersAdvanced(ws) ==
    IF RequestBound
      THEN requests' = [w \in Wallets |->
               IF w \in ws /\ identities[w].layout = 0
                 THEN Advanced(requests[w]) ELSE requests[w]]
      ELSE UNCHANGED requests

\* Only the request-bound build advances the counters of these wallets.
CountersAdvanced(ws) ==
    IF RequestBound
      THEN /\ \A w \in ws : requests[w].counter < MaxCounter
           /\ requests' = [w \in Wallets |->
                  IF w \in ws THEN Advanced(requests[w]) ELSE requests[w]]
      ELSE UNCHANGED requests

\* The mint PDA is created with the plain create_account, which fails when the
\* account exists and also when its address merely holds lamports.  The
\* default build's ATA creation fails when the account exists; the bound
\* build's is idempotent.  Minting adds one token to whatever it holds.
TokenMintable(w) ==
    /\ ~tokens[w].mint /\ ~tokens[w].funded
    /\ ~RequestBound => ~tokens[w].ata

MintedToken(w) ==
    [mint |-> TRUE, funded |-> FALSE, ata |-> TRUE,
     amount |-> tokens[w].amount + 1, delegate |-> tokens[w].delegate]

----------------------------------------------------------------------------
(* Request counters and layout                                             *)

PrepareProofRequest(w) ==
    /\ RequestBound
    /\ requests' = [requests EXCEPT ![w].version = 1]
    /\ UNCHANGED <<identities, tokens, results, boundResults, treasury>>

UpgradeIdentityLayout(w) ==
    /\ RequestBound
    /\ identities[w].layout >= 543
    /\ identities[w].owner = w
    /\ identities' = [identities EXCEPT ![w] = GrownIdentity(@)]
    /\ UNCHANGED <<requests, tokens, results, boundResults, treasury>>

----------------------------------------------------------------------------
(* Mint                                                                    *)

MintedIdentity(w, c) ==
    [NoIdentity EXCEPT !.layout = CurrentIdentityLen, !.owner = w,
         !.creation_timestamp = now, !.last_verification_timestamp = now,
         !.current_commitment = c, !.projection_version = CurrentProjection]

MintAnchor(w, c, r) ==
    /\ ~Exists(w)
    /\ CountersAdvanced({w})
    /\ c # NoCommitment
    /\ TokenMintable(w)
    /\ config.layout # 0
    /\ PolicyReadable
    /\ ReceiptAccepted(r, w, c, "Mint", CurrentProjection)
    /\ tokens' = [tokens EXCEPT ![w] = MintedToken(w)]
    /\ identities' = [identities EXCEPT ![w] = MintedIdentity(w, c)]
    /\ FeeCharged(config.verification_fee)
    /\ UNCHANGED <<results, boundResults>>

----------------------------------------------------------------------------
(* Update                                                                  *)

\* The checks of process_anchor_update before it looks at the proof.
UpdateReady(w) ==
    /\ Exists(w)
    /\ identities[w].owner = w
    /\ config.layout >= 69
    /\ PolicyReadable
    /\ ProjectionSupported(identities[w].projection_version)

\* The default build's result: opened by this wallet, recent.
ResultUsable(w, n) ==
    /\ results[<<w, n>>].open
    /\ results[<<w, n>>].verified_at <= now
    /\ now - results[<<w, n>>].verified_at <= MaxProofAge

\* The bound build's result: made for the wallet's present counter, before
\* its deadline, and with the digest that the account's own fields and the
\* present identity give.
BoundResultUsable(w, n) ==
    LET result == boundResults[<<w, n>>]
    IN /\ result.open
       /\ CounterReadable(w)
       /\ result.counter = requests[w].counter
       /\ result.verified_at <= now
       /\ result.valid_until >= now /\ result.valid_until > 0
       /\ Encodable(result.commitment_new, result.commitment_prev,
                    result.bounds, result.valid_until)
       /\ result.request_digest =
              RequestDigest(w, n, requests[w].counter,
                            identities[w].projection_version,
                            result.commitment_new, result.commitment_prev,
                            result.bounds, result.valid_until)

\* Faults: the receipt is not compared with the last verification, or the
\* count may overflow.
UpdateAllowedForOldReceipt(w, new, prev, r) ==
    LET id == identities[w]
    IN /\ prev = id.current_commitment
       /\ new # prev
       /\ UpdateReceiptAccepted(r, w, new, id.projection_version)
       /\ id.verification_count < MaxCount
UpdateAllowedUncounted(w, new, prev, r) ==
    LET id == identities[w]
    IN /\ prev = id.current_commitment
       /\ new # prev
       /\ UpdateReceiptAccepted(r, w, new, id.projection_version)
       /\ r.validated_at >= id.last_verification_timestamp

\* The chain and receipt checks that follow, the same in both builds.
UpdateAllowed(w, new, prev, r) ==
    LET id == identities[w]
    IN /\ new # NoCommitment
       /\ prev = id.current_commitment
       /\ new # prev
       /\ UpdateReceiptAccepted(r, w, new, id.projection_version)
       /\ r.validated_at >= id.last_verification_timestamp
       /\ id.verification_count < MaxCount

UpdatedIdentity(w, new) ==
    LET id == identities[w]
        ring == RecordVerification(id.recent_timestamps, now)
    IN [GrownIdentity(id) EXCEPT
            !.current_commitment = new,
            !.verification_count = @ + 1,
            !.last_verification_timestamp = now,
            !.recent_timestamps = ring,
            !.trust_score =
                TrustScore(RingEntries(ring), id.creation_timestamp, now)]

\* update_anchor_compact; update_anchor passes the commitment it expects.
UpdateAnchorCompact(w, n, r) ==
    /\ ~RequestBound
    /\ UpdateReady(w)
    /\ ResultUsable(w, n)
    /\ UpdateAllowed(w, results[<<w, n>>].commitment_new,
                     results[<<w, n>>].commitment_prev, r)
    /\ ResultClosed(w, n)
    /\ identities' = [identities EXCEPT
           ![w] = UpdatedIdentity(w, results[<<w, n>>].commitment_new)]
    /\ FeeCharged(config.verification_fee)
    /\ UNCHANGED <<requests, tokens, boundResults>>

UpdateAnchor(w, n, r, expected) ==
    /\ expected # NoCommitment
    /\ results[<<w, n>>].commitment_new = expected
    /\ UpdateAnchorCompact(w, n, r)

UpdateAnchorBound(w, n, r) ==
    /\ RequestBound
    /\ UpdateReady(w)
    /\ BoundResultUsable(w, n)
    /\ CountersAdvanced({w})
    /\ UpdateAllowed(w, boundResults[<<w, n>>].commitment_new,
                     boundResults[<<w, n>>].commitment_prev, r)
    /\ BoundResultClosed(w, n)
    /\ identities' = [identities EXCEPT
           ![w] = UpdatedIdentity(w, boundResults[<<w, n>>].commitment_new)]
    /\ FeeCharged(config.verification_fee)
    /\ UNCHANGED <<tokens, results>>

----------------------------------------------------------------------------
(* Reset and rebaseline                                                    *)

\* Faults: the ring, or the count, survives the reset.
ResetKeepingRing(w, c) ==
    [GrownIdentity(identities[w]) EXCEPT
        !.current_commitment = c,
        !.verification_count = 0,
        !.trust_score = 0,
        !.last_verification_timestamp = now,
        !.last_reset_timestamp = now,
        !.projection_version = CurrentProjection]
ResetKeepingCount(w, c) ==
    [GrownIdentity(identities[w]) EXCEPT
        !.current_commitment = c,
        !.trust_score = 0,
        !.recent_timestamps = EmptyRing,
        !.last_verification_timestamp = now,
        !.last_reset_timestamp = now,
        !.projection_version = CurrentProjection]

ResetIdentity(w, c) ==
    [GrownIdentity(identities[w]) EXCEPT
        !.current_commitment = c,
        !.verification_count = 0,
        !.trust_score = 0,
        !.recent_timestamps = EmptyRing,
        !.last_verification_timestamp = now,
        !.last_reset_timestamp = now,
        !.projection_version = CurrentProjection]

ResetIdentityState(w, c, projection, r) ==
    /\ CountersAdvanced({w})
    /\ c # NoCommitment
    /\ Exists(w)
    /\ identities[w].owner = w
    /\ now - identities[w].last_reset_timestamp >= ResetCooldown
    /\ config.layout # 0
    /\ PolicyReadable
    /\ ProjectionRequested(projection)
    /\ ReceiptAccepted(r, w, c, "Reset", CurrentProjection)
    /\ identities' = [identities EXCEPT ![w] = ResetIdentity(w, c)]
    /\ FeeCharged(config.verification_fee)
    /\ UNCHANGED <<tokens, results, boundResults>>

\* Fault: the version is incremented instead of set.
RebaselinedByOne(w, c) ==
    [GrownIdentity(identities[w]) EXCEPT
        !.current_commitment = c,
        !.projection_version = @ + 1,
        !.last_rebaseline_timestamp = now,
        !.last_verification_timestamp = now]

\* The history and the score stay; only the commitment changes space.
RebaselinedIdentity(w, c) ==
    [GrownIdentity(identities[w]) EXCEPT
        !.current_commitment = c,
        !.projection_version = CurrentProjection,
        !.last_rebaseline_timestamp = now,
        !.last_verification_timestamp = now]

\* Fault: the identity must be one that could still update.
RebaselineDueIfSupported(w) ==
    /\ ProjectionSupported(identities[w].projection_version)
    /\ identities[w].projection_version < CurrentProjection
    /\ now - identities[w].last_rebaseline_timestamp >= RebaselineCooldown

\* The identity is behind the current version, and its cooldown is over.
RebaselineDue(w) ==
    /\ identities[w].projection_version < CurrentProjection
    /\ now - identities[w].last_rebaseline_timestamp >= RebaselineCooldown

RebaselineAnchor(w, c, projection, r) ==
    /\ CountersAdvanced({w})
    /\ c # NoCommitment
    /\ Exists(w)
    /\ identities[w].owner = w
    /\ config.layout # 0
    /\ PolicyReadable
    /\ ProjectionRequested(projection)
    /\ RebaselineDue(w)
    /\ ReceiptAccepted(r, w, c, "Rebaseline", CurrentProjection)
    /\ identities' = [identities EXCEPT ![w] = RebaselinedIdentity(w, c)]
    /\ FeeCharged(config.verification_fee)
    /\ UNCHANGED <<tokens, results, boundResults>>

----------------------------------------------------------------------------
(* Moving an identity to another wallet                                    *)

\* Both wallets sign; the new one becomes the token's delegate.
AuthorizeNewWallet(w, new) ==
    /\ Readable(w)
    /\ tokens[w].mint /\ tokens[w].ata
    /\ identities' = [identities EXCEPT ![w].new_wallet = new]
    /\ tokens' = [tokens EXCEPT ![w].delegate = new]
    /\ UNCHANGED <<requests, results, boundResults, treasury>>

\* Faults: a field is not copied: the cooldown's timestamp, the count, the
\* score, or the ring.
MigratedWithoutReset(old, user) ==
    [identities[old] EXCEPT !.owner = user, !.new_wallet = NoPubkey,
                            !.last_reset_timestamp = 0]
MigratedWithoutCount(old, user) ==
    [identities[old] EXCEPT !.owner = user, !.new_wallet = NoPubkey,
                            !.verification_count = 0]
MigratedWithoutScore(old, user) ==
    [identities[old] EXCEPT !.owner = user, !.new_wallet = NoPubkey,
                            !.trust_score = 0]
MigratedWithoutRing(old, user) ==
    [identities[old] EXCEPT !.owner = user, !.new_wallet = NoPubkey,
                            !.recent_timestamps = EmptyRing]

\* Everything but the owner, the mint and the authorised wallet is copied.
MigratedIdentity(old, user) ==
    [identities[old] EXCEPT !.owner = user, !.new_wallet = NoPubkey]

\* The old account is closed in the same instruction.
\* Fault: it stays open.
IdentityCopied(old, user) ==
    [identities EXCEPT ![user] = MigratedIdentity(old, user)]
IdentityMoved(old, user) ==
    [identities EXCEPT ![user] = MigratedIdentity(old, user),
                       ![old] = NoIdentity]

\* The new wallet burns the old token as its delegate.  Spending the
\* delegation clears it, and the empty token account stays behind.
\* Fault: the old mint is not closed.
BurnedTokenOpenMint == [mint |-> TRUE, funded |-> FALSE, ata |-> TRUE,
                        amount |-> 0, delegate |-> NoPubkey]
BurnedToken == [mint |-> FALSE, funded |-> FALSE, ata |-> TRUE,
                amount |-> 0, delegate |-> NoPubkey]

MigrateIdentity(old, user) ==
    /\ old # user
    /\ Readable(old) /\ ~Exists(user)
    /\ RequestBound => identities[old].owner = old
    /\ identities[old].new_wallet = user
    /\ CountersAdvanced({old, user})
    /\ TokenMintable(user)
    /\ config.layout # 0
    /\ FeeCharged(config.migration_fee)
    /\ tokens[old].mint /\ tokens[old].ata
    /\ tokens[old].amount = 1
    /\ tokens[old].delegate = user
    /\ tokens' = [tokens EXCEPT ![user] = MintedToken(user),
                                ![old] = BurnedToken]
    /\ identities' = IdentityMoved(old, user)
    /\ UNCHANGED <<results, boundResults>>

----------------------------------------------------------------------------
(* What happens to tokens outside the program.  A token does not transfer, *)
(* but its holder may burn it, approve a delegate and close the account,   *)
(* and anyone may send lamports to an address where no mint exists yet, or *)
(* any more; nobody can take them away again.                              *)

\* The holder burns (the delegation survives) or the delegate does.
TokenBurned(w) ==
    /\ tokens[w].amount = 1
    /\ \/ tokens' = [tokens EXCEPT ![w].amount = 0]
       \/ /\ tokens[w].delegate # NoPubkey
          /\ tokens' = [tokens EXCEPT ![w].amount = 0,
                                      ![w].delegate = NoPubkey]
    /\ UNCHANGED <<identities, requests, results, boundResults, treasury>>

TokenDelegated(w, delegate) ==
    /\ tokens[w].ata
    /\ tokens' = [tokens EXCEPT ![w].delegate = delegate]
    /\ UNCHANGED <<identities, requests, results, boundResults, treasury>>

\* Anyone may create the associated account of a mint that exists.
TokenAccountCreated(w) ==
    /\ tokens[w].mint /\ ~tokens[w].ata
    /\ tokens' = [tokens EXCEPT ![w].ata = TRUE]
    /\ UNCHANGED <<identities, requests, results, boundResults, treasury>>

TokenAccountClosed(w) ==
    /\ tokens[w].ata
    /\ tokens[w].amount = 0
    /\ tokens' = [tokens EXCEPT ![w].ata = FALSE, ![w].delegate = NoPubkey]
    /\ UNCHANGED <<identities, requests, results, boundResults, treasury>>

MintAddressFunded(w) ==
    /\ ~tokens[w].mint /\ ~tokens[w].funded
    /\ tokens' = [tokens EXCEPT ![w].funded = TRUE]
    /\ UNCHANGED <<identities, requests, results, boundResults, treasury>>

----------------------------------------------------------------------------
(* Tokens and request counters                                             *)

\* The mint account of a wallet exists exactly as long as its identity, and
\* the token is never held without an identity, although its holder may burn
\* it and close the token account at any time.
TokenFollowsIdentity ==
    \A w \in Wallets :
        /\ tokens[w].mint <=> Exists(w)
        /\ tokens[w].amount = 1 => Exists(w)

\* The request counter keeps bound results honest: a result that still
\* matches the wallet's counter was made for the identity as it is now, so no
\* mint, update, reset, rebaseline or migration happened in between.
MadeForPresentIdentity(w, n) ==
    /\ Exists(w)
    /\ boundResults[<<w, n>>].commitment_prev = identities[w].current_commitment
    /\ boundResults[<<w, n>>].request_digest.projection
           = identities[w].projection_version
BoundResultFresh ==
    \A w \in Wallets, n \in Nonces :
        /\ boundResults[<<w, n>>].counter <= requests[w].counter
        /\ (/\ boundResults[<<w, n>>].open
            /\ boundResults[<<w, n>>].counter = requests[w].counter)
              => MadeForPresentIdentity(w, n)
============================================================================
