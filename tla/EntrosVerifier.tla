--------------------------- MODULE EntrosVerifier --------------------------
(***************************************************************************)
(* The entros-verifier program: challenges, and the result accounts that   *)
(* record an accepted Groth16 proof until entros-anchor or their owner     *)
(* closes them.                                                            *)
(*                                                                         *)
(* The program is built in one of two ways.  The default build stores a    *)
(* VerificationResult (`results`); the request-bound-v1 build stores a     *)
(* BoundVerificationResult (`boundResults`), which also pins the wallet's  *)
(* request counter, the projection version and a deadline.  A proof that   *)
(* does not verify fails its transaction, so only accepted ones appear.    *)
(***************************************************************************)
EXTENDS ConfigPolicy

CONSTANTS
    RequestBound,       \* TRUE in the request-bound-v1 build
    Wallets,            \* wallets of users
    Commitments,        \* Poseidon commitments, all non-zero
    NoCommitment,       \* the all-zero commitment
    Scalars,            \* commitments below the BN254 scalar modulus
    Nonces,             \* non-zero nonces clients draw
    NoNonce,            \* the all-zero nonce
    HammingInputs,      \* <<threshold, min_distance>> pairs provers submit
    ChallengeExpiry,    \* DEFAULT_CHALLENGE_EXPIRY
    MaxRequestLifetime, \* MAX_REQUEST_LIFETIME
    CurrentIdentityLen  \* IdentityState::LEN

ASSUME VerifierAssumption ==
    /\ RequestBound \in BOOLEAN
    /\ NoPubkey \notin Wallets
    /\ NoCommitment \notin Commitments
    /\ Scalars \subseteq Commitments
    /\ HammingInputs \subseteq Nat \X Nat
    /\ NoNonce \notin Nonces
    /\ ChallengeExpiry \in Nat
    /\ MaxRequestLifetime \in Nat
    /\ CurrentIdentityLen \in Nat \ {0}

VARIABLES
    challenges,     \* Challenge PDA by (challenger, nonce)
    results,        \* VerificationResult PDA by (verifier, nonce)
    boundResults,   \* BoundVerificationResult PDA by (verifier, nonce)
    identities,     \* IdentityState by wallet: owned by entros-anchor, read
    requests        \* ProofRequestState by wallet: the same

verifierVars == <<challenges, results, boundResults>>

MaxThreshold == 96
MinDistanceFloor == 3

\* An account that does not exist.
NoChallenge == [open |-> FALSE, created_at |-> 0, expires_at |-> 0,
                used |-> FALSE]
NoResult == [open |-> FALSE, commitment_new |-> NoCommitment,
             commitment_prev |-> NoCommitment, verified_at |-> 0]

AnyCommitment == Commitments \cup {NoCommitment}

----------------------------------------------------------------------------
(* The request digest                                                      *)

\* request_digest hashes an injective encoding, so a digest is the record of
\* what it covers.  The deployment and the two programs are constants; the
\* identity and mint addresses are PDAs of the wallet, which stands for them.
RequestDigest(wallet, nonce, counter, projection, new, prev, bounds, until) ==
    [wallet |-> wallet, nonce |-> nonce, counter |-> counter,
     projection |-> projection, new |-> new, prev |-> prev,
     bounds |-> bounds, until |-> until]

NoDigest == [open |-> FALSE]

Digests ==
    [wallet : Wallets, nonce : Nonces, counter : Nat,
     projection : Projections, new : Commitments, prev : Commitments,
     bounds : HammingInputs, until : Nat]

\* Action::encode refuses an action it cannot encode injectively.
Encodable(new, prev, bounds, until) ==
    /\ new \in Scalars /\ prev \in Scalars
    /\ until # 0
    /\ bounds[1] <= 256
    /\ bounds[2] <= bounds[1]

NoBoundResult == [open |-> FALSE, commitment_new |-> NoCommitment,
                  commitment_prev |-> NoCommitment, bounds |-> <<0, 0>>,
                  verified_at |-> 0, counter |-> 0, valid_until |-> 0,
                  request_digest |-> NoDigest]

VerifierTypeOK ==
    /\ challenges \in
         [Wallets \X Nonces ->
             [open : BOOLEAN, created_at : Nat, expires_at : Nat,
              used : BOOLEAN]]
    /\ results \in
         [Wallets \X Nonces ->
             [open : BOOLEAN, commitment_new : AnyCommitment,
              commitment_prev : AnyCommitment, verified_at : Nat]]
    /\ boundResults \in
         [Wallets \X Nonces ->
             [open : BOOLEAN, commitment_new : AnyCommitment,
              commitment_prev : AnyCommitment,
              bounds : HammingInputs \cup {<<0, 0>>}, verified_at : Nat,
              counter : Nat, valid_until : Nat,
              request_digest : Digests \cup {NoDigest}]]

VerifierInit ==
    /\ challenges = [p \in Wallets \X Nonces |-> NoChallenge]
    /\ results = [p \in Wallets \X Nonces |-> NoResult]
    /\ boundResults = [p \in Wallets \X Nonces |-> NoBoundResult]

----------------------------------------------------------------------------

\* validate_hamming_bounds
HammingBoundsOK(threshold, min_distance) ==
    /\ threshold <= MaxThreshold
    /\ min_distance >= MinDistanceFloor
    /\ min_distance < threshold

\* The Groth16 verifier takes only canonical field elements as inputs.  That
\* the proof itself holds is the premise of the two actions below: a
\* transaction with a proof that does not verify fails.
InputsCanonical(new, prev) == {new, prev} \subseteq Scalars

\* read_counter: the account exists in the layout of this generation.
CounterReadable(w) == requests[w].version = 1

CreateChallenge(w, n) ==
    /\ n # NoNonce
    /\ ~challenges[<<w, n>>].open
    /\ challenges' = [challenges EXCEPT ![<<w, n>>] =
           [open |-> TRUE, created_at |-> now,
            expires_at |-> now + ChallengeExpiry, used |-> FALSE]]
    /\ UNCHANGED <<results, boundResults>>

\* The only constraint is that the challenger signs.
CloseChallenge(w, n) ==
    /\ challenges[<<w, n>>].open
    /\ challenges' = [challenges EXCEPT ![<<w, n>>] = NoChallenge]
    /\ UNCHANGED <<results, boundResults>>

\* verify_proof and verify_proof_compact, both through verify_and_store.
\* Nothing ties the commitments to the wallet's identity yet.
VerifyProof(w, n, new, prev, hamming) ==
    /\ ~RequestBound
    /\ n # NoNonce
    /\ ~results[<<w, n>>].open
    /\ new # NoCommitment /\ prev # NoCommitment
    /\ HammingBoundsOK(hamming[1], hamming[2])
    /\ InputsCanonical(new, prev)
    /\ results' = [results EXCEPT ![<<w, n>>] =
           [open |-> TRUE, commitment_new |-> new,
            commitment_prev |-> prev, verified_at |-> now]]
    /\ UNCHANGED <<challenges, boundResults>>

\* verify_proof_bound reads the identity and the request counter of the
\* wallet as they are now and pins both in the result.
VerifyProofBound(w, n, new, prev, hamming, valid_until) ==
    /\ RequestBound
    /\ n # NoNonce
    /\ ~boundResults[<<w, n>>].open
    /\ valid_until >= now /\ valid_until > 0
    /\ valid_until <= now + MaxRequestLifetime
    /\ HammingBoundsOK(hamming[1], hamming[2])
    /\ new # NoCommitment /\ prev # NoCommitment
    /\ identities[w].layout = CurrentIdentityLen
    /\ identities[w].owner = w
    /\ identities[w].current_commitment = prev
    /\ CounterReadable(w)
    /\ Encodable(new, prev, hamming, valid_until)
    /\ InputsCanonical(new, prev)
    /\ boundResults' = [boundResults EXCEPT ![<<w, n>>] =
           [open |-> TRUE, commitment_new |-> new, commitment_prev |-> prev,
            bounds |-> hamming, verified_at |-> now,
            counter |-> requests[w].counter, valid_until |-> valid_until,
            request_digest |->
                RequestDigest(w, n, requests[w].counter,
                              identities[w].projection_version, new, prev,
                              hamming, valid_until)]]
    /\ UNCHANGED <<challenges, results>>

\* The owner takes the rent back; entros-anchor does the same by CPI with
\* the owner's signature when it consumes the result.
\*
\* Faults: the account is left open.
ResultKept(w, n) == UNCHANGED results
BoundResultKept(w, n) == UNCHANGED boundResults
ResultClosed(w, n) == results' = [results EXCEPT ![<<w, n>>] = NoResult]
BoundResultClosed(w, n) ==
    boundResults' = [boundResults EXCEPT ![<<w, n>>] = NoBoundResult]

CloseVerificationResult(w, n) ==
    /\ results[<<w, n>>].open
    /\ ResultClosed(w, n)
    /\ UNCHANGED <<challenges, boundResults>>

CloseBoundVerificationResult(w, n) ==
    /\ boundResults[<<w, n>>].open
    /\ BoundResultClosed(w, n)
    /\ UNCHANGED <<challenges, results>>

ChallengeNext ==
    \E w \in Wallets, n \in Nonces \cup {NoNonce} :
        \/ CreateChallenge(w, n)
        \/ n \in Nonces /\ CloseChallenge(w, n)

============================================================================
