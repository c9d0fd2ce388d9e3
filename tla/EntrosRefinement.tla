------------------------- MODULE EntrosRefinement --------------------------
(***************************************************************************)
(* The three programs implement IdentityLedger.  The mapping reads the     *)
(* program state; of the history it uses only which identity lives where.  *)
(***************************************************************************)
EXTENDS EntrosProperties

HomeOf(l) ==
    IF \E w \in Wallets : lineage[w] = l
      THEN CHOOSE w \in Wallets : lineage[w] = l
      ELSE NoPubkey

\* What is stored at a wallet, as the ledger tells it.
PersonAt(w) ==
    LET id == identities[w]
    IN [home |-> w, next |-> id.new_wallet,
        commitment |-> id.current_commitment,
        version |-> id.projection_version,
        earned |-> id.verification_count,
        resetAt |-> id.last_reset_timestamp,
        rebasedAt |-> id.last_rebaseline_timestamp]

Nobody ==
    [home |-> NoPubkey, next |-> NoPubkey, commitment |-> NoCommitment,
     version |-> 0, earned |-> 0, resetAt |-> 0, rebasedAt |-> 0]

PersonOf(l) == LET w == HomeOf(l)
               IN IF w = NoPubkey THEN Nobody ELSE PersonAt(w)

\* A result account of either build, as a claim.
ClaimOf(w, n, result) ==
    [wallet |-> w, nonce |-> n,
     from |-> result.commitment_prev, to |-> result.commitment_new]

OpenClaims ==
    {ClaimOf(p[1], p[2], results[p]) :
        p \in {q \in Wallets \X Nonces : results[q].open}}
    \cup
    {ClaimOf(p[1], p[2], boundResults[p]) :
        p \in {q \in Wallets \X Nonces : boundResults[q].open}}

Ledger == INSTANCE IdentityLedger WITH
    clock <- now,
    window <- [current |-> config.current_projection_version,
               minimum |-> config.minimum_supported_projection_version],
    claims <- OpenClaims,
    people <- [l \in Lineages |-> PersonOf(l)]

\* Every behaviour of the programs, in either build and with any order of
\* instructions, is one the ledger allows: whatever becomes of the accounts,
\* an identity is minted, earns, forgets, changes space and moves as promised.
ImplementsLedger == Ledger!Spec
============================================================================
