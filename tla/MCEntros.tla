------------------------------ MODULE MCEntros -----------------------------
(* Instances of the composed system for TLC. *)
EXTENDS EntrosRefinement, MCValues, TLC

\* Steps of entros-anchor, entros-verifier, the service and the clock, with
\* the config and the holders' tokens left alone.
QuietNext ==
    \/ ServiceNext
    \/ \E w \in Wallets, c \in AnyCommitment, r \in signed : Mint(w, c, r)
    \/ UpdateNext
    \/ RecoveryNext
    \/ \E w \in Wallets : Prepare(w) \/ Upgrade(w)
    \/ ProofNext
    \/ ClockTick
QuietSpec == Init /\ [][QuietNext]_vars

\* The same, with challenges.
ChallengedNext == QuietNext \/ ChallengeStep
ChallengedSpec == Init /\ [][ChallengedNext]_vars

\* Or with identities that move to another wallet.
MovingNext ==
    \/ QuietNext
    \/ \E w, new \in Wallets : Authorize(w, new) \/ Migrate(w, new)
MovingSpec == Init /\ [][MovingNext]_vars

\* An identity that has been reset and then verified when the model starts.
Seasoned == {[count |-> 1, resetAt |-> Genesis]}

WalletSymmetry == Permutations(Wallets)
============================================================================
