--------------------------- MODULE IdentityLedger --------------------------
(***************************************************************************)
(* What the three programs together promise about identities, told without *)
(* accounts, tokens, receipts, results, request counters or layouts.       *)
(*                                                                         *)
(* An identity is one thing that lives at one wallet at a time.  It earns  *)
(* by giving up a claim (an accepted proof from its present commitment to  *)
(* another), forgets what it earned at most once per cooldown, changes     *)
(* projection space at most once per cooldown, and moves only to the       *)
(* wallet it was last agreed to move to.  Nothing else happens to it.      *)
(***************************************************************************)
EXTENDS Integers

CONSTANTS
    Lineages,               \* the identities there may ever be
    Wallets,
    NoPubkey,               \* no wallet
    Commitments,
    NoCommitment,
    Nonces,                 \* tell the claims of a wallet apart
    ResetCooldown,
    RebaselineCooldown

VARIABLES
    clock,      \* the time
    window,     \* projection versions: the current one, the oldest supported
    claims,     \* accepted proofs not spent yet
    people      \* the identities

ledgerVars == <<clock, window, claims, people>>

Unborn ==
    [home |-> NoPubkey, next |-> NoPubkey, commitment |-> NoCommitment,
     version |-> 0, earned |-> 0, resetAt |-> 0, rebasedAt |-> 0]

\* An identity that is older than the ledger.
Inherited(w, c, n, t) ==
    [Unborn EXCEPT !.home = w, !.commitment = c, !.earned = n, !.resetAt = t]

Claims == [wallet : Wallets, nonce : Nonces,
           from : Commitments, to : Commitments]

Lives(l) == people[l].home # NoPubkey
Free(w) == \A l \in Lineages : people[l].home # w

Init ==
    /\ clock \in Nat
    /\ window = [current |-> 0, minimum |-> 0]
    /\ claims = {}
    /\ people = [l \in Lineages |-> people[l]]
    /\ \A l \in Lineages :
          \/ people[l] = Unborn
          \/ /\ people[l].earned \in Nat
             /\ people[l].resetAt \in 0 .. clock
             /\ \E w \in Wallets, c \in Commitments :
                   people[l] = Inherited(w, c, people[l].earned,
                                         people[l].resetAt)
    /\ \A l, m \in Lineages : Lives(l) /\ Lives(m) => l = m

----------------------------------------------------------------------------
(* What may happen to an identity                                          *)

Register(l, w, c) ==
    /\ people[l] = Unborn
    /\ Free(w)
    /\ people' = [people EXCEPT ![l] =
           [Unborn EXCEPT !.home = w, !.commitment = c,
                          !.version = window.current]]
    /\ UNCHANGED <<clock, window, claims>>

Earn(l, x) ==
    /\ Lives(l)
    /\ people[l].version \in window.minimum .. window.current
    /\ x.wallet = people[l].home
    /\ x.from = people[l].commitment
    /\ x.to # x.from
    /\ claims' = claims \ {x}
    /\ people' = [people EXCEPT ![l].commitment = x.to, ![l].earned = @ + 1]
    /\ UNCHANGED <<clock, window>>

Forget(l, c) ==
    /\ Lives(l)
    /\ clock - people[l].resetAt >= ResetCooldown
    /\ people' = [people EXCEPT ![l].commitment = c, ![l].earned = 0,
                                ![l].version = window.current,
                                ![l].resetAt = clock]
    /\ UNCHANGED <<clock, window, claims>>

Rebaseline(l, c) ==
    /\ Lives(l)
    /\ people[l].version < window.current
    /\ clock - people[l].rebasedAt >= RebaselineCooldown
    /\ people' = [people EXCEPT ![l].commitment = c,
                                ![l].version = window.current,
                                ![l].rebasedAt = clock]
    /\ UNCHANGED <<clock, window, claims>>

Agree(l, w) ==
    /\ Lives(l)
    /\ people' = [people EXCEPT ![l].next = w]
    /\ UNCHANGED <<clock, window, claims>>

Move(l) ==
    /\ Lives(l)
    /\ people[l].next # NoPubkey
    /\ Free(people[l].next)
    /\ people' = [people EXCEPT ![l].home = people[l].next,
                                ![l].next = NoPubkey]
    /\ UNCHANGED <<clock, window, claims>>

----------------------------------------------------------------------------
(* What happens around them                                                *)

\* A claim takes a nonce its wallet is not using.
Claim(x) ==
    /\ \A y \in claims : y.wallet # x.wallet \/ y.nonce # x.nonce
    /\ claims' = claims \cup {x}
    /\ UNCHANGED <<clock, window, people>>

Withdraw(x) ==
    /\ claims' = claims \ {x}
    /\ UNCHANGED <<clock, window, people>>

\* Versions move forward only.
Govern ==
    /\ window' \in [current : Nat, minimum : Nat]
    /\ window'.minimum <= window'.current
    /\ window'.current >= window.current
    /\ window'.minimum >= window.minimum
    /\ UNCHANGED <<clock, claims, people>>

Pass ==
    /\ clock' = clock + 1
    /\ UNCHANGED <<window, claims, people>>

Next ==
    \/ \E l \in Lineages, c \in Commitments :
          \/ \E w \in Wallets : Register(l, w, c)
          \/ Forget(l, c)
          \/ Rebaseline(l, c)
    \/ \E l \in Lineages, x \in claims : Earn(l, x)
    \/ \E l \in Lineages : Move(l) \/ \E w \in Wallets : Agree(l, w)
    \/ \E x \in Claims : Claim(x)
    \/ \E x \in claims : Withdraw(x)
    \/ Govern
    \/ Pass

Spec == Init /\ [][Next]_ledgerVars
============================================================================
