--------------------------- MODULE SolanaRuntime ---------------------------
(***************************************************************************)
(* What the three Entros programs take from the Solana runtime: the clock  *)
(* sysvar, the rent rule every account must satisfy when a transaction     *)
(* ends, and the all-zero public key that the programs use for "none".     *)
(*                                                                         *)
(* A transaction is atomic and runs alone on the accounts it names, so     *)
(* every instruction of the programs is one action of these modules: its   *)
(* guard holds when no `require!` of the handler fails, and a transaction  *)
(* that fails changes nothing.                                             *)
(***************************************************************************)
EXTENDS Integers

CONSTANTS
    Genesis,   \* Unix time at which the model starts
    Horizon,   \* bound: the clock stops at Genesis + Horizon
    RentMin,   \* rent-exempt minimum of an account without data
    NoPubkey   \* Pubkey::default(), the all-zero key

ASSUME RuntimeAssumption ==
    /\ Genesis \in Nat \ {0}
    /\ Horizon \in Nat
    /\ RentMin \in Nat

VARIABLE
    now        \* Clock::get()?.unix_timestamp

Times == Genesis .. (Genesis + Horizon)

\* Timestamps stored in accounts; zero stands for "never".
Stamps == {0} \cup Times

\* An account must be empty or rent-exempt when a transaction ends.
RentExempt(lamports) == lamports = 0 \/ lamports >= RentMin

Tick ==
    /\ now < Genesis + Horizon
    /\ now' = now + 1
============================================================================
