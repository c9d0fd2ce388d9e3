# Entros protocol: formal model

TLA+ models of the three Solana programs of this repository
(`programs/entros-registry`, `programs/entros-verifier`,
`programs/entros-anchor`) and of the crate they share
(`crates/proof-request`), with the TLC configurations that check them and
proofs for TLAPS. `PROJECT.json` is the machine-readable index: components,
runs, the source lines each definition models, hazards, findings, theorems.

## 1. The system

| component | state | operations | interacts with |
|---|---|---|---|
| registry: config | `ProtocolConfig` singleton; accounts of earlier releases have 69, 77, 109 or 113 bytes instead of 185 | initialize, update fee, set/rotate validator key, propose/accept authority, migrate admin, set projection versions | entros-anchor reads its raw bytes |
| registry: treasury, staking | treasury PDA, vault PDA, one `ValidatorState` per wallet | withdraw, register, unstake | fees arrive from entros-anchor; anybody may transfer lamports to either PDA |
| verifier | `Challenge`, `VerificationResult`, `BoundVerificationResult` PDAs, by wallet and nonce | create/close challenge, verify (two encodings), verify bound, close result, close bound result | the bound build reads identity and request counter; entros-anchor closes results by CPI |
| anchor: identities | `IdentityState` per wallet (earlier releases: shorter), a soulbound token | mint, three updates, reset, rebaseline, authorise, migrate, upgrade layout | reads config and results, pays fees |
| anchor: request counters | `ProofRequestState` per wallet (bound build only) | prepare, advance | read by the verifier and by the bound update |
| anchor: receipts | none on chain: an Ed25519 instruction just before the instruction that needs it | check signer, purpose, wallet, commitment, version, age | keys come from the config |
| anchor: activity | 52-slot ring of weekly timestamps, Trust Score | record, bin, weigh, cap | inside every update |

What is hard here:

- A user action is several transactions: the service signs a receipt, the
  verifier stores a result, the anchor consumes both. Everything may change
  between them: the commitment, the counter, the projection version, the
  signing key, the clock, the wallet the identity lives at.
- Nothing expires by itself. A result, a receipt or an old key is stale only
  because the next instruction compares timestamps.
- Identities move between wallets while cooldowns, scores and the token must
  move exactly once.
- Accounts of earlier releases are shorter. Readers guard by length, writers
  grow them in passing, in any order.
- Treasury, vault and the address of a future mint are ordinary addresses: lamports can
  arrive there at any time with no instruction of the programs.
- Integer edges: ring spacing against bins, rent-exempt minimum, counters at
  their limit, `isqrt`.

What makes each part correct is stated in section 4; `hazards` in
`PROJECT.json` gives the line where each danger lies.

## 2. Modules

```
SolanaRuntime     clock, rent rule, zero key (external)
  EntrosRegistry    the registry program
    RegistryLemmas    typing and config lemmas, shared by all proofs below
    ConfigPolicy      how entros-anchor reads the config
      RegistryLifecycle   registry alone: clock, fees, properties
        RegistryProofs      theorems of the registry
        MCRegistry          instances
      EntrosVerifier      the verifier program
        EntrosAnchor        the anchor program, with ActivityRing
          EntrosSystem        the three together, service, clock, holders
            EntrosProperties    properties of the composition
              EntrosTypes         its type invariant
                EntrosProofs        homes, tokens, reputation, times
                  PolicyProofs        projection versions, replaced keys
                    ReceiptProofs       receipts, proofs, bound results
                      RefinementProofs    IdentityLedger is implemented
              EntrosRefinement    the mapping to IdentityLedger
                MCEntros            instances
          HolderProgress      holders that retry: fairness, liveness
            MCProgress          instances
IdentityLedger    what the programs promise about identities (abstract)
MCValues          values of the constants of MCEntros and MCProgress
ActivityRing      ring, bins, score, isqrt: operators
  ActivityHistory   one identity over time, beside its full history
    ActivityProofs    theorems about ring, scores and isqrt
    MCActivity        instances
```

### How state and actions correspond to the code

One instruction is one action. Solana runs a transaction alone on the accounts
it names and undoes it when any `require!` fails, so the action's guard is the
conjunction of the handler's checks and of its account constraints, and a
failing call is a disabled action. Effects of nested calls (the CPI that
closes a result, the fee transfer, counter advances, account growth) are part
of the action. Names follow the source: `rotate_validator_pubkey` is
`RotateValidatorPubkey`, `process_anchor_update` is split into `UpdateReady`,
`ResultUsable`/`BoundResultUsable`, `UpdateAllowed` and `UpdatedIdentity`.

- `config.layout` is the account's length; 0 means absent. Fields beyond the
  end of a short account hold zero: what the length guards of the readers
  return and what a resize fills in. Guards such as `data.len() >= 40` appear
  as conditions on `layout`. Identities have `layout` in the same way.
- `results[<<w, n>>]`, `boundResults[<<w, n>>]` and `challenges[<<w, n>>]` are PDAs by
  wallet and nonce; `open` says whether the account exists. `RequestBound` chooses the
  build (the `request-bound-v1` feature).
- A bound result stores a digest over wallet, nonce, identity, mint, counter,
  projection version, commitments, bounds and deadline. `RequestDigest` is the
  record of those that vary (identity and mint are addresses derived from the
  wallet; the hash is taken as injective), and the consumer rebuilds it from the
  account's own fields and the present identity, as `process_anchor_update` does.
  `Encodable` is what `Action::encode` refuses. `Scalars` is the set of canonical
  field elements: a commitment outside it has no proof.
- `signed` is the set of receipts in existence. A user may present any of them,
  any number of times; a receipt is never used up. The service may sign any
  well-formed receipt with any key, up to `ClockSkew` ahead of the chain.
  Version 2 stands for the 103- and the 136-byte formats, which differ in session
  fields that only reach an event.
- `tokens[w]` is the mint PDA and the associated token account of a wallet.
  Holders may burn the token, close the account, approve or revoke a delegate;
  the mint is non-transferable. The default build creates the token account and
  fails when it exists, the bound build creates it when missing. Anyone may create the
  account of an existing mint. `funded` says that the address of a mint that does not exist holds
  lamports (`MintAddressFunded`): `create_account` then fails, so minting and migrating to that
  wallet do (`TokenMintable`). The lamports have no way out again.
- `TreasuryFunded` and `VaultFunded` are transfers by anybody, of any amount, to the two PDAs of the
  registry. The runtime refuses one that would leave the PDA below the rent minimum.
- An identity that is there when the model starts (`InheritedIdentity`) was minted at `Genesis`
  and has the count and reset time that `OldLives` gives it, with the score and ring of that count.
- `lineage`, `born`, `ledger`, `proofs`, `uses`, `reused`, `retiredAt` and
  `proposedBy` are history: written beside an action, read only by properties
  and by named bounds. A lineage is an identity followed through migrations.

### The abstract specification

`IdentityLedger` tells what the programs promise without accounts, tokens, receipts,
results, counters or layouts: an identity is registered at a free wallet, earns by giving up a
claim that starts at its present commitment while its version is inside the window, forgets what
it earned and changes projection space at most once per cooldown, and moves only to the wallet
last agreed. `EntrosRefinement` maps the composition to it:

| ledger | programs |
|---|---|
| `clock`, `window` | `now`; current and minimum version of the config |
| `people[l]` | the identity account of the wallet that lineage `l` lives at: owner's wallet, `new_wallet`, commitment, version, count, the two cooldown timestamps; `Unborn` when no wallet has it |
| `claims` | the open result accounts of both builds |

The mapping takes from the history variables only which lineage lives where; `earned`, `resetAt`
and `rebasedAt` are read off the accounts. So a step that forgets to copy, reset
or set one of them, that counts a proof twice or leaves an identity in two places has no
counterpart in the ledger. Receipts, counters, layouts, tokens, fees and keys are stutters.

### Holders that retry

`HolderProgress` uses the same instruction operators (`MintAnchor`, `VerifyProofBound`, ...)
with a narrower environment: holders ask the service for a receipt for their next step and keep
the newest one of each purpose, instead of presenting any receipt ever signed. It keeps no history.
Others may fund a mint's address (`FundMint`) and create a token account (`OpenToken`) at any time.

## 3. Bounds, and why they are enough

Time starts at `Genesis` and stops at `Genesis + Horizon`. Periods are scaled down
(a cooldown of 7 days is 1 to 3 ticks, a receipt lives 0 to 2 and counts as timely in
its last second), keeping a receipt's life below the reset cooldown (300 s and seven days: the
proof that a reset receipt works once needs it) and `Genesis` at or above the cooldowns, as real
Unix time is. A horizon is long
enough for the longest period that the run's properties are about to elapse and be used afterwards.
`MaxLineages`, `MaxSigned`, `MaxProofs`, `MaxTreasury` and `MaxVault` bound what
outsiders can do; outsiders' payments to a PDA stop at the last two. In `registry_stakes` stakes are 1, 2
or 3 around a rent minimum of 2, so payments below, at and above it meet every stake. `MaxCount` and `MaxCounter` are the `u32` and `u64` limits, small
so that they are reached: there the handler's `checked_add` must fail.
Hazards involve at most two wallets (migration), two commitments (moving
away and back), two nonces (two proofs in flight, `bound_updates`), two keys (rotation; three in the
registry's run, for two rotations inside one grace period) and three validators (one leaving between two
others). `registry_config` uses projection versions 0 and 1, `progress` 0, 1 and 2; `policy` uses 0 and 2, so that a
version is skipped. Wallets are symmetric in `migration`, which starts empty or with one inherited identity
that was reset and then verified once (count 1, a score, one ring entry, a reset time), so that each field a migration
has to copy differs from its initial value.

`RequestBound` chooses the build of a run: `replay`, `receipt_twice`, `policy` and `progress` are the
default build, `bound_updates`, `migration` and `bound_progress` the request-bound one.

`CHECK_DEADLOCK FALSE` is set in the runs of the composed system: the programs are
passive, and with the clock at its bound and every receipt signed a wallet with
nothing left to do really stops.

`SYMMETRY` is used only where no property is a liveness property.

## 4. Runs

| run | module / cfg | checks |
|---|---|---|
| `registry_config` | MCRegistry / RegistryConfig | `TypeOK`; `KeyGraceBounded`: a replaced key is accepted for at most the maximum grace period after its replacement; `ConfiguredForGood`; `SecondaryExpires`: a kept key does stop; `PolicyAlwaysReadable` and `ProjectionMonotone` (version window); `AdminHandover` |
| `registry_stakes` | MCRegistry / RegistryStakes | `VaultBacksStakes`: the vault holds at least the stakes; `StakeRedeemable`: with a rent-exempt minimum stake only the last validator to leave can be held back by the rent rule; `StakeReturned`: a validator that persists in leaving gets its stake back, whatever others pay into the vault; `TreasuryKeepsRent` |
| `registry_pending` | MCRegistry / RegistryPending | expected violation, finding 1 |
| `activity_ring` | MCActivity / ActivityRingRun | `RingIsSpaced`, `RingCoversYear`, `BinsNearlyKept`, `SpanOverFrequency` against the full history; `RegistryAgrees`: `compute_trust_score` on the newest entries agrees with entros-anchor's score; `IsqrtIsFloor` for each of 0 .. 365, in both programs |
| `activity_skipped` | MCActivity / ActivitySkipped | expected violation, finding 2 |
| `replay` | MCEntros / Replay | default build, receipts of every format: `TypeOK`, `NoProofSpentTwice`, `ReceiptReuseBounded` |
| `receipt_twice` | MCEntros / ReceiptTwice | expected violation, finding 3 |
| `bound_updates` | MCEntros / BoundUpdates | bound build, one wallet, two proofs in flight: `NoProofSpentTwice`, `BoundResultFresh`, `LifeInOrder`, `ReputationIsEarned`, `ImplementsLedger` |
| `migration` | MCEntros / Migration | bound build, two wallets, migrations back and forth and a second mint: `LivesAtOneWallet`, `TokenFollowsIdentity`, `BoundResultFresh`, `ReputationIsEarned` and `LifeInOrder` (each copied field), `CooldownsHold`, `ImplementsLedger` |
| `policy` | MCEntros / Policy | default build, one wallet, the registry's instructions with mint, reset and rebaseline receipts: `RetiredKeysFade`, `ProjectionNeverAhead`, `ProjectionAdvances`, `ImplementsLedger`, from an absent or inherited config and inherited identities |
| `progress` | MCProgress / Progress | default build, two wallets: `TokenFollowsIdentity` with holders that burn and close; `StuckRecover`, `VacatedWalletReusable` |
| `bound_progress` | MCProgress / BoundProgress | bound build: `FirstUpdateCounts`, also for identities of 207 and 543 bytes, with fees that an empty treasury cannot take |

`policy` is a run of `Spec`, the full next-state relation, but its constants (one wallet, no
nonces, no update receipts) leave no update and no migration to take. `QuietSpec` (in `MCEntros`) leaves out
the registry's instructions, migration, token operations and challenges; `ChallengedSpec` adds the
challenges to it and `MovingSpec` migration, so that the rest can be explored deeper; every action
runs in some passing run. What a run leaves out of a property is in the theorem of section 5:

- `bound_updates` has one wallet; `ReputationIsEarned` and `LifeInOrder` through migrations are checked in
  `migration`.
- `migration` has one projection version, so the half of `CooldownsHold` about rebaselines is empty there; the
  rebaseline cooldown is checked in `policy` (a guard of the ledger's `Rebaseline`), and with migrations it rests on
  `CooldownsKept`.
- Ring and score are not in the mapping to `IdentityLedger`: a migration that forgets them is
  caught by `LifeInOrder` and `ReputationIsEarned`.
- `RetiredKeysFade` and `ProjectionAdvances` among updates and migrations rest on `ReplacedKeysFade`
  and `VersionsAdvance`.
- `TypeOK` reaches the limit of the verification count in `replay`; that the request counter stays within
  its limit rests on `SystemTypeCorrect`.

`PROJECT.json` pairs every property of a passing run with a fault ("Fault:" in
the modules): a variant of one definition, such as a check left out or a
field not reset, under which the same run reports a violation.

**Fairness.** The programs schedule nothing: every assumption is about who sends instructions.

- `SecondaryExpires` assumes weak fairness of `ClockTick` alone: the clock sysvar advances with the
  slots, whatever the programs do.
- `StakeReturned` assumes weak fairness of a validator's own steps (`Leaving`): it unstakes, or, when
  the rest of the vault is not empty and below the rent minimum, first adds the rent minimum to it, for which one
  transfer always suffices.
- The liveness properties of `HolderProgress` are about a holder that keeps trying: each of its
  steps that stays possible is taken (weak fairness), and the service answers. `RecoveryFairness`
  (mint, close the token account, rebaseline) carries `StuckRecover` and `VacatedWalletReusable`,
  `RequestFairness` (prepare, upgrade, verify, close a dead result, update, and reset
  an identity too old for the others) carries `FirstUpdateCounts`. Strong
  fairness is assumed of one thing, the rebaseline: an identity may change wallets for ever, and
  then asking and rebaselining are possible again and again but never stay possible at one wallet.
- Of everybody else nothing is assumed, with one exception: `WF_vars(Funded)`, somebody funds an
  empty treasury. Without it `FirstUpdateCounts` fails, since a fee below the
  rent-exempt minimum cannot be paid into an empty treasury.
- The authority and other holders may do what they like. `Policy` is not fair, nor are burning and moving.

Because the clock stops at its bound, receipts and results expire only finitely often in these runs,
and `WindowMoves` keeps the authority from raising the window so late that a rebaseline cooldown
would outlast the clock; in `progress` an identity may be shut out twice and wait for its cooldown.
`FirstUpdateCounts` gives up at `MaxCounter`, which stands for 2^64 - 1. `VacatedWalletReusable` gives up when
somebody sends lamports to the address of the wallet's mint while there is none: no instruction of the programs
clears that address, and the wallet cannot mint there any more.

### Findings

1. *A proposal outlives its proposer.* `state.rs:32` of the registry calls
   `pending_authority` "proposed by the current admin". `migrate_admin` replaces the
   admin and leaves the proposal, which its nominee may still accept.
2. *A skipped entry can matter.* `record_verification`'s comment says a second entry
   inside an active bin "adds nothing to the score". Bins are counted back
   from the time of the next score, so the later entry may be the one in a
   heavier bin. `BinsNearlyKept` states what does hold: the neighbouring older bin is active.
3. *A receipt can be used twice within its second.* `update_anchor`'s comment calls
   it single-use. The timestamp comparison is `>=`, so in the second the receipt was signed for
   an identity may move to the receipt's commitment, on to another, back by
   the same receipt. `ReceiptReuseBounded` states what does hold.

**Known and accepted by the code: the last stake can wait for a top-up.** `unstake_validator` transfers exactly
the stake. If the vault also holds lamports that somebody paid in, less than the rent minimum, the last validator's
transfer would leave a vault that is neither empty nor rent-exempt, and fails. The handler's comment
lists the "Minimum vault balance guard" among what is not implemented. `StakeRedeemable` and `StakeReturned` state
what does hold: nobody but the last to leave is affected, and adding the rent minimum to the vault frees the stake.

## 5. Proofs

Every safety property of every passing run of the registry, of the composed system and of the
activity ring is a theorem: for every set of wallets, commitments, nonces, keys and validators,
both builds, every cooldown, limit and bound, however large.

**Assumptions.** The named `ASSUME`s of the modules, which TLC evaluates on every run. Most
say that amounts are naturals and that the zero key, commitment and nonce are nobody's. The others
are facts of the code: `Genesis` is above the cooldowns (Unix time against days),
`MaxReceiptAge < ResetCooldown` (300 s, seven days), old identity accounts are not longer than
the present ones, inherited ones were reset at `Genesis` or never, `NumBins <= RingLen` (12 bins, 52 slots), and there are finitely many validators
(keys have 32 bytes).

| module | theorem | states | inductive invariant |
|---|---|---|---|
| RegistryProofs | `TypeCorrect` | `TypeOK` | itself |
| | `PolicyReadableAlways`, `ProjectionNeverBack` | `PolicyAlwaysReadable`, `ProjectionMonotone` | `WindowInv` |
| | `GraceBounded` | `KeyGraceBounded` | `GraceInv` |
| | `KeyForGood`, `AdminOnlyHandedOver`, `TreasuryStaysFunded` | `ConfiguredForGood`, `AdminHandover`, `TreasuryKeepsRent` | typing |
| | `StakesBacked`, `StakesRedeemable` | `VaultBacksStakes`, `StakeRedeemable` | `BackedInv` |
| EntrosTypes | `SystemTypeCorrect` | `TypeOK` of the composition | `TypeInv` |
| EntrosProofs | `OneWalletEach`, `TokenBoundToIdentity` | `LivesAtOneWallet`, `TokenFollowsIdentity` | `HomeInv` |
| | `ReputationEarned`, `CooldownsKept` | `ReputationIsEarned`, `CooldownsHold` | `ReputationInv` |
| | `TimesInOrder` | `LifeInOrder` | `LifeInv` |
| PolicyProofs | `NeverAhead`, `VersionsAdvance` | `ProjectionNeverAhead`, `ProjectionAdvances` | `WindowInv`, `ProjectionNeverAhead` |
| | `ReplacedKeysFade` | `RetiredKeysFade` | `UsesInv`, `KeyInv` |
| ReceiptProofs | `ReuseIsBounded` | `ReceiptReuseBounded` | `MemoryInv` |
| | `ProofsSpentOnce` | `NoProofSpentTwice` | `BuildInv`, `SpentInv` |
| | `BoundResultsFresh` | `BoundResultFresh` | `BuildInv`, itself |
| RefinementProofs | `LedgerImplemented` | `ImplementsLedger` | `LifeFacts`, `BuildInv` |
| ActivityProofs | `EntriesSpaced`, `YearCovered`, `BinsKept` | `RingIsSpaced`, `RingCoversYear`, `BinsNearlyKept` | `RingInv` |
| | `SpanBounds`, `RegistryNeverAbove` | `SpanOverFrequency`, `RegistryAgrees` | `RingInv`, `ScoreInv` |
| | `RootRoundsDown` | `IsqrtIsFloor` | none (an algorithm) |

An invariant of a row rests on those above it in its module and in the modules it extends.

### Registry

`RegistryStepType` carries the type invariant through each of the eleven instructions, the fee
transfer, outside funding and the clock; `ConfigWriters` reduces every further argument about the
config to its eight writers. The lemmas about single instructions are in `RegistryLemmas`, where the
proofs of the composition use them again.

`KeyGraceBounded` speaks about the clock and is not inductive. `GraceInv` is: a secondary key's
expiry is at most `MaxGrace` after the moment that key was retired. A rotation that keeps a key
retires it in the same step, every other instruction that retires a key drops the secondary, and
the clock changes neither side. Then a key accepted now is either primary or within its expiry.
`WindowInv` adds to a readable policy that an absent config has the window (0, 0), which is what
creation writes, so creation cannot move a version back either.

`VaultBacksStakes` is an inequality: payments from outside only add to the vault, and nothing but
`unstake_validator` takes from it. `BackedInv` adds to it that every stake is at least `min_stake`, which only
creation writes, when nobody is staked yet. `StakeRedeemable` follows: while another validator is
registered, what a leaver leaves behind is at least that one's stake, hence rent-exempt when `min_stake` is. The total is a recursive function over sets of
validators that picks an arbitrary member each time; `SplitOff` shows that it does not matter
which one, so registering adds its stake to it and leaving takes the same stake out.

### Types, homes and lives

`TypeInv` needs, besides the type, that a token is held only beside its mint: a migration burns
the old one and would otherwise mint a second. Each instruction has a lemma of its own, and so has each record that one writes.

`HomeInv` adds to the two properties that `born` is at or above every living lineage, so the one
that a mint creates is new. `ReputationInv` adds that the history of a lineage not born yet is
empty. `LifeSteps` then says what a step can do to lives: mint, update, reset, rebaseline,
migrate, or nothing (`Quiet`); every later proof about identities has these six cases.
`CooldownsHold` follows from `ReputationIsEarned`: the account's own timestamp, which the guard of
the instruction reads, is its lineage's.

### Policy and receipts

`RetiredKeysFade` is about receipts used in the past, while keys go on being rotated. A use is
stamped with the clock; the key was accepted then, so it was the primary key or the secondary one
within its expiry (`GraceInv`). When a primary key is replaced later, its retirement is stamped no
earlier than the use, and the retirement of any other key is left as it is.

`ReceiptReuseBounded` needs what an account remembers of the receipts used on it. `MemoryInv`:
each use was no earlier than the receipt's timestamp and no later than the last verification of
the account where its lineage lives now; a reset is in `last_reset_timestamp`, a rebaseline in the
projection version. So a second reset meets the cooldown (longer than a receipt lives), a
second rebaseline an equal version, a second update the timestamp comparison, which lets through
only the second of finding 3.

`NoProofSpentTwice` relates counters of history to the number of open results. `SpentInv` adds
that these are finitely many; `ProofSteps` shows that a step opens one, closes one, or touches
none; each build has only its own kind of result (`BuildInv`).

`BoundResultFresh` is inductive given `BuildInv` and typing: every step that touches commitment
or version of an identity advances its wallet's counter past all open results, and those that do not
advance it (authorisation, layout upgrade) touch neither. Both wallets' counters advance in a
migration.

### Refinement

`LedgerInit` maps initial states to initial states. `LedgerStep` maps steps, with one lemma per
action: `MintMaps` to `Register`, `UpdateMaps` to `Earn`, `ResetMaps` to `Forget`,
`RebaselineMaps` to `Rebaseline`, `AuthorizeMaps` to `Agree`, `MigrateMaps` to `Move`,
`VerifyMaps` to `Claim`, `CloseMaps` to `Withdraw`, `GovernMaps` to `Govern` and the clock to
`Pass`; all else is `Untold` and stutters.

The mapping picks the wallet of a lineage with `CHOOSE`. `PersonAtHome` uses `HomeInv` to show that
there is one choice, `PersonWritten` that writing one account changes one person, and
`ClaimOpens`/`ClaimCloses` that opening or closing one result adds or removes one claim. The ledger's
guards about versions and cooldowns come from those of the instructions and from
`ProjectionNeverAhead`.

### Ring, scores and roots

`RingInv`: any two entries are as many bins apart as slots, and each verification of the past has
an entry less than a bin older than itself or is older than a full ring. `RingCoversYear` and
`BinsNearlyKept` follow from it; both are lost if the rate limit opens bins too often or too rarely.

`IsqrtCopied` says that the two programs' copies of `isqrt` are one function.

`ScoreInv`: the score was computed from the ring that is there. `SpanOverFrequency` bounds the sum of
active weights by the same sum over the newest bins of the span, in closed form, with each weight
rounded down (`BaseScoreBounded`). `RegistryAgrees` needs that the registry's ten slots hold
the newest bins: an active bin that is in none of them comes after as many other active bins as there
are slots (`NewestSuffice`).

`IsqrtRoot` proves the loop for every natural number, where TLC tries 0 .. 365: from a value at or
above the root, one step of Newton's iteration stays at or above it, and where it does not get
smaller it is the root.

### Induction

The library's induction theorems take an operator as a parameter, which the installed provers
cannot instantiate. The sums and the iteration are proved by a smallest counterexample
instead: the set of values for which a statement fails is a set like any other, its smallest
member exists because the order is well founded (`WFMin` with `NatLessThanWellFounded`, or strict
inclusion of finite sets), and the recursive equation leads from it to a smaller one. That the
recursive functions exist is shown first, level by level (`IteratesUpto`, `AddsUpTo`,
`SumUpto`), for which the modules use recursive functions and no `RECURSIVE` operator.

### Only model-checked

- The liveness properties (`SecondaryExpires`, `StakeReturned`, `StuckRecover`, `VacatedWalletReusable`,
  `FirstUpdateCounts`): fairness is about `ENABLED`, which the provers do not handle.
- `TokenFollowsIdentity` in `HolderProgress`, whose next-state relation is another one. There the
  property is checked on the run `progress`; the theorem is about the composed system.
- The three expected violations, which are refuted and not proved.

## 6. Not modelled

- The Groth16 pairing check, hashing, wire offsets, the encodings that
  `verify_proof` and `verify_proof_compact` differ in: a proof that does not verify
  fails its transaction, so the model has only accepted proofs. Hashes are injective.
- `set_encrypted_baseline`: it overwrites an opaque blob of its caller that no instruction reads,
  so a variable for it could only be compared with itself.
- Lamports of wallets and of accounts other than treasury, vault and an unused mint address, compute budgets, events and error codes.
- `challenges` guard nothing: no instruction reads a challenge, and `used` is never set.
  They are modelled as the code has them. `close_challenge` asks only for the
  challenger's signature, although its comment speaks of used or expired ones.
- A clock that steps back. The code saturates or truncates ages in case it does (`BinOf` and `AgeBonus`
  keep that), but a bank's `unix_timestamp` is never less than its parent's, and the model's clock
  keeps to it.
- `challenge_expiry`, `max_trust_score` and `base_trust_increment` of the config are written once, by
  `initialize_protocol`: the last two are constants of `ActivityRing`, the first is
  read by no instruction.
- `build.rs` of the shared crate (program addresses at build time), scripts, migrations of deployed
  accounts by the operators, tests and fixtures.

## 7. Plan

The model covers every instruction but `set_encrypted_baseline`, and the theorems every safety
property of the composed system, the registry and the ring. What is left:

1. *`HolderProgress` as a restriction*: its instructions are those of the composition, so
   `TokenFollowsIdentity` should follow there from a lemma per instruction shared with
   `EntrosProofs`, once these are stated for the accounts alone.
2. *Stronger statements than the runs'*: an exact form of `NoProofSpentTwice` (what is made is spent,
   open or dropped), and that the ring of an identity of the composition satisfies `RingInv`, which
   joins `ActivityProofs` to `EntrosProofs`.
3. *Shorter proofs*: the cases of `LifeSteps` repeat in five lemmas.
