--------------------------- MODULE RefinementProofs ------------------------
(***************************************************************************)
(* The three programs implement IdentityLedger: the initial states map to  *)
(* initial states of the ledger, and every instruction maps to one step of *)
(* it or to none.                                                          *)
(***************************************************************************)
EXTENDS EntrosRefinement, ReceiptProofs

----------------------------------------------------------------------------
(* The people of the ledger                                                *)

\* The mapping as a function of the accounts, before or after a step.
HomeIn(homes, l) ==
    IF \E w \in Wallets : homes[w] = l
      THEN CHOOSE w \in Wallets : homes[w] = l
      ELSE NoPubkey

AccountOf(id, w) ==
    [home |-> w, next |-> id.new_wallet,
     commitment |-> id.current_commitment,
     version |-> id.projection_version,
     earned |-> id.verification_count,
     resetAt |-> id.last_reset_timestamp,
     rebasedAt |-> id.last_rebaseline_timestamp]

PersonIn(homes, ids, l) ==
    LET w == HomeIn(homes, l)
    IN IF w = NoPubkey THEN Nobody ELSE AccountOf(ids[w], w)

\* One wallet at most is the home of a lineage.
OneHome(homes) ==
    \A w, x \in Wallets : homes[w] = homes[x] /\ w # x => homes[w] = 0

\* The mapped person before and after a step, in terms of the accounts.
LEMMA PersonMapped ==
    ASSUME NEW l
    PROVE  /\ PersonOf(l) = PersonIn(lineage, identities, l)
           /\ PersonOf(l)' = PersonIn(lineage', identities', l)
BY DEF PersonOf, PersonIn, HomeOf, HomeIn, PersonAt, AccountOf

\* Who lives at a wallet is what is stored there, and who lives nowhere is
\* nobody.
LEMMA PersonAtHome ==
    ASSUME NEW homes, NEW ids, OneHome(homes), NEW w \in Wallets, homes[w] # 0
    PROVE  PersonIn(homes, ids, homes[w]) = AccountOf(ids[w], w)
<1>1. \A x \in Wallets : homes[x] = homes[w] => x = w
  BY DEF OneHome
<1>2. HomeIn(homes, homes[w]) = w
  BY <1>1 DEF HomeIn
<1> QED
  BY <1>2, SystemConstants DEF PersonIn

\* A lineage at no wallet is mapped to nobody.
LEMMA PersonNowhere ==
    ASSUME NEW homes, NEW ids, NEW l, \A w \in Wallets : homes[w] # l
    PROVE  PersonIn(homes, ids, l) = Nobody
BY DEF PersonIn, HomeIn

\* So a step changes one person if it leaves the others where they are and as
\* they are.
LEMMA OnePerson ==
    ASSUME NEW l \in Lineages, NEW person,
           PersonOf(l)' = person,
           \A m \in Lineages : m # l => PersonOf(m)' = PersonOf(m)
    PROVE  [m \in Lineages |-> PersonOf(m)]'
              = [[m \in Lineages |-> PersonOf(m)] EXCEPT ![l] = person]
OBVIOUS

\* Accounts that read the same are mapped to the same people.
LEMMA SamePeople ==
    ASSUME UNCHANGED lineage,
           \A w \in Wallets : AccountOf(identities'[w], w)
                                = AccountOf(identities[w], w)
    PROVE  [m \in Lineages |-> PersonOf(m)]' = [m \in Lineages |-> PersonOf(m)]
<1>1. ASSUME NEW m \in Lineages PROVE PersonOf(m)' = PersonOf(m)
  <2>1. HomeIn(lineage, m) \in Wallets \/ HomeIn(lineage, m) = NoPubkey
    BY DEF HomeIn
  <2>2. PersonIn(lineage', identities', m) = PersonIn(lineage, identities, m)
    BY <2>1 DEF PersonIn
  <2> QED
    BY <2>2, PersonMapped
<1> QED
  BY <1>1

\* Everybody else is left alone by a step that writes the account of one
\* wallet, where lineage l lives.
LEMMA PersonWritten ==
    ASSUME TypeInv, HomeInv, UNCHANGED lineage,
           NEW w \in Wallets, NEW l \in Lineages, lineage[w] = l, NEW id,
           identities' = [identities EXCEPT ![w] = id]
    PROVE  /\ PersonOf(l) = AccountOf(identities[w], w)
           /\ PersonOf(l)' = AccountOf(id, w)
           /\ \A m \in Lineages : m # l => PersonOf(m)' = PersonOf(m)
<1>0. DOMAIN identities = Wallets /\ OneHome(lineage) /\ l # 0
  BY DEF TypeInv, TypeOK, AnchorTypeOK, HomeInv, LivesAtOneWallet, OneHome,
      Lineages
<1>1. PersonOf(l) = AccountOf(identities[w], w)
  BY <1>0, PersonMapped, PersonAtHome
<1>2. PersonIn(lineage', identities', l) = AccountOf(id, w)
  <2>1. OneHome(lineage') /\ lineage'[w] = l
    BY <1>0
  <2>2. PersonIn(lineage', identities', lineage'[w])
          = AccountOf(identities'[w], w)
    BY <1>0, <2>1, PersonAtHome
  <2> QED
    BY <1>0, <2>1, <2>2
<1>3. ASSUME NEW m \in Lineages, m # l
      PROVE  PersonOf(m)' = PersonOf(m)
  <2>1. HomeIn(lineage, m) \in Wallets \ {w} \/ HomeIn(lineage, m) = NoPubkey
    BY <1>3 DEF HomeIn
  <2>2. PersonIn(lineage', identities', m) = PersonIn(lineage, identities, m)
    BY <1>0, <2>1 DEF PersonIn
  <2> QED
    BY <2>2, PersonMapped
<1> QED
  BY <1>1, <1>2, <1>3, PersonMapped

----------------------------------------------------------------------------
(* The claims of the ledger                                                *)

\* A claim is open when one of the two results that it may stand for is.
OpenAs(x, res, bound) ==
    \E w \in Wallets, n \in Nonces :
        \/ res[<<w, n>>].open /\ x = ClaimOf(w, n, res[<<w, n>>])
        \/ bound[<<w, n>>].open /\ x = ClaimOf(w, n, bound[<<w, n>>])

\* The open claims before and after a step, in terms of the results.
LEMMA ClaimsMapped ==
    ASSUME NEW x
    PROVE  /\ x \in OpenClaims <=> OpenAs(x, results, boundResults)
           /\ x \in OpenClaims' <=> OpenAs(x, results', boundResults')
<1>1. ASSUME NEW res, NEW bound
      PROVE  x \in {ClaimOf(p[1], p[2], res[p]) :
                      p \in {q \in Wallets \X Nonces : res[q].open}}
                   \cup
                   {ClaimOf(p[1], p[2], bound[p]) :
                      p \in {q \in Wallets \X Nonces : bound[q].open}}
              <=> OpenAs(x, res, bound)
  <2>1. ASSUME NEW r
        PROVE  x \in {ClaimOf(p[1], p[2], r[p]) :
                        p \in {q \in Wallets \X Nonces : r[q].open}}
                <=> \E w \in Wallets, n \in Nonces :
                       r[<<w, n>>].open /\ x = ClaimOf(w, n, r[<<w, n>>])
    <3> DEFINE claims == {ClaimOf(p[1], p[2], r[p]) :
                            p \in {q \in Wallets \X Nonces : r[q].open}}
    <3>1. ASSUME NEW w \in Wallets, NEW n \in Nonces, r[<<w, n>>].open,
                 x = ClaimOf(w, n, r[<<w, n>>])
          PROVE  x \in claims
      <4> DEFINE p == <<w, n>>
      <4>1. p \in {q \in Wallets \X Nonces : r[q].open} /\ p[1] = w /\ p[2] = n
        BY <3>1
      <4>2. x = ClaimOf(p[1], p[2], r[p])
        BY <3>1, <4>1
      <4> HIDE DEF p
      <4> QED
        BY <4>1, <4>2
    <3>2. ASSUME x \in claims
          PROVE  \E w \in Wallets, n \in Nonces :
                    r[<<w, n>>].open /\ x = ClaimOf(w, n, r[<<w, n>>])
      <4>1. PICK p \in Wallets \X Nonces : r[p].open /\ x = ClaimOf(p[1], p[2], r[p])
        BY <3>2
      <4>2. PICK w \in Wallets, n \in Nonces : p = <<w, n>>
        OBVIOUS
      <4>3. p[1] = w /\ p[2] = n
        BY <4>2
      <4> QED
        BY <4>1, <4>2, <4>3
    <3> QED
      BY <3>1, <3>2
  <2> QED
    BY <2>1 DEF OpenAs
<1> QED
  BY <1>1 DEF OpenClaims

\* Claims of different results differ.
LEMMA ClaimParts ==
    ASSUME NEW w, NEW n, NEW result
    PROVE  LET x == ClaimOf(w, n, result)
           IN /\ x.wallet = w /\ x.nonce = n
              /\ x.from = result.commitment_prev /\ x.to = result.commitment_new
BY DEF ClaimOf

\* Closing a result withdraws its claim and no other.
LEMMA ClaimCloses ==
    ASSUME TypeInv, BuildInv, NEW w \in Wallets, NEW n \in Nonces, NEW x,
           \/ /\ results[<<w, n>>].open /\ x = ClaimOf(w, n, results[<<w, n>>])
              /\ ResultClosed(w, n) /\ UNCHANGED boundResults
           \/ /\ boundResults[<<w, n>>].open
              /\ x = ClaimOf(w, n, boundResults[<<w, n>>])
              /\ BoundResultClosed(w, n) /\ UNCHANGED results
    PROVE  x \in OpenClaims /\ OpenClaims' = OpenClaims \ {x}
<1>0. DOMAIN results = Wallets \X Nonces /\ DOMAIN boundResults = Wallets \X Nonces
  BY DEF TypeInv, TypeOK, VerifierTypeOK
<1>1. ~NoResult.open /\ ~NoBoundResult.open
  BY DEF NoResult, NoBoundResult
<1>2. OpenAs(x, results, boundResults)
  BY DEF OpenAs
<1>3. ~(results[<<w, n>>].open /\ boundResults[<<w, n>>].open)
  BY DEF BuildInv
<1>4. /\ ~results'[<<w, n>>].open /\ ~boundResults'[<<w, n>>].open
      /\ \A v \in Wallets, m \in Nonces : v # w \/ m # n =>
            /\ results'[<<v, m>>] = results[<<v, m>>]
            /\ boundResults'[<<v, m>>] = boundResults[<<v, m>>]
  BY <1>0, <1>1, <1>3 DEF ResultClosed, BoundResultClosed
<1>5. x.wallet = w /\ x.nonce = n
  BY ClaimParts
<1>6. ASSUME NEW y
      PROVE  OpenAs(y, results', boundResults')
                <=> OpenAs(y, results, boundResults) /\ y # x
  <2>1. ASSUME NEW v \in Wallets, NEW m \in Nonces, v # w \/ m # n,
               \/ y = ClaimOf(v, m, results[<<v, m>>])
               \/ y = ClaimOf(v, m, boundResults[<<v, m>>])
        PROVE  y # x
    BY <1>5, <2>1, ClaimParts
  <2>2. results[<<w, n>>].open => x = ClaimOf(w, n, results[<<w, n>>])
    BY <1>3
  <2>3. boundResults[<<w, n>>].open
          => x = ClaimOf(w, n, boundResults[<<w, n>>])
    BY <1>3
  <2> QED
    BY <1>4, <2>1, <2>2, <2>3 DEF OpenAs
<1> QED
  BY <1>2, <1>6, ClaimsMapped

\* Opening one makes its claim.
LEMMA ClaimOpens ==
    ASSUME TypeInv, NEW w \in Wallets, NEW n \in Nonces, NEW x,
           ~results[<<w, n>>].open, ~boundResults[<<w, n>>].open,
           \A v \in Wallets, m \in Nonces : v # w \/ m # n =>
              /\ results'[<<v, m>>] = results[<<v, m>>]
              /\ boundResults'[<<v, m>>] = boundResults[<<v, m>>],
           \/ /\ results'[<<w, n>>].open
              /\ x = ClaimOf(w, n, results'[<<w, n>>])
              /\ UNCHANGED boundResults
           \/ /\ boundResults'[<<w, n>>].open
              /\ x = ClaimOf(w, n, boundResults'[<<w, n>>])
              /\ UNCHANGED results
    PROVE  /\ \A y \in OpenClaims : y.wallet # x.wallet \/ y.nonce # x.nonce
           /\ OpenClaims' = OpenClaims \cup {x}
<1>1. x.wallet = w /\ x.nonce = n
  BY ClaimParts
<1>2. ASSUME NEW y, OpenAs(y, results, boundResults)
      PROVE  y.wallet # w \/ y.nonce # n
  BY <1>2, ClaimParts DEF OpenAs
<1>3. ASSUME NEW y
      PROVE  OpenAs(y, results', boundResults')
                <=> OpenAs(y, results, boundResults) \/ y = x
  BY DEF OpenAs
<1> QED
  BY <1>1, <1>2, <1>3, ClaimsMapped

\* Untouched results are the same claims.
LEMMA SameClaims ==
    UNCHANGED <<results, boundResults>> => OpenClaims' = OpenClaims
BY DEF OpenClaims

----------------------------------------------------------------------------
(* What the ledger's steps write                                           *)

Persons ==
    [home : Wallets \cup {NoPubkey}, next : Wallets \cup {NoPubkey},
     commitment : AnyCommitment, version : Nat, earned : Nat,
     resetAt : Nat, rebasedAt : Nat]

\* An account is mapped to a well-formed person.
LEMMA AccountType ==
    ASSUME NEW id \in Identities, NEW w \in Wallets
    PROVE  AccountOf(id, w) \in Persons
<1>1. /\ id.new_wallet \in Wallets \cup {NoPubkey}
      /\ id.current_commitment \in AnyCommitment
      /\ id.projection_version \in Nat
  BY Constants DEF Identities
<1> QED
  BY <1>1, IdentityTimes DEF AccountOf, Persons

\* Nobody is a well-formed person.
LEMMA NobodyType == Nobody \in Persons
BY DEF Nobody, Persons, AnyCommitment

\* Every lineage is mapped to a well-formed person.
LEMMA PersonType ==
    ASSUME TypeInv, NEW l \in Lineages
    PROVE  PersonOf(l) \in Persons
<1>1. identities \in [Wallets -> Identities]
  BY DEF TypeInv, TypeOK, AnchorTypeOK
<1>2. HomeIn(lineage, l) \in Wallets \/ HomeIn(lineage, l) = NoPubkey
  BY DEF HomeIn
<1>3. PersonIn(lineage, identities, l) \in Persons
  BY <1>1, <1>2, AccountType, NobodyType DEF PersonIn
<1> QED
  BY <1>3, PersonMapped

\* Persons that agree in every field are equal.
LEMMA SamePerson ==
    ASSUME NEW p \in Persons, NEW q \in Persons,
           p.home = q.home, p.next = q.next, p.commitment = q.commitment,
           p.version = q.version, p.earned = q.earned,
           p.resetAt = q.resetAt, p.rebasedAt = q.rebasedAt
    PROVE  p = q
BY DEF Persons

\* What the ledger's steps do to the people, by name.
Put(f, l, p) == [f EXCEPT ![l] = p]
Earned(f, l, c) == [f EXCEPT ![l].commitment = c, ![l].earned = @ + 1]
Forgotten(f, l, c, v, t) ==
    [f EXCEPT ![l].commitment = c, ![l].earned = 0, ![l].version = v,
              ![l].resetAt = t]
Rebased(f, l, c, v, t) ==
    [f EXCEPT ![l].commitment = c, ![l].version = v, ![l].rebasedAt = t]
Agreed(f, l, n) == [f EXCEPT ![l].next = n]
Moved(f, l, h) == [f EXCEPT ![l].home = h, ![l].next = NoPubkey]
Newborn(h, c, v) == [Nobody EXCEPT !.home = h, !.commitment = c,
                                   !.version = v]

\* One lemma per step: writing the fields it names is replacing the person by
\* one that differs in these fields only.
LEMMA WriteEarned ==
    ASSUME NEW f \in [Lineages -> Persons], NEW l \in Lineages,
           NEW p \in Persons, p.home = f[l].home, p.next = f[l].next,
           p.version = f[l].version, p.earned = f[l].earned + 1,
           p.resetAt = f[l].resetAt, p.rebasedAt = f[l].rebasedAt
    PROVE  Put(f, l, p) = Earned(f, l, p.commitment)
<1> DEFINE c == p.commitment
           a == [f[l] EXCEPT !.commitment = c]
           q == [a EXCEPT !.earned = f[l].earned + 1]
<1>0. c \in AnyCommitment /\ f[l].earned \in Nat
  BY DEF Persons
<1> HIDE DEF c
<1>1. /\ a \in Persons
      /\ a.home = f[l].home /\ a.next = f[l].next /\ a.commitment = c
      /\ a.version = f[l].version /\ a.earned = f[l].earned
      /\ a.resetAt = f[l].resetAt /\ a.rebasedAt = f[l].rebasedAt
  BY <1>0 DEF Persons
<1>2. [f EXCEPT ![l].commitment = c, ![l].earned = @ + 1] = [f EXCEPT ![l] = q]
  BY <1>1
<1> HIDE DEF a
<1>3. /\ q \in Persons
      /\ q.home = f[l].home /\ q.next = f[l].next /\ q.commitment = c
      /\ q.version = f[l].version /\ q.earned = f[l].earned + 1
      /\ q.resetAt = f[l].resetAt /\ q.rebasedAt = f[l].rebasedAt
  BY <1>0, <1>1 DEF Persons
<1> HIDE DEF q
<1>4. p = q
  BY <1>3, SamePerson DEF c
<1> QED
  BY <1>2, <1>4 DEF Put, Earned, c

\* The fields reset_identity_state leaves are the ledger's Forgotten.
LEMMA WriteForgotten ==
    ASSUME NEW f \in [Lineages -> Persons], NEW l \in Lineages,
           NEW p \in Persons, p.home = f[l].home, p.next = f[l].next,
           p.earned = 0, p.rebasedAt = f[l].rebasedAt
    PROVE  Put(f, l, p) = Forgotten(f, l, p.commitment, p.version, p.resetAt)
<1> DEFINE q(c, v, t) == [f[l] EXCEPT !.commitment = c, !.earned = 0,
                                      !.version = v, !.resetAt = t]
<1>1. ASSUME NEW c \in AnyCommitment, NEW v \in Nat, NEW t \in Nat
      PROVE  q(c, v, t) \in Persons
  BY <1>1 DEF Persons
<1>2. ASSUME NEW c \in AnyCommitment, NEW v \in Nat, NEW t \in Nat
      PROVE  /\ q(c, v, t).home = f[l].home /\ q(c, v, t).next = f[l].next
             /\ q(c, v, t).commitment = c /\ q(c, v, t).version = v
             /\ q(c, v, t).earned = 0 /\ q(c, v, t).resetAt = t
             /\ q(c, v, t).rebasedAt = f[l].rebasedAt
  BY <1>2 DEF Persons
<1>3. [f EXCEPT ![l].commitment = p.commitment, ![l].earned = 0,
                ![l].version = p.version, ![l].resetAt = p.resetAt]
         = [f EXCEPT ![l] = q(p.commitment, p.version, p.resetAt)]
  OBVIOUS
<1>4. /\ p.commitment \in AnyCommitment /\ p.version \in Nat
      /\ p.resetAt \in Nat
  BY DEF Persons
<1> HIDE DEF q
<1>5. p = q(p.commitment, p.version, p.resetAt)
  BY <1>1, <1>2, <1>4, SamePerson
<1> QED
  BY <1>3, <1>5 DEF Put, Forgotten

\* The fields rebaseline_projection leaves are the ledger's Rebased.
LEMMA WriteRebased ==
    ASSUME NEW f \in [Lineages -> Persons], NEW l \in Lineages,
           NEW p \in Persons, p.home = f[l].home, p.next = f[l].next,
           p.earned = f[l].earned, p.resetAt = f[l].resetAt
    PROVE  Put(f, l, p) = Rebased(f, l, p.commitment, p.version, p.rebasedAt)
<1> DEFINE q(c, v, t) == [f[l] EXCEPT !.commitment = c, !.version = v,
                                      !.rebasedAt = t]
<1>1. ASSUME NEW c \in AnyCommitment, NEW v \in Nat, NEW t \in Nat
      PROVE  q(c, v, t) \in Persons
  BY <1>1 DEF Persons
<1>2. ASSUME NEW c \in AnyCommitment, NEW v \in Nat, NEW t \in Nat
      PROVE  /\ q(c, v, t).home = f[l].home /\ q(c, v, t).next = f[l].next
             /\ q(c, v, t).commitment = c /\ q(c, v, t).version = v
             /\ q(c, v, t).earned = f[l].earned
             /\ q(c, v, t).resetAt = f[l].resetAt
             /\ q(c, v, t).rebasedAt = t
  BY <1>2 DEF Persons
<1>3. [f EXCEPT ![l].commitment = p.commitment, ![l].version = p.version,
                ![l].rebasedAt = p.rebasedAt]
         = [f EXCEPT ![l] = q(p.commitment, p.version, p.rebasedAt)]
  OBVIOUS
<1>4. /\ p.commitment \in AnyCommitment /\ p.version \in Nat
      /\ p.rebasedAt \in Nat
  BY DEF Persons
<1> HIDE DEF q
<1>5. p = q(p.commitment, p.version, p.rebasedAt)
  BY <1>1, <1>2, <1>4, SamePerson
<1> QED
  BY <1>3, <1>5 DEF Put, Rebased

\* The fields migrate_identity leaves are the ledger's Moved.
LEMMA WriteHome ==
    ASSUME NEW f \in [Lineages -> Persons], NEW l \in Lineages,
           NEW p \in Persons, p.next = NoPubkey,
           p.commitment = f[l].commitment, p.version = f[l].version,
           p.earned = f[l].earned, p.resetAt = f[l].resetAt,
           p.rebasedAt = f[l].rebasedAt
    PROVE  Put(f, l, p) = Moved(f, l, p.home)
<1> DEFINE q(h) == [f[l] EXCEPT !.home = h, !.next = NoPubkey]
<1>1. ASSUME NEW h \in Wallets \cup {NoPubkey} PROVE q(h) \in Persons
  BY <1>1 DEF Persons
<1>2. ASSUME NEW h \in Wallets \cup {NoPubkey}
      PROVE  /\ q(h).home = h /\ q(h).next = NoPubkey
             /\ q(h).commitment = f[l].commitment
             /\ q(h).version = f[l].version /\ q(h).earned = f[l].earned
             /\ q(h).resetAt = f[l].resetAt
             /\ q(h).rebasedAt = f[l].rebasedAt
  BY <1>2 DEF Persons
<1>3. [f EXCEPT ![l].home = p.home, ![l].next = NoPubkey]
         = [f EXCEPT ![l] = q(p.home)]
  OBVIOUS
<1>4. p.home \in Wallets \cup {NoPubkey}
  BY DEF Persons
<1> HIDE DEF q
<1>5. p = q(p.home)
  BY <1>1, <1>2, <1>4, SamePerson
<1> QED
  BY <1>3, <1>5 DEF Put, Moved

\* The fields authorize_new_wallet leaves are the ledger's Agreed.
LEMMA WriteNext ==
    ASSUME NEW f \in [Lineages -> Persons], NEW l \in Lineages,
           NEW p \in Persons, p.home = f[l].home,
           p.commitment = f[l].commitment, p.version = f[l].version,
           p.earned = f[l].earned, p.resetAt = f[l].resetAt,
           p.rebasedAt = f[l].rebasedAt
    PROVE  Put(f, l, p) = Agreed(f, l, p.next)
<1> DEFINE q(n) == [f[l] EXCEPT !.next = n]
<1>1. ASSUME NEW n \in Wallets \cup {NoPubkey}
      PROVE  /\ q(n) \in Persons
             /\ q(n).home = f[l].home /\ q(n).next = n
             /\ q(n).commitment = f[l].commitment
             /\ q(n).version = f[l].version /\ q(n).earned = f[l].earned
             /\ q(n).resetAt = f[l].resetAt
             /\ q(n).rebasedAt = f[l].rebasedAt
  BY <1>1 DEF Persons
<1>2. ASSUME NEW n
      PROVE  [f EXCEPT ![l].next = n] = [f EXCEPT ![l] = q(n)]
  OBVIOUS
<1>3. p.next \in Wallets \cup {NoPubkey}
  BY DEF Persons
<1> HIDE DEF q
<1>4. p = q(p.next)
  BY <1>1, <1>3, SamePerson
<1> QED
  BY <1>2, <1>4 DEF Put, Agreed

\* The fields mint_anchor leaves are the ledger's Newborn.
LEMMA WriteNew ==
    ASSUME NEW p \in Persons, p.next = NoPubkey,
           p.earned = 0, p.resetAt = 0, p.rebasedAt = 0
    PROVE  p = Newborn(p.home, p.commitment, p.version)
<1>1. ASSUME NEW h \in Wallets \cup {NoPubkey}, NEW c \in AnyCommitment,
             NEW v \in Nat
      PROVE  Newborn(h, c, v) \in Persons
  BY <1>1, NobodyType DEF Persons, Newborn
<1>2. ASSUME NEW h, NEW c, NEW v
      PROVE  LET q == Newborn(h, c, v)
             IN /\ q.home = h /\ q.next = NoPubkey
                /\ q.commitment = c /\ q.version = v
                /\ q.earned = 0 /\ q.resetAt = 0 /\ q.rebasedAt = 0
  BY DEF Nobody, Newborn
<1>3. /\ p.home \in Wallets \cup {NoPubkey}
      /\ p.commitment \in AnyCommitment /\ p.version \in Nat
  BY DEF Persons
<1> QED
  BY <1>1, <1>2, <1>3, SamePerson

----------------------------------------------------------------------------
(* Initial states                                                          *)

\* Initial states of the programs are mapped to initial states of the ledger.
LEMMA LedgerInit == Init => Ledger!Init
<1> SUFFICES ASSUME Init PROVE Ledger!Init
  OBVIOUS
<1>1. now \in Nat
  BY TypeInit, NowType DEF TypeInv, TypeOK
<1>2. /\ config.current_projection_version = 0
      /\ config.minimum_supported_projection_version = 0
  BY InitFields DEF Init
<1>3. OpenClaims = {}
  <2>1. \A w \in Wallets, n \in Nonces : /\ ~results[<<w, n>>].open
                                         /\ ~boundResults[<<w, n>>].open
    BY DEF Init, VerifierInit, NoResult, NoBoundResult
  <2> QED
    BY <2>1, ClaimsMapped DEF OpenAs
<1>4. Nobody = Ledger!Unborn
  BY DEF Nobody, Ledger!Unborn
<1>5. \A w \in Wallets : lineage[w] = IF Exists(w) THEN 1 ELSE 0
  BY DEF Init
<1>6. ASSUME NEW l \in Lineages, l # 1 PROVE PersonOf(l) = Nobody
  <2>1. \A w \in Wallets : lineage[w] # l
    BY <1>5, <1>6 DEF Lineages
  <2> QED
    BY <2>1, PersonMapped, PersonNowhere
<1>7. PersonOf(1) = Nobody \/ \E w \in Wallets, c \in Commitments :
          /\ PersonOf(1).earned \in Nat /\ PersonOf(1).resetAt \in 0 .. now
          /\ PersonOf(1) = Ledger!Inherited(w, c, PersonOf(1).earned,
                                            PersonOf(1).resetAt)
  <2>1. CASE \A w \in Wallets : lineage[w] # 1
    BY <2>1, PersonMapped, PersonNowhere
  <2>2. ASSUME NEW w \in Wallets, lineage[w] = 1
        PROVE  \E c \in Commitments :
                  /\ PersonOf(1).earned \in Nat /\ PersonOf(1).resetAt \in 0 .. now
                  /\ PersonOf(1) = Ledger!Inherited(w, c, PersonOf(1).earned,
                                                    PersonOf(1).resetAt)
    <3>1. Exists(w) /\ OneHome(lineage)
      BY <1>5, <2>2, HomeInit DEF HomeInv, LivesAtOneWallet, OneHome
    <3>2. PICK c \in Commitments, len \in OldIdentityLens, life \in OldLives :
              identities[w] = InheritedIdentity(w, c, len, life)
      BY <3>1 DEF Init, AnchorInit, Exists, NoIdentity
    <3>3. PersonOf(1) = AccountOf(identities[w], w)
      BY <2>2, <3>1, PersonMapped, PersonAtHome
    <3> DEFINE p == AccountOf(identities[w], w)
               q == [Nobody EXCEPT !.home = w, !.commitment = c,
                                   !.earned = life.count,
                                   !.resetAt = life.resetAt]
    <3>4. /\ p.home = w /\ p.next = NoPubkey /\ p.commitment = c
          /\ p.version = 0 /\ p.earned = life.count
          /\ p.resetAt = life.resetAt /\ p.rebasedAt = 0
      BY <3>2 DEF AccountOf, InheritedIdentity, NoIdentity
    <3>5. life.count \in Nat /\ life.resetAt \in 0 .. now
      BY Constants, SystemConstants DEF Init, RegistryInit
    <3>6. p = q
      <4>1. p \in Persons
        BY TypeInit, AccountType DEF TypeInv, TypeOK, AnchorTypeOK
      <4>2. q \in Persons
        <5>1. ASSUME NEW n \in Nat, NEW t \in Nat
              PROVE  [Nobody EXCEPT !.home = w, !.commitment = c, !.earned = n,
                                    !.resetAt = t] \in Persons
          BY NobodyType DEF Persons, AnyCommitment
        <5>2. life.count \in Nat /\ life.resetAt \in Nat
          BY <1>1, <3>5
        <5> QED
          BY <5>1, <5>2
      <4>3. /\ q.home = w /\ q.next = NoPubkey /\ q.commitment = c
            /\ q.version = 0 /\ q.earned = life.count
            /\ q.resetAt = life.resetAt /\ q.rebasedAt = 0
        BY DEF Nobody
      <4> HIDE DEF p, q
      <4> QED
        BY <3>4, <4>1, <4>2, <4>3, SamePerson
    <3>7. q = Ledger!Inherited(w, c, life.count, life.resetAt)
      BY <1>4 DEF Ledger!Inherited
    <3> HIDE DEF p, q
    <3>8. PersonOf(1) = p
      BY <3>3 DEF p
    <3> QED
      BY <3>4, <3>5, <3>6, <3>7, <3>8
  <2> QED
    BY <2>1, <2>2
<1>8. \A l, m \in Lineages : Ledger!Lives(l) /\ Ledger!Lives(m) => l = m
  <2>1. ASSUME NEW l \in Lineages, l # 1 PROVE ~Ledger!Lives(l)
    BY <1>6, <2>1 DEF Ledger!Lives, Nobody
  <2> QED
    BY <2>1
<1>9. \A l \in Lineages :
          \/ PersonOf(l) = Ledger!Unborn
          \/ /\ PersonOf(l).earned \in Nat
             /\ PersonOf(l).resetAt \in 0 .. now
             /\ \E w \in Wallets, c \in Commitments :
                   PersonOf(l) = Ledger!Inherited(w, c, PersonOf(l).earned,
                                                  PersonOf(l).resetAt)
  BY <1>4, <1>6, <1>7
<1> HIDE DEF PersonOf
<1> QED
  BY <1>1, <1>2, <1>3, <1>8, <1>9 DEF Ledger!Init

----------------------------------------------------------------------------
(* Steps                                                                   *)

People == [l \in Lineages |-> PersonOf(l)]

\* The mapped people are well formed.
LEMMA PeopleType == TypeInv => People \in [Lineages -> Persons]
BY PersonType DEF People

\* The account of wallet w, where lineage l lives, is written.
LEMMA AccountWritten ==
    ASSUME TypeInv, HomeInv, lineage' = lineage,
           NEW w \in Wallets, NEW l \in Lineages, lineage[w] = l,
           NEW id \in Identities, identities' = Put(identities, w, id)
    PROVE  /\ People' = Put(People, l, AccountOf(id, w))
           /\ People[l] = AccountOf(identities[w], w)
           /\ AccountOf(id, w) \in Persons
           /\ Ledger!Lives(l)
<1>1. /\ PersonOf(l) = AccountOf(identities[w], w)
      /\ PersonOf(l)' = AccountOf(id, w)
      /\ \A m \in Lineages : m # l => PersonOf(m)' = PersonOf(m)
  BY PersonWritten DEF Put
<1>2. People' = Put(People, l, AccountOf(id, w))
  BY <1>1, OnePerson DEF People, Put
<1>3. PersonOf(l).home # NoPubkey
  BY <1>1, SystemConstants DEF AccountOf
<1> QED
  BY <1>1, <1>2, <1>3, AccountType DEF People, Ledger!Lives

\* A wallet with an identity is the home of some lineage.
LEMMA Resident ==
    ASSUME TypeInv, HomeInv, NEW w \in Wallets, Exists(w)
    PROVE  \E l \in Lineages : lineage[w] = l
BY DEF TypeInv, TypeOK, HistoryTypeOK, HomeInv, LivesAtOneWallet, Lineages

\* reset_identity_state is the ledger's Forget.
LEMMA ResetMaps ==
    ASSUME LifeFacts, NEW w \in Wallets, NEW c \in AnyCommitment,
           NEW p \in Projections, NEW r \in signed, Reset(w, c, p, r)
    PROVE  Ledger!Next
<1>0. TypeInv /\ HomeInv /\ identities[w] \in Identities
  BY DEF LifeFacts, TypeInv, TypeOK, AnchorTypeOK
<1>1. PICK id \in Identities : id = ResetIdentity(w, c)
  BY <1>0, ResetIdentityType DEF TypeInv, TypeOK
<1>2. /\ Exists(w) /\ c \in Commitments
      /\ now - identities[w].last_reset_timestamp >= ResetCooldown
      /\ UNCHANGED <<now, config, results, boundResults>>
  BY DEF Reset, ResetIdentityState, AnchorFrame, AnyCommitment
<1>3. lineage' = lineage /\ identities' = Put(identities, w, id)
  BY <1>1 DEF Reset, ResetIdentityState, Put
<1>4. PICK l \in Lineages : lineage[w] = l
  BY <1>0, <1>2, Resident
<1>5. /\ People' = Put(People, l, AccountOf(id, w))
      /\ People[l] = AccountOf(identities[w], w)
      /\ AccountOf(id, w) \in Persons
      /\ Ledger!Lives(l)
  BY <1>0, <1>3, <1>4, AccountWritten
<1>6. PICK q \in Persons : q = AccountOf(id, w)
  BY <1>5
<1>7. /\ q.home = People[l].home /\ q.next = People[l].next /\ q.earned = 0
      /\ q.commitment = c /\ q.version = CurrentProjection
      /\ q.resetAt = now /\ q.rebasedAt = People[l].rebasedAt
      /\ People[l].resetAt = identities[w].last_reset_timestamp
  BY <1>0, <1>1, <1>5, <1>6, ResetFields DEF AccountOf
<1>8. People' = Forgotten(People, l, c, CurrentProjection, now)
  <2>1. People \in [Lineages -> Persons]
    BY <1>0, PeopleType
  <2> QED
    BY <1>5, <1>6, <1>7, <2>1, WriteForgotten
<1>9. OpenClaims' = OpenClaims
  BY <1>2, SameClaims
<1>10. Ledger!Forget(l, c)
  BY <1>2, <1>5, <1>6, <1>7, <1>8, <1>9
  DEF Ledger!Forget, People, Forgotten, CurrentProjection
<1> QED
  BY <1>2, <1>10 DEF Ledger!Next

\* rebaseline_projection is a rebaseline of the ledger.
LEMMA RebaselineMaps ==
    ASSUME LifeFacts, NEW w \in Wallets, NEW c \in AnyCommitment,
           NEW p \in Projections, NEW r \in signed, Rebaseline(w, c, p, r)
    PROVE  Ledger!Next
<1>0. TypeInv /\ HomeInv /\ identities[w] \in Identities
  BY DEF LifeFacts, TypeInv, TypeOK, AnchorTypeOK
<1>1. PICK id \in Identities : id = RebaselinedIdentity(w, c)
  BY <1>0, RebaselinedIdentityType DEF TypeInv, TypeOK
<1>2. /\ Exists(w) /\ c \in Commitments
      /\ identities[w].projection_version < CurrentProjection
      /\ now - identities[w].last_rebaseline_timestamp >= RebaselineCooldown
      /\ UNCHANGED <<now, config, results, boundResults>>
  BY DEF Rebaseline, RebaselineAnchor, RebaselineDue, AnchorFrame,
         AnyCommitment
<1>3. lineage' = lineage /\ identities' = Put(identities, w, id)
  BY <1>1 DEF Rebaseline, RebaselineAnchor, Put
<1>4. PICK l \in Lineages : lineage[w] = l
  BY <1>0, <1>2, Resident
<1>5. /\ People' = Put(People, l, AccountOf(id, w))
      /\ People[l] = AccountOf(identities[w], w)
      /\ AccountOf(id, w) \in Persons
      /\ Ledger!Lives(l)
  BY <1>0, <1>3, <1>4, AccountWritten
<1>6. PICK q \in Persons : q = AccountOf(id, w)
  BY <1>5
<1>7. /\ q.home = People[l].home /\ q.next = People[l].next
      /\ q.earned = People[l].earned
      /\ q.commitment = c /\ q.version = CurrentProjection
      /\ q.resetAt = People[l].resetAt /\ q.rebasedAt = now
      /\ People[l].rebasedAt = identities[w].last_rebaseline_timestamp
      /\ People[l].version = identities[w].projection_version
  BY <1>0, <1>1, <1>5, <1>6, RebaselinedFields DEF AccountOf
<1>8. People' = Rebased(People, l, c, CurrentProjection, now)
  <2>1. People \in [Lineages -> Persons]
    BY <1>0, PeopleType
  <2> QED
    BY <1>5, <1>6, <1>7, <2>1, WriteRebased
<1>9. OpenClaims' = OpenClaims
  BY <1>2, SameClaims
<1>10. Ledger!Rebaseline(l, c)
  BY <1>2, <1>5, <1>6, <1>7, <1>8, <1>9
  DEF Ledger!Rebaseline, People, Rebased, CurrentProjection
<1> QED
  BY <1>2, <1>10 DEF Ledger!Next

\* Either kind of update spends an open claim on the identity it was made for.
LEMMA UpdateMaps ==
    ASSUME LifeFacts, BuildInv, NEW w \in Wallets, NEW n \in Nonces,
           NEW r \in signed, UpdateCompact(w, n, r) \/ UpdateBound(w, n, r)
    PROVE  Ledger!Next
<1>0. TypeInv /\ HomeInv /\ identities[w] \in Identities
  BY DEF LifeFacts, TypeInv, TypeOK, AnchorTypeOK
<1>1. PICK result : IF RequestBound THEN result = boundResults[<<w, n>>]
                                    ELSE result = results[<<w, n>>]
  OBVIOUS
<1>2. /\ UpdateReady(w)
      /\ result.commitment_new \in AnyCommitment
      /\ UpdateAllowed(w, result.commitment_new, result.commitment_prev, r)
      /\ identities' = Put(identities, w,
                           UpdatedIdentity(w, result.commitment_new))
      /\ \/ /\ results[<<w, n>>].open /\ result = results[<<w, n>>]
            /\ ResultClosed(w, n) /\ UNCHANGED boundResults
         \/ /\ boundResults[<<w, n>>].open /\ result = boundResults[<<w, n>>]
            /\ BoundResultClosed(w, n) /\ UNCHANGED results
  <2>1. CASE UpdateCompact(w, n, r)
    <3>1. results[<<w, n>>].commitment_new \in AnyCommitment
      BY <1>0 DEF TypeInv, TypeOK, VerifierTypeOK
    <3> QED
      BY <1>1, <2>1, <3>1
      DEF UpdateCompact, UpdateAnchorCompact, ResultUsable, Put
  <2>2. CASE UpdateBound(w, n, r)
    <3>1. boundResults[<<w, n>>].commitment_new \in AnyCommitment
      BY <1>0 DEF TypeInv, TypeOK, VerifierTypeOK
    <3> QED
      BY <1>1, <2>2, <3>1
      DEF UpdateBound, UpdateAnchorBound, BoundResultUsable, Put
  <2> QED
    BY <2>1, <2>2
<1>3. /\ Exists(w) /\ ProjectionSupported(identities[w].projection_version)
      /\ result.commitment_prev = identities[w].current_commitment
      /\ result.commitment_new # result.commitment_prev
      /\ identities[w].verification_count < MaxCount
      /\ r \in Receipts
  BY <1>0, <1>2
  DEF UpdateReady, UpdateAllowed, TypeInv, TypeOK, AnchorTypeOK
<1>4. lineage' = lineage /\ UNCHANGED <<now, config>>
  BY DEF UpdateCompact, UpdateBound, UpdateStep, AnchorFrame
<1>5. PICK id \in Identities : id = UpdatedIdentity(w, result.commitment_new)
  BY <1>0, <1>2, <1>3, UpdatedIdentityType DEF TypeInv, TypeOK
<1>6. PICK l \in Lineages : lineage[w] = l
  BY <1>0, <1>3, Resident
<1>7. /\ People' = Put(People, l, AccountOf(id, w))
      /\ People[l] = AccountOf(identities[w], w)
      /\ AccountOf(id, w) \in Persons
      /\ Ledger!Lives(l)
  BY <1>0, <1>2, <1>4, <1>5, <1>6, AccountWritten
<1>8. PICK q \in Persons : q = AccountOf(id, w)
  BY <1>7
<1>9. /\ q.home = People[l].home /\ q.next = People[l].next
      /\ q.earned = People[l].earned + 1
      /\ q.commitment = result.commitment_new
      /\ q.version = People[l].version
      /\ q.resetAt = People[l].resetAt /\ q.rebasedAt = People[l].rebasedAt
      /\ People[l].home = w
      /\ People[l].commitment = identities[w].current_commitment
      /\ People[l].version = identities[w].projection_version
  BY <1>0, <1>5, <1>7, <1>8, UpdatedFields DEF AccountOf
<1>10. People' = Earned(People, l, result.commitment_new)
  <2>1. People \in [Lineages -> Persons]
    BY <1>0, PeopleType
  <2> QED
    BY <1>7, <1>8, <1>9, <2>1, WriteEarned
<1>11. PICK x : x = ClaimOf(w, n, result)
  OBVIOUS
<1>12. x \in OpenClaims /\ OpenClaims' = OpenClaims \ {x}
  BY <1>0, <1>2, <1>11, ClaimCloses
<1>13. /\ x.wallet = w /\ x.from = result.commitment_prev
       /\ x.to = result.commitment_new
  BY <1>11, ClaimParts
<1>14. People[l].version \in config.minimum_supported_projection_version
                              .. config.current_projection_version
  <2>1. /\ config.current_projection_version \in Nat
        /\ config.minimum_supported_projection_version \in Nat
        /\ identities[w].projection_version \in Nat
    BY <1>0, Constants
    DEF TypeInv, TypeOK, RegistryTypeOK, Configs, Identities
  <2> QED
    BY <1>3, <1>9, <2>1 DEF ProjectionSupported
<1>15. Ledger!Earn(l, x)
  BY <1>3, <1>4, <1>7, <1>9, <1>10, <1>12, <1>13, <1>14
  DEF Ledger!Earn, People, Earned
<1> QED
  BY <1>12, <1>15 DEF Ledger!Next

\* authorize_new_wallet is an agreement of the ledger.
LEMMA AuthorizeMaps ==
    ASSUME LifeFacts, NEW w \in Wallets, NEW new \in Wallets, Authorize(w, new)
    PROVE  Ledger!Next
<1>0. TypeInv /\ HomeInv /\ identities \in [Wallets -> Identities]
  BY DEF LifeFacts, TypeInv, TypeOK, AnchorTypeOK
<1>1. PICK id : id = [identities[w] EXCEPT !.new_wallet = new]
  OBVIOUS
<1>2. /\ id \in Identities
      /\ id.new_wallet = new
      /\ id.current_commitment = identities[w].current_commitment
      /\ id.projection_version = identities[w].projection_version
      /\ id.verification_count = identities[w].verification_count
      /\ id.last_reset_timestamp = identities[w].last_reset_timestamp
      /\ id.last_rebaseline_timestamp
            = identities[w].last_rebaseline_timestamp
  BY <1>0, <1>1 DEF Identities
<1>3. /\ Exists(w) /\ lineage' = lineage
      /\ UNCHANGED <<now, config, results, boundResults>>
  BY SystemConstants
  DEF Authorize, AuthorizeNewWallet, AnchorFrame, historyVars, Readable, Exists
<1>4. identities' = Put(identities, w, id)
  BY <1>0, <1>1 DEF Authorize, AuthorizeNewWallet, Put
<1>5. PICK l \in Lineages : lineage[w] = l
  BY <1>0, <1>3, Resident
<1>6. /\ People' = Put(People, l, AccountOf(id, w))
      /\ People[l] = AccountOf(identities[w], w)
      /\ AccountOf(id, w) \in Persons
      /\ Ledger!Lives(l)
  BY <1>0, <1>2, <1>3, <1>4, <1>5, AccountWritten
<1>7. PICK q \in Persons : q = AccountOf(id, w)
  BY <1>6
<1>8. /\ q.home = People[l].home /\ q.next = new
      /\ q.commitment = People[l].commitment
      /\ q.version = People[l].version /\ q.earned = People[l].earned
      /\ q.resetAt = People[l].resetAt /\ q.rebasedAt = People[l].rebasedAt
  BY <1>2, <1>6, <1>7 DEF AccountOf
<1>9. People' = Agreed(People, l, new)
  <2>1. People \in [Lineages -> Persons]
    BY <1>0, PeopleType
  <2> QED
    BY <1>6, <1>7, <1>8, <2>1, WriteNext
<1>10. OpenClaims' = OpenClaims
  BY <1>3, SameClaims
<1>11. Ledger!Agree(l, new)
  BY <1>3, <1>6, <1>9, <1>10 DEF Ledger!Agree, People, Agreed
<1> QED
  BY <1>11 DEF Ledger!Next

\* Where somebody lives, or that nobody does, says who it is.
LEMMA PersonCases ==
    ASSUME NEW homes, NEW ids, OneHome(homes), NEW l, l # 0
    PROVE  \/ \E w \in Wallets : /\ homes[w] = l
                                 /\ PersonIn(homes, ids, l)
                                       = AccountOf(ids[w], w)
           \/ /\ \A w \in Wallets : homes[w] # l
              /\ PersonIn(homes, ids, l) = Nobody
<1>1. ASSUME NEW w \in Wallets, homes[w] = l
      PROVE  PersonIn(homes, ids, l) = AccountOf(ids[w], w)
  <2>1. PersonIn(homes, ids, homes[w]) = AccountOf(ids[w], w)
    BY <1>1, PersonAtHome
  <2> QED
    BY <1>1, <2>1
<1> QED
  BY <1>1, PersonNowhere

\* So nobody changes whose home and account stay.
LEMMA LeftAlone ==
    ASSUME OneHome(lineage), OneHome(lineage'), NEW m \in Lineages,
           \A x \in Wallets : (lineage[x] = m \/ lineage'[x] = m) =>
              lineage'[x] = lineage[x] /\ identities'[x] = identities[x]
    PROVE  PersonOf(m)' = PersonOf(m)
<1>0. m # 0
  BY DEF Lineages
<1>1. \/ \E w \in Wallets : /\ lineage[w] = m
                            /\ PersonIn(lineage, identities, m)
                                  = AccountOf(identities[w], w)
      \/ /\ \A w \in Wallets : lineage[w] # m
         /\ PersonIn(lineage, identities, m) = Nobody
  BY <1>0, PersonCases
<1>2. \/ \E w \in Wallets : /\ lineage'[w] = m
                            /\ PersonIn(lineage', identities', m)
                                  = AccountOf(identities'[w], w)
      \/ /\ \A w \in Wallets : lineage'[w] # m
         /\ PersonIn(lineage', identities', m) = Nobody
  BY <1>0, PersonCases
<1>3. \A w, x \in Wallets : lineage[w] = m /\ lineage[x] = m => w = x
  BY <1>0 DEF OneHome
<1>4. PersonIn(lineage', identities', m) = PersonIn(lineage, identities, m)
  BY <1>1, <1>2, <1>3
<1> QED
  BY <1>4, PersonMapped

\* A wallet without an identity account is free in the ledger.
LEMMA FreeWallet ==
    ASSUME TypeInv, HomeInv, NEW w \in Wallets, ~Exists(w)
    PROVE  Ledger!Free(w)
<1>1. OneHome(lineage) /\ lineage[w] = 0
  BY DEF HomeInv, LivesAtOneWallet, OneHome
<1>2. ASSUME NEW l \in Lineages PROVE PersonOf(l).home # w
  <2>1. l # 0
    BY DEF Lineages
  <2>2. \/ \E x \in Wallets \ {w} :
              PersonIn(lineage, identities, l) = AccountOf(identities[x], x)
        \/ PersonIn(lineage, identities, l) = Nobody
    BY <1>1, <2>1, PersonCases
  <2>3. PersonIn(lineage, identities, l).home # w
    BY <2>2, SystemConstants DEF AccountOf, Nobody
  <2> QED
    BY <2>3, PersonMapped
<1> QED
  BY <1>2 DEF Ledger!Free

\* A lineage settles at wallet w, and the others stay where they are.
LEMMA Settled ==
    ASSUME HomeInv, HomeInv', NEW w \in Wallets, NEW l \in Lineages,
           NEW id, lineage'[w] = l, identities'[w] = id,
           \A m \in Lineages : m # l => PersonOf(m)' = PersonOf(m)
    PROVE  People' = Put(People, l, AccountOf(id, w))
<1>1. OneHome(lineage') /\ lineage'[w] # 0
  BY DEF HomeInv, LivesAtOneWallet, OneHome, Lineages
<1>2. PersonIn(lineage', identities', lineage'[w])
        = AccountOf(identities'[w], w)
  BY <1>1, PersonAtHome
<1>3. PersonIn(lineage', identities', l) = AccountOf(id, w)
  BY <1>2
<1>4. PersonOf(l)' = AccountOf(id, w)
  BY <1>3, PersonMapped
<1> QED
  BY <1>4, OnePerson DEF People, Put

\* mint_anchor is a registration of the ledger.
LEMMA MintMaps ==
    ASSUME LifeFacts, LifeFacts', NEW w \in Wallets, NEW c \in AnyCommitment,
           NEW r \in signed, Mint(w, c, r)
    PROVE  Ledger!Next
<1>0. /\ TypeInv /\ HomeInv /\ HomeInv' /\ born \in Nat /\ MaxLineages \in Nat
      /\ lineage \in [Wallets -> 0 .. MaxLineages]
      /\ DOMAIN identities = Wallets
  BY SystemConstants
  DEF LifeFacts, TypeInv, TypeOK, HistoryTypeOK, AnchorTypeOK
<1>1. PICK id \in Identities : id = MintedIdentity(w, c)
  BY <1>0, MintedIdentityType DEF TypeInv, TypeOK
<1>2. /\ ~Exists(w) /\ born < MaxLineages /\ c \in Commitments
      /\ UNCHANGED <<now, config, results, boundResults>>
  BY DEF Mint, MintAnchor, AnchorFrame, AnyCommitment
<1>3. PICK l \in Lineages : l = born + 1
  BY <1>0, <1>2 DEF Lineages
<1>4. /\ lineage' = [lineage EXCEPT ![w] = l]
      /\ identities' = [identities EXCEPT ![w] = id]
  BY <1>1, <1>3 DEF Mint, MintAnchor
<1>5. lineage[w] = 0 /\ OneHome(lineage) /\ OneHome(lineage')
  BY <1>0, <1>2 DEF HomeInv, LivesAtOneWallet, OneHome
<1>6. \A x \in Wallets : lineage[x] # l
  <2>1. \A x \in Wallets : lineage[x] \in Nat /\ lineage[x] <= born
    BY <1>0 DEF HomeInv
  <2> QED
    BY <1>0, <1>3, <2>1
<1>7. ASSUME NEW m \in Lineages, m # l PROVE PersonOf(m)' = PersonOf(m)
  <2>1. ASSUME NEW x \in Wallets, lineage[x] = m \/ lineage'[x] = m
        PROVE  lineage'[x] = lineage[x] /\ identities'[x] = identities[x]
    <3>1. m # 0
      BY DEF Lineages
    <3>2. x # w
      BY <1>0, <1>4, <1>5, <1>7, <2>1, <3>1
    <3> QED
      BY <1>0, <1>4, <3>2
  <2> QED
    BY <1>5, <2>1, LeftAlone
<1>8. /\ People' = Put(People, l, AccountOf(id, w))
      /\ AccountOf(id, w) \in Persons
  <2>1. lineage'[w] = l /\ identities'[w] = id
    BY <1>0, <1>4
  <2> QED
    BY <1>0, <1>7, <2>1, Settled, AccountType
<1>9. PICK q \in Persons : q = AccountOf(id, w)
  BY <1>8
<1>10. /\ q.home = w /\ q.next = NoPubkey /\ q.commitment = c
       /\ q.version = CurrentProjection
       /\ q.earned = 0 /\ q.resetAt = 0 /\ q.rebasedAt = 0
  BY <1>1, <1>9, MintedFields DEF AccountOf
<1>11. People' = Put(People, l, Newborn(w, c, CurrentProjection))
  <2>1. q = Newborn(w, c, CurrentProjection)
    BY <1>10, WriteNew
  <2> QED
    BY <1>8, <1>9, <2>1
<1>12. People[l] = Nobody
  BY <1>6, PersonMapped, PersonNowhere DEF People
<1>13. Nobody = Ledger!Unborn
  BY DEF Nobody, Ledger!Unborn
<1>14. OpenClaims' = OpenClaims
  BY <1>2, SameClaims
<1>15. Ledger!Free(w)
  BY <1>0, <1>2, FreeWallet
<1>16. Ledger!Register(l, w, c)
  BY <1>2, <1>11, <1>12, <1>13, <1>14, <1>15
  DEF Ledger!Register, People, Put, Newborn, CurrentProjection
<1> QED
  BY <1>2, <1>16 DEF Ledger!Next

\* migrate_identity is a move of the ledger.
LEMMA MigrateMaps ==
    ASSUME LifeFacts, LifeFacts', NEW old \in Wallets, NEW user \in Wallets,
           Migrate(old, user)
    PROVE  Ledger!Next
<1>0. /\ TypeInv /\ HomeInv /\ HomeInv'
      /\ identities \in [Wallets -> Identities]
      /\ DOMAIN lineage = Wallets
  BY DEF LifeFacts, TypeInv, TypeOK, HistoryTypeOK, AnchorTypeOK
<1>1. PICK id \in Identities : id = MigratedIdentity(old, user)
  BY <1>0, MigratedIdentityType
<1>2. /\ old # user /\ Exists(old) /\ ~Exists(user)
      /\ identities[old].new_wallet = user
      /\ UNCHANGED <<now, config, results, boundResults>>
  BY SystemConstants
  DEF Migrate, MigrateIdentity, AnchorFrame, Readable, Exists
<1>3. PICK l \in Lineages : lineage[old] = l
  BY <1>0, <1>2, Resident
<1>4. /\ lineage' = [lineage EXCEPT ![user] = l, ![old] = 0]
      /\ identities' = [identities EXCEPT ![user] = id, ![old] = NoIdentity]
  BY <1>1, <1>3 DEF Migrate, MigrateIdentity, IdentityMoved
<1>5. lineage[user] = 0 /\ OneHome(lineage) /\ OneHome(lineage') /\ l # 0
  BY <1>0, <1>2 DEF HomeInv, LivesAtOneWallet, OneHome, Lineages
<1>6. ASSUME NEW m \in Lineages, m # l PROVE PersonOf(m)' = PersonOf(m)
  <2>1. ASSUME NEW x \in Wallets, lineage[x] = m \/ lineage'[x] = m
        PROVE  lineage'[x] = lineage[x] /\ identities'[x] = identities[x]
    <3>1. m # 0
      BY DEF Lineages
    <3>2. x # old /\ x # user
      BY <1>0, <1>2, <1>3, <1>4, <1>5, <1>6, <2>1, <3>1
    <3> QED
      BY <1>0, <1>4, <3>2
  <2> QED
    BY <1>5, <2>1, LeftAlone
<1>7. /\ People' = Put(People, l, AccountOf(id, user))
      /\ AccountOf(id, user) \in Persons
  <2>1. lineage'[user] = l /\ identities'[user] = id
    BY <1>0, <1>2, <1>4
  <2> QED
    BY <1>0, <1>6, <2>1, Settled, AccountType
<1>8. People[l] = AccountOf(identities[old], old)
  <2>1. PersonIn(lineage, identities, lineage[old])
          = AccountOf(identities[old], old)
    BY <1>3, <1>5, PersonAtHome
  <2> QED
    BY <1>3, <2>1, PersonMapped DEF People
<1>9. PICK q \in Persons : q = AccountOf(id, user)
  BY <1>7
<1>10. /\ q.home = user /\ q.next = NoPubkey
       /\ q.commitment = People[l].commitment
       /\ q.version = People[l].version /\ q.earned = People[l].earned
       /\ q.resetAt = People[l].resetAt /\ q.rebasedAt = People[l].rebasedAt
       /\ People[l].home = old /\ People[l].next = user
  BY <1>0, <1>1, <1>2, <1>8, <1>9, MigratedFields DEF AccountOf
<1>11. People' = Moved(People, l, user)
  <2>1. People \in [Lineages -> Persons]
    BY <1>0, PeopleType
  <2> QED
    BY <1>7, <1>9, <1>10, <2>1, WriteHome
<1>12. OpenClaims' = OpenClaims
  BY <1>2, SameClaims
<1>13. Ledger!Free(user)
  BY <1>0, <1>2, FreeWallet
<1>14. user # NoPubkey /\ old # NoPubkey
  BY SystemConstants
<1>15. Ledger!Move(l)
  <2>1. People' = [People EXCEPT ![l].home = People[l].next,
                                 ![l].next = NoPubkey]
    BY <1>10, <1>11 DEF Moved
  <2> QED
    BY <1>2, <1>10, <1>12, <1>13, <1>14, <2>1
    DEF Ledger!Move, Ledger!Lives, People
<1> QED
  BY <1>15 DEF Ledger!Next

----------------------------------------------------------------------------
(* Steps that the ledger tells as claims, or not at all                    *)

\* A verification is a claim of the ledger.
LEMMA VerifyMaps ==
    ASSUME LifeFacts, BuildInv, NEW w \in Wallets, NEW n \in Nonces,
           NEW new \in AnyCommitment, NEW prev \in AnyCommitment, NEW h,
           \/ Verify(w, n, new, prev, h)
           \/ \E u \in Int : VerifyBound(w, n, new, prev, h, u)
    PROVE  Ledger!Next
<1>0. /\ TypeInv /\ DOMAIN results = Wallets \X Nonces
      /\ DOMAIN boundResults = Wallets \X Nonces
  BY DEF LifeFacts, TypeInv, TypeOK, VerifierTypeOK
<1>1. /\ lineage' = lineage /\ identities' = identities
      /\ UNCHANGED <<now, config>>
      /\ new \in Commitments /\ prev \in Commitments
  BY DEF Verify, VerifyProof, VerifyBound, VerifyProofBound, VerifierFrame,
         registryVars, anchorVars, LifeHistory, AnyCommitment
<1>2. PICK x : x = [wallet |-> w, nonce |-> n, from |-> prev, to |-> new]
  OBVIOUS
<1>3. /\ \A v \in Wallets, m \in Nonces : v # w \/ m # n =>
            /\ results'[<<v, m>>] = results[<<v, m>>]
            /\ boundResults'[<<v, m>>] = boundResults[<<v, m>>]
      /\ ~results[<<w, n>>].open /\ ~boundResults[<<w, n>>].open
      /\ \/ /\ results'[<<w, n>>].open
            /\ x = ClaimOf(w, n, results'[<<w, n>>])
            /\ UNCHANGED boundResults
         \/ /\ boundResults'[<<w, n>>].open
            /\ x = ClaimOf(w, n, boundResults'[<<w, n>>])
            /\ UNCHANGED results
  <2>1. CASE Verify(w, n, new, prev, h)
    BY <1>0, <1>2, <2>1 DEF Verify, VerifyProof, BuildInv, ClaimOf
  <2>2. ASSUME NEW u \in Int, VerifyBound(w, n, new, prev, h, u)
        PROVE  <1>3!1 /\ <1>3!2 /\ <1>3!3
    BY <1>0, <1>2, <2>2 DEF VerifyBound, VerifyProofBound, BuildInv, ClaimOf
  <2> QED
    BY <2>1, <2>2
<1>4. /\ \A y \in OpenClaims : y.wallet # x.wallet \/ y.nonce # x.nonce
      /\ OpenClaims' = OpenClaims \cup {x}
  BY <1>0, <1>3, ClaimOpens
<1>5. [m \in Lineages |-> PersonOf(m)]' = [m \in Lineages |-> PersonOf(m)]
  BY <1>1, SamePeople
<1>6. x \in Ledger!Claims
  BY <1>1, <1>2 DEF Ledger!Claims
<1>7. Ledger!Claim(x)
  BY <1>1, <1>4, <1>5 DEF Ledger!Claim
<1> QED
  BY <1>6, <1>7 DEF Ledger!Next

\* Closing a result unspent drops a claim of the ledger.
LEMMA CloseMaps ==
    ASSUME LifeFacts, BuildInv, NEW w \in Wallets, NEW n \in Nonces,
           CloseResult(w, n)
    PROVE  Ledger!Next
<1>0. TypeInv
  BY DEF LifeFacts
<1>1. /\ lineage' = lineage /\ identities' = identities
      /\ UNCHANGED <<now, config>>
  BY DEF CloseResult, VerifierFrame, registryVars, anchorVars, LifeHistory
<1>2. PICK x : x \in OpenClaims /\ OpenClaims' = OpenClaims \ {x}
  BY <1>0, ClaimCloses
  DEF CloseResult, CloseVerificationResult, CloseBoundVerificationResult
<1>3. [m \in Lineages |-> PersonOf(m)]' = [m \in Lineages |-> PersonOf(m)]
  BY <1>1, SamePeople
<1>4. Ledger!Withdraw(x)
  BY <1>1, <1>2, <1>3 DEF Ledger!Withdraw
<1> QED
  BY <1>2, <1>4 DEF Ledger!Next

\* The registry changes the window at most; the ledger sees nothing of the
\* rest of its instructions.
LEMMA GovernMaps ==
    ASSUME LifeFacts, LifeFacts', [Next]_vars,
           UNCHANGED <<now, verifierVars, anchorVars, historyVars>>
    PROVE  Ledger!Govern
<1>1. /\ RegistryTypeOK /\ RegistryTypeOK' /\ WindowInv /\ WindowInv'
      /\ ConfigChange
  BY ConfigSteps DEF LifeFacts, TypeInv, TypeOK
<1>2. /\ lineage' = lineage /\ identities' = identities /\ now' = now
      /\ UNCHANGED <<results, boundResults>>
  BY DEF verifierVars, anchorVars, historyVars
<1>3. [m \in Lineages |-> PersonOf(m)]' = [m \in Lineages |-> PersonOf(m)]
  BY <1>2, SamePeople
<1>4. OpenClaims' = OpenClaims
  BY <1>2, SameClaims
<1>5. /\ config.current_projection_version \in Nat
      /\ config.minimum_supported_projection_version \in Nat
      /\ config'.current_projection_version \in Nat
      /\ config'.minimum_supported_projection_version \in Nat
  BY <1>1, Constants DEF RegistryTypeOK, Configs
<1>6. /\ config'.minimum_supported_projection_version
            <= config'.current_projection_version
      /\ config'.current_projection_version
            >= config.current_projection_version
      /\ config'.minimum_supported_projection_version
            >= config.minimum_supported_projection_version
  BY <1>1, <1>5, ProjectionStep
  DEF WindowInv, PolicyReadable, ProjectionTransitionOK
<1> QED
  BY <1>2, <1>3, <1>4, <1>5, <1>6 DEF Ledger!Govern

\* Nothing that the ledger tells of changes.
Untold ==
    /\ UNCHANGED <<now, config, lineage, results, boundResults>>
    /\ \A w \in Wallets : AccountOf(identities'[w], w)
                            = AccountOf(identities[w], w)

\* What the ledger does not tell leaves it as it is.
LEMMA UntoldStutters == Untold => UNCHANGED Ledger!ledgerVars
<1> SUFFICES ASSUME Untold PROVE UNCHANGED Ledger!ledgerVars
  OBVIOUS
<1>1. [m \in Lineages |-> PersonOf(m)]' = [m \in Lineages |-> PersonOf(m)]
  BY SamePeople DEF Untold
<1>2. OpenClaims' = OpenClaims
  BY SameClaims DEF Untold
<1>3. now' = now /\ config' = config
  BY DEF Untold
<1> QED
  BY <1>1, <1>2, <1>3 DEF Ledger!ledgerVars

\* A holder's own steps: an agreement, or nothing to tell.
LEMMA HoldingMaps ==
    ASSUME LifeFacts, NEW w \in Wallets, Holding(w)
    PROVE  Ledger!Next \/ UNCHANGED Ledger!ledgerVars
<1>1. CASE \E new \in Wallets : Authorize(w, new)
  BY <1>1, AuthorizeMaps
<1>2. CASE Upgrade(w)
  <2>1. /\ identities \in [Wallets -> Identities]
        /\ identities' = [identities EXCEPT ![w] = GrownIdentity(@)]
        /\ UNCHANGED <<now, config, lineage, results, boundResults>>
    BY <1>2
    DEF LifeFacts, TypeInv, TypeOK, AnchorTypeOK, Upgrade,
        UpgradeIdentityLayout, AnchorFrame, historyVars
  <2>2. \A x \in Wallets : AccountOf(identities'[x], x)
                             = AccountOf(identities[x], x)
    BY <2>1 DEF AccountOf, GrownIdentity, Identities
  <2> QED
    BY <2>1, <2>2, UntoldStutters DEF Untold
<1>3. CASE Prepare(w) \/ HolderStep(w)
  <2>1. UNCHANGED <<now, config, lineage, identities, results, boundResults>>
    BY <1>3
    DEF Prepare, PrepareProofRequest, HolderStep, TokenBurned, TokenDelegated,
        TokenAccountCreated, TokenAccountClosed, MintAddressFunded,
        AnchorFrame, historyVars
  <2> QED
    BY <2>1, UntoldStutters DEF Untold
<1> QED
  BY <1>1, <1>2, <1>3 DEF Holding

\* Challenges, service, registry and clock: the window, the clock, or nothing.
LEMMA OtherMaps ==
    ASSUME LifeFacts, LifeFacts', [Next]_vars,
           \/ ChallengeStep \/ ServiceNext \/ RegistryStep
           \/ ClockTick \/ UNCHANGED vars
    PROVE  Ledger!Next \/ UNCHANGED Ledger!ledgerVars
<1>1. ASSUME UNCHANGED <<now, config, lineage, identities, results,
                         boundResults>>
      PROVE  UNCHANGED Ledger!ledgerVars
  BY <1>1, UntoldStutters DEF Untold
<1>2. CASE ChallengeStep
  BY <1>1, <1>2
  DEF ChallengeStep, ChallengeNext, CreateChallenge, CloseChallenge,
      VerifierFrame, registryVars, anchorVars, LifeHistory
<1>3. CASE ServiceNext
  <2>1. UNCHANGED <<now, registryVars, verifierVars, anchorVars, historyVars>>
    BY <1>3 DEF ServiceNext, SignReceipt
  <2> QED
    BY <1>1, <2>1 DEF registryVars, verifierVars, anchorVars, historyVars
<1>4. CASE RegistryStep
  <2>1. UNCHANGED now
    BY <1>4, RegistryHoldsClock
  <2> QED
    BY <1>4, <2>1, GovernMaps DEF RegistryStep, Ledger!Next
<1>5. CASE ClockTick
  <2>1. /\ now' = now + 1 /\ config' = config /\ lineage' = lineage
        /\ identities' = identities /\ UNCHANGED <<results, boundResults>>
    BY <1>5 DEF ClockTick, Tick, registryVars, verifierVars, anchorVars,
                historyVars
  <2>2. [m \in Lineages |-> PersonOf(m)]' = [m \in Lineages |-> PersonOf(m)]
    BY <2>1, SamePeople
  <2>3. OpenClaims' = OpenClaims
    BY <2>1, SameClaims
  <2>4. Ledger!Pass
    BY <2>1, <2>2, <2>3 DEF Ledger!Pass
  <2> QED
    BY <2>4 DEF Ledger!Next
<1>6. CASE UNCHANGED vars
  BY <1>1, <1>6
  DEF vars, registryVars, verifierVars, anchorVars, historyVars
<1> QED
  BY <1>2, <1>3, <1>4, <1>5, <1>6

\* Every step of the programs is a step of the ledger or leaves it as it is.
LEMMA LedgerStep ==
    ASSUME LifeFacts, LifeFacts', BuildInv, [Next]_vars
    PROVE  Ledger!Next \/ UNCHANGED Ledger!ledgerVars
<1>1. ASSUME NEW w \in Wallets, NEW n \in Nonces, NEW new \in AnyCommitment,
             NEW prev \in AnyCommitment, NEW h \in HammingInputs,
             NEW u \in now .. now + MaxRequestLifetime + 1,
             VerifyBound(w, n, new, prev, h, u)
      PROVE  Ledger!Next
  BY <1>1, VerifyMaps
<1> QED
  BY <1>1, NextSteps, MintMaps, UpdateMaps, ResetMaps, RebaselineMaps,
     MigrateMaps, HoldingMaps, VerifyMaps, CloseMaps, OtherMaps

\* Whatever the order of instructions, clock ticks and signed receipts, and in
\* either build, what the accounts of the three programs go through is what
\* the ledger allows an identity: each step of the programs is one step of
\* the ledger, or none that the ledger tells of.
THEOREM LedgerImplemented == Spec => ImplementsLedger
<1>1. Init => LifeFacts /\ BuildInv /\ Ledger!Init
  BY LifeFactsInit, BuildInit, LedgerInit
<1>2. LifeFacts /\ [Next]_vars => LifeFacts'
  BY LifeFactsStep
<1>3. LifeFacts /\ BuildInv /\ [Next]_vars => BuildInv'
  BY ProofSteps DEF LifeFacts
<1>4. LifeFacts /\ LifeFacts' /\ BuildInv /\ [Next]_vars
        => [Ledger!Next]_(Ledger!ledgerVars)
  BY LedgerStep
<1> QED
  BY <1>1, <1>2, <1>3, <1>4, PTL DEF Spec, ImplementsLedger, Ledger!Spec

============================================================================
