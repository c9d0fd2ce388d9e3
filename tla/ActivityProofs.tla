--------------------------- MODULE ActivityProofs --------------------------
(***************************************************************************)
(* Theorems about the activity ring and the scores, for every ring length, *)
(* bin size, number of bins and schedule of verifications: the ring keeps  *)
(* its entries a bin apart, what the rate limit leaves out of it ages an   *)
(* identity by less than a bin, the score rewards span over frequency, the *)
(* registry's copy of it never says more, and isqrt is the integer root.   *)
(***************************************************************************)
EXTENDS ActivityHistory, FiniteSetTheorems, TLAPS

----------------------------------------------------------------------------
(* The integer square root                                                  *)

\* A set of natural numbers with a member has a smallest one.
NatOrder == OpToRel(<, Nat)

\* A set of naturals that is not empty has a least member.
LEMMA LeastMember ==
    ASSUME NEW B \in SUBSET Nat, B # {}
    PROVE  \E m \in B : \A k \in Nat : k < m => k \notin B
<1>1. IsWellFoundedOn(NatOrder, Nat)
  BY NatLessThanWellFounded DEF NatOrder
<1>2. PICK m \in B : \A k \in B : ~ (<<k, m>> \in NatOrder)
  BY <1>1, WFMin
<1>3. \A k \in Nat : k < m => k \notin B
  BY <1>2 DEF NatOrder, OpToRel
<1> QED
  BY <1>2, <1>3

\* Quotient and remainder.
LEMMA Quotient ==
    ASSUME NEW n \in Nat, NEW x \in Nat, x >= 1
    PROVE  /\ n \div x \in Nat
           /\ x * (n \div x) <= n
           /\ n < x * (n \div x) + x
OBVIOUS

\* What the iteration starts from and keeps: not below the root of n.
AboveRoot(x, n) == n < (x + 1) * (x + 1)

IsRoot(r, n) == r \in Nat /\ r * r <= n /\ AboveRoot(r, n)

\* A step of the iteration stays between 1 and n, and never goes below the
\* root: the mean of x and n / x is at least it.
LEMMA BetterBounds ==
    ASSUME NEW n \in Nat, NEW x \in 1 .. n
    PROVE  /\ Better(x, n) \in Nat /\ Better(x, n) >= 1
           /\ AboveRoot(Better(x, n), n)
           /\ Better(x, n) >= x => x * x <= n
<1> DEFINE q == n \div x
           y == Better(x, n)
<1>0. x \in Nat /\ x >= 1 /\ n >= x
  OBVIOUS
<1>1. q \in Nat /\ x * q <= n /\ n < x * q + x
  BY <1>0, Quotient
<1>2. y \in Nat /\ 2 * y <= x + q /\ x + q <= 2 * y + 1
  <2>1. y = (x + q) \div 2
    BY DEF Better
  <2> HIDE DEF q, y
  <2> QED
    BY <1>0, <1>1, <2>1
<1> HIDE DEF q, y
<1>3. q >= 1
  <2> SUFFICES ASSUME q = 0 PROVE FALSE
    BY <1>1
  <2>1. x * q = 0
    BY <1>0
  <2> QED
    BY <1>0, <1>1, <2>1
<1>4. y >= 1
  BY <1>0, <1>1, <1>2, <1>3
<1>5. n < (y + 1) * (y + 1)
  <2>1. x * q + x = x * (q + 1)
    BY <1>0, <1>1
  <2>2. 4 * (x * (q + 1)) <= (x + (q + 1)) * (x + (q + 1))
    <3> DEFINE d == x - (q + 1)
    <3>1. d \in Int /\ d * d >= 0
      BY <1>0, <1>1
    <3>2. (x + (q + 1)) * (x + (q + 1)) = 4 * (x * (q + 1)) + d * d
      BY <1>0, <1>1
    <3>3. x * (q + 1) \in Int
      BY <1>0, <1>1
    <3> HIDE DEF d
    <3> QED
      BY <3>1, <3>2, <3>3
  <2> DEFINE u == x + (q + 1)
             v == y + 1
  <2>3. u \in Nat /\ v \in Nat /\ u <= 2 * v
    BY <1>0, <1>1, <1>2
  <2>4. u * u <= 4 * (v * v)
    <3> HIDE DEF u, v
    <3>1. u * u <= u * (2 * v) /\ u * (2 * v) <= (2 * v) * (2 * v)
      BY <2>3
    <3>2. (2 * v) * (2 * v) = 4 * (v * v) /\ u * u \in Nat /\ v * v \in Nat
          /\ u * (2 * v) \in Nat
      BY <2>3
    <3> QED
      BY <3>1, <3>2
  <2>5. x * (q + 1) \in Nat /\ v * v \in Nat
    BY <1>0, <1>1, <2>3
  <2>6. n < x * (q + 1)
    BY <1>1, <2>1
  <2>7. 4 * (x * (q + 1)) <= 4 * (v * v)
    BY <2>2, <2>4, <2>5, <2>3
  <2>8. n < v * v
    <3> HIDE DEF v
    <3> QED BY <2>5, <2>6, <2>7
  <2> QED
    BY <2>8
<1>6. y >= x => x * x <= n
  <2> SUFFICES ASSUME y >= x PROVE x * x <= n
    OBVIOUS
  <2>1. x <= q
    BY <1>0, <1>1, <1>2
  <2>2. x * x <= x * q /\ x * x \in Nat /\ x * q \in Nat
    BY <1>0, <1>1, <2>1
  <2> QED
    BY <1>1, <2>2
<1> QED
  BY <1>2, <1>4, <1>5, <1>6 DEF y, AboveRoot

\* The iteration from the values up to m.
Iterates(g, n, m) ==
    \A x \in 1 .. n :
        x <= m => g[x] = IF Better(x, n) < x THEN g[Better(x, n)] ELSE x

\* The first k values of the iteration exist, whatever k is.
LEMMA IteratesUpto ==
    ASSUME NEW n \in Nat, NEW k \in Nat PROVE \E g : Iterates(g, n, k)
<1> DEFINE B == {m \in Nat : ~ \E g : Iterates(g, n, m)}
<1> SUFFICES ASSUME B # {} PROVE FALSE
  OBVIOUS
<1>1. PICK m \in B : \A j \in Nat : j < m => j \notin B
  <2>1. B \in SUBSET Nat
    OBVIOUS
  <2> HIDE DEF B
  <2> QED
    BY <2>1, LeastMember
<1>2. CASE m = 0
  <2>1. Iterates(0, n, 0)
    BY DEF Iterates
  <2> QED
    BY <1>2, <2>1
<1>3. CASE m # 0
  <2>1. m - 1 \in Nat /\ m - 1 \notin B
    BY <1>1, <1>3
  <2>2. PICK g : Iterates(g, n, m - 1)
    BY <2>1
  <2> DEFINE h == [x \in 1 .. n |->
                     IF x <= m - 1 THEN g[x]
                     ELSE IF Better(x, n) < x THEN g[Better(x, n)] ELSE x]
  <2>3. ASSUME NEW x \in 1 .. n, x <= m
        PROVE  h[x] = IF Better(x, n) < x THEN h[Better(x, n)] ELSE x
    <3> DEFINE y == Better(x, n)
    <3>1. y \in Nat /\ y >= 1 /\ x \in Nat
      BY BetterBounds
    <3>2. y < x => y \in 1 .. n /\ y <= m - 1
      BY <2>3, <3>1
    <3>3. y < x => h[y] = g[y]
      BY <3>2
    <3>4. h[x] = IF y < x THEN g[y] ELSE x
      <4>1. CASE x <= m - 1
        BY <2>2, <4>1 DEF Iterates
      <4>2. CASE ~ (x <= m - 1)
        BY <4>2
      <4> QED
        BY <4>1, <4>2
    <3> QED
      BY <3>3, <3>4
  <2>4. Iterates(h, n, m)
    <3> HIDE DEF h
    <3> QED BY <2>3 DEF Iterates
  <2> QED
    BY <2>4
<1> QED
  BY <1>2, <1>3

\* The recursive function of Newton is the iteration it is written to be.
LEMMA NewtonIterates ==
    ASSUME NEW n \in Nat PROVE Iterates(Newton(n), n, n)
<1>1. PICK g : Iterates(g, n, n)
  BY IteratesUpto
<1> DEFINE f == [x \in 1 .. n |-> g[x]]
<1>2. \A x \in 1 .. n : Better(x, n) < x => Better(x, n) \in 1 .. n
  BY BetterBounds
<1>3. f = [x \in 1 .. n |-> IF Better(x, n) < x THEN f[Better(x, n)] ELSE x]
  BY <1>1, <1>2 DEF Iterates
<1>4. Newton(n) = [x \in 1 .. n |->
          IF Better(x, n) < x THEN Newton(n)[Better(x, n)] ELSE x]
  <2> HIDE DEF f
  <2> QED
    BY <1>3 DEF Newton
<1> QED
  BY <1>4 DEF Iterates

\* From any start that is not below the root, the iteration finds it.
LEMMA NewtonFindsRoot ==
    ASSUME NEW n \in Nat
    PROVE  \A x \in 1 .. n : AboveRoot(x, n) => IsRoot(Newton(n)[x], n)
<1> DEFINE Fails(x) == AboveRoot(x, n) /\ ~ IsRoot(Newton(n)[x], n)
           B == {x \in 1 .. n : Fails(x)}
<1> SUFFICES ASSUME B # {} PROVE FALSE
  OBVIOUS
<1>1. PICK x \in B : \A j \in Nat : j < x => j \notin B
  <2>1. B \in SUBSET Nat
    OBVIOUS
  <2> HIDE DEF B
  <2> QED
    BY <2>1, LeastMember
<1> DEFINE y == Better(x, n)
<1>2. /\ x \in 1 .. n /\ x \in Nat /\ y \in Nat /\ y >= 1
      /\ AboveRoot(y, n) /\ (y >= x => x * x <= n)
  BY <1>1, BetterBounds
<1>3. Newton(n)[x] = IF y < x THEN Newton(n)[y] ELSE x
  BY <1>2, NewtonIterates DEF Iterates
<1> HIDE DEF y
<1>4. CASE y < x
  <2>1. y \in 1 .. n /\ y \notin B
    BY <1>1, <1>2, <1>4
  <2>2. ~ Fails(y)
    BY <2>1
  <2>3. IsRoot(Newton(n)[y], n)
    BY <1>2, <2>2
  <2>4. Newton(n)[x] = Newton(n)[y]
    BY <1>3, <1>4
  <2>5. ~ IsRoot(Newton(n)[x], n)
    BY <1>1
  <2> QED
    BY <2>3, <2>4, <2>5
<1>5. CASE ~ (y < x)
  <2>1. IsRoot(x, n)
    BY <1>1, <1>2, <1>5 DEF IsRoot
  <2> QED
    BY <1>1, <1>3, <1>5, <2>1
<1> QED
  BY <1>4, <1>5

\* isqrt is the integer square root, for every natural number.
LEMMA IsqrtRoot == ASSUME NEW n \in Nat PROVE IsRoot(Isqrt(n), n)
<1>1. CASE n = 0
  BY <1>1 DEF Isqrt, IsRoot, AboveRoot
<1>2. CASE n # 0
  <2> DEFINE s == (n + 1) \div 2
  <2>1. s \in 1 .. n /\ 2 * s >= n /\ s \in Nat
    BY <1>2
  <2>2. CASE s < n
    <3>1. AboveRoot(s, n)
      <4> HIDE DEF s
      <4>1. (s + 1) * (s + 1) = s * s + 2 * s + 1 /\ s * s \in Nat
        BY <2>1
      <4> QED
        BY <2>1, <4>1 DEF AboveRoot
    <3>2. IsRoot(Newton(n)[s], n)
      BY <2>1, <3>1, NewtonFindsRoot
    <3> QED
      BY <1>2, <2>2, <3>2 DEF Isqrt
  <2>3. CASE ~ (s < n)
    <3>1. n = 1
      BY <1>2, <2>3
    <3> QED
      BY <3>1, <2>3 DEF Isqrt, IsRoot, AboveRoot
  <2> QED
    BY <2>2, <2>3
<1> QED
  BY <1>1, <1>2

----------------------------------------------------------------------------
(* Time in bins                                                            *)

\* The time that n bins take.
Gap(n) == n * BinSize

\* What the assumptions on the constants of the ring give every proof here.
LEMMA ActivityConstants ==
    /\ RingLen \in Nat /\ RingLen >= 1
    /\ BinSize \in Nat /\ BinSize >= 1
    /\ NumBins \in Nat /\ NumBins >= 1 /\ NumBins <= RingLen
    /\ Start \in Nat /\ Start >= 1
BY RingAssumption, HistoryAssumption

\* Each further bin takes one BinSize more.
LEMMA GapGrows ==
    ASSUME NEW n \in Nat
    PROVE  /\ Gap(n) \in Nat /\ Gap(n + 1) = Gap(n) + BinSize
           /\ Gap(0) = 0 /\ Gap(1) = BinSize
BY ActivityConstants DEF Gap

\* More bins take at least as long.
LEMMA GapOrder ==
    ASSUME NEW m \in Nat, NEW n \in Nat, m <= n
    PROVE  Gap(m) <= Gap(n)
<1>1. n - m \in Nat /\ Gap(n) = Gap(m) + Gap(n - m)
  BY ActivityConstants DEF Gap
<1> QED
  BY <1>1, GapGrows

\* A number of seconds is in the bin whose bounds it lies between.
LEMMA InBin ==
    ASSUME NEW d \in Nat, NEW k \in Nat
    PROVE  d \div BinSize = k <=> Gap(k) <= d /\ d < Gap(k + 1)
<1>1. BinSize \in Nat /\ BinSize >= 1
  BY ActivityConstants
<1> QED
  BY <1>1 DEF Gap

----------------------------------------------------------------------------
(* The invariant of the ring                                               *)

RingTypeOK ==
    /\ time \in Nat /\ time >= 1
    /\ ring \in [1 .. RingLen -> Nat]
    /\ \A i \in 1 .. RingLen : ring[i] <= time
    /\ \A h \in history : h \in Nat /\ h >= 1 /\ h <= time

\* Any two entries are as far apart as their slots, in bins.
PairsSpaced(r) ==
    \A i, j \in 1 .. RingLen :
        i < j /\ r[j] # 0 => r[i] - r[j] >= Gap(j - i)

\* A verification is kept by an entry less than a bin older, or it is older
\* than the last slot of a full ring.
Kept(h, r) ==
    \/ \E i \in 1 .. RingLen : r[i] # 0 /\ r[i] <= h /\ h - r[i] < BinSize
    \/ r[RingLen] # 0 /\ h < r[RingLen]

RingInv ==
    RingTypeOK /\ PairsSpaced(ring) /\ \A h \in history : Kept(h, ring)

\* An identity just minted: one mint stamp, an empty ring, an empty history.
LEMMA RingInit == Init => RingInv
BY ActivityConstants DEF Init, RingInv, RingTypeOK, PairsSpaced, EmptyRing

\* Opening a bin moves every entry one slot down.
LEMMA Shifted ==
    ASSUME RingInv, OpensNewBin(ring, time)
    PROVE  LET new == RecordVerification(ring, time)
           IN /\ new \in [1 .. RingLen -> Nat] /\ new[1] = time
              /\ \A i \in 2 .. RingLen :
                    i - 1 \in 1 .. RingLen /\ new[i] = ring[i - 1]
BY ActivityConstants DEF RingInv, RingTypeOK, RecordVerification

\* All that opening a bin takes from a ring in order.
LEMMA ShiftedPairs ==
    ASSUME RingInv, OpensNewBin(ring, time)
    PROVE  PairsSpaced(RecordVerification(ring, time))
<1> DEFINE new == RecordVerification(ring, time)
<1>1. /\ new \in [1 .. RingLen -> Nat] /\ new[1] = time
      /\ \A i \in 2 .. RingLen :
            i - 1 \in 1 .. RingLen /\ new[i] = ring[i - 1]
  BY Shifted
<1>2. /\ time \in Nat /\ ring \in [1 .. RingLen -> Nat] /\ PairsSpaced(ring)
      /\ RingLen \in Nat /\ BinSize \in Nat /\ BinSize >= 1
      /\ \A i \in 1 .. RingLen : ring[i] \in Nat /\ ring[i] <= time
  BY ActivityConstants DEF RingInv, RingTypeOK
<1> HIDE DEF new
<1>3. ASSUME NEW i \in 1 .. RingLen, NEW j \in 1 .. RingLen, i < j, new[j] # 0
      PROVE  new[i] - new[j] >= Gap(j - i)
  <2>1. j \in 2 .. RingLen /\ j - 1 \in 1 .. RingLen /\ new[j] = ring[j - 1]
    BY <1>1, <1>2, <1>3
  <2>2. CASE i = 1 /\ j = 2
    <3>1. ring[1] # 0 /\ time - ring[1] >= BinSize
      BY <1>3, <2>1, <2>2 DEF OpensNewBin
    <3>2. Gap(j - i) = BinSize
      BY <2>2, GapGrows
    <3> QED
      BY <1>1, <2>1, <2>2, <3>1, <3>2
  <2>3. CASE i = 1 /\ j # 2
    <3>1. 1 \in 1 .. RingLen /\ 1 < j - 1 /\ j - 2 \in Nat /\ j \in Nat
      BY <1>2, <1>3, <2>1, <2>3
    <3>2. ring[1] - ring[j - 1] >= Gap((j - 1) - 1)
      BY <1>2, <1>3, <2>1, <3>1 DEF PairsSpaced
    <3>3. /\ Gap((j - 1) - 1) \in Nat
          /\ Gap(j - i) = Gap((j - 1) - 1) + BinSize
      <4>1. (j - 1) - 1 \in Nat /\ ((j - 1) - 1) + 1 = j - i
        BY <2>3, <3>1
      <4> QED
        BY <4>1, GapGrows
    <3>4. ring[1] # 0
      BY <1>2, <1>3, <2>1, <3>1, <3>2, <3>3
    <3>5. time - ring[1] >= BinSize
      BY <3>4 DEF OpensNewBin
    <3>6. new[i] = time /\ new[j] = ring[j - 1]
      BY <1>1, <2>1, <2>3
    <3>7. /\ time \in Int /\ ring[1] \in Int /\ ring[j - 1] \in Int
          /\ BinSize \in Int
      BY <1>2, <2>1, <3>1, ActivityConstants
    <3> QED
      BY <3>2, <3>3, <3>5, <3>6, <3>7
  <2>4. CASE i # 1
    <3>1. /\ i - 1 \in 1 .. RingLen /\ new[i] = ring[i - 1]
          /\ i - 1 < j - 1 /\ (j - 1) - (i - 1) = j - i
      BY <1>1, <1>2, <1>3, <2>1, <2>4
    <3>2. ring[i - 1] - ring[j - 1] >= Gap((j - 1) - (i - 1))
      BY <1>2, <1>3, <2>1, <3>1 DEF PairsSpaced
    <3> QED
      BY <2>1, <3>1, <3>2
  <2> QED
    BY <2>2, <2>3, <2>4
<1> QED
  BY <1>3 DEF PairsSpaced, new

\* What a full ring drops is older than its last slot by then.
LEMMA ShiftedKept ==
    ASSUME RingInv, OpensNewBin(ring, time), NEW h \in history
    PROVE  Kept(h, RecordVerification(ring, time))
<1> DEFINE new == RecordVerification(ring, time)
<1>1. /\ new \in [1 .. RingLen -> Nat] /\ new[1] = time
      /\ \A i \in 2 .. RingLen :
            i - 1 \in 1 .. RingLen /\ new[i] = ring[i - 1]
  BY Shifted
<1>2. /\ time \in Nat /\ ring \in [1 .. RingLen -> Nat] /\ time # 0
      /\ RingLen \in Nat /\ RingLen >= 1 /\ BinSize \in Nat /\ BinSize >= 1
      /\ \A i \in 1 .. RingLen : ring[i] \in Nat /\ ring[i] <= time
      /\ h \in Nat /\ Kept(h, ring)
  BY ActivityConstants DEF RingInv, RingTypeOK
<1> HIDE DEF new
<1>3. ring[RingLen] # 0 => /\ new[RingLen] # 0
                           /\ new[RingLen] - ring[RingLen] >= BinSize
  <2>1. CASE RingLen = 1
    BY <1>1, <1>2, <2>1 DEF OpensNewBin
  <2>2. CASE RingLen # 1
    <3>1. /\ RingLen \in 2 .. RingLen /\ RingLen \in 1 .. RingLen
          /\ RingLen - 1 \in 1 .. RingLen /\ RingLen - 1 < RingLen
          /\ RingLen - (RingLen - 1) = 1
      BY <1>2, <2>2
    <3>2. new[RingLen] = ring[RingLen - 1]
      BY <1>1, <3>1
    <3>3. ring[RingLen] # 0 => ring[RingLen - 1] - ring[RingLen]
                                 >= Gap(RingLen - (RingLen - 1))
      BY <3>1 DEF RingInv, PairsSpaced
    <3>4. Gap(RingLen - (RingLen - 1)) = BinSize
      BY <3>1, GapGrows
    <3> QED
      BY <1>2, <3>1, <3>2, <3>3, <3>4
  <2> QED
    BY <2>1, <2>2
<1>4. ASSUME NEW i \in 1 .. RingLen, ring[i] # 0, ring[i] <= h,
             h - ring[i] < BinSize
      PROVE  Kept(h, new)
  <2>1. CASE i = RingLen
    BY <1>1, <1>2, <1>3, <1>4, <2>1 DEF Kept
  <2>2. CASE i # RingLen
    <3>1. /\ i + 1 \in 1 .. RingLen /\ i + 1 \in 2 .. RingLen
          /\ (i + 1) - 1 = i
      BY <1>2, <2>2
    <3>2. new[i + 1] = ring[i]
      BY <1>1, <3>1
    <3> QED
      BY <1>4, <3>1, <3>2 DEF Kept
  <2> QED
    BY <2>1, <2>2
<1>5. ASSUME ring[RingLen] # 0, h < ring[RingLen] PROVE Kept(h, new)
  <2>1. ring[RingLen] \in Nat /\ new[RingLen] \in Nat
    BY <1>1, <1>2
  <2>2. h < new[RingLen] /\ new[RingLen] # 0
    BY <1>2, <1>3, <1>5, <2>1
  <2> QED
    BY <2>2 DEF Kept
<1>6. Kept(h, new)
  <2>1. \/ \E i \in 1 .. RingLen :
              ring[i] # 0 /\ ring[i] <= h /\ h - ring[i] < BinSize
        \/ ring[RingLen] # 0 /\ h < ring[RingLen]
    BY <1>2 DEF Kept
  <2> QED
    BY <1>4, <1>5, <2>1
<1> QED
  BY <1>6 DEF new

\* An update either opens a bin or leaves the ring alone; time only passes.
LEMMA RingStep == RingInv /\ [Next]_historyVars => RingInv'
<1> SUFFICES ASSUME RingInv, [Next]_historyVars PROVE RingInv'
  OBVIOUS
<1>0. RingTypeOK /\ RingLen \in Nat /\ 1 \in 1 .. RingLen /\ BinSize >= 1
  BY ActivityConstants DEF RingInv
<1>1. CASE Verify /\ OpensNewBin(ring, time)
  <2> DEFINE new == RecordVerification(ring, time)
  <2>1. ring' = new /\ time' = time /\ history' = history \cup {time}
    BY <1>1 DEF Verify
  <2>2. /\ new \in [1 .. RingLen -> Nat] /\ new[1] = time
        /\ \A i \in 2 .. RingLen :
              i - 1 \in 1 .. RingLen /\ new[i] = ring[i - 1]
    BY <1>1, Shifted
  <2>3. PairsSpaced(new) /\ \A h \in history : Kept(h, new)
    BY <1>1, ShiftedPairs, ShiftedKept
  <2> HIDE DEF new
  <2>4. Kept(time, new)
    <3>1. time # 0 /\ time <= time /\ time - time < BinSize
      BY <1>0, ActivityConstants DEF RingTypeOK
    <3> QED
      BY <1>0, <2>2, <3>1 DEF Kept
  <2>5. RingTypeOK'
    <3>1. \A i \in 1 .. RingLen : new[i] <= time
      <4>1. ASSUME NEW i \in 1 .. RingLen PROVE i = 1 \/ i \in 2 .. RingLen
        BY <1>0
      <4> QED
        BY <1>0, <2>2, <4>1 DEF RingTypeOK
    <3> QED
      BY <1>0, <2>1, <2>2, <3>1 DEF RingTypeOK
  <2> QED
    BY <2>1, <2>3, <2>4, <2>5 DEF RingInv
<1>2. CASE Verify /\ ~OpensNewBin(ring, time)
  <2>1. ring' = ring /\ time' = time /\ history' = history \cup {time}
    BY <1>2 DEF Verify, RecordVerification
  <2>2. Kept(time, ring)
    <3>1. /\ ring[1] # 0 /\ ~(time - ring[1] >= BinSize)
          /\ ring[1] \in Nat /\ ring[1] <= time /\ time \in Nat
          /\ BinSize \in Nat
      BY <1>0, <1>2, ActivityConstants DEF OpensNewBin, RingTypeOK
    <3> QED
      BY <1>0, <3>1 DEF Kept
  <2>3. RingTypeOK'
    BY <1>0, <2>1 DEF RingTypeOK
  <2> QED
    BY <2>1, <2>2, <2>3 DEF RingInv
<1>3. CASE Pass \/ UNCHANGED historyVars
  <2>1. /\ ring' = ring /\ history' = history
        /\ time' = time \/ time' = time + 1
    BY <1>3 DEF Pass, historyVars
  <2>2. RingTypeOK'
    BY <1>0, <2>1 DEF RingTypeOK
  <2> QED
    BY <2>1, <2>2 DEF RingInv
<1> QED
  BY <1>1, <1>2, <1>3 DEF Next

----------------------------------------------------------------------------
(* Theorems about the ring                                                 *)

\* record_verification never writes two entries of one bin: from slot to slot
\* the ring goes back at least a bin, and its empty slots are the last ones.
THEOREM EntriesSpaced == Spec => []RingIsSpaced
<1>1. RingInv => RingIsSpaced
  <2> SUFFICES ASSUME RingInv, NEW i \in 1 .. RingLen - 1, ring[i + 1] # 0
               PROVE  ring[i] - ring[i + 1] >= BinSize
    BY DEF RingIsSpaced
  <2>1. /\ i \in 1 .. RingLen /\ i + 1 \in 1 .. RingLen /\ i < i + 1
        /\ (i + 1) - i = 1
    BY ActivityConstants
  <2>2. ring[i] - ring[i + 1] >= Gap((i + 1) - i)
    BY <2>1 DEF RingInv, PairsSpaced
  <2> QED
    BY <2>1, <2>2, GapGrows
<1> QED
  BY <1>1, RingInit, RingStep, PTL DEF Spec

\* The 52 slots cover a year "no matter how often a wallet verifies": within
\* RingLen - 1 bins of the clock, a verification that record_verification
\* left out is stood for by an entry less than a bin older.
LEMMA YearKept == RingInv => RingCoversYear
<1> SUFFICES ASSUME RingInv, NEW h \in history,
                    time - h <= (RingLen - 1) * BinSize
             PROVE  \E r \in RingEntries(ring) \ {0} :
                       r <= h /\ h - r < BinSize
  BY DEF RingCoversYear
<1>1. /\ h \in Nat /\ time \in Nat /\ Kept(h, ring) /\ RingLen \in Nat
      /\ ring \in [1 .. RingLen -> Nat] /\ ring[1] <= time
      /\ 1 \in 1 .. RingLen /\ RingLen \in 1 .. RingLen
      /\ RingLen - 1 \in Nat
  BY ActivityConstants DEF RingInv, RingTypeOK
<1>2. ~(ring[RingLen] # 0 /\ h < ring[RingLen])
  <2> SUFFICES ASSUME ring[RingLen] # 0, h < ring[RingLen] PROVE FALSE
    OBVIOUS
  <2>1. ring[1] - ring[RingLen] >= Gap(RingLen - 1)
    <3>1. CASE RingLen = 1
      BY <1>1, <3>1, GapGrows
    <3>2. CASE RingLen # 1
      BY <1>1, <3>2 DEF RingInv, PairsSpaced
    <3> QED
      BY <3>1, <3>2
  <2>2. time - h <= Gap(RingLen - 1) /\ Gap(RingLen - 1) \in Nat
    BY <1>1, GapGrows DEF Gap
  <2> QED
    BY <1>1, <2>1, <2>2
<1> QED
  BY <1>1, <1>2 DEF Kept, RingEntries

\* What update_anchor's comment promises of the 52 slots holds of every run.
THEOREM YearCovered == Spec => []RingCoversYear
BY YearKept, RingInit, RingStep, PTL DEF Spec

\* The bins of the score lose little by it: a bin that the full history would
\* make active is active from the ring, or the next older one is, unless that
\* one lies outside the scoring window.
THEOREM BinsKept == Spec => []BinsNearlyKept
<1>1. RingInv => BinsNearlyKept
  <2> SUFFICES ASSUME RingInv, NEW k \in ActiveBins(history, time),
                      k + 1 # NumBins
               PROVE  {k, k + 1} \cap ActiveBins(RingEntries(ring), time) # {}
    BY DEF BinsNearlyKept
  <2>1. PICK h \in history : h # 0 /\ k = BinOf(time, h) /\ k \in Bins
    BY DEF ActiveBins
  <2>2. /\ h \in Nat /\ time \in Nat /\ h <= time
        /\ BinSize \in Nat /\ BinSize >= 1
        /\ NumBins \in Nat /\ RingLen \in Nat /\ NumBins <= RingLen
    BY ActivityConstants DEF RingInv, RingTypeOK
  <2>3. /\ k \in Nat /\ k + 1 <= NumBins - 1
        /\ k + 1 \in Nat /\ RingLen - 1 \in Nat /\ k + 1 <= RingLen - 1
    BY <2>1, <2>2 DEF Bins
  <2>4. k = (time - h) \div BinSize
    BY <2>1, <2>2 DEF BinOf
  <2>5. Gap(k) <= time - h /\ time - h < Gap(k + 1)
    BY <2>2, <2>3, <2>4, InBin
  <2>6. time - h <= (RingLen - 1) * BinSize
    <3>1. Gap(k + 1) <= Gap(RingLen - 1)
      BY <2>3, GapOrder
    <3> QED
      BY <2>2, <2>3, <2>5, <3>1, GapGrows DEF Gap
  <2>7. PICK r \in RingEntries(ring) \ {0} : r <= h /\ h - r < BinSize
    BY <2>6, YearKept DEF RingCoversYear
  <2>8. r \in Nat /\ r # 0 /\ r <= time
    BY <2>2, <2>7 DEF RingEntries, RingInv, RingTypeOK
  <2>9. BinOf(time, r) \in {k, k + 1}
    <3>1. /\ Gap(k) \in Nat /\ Gap(k + 1) = Gap(k) + BinSize
          /\ Gap((k + 1) + 1) = Gap(k + 1) + BinSize
      BY <2>3, GapGrows
    <3>2. Gap(k) <= time - r /\ time - r < Gap((k + 1) + 1)
      BY <2>2, <2>5, <2>7, <2>8, <3>1
    <3>3. time - r \in Nat
      BY <2>2, <2>8
    <3>4. CASE time - r < Gap(k + 1)
      BY <2>3, <3>2, <3>3, <3>4, InBin, <2>2, <2>8 DEF BinOf
    <3>5. CASE time - r >= Gap(k + 1)
      BY <2>3, <3>2, <3>3, <3>5, InBin, <2>2, <2>8 DEF BinOf
    <3> QED
      BY <2>2, <3>1, <3>3, <3>4, <3>5
  <2>10. BinOf(time, r) \in Bins
    BY <2>2, <2>3, <2>9 DEF Bins
  <2> QED
    BY <2>7, <2>9, <2>10 DEF ActiveBins
<1> QED
  BY <1>1, RingInit, RingStep, PTL DEF Spec

----------------------------------------------------------------------------
(* Sums of weights                                                         *)

\* What the assumptions on the constants of the score give every proof here.
LEMMA ScoreParameters ==
    /\ NumBins \in Nat /\ NumBins >= 1
    /\ BaseTrustIncrement \in Nat /\ MaxTrustScore \in Nat
    /\ DaySize \in Nat /\ DaySize >= 1
BY RingAssumption

\* What bin k adds to the sum, and the sum over the bins below m.
Added(weights, active, k) == IF k \in active THEN weights[k] ELSE 0

Adds(u, weights, active, m) ==
    \A k \in 0 .. NumBins :
        k <= m => u[k] = IF k = 0 THEN 0
                         ELSE u[k - 1] + Added(weights, active, k - 1)

\* The recursion has a solution up to every bin.
LEMMA AddsUpTo ==
    ASSUME NEW weights, NEW active, NEW n \in Nat
    PROVE  \E u : Adds(u, weights, active, n)
<1> DEFINE B == {m \in Nat : ~ \E u : Adds(u, weights, active, m)}
<1> SUFFICES ASSUME B # {} PROVE FALSE
  OBVIOUS
<1>1. PICK m \in B : \A j \in Nat : j < m => j \notin B
  <2>1. B \in SUBSET Nat
    OBVIOUS
  <2> HIDE DEF B
  <2> QED
    BY <2>1, LeastMember
<1>2. CASE m = 0
  <2>1. Adds([k \in 0 .. NumBins |-> 0], weights, active, 0)
    BY DEF Adds
  <2> QED
    BY <1>2, <2>1
<1>3. CASE m # 0
  <2>1. m - 1 \in Nat /\ m - 1 \notin B
    BY <1>1, <1>3
  <2>2. PICK u : Adds(u, weights, active, m - 1)
    BY <2>1
  <2> DEFINE next == u[m - 1] + Added(weights, active, m - 1)
             v == [k \in 0 .. NumBins |-> IF k = m THEN next ELSE u[k]]
  <2>3. ASSUME NEW k \in 0 .. NumBins, k <= m
        PROVE  v[k] = IF k = 0 THEN 0
                      ELSE v[k - 1] + Added(weights, active, k - 1)
    <3>1. CASE k = 0
      <4>1. v[k] = u[k]
        BY <1>3, <3>1
      <4> QED
        BY <2>1, <2>2, <3>1, <4>1 DEF Adds
    <3>2. CASE k # 0
      <4>1. k - 1 \in 0 .. NumBins /\ k - 1 < m /\ k - 1 \in Nat
        BY <2>3, <3>2, ScoreParameters
      <4>2. v[k - 1] = u[k - 1]
        BY <4>1
      <4>3. CASE k = m
        BY <3>2, <4>2, <4>3
      <4>4. CASE k # m
        <5>1. k <= m - 1 /\ v[k] = u[k]
          BY <2>3, <4>4
        <5>2. u[k] = u[k - 1] + Added(weights, active, k - 1)
          BY <2>2, <3>2, <5>1 DEF Adds
        <5> QED
          BY <3>2, <4>2, <5>1, <5>2
      <4> QED
        BY <4>3, <4>4
    <3> QED
      BY <3>1, <3>2
  <2>4. Adds(v, weights, active, m)
    <3> HIDE DEF v
    <3> QED
      BY <2>3 DEF Adds
  <2> QED
    BY <2>4
<1> QED
  BY <1>2, <1>3

\* The recursive function of WeightsUpTo is the sum it is written to be.
LEMMA WeightsAdd ==
    ASSUME NEW weights, NEW active
    PROVE  Adds(WeightsUpTo(weights, active), weights, active, NumBins)
<1>1. NumBins \in Nat
  BY ScoreParameters
<1>2. PICK u : Adds(u, weights, active, NumBins)
  BY <1>1, AddsUpTo
<1> DEFINE v == [k \in 0 .. NumBins |-> u[k]]
<1>3. \A k \in 0 .. NumBins : k # 0 => k - 1 \in 0 .. NumBins
  BY <1>1
<1>4. v = [k \in 0 .. NumBins |->
              IF k = 0 THEN 0
              ELSE v[k - 1] + (IF k - 1 \in active THEN weights[k - 1] ELSE 0)]
  BY <1>1, <1>2, <1>3 DEF Adds, Added
<1>5. WeightsUpTo(weights, active) =
         [k \in 0 .. NumBins |->
              IF k = 0 THEN 0
              ELSE WeightsUpTo(weights, active)[k - 1]
                     + (IF k - 1 \in active THEN weights[k - 1] ELSE 0)]
  <2> HIDE DEF v
  <2> QED
    BY <1>4 DEF WeightsUpTo
<1> QED
  BY <1>5 DEF Adds, Added

\* An induction over the bins: what holds of 0 and passes from each bin to the
\* next holds of all of them.
LEMMA BinByBin ==
    ASSUME NEW G \in SUBSET (0 .. NumBins), 0 \in G,
           \A k \in 1 .. NumBins : k - 1 \in G => k \in G
    PROVE  \A k \in 0 .. NumBins : k \in G
<1> DEFINE B == (0 .. NumBins) \ G
<1> SUFFICES ASSUME B # {} PROVE FALSE
  OBVIOUS
<1>1. PICK m \in B : \A j \in Nat : j < m => j \notin B
  <2>1. B \in SUBSET Nat
    OBVIOUS
  <2> HIDE DEF B
  <2> QED
    BY <2>1, LeastMember
<1>2. m \in 1 .. NumBins /\ m - 1 \in Nat /\ m - 1 < m /\ m - 1 \in 0 .. NumBins
  BY ScoreParameters
<1> QED
  BY <1>1, <1>2

\* Sums of natural weights are natural numbers, and more active bins never
\* make them smaller.
LEMMA WeightSumGrows ==
    ASSUME NEW weights \in [Bins -> Nat], NEW a \in SUBSET Bins,
           NEW b \in SUBSET Bins, a \subseteq b
    PROVE  /\ WeightSum(weights, a) \in Nat
           /\ WeightSum(weights, b) \in Nat
           /\ WeightSum(weights, a) <= WeightSum(weights, b)
<1> DEFINE u == WeightsUpTo(weights, a)
           v == WeightsUpTo(weights, b)
           G == {k \in 0 .. NumBins : u[k] \in Nat /\ v[k] \in Nat /\ u[k] <= v[k]}
<1>1. Adds(u, weights, a, NumBins) /\ Adds(v, weights, b, NumBins)
  BY WeightsAdd
<1>2. NumBins \in Nat
  BY ScoreParameters
<1> HIDE DEF u, v
<1>3. 0 \in G
  BY <1>1, <1>2 DEF Adds
<1>4. ASSUME NEW k \in 1 .. NumBins, k - 1 \in G PROVE k \in G
  <2>1. k \in 0 .. NumBins /\ k # 0 /\ k <= NumBins /\ k - 1 \in Bins
    BY <1>2 DEF Bins
  <2>2. /\ u[k] = u[k - 1] + Added(weights, a, k - 1)
        /\ v[k] = v[k - 1] + Added(weights, b, k - 1)
    BY <1>1, <2>1 DEF Adds
  <2>3. /\ Added(weights, a, k - 1) \in Nat /\ Added(weights, b, k - 1) \in Nat
        /\ Added(weights, a, k - 1) <= Added(weights, b, k - 1)
    BY <2>1 DEF Added
  <2> QED
    BY <1>4, <2>1, <2>2, <2>3
<1>5. \A k \in 0 .. NumBins : k \in G
  <2> HIDE DEF G
  <2>1. G \in SUBSET (0 .. NumBins)
    BY DEF G
  <2> QED
    BY <1>3, <1>4, <2>1, BinByBin
<1>6. NumBins \in G
  BY <1>2, <1>5
<1> QED
  BY <1>6 DEF WeightSum, u, v

\* A weight is a natural at or below the exact share of its bin.
LEMMA BinWeights ==
    /\ [k \in Bins |-> BinWeight(k)] \in [Bins -> Nat]
    /\ \A k \in Bins : NumBins * BinWeight(k) <= BaseTrustIncrement * (NumBins - k)
<1>1. ASSUME NEW k \in Bins
      PROVE  /\ BinWeight(k) \in Nat
             /\ NumBins * BinWeight(k) <= BaseTrustIncrement * (NumBins - k)
  <2> DEFINE p == BaseTrustIncrement * (NumBins - k)
  <2>1. NumBins - k \in Nat /\ NumBins \in Nat /\ NumBins >= 1
        /\ BaseTrustIncrement \in Nat
    BY ScoreParameters DEF Bins
  <2>2. p \in Nat
    BY <2>1
  <2> HIDE DEF p
  <2>3. p \div NumBins \in Nat /\ NumBins * (p \div NumBins) <= p
    BY <2>1, <2>2, Quotient
  <2> QED
    BY <2>3 DEF BinWeight, p
<1> QED
  BY <1>1

\* The closed form of the first n weights, without their roundings.
LEMMA BaseScoreBounded ==
    ASSUME NEW n \in 0 .. NumBins, NEW active \in SUBSET Bins,
           \A k \in active : k < n
    PROVE  2 * NumBins * BaseScore(active)
             <= BaseTrustIncrement * n * (2 * NumBins - n + 1)
<1> DEFINE weights == [k \in Bins |-> BinWeight(k)]
           u == WeightsUpTo(weights, active)
           most(k) == BaseTrustIncrement * k * (2 * NumBins - k + 1)
           reach(k) == IF k < n THEN k ELSE n
           G == {k \in 0 .. NumBins :
                    u[k] \in Nat /\ 2 * NumBins * u[k] <= most(reach(k))}
<1>1. Adds(u, weights, active, NumBins)
  BY WeightsAdd
<1>2. /\ NumBins \in Nat /\ NumBins >= 1 /\ BaseTrustIncrement \in Nat
      /\ n \in Nat /\ n <= NumBins
  BY ScoreParameters
<1>3. \A k \in Bins : /\ weights[k] \in Nat
                      /\ NumBins * weights[k] <= BaseTrustIncrement * (NumBins - k)
  BY BinWeights
<1> HIDE DEF u, weights
<1>4. 0 \in G
  <2>1. u[0] = 0
    BY <1>1, <1>2 DEF Adds
  <2>2. reach(0) = 0
    BY <1>2
  <2>3. most(0) = 0
    BY <1>2
  <2> QED
    BY <1>2, <2>1, <2>2, <2>3
<1>5. ASSUME NEW k \in 1 .. NumBins, k - 1 \in G PROVE k \in G
  <2>1. k \in 0 .. NumBins /\ k # 0 /\ k <= NumBins /\ k - 1 \in Bins /\ k \in Nat
        /\ k - 1 \in Nat
    BY <1>2 DEF Bins
  <2>2. u[k] = u[k - 1] + Added(weights, active, k - 1)
    BY <1>1, <2>1 DEF Adds
  <2>3. CASE k - 1 \in active
    <3>1. k <= n /\ reach(k - 1) = k - 1 /\ reach(k) = k
      BY <1>2, <2>1, <2>3
    <3>2. u[k] = u[k - 1] + weights[k - 1]
      BY <2>2, <2>3 DEF Added
    <3> DEFINE p == u[k - 1]
               q == weights[k - 1]
    <3>3. p \in Nat /\ q \in Nat /\ 2 * NumBins * p <= most(k - 1)
          /\ NumBins * q <= BaseTrustIncrement * (NumBins - (k - 1))
      BY <1>3, <1>5, <2>1, <3>1
    <3>4. most(k) = most(k - 1) + 2 * (BaseTrustIncrement * (NumBins - (k - 1)))
      <4>1. k * (2 * NumBins - k + 1)
              = (k - 1) * (2 * NumBins - (k - 1) + 1) + 2 * (NumBins - (k - 1))
        BY <1>2, <2>1
      <4>2. most(k) = BaseTrustIncrement * (k * (2 * NumBins - k + 1))
        BY <1>2, <2>1
      <4>3. most(k - 1)
              = BaseTrustIncrement * ((k - 1) * (2 * NumBins - (k - 1) + 1))
        BY <1>2, <2>1
      <4> DEFINE r == (k - 1) * (2 * NumBins - (k - 1) + 1)
                 t == NumBins - (k - 1)
      <4>4. r \in Int /\ t \in Int
        BY <1>2, <2>1
      <4>5. BaseTrustIncrement * (r + 2 * t)
              = BaseTrustIncrement * r + 2 * (BaseTrustIncrement * t)
        <5> HIDE DEF r, t
        <5> QED BY <1>2, <4>4
      <4> QED
        BY <4>1, <4>2, <4>3, <4>5
    <3> HIDE DEF p, q
    <3>5. 2 * NumBins * (p + q) = 2 * NumBins * p + 2 * (NumBins * q)
      BY <1>2, <3>3
    <3>6. 2 * NumBins * (p + q) <= most(k)
      <4> DEFINE x == 2 * NumBins * p
                 y == NumBins * q
                 a == most(k - 1)
                 b == BaseTrustIncrement * (NumBins - (k - 1))
      <4>1. x \in Int /\ y \in Int /\ a \in Int /\ b \in Int
        BY <1>2, <2>1, <3>3
      <4>2. x <= a /\ y <= b
        BY <3>3
      <4>3. x + 2 * y <= a + 2 * b
        <5> HIDE DEF x, y, a, b
        <5> QED BY <4>1, <4>2
      <4> QED
        BY <3>4, <3>5, <4>3
    <3>7. u[k] = p + q
      BY <3>2 DEF p, q
    <3> QED
      BY <2>1, <3>1, <3>3, <3>6, <3>7
  <2>4. CASE k - 1 \notin active
    <3>1. u[k] = u[k - 1]
      BY <1>5, <2>2, <2>4 DEF Added
    <3>2. most(reach(k - 1)) <= most(reach(k))
      <4>1. CASE k <= n
        <5>1. reach(k - 1) = k - 1 /\ reach(k) = k
          BY <1>2, <2>1, <4>1
        <5>2. (k - 1) * (2 * NumBins - (k - 1) + 1) <= k * (2 * NumBins - k + 1)
          <6>1. k * (2 * NumBins - k + 1)
                  = (k - 1) * (2 * NumBins - (k - 1) + 1)
                      + 2 * (NumBins - (k - 1))
            BY <1>2, <2>1
          <6>2. NumBins - (k - 1) \in Nat
                /\ (k - 1) * (2 * NumBins - (k - 1) + 1) \in Int
            BY <1>2, <2>1
          <6> QED
            BY <6>1, <6>2
        <5> DEFINE r == (k - 1) * (2 * NumBins - (k - 1) + 1)
                   s == k * (2 * NumBins - k + 1)
        <5>3. r \in Int /\ s \in Int /\ r <= s
          BY <1>2, <2>1, <5>2
        <5>4. most(k - 1) = BaseTrustIncrement * r
              /\ most(k) = BaseTrustIncrement * s
          BY <1>2, <2>1
        <5>5. BaseTrustIncrement * r <= BaseTrustIncrement * s
          <6> HIDE DEF r, s
          <6> QED BY <1>2, <5>3
        <5> QED
          BY <5>1, <5>4, <5>5
      <4>2. CASE ~ (k <= n)
        <5>1. reach(k - 1) = n /\ reach(k) = n
          BY <1>2, <2>1, <4>2
        <5>2. most(n) \in Int
          BY <1>2
        <5> QED
          BY <5>1, <5>2
      <4> QED
        BY <4>1, <4>2
    <3>3. reach(k - 1) \in Int /\ reach(k) \in Int
      BY <1>2, <2>1
    <3>4. most(reach(k - 1)) \in Int /\ most(reach(k)) \in Int
          /\ 2 * NumBins * u[k - 1] \in Int
      <4> HIDE DEF reach
      <4> QED BY <1>2, <1>5, <3>3
    <3>5. 2 * NumBins * u[k - 1] <= most(reach(k - 1)) /\ u[k - 1] \in Nat
      BY <1>5
    <3>6. 2 * NumBins * u[k] <= most(reach(k))
      <4> HIDE DEF most, reach
      <4> QED BY <3>1, <3>2, <3>4, <3>5
    <3> QED
      BY <2>1, <3>1, <3>5, <3>6
  <2> QED
    BY <2>3, <2>4
<1>6. \A k \in 0 .. NumBins : k \in G
  <2> HIDE DEF G
  <2>1. G \in SUBSET (0 .. NumBins)
    BY DEF G
  <2> QED
    BY <1>4, <1>5, <2>1, BinByBin
<1>7. NumBins \in G
  <2> HIDE DEF G
  <2> QED
    BY <1>2, <1>6
<1>8. reach(NumBins) = n
  BY <1>2
<1>9. 2 * NumBins * u[NumBins] <= most(n)
  BY <1>7, <1>8
<1> QED
  BY <1>9 DEF BaseScore, WeightSum, u, weights

\* The age bonus is a natural number.
LEMMA AgeBonusType ==
    ASSUME NEW creation \in Nat, NEW t \in Nat PROVE AgeBonus(creation, t) \in Nat
<1> DEFINE days == IF t < creation THEN 0 ELSE (t - creation) \div DaySize
           capped == IF days > 365 THEN 365 ELSE days
<1>1. days \in Nat
  BY ScoreParameters, Quotient
<1>2. capped \in Nat
  BY <1>1
<1>3. Isqrt(capped) \in Nat
  BY <1>2, IsqrtRoot DEF IsRoot
<1>4. AgeBonus(creation, t) = Isqrt(capped) * 4
  BY DEF AgeBonus
<1> HIDE DEF capped
<1> QED
  BY <1>3, <1>4

----------------------------------------------------------------------------
(* The score beside the ring                                               *)

\* Every entry of the ring is a verification, and the score written by the
\* verification of this second is the score of the ring as it is.
ScoreInv ==
    /\ \A i \in 1 .. RingLen : ring[i] = 0 \/ ring[i] \in history
    /\ time \in history => score = TrustScore(RingEntries(ring), Start, time)

\* An empty ring holds no entries, and nothing has been scored yet.
LEMMA ScoreInit == Init => ScoreInv
BY DEF Init, ScoreInv, EmptyRing

\* An update writes the score of the ring it leaves; time changes neither.
LEMMA ScoreStep == RingInv /\ ScoreInv /\ [Next]_historyVars => ScoreInv'
<1> SUFFICES ASSUME RingInv, ScoreInv, [Next]_historyVars PROVE ScoreInv'
  OBVIOUS
<1>1. CASE Verify
  <2>1. /\ ring' = RecordVerification(ring, time) /\ time' = time
        /\ history' = history \cup {time}
        /\ score' = TrustScore(RingEntries(ring'), Start, time)
    BY <1>1 DEF Verify
  <2>2. \A i \in 1 .. RingLen : ring'[i] = 0 \/ ring'[i] \in history'
    <3>1. CASE OpensNewBin(ring, time)
      <4>1. /\ ring'[1] = time
            /\ \A i \in 2 .. RingLen :
                  i - 1 \in 1 .. RingLen /\ ring'[i] = ring[i - 1]
        BY <2>1, <3>1, Shifted
      <4>2. \A i \in 1 .. RingLen : i = 1 \/ i \in 2 .. RingLen
        BY ActivityConstants
      <4> QED
        BY <2>1, <4>1, <4>2 DEF ScoreInv
    <3>2. CASE ~ OpensNewBin(ring, time)
      BY <2>1, <3>2 DEF RecordVerification, ScoreInv
    <3> QED
      BY <3>1, <3>2
  <2>3. RingEntries(ring)' = RingEntries(ring')
    BY DEF RingEntries
  <2>4. TrustScore(RingEntries(ring), Start, time)'
            = TrustScore(RingEntries(ring'), Start, time')
    BY <2>3
  <2> QED
    BY <2>1, <2>2, <2>4 DEF ScoreInv
<1>2. CASE Pass
  <2>1. ring' = ring /\ time' = time + 1 /\ history' = history
    BY <1>2 DEF Pass
  <2>2. time' \notin history'
    BY <2>1 DEF RingInv, RingTypeOK
  <2> QED
    BY <2>1, <2>2 DEF ScoreInv
<1>3. CASE UNCHANGED historyVars
  BY <1>3 DEF historyVars, ScoreInv
<1> QED
  BY <1>1, <1>2, <1>3 DEF Next

\* The active bins of a set of entries are bins.
LEMMA ActiveType == \A entries, t : ActiveBins(entries, t) \in SUBSET Bins
BY DEF ActiveBins

\* The score, without the age, is at most the base score.
LEMMA ScoreWithoutAge ==
    ASSUME NEW entries
    PROVE  /\ BaseScore(ActiveBins(entries, time)) \in Nat
           /\ (Start \in Nat /\ time \in Nat) =>
                 /\ TrustScore(entries, Start, time) \in Nat
                 /\ TrustScore(entries, Start, time) - AgeBonus(Start, time)
                        <= BaseScore(ActiveBins(entries, time))
<1> DEFINE base == BaseScore(ActiveBins(entries, time))
           age == AgeBonus(Start, time)
<1>1. base \in Nat
  BY ActiveType, BinWeights, WeightSumGrows DEF BaseScore
<1>2. ASSUME Start \in Nat, time \in Nat
      PROVE  /\ TrustScore(entries, Start, time) \in Nat
             /\ TrustScore(entries, Start, time) - age <= base
  <2>1. age \in Nat /\ MaxTrustScore \in Nat
    BY <1>2, AgeBonusType, ScoreParameters
  <2>2. TrustScore(entries, Start, time)
           = IF base + age \in 0 .. MaxTrustScore THEN base + age
                                                  ELSE MaxTrustScore
    BY DEF TrustScore
  <2> HIDE DEF base, age
  <2> QED
    BY <1>1, <2>1, <2>2
<1> QED
  BY <1>1, <1>2

\* The bin of a past time, counted back from now.
LEMMA PastBin ==
    ASSUME NEW t \in Nat, NEW e \in Nat, e <= t
    PROVE  /\ BinOf(t, e) \in Nat
           /\ Gap(BinOf(t, e)) <= t - e /\ t - e < Gap(BinOf(t, e) + 1)
<1>1. BinOf(t, e) = (t - e) \div BinSize /\ t - e \in Nat
  BY DEF BinOf
<1>2. (t - e) \div BinSize \in Nat
  BY <1>1, ActivityConstants, Quotient
<1> QED
  BY <1>1, <1>2, InBin

\* An older time is in the same bin or an older one; a bin older, in an older
\* one.
LEMMA OlderBin ==
    ASSUME NEW t \in Nat, NEW d \in Nat, NEW e \in Nat, e <= d, d <= t
    PROVE  /\ BinOf(t, d) <= BinOf(t, e)
           /\ d - e >= BinSize => BinOf(t, d) < BinOf(t, e)
<1> DEFINE k == BinOf(t, d)
           j == BinOf(t, e)
<1>1. /\ k \in Nat /\ Gap(k) <= t - d /\ t - d < Gap(k + 1)
      /\ j \in Nat /\ Gap(j) <= t - e /\ t - e < Gap(j + 1)
  BY PastBin
<1> HIDE DEF k, j
<1>2. /\ Gap(k) \in Nat /\ Gap(k + 1) = Gap(k) + BinSize /\ Gap(k + 1) \in Nat
      /\ Gap(j) \in Nat /\ Gap(j + 1) = Gap(j) + BinSize /\ Gap(j + 1) \in Nat
      /\ BinSize \in Nat
  BY <1>1, GapGrows, ActivityConstants
<1>3. ASSUME j < k PROVE FALSE
  <2>1. Gap(j + 1) <= Gap(k)
    BY <1>1, <1>3, GapOrder
  <2> QED
    BY <1>1, <1>2, <2>1
<1>4. ASSUME d - e >= BinSize, j <= k PROVE FALSE
  <2>1. Gap(j + 1) <= Gap(k + 1)
    BY <1>1, <1>4, GapOrder
  <2> QED
    BY <1>1, <1>2, <1>4, <2>1
<1> QED
  BY <1>1, <1>3, <1>4 DEF k, j

\* The first and the last verification.
LEMMA HistoryEnds ==
    ASSUME RingInv, time \in history
    PROVE  LET last == CHOOSE t \in history : \A h \in history : t >= h
               first == CHOOSE t \in history : \A h \in history : t <= h
           IN /\ last = time
              /\ first \in history /\ \A h \in history : first <= h
<1> DEFINE last == CHOOSE t \in history : \A h \in history : t >= h
           first == CHOOSE t \in history : \A h \in history : t <= h
<1>1. /\ history \in SUBSET Nat /\ history # {}
      /\ \A h \in history : h \in Nat /\ h <= time
  BY DEF RingInv, RingTypeOK
<1>2. last = time
  <2>1. \A h \in history : time >= h
    BY <1>1
  <2>2. last \in history /\ last >= time
    BY <2>1
  <2> HIDE DEF last
  <2> QED
    BY <1>1, <2>2
<1>3. \E t \in history : \A h \in history : t <= h
  <2>1. PICK t \in history : \A k \in Nat : k < t => k \notin history
    BY <1>1, LeastMember
  <2>2. \A h \in history : t <= h
    BY <1>1, <2>1
  <2> QED
    BY <2>2
<1>4. first \in history /\ \A h \in history : first <= h
  BY <1>3
<1> QED
  BY <1>2, <1>4

\* "Span over frequency": apart from the age bonus, the score is at most what
\* one verification in each of the bins since the first one is worth,
\* however many verifications process_anchor_update scored.
THEOREM SpanBounds == Spec => []SpanOverFrequency
<1>1. ASSUME RingInv, ScoreInv, time \in history
      PROVE  2 * NumBins * (score - AgeBonus(Start, time))
                <= BaseTrustIncrement * BinsSpanned
                     * (2 * NumBins - BinsSpanned + 1)
  <2> DEFINE last == CHOOSE t \in history : \A h \in history : t >= h
             first == CHOOSE t \in history : \A h \in history : t <= h
             active == ActiveBins(RingEntries(ring), time)
             n == BinsSpanned
             without == score - AgeBonus(Start, time)
  <2>1. last = time /\ first \in history /\ \A h \in history : first <= h
    BY <1>1, HistoryEnds
  <2>2. /\ time \in Nat /\ first \in Nat /\ first <= time
        /\ \A h \in history : h \in Nat /\ h <= time
        /\ Start \in Nat /\ BinSize \in Nat /\ BinSize >= 1
        /\ NumBins \in Nat /\ NumBins >= 1
    BY <1>1, <2>1, ActivityConstants DEF RingInv, RingTypeOK
  <2>3. Span = time - first
    BY <2>1 DEF Span
  <2> HIDE DEF last, first
  <2> DEFINE k == BinOf(time, first)
  <2>4. k \in Nat /\ Span \div BinSize = k
    BY <2>2, <2>3, PastBin DEF BinOf
  <2> HIDE DEF k
  <2>5. n \in 0 .. NumBins /\ (n = k + 1 \/ (n = NumBins /\ k + 1 >= NumBins))
    BY <2>2, <2>4 DEF BinsSpanned
  <2>6. ASSUME NEW b \in active PROVE b < n
    <3>1. PICK i \in 1 .. RingLen :
             ring[i] # 0 /\ b = BinOf(time, ring[i]) /\ b \in Bins
      BY DEF ActiveBins, RingEntries
    <3>2. ring[i] \in history
      BY <1>1, <3>1 DEF ScoreInv
    <3>3. b <= k
      BY <2>1, <2>2, <3>1, <3>2, OlderBin DEF k
    <3>4. b \in Nat /\ b < NumBins
      BY <2>2, <3>1 DEF Bins
    <3> QED
      BY <2>2, <2>4, <2>5, <3>3, <3>4
  <2>7. active \in SUBSET Bins
    BY ActiveType
  <2> HIDE DEF active, n
  <2>8. 2 * NumBins * BaseScore(active)
          <= BaseTrustIncrement * n * (2 * NumBins - n + 1)
    BY <2>5, <2>6, <2>7, BaseScoreBounded
  <2>9. /\ BaseScore(active) \in Nat /\ without \in Int
        /\ without <= BaseScore(active)
    <3>1. score = TrustScore(RingEntries(ring), Start, time)
      BY <1>1 DEF ScoreInv
    <3>2. AgeBonus(Start, time) \in Nat
      BY <2>2, AgeBonusType
    <3> QED
      BY <2>2, <3>1, <3>2, ScoreWithoutAge DEF active
  <2> HIDE DEF without
  <2> DEFINE base == BaseScore(active)
             most == BaseTrustIncrement * n * (2 * NumBins - n + 1)
  <2>10. 2 * NumBins * without <= 2 * NumBins * base
    <3> HIDE DEF base
    <3>1. base \in Nat /\ without <= base
      BY <2>9 DEF base
    <3> QED
      BY <2>2, <2>9, <3>1
  <2>11. /\ most \in Int /\ 2 * NumBins * without \in Int
         /\ 2 * NumBins * base \in Int
    BY <2>2, <2>5, <2>9, ScoreParameters
  <2>12. 2 * NumBins * without <= most
    <3> DEFINE x == 2 * NumBins * without
               y == 2 * NumBins * base
    <3>1. x \in Int /\ y \in Int /\ most \in Int /\ x <= y /\ y <= most
      BY <2>8, <2>10, <2>11
    <3> HIDE DEF x, y, most
    <3>2. x <= most
      BY <3>1
    <3> QED
      BY <3>2 DEF x
  <2> QED
    BY <2>12 DEF n, without
<1>2. RingInv /\ ScoreInv => SpanOverFrequency
  BY <1>1 DEF SpanOverFrequency
<1> QED
  BY <1>2, RingInit, RingStep, ScoreInit, ScoreStep, PTL DEF Spec

\* An active entry of slot j has an active entry in every slot before, in a
\* newer bin.
LEMMA NewerSlots ==
    ASSUME RingInv, NEW j \in 1 .. RingLen, ring[j] # 0,
           BinOf(time, ring[j]) \in Bins
    PROVE  \A i \in 1 .. j :
              /\ ring[i] # 0 /\ BinOf(time, ring[i]) \in Bins
              /\ i < j => BinOf(time, ring[i]) < BinOf(time, ring[j])
<1>1. /\ time \in Nat /\ RingLen \in Nat /\ NumBins \in Nat
      /\ \A i \in 1 .. RingLen : ring[i] \in Nat /\ ring[i] <= time
      /\ BinSize \in Nat /\ BinSize >= 1
  BY ActivityConstants DEF RingInv, RingTypeOK
<1>2. ASSUME NEW i \in 1 .. j, i < j
      PROVE  /\ ring[i] # 0 /\ BinOf(time, ring[i]) \in Bins
             /\ BinOf(time, ring[i]) < BinOf(time, ring[j])
  <2>1. i \in 1 .. RingLen /\ j - i \in Nat /\ 1 <= j - i /\ 1 \in Nat
    BY <1>1, <1>2
  <2>2. ring[i] - ring[j] >= Gap(j - i)
    BY <1>2, <2>1 DEF RingInv, PairsSpaced
  <2>3. Gap(j - i) \in Nat /\ Gap(j - i) >= BinSize
    <3>1. Gap(1) <= Gap(j - i) /\ Gap(1) = BinSize /\ Gap(j - i) \in Nat
      BY <2>1, GapOrder, GapGrows
    <3> QED
      BY <1>1, <3>1
  <2>4. ring[i] - ring[j] >= BinSize /\ ring[i] # 0 /\ ring[j] <= ring[i]
    BY <1>1, <2>1, <2>2, <2>3
  <2>5. BinOf(time, ring[i]) < BinOf(time, ring[j])
    BY <1>1, <2>1, <2>4, OlderBin
  <2>6. BinOf(time, ring[i]) \in Nat
    BY <1>1, <2>1, PastBin
  <2> QED
    BY <1>1, <2>4, <2>5, <2>6 DEF Bins
<1> QED
  BY <1>1, <1>2

\* While no more bins are active than the registry's argument has slots, the
\* newest entries activate all of them: an older one would be active beside an
\* entry of its own bin in each of those slots.
LEMMA NewestSuffice ==
    ASSUME RingInv
    PROVE  LET newest == {NewestEntries[i] : i \in DOMAIN NewestEntries}
               active == ActiveBins(RingEntries(ring), time)
           IN /\ ActiveBins(newest, time) \subseteq active
              /\ Cardinality(active) <= RegistrySlots
                    => ActiveBins(newest, time) = active
<1> DEFINE newest == {NewestEntries[i] : i \in DOMAIN NewestEntries}
           active == ActiveBins(RingEntries(ring), time)
<1>1. RegistrySlots \in Nat /\ RegistrySlots <= RingLen /\ RingLen \in Nat
      /\ NumBins \in Nat
  BY RingAssumption
<1>2. newest = {ring[i] : i \in 1 .. RegistrySlots}
  BY DEF NewestEntries
<1>3. newest \subseteq RingEntries(ring)
  BY <1>1, <1>2 DEF RingEntries
<1>4. ActiveBins(newest, time) \subseteq active
  BY <1>3 DEF ActiveBins
<1>5. ASSUME Cardinality(active) <= RegistrySlots, NEW b \in active
      PROVE  b \in ActiveBins(newest, time)
  <2>1. PICK j \in 1 .. RingLen :
           ring[j] # 0 /\ b = BinOf(time, ring[j]) /\ b \in Bins
    BY <1>5 DEF ActiveBins, RingEntries
  <2>2. CASE j <= RegistrySlots
    <3>1. ring[j] \in newest
      BY <1>1, <1>2, <2>2
    <3> QED
      BY <2>1, <3>1 DEF ActiveBins
  <2>3. CASE ~ (j <= RegistrySlots)
    <3> DEFINE S == 1 .. (RegistrySlots + 1)
               f == [i \in S |-> BinOf(time, ring[i])]
    <3>1. \A i \in S : i \in 1 .. j /\ i \in 1 .. RingLen
      BY <1>1, <2>3
    <3>2. \A i \in S : f[i] \in active
      <4>1. ASSUME NEW i \in S
            PROVE  ring[i] # 0 /\ BinOf(time, ring[i]) \in Bins
        BY <2>1, <3>1, NewerSlots
      <4>2. ASSUME NEW i \in S PROVE ring[i] \in RingEntries(ring)
        BY <3>1 DEF RingEntries
      <4> QED
        BY <4>1, <4>2 DEF ActiveBins
    <3>3. ASSUME NEW x \in S, NEW y \in S, x < y PROVE f[x] # f[y]
      <4>1. /\ y \in 1 .. RingLen /\ ring[y] # 0
            /\ BinOf(time, ring[y]) \in Bins /\ x \in 1 .. y
        BY <2>1, <3>1, <3>3, NewerSlots
      <4>2. BinOf(time, ring[x]) < BinOf(time, ring[y])
        BY <3>3, <4>1, NewerSlots
      <4>3. BinOf(time, ring[x]) \in Nat /\ BinOf(time, ring[y]) \in Nat
        BY <1>1, <2>1, <3>1, NewerSlots DEF Bins
      <4> QED
        BY <4>2, <4>3
    <3>4. IsFiniteSet(active) /\ Cardinality(active) \in Nat
      <4>1. IsFiniteSet(Bins)
        BY <1>1, FS_Interval DEF Bins
      <4>2. active \in SUBSET Bins
        BY ActiveType
      <4>3. IsFiniteSet(active)
        BY <4>1, <4>2, FS_Subset
      <4> QED
        BY <4>3, FS_CardinalityType
    <3>5. IsFiniteSet(S) /\ Cardinality(S) = RegistrySlots + 1
      BY <1>1, FS_Interval
    <3>6. f \in [S -> active]
      BY <3>2
    <3>7. Cardinality(active) < Cardinality(S)
      BY <1>1, <1>5, <3>4, <3>5
    <3> HIDE DEF f, S, active
    <3>8. \E x, y \in S : x # y /\ f[x] = f[y]
      BY <3>4, <3>5, <3>6, <3>7, FS_PigeonHole
    <3>9. \A x, y \in S : x # y => x < y \/ y < x
      BY DEF S
    <3> QED
      BY <3>3, <3>8, <3>9
  <2> QED
    BY <2>2, <2>3
<1> QED
  BY <1>4, <1>5

\* The registry's copy of isqrt computes what the anchor's does.
LEMMA IsqrtCopied == \A n : RegistryIsqrt(n) = Isqrt(n)
BY DEF RegistryIsqrt, Isqrt, RegistryNewton, Newton, Better

\* compute_trust_score, given the newest entries of an identity, never reports
\* more than the identity's own score, and reports exactly that score while
\* no more bins are active than its argument has slots.
THEOREM RegistryNeverAbove == Spec => []RegistryAgrees
<1>1. ASSUME RingInv, ScoreInv, time \in history PROVE RegistryAgrees
  <2> DEFINE newest == {NewestEntries[i] : i \in DOMAIN NewestEntries}
             few == ActiveBins(newest, time)
             active == ActiveBins(RingEntries(ring), time)
             weights == [k \in Bins |-> BinWeight(k)]
             age == AgeBonus(Start, time)
             reported == ComputeTrustScore(NewestEntries, Start, time)
  <2>1. few \in SUBSET Bins /\ active \in SUBSET Bins /\ few \subseteq active
        /\ (Cardinality(active) <= RegistrySlots => few = active)
    BY <1>1, ActiveType, NewestSuffice
  <2>2. weights \in [Bins -> Nat] /\ weights = [k \in Bins |-> RegistryWeight(k)]
    BY BinWeights DEF BinWeight, RegistryWeight
  <2> DEFINE low == WeightSum(weights, few)
             high == WeightSum(weights, active)
  <2>3. low \in Nat /\ high \in Nat /\ low <= high
        /\ (few = active => low = high)
    BY <2>1, <2>2, WeightSumGrows
  <2>4. age \in Nat /\ MaxTrustScore \in Nat
    BY <1>1, AgeBonusType, ScoreParameters, ActivityConstants
    DEF RingInv, RingTypeOK
  <2>5. reported = IF low + age < MaxTrustScore THEN low + age ELSE MaxTrustScore
    BY <2>2, IsqrtCopied DEF ComputeTrustScore, AgeBonus
  <2>6. score = IF high + age \in 0 .. MaxTrustScore THEN high + age
                                                     ELSE MaxTrustScore
    BY <1>1 DEF ScoreInv, TrustScore, BaseScore
  <2>7. /\ reported <= score
        /\ few = active => reported = score
    <3> HIDE DEF low, high, age, reported, few, active
    <3> QED
      BY <2>3, <2>4, <2>5, <2>6
  <2> QED
    BY <2>1, <2>7 DEF RegistryAgrees
<1>2. RingInv /\ ScoreInv => RegistryAgrees
  BY <1>1 DEF RegistryAgrees
<1> QED
  BY <1>2, RingInit, RingStep, ScoreInit, ScoreStep, PTL DEF Spec

\* isqrt is the integer square root of every age in days that it is given,
\* and the registry's copy of it is too.
THEOREM RootRoundsDown == Spec => []IsqrtIsFloor
<1>1. IsqrtIsFloor
  <2>1. ASSUME NEW n \in 0 .. 365
        PROVE  /\ Isqrt(n) * Isqrt(n) <= n
               /\ n < (Isqrt(n) + 1) * (Isqrt(n) + 1)
               /\ RegistryIsqrt(n) = Isqrt(n)
    <3>1. IsRoot(Isqrt(n), n)
      BY IsqrtRoot
    <3> QED
      BY <3>1, IsqrtCopied DEF IsRoot, AboveRoot
  <2> QED
    BY <2>1 DEF IsqrtIsFloor
<1> QED
  BY <1>1, PTL
============================================================================
