------------------------------ MODULE MCValues -----------------------------
(* Values of the constants in the instances of the composed system. *)
EXTENDS Integers

CONSTANTS w1, w2, c1, c2, n1, n2, k1, k2, a1, none, noc, non

MCNone == {}
OneWallet == {w1}
TwoWallets == {w1, w2}
OneCommitment == {c1}
TwoCommitments == {c1, c2}
OneNonce == {n1}
TwoNonces == {n1, n2}
OneKey == {k1}
TwoKeys == {k1, k2}
OneAuthority == {a1}
ZeroOnly == {0}
ZeroOne == {0, 1}
ZeroOneTwo == 0 .. 2
OneOnly == {1}
ZeroTwo == {0, 2}
Current == {185}
OldConfig == {113}
NoneOrOld == {0, 113}
OldLens == {207, 543}
MidLen == {543}
CurrentLen == {593}
Unverified == {[count |-> 0, resetAt |-> 0]}
UpToOnce == {[count |-> n, resetAt |-> 0] : n \in 0 .. 1}

\* The bounds of the program, and inputs just past each of them.
Hamming == {<<96, 3>>, <<97, 3>>, <<96, 2>>, <<3, 3>>}
GoodHamming == {<<96, 3>>}

MintUpdate == {"Mint", "Update"}
MintRebaseline == {"Mint", "Rebaseline"}
MintReset == {"Mint", "Reset"}
MintUpdateReset == {"Mint", "Update", "Reset"}
MintRebaseReset == {"Mint", "Rebaseline", "Reset"}
Plain == {2}
PlainAndDigest == {2, 4}
AllFormats == {1, 2, 4}
============================================================================
