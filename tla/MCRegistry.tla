----------------------------- MODULE MCRegistry ----------------------------
(* Instances of RegistryLifecycle for TLC. *)
EXTENDS RegistryLifecycle

CONSTANTS a1, a2, k1, k2, k3, v1, v2, v3, none

MCAuthorities == {a1, a2}
MCKeys == {k1, k2, k3}
MCOneKey == {k1}
MCValidators == {v1, v2, v3}
MCNoValidators == {}
MCStakes == {1, 2, 3}
MCOneStake == {2}
MCProjections == {0, 1}
MCNoProjections == {0}
MCGraces == {-1, 0, 1, 2, 3}
MCNoGrace == {0}
MCLayouts == ConfigLayouts
MCStakingLayouts == {0, 77, 185}
MCFees == {0, 1, 2}
MCNoFees == {0}

============================================================================
