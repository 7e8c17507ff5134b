------------------------------ MODULE MCBridge ------------------------------
(* Constants of the runs of Bridge.                                        *)
EXTENDS Bridge, TLC

CONSTANTS a1, a2, o1, o2, i1, i2, i3, w1, w2, w3

Symmetry == Permutations(Arrays) \cup Permutations(Leaves)
            \cup Permutations(Instances) \cup Permutations(Wrappers)
=============================================================================
