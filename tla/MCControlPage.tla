--------------------------- MODULE MCControlPage ---------------------------
(* Instances of ControlPage for TLC: the equalizer values are              *)
(* interchangeable.                                                        *)
EXTENDS ControlPage, TLC
CONSTANTS b1, b2, v1, v2, g1
MCBands == {b1, b2}
MCValues == {v1, v2}
MCGains == {g1}
Symmetry == Permutations(MCValues)
=============================================================================
