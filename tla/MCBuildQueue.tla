---------------------------- MODULE MCBuildQueue ----------------------------
(***************************************************************************)
(* Instances of BuildQueue for TLC.                                        *)
(***************************************************************************)
EXTENDS BuildQueue, TLC

CONSTANTS b1, b2, b3, p1, p2, c1, c2, w1, w2

Symmetry == Permutations(Builds) \cup Permutations(Projects)
              \cup Permutations(Clients) \cup Permutations(Workers)
=============================================================================
