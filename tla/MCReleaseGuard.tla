--------------------------- MODULE MCReleaseGuard ---------------------------
(* Instances of ReleaseGuard for TLC: a wheel and an sdist, and builds of    *)
(* the source that yield the same wheel but not always the same sdist.       *)
EXTENDS ReleaseGuard, TLC

CONSTANTS r1, r2, d1, d2

MCFiles == 1 .. 2
SameBuild == { [f \in MCFiles |-> d1] }
MCBuilds == SameBuild \cup { [f \in MCFiles |-> IF f = 1 THEN d1 ELSE d2],
                             [f \in MCFiles |-> d2] }
RunSymmetry == Permutations(Runs)
=============================================================================
