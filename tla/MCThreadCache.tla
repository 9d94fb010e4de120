--------------------------- MODULE MCThreadCache ---------------------------
EXTENDS ThreadCache, TLC

CONSTANTS r1, r2, r3, r4, r5, q1, q2

\* One class.
OneClass == 0 :> {r1, r2, r3, r4, r5}

\* Two classes.
TwoClasses == 0 :> {r1, r2, r3} @@ 1 :> {q1, q2}

OneClassSymmetry == Permutations(Thread) \cup Permutations({r1, r2, r3, r4, r5})
=============================================================================
