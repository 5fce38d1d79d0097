----------------------------- MODULE MCServices -----------------------------
(* Services with names for its threads and its sets of skill roots.        *)
EXTENDS Services

CONSTANTS a, b, c, s1, s2, s3, reapply, noRoots, nobody
=============================================================================
