--------------------------- MODULE MCGeoPKIServer ---------------------------
(* Instances of GeoPKIServer for TLC. *)
EXTENDS GeoPKIServer, TLC

CONSTANTS r1, r2, u1, u2, c1, c2

\* c1 outlives every release.  The start of the server takes instant 1, so c2 is
\* valid in the first release and has expired in the second.
MCNotAfter == (c1 :> 9) @@ (c2 :> 2)

MCBatches == {{c1}, {c2}}
OneBatch == {{c1}}
ExpiringBatch == {{c2}}

Symmetry == Permutations({r1, r2}) \cup Permutations({u1, u2})
=============================================================================
