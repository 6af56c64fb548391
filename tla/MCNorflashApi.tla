--------------------------- MODULE MCNorflashApi ----------------------------
EXTENDS NorflashApi, TLC

CONSTANTS s1, s2, s3, v1

\* Module 0 owns two sectors, module 1 one.
OwnerTwoOne == (s1 :> 0) @@ (s2 :> 0) @@ (s3 :> 1)
OwnerOneOne == (s1 :> 0) @@ (s3 :> 1)
=============================================================================
