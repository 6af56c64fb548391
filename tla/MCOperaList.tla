----------------------------- MODULE MCOperaList ----------------------------
EXTENDS OperaList, TLC

CONSTANTS m1, m2, s1, s2, s3

OwnerTwoOne == (s1 :> m1) @@ (s2 :> m1) @@ (s3 :> m2)
=============================================================================
