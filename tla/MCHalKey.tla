------------------------------ MODULE MCHalKey ------------------------------
EXTENDS HalKey, TLC

CONSTANTS fn1, fn2

\* Two GPIO keys without a power key, and one GPIO key beside it, where NO_GROUPKEY
\* may be defined.
MCBuilds ==
  {[noGroupKey |-> FALSE, keys |-> {fn1, fn2}]} \cup
  [noGroupKey : BOOLEAN, keys : {{PwrKey, fn1}}]

\* The power key alone.
MCOneKey == [noGroupKey : BOOLEAN, keys : {{PwrKey}}]
=============================================================================
