------------------------------ MODULE MCAppKey ------------------------------
EXTENDS AppKey, TLC

\* The power key alone.
MCBuilds == {[noGroupKey |-> TRUE, keys |-> {PwrKey}]}
=============================================================================
