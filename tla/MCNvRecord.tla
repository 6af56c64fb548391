----------------------------- MODULE MCNvRecord -----------------------------
EXTENDS NvRecord, TLC

CONSTANTS main, bak, log

\* The record's module is 0; module 1 logs into a sector of its own.
OwnerAlone == (main :> 0) @@ (bak :> 0)
OwnerWithLog == OwnerAlone @@ (log :> 1)
=============================================================================
