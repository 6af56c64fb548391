---------------------------- MODULE MCLogSection ----------------------------
EXTENDS LogSection, TLC
=============================================================================
