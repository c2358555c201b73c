----------------------------- MODULE MCLogTail -----------------------------
EXTENDS LogTail, TLC
=============================================================================
