------------------------- MODULE MCDailyTransaction -------------------------
EXTENDS DailyTransaction, TLC
=============================================================================
