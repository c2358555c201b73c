-------------------------- MODULE MCCrashDispatch --------------------------
EXTENDS CrashDispatch, TLC
=============================================================================
