-------------------------- MODULE MCProcessManager --------------------------
(* Bounded instances of ProcessManager for TLC.                            *)
EXTENDS ProcessManager
=============================================================================
