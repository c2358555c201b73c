------------------------ MODULE MCBackendController ------------------------
(* Bounded instances of BackendController for TLC.                         *)
EXTENDS BackendController
=============================================================================
