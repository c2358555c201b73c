------------------------ MODULE MCSupervisorDispatch ------------------------
EXTENDS SupervisorDispatch, TLC
=============================================================================
