----------------------- MODULE MCApplicationLifecycle -----------------------
(* Two requests on two connections; every outside call may fail.            *)
EXTENDS ApplicationLifecycle

AllFaults == FaultNames
=============================================================================
