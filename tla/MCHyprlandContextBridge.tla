---------------------- MODULE MCHyprlandContextBridge ----------------------
(* Model-checking instance of HyprlandContextBridge.                       *)
EXTENDS HyprlandContextBridge
=============================================================================
