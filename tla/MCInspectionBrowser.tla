------------------------ MODULE MCInspectionBrowser -------------------------
(* Model-checking instance of InspectionBrowser; devices are all alike.     *)
EXTENDS InspectionBrowser, TLC

Alike == Permutations(Device)
=============================================================================
