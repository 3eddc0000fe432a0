--------------------------- MODULE MCCorrelatorGap ---------------------------
(* Model-checking instance of ContextCorrelator without the assumption that *)
(* samples come often enough: the bridge thread may be held up for longer   *)
(* than the retention, by a compositor that does not answer.                *)
EXTENDS ContextCorrelator
=============================================================================
