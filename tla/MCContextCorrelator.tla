------------------------ MODULE MCContextCorrelator ------------------------
(* Model-checking instance of ContextCorrelator, with times for which the   *)
(* retention is long enough.                                                *)
EXTENDS ContextCorrelator

ASSUME RetentionAssumption == EnoughRetention
=============================================================================
