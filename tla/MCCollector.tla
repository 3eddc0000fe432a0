---------------------------- MODULE MCCollector -----------------------------
(* Model-checking instance of Collector.                                   *)
EXTENDS Collector
=============================================================================
