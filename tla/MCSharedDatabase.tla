-------------------------- MODULE MCSharedDatabase --------------------------
(* Model-checking instance of SharedDatabase.  Processes are all alike, and *)
(* so are devices; every property is about single steps.                    *)
EXTENDS SharedDatabase, TLC

Alike == Permutations(Process) \cup Permutations(Device)
=============================================================================
