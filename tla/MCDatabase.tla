----------------------------- MODULE MCDatabase -----------------------------
(* Model-checking instance of Database.                                    *)
EXTENDS Database
=============================================================================
