----------------------------- MODULE MCDatabase -----------------------------
(* Constants of the run of Database.                                       *)
EXTENDS Database, TLC

CONSTANTS t1, t2, t3, k1, v1

Symmetry == Permutations(Threads)
=============================================================================
