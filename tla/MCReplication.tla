--------------------------- MODULE MCReplication ---------------------------
(* Model values and bounds of the Replication runs. *)
EXTENDS Replication, TLC

\* Keys are interchangeable.
Symmetry == Permutations(Keys)
=============================================================================
