------------------------------ MODULE MCIndexerDlq ------------------------------
(* IndexerDlq for TLC: the workers are interchangeable. *)
EXTENDS IndexerDlq, TLC

Symmetry == Permutations(Worker)
=============================================================================
