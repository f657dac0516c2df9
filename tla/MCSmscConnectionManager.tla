------------------- MODULE MCSmscConnectionManager -------------------
(* SmscConnectionManager with interchangeable requests. *)
EXTENDS SmscConnectionManager, TLC
Symmetry == Permutations(Requests)
======================================================================
