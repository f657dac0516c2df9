-------------------------- MODULE MCSmscConnection --------------------------
(* Model-checking instances of SmscConnection. *)
EXTENDS SmscConnection, TLC

\* The requests are interchangeable.
Symmetry == Permutations(Requests)
=============================================================================
