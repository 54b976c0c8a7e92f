-------------------------- MODULE MCOrderExecution --------------------------
(* OrderExecution on a small instance.  Workers and keys are interchangeable *)
(* in the specification, so safety runs take the quotient by Symmetry.       *)
EXTENDS OrderExecution, TLC

Symmetry == Permutations(Consumers) \cup Permutations(Keys)
=============================================================================
