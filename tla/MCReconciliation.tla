-------------------------- MODULE MCReconciliation --------------------------
(* Reconciliation on a small instance: trades, sweeps and requests are        *)
(* interchangeable, so runs without liveness take the quotient by Symmetry.   *)
EXTENDS Reconciliation, TLC

Symmetry == Permutations(Trades) \cup Permutations(Sweepers) \cup Permutations(Requests)
=============================================================================
