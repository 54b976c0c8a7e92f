---------------------------- MODULE MCMarketData ----------------------------
(* MarketData on a small instance; jobs and consumers are interchangeable.   *)
EXTENDS MarketData, TLC

Symmetry == Permutations(Jobs) \cup Permutations(Consumers)
=============================================================================
