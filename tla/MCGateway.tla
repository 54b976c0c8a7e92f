------------------------------ MODULE MCGateway -----------------------------
EXTENDS Gateway, TLC

\* Requests differ in nothing, and no temporal property is checked.
Symmetry == Permutations(Request)
=============================================================================
