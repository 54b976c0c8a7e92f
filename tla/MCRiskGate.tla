----------------------------- MODULE MCRiskGate -----------------------------
(* RiskGate on a small instance.                                            *)
EXTENDS RiskGate

\* One difficulty at a time: a fault while both limits bite; the account snapshot
\* coming and going; a rewound group that hands signals out again; a malformed
\* entry in a batch.
MCScenarios ==
    {[entries |-> 4, malformed |-> 0, faults |-> 1, rewinds |-> 0, expiry |-> FALSE],
     [entries |-> 3, malformed |-> 0, faults |-> 0, rewinds |-> 0, expiry |-> TRUE],
     [entries |-> 2, malformed |-> 0, faults |-> 0, rewinds |-> 1, expiry |-> FALSE],
     [entries |-> 2, malformed |-> 1, faults |-> 1, rewinds |-> 0, expiry |-> FALSE]}
=============================================================================
