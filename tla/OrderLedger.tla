---------------------------- MODULE OrderLedger ----------------------------
(***************************************************************************)
(* What the execution service promises about an idempotency key, without   *)
(* streams, caches, workers or threads: the key is claimed once, only a    *)
(* claimed and unsettled key is sent to the broker and at most MaxAttempts *)
(* times, it settles once, and the settled outcome is announced once.      *)
(* A claimed key may stay claimed for ever: nothing is promised about that.*)
(***************************************************************************)
EXTENDS Naturals

CONSTANTS
    Keys,
    MaxAttempts,
    MaySimulate,  \* is some worker in dry-run mode?
    MaySend       \* is some worker live?

VARIABLES row, sends, announced

ledgerVars == <<row, sends, announced>>

Nothing == [filled |-> 0, rejected |-> 0]

Init ==
    /\ row = [k \in Keys |-> "absent"]
    /\ sends = [k \in Keys |-> 0]
    /\ announced = [k \in Keys |-> Nothing]

Claim(k) ==
    /\ row[k] = "absent"
    /\ row' = [row EXCEPT ![k] = "pending"]
    /\ UNCHANGED <<sends, announced>>

Send(k) ==
    /\ MaySend
    /\ row[k] = "pending"
    /\ sends[k] < MaxAttempts
    /\ sends' = [sends EXCEPT ![k] = @ + 1]
    /\ UNCHANGED <<row, announced>>

\* A fill is real or simulated; a rejection is always the broker's.
Settle(k) ==
    /\ row[k] = "pending"
    /\ \/ /\ MaySimulate \/ sends[k] > 0
          /\ row' = [row EXCEPT ![k] = "filled"]
       \/ /\ sends[k] > 0
          /\ row' = [row EXCEPT ![k] = "rejected"]
    /\ UNCHANGED <<sends, announced>>

Announce(k) ==
    /\ announced[k] = Nothing
    /\ \/ /\ row[k] = "filled"
          /\ announced' = [announced EXCEPT ![k].filled = 1]
       \/ /\ row[k] = "rejected"
          /\ announced' = [announced EXCEPT ![k].rejected = 1]
    /\ UNCHANGED <<row, sends>>

Next == \E k \in Keys : Claim(k) \/ Send(k) \/ Settle(k) \/ Announce(k)

Spec == Init /\ [][Next]_ledgerVars
=============================================================================
