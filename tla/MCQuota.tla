-------------------------------- MODULE MCQuota --------------------------------
(* Instances of the reservation transaction: calls for messages of one sender *)
(* that together ask for more recipients than its limit allows.               *)
EXTENDS QuotaTransaction, TLC

CONSTANTS m1, m2, c1, c2, sender, r1, r2

MCSenderOf == [m \in Messages |-> sender]
MCRecipients == [m \in Messages |-> IF m = m1 THEN {r1, r2} ELSE {r1}]
=============================================================================
