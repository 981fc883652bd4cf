------------------------------ MODULE MCDelivery ------------------------------
(* Instances of the delivery pipeline for TLC: the messages share one sender  *)
(* whose daily limit has room for fewer recipients than they ask for.         *)
EXTENDS DeliveryProperties, TLC

CONSTANTS m1, m2, w1, w2, sender, r1, r2

MCSenderOf == [m \in Messages |-> sender]
MCRecipients == [m \in Messages |-> IF m = m1 THEN {r1, r2} ELSE {r1}]
MCSameRecipients == [m \in Messages |-> {r1, r2}]
MCDailyLimit == [a \in Senders |-> 2]

AllFaults == FaultKinds
ProcessFaults == {"crash", "lock_lost", "smtp_error", "queue_error", "bad_credential"}
DatabaseFaults == {"db_error", "smtp_error", "queue_error", "bad_credential"}
LiveFaults == {"lock_lost", "smtp_error", "smtp_ambiguous", "queue_error", "queue_ambiguous"}

SlotSymmetry == Permutations(Slots)
(* Sound where the messages have the same recipients.                         *)
FullSymmetry == Permutations(Slots) \cup Permutations(Messages)
=============================================================================
