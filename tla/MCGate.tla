-------------------------------- MODULE MCGate --------------------------------
(* An instance of the account API and the send gate for TLC.                  *)
EXTENDS SendGate, TLC

CONSTANTS a1, a2, s1, s2, k1, r1, r2, c1, m1

MCScopeSets == {{"send"}, {"send", "status"}}
GateSymmetry == Permutations(Accounts) \cup Permutations(Senders) \cup Permutations(Requests)
=============================================================================
