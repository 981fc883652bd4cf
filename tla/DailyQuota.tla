------------------------------ MODULE DailyQuota ------------------------------
(***************************************************************************)
(* What a daily limit promises to the owner of a sender, without locks,    *)
(* transactions or processes: a message's recipients are charged once, to  *)
(* one day, at one moment at which they fit in; the charge then stays.     *)
(* Both the reservation transaction and the delivery pipeline, which takes *)
(* it for a single step, implement this.                                   *)
(***************************************************************************)
EXTENDS QuotaLedger

VARIABLES reserved,  \* reserved[m]: the day that m is charged to, or NoDay
          ceiling,   \* ceiling[a]: the highest daily limit that a ever had
          today

quota == <<reserved, ceiling, today>>

Init ==
  /\ reserved = [m \in Messages |-> NoDay]
  /\ ceiling \in [Senders -> Nat]
  /\ today = 1

(* Comparison and charge are one step.  A call that has been waiting charges *)
(* the day on which it began.                                                *)
Charge(m, d) ==
  /\ reserved[m] = NoDay
  /\ Usage(reserved, SenderOf[m], d) + RecipientCount(m) <= ceiling[SenderOf[m]]
  /\ reserved' = [reserved EXCEPT ![m] = d]
  /\ UNCHANGED <<ceiling, today>>

Raise ==
  /\ ceiling' \in [Senders -> Nat]
  /\ \A a \in Senders : ceiling[a] <= ceiling'[a]
  /\ UNCHANGED <<reserved, today>>

Midnight == today' = today + 1 /\ UNCHANGED <<reserved, ceiling>>

Next == Raise \/ Midnight \/ \E m \in Messages, d \in 1..today : Charge(m, d)

Spec == Init /\ [][Next]_quota
=============================================================================
