--------------------------- MODULE MessageLifecycle ---------------------------
(***************************************************************************)
(* What SendPlug promises about one message, without processes, queue or   *)
(* faults: the status a client can read moves along a fixed graph, mail    *)
(* leaves only while the status is SENDING, and a message that Gmail has   *)
(* taken is never started again.                                           *)
(***************************************************************************)
EXTENDS Naturals

CONSTANT Messages

VARIABLES status,   \* status[m]: what the Delivery row says
          copies    \* copies[m]: how often Gmail accepted m

lifecycle == <<status, copies>>

Init ==
  /\ status = [m \in Messages |-> "ABSENT"]
  /\ copies = [m \in Messages |-> 0]

Move(m, from, to) ==
  /\ status[m] \in from
  /\ status' = [status EXCEPT ![m] = to]
  /\ UNCHANGED copies

Create(m) == Move(m, {"ABSENT"}, "QUEUED")

(* The queue refused the message: it fails without ever being started.       *)
Refuse(m) == Move(m, {"QUEUED"}, "FAILED")

(* An attempt starts only while Gmail holds no copy.                         *)
Start(m) == copies[m] = 0 /\ Move(m, {"QUEUED", "FAILED"}, "SENDING")

Deliver(m) ==
  /\ status[m] = "SENDING" /\ copies[m] = 0
  /\ copies' = [copies EXCEPT ![m] = 1]
  /\ UNCHANGED status

Confirm(m) == copies[m] = 1 /\ Move(m, {"SENDING"}, "SENT")

(* The attempt ends without a confirmed delivery.                            *)
GiveUp(m) == Move(m, {"SENDING"}, "FAILED")

Next == \E m \in Messages :
          \/ Create(m) \/ Refuse(m) \/ Start(m)
          \/ Deliver(m) \/ Confirm(m) \/ GiveUp(m)

Spec == Init /\ [][Next]_lifecycle
=============================================================================
