-------------------------------- MODULE OneSend --------------------------------
(***************************************************************************)
(* What a caller of SmtpTransport.send may rely on: the call ends once; it *)
(* returns only when Gmail has taken the message for all recipients.  When *)
(* it throws, Gmail may have taken the message too, and after an error     *)
(* that is not an SMTP reply it may still do so.                           *)
(***************************************************************************)
VARIABLES accepted,   \* Gmail has taken the message
          ends        \* how the call ended

send == <<accepted, ends>>

Init == accepted = FALSE /\ ends = "pending"

Accept ==
  /\ ends \in {"pending", "error"} /\ ~accepted
  /\ accepted' = TRUE
  /\ UNCHANGED ends

End ==
  /\ ends = "pending"
  /\ ends' \in {"ok", "transient", "rejected", "error"}
  /\ ends' = "ok" => accepted
  /\ UNCHANGED accepted

Spec == Init /\ [][Accept \/ End]_send
=============================================================================
