---------------------------- MODULE DeliveryProofs ----------------------------
(***************************************************************************)
(* The types of the delivery pipeline, proved for every number of          *)
(* messages, senders, slots, attempts and stalls, and the effect of the    *)
(* small writes the actions are made of, for the proofs in other modules.  *)
(***************************************************************************)
EXTENDS DeliveryProperties, TLAPS

-----------------------------------------------------------------------------
(* Bookkeeping that the types rest on: only an active job has a lock, a job  *)
(* that may still run has attempts and stalls left, a busy slot has a        *)
(* message.                                                                  *)
JobCounts ==
  \A m \in Messages :
    /\ job[m].lock # NoSlot => job[m].state = "active"
    /\ job[m].state \in {"waiting", "active"} =>
         job[m].attempts < MaxAttempts /\ job[m].stalls <= MaxStalls

BusySlots ==
  \A s \in Slots :
    IF slot[s].pc = "idle" THEN slot[s] = Idle ELSE slot[s].msg \in Messages

TypeInv == TypeOK /\ JobCounts /\ BusySlots

-----------------------------------------------------------------------------
(* What the writes do.                                                       *)

(* Goto moves one call and nothing else.                                     *)
LEMMA GotoEffect ==
  ASSUME TypeOK, NEW s \in Slots, NEW pc \in SlotPcs, Goto(s, pc)
  PROVE  /\ slot' \in [Slots -> Calls]
         /\ slot'[s].pc = pc /\ slot'[s].msg = slot[s].msg
         /\ slot'[s].senderActive = slot[s].senderActive /\ slot'[s].code = slot[s].code
         /\ \A t \in Slots : t # s => slot'[t] = slot[t]
BY DEF TypeOK, Goto, Calls

(* Fail moves one call to the catch block, with its code.                    *)
LEMMA FailEffect ==
  ASSUME TypeOK, NEW s \in Slots, NEW code \in FailureCodes, Fail(s, code)
  PROVE  /\ slot' \in [Slots -> Calls]
         /\ slot'[s].pc = "markFailed" /\ slot'[s].msg = slot[s].msg
         /\ slot'[s].senderActive = slot[s].senderActive /\ slot'[s].code = code
         /\ \A t \in Slots : t # s => slot'[t] = slot[t]
BY DEF TypeOK, Fail, Calls, SlotPcs

(* A slot that becomes free, or takes a job, changes alone.                  *)
LEMMA SlotEffect ==
  ASSUME TypeOK, NEW s \in Slots, NEW call \in Calls, slot' = [slot EXCEPT ![s] = call]
  PROVE  /\ slot' \in [Slots -> Calls]
         /\ slot'[s] = call
         /\ \A t \in Slots : t # s => slot'[t] = slot[t]
BY DEF TypeOK

(* A handler's progress changes one request.                                 *)
LEMMA RequestEffect ==
  ASSUME TypeOK, NEW m \in Messages, NEW pc \in RequestPcs, RequestAt(m, pc)
  PROVE  /\ api' \in [Messages -> Requests]
         /\ api'[m].pc = pc /\ api'[m].subject = api[m].subject
         /\ \A n \in Messages : n # m => api'[n] = api[n]
BY DEF TypeOK, Requests, RequestAt

(* A queue operation changes one job.                                        *)
LEMMA JobEffect ==
  ASSUME TypeOK, NEW m \in Messages, NEW j \in Jobs, job' = [job EXCEPT ![m] = j]
  PROVE  /\ job' \in [Messages -> Jobs]
         /\ job'[m] = j
         /\ \A n \in Messages : n # m => job'[n] = job[n]
BY DEF TypeOK

(* The constants of the initial values have the types of the variables.      *)
LEMMA Zeros ==
  /\ 0 \in 0..MaxDay /\ 1 \in 1..MaxDay /\ 0 \in 0..MaxAttempts /\ 0 \in 0..(MaxStalls + 1)
  /\ 0 < MaxAttempts /\ 0 <= MaxStalls
  /\ MaxAttempts \in Nat /\ MaxStalls \in Nat /\ MaxDay \in Nat
  /\ NoSlot \notin Slots /\ NoMessage \notin Messages
BY PipelineAssumption

(* A job that was not added, and a free slot.                                *)
LEMMA Blanks == NoJob \in Jobs /\ Idle \in Calls /\ Idle.pc = "idle" /\ Idle.msg = NoMessage
<1>1. NoJob \in Jobs
  BY Zeros DEF Jobs, NoJob, JobStates, SubjectOrNone
<1>2. Idle \in Calls /\ Idle.pc = "idle" /\ Idle.msg = NoMessage
  BY DEF Calls, Idle, SlotPcs
<1>3. QED
  BY <1>1, <1>2

-----------------------------------------------------------------------------
(* The initial state is well typed.                                          *)
LEMMA InitTypeInv == Init => TypeInv
<1> SUFFICES ASSUME Init PROVE TypeInv
  OBVIOUS
<1> USE DEF Init
<1>1. api \in [Messages -> Requests]
  BY DEF Requests, RequestPcs, SubjectOrNone
<1>2. row \in [Messages -> Rows]
  BY DEF Rows, SubjectOrNone, Statuses, Codes
<1>3. job \in [Messages -> Jobs]
  BY Blanks
<1>4. slot \in [Slots -> Calls]
  BY Blanks
<1>5. active \in [Senders -> BOOLEAN]
  BY Zenon
<1>6. reserved \in [Messages -> 0..MaxDay] /\ today \in 1..MaxDay
  BY Zeros DEF NoDay
<1>7. gmail \in [Messages -> [copies : Nat, day : 0..MaxDay]]
  BY Zeros DEF NoDay
<1>8. JobCounts
  BY Zeros DEF JobCounts, NoJob
<1>9. BusySlots
  BY Blanks DEF BusySlots
<1>10. QED
  BY <1>1, <1>2, <1>3, <1>4, <1>5, <1>6, <1>7, <1>8, <1>9 DEF TypeInv, TypeOK

-----------------------------------------------------------------------------
(* What one step of a processor call does, action by action.                 *)

(* The call of s goes on with its message, the others stay.                  *)
Advances(s) ==
  /\ slot' \in [Slots -> Calls]
  /\ slot'[s].msg = slot[s].msg
  /\ \A t \in Slots : t # s => slot'[t] = slot[t]

(* At most the row of message m is written.                                  *)
Writes(m) ==
  /\ row' \in [Messages -> Rows]
  /\ row'[m].subject = row[m].subject
  /\ \A n \in Messages : n # m => row'[n] = row[n]

(* The message of a slot that runs a call.                                   *)
LEMMA BusyMessage ==
  ASSUME TypeInv, NEW s \in Slots, slot[s].pc # "idle"
  PROVE  slot[s].msg \in Messages
BY DEF TypeInv, BusySlots

(* A database write that had no effect.                                      *)
LEMMA UnwrittenRow ==
  ASSUME TypeOK, NEW m \in Messages, row' = row
  PROVE  Writes(m)
BY Zenon DEF TypeOK, Writes

(* An update of a Delivery row writes its status and code.                   *)
LEMMA WrittenRow ==
  ASSUME TypeOK, NEW m \in Messages, NEW status \in Statuses, NEW code \in Codes,
         row' = [row EXCEPT ![m].status = status, ![m].code = code]
  PROVE  Writes(m) /\ row'[m].status = status /\ row'[m].code = code
BY DEF TypeOK, Rows, Writes

(* load: SENT ends the call, otherwise it goes on to claim the row.          *)
LEMMA LoadEffect ==
  ASSUME TypeInv, NEW s \in Slots, Load(s)
  PROVE  /\ Advances(s)
         /\ slot[s].pc = "load" /\ slot'[s].pc \in {"done", "claim", "retry"}
         /\ slot'[s].code = slot[s].code
         /\ slot'[s].pc = "done" => row[slot[s].msg].status = "SENT"
         /\ UNCHANGED <<api, row, job, active, reserved, today, gmail>>
<1> DEFINE m == slot[s].msg
<1>1. TypeOK /\ slot[s].pc = "load"
  BY DEF Load, TypeInv
<1>2. CASE row[m].status = "SENT" /\ Goto(s, "done")
  BY <1>1, <1>2, GotoEffect DEF Load, Advances, SlotPcs
<1>3. CASE slot' = [slot EXCEPT ![s].pc = "claim", ![s].senderActive = active[SenderOf[m]]]
  <2>1. m \in Messages
    BY <1>1, BusyMessage
  <2>2. active[SenderOf[m]] \in BOOLEAN
    BY <1>1, <2>1, LedgerAssumption DEF TypeOK
  <2>3. QED
    BY <1>1, <1>3, <2>2 DEF Load, Advances, TypeOK, Calls, SlotPcs
<1>4. CASE Goto(s, "retry")
  BY <1>1, <1>4, GotoEffect DEF Load, Advances, SlotPcs
<1>5. QED
  BY <1>2, <1>3, <1>4 DEF Load

(* startDelivery: the claim moves QUEUED or FAILED to SENDING.               *)
LEMMA StartDeliveryEffect ==
  ASSUME TypeInv, NEW s \in Slots, StartDelivery(s)
  PROVE  /\ Advances(s) /\ Writes(slot[s].msg)
         /\ slot[s].pc = "claim" /\ slot'[s].pc \in {"reserve", "retry", "done"}
         /\ slot'[s].code = slot[s].code
         /\ \/ /\ row[slot[s].msg].status \in {"QUEUED", "FAILED"}
               /\ row'[slot[s].msg].status = "SENDING"
               /\ slot'[s].pc = "reserve" \/ ("db_ack_lost" \in Faults /\ slot'[s].pc = "retry")
            \/ /\ UNCHANGED row /\ slot'[s].pc \in {"retry", "done"}
               /\ slot'[s].pc = "done" => row[slot[s].msg].status = "SENT"
         /\ UNCHANGED <<api, job, active, reserved, today, gmail>>
<1> DEFINE m == slot[s].msg
<1>1. TypeOK /\ slot[s].pc = "claim" /\ m \in Messages
      /\ UNCHANGED <<api, job, active, reserved, today, gmail>>
  BY BusyMessage DEF StartDelivery, TypeInv
<1>2. ASSUME NEW pc \in {"reserve", "retry", "done"}, Goto(s, pc)
      PROVE  Advances(s) /\ slot'[s].pc = pc /\ slot'[s].code = slot[s].code
  BY <1>1, <1>2, GotoEffect DEF Advances, SlotPcs
<1>3. ASSUME row' = [row EXCEPT ![m].status = "SENDING", ![m].code = "none"]
      PROVE  Writes(m) /\ row'[m].status = "SENDING"
  BY <1>1, <1>3, WrittenRow DEF Statuses, Codes
<1>4. ASSUME row' = row PROVE Writes(m)
  BY <1>1, <1>4, UnwrittenRow
<1>5. CASE row[m].status \in Claimable
  BY <1>1, <1>2, <1>3, <1>4, <1>5 DEF StartDelivery, DbWrite, Claimable
<1>6. CASE row[m].status \notin Claimable
  BY <1>1, <1>2, <1>4, <1>6 DEF StartDelivery, Unclaimed
<1>7. QED
  BY <1>5, <1>6

(* The checks and reserveQuota: to the session with a reservation, or out.   *)
LEMMA ReserveQuotaEffect ==
  ASSUME TypeInv, NEW s \in Slots, ReserveQuota(s)
  PROVE  /\ Advances(s)
         /\ slot[s].pc = "reserve" /\ slot'[s].pc \in {"smtp", "markFailed"}
         /\ slot'[s].pc = "markFailed" => slot'[s].code \in FailureCodes \ {AmbiguousCode}
         /\ reserved' \in [Messages -> 0..MaxDay]
         /\ slot'[s].pc = "smtp" => reserved'[slot[s].msg] # NoDay
         /\ \/ UNCHANGED reserved
            \/ /\ reserved[slot[s].msg] = NoDay /\ FitsQuota(slot[s].msg)
               /\ reserved' = [reserved EXCEPT ![slot[s].msg] = today]
         /\ UNCHANGED <<api, row, job, active, today, gmail>>
<1> DEFINE m == slot[s].msg
<1>1. TypeOK /\ slot[s].pc = "reserve" /\ m \in Messages
      /\ UNCHANGED <<api, row, job, active, today, gmail>>
  BY BusyMessage DEF ReserveQuota, TypeInv
<1>2. ASSUME NEW code \in FailureCodes \ {AmbiguousCode}, Fail(s, code)
      PROVE  Advances(s) /\ slot'[s].pc = "markFailed"
             /\ slot'[s].code \in FailureCodes \ {AmbiguousCode}
  BY <1>1, <1>2, FailEffect DEF Advances
<1>3. ASSUME Goto(s, "smtp") PROVE Advances(s) /\ slot'[s].pc = "smtp"
  BY <1>1, <1>3, GotoEffect DEF Advances, SlotPcs
<1>4. {"delivery_mismatch", "invalid_sender", "quota_exceeded", "temporary_failure"}
        \subseteq FailureCodes \ {AmbiguousCode}
  BY DEF FailureCodes, RetryableCodes, AmbiguousCode
<1>5. ASSUME UNCHANGED reserved PROVE reserved' \in [Messages -> 0..MaxDay]
  BY <1>1, <1>5 DEF TypeOK
<1>6. ASSUME reserved' = [reserved EXCEPT ![m] = today]
      PROVE  reserved' \in [Messages -> 0..MaxDay] /\ reserved'[m] # NoDay
  BY <1>1, <1>6, Zeros DEF TypeOK, NoDay
<1>7. QED
  BY <1>1, <1>2, <1>3, <1>4, <1>5, <1>6 DEF ReserveQuota

(* An App Password that does not decrypt, or a header that is refused, ends  *)
(* the attempt.                                                              *)
LEMMA DecryptFailsEffect ==
  ASSUME TypeInv, NEW s \in Slots, DecryptFails(s)
  PROVE  /\ Advances(s)
         /\ slot[s].pc = "smtp" /\ slot'[s].pc = "markFailed"
         /\ slot'[s].code \in FailureCodes \ {AmbiguousCode}
         /\ UNCHANGED <<api, row, job, active, reserved, today, gmail>>
<1>1. {"credential_invalid", "invalid_job"} \subseteq FailureCodes \ {AmbiguousCode}
  BY DEF FailureCodes, AmbiguousCode
<1>2. PICK failure \in {"credential_invalid", "invalid_job"} : Fail(s, failure)
  BY DEF DecryptFails
<1>3. failure \in FailureCodes \ {AmbiguousCode}
  BY <1>1
<1>4. QED
  BY <1>2, <1>3, FailEffect DEF DecryptFails, Advances, TypeInv

(* The session: Gmail took one more copy or none.                            *)
LEMMA SmtpSendEffect ==
  ASSUME TypeInv, NEW s \in Slots, SmtpSend(s)
  PROVE  /\ Advances(s)
         /\ slot[s].pc = "smtp" /\ slot'[s].pc \in {"markSent", "markFailed"}
         /\ slot'[s].pc = "markFailed" => slot'[s].code \in FailureCodes \ {AmbiguousCode}
         /\ \/ /\ gmail' = [gmail EXCEPT ![slot[s].msg] = [copies |-> @.copies + 1, day |-> today]]
               /\ slot'[s].pc = "markFailed" => "smtp_ambiguous" \in Faults
            \/ gmail' = gmail /\ slot'[s].pc = "markFailed"
         /\ UNCHANGED <<api, row, job, active, reserved, today>>
<1> DEFINE m == slot[s].msg
<1>1. TypeOK /\ slot[s].pc = "smtp" /\ UNCHANGED <<api, row, job, active, reserved, today>>
  BY DEF SmtpSend, TypeInv
<1>2. PICK o \in SmtpOutcomes :
        /\ (o.ends # "ok" /\ o.accepted) => "smtp_ambiguous" \in Faults
        /\ gmail' = IF o.accepted
                      THEN [gmail EXCEPT ![m] = [copies |-> @.copies + 1, day |-> today]]
                      ELSE gmail
        /\ IF o.ends = "ok" THEN Goto(s, "markSent") ELSE Fail(s, SmtpCode(o.ends))
  BY DEF SmtpSend
<1>3. o.ends \in {"ok", "transient", "rejected", "error"} /\ (o.ends = "ok" => o.accepted)
  BY DEF SmtpOutcomes
<1>4. CASE o.ends = "ok"
  <2>1. Advances(s) /\ slot'[s].pc = "markSent"
    BY <1>1, <1>2, <1>4, GotoEffect DEF Advances, SlotPcs
  <2>2. QED
    BY <1>1, <1>2, <1>3, <1>4, <2>1
<1>5. CASE o.ends # "ok"
  <2>1. SmtpCode(o.ends) \in FailureCodes \ {AmbiguousCode}
    BY <1>3, <1>5 DEF SmtpCode, FailureCodes, RetryableCodes, AmbiguousCode
  <2>2. Advances(s) /\ slot'[s].pc = "markFailed" /\ slot'[s].code \in FailureCodes \ {AmbiguousCode}
    BY <1>1, <1>2, <1>5, <2>1, FailEffect DEF Advances
  <2>3. QED
    BY <1>1, <1>2, <1>5, <2>2
<1>6. QED
  BY <1>4, <1>5

(* markSent: the row is SENT, or the call goes to the catch block.           *)
LEMMA MarkSentEffect ==
  ASSUME TypeInv, NEW s \in Slots, MarkSent(s)
  PROVE  /\ Advances(s) /\ Writes(slot[s].msg)
         /\ slot[s].pc = "markSent" /\ slot'[s].pc \in {"done", "markFailed"}
         /\ \/ row'[slot[s].msg].status = "SENT" /\ slot'[s].pc = "done"
            \/ /\ row'[slot[s].msg].status = "SENT" /\ slot'[s].pc = "markFailed"
               /\ slot'[s].code = AmbiguousCode /\ "db_ack_lost" \in Faults
            \/ /\ UNCHANGED row /\ slot'[s].pc = "markFailed"
               /\ slot'[s].code = AmbiguousCode /\ "db_error" \in Faults
         /\ UNCHANGED <<api, job, active, reserved, today, gmail>>
<1> DEFINE m == slot[s].msg
<1>1. TypeOK /\ slot[s].pc = "markSent" /\ m \in Messages
      /\ UNCHANGED <<api, job, active, reserved, today, gmail>>
  BY BusyMessage DEF MarkSent, TypeInv
<1>2. ASSUME Goto(s, "done") PROVE Advances(s) /\ slot'[s].pc = "done"
  BY <1>1, <1>2, GotoEffect DEF Advances, SlotPcs
<1>3. ASSUME Fail(s, AmbiguousCode)
      PROVE  Advances(s) /\ slot'[s].pc = "markFailed" /\ slot'[s].code = AmbiguousCode
  BY <1>1, <1>3, FailEffect DEF Advances, FailureCodes
<1>4. ASSUME row' = [row EXCEPT ![m].status = "SENT", ![m].code = "sent"]
      PROVE  Writes(m) /\ row'[m].status = "SENT"
  BY <1>1, <1>4, WrittenRow DEF Statuses, Codes
<1>5. ASSUME row' = row PROVE Writes(m)
  BY <1>1, <1>5, UnwrittenRow
<1>6. QED
  BY <1>1, <1>2, <1>3, <1>4, <1>5 DEF MarkSent, DbWrite

(* The catch block: the row is FAILED, or its update threw.                  *)
LEMMA MarkFailedEffect ==
  ASSUME TypeInv, NEW s \in Slots, MarkFailed(s)
  PROVE  /\ Advances(s) /\ Writes(slot[s].msg)
         /\ slot[s].pc = "markFailed" /\ slot'[s].pc \in {"retry", "dead"}
         /\ slot'[s].code = slot[s].code
         /\ \/ /\ row'[slot[s].msg].status = "FAILED" /\ row'[slot[s].msg].code = slot[s].code
               /\ slot'[s].pc = "retry" => \/ slot[s].code \in RetryableCodes
                                           \/ "db_ack_lost" \in Faults
            \/ UNCHANGED row /\ "db_error" \in Faults
         /\ UNCHANGED <<api, job, active, reserved, today, gmail>>
<1> DEFINE m == slot[s].msg
           code == slot[s].code
<1>1. TypeOK /\ slot[s].pc = "markFailed" /\ m \in Messages
      /\ UNCHANGED <<api, job, active, reserved, today, gmail>>
  BY BusyMessage DEF MarkFailed, TypeInv
<1>2. ASSUME NEW pc \in {"retry", "dead"}, Goto(s, pc)
      PROVE  Advances(s) /\ slot'[s].pc = pc /\ slot'[s].code = slot[s].code
  BY <1>1, <1>2, GotoEffect DEF Advances, SlotPcs
<1>3. code \in Codes
  BY <1>1 DEF TypeOK, Calls, Codes
<1>4. ASSUME row' = [row EXCEPT ![m].status = "FAILED", ![m].code = code]
      PROVE  Writes(m) /\ row'[m].status = "FAILED" /\ row'[m].code = code
  BY <1>1, <1>3, <1>4, WrittenRow DEF Statuses
<1>5. ASSUME row' = row PROVE Writes(m)
  BY <1>1, <1>5, UnwrittenRow
<1>6. QED
  BY <1>1, <1>2, <1>4, <1>5 DEF MarkFailed, DbWrite

(* Any of them, seen from the other calls, rows and messages.                *)
LEMMA ProcessorEffect ==
  ASSUME TypeInv, NEW s \in Slots, ProcessorStep(s)
  PROVE  /\ Advances(s) /\ Writes(slot[s].msg)
         /\ slot[s].msg \in Messages
         /\ slot[s].pc # "idle" /\ slot'[s].pc # "idle"
         /\ reserved' \in [Messages -> 0..MaxDay]
         /\ gmail' \in [Messages -> [copies : Nat, day : 0..MaxDay]]
         /\ UNCHANGED <<api, job, active, today>>
<1> DEFINE m == slot[s].msg
<1>1. TypeOK
  BY DEF TypeInv
<1>2. slot[s].pc # "idle" => m \in Messages
  BY BusyMessage
<1>3. ASSUME UNCHANGED <<reserved, gmail>>
      PROVE  /\ reserved' \in [Messages -> 0..MaxDay]
             /\ gmail' \in [Messages -> [copies : Nat, day : 0..MaxDay]]
  BY <1>1, <1>3 DEF TypeOK
<1>4. ASSUME m \in Messages, UNCHANGED row PROVE Writes(m)
  BY <1>1, <1>4, UnwrittenRow
<1>5. CASE Load(s)
  BY <1>2, <1>3, <1>4, <1>5, LoadEffect
<1>6. CASE StartDelivery(s)
  BY <1>2, <1>3, <1>4, <1>6, StartDeliveryEffect
<1>7. CASE ReserveQuota(s)
  <2>1. gmail' \in [Messages -> [copies : Nat, day : 0..MaxDay]]
    BY <1>1, <1>7, ReserveQuotaEffect DEF TypeOK
  <2>2. QED
    BY <1>2, <1>4, <1>7, <2>1, ReserveQuotaEffect
<1>8. CASE DecryptFails(s)
  BY <1>2, <1>3, <1>4, <1>8, DecryptFailsEffect
<1>9. CASE SmtpSend(s)
  <2>1. today \in 0..MaxDay
    BY <1>1 DEF TypeOK
  <2>2. m \in Messages /\ reserved' \in [Messages -> 0..MaxDay]
    BY <1>1, <1>2, <1>9, SmtpSendEffect DEF TypeOK
  <2>3. gmail' \in [Messages -> [copies : Nat, day : 0..MaxDay]]
    <3> DEFINE mail == [copies |-> gmail[m].copies + 1, day |-> today]
    <3>1. mail \in [copies : Nat, day : 0..MaxDay]
      BY <1>1, <2>1, <2>2 DEF TypeOK
    <3>2. gmail' = gmail \/ gmail' = [gmail EXCEPT ![m] = mail]
      BY <1>9, SmtpSendEffect
    <3> HIDE DEF mail
    <3>3. QED
      BY <1>1, <3>1, <3>2 DEF TypeOK
  <2>4. QED
    BY <1>2, <1>4, <1>9, <2>2, <2>3, SmtpSendEffect
<1>10. CASE MarkSent(s)
  BY <1>2, <1>3, <1>10, MarkSentEffect
<1>11. CASE MarkFailed(s)
  BY <1>2, <1>3, <1>11, MarkFailedEffect
<1>12. QED
  BY <1>5, <1>6, <1>7, <1>8, <1>9, <1>10, <1>11 DEF ProcessorStep

-----------------------------------------------------------------------------
(* What the queue does.                                                      *)

(* At most the job of message m is written, and m keeps its bookkeeping.     *)
Requeues(m) ==
  /\ job' \in [Messages -> Jobs]
  /\ job'[m].lock # NoSlot => job'[m].state = "active"
  /\ job'[m].state \in {"waiting", "active"} =>
       job'[m].attempts < MaxAttempts /\ job'[m].stalls <= MaxStalls
  /\ \A n \in Messages : n # m => job'[n] = job[n]

(* A slot takes a waiting job and its lock.                                  *)
LEMMA TakeEffect ==
  ASSUME TypeInv, NEW s \in Slots, NEW m \in Messages, Take(s, m)
  PROVE  /\ Requeues(m)
         /\ slot' \in [Slots -> Calls]
         /\ slot[s] = Idle /\ slot'[s].pc = "load" /\ slot'[s].msg = m
         /\ \A t \in Slots : t # s => slot'[t] = slot[t]
         /\ job[m].state = "waiting" /\ job'[m].state = "active" /\ job'[m].lock = s
         /\ job'[m].attempts = job[m].attempts /\ job'[m].stalls = job[m].stalls
         /\ UNCHANGED <<api, row, active, reserved, today, gmail>>
<1>1. TypeOK /\ slot[s] = Idle /\ job[m].state = "waiting" /\ job[m] \in Jobs
      /\ UNCHANGED <<api, row, active, reserved, today, gmail>>
  BY DEF Take, TypeInv, TypeOK
<1>2. [Idle EXCEPT !.pc = "load", !.msg = m] \in Calls
  BY DEF Idle, Calls, SlotPcs
<1>3. /\ slot' \in [Slots -> Calls]
      /\ slot'[s] = [Idle EXCEPT !.pc = "load", !.msg = m]
      /\ \A t \in Slots : t # s => slot'[t] = slot[t]
  BY <1>1, <1>2, SlotEffect DEF Take
<1>4. slot'[s].pc = "load" /\ slot'[s].msg = m
  BY <1>3 DEF Idle
<1>5. job[m].attempts < MaxAttempts /\ job[m].stalls <= MaxStalls
  BY <1>1 DEF TypeInv, JobCounts
<1>6. /\ job' \in [Messages -> Jobs]
      /\ job'[m].state = "active" /\ job'[m].lock = s
      /\ job'[m].attempts = job[m].attempts /\ job'[m].stalls = job[m].stalls
      /\ \A n \in Messages : n # m => job'[n] = job[n]
  BY <1>1 DEF Take, TypeOK, Jobs, JobStates
<1>7. QED
  BY <1>1, <1>3, <1>4, <1>5, <1>6 DEF Requeues

(* A call ends: its slot is free, and its job moves on if the slot owned it. *)
LEMMA ReportEffect ==
  ASSUME TypeInv, NEW s \in Slots, ReportStep(s)
  PROVE  /\ slot[s].msg \in Messages
         /\ Requeues(slot[s].msg)
         /\ slot' \in [Slots -> Calls]
         /\ slot[s].pc \in {"done", "retry", "dead"} /\ slot'[s] = Idle
         /\ \A t \in Slots : t # s => slot'[t] = slot[t]
         /\ \/ UNCHANGED job /\ job[slot[s].msg].lock # s
            \/ /\ job[slot[s].msg].lock = s /\ job'[slot[s].msg].lock = NoSlot
               /\ job'[slot[s].msg].state \in {"waiting", "completed", "failed"}
               /\ slot[s].pc = "dead" => job'[slot[s].msg].state = "failed"
               /\ job'[slot[s].msg].state = "completed" => slot[s].pc = "done"
               /\ job'[slot[s].msg].state = "waiting" =>
                    /\ job'[slot[s].msg].attempts = job[slot[s].msg].attempts + 1
                    /\ job'[slot[s].msg].stalls = job[slot[s].msg].stalls
         /\ UNCHANGED <<api, row, active, reserved, today, gmail>>
<1> DEFINE m == slot[s].msg
<1>1. /\ TypeOK /\ slot[s].pc \in {"done", "retry", "dead"}
      /\ slot' = [slot EXCEPT ![s] = Idle]
      /\ UNCHANGED <<api, row, active, reserved, today, gmail>>
  BY DEF ReportStep, Complete, FailForGood, Retry, Report, TypeInv
<1>2. m \in Messages
  BY <1>1, BusyMessage
<1>3. job[m] \in Jobs
  BY <1>1, <1>2 DEF TypeOK
<1>4. /\ slot' \in [Slots -> Calls] /\ slot'[s] = Idle
      /\ \A t \in Slots : t # s => slot'[t] = slot[t]
  BY <1>1, Blanks, SlotEffect
<1>5. CASE job[m].lock # s
  <2>1. job' = job
    BY <1>5 DEF ReportStep, Complete, FailForGood, Retry, Report
  <2>2. QED
    BY <1>1, <1>2, <1>4, <1>5, <2>1 DEF Requeues, TypeOK, TypeInv, JobCounts
<1>6. CASE job[m].lock = s
  <2>1. job[m].attempts \in 0..MaxAttempts /\ job[m].attempts < MaxAttempts
        /\ job[m].stalls \in 0..(MaxStalls + 1) /\ job[m].stalls <= MaxStalls
    <3>1. job[m].state = "active"
      BY <1>2, <1>6, Zeros DEF TypeInv, JobCounts
    <3>2. QED
      BY <1>2, <1>3, <3>1 DEF TypeInv, JobCounts, Jobs
  <2>2. ASSUME NEW j \in Jobs, job' = [job EXCEPT ![m] = [j EXCEPT !.lock = NoSlot]]
        PROVE  /\ job' \in [Messages -> Jobs] /\ job'[m].lock = NoSlot
               /\ job'[m].state = j.state
               /\ job'[m].attempts = j.attempts /\ job'[m].stalls = j.stalls
               /\ \A n \in Messages : n # m => job'[n] = job[n]
    BY <1>1, <1>2, <2>2 DEF TypeOK, Jobs
  <2>3. CASE Complete(s)
    <3> DEFINE j == [job[m] EXCEPT !.state = "completed"]
    <3>1. j \in Jobs /\ j.state = "completed"
      BY <1>3 DEF Jobs, JobStates
    <3>2. job' = [job EXCEPT ![m] = [j EXCEPT !.lock = NoSlot]] /\ slot[s].pc = "done"
      BY <1>6, <2>3 DEF Complete, Report
    <3> HIDE DEF j
    <3>3. QED
      BY <1>1, <1>2, <1>4, <1>6, <2>2, <3>1, <3>2 DEF Requeues
  <2>4. CASE FailForGood(s)
    <3> DEFINE j == [job[m] EXCEPT !.state = "failed"]
    <3>1. j \in Jobs /\ j.state = "failed"
      BY <1>3 DEF Jobs, JobStates
    <3>2. job' = [job EXCEPT ![m] = [j EXCEPT !.lock = NoSlot]] /\ slot[s].pc = "dead"
      BY <1>6, <2>4 DEF FailForGood, Report
    <3> HIDE DEF j
    <3>3. QED
      BY <1>1, <1>2, <1>4, <1>6, <2>2, <3>1, <3>2 DEF Requeues
  <2>5. CASE Retry(s)
    <3> DEFINE j == AfterRetry(job[m])
    <3>1. /\ j \in Jobs /\ j.state \in {"waiting", "failed"}
          /\ j.state = "waiting" => j.attempts < MaxAttempts
          /\ j.attempts = job[m].attempts + 1 /\ j.stalls = job[m].stalls
      <4>1. job[m].attempts + 1 \in 0..MaxAttempts
        BY <2>1, Zeros
      <4>2. QED
        BY <1>3, <4>1 DEF AfterRetry, Jobs, JobStates
    <3>2. job' = [job EXCEPT ![m] = [j EXCEPT !.lock = NoSlot]] /\ slot[s].pc = "retry"
      BY <1>6, <2>5 DEF Retry, Report
    <3> HIDE DEF j
    <3>3. QED
      BY <1>1, <1>2, <1>4, <1>6, <2>1, <2>2, <3>1, <3>2 DEF Requeues
  <2>6. QED
    BY <2>3, <2>4, <2>5 DEF ReportStep
<1>7. QED
  BY <1>5, <1>6

(* A worker dies: its slot is free, and its job keeps everything but a lock. *)
LEMMA WorkerCrashEffect ==
  ASSUME TypeInv, NEW s \in Slots, WorkerCrash(s)
  PROVE  /\ slot[s].msg \in Messages
         /\ Requeues(slot[s].msg)
         /\ slot' \in [Slots -> Calls] /\ slot'[s] = Idle
         /\ \A t \in Slots : t # s => slot'[t] = slot[t]
         /\ "crash" \in Faults
         /\ \A n \in Messages : /\ job'[n].state = job[n].state
                               /\ job'[n].attempts = job[n].attempts
                               /\ job'[n].stalls = job[n].stalls
         /\ UNCHANGED <<api, row, active, reserved, today, gmail>>
<1> DEFINE m == slot[s].msg
<1>1. /\ TypeOK /\ slot[s] # Idle /\ "crash" \in Faults
      /\ slot' = [slot EXCEPT ![s] = Idle]
      /\ job' = [job EXCEPT ![m].lock = IF @ = s THEN NoSlot ELSE @]
      /\ UNCHANGED <<api, row, active, reserved, today, gmail>>
  BY DEF WorkerCrash, TypeInv
<1>2. m \in Messages
  BY <1>1 DEF TypeInv, BusySlots
<1>3. /\ slot' \in [Slots -> Calls] /\ slot'[s] = Idle
      /\ \A t \in Slots : t # s => slot'[t] = slot[t]
  BY <1>1, Blanks, SlotEffect
<1>4. /\ job' \in [Messages -> Jobs]
      /\ job'[m].lock \in {job[m].lock, NoSlot} /\ job'[m].state = job[m].state
      /\ job'[m].attempts = job[m].attempts /\ job'[m].stalls = job[m].stalls
      /\ \A n \in Messages : n # m => job'[n] = job[n]
  BY <1>1, <1>2 DEF TypeOK, Jobs
<1>5. Requeues(m)
  BY <1>2, <1>4 DEF Requeues, TypeInv, JobCounts
<1>6. QED
  BY <1>1, <1>2, <1>3, <1>4, <1>5

(* The lock of a job expires.                                                *)
LEMMA LoseLockEffect ==
  ASSUME TypeInv, NEW m \in Messages, LoseLock(m)
  PROVE  /\ Requeues(m) /\ "lock_lost" \in Faults
         /\ \A n \in Messages : /\ job'[n].state = job[n].state
                               /\ job'[n].attempts = job[n].attempts
                               /\ job'[n].stalls = job[n].stalls
         /\ UNCHANGED <<api, row, slot, active, reserved, today, gmail>>
<1>1. /\ job' \in [Messages -> Jobs]
      /\ job'[m].lock = NoSlot /\ job'[m].state = job[m].state
      /\ job'[m].attempts = job[m].attempts /\ job'[m].stalls = job[m].stalls
      /\ \A n \in Messages : n # m => job'[n] = job[n]
  BY DEF LoseLock, TypeInv, TypeOK, Jobs
<1>2. Requeues(m)
  BY <1>1 DEF Requeues, TypeInv, JobCounts
<1>3. QED
  BY <1>1, <1>2 DEF LoseLock

(* A stalled job waits again, or has failed.                                 *)
LEMMA StallEffect ==
  ASSUME TypeInv, NEW m \in Messages, Stall(m)
  PROVE  /\ Requeues(m)
         /\ job[m].state = "active" /\ job[m].lock = NoSlot
         /\ job'[m].state \in {"waiting", "failed"}
         /\ job'[m].attempts = job[m].attempts /\ job'[m].stalls = job[m].stalls + 1
         /\ UNCHANGED <<api, row, slot, active, reserved, today, gmail>>
<1> DEFINE j == AfterStall(job[m])
<1>1. /\ TypeOK /\ job[m].state = "active" /\ job[m].lock = NoSlot
      /\ job' = [job EXCEPT ![m] = j]
      /\ UNCHANGED <<api, row, slot, active, reserved, today, gmail>>
  BY DEF Stall, TypeInv
<1>2. job[m] \in Jobs /\ job[m].attempts < MaxAttempts /\ job[m].stalls <= MaxStalls
  BY <1>1 DEF TypeInv, TypeOK, JobCounts
<1>3. /\ j \in Jobs /\ j.state \in {"waiting", "failed"} /\ j.lock = NoSlot
      /\ j.attempts < MaxAttempts
      /\ j.state = "waiting" => j.stalls <= MaxStalls
      /\ j.attempts = job[m].attempts /\ j.stalls = job[m].stalls + 1
  <2>1. job[m].stalls + 1 \in 0..(MaxStalls + 1) /\ job[m].stalls \in Nat
    BY <1>2, Zeros DEF Jobs
  <2>2. job[m].stalls < MaxStalls => job[m].stalls + 1 <= MaxStalls
    BY <2>1, Zeros
  <2>3. QED
    BY <1>1, <1>2, <2>1, <2>2 DEF AfterStall, Jobs, JobStates
<1> HIDE DEF j
<1>4. /\ job' \in [Messages -> Jobs] /\ job'[m] = j
      /\ \A n \in Messages : n # m => job'[n] = job[n]
  BY <1>1, <1>3, JobEffect
<1>5. QED
  BY <1>1, <1>3, <1>4 DEF Requeues

-----------------------------------------------------------------------------
(* What the API's handler does.                                              *)

(* The handler of the request for m goes on to one of the states `to'.       *)
Answers(m, to) ==
  /\ api' \in [Messages -> Requests]
  /\ api'[m].pc \in to
  /\ \A n \in Messages : n # m => api'[n] = api[n]

(* store.create: a QUEUED row and a job to add, or a rejected request.       *)
LEMMA CreateDeliveryEffect ==
  ASSUME TypeInv, NEW m \in Messages, CreateDelivery(m)
  PROVE  /\ Answers(m, {"enqueue", "rejected"})
         /\ row' \in [Messages -> Rows]
         /\ \A n \in Messages : n # m => row'[n] = row[n]
         /\ api[m].pc = "idle"
         /\ row'[m].status = "QUEUED" \/ row'[m] = row[m]
         /\ api'[m].pc = "enqueue" => row'[m].status = "QUEUED"
         /\ row'[m].status = "QUEUED" /\ api'[m].pc = "rejected" =>
              row[m].status = "QUEUED" \/ "db_ack_lost" \in Faults
         /\ UNCHANGED <<job, slot, active, reserved, today, gmail>>
<1>1. TypeOK /\ api[m].pc = "idle" /\ UNCHANGED <<job, slot, active, reserved, today, gmail>>
  BY DEF CreateDelivery, TypeInv
<1>2. PICK subject \in Subjects :
        \/ DbWrite(row' = [row EXCEPT ![m] = [status |-> "QUEUED", code |-> "none",
                                              subject |-> Trimmed(subject)]],
                   row' = row,
                   api' = [api EXCEPT ![m] = [pc |-> "enqueue", subject |-> subject]],
                   RequestAt(m, "rejected"))
        \/ RequestAt(m, "rejected") /\ UNCHANGED row
  BY DEF CreateDelivery
<1>3. subject \in AllSubjects /\ Trimmed(subject) \in SubjectOrNone
  <2>1. subject \in AllSubjects
    BY PipelineAssumption
  <2>2. Trimmed(subject) \in {"plain", ""}
    BY <2>1 DEF AllSubjects, Trimmed
  <2>3. QED
    BY <2>1, <2>2 DEF AllSubjects, SubjectOrNone
<1>4. ASSUME row' = [row EXCEPT ![m] = [status |-> "QUEUED", code |-> "none",
                                        subject |-> Trimmed(subject)]]
      PROVE  /\ row' \in [Messages -> Rows] /\ row'[m].status = "QUEUED"
             /\ \A n \in Messages : n # m => row'[n] = row[n]
  BY <1>1, <1>3, <1>4 DEF TypeOK, Rows, Statuses, Codes
<1>5. ASSUME row' = row
      PROVE  /\ row' \in [Messages -> Rows] /\ row'[m] = row[m]
             /\ \A n \in Messages : n # m => row'[n] = row[n]
  BY <1>1, <1>5 DEF TypeOK
<1>6. ASSUME api' = [api EXCEPT ![m] = [pc |-> "enqueue", subject |-> subject]]
      PROVE  Answers(m, {"enqueue", "rejected"}) /\ api'[m].pc = "enqueue"
  <2>1. [pc |-> "enqueue", subject |-> subject] \in Requests
    BY <1>3 DEF Requests, RequestPcs, SubjectOrNone
  <2>2. QED
    BY <1>1, <1>6, <2>1 DEF TypeOK, Answers
<1>7. ASSUME RequestAt(m, "rejected")
      PROVE  Answers(m, {"enqueue", "rejected"}) /\ api'[m].pc = "rejected"
  BY <1>1, <1>7, RequestEffect DEF RequestPcs, Answers
<1>8. QED
  BY <1>1, <1>2, <1>4, <1>5, <1>6, <1>7 DEF DbWrite

(* queue.add: a waiting job, or an error.                                    *)
LEMMA EnqueueEffect ==
  ASSUME TypeInv, NEW m \in Messages, Enqueue(m)
  PROVE  /\ Answers(m, {"accepted", "markFailed"})
         /\ api[m].pc = "enqueue"
         /\ job' \in [Messages -> Jobs]
         /\ \A n \in Messages : n # m => job'[n] = job[n]
         /\ \/ /\ job'[m].state = "waiting" /\ job'[m].lock = NoSlot
               /\ job'[m].attempts = 0 /\ job'[m].stalls = 0
               /\ api'[m].pc = "accepted" \/ "queue_ambiguous" \in Faults
            \/ UNCHANGED job /\ api'[m].pc = "markFailed"
         /\ UNCHANGED <<row, slot, active, reserved, today, gmail>>
<1>1. TypeOK /\ api[m].pc = "enqueue" /\ UNCHANGED <<row, slot, active, reserved, today, gmail>>
  BY DEF Enqueue, TypeInv
<1>2. ASSUME NEW pc \in {"accepted", "markFailed"}, RequestAt(m, pc)
      PROVE  Answers(m, {"accepted", "markFailed"}) /\ api'[m].pc = pc
  BY <1>1, <1>2, RequestEffect DEF RequestPcs, Answers
<1>3. ASSUME AddJob(m)
      PROVE  /\ job' \in [Messages -> Jobs]
             /\ job'[m].state = "waiting" /\ job'[m].lock = NoSlot
             /\ job'[m].attempts = 0 /\ job'[m].stalls = 0
             /\ \A n \in Messages : n # m => job'[n] = job[n]
  <2> DEFINE j == [NoJob EXCEPT !.state = "waiting", !.subject = api[m].subject]
  <2>1. api[m].subject \in SubjectOrNone
    BY <1>1 DEF TypeOK, Requests
  <2>2. /\ j \in Jobs /\ j.state = "waiting" /\ j.lock = NoSlot
        /\ j.attempts = 0 /\ j.stalls = 0
    BY <2>1, Zeros DEF NoJob, Jobs, JobStates
  <2>3. job' = [job EXCEPT ![m] = j]
    BY <1>3 DEF AddJob
  <2> HIDE DEF j
  <2>4. QED
    BY <1>1, <2>2, <2>3, JobEffect
<1>4. QED
  <2>1. CASE AddJob(m) /\ RequestAt(m, "accepted")
    BY <1>1, <1>2, <1>3, <2>1
  <2>2. CASE job' = job /\ RequestAt(m, "markFailed")
    BY <1>1, <1>2, <2>2 DEF TypeOK
  <2>3. CASE "queue_ambiguous" \in Faults /\ AddJob(m) /\ RequestAt(m, "markFailed")
    BY <1>1, <1>2, <1>3, <2>3
  <2>4. QED
    BY <2>1, <2>2, <2>3 DEF Enqueue

(* store.markFailed: the row is FAILED, or the update threw.                 *)
LEMMA MarkUnavailableEffect ==
  ASSUME TypeInv, NEW m \in Messages, MarkUnavailable(m)
  PROVE  /\ Answers(m, {"unavailable", "error"}) /\ Writes(m)
         /\ api[m].pc = "markFailed"
         /\ row'[m].status = "FAILED" \/ UNCHANGED row
         /\ UNCHANGED <<job, slot, active, reserved, today, gmail>>
<1>1. /\ TypeOK /\ api[m].pc = "markFailed"
      /\ UNCHANGED <<job, slot, active, reserved, today, gmail>>
  BY DEF MarkUnavailable, TypeInv
<1>2. ASSUME NEW pc \in {"unavailable", "error"}, RequestAt(m, pc)
      PROVE  Answers(m, {"unavailable", "error"})
  BY <1>1, <1>2, RequestEffect DEF RequestPcs, Answers
<1>3. ASSUME row' = [row EXCEPT ![m].status = "FAILED", ![m].code = "queue_unavailable"]
      PROVE  Writes(m) /\ row'[m].status = "FAILED"
  BY <1>1, <1>3, WrittenRow DEF Statuses, Codes
<1>4. ASSUME row' = row PROVE Writes(m)
  BY <1>1, <1>4, UnwrittenRow
<1>5. QED
  BY <1>1, <1>2, <1>3, <1>4 DEF MarkUnavailable, DbWrite

(* The handler's process dies.                                               *)
LEMMA ApiCrashEffect ==
  ASSUME TypeInv, NEW m \in Messages, ApiCrash(m)
  PROVE  /\ Answers(m, {"crashed"}) /\ api[m].pc \in {"enqueue", "markFailed"}
         /\ UNCHANGED <<row, job, slot, active, reserved, today, gmail>>
BY RequestEffect DEF ApiCrash, Answers, RequestPcs, TypeInv

-----------------------------------------------------------------------------
(* The types are kept.                                                       *)

(* The bookkeeping survives a step that requeues at most one job and one     *)
(* that moves at most one slot.                                              *)
LEMMA KeepJobCounts ==
  ASSUME TypeInv, NEW m \in Messages, Requeues(m)
  PROVE  JobCounts'
BY Zeros DEF TypeInv, JobCounts, Requeues

(* A slot that is not idle keeps working for a message that exists.          *)
LEMMA KeepBusySlots ==
  ASSUME TypeInv, NEW s \in Slots,
         IF slot'[s].pc = "idle" THEN slot'[s] = Idle ELSE slot'[s].msg \in Messages,
         \A t \in Slots : t # s => slot'[t] = slot[t]
  PROVE  BusySlots'
BY DEF TypeInv, BusySlots

(* Every step keeps the types and the bookkeeping.                           *)
LEMMA NextTypeInv == TypeInv /\ [Next]_vars => TypeInv'
<1> SUFFICES ASSUME TypeInv, [Next]_vars PROVE TypeInv'
  OBVIOUS
<1>1. ASSUME UNCHANGED job PROVE JobCounts'
  BY <1>1 DEF TypeInv, JobCounts
<1>2. ASSUME UNCHANGED slot PROVE BusySlots'
  BY <1>2 DEF TypeInv, BusySlots
<1>3. ASSUME NEW m \in Messages, CreateDelivery(m) PROVE TypeInv'
  BY <1>1, <1>2, <1>3, CreateDeliveryEffect DEF TypeInv, TypeOK, Answers
<1>4. ASSUME NEW m \in Messages, Enqueue(m) PROVE TypeInv'
  <2>1. JobCounts'
    BY <1>4, EnqueueEffect, Zeros DEF TypeInv, JobCounts
  <2>2. QED
    BY <1>2, <1>4, <2>1, EnqueueEffect DEF TypeInv, TypeOK, Answers
<1>5. ASSUME NEW m \in Messages, MarkUnavailable(m) PROVE TypeInv'
  BY <1>1, <1>2, <1>5, MarkUnavailableEffect DEF TypeInv, TypeOK, Answers, Writes
<1>6. ASSUME NEW m \in Messages, ApiCrash(m) PROVE TypeInv'
  BY <1>1, <1>2, <1>6, ApiCrashEffect DEF TypeInv, TypeOK, Answers
<1>7. ASSUME NEW m \in Messages, LoseLock(m) PROVE TypeInv'
  BY <1>2, <1>7, LoseLockEffect, KeepJobCounts DEF TypeInv, TypeOK, Requeues
<1>8. ASSUME NEW m \in Messages, Stall(m) PROVE TypeInv'
  BY <1>2, <1>8, StallEffect, KeepJobCounts DEF TypeInv, TypeOK, Requeues
<1>9. ASSUME NEW s \in Slots, NEW m \in Messages, Take(s, m) PROVE TypeInv'
  <2>1. BusySlots'
    BY <1>9, TakeEffect, KeepBusySlots
  <2>2. QED
    BY <1>9, <2>1, TakeEffect, KeepJobCounts DEF TypeInv, TypeOK, Requeues
<1>10. ASSUME NEW s \in Slots, ProcessorStep(s) PROVE TypeInv'
  <2>1. BusySlots'
    BY <1>10, ProcessorEffect, KeepBusySlots DEF Advances
  <2>2. QED
    BY <1>1, <1>10, <2>1, ProcessorEffect DEF TypeInv, TypeOK, Advances, Writes
<1>11. ASSUME NEW s \in Slots, ReportStep(s) PROVE TypeInv'
  <2>1. BusySlots'
    BY <1>11, ReportEffect, KeepBusySlots, Blanks
  <2>2. QED
    BY <1>11, <2>1, ReportEffect, KeepJobCounts DEF TypeInv, TypeOK, Requeues
<1>12. ASSUME NEW s \in Slots, WorkerCrash(s) PROVE TypeInv'
  <2>1. BusySlots'
    BY <1>12, WorkerCrashEffect, KeepBusySlots, Blanks
  <2>2. QED
    BY <1>12, <2>1, WorkerCrashEffect, KeepJobCounts DEF TypeInv, TypeOK, Requeues
<1>13. ASSUME NEW a \in Senders, SetSenderActive(a) PROVE TypeInv'
  <2>1. active' \in [Senders -> BOOLEAN]
    BY <1>13, Zenon DEF SetSenderActive, TypeInv, TypeOK
  <2>2. QED
    BY <1>1, <1>2, <1>13, <2>1 DEF SetSenderActive, TypeInv, TypeOK
<1>14. ASSUME Midnight PROVE TypeInv'
  <2>1. today' \in 1..MaxDay
    BY <1>14, Zeros DEF Midnight, TypeInv, TypeOK
  <2>2. QED
    BY <1>1, <1>2, <1>14, <2>1 DEF Midnight, TypeInv, TypeOK
<1>15. CASE UNCHANGED vars
  BY <1>1, <1>2, <1>15 DEF vars, TypeInv, TypeOK
<1>16. QED
  BY <1>3, <1>4, <1>5, <1>6, <1>7, <1>8, <1>9, <1>10, <1>11, <1>12, <1>13, <1>14, <1>15
     DEF Next, ApiStep

(* The variables keep the shapes of the rows, jobs and calls they model:     *)
(* whatever fails, attempts and stalls stay within BullMQ's limits and no    *)
(* call works on a message that does not exist.                              *)
THEOREM TypeCorrect == Spec => []TypeOK
<1>1. Spec => []TypeInv
  BY InitTypeInv, NextTypeInv, PTL DEF Spec
<1>2. TypeInv => TypeOK
  BY DEF TypeInv
<1>3. QED
  BY <1>1, <1>2, PTL
=============================================================================
