----------------------------- MODULE SafetyProofs -----------------------------
(***************************************************************************)
(* Safety of the delivery pipeline for every number of messages,           *)
(* recipients, senders, slots and days: what SENT means under every fault, *)
(* who may write a row when an error means that nothing happened, that no  *)
(* mail goes out outside the quota, how many copies of a message there     *)
(* are, and that the pipeline implements MessageLifecycle.                 *)
(***************************************************************************)
EXTENDS DeliveryProofs, LedgerProofs

-----------------------------------------------------------------------------
(* SENT means mailed.                                                        *)

(* A call gets to markSent by a session that Gmail accepted, and to its end  *)
(* by that or by a row that already says SENT.                               *)
MailedInv ==
  /\ TypeInv
  /\ SentMeansMailed
  /\ \A s \in Slots : slot[s].pc \in {"markSent", "done"} => gmail[slot[s].msg].copies > 0

(* At the start nothing says SENT.                                           *)
LEMMA MailedInvInit == Init => MailedInv
<1> SUFFICES ASSUME Init PROVE MailedInv
  OBVIOUS
<1>1. TypeInv
  BY InitTypeInv
<1>2. /\ \A m \in Messages : row[m].status = "ABSENT" /\ job[m].state = "absent"
      /\ \A s \in Slots : slot[s].pc = "idle"
  BY DEF Init, NoJob, Idle
<1>3. QED
  BY <1>1, <1>2 DEF MailedInv, SentMeansMailed

(* No step takes a copy back.                                                *)
LEMMA CopiesGrow ==
  ASSUME TypeInv, NEW s \in Slots, SmtpSend(s)
  PROVE  /\ \A n \in Messages : gmail'[n].copies >= gmail[n].copies
         /\ slot'[s].pc = "markSent" => gmail'[slot[s].msg].copies > 0
<1> DEFINE m == slot[s].msg
           mail == [copies |-> gmail[m].copies + 1, day |-> today]
<1>1. m \in Messages /\ \A n \in Messages : gmail[n].copies \in Nat
  BY SmtpSendEffect, BusyMessage DEF TypeInv, TypeOK
<1>2. \/ gmail' = [gmail EXCEPT ![m] = mail]
      \/ gmail' = gmail /\ slot'[s].pc = "markFailed"
  BY SmtpSendEffect
<1>3. mail.copies = gmail[m].copies + 1
  OBVIOUS
<1>4. gmail \in [Messages -> [copies : Nat, day : 0..MaxDay]]
  BY DEF TypeInv, TypeOK
<1> HIDE DEF mail
<1>5. QED
  BY <1>1, <1>2, <1>3, <1>4

(* Every step keeps SENT rows and completed jobs backed by mail.             *)
LEMMA MailedInvNext == MailedInv /\ [Next]_vars => MailedInv'
<1> SUFFICES ASSUME MailedInv, [Next]_vars PROVE MailedInv'
  OBVIOUS
<1>1. TypeInv /\ TypeInv'
  BY NextTypeInv DEF MailedInv
<1>2. \A n \in Messages : gmail[n].copies \in Nat /\ gmail'[n].copies \in Nat
  BY <1>1 DEF TypeInv, TypeOK
<1>3. ASSUME NEW m \in Messages, CreateDelivery(m) PROVE MailedInv'
  BY <1>1, <1>3, CreateDeliveryEffect DEF MailedInv, SentMeansMailed
<1>4. ASSUME NEW m \in Messages, Enqueue(m) PROVE MailedInv'
  BY <1>1, <1>4, EnqueueEffect DEF MailedInv, SentMeansMailed
<1>5. ASSUME NEW m \in Messages, MarkUnavailable(m) PROVE MailedInv'
  BY <1>1, <1>5, MarkUnavailableEffect DEF MailedInv, SentMeansMailed, Writes
<1>6. ASSUME NEW m \in Messages, ApiCrash(m) PROVE MailedInv'
  BY <1>1, <1>6, ApiCrashEffect DEF MailedInv, SentMeansMailed
<1>7. ASSUME NEW m \in Messages, LoseLock(m) PROVE MailedInv'
  BY <1>1, <1>7, LoseLockEffect DEF MailedInv, SentMeansMailed
<1>8. ASSUME NEW m \in Messages, Stall(m) PROVE MailedInv'
  BY <1>1, <1>8, StallEffect DEF MailedInv, SentMeansMailed, Requeues
<1>9. ASSUME NEW s \in Slots, NEW m \in Messages, Take(s, m) PROVE MailedInv'
  <2>1. SentMeansMailed'
    BY <1>1, <1>9, TakeEffect DEF MailedInv, SentMeansMailed, Requeues
  <2>2. \A t \in Slots : slot'[t].pc \in {"markSent", "done"} => gmail'[slot'[t].msg].copies > 0
    BY <1>1, <1>9, TakeEffect DEF MailedInv
  <2>3. QED
    BY <1>1, <2>1, <2>2 DEF MailedInv
<1>10. ASSUME NEW s \in Slots, Load(s) PROVE MailedInv'
  BY <1>1, <1>10, LoadEffect, ProcessorEffect DEF MailedInv, SentMeansMailed, Advances, ProcessorStep
<1>11. ASSUME NEW s \in Slots, StartDelivery(s) PROVE MailedInv'
  <2>1. slot[s].msg \in Messages /\ slot'[s].pc # "markSent"
    BY <1>1, <1>11, StartDeliveryEffect, BusyMessage
  <2>2. SentMeansMailed'
    BY <1>1, <1>11, <2>1, StartDeliveryEffect DEF MailedInv, SentMeansMailed, Writes
  <2>3. slot'[s].pc = "done" => gmail'[slot'[s].msg].copies > 0
    BY <1>1, <1>11, <2>1, StartDeliveryEffect DEF MailedInv, SentMeansMailed, Advances
  <2>4. QED
    BY <1>1, <1>11, <2>1, <2>2, <2>3, StartDeliveryEffect DEF MailedInv, Advances
<1>12. ASSUME NEW s \in Slots, ReserveQuota(s) PROVE MailedInv'
  BY <1>1, <1>12, ReserveQuotaEffect DEF MailedInv, SentMeansMailed, Advances
<1>13. ASSUME NEW s \in Slots, DecryptFails(s) PROVE MailedInv'
  BY <1>1, <1>13, DecryptFailsEffect DEF MailedInv, SentMeansMailed, Advances
<1>14. ASSUME NEW s \in Slots, SmtpSend(s) PROVE MailedInv'
  <2>1. /\ \A n \in Messages : gmail'[n].copies >= gmail[n].copies
        /\ slot'[s].pc = "markSent" => gmail'[slot[s].msg].copies > 0
    BY <1>1, <1>14, CopiesGrow
  <2>2. SentMeansMailed'
    <3>1. \A n \in Messages : row'[n] = row[n] /\ job'[n] = job[n]
      BY <1>1, <1>14, SmtpSendEffect
    <3>2. QED
      BY <1>2, <2>1, <3>1 DEF MailedInv, SentMeansMailed
  <2>3. \A t \in Slots : slot'[t].pc \in {"markSent", "done"} => gmail'[slot'[t].msg].copies > 0
    <3> SUFFICES ASSUME NEW t \in Slots, slot'[t].pc \in {"markSent", "done"}
                 PROVE  gmail'[slot'[t].msg].copies > 0
      OBVIOUS
    <3>1. CASE t = s
      BY <1>1, <1>14, <2>1, <3>1, SmtpSendEffect DEF Advances
    <3>2. CASE t # s
      <4>1. slot'[t] = slot[t] /\ slot[t].msg \in Messages /\ gmail[slot[t].msg].copies > 0
        BY <1>1, <1>14, <3>2, SmtpSendEffect, BusyMessage DEF Advances, MailedInv
      <4>2. QED
        BY <1>2, <2>1, <4>1
    <3>3. QED
      BY <3>1, <3>2
  <2>4. QED
    BY <1>1, <2>2, <2>3 DEF MailedInv
<1>15. ASSUME NEW s \in Slots, MarkSent(s) PROVE MailedInv'
  BY <1>1, <1>15, MarkSentEffect, ProcessorEffect
     DEF MailedInv, SentMeansMailed, Advances, Writes, ProcessorStep
<1>16. ASSUME NEW s \in Slots, MarkFailed(s) PROVE MailedInv'
  BY <1>1, <1>16, MarkFailedEffect, ProcessorEffect
     DEF MailedInv, SentMeansMailed, Advances, Writes, ProcessorStep
<1>17. ASSUME NEW s \in Slots, ReportStep(s) PROVE MailedInv'
  BY <1>1, <1>17, ReportEffect, Blanks DEF MailedInv, SentMeansMailed, Requeues
<1>18. ASSUME NEW s \in Slots, WorkerCrash(s) PROVE MailedInv'
  BY <1>1, <1>18, WorkerCrashEffect, Blanks DEF MailedInv, SentMeansMailed
<1>19. ASSUME NEW a \in Senders, SetSenderActive(a) PROVE MailedInv'
  BY <1>1, <1>19 DEF SetSenderActive, MailedInv, SentMeansMailed
<1>20. ASSUME Midnight PROVE MailedInv'
  BY <1>1, <1>20 DEF Midnight, MailedInv, SentMeansMailed
<1>21. CASE UNCHANGED vars
  BY <1>1, <1>21 DEF vars, MailedInv, SentMeansMailed
<1>22. QED
  BY <1>3, <1>4, <1>5, <1>6, <1>7, <1>8, <1>9, <1>10, <1>11, <1>12, <1>13, <1>14, <1>15,
     <1>16, <1>17, <1>18, <1>19, <1>20, <1>21 DEF Next, ApiStep, ProcessorStep

(* Whatever fails, a row says SENT and a job completes only for a message    *)
(* that Gmail took (processor.ts calls markSent after smtp.send returned).   *)
THEOREM SentMeansMailedAlways == Spec => []SentMeansMailed
<1>1. Spec => []MailedInv
  BY MailedInvInit, MailedInvNext, PTL DEF Spec
<1>2. MailedInv => SentMeansMailed
  BY DEF MailedInv
<1>3. QED
  BY <1>1, <1>2, PTL

-----------------------------------------------------------------------------
(* No more copies than deliveries of the job.                                *)

(* The calls that may still add a copy of message m.                         *)
Underway(m) ==
  {s \in Slots : slot[s].msg = m /\ slot[s].pc \in {"load", "claim", "reserve", "smtp"}}

(* How often BullMQ has handed out a job: once per attempt and stall that is *)
(* over, and once for the delivery that runs.                                *)
Deliveries(j) ==
  CASE j.state = "absent" -> 0
    [] j.state = "waiting" -> j.attempts + j.stalls
    [] j.state = "active" -> j.attempts + j.stalls + 1
    [] OTHER -> MaxAttempts + MaxStalls

(* Every copy, and every call that may still add one, is paid by a delivery; *)
(* a job is added once.                                                      *)
Paid(m) ==
  /\ IsFiniteSet(Underway(m))
  /\ gmail[m].copies + Cardinality(Underway(m)) <= Deliveries(job[m])
  /\ api[m].pc \in {"idle", "enqueue"} => job[m].state = "absent"

PaidInv == TypeInv /\ \A m \in Messages : Paid(m)

(* The deliveries of a job stay within attempts and stalls.                  *)
LEMMA DeliveriesBound ==
  ASSUME NEW j \in Jobs,
         j.state \in {"waiting", "active"} => j.attempts < MaxAttempts /\ j.stalls <= MaxStalls
  PROVE  Deliveries(j) \in Nat /\ Deliveries(j) <= MaxAttempts + MaxStalls
<1>1. j.state \in JobStates /\ j.attempts \in Nat /\ j.stalls \in Nat
  BY Zeros DEF Jobs
<1>2. QED
  BY <1>1, Zeros DEF Deliveries, JobStates

(* The jobs of well typed states, before and after a step.                   *)
LEMMA DeliveriesOfJobs ==
  ASSUME TypeInv, TypeInv', NEW m \in Messages
  PROVE  /\ gmail[m].copies \in Nat /\ gmail'[m].copies \in Nat
         /\ Deliveries(job[m]) \in Nat /\ Deliveries(job[m]) <= MaxAttempts + MaxStalls
         /\ Deliveries(job'[m]) \in Nat /\ Deliveries(job'[m]) <= MaxAttempts + MaxStalls
         /\ job[m].attempts \in Nat /\ job[m].stalls \in Nat
<1>1. /\ gmail[m].copies \in Nat /\ gmail'[m].copies \in Nat
      /\ job[m] \in Jobs /\ job'[m] \in Jobs
  BY DEF TypeInv, TypeOK
<1>2. /\ job[m].state \in {"waiting", "active"} =>
           job[m].attempts < MaxAttempts /\ job[m].stalls <= MaxStalls
      /\ job'[m].state \in {"waiting", "active"} =>
           job'[m].attempts < MaxAttempts /\ job'[m].stalls <= MaxStalls
  BY DEF TypeInv, JobCounts
<1>3. job[m].attempts \in Nat /\ job[m].stalls \in Nat
  BY <1>1, Zeros DEF Jobs
<1>4. QED
  BY <1>1, <1>2, <1>3, DeliveriesBound

(* Nothing is paid at the start, and nothing has to be.                      *)
LEMMA PaidInvInit == Init => PaidInv
<1> SUFFICES ASSUME Init PROVE PaidInv
  OBVIOUS
<1> SUFFICES ASSUME NEW m \in Messages PROVE Paid(m)
  BY InitTypeInv DEF PaidInv
<1>1. /\ gmail[m].copies = 0 /\ job[m].state = "absent"
      /\ \A s \in Slots : slot[s].pc = "idle"
  BY DEF Init, Idle, NoJob
<1>2. Underway(m) = {} /\ Deliveries(job[m]) = 0
  BY <1>1 DEF Underway, Deliveries
<1>3. QED
  BY <1>1, <1>2, FS_EmptySet DEF Paid

(* A step that adds no copy and no call, and takes no delivery back.         *)
LEMMA KeepPaid ==
  ASSUME PaidInv, TypeInv', NEW m \in Messages,
         Underway(m)' \subseteq Underway(m),
         gmail'[m].copies = gmail[m].copies,
         Deliveries(job'[m]) >= Deliveries(job[m]),
         api'[m].pc \in {"idle", "enqueue"} => job'[m].state = "absent"
  PROVE  Paid(m)'
<1>1. TypeInv /\ Paid(m)
  BY DEF PaidInv
<1>2. /\ gmail[m].copies \in Nat
      /\ Deliveries(job[m]) \in Nat /\ Deliveries(job'[m]) \in Nat
  BY <1>1, DeliveriesOfJobs
<1>3. /\ IsFiniteSet(Underway(m)') /\ Cardinality(Underway(m)') \in Nat
      /\ Cardinality(Underway(m)') <= Cardinality(Underway(m))
      /\ Cardinality(Underway(m)) \in Nat
  BY <1>1, FS_Subset, FS_CardinalityType DEF Paid
<1>4. QED
  BY <1>1, <1>2, <1>3 DEF Paid

(* What a step does not concern stays paid.                                  *)
LEMMA KeepPaidOthers ==
  ASSUME PaidInv, TypeInv', NEW m \in Messages,
         \A s \in Slots : slot'[s] = slot[s] \/ (slot[s].msg # m /\ slot'[s].msg # m),
         gmail'[m] = gmail[m], job'[m] = job[m], api'[m] = api[m]
  PROVE  Paid(m)'
<1>1. Underway(m)' \subseteq Underway(m)
  BY DEF Underway
<1>2. TypeInv /\ Deliveries(job'[m]) >= Deliveries(job[m])
      /\ (api'[m].pc \in {"idle", "enqueue"} => job'[m].state = "absent")
  BY DeliveriesOfJobs DEF PaidInv, Paid
<1>3. QED
  BY <1>1, <1>2, KeepPaid

(* The request handler adds the job once, and no call runs before that.      *)
LEMMA HandlerPays ==
  ASSUME PaidInv, TypeInv', NEW m \in Messages, ApiStep(m) \/ ApiCrash(m), NEW n \in Messages
  PROVE  Paid(n)'
<1>1. TypeInv /\ Paid(n)
  BY DEF PaidInv
<1>2. CASE n # m
  <2>1. /\ slot' = slot /\ gmail' = gmail
        /\ job'[n] = job[n] /\ api'[n] = api[n]
    BY <1>1, <1>2, CreateDeliveryEffect, EnqueueEffect, MarkUnavailableEffect, ApiCrashEffect
       DEF ApiStep, Answers
  <2>2. QED
    BY <2>1, KeepPaidOthers
<1>3. CASE n = m
  <2>1. /\ slot' = slot /\ gmail' = gmail
        /\ \/ /\ job' = job
              /\ api'[m].pc \in {"idle", "enqueue"} => api[m].pc \in {"idle", "enqueue"}
           \/ /\ api[m].pc = "enqueue" /\ api'[m].pc \in {"accepted", "markFailed"}
              /\ job'[m].state = "waiting" /\ job'[m].attempts = 0 /\ job'[m].stalls = 0
    BY <1>1, CreateDeliveryEffect, EnqueueEffect, MarkUnavailableEffect, ApiCrashEffect
       DEF ApiStep, Answers
  <2>2. Underway(n)' \subseteq Underway(n)
    BY <2>1 DEF Underway
  <2>3. Deliveries(job'[n]) >= Deliveries(job[n])
    <3>1. CASE job' = job
      BY <1>1, <3>1, DeliveriesOfJobs
    <3>2. CASE job' # job
      BY <1>1, <1>3, <2>1, <3>2 DEF Paid, Deliveries
    <3>3. QED
      BY <3>1, <3>2
  <2>4. api'[n].pc \in {"idle", "enqueue"} => job'[n].state = "absent"
    BY <1>1, <1>3, <2>1 DEF Paid
  <2>5. QED
    BY <2>1, <2>2, <2>3, <2>4, KeepPaid
<1>4. QED
  BY <1>2, <1>3

(* Only the session turns a call into a copy.                                *)
LEMMA ProcessorPays ==
  ASSUME PaidInv, TypeInv', NEW s \in Slots, ProcessorStep(s), NEW n \in Messages
  PROVE  Paid(n)'
<1> DEFINE m == slot[s].msg
<1>1. /\ TypeInv /\ Paid(n)
      /\ m \in Messages /\ slot'[s].msg = m /\ job' = job /\ api' = api
      /\ \A t \in Slots : t # s => slot'[t] = slot[t]
  BY ProcessorEffect DEF PaidInv, Advances
<1>2. /\ gmail[n].copies \in Nat /\ Deliveries(job[n]) \in Nat
      /\ api'[n].pc \in {"idle", "enqueue"} => job'[n].state = "absent"
  BY <1>1, DeliveriesOfJobs DEF Paid
<1>3. CASE gmail'[n] = gmail[n] /\ ~SmtpSend(s)
  <2>1. slot'[s].pc \in {"load", "claim", "reserve", "smtp"} =>
          slot[s].pc \in {"load", "claim", "reserve", "smtp"}
    BY <1>1, <1>3, LoadEffect, StartDeliveryEffect, ReserveQuotaEffect, DecryptFailsEffect,
       MarkSentEffect, MarkFailedEffect DEF ProcessorStep
  <2>2. Underway(n)' \subseteq Underway(n)
    BY <1>1, <2>1 DEF Underway
  <2>3. QED
    BY <1>1, <1>2, <1>3, <2>2, KeepPaid
<1>4. CASE SmtpSend(s)
  <2> DEFINE mail == [copies |-> gmail[m].copies + 1, day |-> today]
  <2>1. /\ slot[s].pc = "smtp" /\ slot'[s].pc \in {"markSent", "markFailed"}
        /\ gmail' = gmail \/ gmail' = [gmail EXCEPT ![m] = mail]
    BY <1>1, <1>4, SmtpSendEffect
  <2>2. CASE n # m \/ gmail' = gmail
    <3>1. gmail'[n] = gmail[n]
      BY <1>1, <2>1, <2>2 DEF TypeInv, TypeOK
    <3>2. Underway(n)' \subseteq Underway(n)
      BY <1>1, <2>1 DEF Underway
    <3>3. QED
      BY <1>1, <1>2, <3>1, <3>2, KeepPaid
  <2>3. CASE n = m /\ gmail' # gmail
    <3>1. gmail'[n].copies = gmail[n].copies + 1
      BY <1>1, <2>1, <2>3 DEF TypeInv, TypeOK
    <3>2. s \in Underway(n) /\ Underway(n)' = Underway(n) \ {s}
      BY <1>1, <2>1, <2>3 DEF Underway
    <3>3. /\ IsFiniteSet(Underway(n)')
          /\ Cardinality(Underway(n)') = Cardinality(Underway(n)) - 1
          /\ Cardinality(Underway(n)) \in Nat
      BY <1>1, <3>2, FS_RemoveElement, FS_CardinalityType DEF Paid
    <3>4. QED
      BY <1>1, <1>2, <3>1, <3>3 DEF Paid
  <2>4. QED
    BY <2>2, <2>3
<1>5. QED
  <2>1. ~SmtpSend(s) => gmail' = gmail
    BY <1>1, LoadEffect, StartDeliveryEffect, ReserveQuotaEffect, DecryptFailsEffect,
       MarkSentEffect, MarkFailedEffect DEF ProcessorStep
  <2>2. QED
    BY <1>3, <1>4, <2>1

(* A slot that takes the job is one delivery more.                           *)
LEMMA TakePays ==
  ASSUME PaidInv, TypeInv', NEW s \in Slots, NEW m \in Messages, Take(s, m), NEW n \in Messages
  PROVE  Paid(n)'
<1>1. TypeInv /\ Paid(n)
  BY DEF PaidInv
<1>2. /\ slot[s].pc = "idle" /\ slot[s].msg = NoMessage
      /\ slot'[s].pc = "load" /\ slot'[s].msg = m
      /\ \A t \in Slots : t # s => slot'[t] = slot[t]
      /\ job[m].state = "waiting" /\ job'[m].state = "active"
      /\ job'[m].attempts = job[m].attempts /\ job'[m].stalls = job[m].stalls
      /\ \A k \in Messages : k # m => job'[k] = job[k]
      /\ UNCHANGED <<api, gmail>>
  BY <1>1, TakeEffect, Blanks DEF Requeues
<1>3. CASE n # m
  <2>1. \A t \in Slots : slot'[t] = slot[t] \/ (slot[t].msg # n /\ slot'[t].msg # n)
    BY <1>2, <1>3, Zeros
  <2>2. QED
    BY <1>2, <1>3, <2>1, KeepPaidOthers
<1>4. CASE n = m
  <2>1. Underway(n)' = Underway(n) \cup {s} /\ s \notin Underway(n)
    BY <1>2, <1>4 DEF Underway
  <2>2. /\ IsFiniteSet(Underway(n)')
        /\ Cardinality(Underway(n)') = Cardinality(Underway(n)) + 1
        /\ Cardinality(Underway(n)) \in Nat
    BY <1>1, <2>1, FS_AddElement, FS_CardinalityType DEF Paid
  <2>3. /\ Deliveries(job'[n]) = Deliveries(job[n]) + 1 /\ Deliveries(job[n]) \in Nat
        /\ gmail[n].copies \in Nat
    BY <1>1, <1>2, <1>4, DeliveriesOfJobs DEF Deliveries
  <2>4. QED
    BY <1>1, <1>2, <1>4, <2>2, <2>3 DEF Paid
<1>5. QED
  BY <1>3, <1>4

(* What ends a call or moves its job takes no delivery back.                 *)
LEMMA QueuePays ==
  ASSUME PaidInv, TypeInv', NEW n \in Messages,
         \/ \E s \in Slots : ReportStep(s) \/ WorkerCrash(s)
         \/ \E m \in Messages : LoseLock(m) \/ Stall(m)
  PROVE  Paid(n)'
<1>1. TypeInv /\ Paid(n)
  BY DEF PaidInv
<1>2. /\ \A t \in Slots : slot'[t] = slot[t] \/ slot'[t].pc = "idle"
      /\ UNCHANGED <<api, gmail>>
  BY <1>1, ReportEffect, WorkerCrashEffect, LoseLockEffect, StallEffect, Blanks
<1>3. \/ job'[n] = job[n]
      \/ /\ job'[n].state = job[n].state
         /\ job'[n].attempts = job[n].attempts /\ job'[n].stalls = job[n].stalls
      \/ /\ job[n].state = "active"
         /\ \/ job'[n].state \in {"completed", "failed"}
            \/ /\ job'[n].state = "waiting"
               /\ \/ job'[n].attempts = job[n].attempts + 1 /\ job'[n].stalls = job[n].stalls
                  \/ job'[n].attempts = job[n].attempts /\ job'[n].stalls = job[n].stalls + 1
  <2>1. ASSUME NEW s \in Slots, ReportStep(s), n = slot[s].msg, job[n].lock = s
        PROVE  job[n].state = "active"
    BY <1>1, <2>1, Zeros DEF TypeInv, JobCounts
  <2>2. CASE \E s \in Slots : ReportStep(s)
    BY <1>1, <2>1, <2>2, ReportEffect DEF Requeues
  <2>3. CASE \E s \in Slots : WorkerCrash(s)
    BY <1>1, <2>3, WorkerCrashEffect
  <2>4. CASE \E m \in Messages : LoseLock(m)
    BY <1>1, <2>4, LoseLockEffect
  <2>5. CASE \E m \in Messages : Stall(m)
    BY <1>1, <2>5, StallEffect DEF Requeues
  <2>6. QED
    BY <2>2, <2>3, <2>4, <2>5
<1>4. Deliveries(job'[n]) >= Deliveries(job[n])
  <2>1. /\ Deliveries(job[n]) \in Nat /\ Deliveries(job[n]) <= MaxAttempts + MaxStalls
        /\ job[n].attempts \in Nat /\ job[n].stalls \in Nat
    BY <1>1, DeliveriesOfJobs
  <2>2. QED
    BY <1>3, <2>1, Zeros DEF Deliveries
<1>5. Underway(n)' \subseteq Underway(n)
  BY <1>2 DEF Underway
<1>6. api'[n].pc \in {"idle", "enqueue"} => job'[n].state = "absent"
  BY <1>1, <1>2, <1>3 DEF Paid
<1>7. QED
  BY <1>2, <1>4, <1>5, <1>6, KeepPaid

(* Every step is paid.                                                       *)
LEMMA PaidInvNext == PaidInv /\ [Next]_vars => PaidInv'
<1> SUFFICES ASSUME PaidInv, [Next]_vars PROVE PaidInv'
  OBVIOUS
<1>1. TypeInv'
  BY NextTypeInv DEF PaidInv
<1> SUFFICES ASSUME NEW n \in Messages PROVE Paid(n)'
  BY <1>1 DEF PaidInv
<1>2. CASE \E m \in Messages : ApiStep(m) \/ ApiCrash(m)
  BY <1>1, <1>2, HandlerPays
<1>3. CASE \E s \in Slots : ProcessorStep(s)
  BY <1>1, <1>3, ProcessorPays
<1>4. CASE \E s \in Slots, m \in Messages : Take(s, m)
  BY <1>1, <1>4, TakePays
<1>5. CASE \/ \E s \in Slots : ReportStep(s) \/ WorkerCrash(s)
           \/ \E m \in Messages : LoseLock(m) \/ Stall(m)
  BY <1>1, <1>5, QueuePays
<1>6. CASE (\E a \in Senders : SetSenderActive(a)) \/ Midnight \/ UNCHANGED vars
  <2>1. UNCHANGED <<api, job, slot, gmail>>
    BY <1>6 DEF vars, SetSenderActive, Midnight
  <2>2. QED
    BY <1>1, <2>1, KeepPaidOthers
<1>7. QED
  BY <1>2, <1>3, <1>4, <1>5, <1>6 DEF Next

(* However the worker, the queue and the database fail, Gmail gets at most   *)
(* one copy per attempt and per stalled redelivery (attempts in jobs.ts,     *)
(* maxStalledCount of BullMQ): the processor opens one session per delivery. *)
THEOREM BoundedCopiesAlways == Spec => []BoundedCopies
<1>1. Spec => []PaidInv
  BY PaidInvInit, PaidInvNext, PTL DEF Spec
<1>2. PaidInv => BoundedCopies
  <2> SUFFICES ASSUME PaidInv, NEW m \in Messages
               PROVE  gmail[m].copies <= MaxAttempts + MaxStalls
    BY DEF BoundedCopies
  <2>1. TypeInv /\ Paid(m) /\ job[m] \in Jobs /\ gmail[m].copies \in Nat
    BY DEF PaidInv, TypeInv, TypeOK
  <2>2. Cardinality(Underway(m)) \in Nat
    BY <2>1, FS_CardinalityType DEF Paid
  <2>3. Deliveries(job[m]) \in Nat /\ Deliveries(job[m]) <= MaxAttempts + MaxStalls
    BY <2>1, DeliveriesBound DEF TypeInv, JobCounts
  <2>4. QED
    BY <2>1, <2>2, <2>3, Zeros DEF Paid
<1>3. QED
  BY <1>1, <1>2, PTL

-----------------------------------------------------------------------------
(* Who may write a row.                                                      *)

(* A request whose job was not added: nobody but its handler knows it.       *)
Untouched(m) ==
  /\ job[m].state = "absent"
  /\ row[m].status \in {"ABSENT", "QUEUED", "FAILED"}
  /\ gmail[m].copies = 0
  /\ \A s \in Slots : slot[s].msg # m

(* The handler's progress says how far the message has come.                 *)
Origins ==
  \A m \in Messages :
    /\ api[m].pc # "accepted" => Untouched(m)
    /\ api[m].pc = "idle" => row[m].status = "ABSENT"
    /\ api[m].pc \in {"enqueue", "markFailed"} => row[m].status = "QUEUED"

ClaimInv == TypeInv /\ Origins /\ SoleClaim

(* At the start no row is claimed.                                           *)
LEMMA ClaimInvInit == Init => ClaimInv
<1> SUFFICES ASSUME Init PROVE ClaimInv
  OBVIOUS
<1>1. TypeInv
  BY InitTypeInv
<1>2. \A m \in Messages : /\ api[m].pc = "idle" /\ row[m].status = "ABSENT"
                          /\ job[m].state = "absent" /\ gmail[m].copies = 0
  BY DEF Init, NoJob
<1>3. \A s \in Slots : slot[s].pc = "idle" /\ slot[s].msg = NoMessage
  BY Blanks DEF Init
<1>4. QED
  BY <1>1, <1>2, <1>3, Zeros DEF ClaimInv, Origins, Untouched, SoleClaim, Claims, ClaimedPcs

(* An unclaimed message has no claim.                                        *)
LEMMA UntouchedUnclaimed ==
  ASSUME NEW m \in Messages, Untouched(m), NEW s \in Slots
  PROVE  ~Claims(s, m)
BY DEF Untouched, Claims

(* The handler's steps write rows that no call has claimed.                  *)
LEMMA HandlerKeepsClaims ==
  ASSUME ErrorsExact, ClaimInv, NEW m \in Messages, ApiStep(m) \/ ApiCrash(m)
  PROVE  Origins' /\ SoleClaim'
<1>1. TypeInv /\ Origins /\ SoleClaim
  BY DEF ClaimInv
<1>2. "db_ack_lost" \notin Faults /\ "queue_ambiguous" \notin Faults
  BY DEF ErrorsExact
<1>3. CASE CreateDelivery(m)
  <2>1. /\ \A n \in Messages : n # m => row'[n] = row[n] /\ api'[n] = api[n]
        /\ UNCHANGED <<job, slot, gmail>>
        /\ api'[m].pc \in {"enqueue", "rejected"}
        /\ row'[m].status \in {"QUEUED", "ABSENT"}
        /\ api'[m].pc = "enqueue" => row'[m].status = "QUEUED"
        /\ Untouched(m)
    BY <1>1, <1>3, CreateDeliveryEffect DEF Answers, Origins
  <2>2. Origins'
    BY <1>1, <2>1 DEF Origins, Untouched
  <2>3. SoleClaim'
    BY <1>1, <2>1, UntouchedUnclaimed DEF SoleClaim, Claims
  <2>4. QED
    BY <2>2, <2>3
<1>4. CASE Enqueue(m)
  <2>1. /\ \A n \in Messages : n # m => job'[n] = job[n] /\ api'[n] = api[n]
        /\ UNCHANGED <<row, slot, gmail>>
        /\ api[m].pc = "enqueue"
        /\ \/ api'[m].pc = "accepted"
           \/ UNCHANGED job /\ api'[m].pc = "markFailed"
    BY <1>1, <1>2, <1>4, EnqueueEffect DEF Answers
  <2>2. Origins'
    BY <1>1, <2>1 DEF Origins, Untouched
  <2>3. SoleClaim'
    BY <1>1, <2>1 DEF SoleClaim, Claims
  <2>4. QED
    BY <2>2, <2>3
<1>5. CASE MarkUnavailable(m)
  <2>1. /\ \A n \in Messages : n # m => row'[n] = row[n] /\ api'[n] = api[n]
        /\ UNCHANGED <<job, slot, gmail>>
        /\ api'[m].pc \in {"unavailable", "error"}
        /\ row'[m].status \in {"FAILED", "QUEUED"}
        /\ Untouched(m)
    BY <1>1, <1>5, MarkUnavailableEffect DEF Answers, Writes, Origins
  <2>2. Origins'
    BY <1>1, <2>1 DEF Origins, Untouched
  <2>3. SoleClaim'
    BY <1>1, <2>1, UntouchedUnclaimed DEF SoleClaim, Claims
  <2>4. QED
    BY <2>2, <2>3
<1>6. CASE ApiCrash(m)
  <2>1. /\ \A n \in Messages : n # m => api'[n] = api[n]
        /\ UNCHANGED <<row, job, slot, gmail>>
        /\ api'[m].pc = "crashed" /\ Untouched(m)
    BY <1>1, <1>6, ApiCrashEffect DEF Answers, Origins
  <2>2. QED
    BY <1>1, <2>1 DEF Origins, Untouched, SoleClaim, Claims
<1>7. QED
  BY <1>3, <1>4, <1>5, <1>6 DEF ApiStep

(* A step of a processor call on an added message: the others keep their     *)
(* rows, and whatever the step does to its own row and mail, the handler is  *)
(* done with it.                                                             *)
LEMMA ProcessorKeepsOrigins ==
  ASSUME ClaimInv, NEW s \in Slots, ProcessorStep(s)
  PROVE  Origins'
<1> DEFINE m == slot[s].msg
<1>1. TypeInv /\ Origins
  BY DEF ClaimInv
<1>2. /\ m \in Messages /\ slot'[s].msg = m
      /\ \A t \in Slots : slot'[t].msg = slot[t].msg
      /\ \A n \in Messages : n # m => row'[n] = row[n]
      /\ UNCHANGED <<api, job>>
  BY <1>1, ProcessorEffect DEF Advances, Writes
<1>3. api[m].pc = "accepted"
  BY <1>1, <1>2 DEF Origins, Untouched
<1>4. \A n \in Messages : n # m => gmail'[n] = gmail[n]
  <2>1. gmail \in [Messages -> [copies : Nat, day : 0..MaxDay]]
    BY <1>1 DEF TypeInv, TypeOK
  <2>2. CASE SmtpSend(s)
    <3> DEFINE mail == [copies |-> gmail[m].copies + 1, day |-> today]
    <3>1. gmail' = gmail \/ gmail' = [gmail EXCEPT ![m] = mail]
      BY <1>1, <2>2, SmtpSendEffect
    <3> HIDE DEF mail
    <3>2. QED
      BY <2>1, <3>1
  <2>3. CASE ~SmtpSend(s)
    BY <1>1, <2>3, LoadEffect, StartDeliveryEffect, ReserveQuotaEffect, DecryptFailsEffect,
       MarkSentEffect, MarkFailedEffect DEF ProcessorStep
  <2>4. QED
    BY <2>2, <2>3
<1>5. QED
  BY <1>1, <1>2, <1>3, <1>4 DEF Origins, Untouched

(* A call claims a row that says QUEUED or FAILED, which nobody claims, and  *)
(* only the call that claims a row takes SENDING from it.                    *)
LEMMA ProcessorKeepsClaims ==
  ASSUME ErrorsExact, ClaimInv, NEW s \in Slots, ProcessorStep(s)
  PROVE  SoleClaim'
<1> DEFINE m == slot[s].msg
<1>1. TypeInv /\ SoleClaim /\ "db_ack_lost" \notin Faults
  BY DEF ClaimInv, ErrorsExact
<1>2. /\ m \in Messages /\ slot'[s].msg = m
      /\ \A t \in Slots : t # s => slot'[t] = slot[t]
      /\ \A n \in Messages : n # m => row'[n] = row[n]
  BY <1>1, ProcessorEffect DEF Advances, Writes
<1>3. \/ row'[m].status = row[m].status /\ (slot'[s].pc \in ClaimedPcs => Claims(s, m))
      \/ row[m].status \in {"QUEUED", "FAILED"} /\ row'[m].status = "SENDING"
      \/ Claims(s, m) /\ slot'[s].pc \notin ClaimedPcs
  <2>1. CASE Load(s)
    BY <1>1, <2>1, LoadEffect DEF ClaimedPcs, Claims
  <2>2. CASE StartDelivery(s)
    BY <1>1, <2>2, StartDeliveryEffect DEF ClaimedPcs, Claims
  <2>3. CASE ReserveQuota(s)
    BY <1>1, <2>3, ReserveQuotaEffect DEF ClaimedPcs, Claims
  <2>4. CASE DecryptFails(s)
    BY <1>1, <2>4, DecryptFailsEffect DEF ClaimedPcs, Claims
  <2>5. CASE SmtpSend(s)
    BY <1>1, <2>5, SmtpSendEffect DEF ClaimedPcs, Claims
  <2>6. CASE MarkSent(s)
    BY <1>1, <2>6, MarkSentEffect DEF ClaimedPcs, Claims
  <2>7. CASE MarkFailed(s)
    BY <1>1, <2>7, MarkFailedEffect DEF ClaimedPcs, Claims
  <2>8. QED
    BY <2>1, <2>2, <2>3, <2>4, <2>5, <2>6, <2>7 DEF ProcessorStep
<1>4. CASE row'[m].status = row[m].status /\ (slot'[s].pc \in ClaimedPcs => Claims(s, m))
  BY <1>1, <1>2, <1>4 DEF SoleClaim, Claims
<1>5. CASE row[m].status \in {"QUEUED", "FAILED"} /\ row'[m].status = "SENDING"
  <2>1. \A t \in Slots : ~Claims(t, m)
    BY <1>1, <1>2, <1>5 DEF SoleClaim
  <2>2. QED
    BY <1>1, <1>2, <1>5, <2>1 DEF SoleClaim, Claims
<1>6. CASE Claims(s, m) /\ slot'[s].pc \notin ClaimedPcs
  <2>1. \A t \in Slots : Claims(t, m) => t = s
    BY <1>1, <1>2, <1>6 DEF SoleClaim
  <2>2. QED
    BY <1>1, <1>2, <1>6, <2>1 DEF SoleClaim, Claims
<1>7. QED
  BY <1>3, <1>4, <1>5, <1>6

(* A slot that becomes free claims nothing, and BullMQ writes no row.        *)
LEMMA QueueKeepsClaims ==
  ASSUME ClaimInv, NEW s \in Slots, ReportStep(s) \/ WorkerCrash(s)
  PROVE  Origins' /\ SoleClaim'
<1>1. TypeInv /\ Origins /\ SoleClaim
  BY DEF ClaimInv
<1>2. /\ slot[s].msg \in Messages /\ slot'[s].msg = NoMessage /\ slot'[s].pc = "idle"
      /\ \A t \in Slots : t # s => slot'[t] = slot[t]
      /\ \A n \in Messages : n # slot[s].msg => job'[n] = job[n]
      /\ UNCHANGED <<api, row, gmail>>
  BY <1>1, ReportEffect, WorkerCrashEffect, Blanks DEF Requeues
<1>3. Origins'
  <2>1. \A n \in Messages : Untouched(n) => Untouched(n)'
    BY <1>2, Zeros DEF Untouched
  <2>2. QED
    BY <1>1, <1>2, <2>1 DEF Origins
<1>4. SoleClaim'
  BY <1>1, <1>2 DEF SoleClaim, Claims, ClaimedPcs
<1>5. QED
  BY <1>3, <1>4

(* A new call has claimed nothing.                                           *)
LEMMA TakeKeepsClaims ==
  ASSUME ClaimInv, NEW s \in Slots, NEW m \in Messages, Take(s, m)
  PROVE  Origins' /\ SoleClaim'
<1>1. TypeInv /\ Origins /\ SoleClaim
  BY DEF ClaimInv
<1>2. /\ slot'[s].msg = m /\ slot'[s].pc = "load" /\ job[m].state = "waiting"
      /\ \A t \in Slots : t # s => slot'[t] = slot[t]
      /\ \A n \in Messages : n # m => job'[n] = job[n]
      /\ UNCHANGED <<api, row, gmail>>
  BY <1>1, TakeEffect DEF Requeues
<1>3. Origins'
  <2>1. \A n \in Messages : Untouched(n) => Untouched(n)'
    BY <1>2 DEF Untouched
  <2>2. QED
    BY <1>1, <1>2, <2>1 DEF Origins
<1>4. SoleClaim'
  BY <1>1, <1>2 DEF SoleClaim, Claims, ClaimedPcs
<1>5. QED
  BY <1>3, <1>4

(* Lock loss and stalls concern jobs that were added.                        *)
LEMMA LockKeepsClaims ==
  ASSUME ClaimInv, NEW m \in Messages, LoseLock(m) \/ Stall(m)
  PROVE  Origins' /\ SoleClaim'
<1>1. TypeInv /\ Origins /\ SoleClaim
  BY DEF ClaimInv
<1>2. /\ job[m].state = "absent" => job'[m].state = "absent"
      /\ \A n \in Messages : n # m => job'[n] = job[n]
      /\ UNCHANGED <<api, row, slot, gmail>>
  BY <1>1, LoseLockEffect, StallEffect DEF Requeues
<1>3. \A n \in Messages : Untouched(n) => Untouched(n)'
  BY <1>2 DEF Untouched
<1>4. QED
  BY <1>1, <1>2, <1>3 DEF Origins, SoleClaim, Claims

(* The induction step.                                                       *)
LEMMA ClaimInvNext == ErrorsExact /\ ClaimInv /\ [Next]_vars => ClaimInv'
<1> SUFFICES ASSUME ErrorsExact, ClaimInv, [Next]_vars PROVE ClaimInv'
  OBVIOUS
<1>1. TypeInv'
  BY NextTypeInv DEF ClaimInv
<1>2. CASE \E m \in Messages : ApiStep(m) \/ ApiCrash(m)
  BY <1>1, <1>2, HandlerKeepsClaims DEF ClaimInv
<1>3. CASE \E m \in Messages : LoseLock(m) \/ Stall(m)
  BY <1>1, <1>3, LockKeepsClaims DEF ClaimInv
<1>4. CASE \E s \in Slots : ProcessorStep(s)
  BY <1>1, <1>4, ProcessorKeepsOrigins, ProcessorKeepsClaims DEF ClaimInv
<1>5. CASE \E s \in Slots : ReportStep(s) \/ WorkerCrash(s)
  BY <1>1, <1>5, QueueKeepsClaims DEF ClaimInv
<1>6. CASE \E s \in Slots, m \in Messages : Take(s, m)
  BY <1>1, <1>6, TakeKeepsClaims DEF ClaimInv
<1>7. CASE UNCHANGED <<api, row, job, slot, gmail>>
  BY <1>1, <1>7 DEF ClaimInv, Origins, Untouched, SoleClaim, Claims
<1>8. CASE (\E a \in Senders : SetSenderActive(a)) \/ Midnight \/ UNCHANGED vars
  <2>1. UNCHANGED <<api, row, job, slot, gmail>>
    BY <1>8 DEF vars, SetSenderActive, Midnight
  <2>2. QED
    BY <1>7, <2>1
<1>9. QED
  BY <1>2, <1>3, <1>4, <1>5, <1>6, <1>8 DEF Next

(* The claim invariant holds throughout.                                     *)
LEMMA ClaimInvAlways == ASSUME ErrorsExact PROVE Spec => []ClaimInv
<1>1. ClaimInv /\ [Next]_vars => ClaimInv'
  BY ClaimInvNext
<1>2. QED
  BY <1>1, ClaimInvInit, PTL DEF Spec

(* The claim of a row is exclusive, however often BullMQ delivers its job    *)
(* (startDelivery, database-adapter.ts).                                     *)
THEOREM SoleClaimAlways == ASSUME ErrorsExact PROVE Spec => []SoleClaim
<1>1. ClaimInv => SoleClaim
  BY DEF ClaimInv
<1>2. QED
  BY <1>1, ClaimInvAlways, PTL

(* A request that was refused has no mail in Gmail and never gets one        *)
(* (createAndEnqueue, delivery.ts).                                          *)
THEOREM RefusedNeverMailedAlways == ASSUME ErrorsExact PROVE Spec => []RefusedNeverMailed
<1>1. ClaimInv => RefusedNeverMailed
  BY DEF ClaimInv, RefusedNeverMailed, Origins, Untouched
<1>2. QED
  BY <1>1, ClaimInvAlways, PTL

(* A step leaves a row that says SENT alone.                                 *)
LEMMA SentStep ==
  ASSUME ErrorsExact, ClaimInv, [Next]_vars, NEW m \in Messages, row[m].status = "SENT"
  PROVE  row'[m] = row[m]
<1>1. TypeInv /\ Origins /\ SoleClaim
  BY DEF ClaimInv
<1>2. ASSUME NEW n \in Messages, ApiStep(n) PROVE row'[m] = row[m]
  <2>1. CASE n = m
    <3>1. api[m].pc = "accepted"
      BY <1>1 DEF Origins, Untouched
    <3>2. QED
      BY <1>1, <1>2, <2>1, <3>1, CreateDeliveryEffect, EnqueueEffect, MarkUnavailableEffect
         DEF ApiStep
  <2>2. CASE n # m
    BY <1>1, <1>2, <2>2, CreateDeliveryEffect, EnqueueEffect, MarkUnavailableEffect
       DEF ApiStep, Writes
  <2>3. QED
    BY <2>1, <2>2
<1>3. ASSUME NEW s \in Slots, ProcessorStep(s) PROVE row'[m] = row[m]
  <2>1. CASE slot[s].msg # m
    BY <1>1, <1>3, <2>1, ProcessorEffect DEF Writes
  <2>2. CASE slot[s].msg = m
    <3>1. ~Claims(s, m)
      BY <1>1 DEF SoleClaim
    <3>2. slot[s].pc \notin ClaimedPcs
      BY <2>2, <3>1 DEF Claims
    <3>3. CASE Load(s)
      BY <1>1, <3>3, LoadEffect
    <3>4. CASE StartDelivery(s)
      BY <1>1, <2>2, <3>4, StartDeliveryEffect
    <3>5. QED
      BY <1>1, <1>3, <3>2, <3>3, <3>4, ReserveQuotaEffect, DecryptFailsEffect, SmtpSendEffect,
         MarkSentEffect, MarkFailedEffect DEF ProcessorStep, ClaimedPcs
  <2>3. QED
    BY <2>1, <2>2
<1>4. QED
  BY <1>1, <1>2, <1>3
     DEF Next, vars, ApiCrash, LoseLock, Stall, ReportStep, Complete, FailForGood, Retry, Report,
         WorkerCrash, Take, SetSenderActive, Midnight

(* SENT is final: no redelivery, late catch block or handler takes a         *)
(* delivered message back.                                                   *)
THEOREM SentIsFinalAlways == ASSUME ErrorsExact PROVE Spec => SentIsFinal
<1>1. ClaimInv /\ [Next]_vars =>
        [\A m \in Messages : row[m].status = "SENT" => row'[m] = row[m]]_vars
  BY SentStep
<1>2. QED
  BY <1>1, ClaimInvAlways, PTL DEF Spec, SentIsFinal

-----------------------------------------------------------------------------
(* A failure that is final.                                                  *)

(* Nothing makes BullMQ deliver a job that a slot still works on.            *)
NoRedelivery == Faults \cap {"crash", "lock_lost"} = {}

(* Then the call of a slot holds the lock of its job, and an active job is   *)
(* locked.                                                                   *)
Owned ==
  NoRedelivery =>
    /\ \A s \in Slots : slot[s].pc # "idle" =>
         job[slot[s].msg].state = "active" /\ job[slot[s].msg].lock = s
    /\ \A m \in Messages : job[m].state = "active" => job[m].lock # NoSlot

OwnedInv == PaidInv /\ Owned

(* A step that changes no job and starts no call.                            *)
LEMMA KeepOwned ==
  ASSUME Owned, UNCHANGED job,
         \A s \in Slots : slot'[s].pc = "idle" \/ (slot[s].pc # "idle" /\ slot'[s].msg = slot[s].msg)
  PROVE  Owned'
BY DEF Owned

(* A step that moves the job of one message, for which no call works any     *)
(* more.                                                                     *)
LEMMA FreeOwned ==
  ASSUME PaidInv, Owned, NEW m \in Messages,
         \A n \in Messages : n # m => job'[n] = job[n],
         job'[m].state # "active",
         \A s \in Slots : slot'[s].pc # "idle" => slot'[s] = slot[s] /\ slot[s].msg # m
  PROVE  Owned'
BY BusyMessage DEF Owned, PaidInv

(* A slot takes a waiting job: nobody worked on it.                          *)
LEMMA TakeOwned ==
  ASSUME PaidInv, Owned, NEW s \in Slots, NEW m \in Messages, Take(s, m)
  PROVE  Owned'
<1>1. /\ \A t \in Slots : t # s => slot'[t] = slot[t]
      /\ slot'[s].msg = m
      /\ job[m].state = "waiting" /\ job'[m].state = "active" /\ job'[m].lock = s
      /\ \A n \in Messages : n # m => job'[n] = job[n]
  BY TakeEffect DEF PaidInv, Requeues
<1>2. \A t \in Slots : slot[t].pc # "idle" => slot[t].msg \in Messages
  BY BusyMessage DEF PaidInv
<1>3. ASSUME NoRedelivery, NEW t \in Slots, slot'[t].pc # "idle"
      PROVE  job'[slot'[t].msg].state = "active" /\ job'[slot'[t].msg].lock = t
  BY <1>1, <1>2, <1>3 DEF Owned
<1>4. ASSUME NoRedelivery, NEW n \in Messages, job'[n].state = "active"
      PROVE  job'[n].lock # NoSlot
  BY <1>1, <1>4, Zeros DEF Owned
<1>5. QED
  BY <1>3, <1>4 DEF Owned

(* A call that reports is the only one that worked on its job.               *)
LEMMA ReportOwned ==
  ASSUME PaidInv, Owned, NEW s \in Slots, ReportStep(s)
  PROVE  Owned'
<1> DEFINE m == slot[s].msg
<1> SUFFICES ASSUME NoRedelivery PROVE Owned'
  BY DEF Owned
<1>1. /\ m \in Messages /\ slot[s].pc # "idle" /\ slot'[s].pc = "idle"
      /\ \A t \in Slots : t # s => slot'[t] = slot[t]
      /\ job[m].lock = s => job'[m].state # "active"
      /\ \A n \in Messages : n # m => job'[n] = job[n]
  BY ReportEffect, Blanks DEF PaidInv, Requeues
<1>2. \A t \in Slots : slot[t].pc # "idle" => job[slot[t].msg].lock = t
  BY DEF Owned
<1>3. \A t \in Slots : slot'[t].pc # "idle" => slot'[t] = slot[t] /\ slot[t].msg # m
  BY <1>1, <1>2
<1>4. job'[m].state # "active"
  BY <1>1, <1>2
<1>5. QED
  BY <1>1, <1>3, <1>4, FreeOwned

(* Every step keeps calls and locks together.                                *)
LEMMA OwnedInvNext == OwnedInv /\ [Next]_vars => OwnedInv'
<1> SUFFICES ASSUME OwnedInv, [Next]_vars PROVE OwnedInv'
  OBVIOUS
<1>1. PaidInv' /\ PaidInv /\ TypeInv /\ Owned
  BY PaidInvNext DEF OwnedInv, PaidInv
<1> SUFFICES Owned'
  BY <1>1 DEF OwnedInv
<1>2. ASSUME NEW m \in Messages, Enqueue(m) PROVE Owned'
  <2>1. /\ api[m].pc = "enqueue" /\ slot' = slot
        /\ \A n \in Messages : n # m => job'[n] = job[n]
        /\ job'[m].state = "waiting" \/ job' = job
    BY <1>1, <1>2, EnqueueEffect
  <2>2. job[m].state = "absent"
    BY <1>1, <2>1 DEF PaidInv, Paid
  <2>3. NoRedelivery => \A s \in Slots : slot[s].pc # "idle" => slot[s].msg # m
    BY <1>1, <2>2 DEF Owned
  <2>4. CASE NoRedelivery
    BY <1>1, <2>1, <2>2, <2>3, <2>4, FreeOwned
  <2>5. QED
    BY <2>4 DEF Owned
<1>3. ASSUME NEW m \in Messages, CreateDelivery(m) \/ MarkUnavailable(m) \/ ApiCrash(m)
      PROVE  Owned'
  <2>1. UNCHANGED <<job, slot>>
    BY <1>1, <1>3, CreateDeliveryEffect, MarkUnavailableEffect, ApiCrashEffect
  <2>2. QED
    BY <1>1, <2>1, KeepOwned
<1>4. ASSUME NEW s \in Slots, ProcessorStep(s) PROVE Owned'
  BY <1>1, <1>4, ProcessorEffect, KeepOwned DEF Advances
<1>5. ASSUME NEW s \in Slots, WorkerCrash(s) PROVE Owned'
  BY <1>1, <1>5, WorkerCrashEffect DEF Owned, NoRedelivery
<1>6. ASSUME NEW m \in Messages, LoseLock(m) PROVE Owned'
  BY <1>1, <1>6, LoseLockEffect DEF Owned, NoRedelivery
<1>7. ASSUME NEW m \in Messages, Stall(m) PROVE Owned'
  <2>1. job[m].state = "active" /\ job[m].lock = NoSlot
    BY <1>1, <1>7, StallEffect
  <2>2. ~NoRedelivery
    BY <1>1, <2>1 DEF Owned
  <2>3. QED
    BY <2>2 DEF Owned
<1>8. CASE (\E a \in Senders : SetSenderActive(a)) \/ Midnight \/ UNCHANGED vars
  <2>1. UNCHANGED <<job, slot>>
    BY <1>8 DEF vars, SetSenderActive, Midnight
  <2>2. QED
    BY <1>1, <2>1, KeepOwned
<1>9. QED
  BY <1>1, <1>2, <1>3, <1>4, <1>5, <1>6, <1>7, <1>8, TakeOwned, ReportOwned DEF Next, ApiStep

(* At the start no slot works.                                               *)
LEMMA OwnedInvInit == Init => OwnedInv
<1> SUFFICES ASSUME Init PROVE OwnedInv
  OBVIOUS
<1>1. /\ \A s \in Slots : slot[s].pc = "idle"
      /\ \A m \in Messages : job[m].state = "absent"
  BY DEF Init, Idle, NoJob
<1>2. QED
  BY <1>1, PaidInvInit DEF OwnedInv, Owned

(* A row that records a failure for good.                                    *)
Refused(m) == row[m].status = "FAILED" /\ row[m].code \notin RetryableCodes

(* Nobody who could write the row has it ahead: its handler is done, its job *)
(* does not wait, and a call that still has it only has to throw.            *)
Final(m) ==
  /\ api[m].pc \notin {"idle", "enqueue", "markFailed"}
  /\ job[m].state # "waiting"
  /\ \A s \in Slots : slot[s].msg = m => slot[s].pc = "dead"

FinalInv ==
  /\ ClaimInv /\ OwnedInv
  /\ \A m \in Messages : Refused(m) => Final(m)

(* Where a refusal comes from: the call that refuses is the only one on the  *)
(* job, and the handler refuses a message whose job was not added.           *)
LEMMA RefusalIsFinal ==
  ASSUME ErrorsExact, NoRedelivery, FinalInv, NEW m \in Messages, ~Refused(m), Refused(m)',
         [Next]_vars
  PROVE  Final(m)'
<1>1. /\ TypeInv /\ Owned /\ Origins /\ SoleClaim
      /\ "db_ack_lost" \notin Faults
  BY DEF FinalInv, ClaimInv, ErrorsExact, OwnedInv
<1>2. row'[m] # row[m]
  BY DEF Refused
<1>3. ASSUME NEW n \in Messages, ApiStep(n) PROVE Final(m)'
  <2>1. n = m /\ MarkUnavailable(m) /\ slot' = slot /\ job' = job
        /\ api'[m].pc \in {"unavailable", "error"} /\ api[m].pc = "markFailed"
    BY <1>1, <1>2, <1>3, CreateDeliveryEffect, EnqueueEffect, MarkUnavailableEffect
       DEF ApiStep, Writes, Answers, Refused
  <2>2. Untouched(m)
    BY <1>1, <2>1 DEF Origins
  <2>3. QED
    BY <2>1, <2>2 DEF Final, Untouched
<1>4. ASSUME NEW s \in Slots, ProcessorStep(s) PROVE Final(m)'
  <2>1. /\ slot[s].msg = m /\ slot'[s].msg = m /\ slot[s].pc # "idle"
        /\ \A t \in Slots : t # s => slot'[t] = slot[t]
        /\ job' = job /\ api' = api
    BY <1>1, <1>2, <1>4, ProcessorEffect DEF Writes, Advances
  <2>2. MarkFailed(s) /\ slot[s].pc = "markFailed" /\ slot'[s].pc = "dead"
    BY <1>1, <1>2, <1>4, <2>1, LoadEffect, StartDeliveryEffect, ReserveQuotaEffect,
       DecryptFailsEffect, SmtpSendEffect, MarkSentEffect, MarkFailedEffect
       DEF ProcessorStep, Refused
  <2>3. api[m].pc = "accepted"
    BY <1>1, <2>1 DEF Origins, Untouched
  <2>4. job[m].state = "active" /\ job[m].lock = s
    BY <1>1, <2>1 DEF Owned
  <2>5. \A t \in Slots : slot[t].msg = m => t = s
    <3>1. \A t \in Slots : slot[t].pc = "idle" => slot[t].msg # m
      BY <1>1, Zeros, Blanks DEF TypeInv, BusySlots
    <3>2. QED
      BY <1>1, <2>4, <3>1 DEF Owned
  <2>6. QED
    BY <2>1, <2>2, <2>3, <2>4, <2>5 DEF Final
<1>5. QED
  BY <1>1, <1>2, <1>3, <1>4
     DEF Next, vars, ApiCrash, LoseLock, Stall, ReportStep, Complete, FailForGood, Retry, Report,
         WorkerCrash, Take, SetSenderActive, Midnight

(* What is final stays so: the dead call ends its job.                       *)
LEMMA FinalStays ==
  ASSUME NoRedelivery, FinalInv, NEW m \in Messages, Final(m), [Next]_vars
  PROVE  Final(m)' /\ row'[m] = row[m]
<1>1. TypeInv /\ Owned
  BY DEF FinalInv, ClaimInv, OwnedInv
<1>2. ASSUME NEW n \in Messages, ApiStep(n) \/ ApiCrash(n) PROVE Final(m)' /\ row'[m] = row[m]
  <2>1. /\ n # m /\ slot' = slot
        /\ job'[m] = job[m] /\ api'[m] = api[m] /\ row'[m] = row[m]
    BY <1>1, <1>2, CreateDeliveryEffect, EnqueueEffect, MarkUnavailableEffect, ApiCrashEffect
       DEF ApiStep, Answers, Writes, Final
  <2>2. QED
    BY <2>1 DEF Final
<1>3. ASSUME NEW s \in Slots, ProcessorStep(s) PROVE Final(m)' /\ row'[m] = row[m]
  <2>1. slot[s].pc # "dead"
    BY <1>1, <1>3, LoadEffect, StartDeliveryEffect, ReserveQuotaEffect, DecryptFailsEffect,
       SmtpSendEffect, MarkSentEffect, MarkFailedEffect DEF ProcessorStep
  <2>2. /\ slot[s].msg # m /\ slot'[s].msg # m /\ row'[m] = row[m]
        /\ \A t \in Slots : t # s => slot'[t] = slot[t]
        /\ job' = job /\ api' = api
    BY <1>1, <1>3, <2>1, ProcessorEffect DEF Final, Advances, Writes
  <2>3. QED
    BY <2>2 DEF Final
<1>4. ASSUME NEW s \in Slots, NEW n \in Messages, Take(s, n) PROVE Final(m)' /\ row'[m] = row[m]
  <2>1. /\ n # m /\ slot'[s].msg = n /\ job'[m] = job[m] /\ UNCHANGED <<api, row>>
        /\ \A t \in Slots : t # s => slot'[t] = slot[t]
    BY <1>1, <1>4, TakeEffect DEF Requeues, Final
  <2>2. QED
    BY <2>1 DEF Final
<1>5. ASSUME NEW s \in Slots, ReportStep(s) PROVE Final(m)' /\ row'[m] = row[m]
  <2>1. /\ slot'[s].msg # m /\ UNCHANGED <<api, row>>
        /\ \A t \in Slots : t # s => slot'[t] = slot[t]
        /\ slot[s].msg = m => slot[s].pc = "dead"
    BY <1>1, <1>5, ReportEffect, Blanks, Zeros DEF Final
  <2>2. job'[m].state # "waiting"
    BY <1>1, <1>5, <2>1, ReportEffect DEF Requeues, Final
  <2>3. QED
    BY <2>1, <2>2 DEF Final
<1>6. ASSUME NEW n \in Messages, Stall(n) PROVE FALSE
  BY <1>1, <1>6, StallEffect DEF Owned
<1>7. ~\E s \in Slots : WorkerCrash(s)
  BY <1>1, WorkerCrashEffect DEF NoRedelivery
<1>8. ~\E n \in Messages : LoseLock(n)
  BY <1>1, LoseLockEffect DEF NoRedelivery
<1>9. CASE (\E a \in Senders : SetSenderActive(a)) \/ Midnight \/ UNCHANGED vars
  <2>1. UNCHANGED <<api, row, job, slot>>
    BY <1>9 DEF vars, SetSenderActive, Midnight
  <2>2. QED
    BY <2>1 DEF Final
<1>10. QED
  BY <1>2, <1>3, <1>4, <1>5, <1>6, <1>7, <1>8, <1>9 DEF Next

(* Every step keeps refused rows out of everybody's reach.                   *)
LEMMA FinalInvNext ==
  ErrorsExact /\ NoRedelivery /\ FinalInv /\ [Next]_vars => FinalInv'
<1> SUFFICES ASSUME ErrorsExact, NoRedelivery, FinalInv, [Next]_vars PROVE FinalInv'
  OBVIOUS
<1>1. ClaimInv' /\ OwnedInv'
  BY ClaimInvNext, OwnedInvNext DEF FinalInv
<1>2. ASSUME NEW m \in Messages, Refused(m)' PROVE Final(m)'
  BY <1>2, RefusalIsFinal, FinalStays DEF FinalInv
<1>3. QED
  BY <1>1, <1>2 DEF FinalInv

(* A failure recorded as not retryable is never claimed or written again,    *)
(* while errors mean that nothing happened and no job is delivered twice:    *)
(* PermanentDeliveryError becomes UnrecoverableError (index.ts of the        *)
(* worker), since startDelivery itself does not look at the retryable flag.  *)
THEOREM PermanentIsTerminalAlways ==
  ASSUME ErrorsExact, NoRedelivery PROVE Spec => PermanentIsTerminal
<1>1. Init => FinalInv
  <2>1. ASSUME Init, NEW m \in Messages PROVE ~Refused(m)
    BY <2>1 DEF Init, Refused
  <2>2. QED
    BY <2>1, ClaimInvInit, OwnedInvInit DEF FinalInv
<1>2. FinalInv /\ [Next]_vars => FinalInv'
  BY FinalInvNext
<1>3. FinalInv /\ [Next]_vars =>
        [\A m \in Messages : row[m].status = "FAILED" /\ row[m].code \notin RetryableCodes
                               => row'[m] = row[m]]_vars
  BY FinalStays DEF FinalInv, Refused
<1>4. QED
  BY <1>1, <1>2, <1>3, PTL DEF Spec, PermanentIsTerminal

-----------------------------------------------------------------------------
(* No mail outside the quota.                                                *)

(* A session is opened only with a reservation.                              *)
QuotaInv ==
  /\ TypeInv
  /\ QuotaCoversMail
  /\ \A s \in Slots : slot[s].pc = "smtp" => reserved[slot[s].msg] # NoDay

(* At the start nothing is reserved and nothing is mailed.                   *)
LEMMA QuotaInvInit == Init => QuotaInv
<1> SUFFICES ASSUME Init PROVE QuotaInv
  OBVIOUS
<1>1. /\ \A m \in Messages : gmail[m].copies = 0 /\ reserved[m] = NoDay
      /\ \A s \in Slots : slot[s].pc = "idle"
  BY DEF Init, Idle
<1>2. ASSUME NEW a \in Senders, NEW d \in 1..MaxDay PROVE Usage(reserved, a, d) <= DailyLimit[a]
  <2>1. Units(reserved, a, d) = {}
    BY <1>1 DEF Units, NoDay
  <2>2. Usage(reserved, a, d) = 0
    BY <2>1, FS_EmptySet DEF Usage
  <2>3. QED
    BY <2>2, PipelineAssumption
<1>3. QED
  BY <1>1, <1>2, InitTypeInv DEF QuotaInv, QuotaCoversMail

(* reserveQuota keeps every sender within its limit on every day.            *)
LEMMA ReserveKeepsLimit ==
  ASSUME QuotaInv, NEW s \in Slots, ReserveQuota(s), NEW a \in Senders, NEW d \in 1..MaxDay
  PROVE  Usage(reserved', a, d) <= DailyLimit[a]
<1>1. TypeInv /\ Usage(reserved, a, d) <= DailyLimit[a]
  BY DEF QuotaInv, QuotaCoversMail
<1>2. PICK m \in Messages : m = slot[s].msg
  BY <1>1, ReserveQuotaEffect, BusyMessage
<1>3. CASE UNCHANGED reserved
  BY <1>1, <1>3
<1>4. CASE /\ reserved[m] = NoDay /\ FitsQuota(m)
           /\ reserved' = [reserved EXCEPT ![m] = today]
  <2>1. reserved \in [Messages -> Nat] /\ today \in Nat \ {NoDay} /\ d \in Nat /\ d # NoDay
    BY <1>1 DEF TypeInv, TypeOK, NoDay
  <2>2. /\ Usage(reserved', SenderOf[m], today)
             = Usage(reserved, SenderOf[m], today) + RecipientCount(m)
        /\ a # SenderOf[m] \/ d # today => Usage(reserved', a, d) = Usage(reserved, a, d)
    <3>1. /\ reserved[m] = NoDay /\ reserved'[m] = today
          /\ \A n \in Messages : n # m => reserved'[n] = reserved[n]
      BY <1>4, <2>1
    <3>2. QED
      BY <2>1, <3>1, ReservationAddsRecipients
  <2>3. CASE a = SenderOf[m] /\ d = today
    BY <1>4, <2>2, <2>3 DEF FitsQuota
  <2>4. CASE a # SenderOf[m] \/ d # today
    BY <1>1, <2>1, <2>2, <2>4
  <2>5. QED
    BY <2>3, <2>4
<1>5. QED
  BY <1>1, <1>2, <1>3, <1>4, ReserveQuotaEffect

(* Every step keeps the quota invariant.                                     *)
LEMMA QuotaInvNext == QuotaInv /\ [Next]_vars => QuotaInv'
<1> SUFFICES ASSUME QuotaInv, [Next]_vars PROVE QuotaInv'
  OBVIOUS
<1>1. /\ TypeInv /\ TypeInv'
      /\ \A m \in Messages : gmail[m].copies > 0 => reserved[m] # NoDay
      /\ \A a \in Senders, d \in 1..MaxDay : Usage(reserved, a, d) <= DailyLimit[a]
      /\ \A s \in Slots : slot[s].pc = "smtp" => reserved[slot[s].msg] # NoDay
  BY NextTypeInv DEF QuotaInv, QuotaCoversMail
<1>2. ASSUME UNCHANGED <<reserved, gmail>>,
             \A s \in Slots : slot'[s].pc = "smtp" => slot'[s] = slot[s]
      PROVE  QuotaInv'
  BY <1>1, <1>2 DEF QuotaInv, QuotaCoversMail
<1>3. ASSUME UNCHANGED <<slot, reserved, gmail>> PROVE QuotaInv'
  BY <1>2, <1>3
<1>4. ASSUME NEW s \in Slots, ReserveQuota(s) PROVE QuotaInv'
  <2> DEFINE m == slot[s].msg
  <2>1. /\ gmail' = gmail /\ m \in Messages /\ slot'[s].msg = m
        /\ \A t \in Slots : t # s => slot'[t] = slot[t]
        /\ slot'[s].pc = "smtp" => reserved'[m] # NoDay
        /\ \/ UNCHANGED reserved
           \/ reserved' = [reserved EXCEPT ![m] = today]
    BY <1>1, <1>4, ReserveQuotaEffect, BusyMessage DEF Advances
  <2>2. \A n \in Messages : reserved[n] # NoDay => reserved'[n] # NoDay
    BY <1>1, <2>1, Zeros DEF TypeInv, TypeOK, NoDay
  <2>3. \A a \in Senders, d \in 1..MaxDay : Usage(reserved', a, d) <= DailyLimit[a]
    BY <1>4, ReserveKeepsLimit
  <2>4. \A n \in Messages : gmail'[n].copies > 0 => reserved'[n] # NoDay
    BY <1>1, <2>1, <2>2
  <2>5. \A t \in Slots : slot'[t].pc = "smtp" => reserved'[slot'[t].msg] # NoDay
    BY <1>1, <2>1, <2>2, BusyMessage
  <2>6. QED
    BY <1>1, <2>3, <2>4, <2>5 DEF QuotaInv, QuotaCoversMail, Usage, Units
<1>5. ASSUME NEW s \in Slots, SmtpSend(s) PROVE QuotaInv'
  <2>1. PICK m \in Messages : m = slot[s].msg
    BY <1>1, <1>5, SmtpSendEffect, BusyMessage
  <2>2. /\ slot[s].pc = "smtp" /\ slot'[s].pc # "smtp"
        /\ \A t \in Slots : t # s => slot'[t] = slot[t]
        /\ reserved' = reserved
        /\ \A n \in Messages : n # m => gmail'[n] = gmail[n]
    <3>1. gmail' = gmail \/ \E mail : gmail' = [gmail EXCEPT ![m] = mail]
      BY <1>1, <1>5, <2>1, SmtpSendEffect
    <3>2. gmail \in [Messages -> [copies : Nat, day : 0..MaxDay]]
      BY <1>1 DEF TypeInv, TypeOK
    <3>3. QED
      BY <1>1, <1>5, <3>1, <3>2, SmtpSendEffect DEF Advances
  <2>3. reserved[m] # NoDay
    BY <1>1, <2>1, <2>2
  <2>4. QED
    BY <1>1, <2>2, <2>3 DEF QuotaInv, QuotaCoversMail
<1>6. ASSUME NEW s \in Slots, ProcessorStep(s) PROVE QuotaInv'
  <2>1. CASE Load(s)
    BY <1>1, <1>2, <2>1, LoadEffect DEF Advances
  <2>2. CASE StartDelivery(s)
    BY <1>1, <1>2, <2>2, StartDeliveryEffect DEF Advances
  <2>3. CASE DecryptFails(s)
    BY <1>1, <1>2, <2>3, DecryptFailsEffect DEF Advances
  <2>4. CASE MarkSent(s)
    BY <1>1, <1>2, <2>4, MarkSentEffect DEF Advances
  <2>5. CASE MarkFailed(s)
    BY <1>1, <1>2, <2>5, MarkFailedEffect DEF Advances
  <2>6. QED
    BY <1>4, <1>5, <1>6, <2>1, <2>2, <2>3, <2>4, <2>5 DEF ProcessorStep
<1>7. ASSUME NEW s \in Slots, ReportStep(s) \/ WorkerCrash(s) PROVE QuotaInv'
  BY <1>1, <1>2, <1>7, ReportEffect, WorkerCrashEffect, Blanks
<1>8. ASSUME NEW s \in Slots, NEW m \in Messages, Take(s, m) PROVE QuotaInv'
  BY <1>1, <1>2, <1>8, TakeEffect
<1>9. QED
  BY <1>3, <1>6, <1>7, <1>8
     DEF Next, vars, ApiStep, CreateDelivery, Enqueue, MarkUnavailable, ApiCrash, LoseLock, Stall,
         SetSenderActive, Midnight

(* No recipient is mailed outside the quota: every copy is covered by a      *)
(* reservation, and a sender's reservations of a day stay within its limit,  *)
(* whatever fails and however the processors interleave (reserveQuota,       *)
(* quota.ts).                                                                *)
THEOREM QuotaCoversMailAlways == Spec => []QuotaCoversMail
<1>1. Spec => []QuotaInv
  BY QuotaInvInit, QuotaInvNext, PTL DEF Spec
<1>2. QuotaInv => QuotaCoversMail
  BY DEF QuotaInv
<1>3. QED
  BY <1>1, <1>2, PTL

-----------------------------------------------------------------------------
(* At most one copy, and the life of a message.                             *)

(* Where a call stands with the one copy of its message: none before the     *)
(* session and none in the catch block, unless markSent itself threw.        *)
CallCopies ==
  \A s \in Slots :
    /\ slot[s].pc \in {"reserve", "smtp"} => gmail[slot[s].msg].copies = 0
    /\ slot[s].pc = "markFailed" =>
         IF slot[s].code = AmbiguousCode THEN "db_error" \in Faults
                                         ELSE gmail[slot[s].msg].copies = 0

(* A message that Gmail took although its row does not say so is over for    *)
(* the queue: its job has failed, or is about to.                            *)
Over(m) == job[m].state = "failed" \/ \E s \in Slots : slot[s].msg = m /\ slot[s].pc = "dead"

RowCopies ==
  \A m \in Messages :
    /\ row[m].status \in {"ABSENT", "QUEUED"} => gmail[m].copies = 0
    /\ row[m].status = "FAILED" /\ gmail[m].copies > 0 => "db_error" \in Faults /\ Over(m)

CopyInv ==
  /\ ClaimInv /\ MailedInv /\ OwnedInv
  /\ AtMostOneCopy /\ CallCopies /\ RowCopies

(* At the start nothing was copied.                                          *)
LEMMA CopyInvInit == Init => CopyInv
<1> SUFFICES ASSUME Init PROVE CopyInv
  OBVIOUS
<1>1. ClaimInv /\ MailedInv /\ OwnedInv
  BY ClaimInvInit, MailedInvInit, OwnedInvInit
<1>2. /\ \A m \in Messages : gmail[m].copies = 0
      /\ \A s \in Slots : slot[s].pc = "idle"
  BY DEF Init, Idle
<1>3. QED
  BY <1>1, <1>2 DEF CopyInv, AtMostOneCopy, CallCopies, RowCopies

(* What CopySafe excludes.                                                   *)
LEMMA SafeFaults ==
  ASSUME CopySafe
  PROVE  /\ ErrorsExact
         /\ "db_ack_lost" \notin Faults /\ "queue_ambiguous" \notin Faults
         /\ "smtp_ambiguous" \notin Faults
         /\ "db_error" \in Faults => NoRedelivery
BY DEF CopySafe, ErrorsExact, NoRedelivery

(* The session adds a copy of its own message only.                          *)
LEMMA SessionCopies ==
  ASSUME CopySafe, TypeInv, NEW s \in Slots, SmtpSend(s)
  PROVE  /\ \A n \in Messages : n # slot[s].msg => gmail'[n] = gmail[n]
         /\ \/ /\ gmail'[slot[s].msg].copies = gmail[slot[s].msg].copies + 1
               /\ slot'[s].pc = "markSent"
            \/ gmail' = gmail /\ slot'[s].pc = "markFailed"
<1> DEFINE m == slot[s].msg
           mail == [copies |-> gmail[m].copies + 1, day |-> today]
<1>1. gmail \in [Messages -> [copies : Nat, day : 0..MaxDay]] /\ m \in Messages
  BY SmtpSendEffect, BusyMessage DEF TypeInv, TypeOK
<1>2. \/ gmail' = [gmail EXCEPT ![m] = mail] /\ slot'[s].pc = "markSent"
      \/ gmail' = gmail /\ slot'[s].pc = "markFailed"
  BY SafeFaults, SmtpSendEffect
<1>3. mail.copies = gmail[m].copies + 1
  OBVIOUS
<1> HIDE DEF mail
<1>4. QED
  BY <1>1, <1>2, <1>3

(* A call that can still claim its row finds no copy behind QUEUED or FAILED.*)
LEMMA ClaimableIsUnmailed ==
  ASSUME CopySafe, CopyInv, NEW s \in Slots, slot[s].pc = "claim",
         row[slot[s].msg].status \in {"QUEUED", "FAILED"}
  PROVE  gmail[slot[s].msg].copies = 0
<1> DEFINE m == slot[s].msg
<1>1. m \in Messages /\ gmail[m].copies \in Nat
  BY BusyMessage DEF CopyInv, ClaimInv, TypeInv, TypeOK
<1>2. CASE row[m].status = "QUEUED"
  BY <1>1, <1>2 DEF CopyInv, RowCopies
<1>3. CASE row[m].status = "FAILED" /\ gmail[m].copies > 0
  <2>1. "db_error" \in Faults /\ Over(m)
    BY <1>1, <1>3 DEF CopyInv, RowCopies
  <2>2. job[m].state = "active" /\ job[m].lock = s
    BY <2>1, SafeFaults DEF CopyInv, OwnedInv, Owned
  <2>3. PICK t \in Slots : slot[t].msg = m /\ slot[t].pc = "dead"
    BY <2>1, <2>2 DEF Over
  <2>4. job[m].lock = t
    BY <2>1, <2>3, SafeFaults DEF CopyInv, OwnedInv, Owned
  <2>5. QED
    BY <2>2, <2>3, <2>4
<1>4. QED
  BY <1>1, <1>2, <1>3

-----------------------------------------------------------------------------
(* The induction step, by kind of process.                                   *)

CopyParts == AtMostOneCopy /\ CallCopies /\ RowCopies

(* The request handler only writes to a message that no call has touched.    *)
LEMMA HandlerKeepsCopies ==
  ASSUME CopySafe, CopyInv, NEW m \in Messages, ApiStep(m) \/ ApiCrash(m)
  PROVE  CopyParts'
<1>1. /\ TypeInv /\ Origins
      /\ AtMostOneCopy /\ CallCopies /\ RowCopies /\ Owned
  BY DEF CopyInv, ClaimInv, OwnedInv
<1>2. /\ Untouched(m)
      /\ \A n \in Messages : n # m => row'[n] = row[n] /\ job'[n] = job[n]
      /\ UNCHANGED <<slot, gmail>>
  BY <1>1, CreateDeliveryEffect, EnqueueEffect, MarkUnavailableEffect, ApiCrashEffect
     DEF ApiStep, Writes, Origins
<1>3. AtMostOneCopy' /\ CallCopies'
  BY <1>1, <1>2 DEF AtMostOneCopy, CallCopies
<1>4. \A n \in Messages : n # m => (Over(n) <=> Over(n)')
  BY <1>2 DEF Over
<1>5. RowCopies'
  BY <1>1, <1>2, <1>4 DEF RowCopies, Untouched
<1>6. QED
  BY <1>3, <1>5 DEF CopyParts

(* A processor call sends only with the claim, and a row with a copy is over. *)
LEMMA ProcessorKeepsCopies ==
  ASSUME CopySafe, CopyInv, NEW s \in Slots, ProcessorStep(s)
  PROVE  CopyParts'
<1> DEFINE m == slot[s].msg
<1>1. /\ TypeInv /\ SoleClaim
      /\ AtMostOneCopy /\ CallCopies /\ RowCopies /\ Owned
  BY DEF CopyInv, ClaimInv, OwnedInv
<1>2. /\ m \in Messages /\ slot'[s].msg = m /\ slot[s].pc # "idle"
      /\ \A t \in Slots : t # s => slot'[t] = slot[t]
      /\ \A n \in Messages : n # m => row'[n] = row[n]
      /\ job' = job
      /\ \A t \in Slots : slot[t].pc # "idle" => slot[t].msg \in Messages
      /\ \A n \in Messages : gmail[n].copies \in Nat
  BY <1>1, ProcessorEffect, BusyMessage DEF Advances, Writes, TypeInv, TypeOK
<1>3. slot[s].pc # "dead"
  BY <1>1, LoadEffect, StartDeliveryEffect, ReserveQuotaEffect, DecryptFailsEffect,
     SmtpSendEffect, MarkSentEffect, MarkFailedEffect DEF ProcessorStep
<1>5. \A n \in Messages : Over(n) => Over(n)'
  BY <1>2, <1>3 DEF Over
<1>6. ASSUME UNCHANGED gmail,
             row'[m].status = "FAILED" /\ gmail[m].copies > 0 =>
               row[m].status = "FAILED" \/ ("db_error" \in Faults /\ Over(m)'),
             row'[m].status \notin {"ABSENT", "QUEUED"} \/ row'[m].status = row[m].status,
             slot'[s].pc \in {"reserve", "smtp"} => gmail[m].copies = 0,
             slot'[s].pc = "markFailed" =>
               IF slot'[s].code = AmbiguousCode THEN "db_error" \in Faults
                                                ELSE gmail[m].copies = 0
      PROVE  CopyParts'
  <2>1. AtMostOneCopy' /\ CallCopies'
    BY <1>1, <1>2, <1>6 DEF AtMostOneCopy, CallCopies
  <2>2. RowCopies'
    BY <1>1, <1>2, <1>5, <1>6 DEF RowCopies
  <2>3. QED
    BY <2>1, <2>2 DEF CopyParts
<1>7. CASE Load(s)
  BY <1>1, <1>6, <1>7, LoadEffect
<1>8. CASE StartDelivery(s)
  <2>1. slot'[s].pc = "reserve" => gmail[m].copies = 0
    BY <1>1, <1>8, StartDeliveryEffect, ClaimableIsUnmailed
  <2>2. QED
    BY <1>1, <1>6, <1>8, <2>1, StartDeliveryEffect
<1>9. CASE ReserveQuota(s)
  BY <1>1, <1>6, <1>9, ReserveQuotaEffect DEF CallCopies
<1>10. CASE DecryptFails(s)
  BY <1>1, <1>6, <1>10, DecryptFailsEffect DEF CallCopies
<1>11. CASE SmtpSend(s)
  <2>1. /\ \A n \in Messages : n # m => gmail'[n] = gmail[n]
        /\ \/ gmail'[m].copies = gmail[m].copies + 1 /\ slot'[s].pc = "markSent"
           \/ gmail' = gmail /\ slot'[s].pc = "markFailed"
    BY <1>1, <1>11, SessionCopies
  <2>2. /\ gmail[m].copies = 0 /\ row' = row
        /\ slot'[s].pc = "markFailed" => slot'[s].code # AmbiguousCode
        /\ Claims(s, m)
    BY <1>1, <1>11, SmtpSendEffect DEF CallCopies, Claims, ClaimedPcs
  <2>3. AtMostOneCopy'
    BY <1>1, <1>2, <2>1, <2>2 DEF AtMostOneCopy
  <2>4. \A t \in Slots : t # s => ~Claims(t, m)
    BY <1>1, <1>2, <2>2 DEF SoleClaim
  <2>5. CallCopies'
    <3> SUFFICES ASSUME NEW t \in Slots
                 PROVE  /\ slot'[t].pc \in {"reserve", "smtp"} => gmail'[slot'[t].msg].copies = 0
                        /\ slot'[t].pc = "markFailed" =>
                             IF slot'[t].code = AmbiguousCode THEN "db_error" \in Faults
                                ELSE gmail'[slot'[t].msg].copies = 0
      BY DEF CallCopies
    <3>1. CASE t = s
      BY <1>2, <2>1, <2>2, <3>1
    <3>2. CASE t # s
      <4>1. slot[t].pc \in {"reserve", "smtp", "markFailed"} =>
              slot[t].msg \in Messages /\ slot[t].msg # m
        BY <1>2, <2>4, <3>2 DEF Claims, ClaimedPcs
      <4>2. QED
        BY <1>1, <1>2, <2>1, <3>2, <4>1 DEF CallCopies
    <3>3. QED
      BY <3>1, <3>2
  <2>6. RowCopies'
    <3>1. row[m].status = "SENDING"
      BY <1>1, <1>2, <2>2 DEF SoleClaim
    <3>2. QED
      BY <1>1, <1>2, <1>5, <2>1, <2>2, <3>1 DEF RowCopies
  <2>7. QED
    BY <2>3, <2>5, <2>6 DEF CopyParts
<1>12. CASE MarkSent(s)
  BY <1>1, <1>6, <1>12, MarkSentEffect, SafeFaults
<1>13. CASE MarkFailed(s)
  <2>1. row'[m].status = "FAILED" /\ gmail[m].copies > 0 =>
          row[m].status = "FAILED" \/ ("db_error" \in Faults /\ Over(m)')
    <3> SUFFICES ASSUME row'[m].status = "FAILED", gmail[m].copies > 0,
                        row[m].status # "FAILED"
                 PROVE  "db_error" \in Faults /\ Over(m)'
      OBVIOUS
    <3>1. slot[s].code = AmbiguousCode /\ "db_error" \in Faults
      BY <1>1, <1>2, <1>13, MarkFailedEffect DEF CallCopies
    <3>2. slot[s].code \notin RetryableCodes
      BY <3>1 DEF AmbiguousCode, RetryableCodes
    <3>3. row' # row
      OBVIOUS
    <3>4. slot'[s].pc = "dead"
      BY <1>1, <1>13, <3>2, <3>3, MarkFailedEffect, SafeFaults
    <3>5. QED
      BY <1>2, <3>1, <3>4 DEF Over
  <2>2. QED
    BY <1>1, <1>6, <1>13, <2>1, MarkFailedEffect
<1>14. QED
  BY <1>7, <1>8, <1>9, <1>10, <1>11, <1>12, <1>13 DEF ProcessorStep

(* Taking, reporting and crashing neither send nor lose track of a copy.     *)
LEMMA QueueKeepsCopies ==
  ASSUME CopySafe, CopyInv, NEW s \in Slots, NEW m \in Messages,
         \/ Take(s, m)
         \/ (ReportStep(s) \/ WorkerCrash(s)) /\ slot[s].msg = m
  PROVE  CopyParts'
<1>1. /\ TypeInv
      /\ AtMostOneCopy /\ CallCopies /\ RowCopies /\ Owned
  BY DEF CopyInv, ClaimInv, OwnedInv
<1>2. /\ \A t \in Slots : t # s => slot'[t] = slot[t]
      /\ slot'[s].pc \in {"load", "idle"}
      /\ \A n \in Messages : n # m => job'[n] = job[n]
      /\ UNCHANGED <<row, gmail>>
  <2>1. CASE Take(s, m)
    BY <1>1, <2>1, TakeEffect, Blanks DEF Requeues
  <2>2. CASE ReportStep(s) /\ slot[s].msg = m
    BY <1>1, <2>2, ReportEffect, Blanks DEF Requeues
  <2>3. CASE WorkerCrash(s) /\ slot[s].msg = m
    BY <1>1, <2>3, WorkerCrashEffect, Blanks DEF Requeues
  <2>4. QED
    BY <2>1, <2>2, <2>3
<1>3. AtMostOneCopy' /\ CallCopies'
  BY <1>1, <1>2 DEF AtMostOneCopy, CallCopies
<1>4. CASE "db_error" \notin Faults
  BY <1>1, <1>2, <1>3, <1>4 DEF CopyParts, RowCopies
<1>5. CASE "db_error" \in Faults
  <2>1. \A t \in Slots : slot[t].pc # "idle" => /\ slot[t].msg \in Messages
                                               /\ job[slot[t].msg].state = "active"
                                               /\ job[slot[t].msg].lock = t
    BY <1>1, <1>5, SafeFaults, BusyMessage DEF Owned
  <2>2. CASE Take(s, m)
    <3>1. /\ job[m].state = "waiting" /\ job'[m].state = "active" /\ job'[m].lock = s
          /\ slot[s].pc = "idle" /\ slot'[s].pc = "load" /\ slot'[s].msg = m
      BY <1>1, <2>2, TakeEffect, Blanks
    <3>2. \A t \in Slots : slot[t].pc # "idle" => slot[t].msg # m
      BY <2>1, <3>1
    <3>4. ~Over(m) /\ \A n \in Messages : n # m /\ Over(n) => Over(n)'
      BY <1>2, <3>1, <3>2 DEF Over
    <3>5. RowCopies'
      BY <1>1, <1>2, <3>4 DEF RowCopies
    <3>6. QED
      BY <1>3, <3>5 DEF CopyParts
  <2>4. CASE ReportStep(s) /\ slot[s].msg = m
    <3>1. /\ slot[s].pc \in {"done", "retry", "dead"} /\ slot'[s].pc = "idle"
          /\ slot[s].pc = "dead" => job'[m].state = "failed"
      BY <1>1, <2>1, <2>4, ReportEffect, Blanks
    <3>2. \A t \in Slots : t # s /\ slot[t].pc # "idle" => slot[t].msg # m
      BY <2>1, <2>4, <3>1
    <3>4. \A n \in Messages : Over(n) => Over(n)'
      <4>1. job[m].state # "failed"
        BY <2>1, <2>4, <3>1
      <4>2. QED
        BY <1>2, <2>4, <3>1, <3>2, <4>1 DEF Over
    <3>5. RowCopies'
      BY <1>1, <1>2, <3>4 DEF RowCopies
    <3>6. QED
      BY <1>3, <3>5 DEF CopyParts
  <2>5. ~WorkerCrash(s)
    BY <1>1, <1>5, SafeFaults, WorkerCrashEffect DEF NoRedelivery
  <2>6. QED
    BY <2>2, <2>4, <2>5
<1>6. QED
  BY <1>4, <1>5

(* Lost locks and stalled redeliveries touch no row and no mailbox.          *)
LEMMA LockKeepsCopies ==
  ASSUME CopySafe, CopyInv, NEW m \in Messages, LoseLock(m) \/ Stall(m)
  PROVE  CopyParts'
<1>1. /\ TypeInv
      /\ AtMostOneCopy /\ CallCopies /\ RowCopies /\ Owned
  BY DEF CopyInv, ClaimInv, OwnedInv
<1>2. /\ \A n \in Messages : n # m => job'[n] = job[n]
      /\ UNCHANGED <<row, slot, gmail>>
  BY <1>1, LoseLockEffect, StallEffect DEF Requeues
<1>3. AtMostOneCopy' /\ CallCopies'
  BY <1>2, <1>1 DEF AtMostOneCopy, CallCopies
<1>4. CASE "db_error" \notin Faults
  BY <1>1, <1>2, <1>3, <1>4 DEF CopyParts, RowCopies
<1>5. CASE "db_error" \in Faults
  <2>1. job[m].state = "active" /\ job[m].lock = NoSlot
    BY <1>1, <1>5, SafeFaults, LoseLockEffect, StallEffect DEF NoRedelivery
  <2>2. \A t \in Slots : slot[t].pc # "idle" => slot[t].msg # m
    BY <1>1, <1>5, <2>1, SafeFaults, Zeros DEF Owned
  <2>4. ~Over(m) /\ \A n \in Messages : n # m /\ Over(n) => Over(n)'
    BY <1>2, <2>1, <2>2 DEF Over
  <2>5. RowCopies'
    BY <1>1, <1>2, <2>4 DEF RowCopies
  <2>6. QED
    BY <1>3, <2>5 DEF CopyParts
<1>6. QED
  BY <1>4, <1>5

(* Every step keeps the copy invariant.                                      *)
LEMMA CopyInvNext == CopySafe /\ CopyInv /\ [Next]_vars => CopyInv'
<1> SUFFICES ASSUME CopySafe, CopyInv, [Next]_vars PROVE CopyInv'
  OBVIOUS
<1>1. ClaimInv' /\ MailedInv' /\ OwnedInv' /\ TypeInv
  BY ClaimInvNext, MailedInvNext, OwnedInvNext, SafeFaults DEF CopyInv, ClaimInv
<1> SUFFICES CopyParts'
  BY <1>1 DEF CopyInv, CopyParts
<1>2. ASSUME NEW m \in Messages, ApiStep(m) \/ ApiCrash(m) PROVE CopyParts'
  BY <1>2, HandlerKeepsCopies
<1>3. ASSUME NEW s \in Slots, ProcessorStep(s) PROVE CopyParts'
  BY <1>3, ProcessorKeepsCopies
<1>4. ASSUME NEW s \in Slots, NEW m \in Messages, Take(s, m) PROVE CopyParts'
  BY <1>4, QueueKeepsCopies
<1>5. ASSUME NEW s \in Slots, ReportStep(s) \/ WorkerCrash(s) PROVE CopyParts'
  <2>1. slot[s].msg \in Messages
    BY <1>1, <1>5, ReportEffect, WorkerCrashEffect
  <2>2. QED
    BY <1>5, <2>1, QueueKeepsCopies
<1>6. ASSUME NEW m \in Messages, LoseLock(m) \/ Stall(m) PROVE CopyParts'
  BY <1>6, LockKeepsCopies
<1>7. ASSUME UNCHANGED <<row, job, slot, gmail>> PROVE CopyParts'
  BY <1>7 DEF CopyInv, CopyParts, AtMostOneCopy, CallCopies, RowCopies, Over
<1>8. ASSUME (\E a \in Senders : SetSenderActive(a)) \/ Midnight \/ UNCHANGED vars
      PROVE  CopyParts'
  BY <1>7, <1>8 DEF vars, SetSenderActive, Midnight
<1>9. QED
  BY <1>2, <1>3, <1>4, <1>5, <1>6, <1>8 DEF Next

(* The copy invariant holds throughout.                                      *)
LEMMA CopyInvAlways == ASSUME CopySafe PROVE Spec => []CopyInv
<1>1. CopyInv /\ [Next]_vars => CopyInv'
  BY CopyInvNext
<1>2. QED
  BY <1>1, CopyInvInit, PTL DEF Spec

(* Gmail takes a message at most once, over every attempt, redelivery and    *)
(* restart ("retrying could duplicate email", database-adapter.ts).          *)
THEOREM AtMostOneCopyAlways == ASSUME CopySafe PROVE Spec => []AtMostOneCopy
<1>1. CopyInv => AtMostOneCopy
  BY DEF CopyInv
<1>2. QED
  BY <1>1, CopyInvAlways, PTL

-----------------------------------------------------------------------------
(* The refinement.                                                           *)

Status == [m \in Messages |-> row[m].status]
Copies == [m \in Messages |-> gmail[m].copies]

(* A write of one row moves one status; a session adds one copy.             *)
LEMMA StatusMoves ==
  ASSUME NEW m \in Messages, NEW to, row'[m].status = to,
         \A n \in Messages : n # m => row'[n] = row[n]
  PROVE  Status' = [Status EXCEPT ![m] = to]
BY DEF Status

(* A session that Gmail accepts moves one counter of copies.                 *)
LEMMA CopiesMove ==
  ASSUME NEW m \in Messages, NEW k, gmail'[m].copies = k,
         \A n \in Messages : n # m => gmail'[n] = gmail[n]
  PROVE  Copies' = [Copies EXCEPT ![m] = k]
BY DEF Copies

(* Steps that leave rows and mailbox alone are stutters of the lifecycle.    *)
LEMMA NothingMoves ==
  ASSUME UNCHANGED <<row, gmail>>
  PROVE  UNCHANGED <<Status, Copies>>
BY DEF Status, Copies

(* The pipeline starts where the lifecycle starts.                           *)
LEMMA LifecycleInit == Init => Lifecycle!Init
<1> SUFFICES ASSUME Init PROVE Lifecycle!Init
  OBVIOUS
<1>1. \A m \in Messages : row[m].status = "ABSENT" /\ gmail[m].copies = 0
  BY DEF Init
<1>2. QED
  BY <1>1 DEF Lifecycle!Init

LifecycleStep == Lifecycle!Next \/ UNCHANGED <<Status, Copies>>

(* Every step of the pipeline is a step of the message's life, or none.      *)
LEMMA LifecycleNext ==
  ASSUME CopySafe, CopyInv, [Next]_vars
  PROVE  LifecycleStep
<1>1. TypeInv /\ Origins /\ SoleClaim /\ CopyInv
  BY DEF CopyInv, ClaimInv
<1>2. ASSUME NEW m \in Messages, ApiStep(m) PROVE LifecycleStep
  <2>1. CASE CreateDelivery(m)
    <3>1. /\ row[m].status = "ABSENT" /\ UNCHANGED gmail
          /\ \A n \in Messages : n # m => row'[n] = row[n]
          /\ row'[m].status = "QUEUED" \/ row'[m] = row[m]
      BY <1>1, <2>1, CreateDeliveryEffect DEF Origins
    <3>2. CASE row'[m].status = "QUEUED"
      <4>1. Status' = [Status EXCEPT ![m] = "QUEUED"] /\ UNCHANGED Copies
        BY <3>1, <3>2, StatusMoves DEF Copies
      <4>2. Lifecycle!Create(m)
        BY <3>1, <4>1 DEF Lifecycle!Create, Lifecycle!Move, Status, Copies
      <4>3. QED
        BY <4>2 DEF Lifecycle!Next, LifecycleStep
    <3>3. CASE row'[m] = row[m]
      BY <3>1, <3>3 DEF LifecycleStep, Status, Copies
    <3>4. QED
      BY <3>1, <3>2, <3>3
  <2>2. CASE Enqueue(m)
    BY <1>1, <2>2, EnqueueEffect, NothingMoves DEF LifecycleStep
  <2>3. CASE MarkUnavailable(m)
    <3>1. /\ row[m].status = "QUEUED" /\ UNCHANGED gmail
          /\ \A n \in Messages : n # m => row'[n] = row[n]
          /\ row'[m].status = "FAILED" \/ UNCHANGED row
      BY <1>1, <2>3, MarkUnavailableEffect DEF Origins, Writes
    <3>2. CASE row'[m].status = "FAILED"
      <4>1. Status' = [Status EXCEPT ![m] = "FAILED"] /\ UNCHANGED Copies
        BY <3>1, <3>2, StatusMoves DEF Copies
      <4>2. Lifecycle!Refuse(m)
        BY <3>1, <4>1 DEF Lifecycle!Refuse, Lifecycle!Move, Status, Copies
      <4>3. QED
        BY <4>2 DEF Lifecycle!Next, LifecycleStep
    <3>3. CASE UNCHANGED row
      BY <3>1, <3>3, NothingMoves DEF LifecycleStep
    <3>4. QED
      BY <3>1, <3>2, <3>3
  <2>4. QED
    BY <1>2, <2>1, <2>2, <2>3 DEF ApiStep
<1>3. ASSUME NEW s \in Slots, ProcessorStep(s) PROVE LifecycleStep
  <2>1. PICK m \in Messages : /\ m = slot[s].msg
                             /\ \A n \in Messages : n # m => row'[n] = row[n]
    BY <1>1, <1>3, ProcessorEffect DEF Writes
  <2>2. CASE UNCHANGED <<row, gmail>>
    BY <2>2, NothingMoves DEF LifecycleStep
  <2>3. CASE StartDelivery(s)
    <3>1. UNCHANGED gmail
      BY <1>1, <2>1, <2>3, StartDeliveryEffect
    <3>2. CASE row[m].status \in {"QUEUED", "FAILED"} /\ row'[m].status = "SENDING"
      <4>1. Status' = [Status EXCEPT ![m] = "SENDING"] /\ UNCHANGED Copies
        BY <2>1, <3>1, <3>2, StatusMoves DEF Copies
      <4>2. gmail[m].copies = 0
        BY <1>1, <2>1, <2>3, <3>2, StartDeliveryEffect, ClaimableIsUnmailed
      <4>3. Lifecycle!Start(m)
        BY <2>1, <3>2, <4>1, <4>2 DEF Lifecycle!Start, Lifecycle!Move, Status, Copies
      <4>4. QED
        BY <2>1, <4>3 DEF Lifecycle!Next, LifecycleStep
    <3>3. UNCHANGED row \/ (row[m].status \in {"QUEUED", "FAILED"} /\ row'[m].status = "SENDING")
      BY <1>1, <2>1, <2>3, StartDeliveryEffect
    <3>4. QED
      BY <2>2, <3>1, <3>2, <3>3
  <2>4. CASE SmtpSend(s)
    <3>1. row' = row /\ Claims(s, m) /\ gmail[m].copies = 0
      BY <1>1, <2>1, <2>4, SmtpSendEffect DEF Claims, ClaimedPcs, CopyInv, CallCopies
    <3>2. /\ \A n \in Messages : n # m => gmail'[n] = gmail[n]
          /\ gmail'[m].copies = gmail[m].copies + 1 \/ gmail' = gmail
      BY <1>1, <2>1, <2>4, SessionCopies
    <3>3. gmail'[m].copies = 1 \/ gmail' = gmail
      BY <3>1, <3>2
    <3>4. CASE gmail'[m].copies = 1
      <4>1. Copies' = [Copies EXCEPT ![m] = 1] /\ UNCHANGED Status
        BY <2>1, <3>1, <3>2, <3>4, CopiesMove DEF Status
      <4>2. row[m].status = "SENDING"
        BY <1>1, <2>1, <3>1 DEF SoleClaim
      <4>3. Lifecycle!Deliver(m)
        BY <2>1, <3>1, <4>1, <4>2 DEF Lifecycle!Deliver, Status, Copies
      <4>4. QED
        BY <2>1, <4>3 DEF Lifecycle!Next, LifecycleStep
    <3>5. QED
      BY <2>2, <3>1, <3>3, <3>4
  <2>5. CASE MarkSent(s)
    <3>1. UNCHANGED gmail /\ Claims(s, m) /\ slot[s].pc = "markSent"
          /\ (row'[m].status = "SENT" \/ UNCHANGED row)
      BY <1>1, <2>1, <2>5, MarkSentEffect DEF Claims, ClaimedPcs
    <3>2. CASE row'[m].status = "SENT"
      <4>1. Status' = [Status EXCEPT ![m] = "SENT"] /\ UNCHANGED Copies
        BY <2>1, <3>1, <3>2, StatusMoves DEF Copies
      <4>2. row[m].status = "SENDING"
        BY <1>1, <2>1, <3>1 DEF SoleClaim
      <4>3. gmail[m].copies = 1
        <5>1. gmail[m].copies \in Nat /\ gmail[m].copies > 0 /\ gmail[m].copies <= 1
          BY <1>1, <2>1, <3>1 DEF CopyInv, MailedInv, AtMostOneCopy, TypeInv, TypeOK
        <5>2. QED
          BY <5>1
      <4>4. Lifecycle!Confirm(m)
        BY <2>1, <4>1, <4>2, <4>3 DEF Lifecycle!Confirm, Lifecycle!Move, Status, Copies
      <4>5. QED
        BY <2>1, <4>4 DEF Lifecycle!Next, LifecycleStep
    <3>3. QED
      BY <2>2, <3>1, <3>2
  <2>6. CASE MarkFailed(s)
    <3>1. UNCHANGED gmail /\ Claims(s, m) /\ (row'[m].status = "FAILED" \/ UNCHANGED row)
      BY <1>1, <2>1, <2>6, MarkFailedEffect DEF Claims, ClaimedPcs
    <3>2. CASE row'[m].status = "FAILED"
      <4>1. Status' = [Status EXCEPT ![m] = "FAILED"] /\ UNCHANGED Copies
        BY <2>1, <3>1, <3>2, StatusMoves DEF Copies
      <4>2. row[m].status = "SENDING"
        BY <1>1, <2>1, <3>1 DEF SoleClaim
      <4>3. Lifecycle!GiveUp(m)
        BY <2>1, <4>1, <4>2 DEF Lifecycle!GiveUp, Lifecycle!Move, Status, Copies
      <4>4. QED
        BY <2>1, <4>3 DEF Lifecycle!Next, LifecycleStep
    <3>3. QED
      BY <2>2, <3>1, <3>2
  <2>7. QED
    BY <1>1, <1>3, <2>2, <2>3, <2>4, <2>5, <2>6, LoadEffect, ReserveQuotaEffect,
       DecryptFailsEffect DEF ProcessorStep
<1>4. ASSUME UNCHANGED <<row, gmail>> PROVE LifecycleStep
  BY <1>4, NothingMoves DEF LifecycleStep
<1>5. QED
  BY <1>2, <1>3, <1>4
     DEF Next, vars, ApiCrash, LoseLock, Stall, ReportStep, Complete, FailForGood, Retry, Report,
         WorkerCrash, Take, SetSenderActive, Midnight

(* The pipeline implements the client's view of a message: the status moves  *)
(* along its graph, mail leaves only while it says SENDING, and a message    *)
(* that Gmail took is never started again.                                   *)
THEOREM PipelineImplementsLifecycle == ASSUME CopySafe PROVE Spec => ImplementsLifecycle
<1>1. CopyInv /\ [Next]_vars => [Lifecycle!Next]_(Lifecycle!lifecycle)
  BY LifecycleNext DEF LifecycleStep, Status, Copies, Lifecycle!lifecycle
<1>2. QED
  BY <1>1, LifecycleInit, CopyInvAlways, PTL DEF Spec, ImplementsLifecycle, Lifecycle!Spec

-----------------------------------------------------------------------------
(* The pipeline's reservation as the daily quota sees it.                    *)

(* Both count with the same ledger.                                          *)
LEMMA SameLedger ==
  /\ \A r, a, d : Quota!Usage(r, a, d) = Usage(r, a, d)
  /\ \A m : Quota!RecipientCount(m) = RecipientCount(m)
  /\ Quota!NoDay = NoDay
BY DEF Quota!Usage, Usage, Quota!Units, Units, Quota!RecipientCount, RecipientCount,
       Quota!Cardinality, Cardinality, Quota!NoDay, NoDay

(* A processor's reservation charges its message to today, once.             *)
LEMMA ReserveCharges ==
  ASSUME TypeInv, NEW s \in Slots, ReserveQuota(s)
  PROVE  [Quota!Next]_(Quota!quota)
<1>1. PICK m \in Messages : m = slot[s].msg
  BY ReserveQuotaEffect, BusyMessage
<1>2. UNCHANGED today /\ today \in 1..today
  BY ReserveQuotaEffect DEF TypeInv, TypeOK
<1>3. CASE UNCHANGED reserved
  BY <1>2, <1>3 DEF Quota!quota
<1>4. CASE /\ reserved[m] = NoDay /\ FitsQuota(m)
           /\ reserved' = [reserved EXCEPT ![m] = today]
  <2>1. Quota!Charge(m, today)
    BY <1>2, <1>4, SameLedger DEF Quota!Charge, FitsQuota
  <2>2. QED
    BY <1>1, <1>2, <2>1 DEF Quota!Next
<1>5. QED
  BY <1>1, <1>3, <1>4, ReserveQuotaEffect

(* Every step of the pipeline charges as the daily quota does, ends the day, *)
(* or changes nothing that the quota sees.                                   *)
LEMMA PipelineCharges == TypeInv /\ [Next]_vars => [Quota!Next]_(Quota!quota)
<1> SUFFICES ASSUME TypeInv, [Next]_vars PROVE [Quota!Next]_(Quota!quota)
  OBVIOUS
<1>1. ASSUME UNCHANGED <<reserved, today>> PROVE [Quota!Next]_(Quota!quota)
  BY <1>1 DEF Quota!quota
<1>2. ASSUME NEW s \in Slots, ProcessorStep(s) PROVE [Quota!Next]_(Quota!quota)
  BY <1>1, <1>2, ReserveCharges, LoadEffect, StartDeliveryEffect, DecryptFailsEffect,
     SmtpSendEffect, MarkSentEffect, MarkFailedEffect DEF ProcessorStep
<1>3. ASSUME NEW s \in Slots, ReportStep(s) \/ WorkerCrash(s) PROVE [Quota!Next]_(Quota!quota)
  BY <1>1, <1>3, ReportEffect, WorkerCrashEffect
<1>4. ASSUME NEW s \in Slots, NEW m \in Messages, Take(s, m) PROVE [Quota!Next]_(Quota!quota)
  BY <1>1, <1>4, TakeEffect
<1>5. CASE Midnight
  BY <1>5 DEF Midnight, Quota!Midnight, Quota!Next
<1>6. QED
  BY <1>1, <1>2, <1>3, <1>4, <1>5
     DEF Next, vars, ApiStep, CreateDelivery, Enqueue, MarkUnavailable, ApiCrash, LoseLock,
         Stall, SetSenderActive

(* The pipeline, whatever fails, charges each message's recipients at most   *)
(* once, to one day, at a moment at which they fit in.  QuotaTransaction     *)
(* implements the same specification statement by statement, so a            *)
(* reservation may be taken for one step here.                               *)
THEOREM PipelineImplementsDailyQuota == Spec => ImplementsDailyQuota
<1>1. Init => Quota!Init
  BY PipelineAssumption, SameLedger DEF Init, Quota!Init
<1>2. Spec => []TypeInv
  BY InitTypeInv, NextTypeInv, PTL DEF Spec
<1>3. QED
  BY <1>1, <1>2, PipelineCharges, PTL DEF Spec, ImplementsDailyQuota, Quota!Spec
=============================================================================
