-------------------------- MODULE DeliveryProperties --------------------------
(***************************************************************************)
(* What the delivery pipeline must keep, under the faults named in each    *)
(* comment, and what the documentation says of it where the code differs.  *)
(***************************************************************************)
EXTENDS DeliveryPipeline

-----------------------------------------------------------------------------
(* Fault sets.                                                               *)

(* What a rejected queue.add and a thrown database call say is true: nothing *)
(* was added, nothing was written.                                           *)
ErrorsExact == Faults \cap {"queue_ambiguous", "db_ack_lost"} = {}

(* The faults under which the pipeline may promise at most one copy.  A      *)
(* database that fails to record Gmail's acceptance is tolerable only while  *)
(* no job is delivered twice.                                                *)
CopySafe ==
  /\ ErrorsExact
  /\ "smtp_ambiguous" \notin Faults
  /\ "db_error" \in Faults => Faults \cap {"crash", "lock_lost"} = {}

-----------------------------------------------------------------------------
(* The shapes of a request's handler, the Delivery row, the BullMQ job and a *)
(* processor call.                                                           *)
RequestPcs == {"idle", "enqueue", "markFailed", "accepted", "rejected", "unavailable",
               "error", "crashed"}
SubjectOrNone == AllSubjects \cup {""}
Requests == [pc : RequestPcs, subject : SubjectOrNone]
Rows == [status : Statuses, code : Codes, subject : SubjectOrNone]
JobStates == {"absent", "waiting", "active", "completed", "failed"}
Jobs == [state : JobStates, attempts : 0..MaxAttempts, stalls : 0..(MaxStalls + 1),
         lock : Slots \cup {NoSlot}, subject : SubjectOrNone]
Calls == [pc : SlotPcs, msg : Messages \cup {NoMessage}, senderActive : BOOLEAN,
          code : FailureCodes \cup {"none"}]

(* The types of all variables.                                               *)
TypeOK ==
  /\ api \in [Messages -> Requests]
  /\ row \in [Messages -> Rows]
  /\ job \in [Messages -> Jobs]
  /\ slot \in [Slots -> Calls]
  /\ active \in [Senders -> BOOLEAN]
  /\ reserved \in [Messages -> 0..MaxDay]
  /\ today \in 1..MaxDay
  /\ gmail \in [Messages -> [copies : Nat, day : 0..MaxDay]]

-----------------------------------------------------------------------------
(* Safety.                                                                   *)

Claims(s, m) == slot[s].msg = m /\ slot[s].pc \in ClaimedPcs

(* startDelivery hands a row to one processor call at a time, and the row    *)
(* says SENDING for as long as that call may still send or record: however   *)
(* often BullMQ delivers the job, and whichever worker dies or loses its     *)
(* lock.  Needs ErrorsExact: a markSent that throws although it committed    *)
(* leaves its call at work on a SENT row.                                    *)
SoleClaim ==
  \A m \in Messages, s \in Slots :
    Claims(s, m) => /\ row[m].status = "SENDING"
                    /\ \A t \in Slots : Claims(t, m) => t = s

(* Gmail takes a message at most once, over all attempts, redeliveries and   *)
(* restarts ("retrying could duplicate email", database-adapter.ts).  Needs  *)
(* CopySafe.                                                                 *)
AtMostOneCopy == \A m \in Messages : gmail[m].copies <= 1

(* A row says SENT, and BullMQ calls a job completed, only for a message     *)
(* that Gmail really took.  Under every fault.                               *)
SentMeansMailed ==
  \A m \in Messages :
    row[m].status = "SENT" \/ job[m].state = "completed" => gmail[m].copies > 0

(* A client that was answered 503 "Delivery queue unavailable", or an error  *)
(* before the job was added, has sent nothing and never will: it may retry.  *)
(* Needs ErrorsExact.                                                        *)
RefusedNeverMailed ==
  \A m \in Messages :
    api[m].pc \in {"rejected", "markFailed", "unavailable", "error", "crashed"}
      => gmail[m].copies = 0

(* No recipient is mailed outside the quota: every copy is covered by a      *)
(* reservation that the same message took before its session, and the        *)
(* reservations of a sender on one UTC day stay within its limit, for every  *)
(* interleaving of the processors that reserve.  Under every fault.          *)
QuotaCoversMail ==
  /\ \A m \in Messages : gmail[m].copies > 0 => reserved[m] # NoDay
  /\ \A a \in Senders, d \in 1..MaxDay : Usage(reserved, a, d) <= DailyLimit[a]

(* Faults multiply copies, but not without bound: one per attempt and one    *)
(* per stalled redelivery.  Under every fault.                               *)
BoundedCopies == \A m \in Messages : gmail[m].copies <= MaxAttempts + MaxStalls

-----------------------------------------------------------------------------
(* What a step may never do.                                                 *)

(* SENT is final: no late answer, redelivery or second writer takes a        *)
(* delivered message back.  Needs ErrorsExact.                               *)
SentIsFinal ==
  [][\A m \in Messages : row[m].status = "SENT" => row'[m] = row[m]]_vars

(* A failure recorded as not retryable is never claimed again.  Holds only   *)
(* while no job is delivered twice: startDelivery does not look at the flag. *)
PermanentIsTerminal ==
  [][\A m \in Messages :
       row[m].status = "FAILED" /\ row[m].code \notin RetryableCodes
         => row'[m] = row[m]]_vars

(* The pipeline implements the client's view of a message.  Needs CopySafe.  *)
Lifecycle == INSTANCE MessageLifecycle
               WITH status <- [m \in Messages |-> row[m].status],
                    copies <- [m \in Messages |-> gmail[m].copies]
ImplementsLifecycle == Lifecycle!Spec

(* The pipeline charges the daily limit as DailyQuota says, under all faults;*)
(* so does the transaction that it takes for one step (QuotaTransaction).    *)
Quota == INSTANCE DailyQuota WITH ceiling <- DailyLimit
ImplementsDailyQuota == Quota!Spec

-----------------------------------------------------------------------------
(* Liveness, under Fairness.                                                 *)

(* Every job that is queued is at some point over, whatever happens to the   *)
(* workers that ran it: attempts and stalled redeliveries are bounded and    *)
(* nobody waits for a row that stays SENDING.  Under every fault.            *)
JobsEnd ==
  \A m \in Messages :
    job[m].state = "waiting" ~> job[m].state \in {"completed", "failed"}

(* While no process dies and the database answers, every row the API created *)
(* settles: after its last attempt it stays SENT or FAILED for good, even if *)
(* locks expire and two workers meet at the row; none stays QUEUED or        *)
(* SENDING.  Needs no crash, db_error or db_ack_lost.                        *)
Settles ==
  \A m \in Messages :
    row[m].status = "QUEUED" ~> [](row[m].status \in {"SENT", "FAILED"})

-----------------------------------------------------------------------------
(* What the documents say and the code does not do.                          *)

(* docs/operations/cutover.md:94 "Ambiguous SMTP outcomes are terminal and   *)
(* are not retried automatically to avoid duplicates": no attempt starts for *)
(* a message that Gmail already took.                                        *)
AmbiguousOutcomesAreTerminal ==
  [][\A m \in Messages :
       gmail[m].copies > 0 /\ row[m].status # "SENDING" => row'[m].status # "SENDING"]_vars

(* web/public/docs, native API: subject is any string of 1-998 characters,   *)
(* and a 202 means the job was queued: the worker does not refuse a message  *)
(* as a mismatch with its own row when it loaded the sender as active.       *)
AcceptedMatchesItsRow ==
  \A s \in Slots : slot[s].code = "delivery_mismatch" => ~slot[s].senderActive
=============================================================================
