--------------------------- MODULE DeliveryPipeline ---------------------------
(***************************************************************************)
(* One send request from the HTTP handler to Gmail: the API creates a      *)
(* Delivery row and enqueues a BullMQ job, a worker slot takes the job,    *)
(* claims the row, reserves quota, speaks SMTP and records the outcome.    *)
(*                                                                         *)
(* Every database statement, queue command and SMTP session the code       *)
(* awaits is one action; between two of them every other process may run.  *)
(* Faults names the faults a run allows:                                   *)
(*   crash           a worker or API process dies                          *)
(*   lock_lost       BullMQ's job lock expires while the worker still runs *)
(*   db_error        a database call throws and changed nothing            *)
(*   db_ack_lost     a database call throws although it committed          *)
(*   queue_error     queue.add rejects and added nothing                   *)
(*   queue_ambiguous queue.add rejects although the job was added          *)
(*   smtp_error      the SMTP session fails before Gmail takes the message *)
(*   smtp_ambiguous  it fails after Gmail took the message                 *)
(*   bad_credential  the stored App Password does not decrypt, or the MIME *)
(*                   builder refuses a header                              *)
(***************************************************************************)
EXTENDS QuotaLedger

CONSTANTS Slots,        \* worker slots: WORKER_CONCURRENCY over all worker processes
          NoSlot, NoMessage,
          Subjects,     \* the subjects a client may send: subset of AllSubjects
          DailyLimit,   \* DailyLimit[a]: Sender.dailyLimit
          MaxAttempts,  \* job option attempts (5 in the code)
          MaxStalls,    \* BullMQ's maxStalledCount (1 by default)
          MaxDay,       \* bound: the last UTC day of a behaviour
          Faults

FaultKinds == {"crash", "lock_lost", "db_error", "db_ack_lost", "queue_error",
               "queue_ambiguous", "smtp_error", "smtp_ambiguous", "bad_credential"}

(* "padded" stands for a subject with leading or trailing blanks around      *)
(* "plain", "blank" for one made of blanks only; "" is the empty string.     *)
AllSubjects == {"plain", "padded", "blank"}

Trimmed(subject) == IF subject = "blank" THEN "" ELSE "plain"

ASSUME PipelineAssumption ==
  /\ NoSlot \notin Slots
  /\ NoMessage \notin Messages
  /\ Subjects \subseteq AllSubjects
  /\ DailyLimit \in [Senders -> Nat]
  /\ MaxAttempts \in Nat \ {0}
  /\ MaxStalls \in Nat
  /\ MaxDay \in Nat \ {0}
  /\ Faults \subseteq FaultKinds

VARIABLES api,       \* api[m]: where the handler of the request for m is
          row,       \* row[m]: the Delivery row in PostgreSQL
          job,       \* job[m]: the BullMQ job in Redis, jobId = m
          slot,      \* slot[s]: the processor call that slot s is running
          active,    \* active[a]: Sender.active
          reserved,  \* reserved[m]: quotaDate of m's QuotaReservation, or NoDay
          today,     \* the current UTC day
          gmail      \* gmail[m]: copies of m that Gmail accepted, and the day of the last

vars == <<api, row, job, slot, active, reserved, today, gmail>>

-----------------------------------------------------------------------------
(* Values.                                                                   *)

Statuses == {"ABSENT", "QUEUED", "SENDING", "SENT", "FAILED"}
AmbiguousCode == "smtp_accepted_status_unknown"

(* Wrong variant: the catch block forgets that Gmail accepted the message.   *)
AmbiguousIsRetryable == {"temporary_failure", "smtp_transient", AmbiguousCode}
(* The codes that markFailed records with retryable: true.                   *)
RetryableCodes == {"temporary_failure", "smtp_transient"}

FailureCodes == RetryableCodes \cup
  {AmbiguousCode, "delivery_mismatch", "invalid_sender", "quota_exceeded",
   "credential_invalid", "invalid_job", "smtp_rejected"}
Codes == FailureCodes \cup {"none", "sent", "queue_unavailable"}

(* A session's effect on the mailbox and how smtp.send ends: it returns, or  *)
(* throws SmtpResponseError 4xx or 5xx, or another error.                    *)
SmtpOutcomes ==
  {o \in [accepted : BOOLEAN, ends : {"ok", "transient", "rejected", "error"}] :
     o.ends = "ok" => o.accepted}

(* failure(): the code that the processor derives from a thrown SMTP error.  *)
SmtpCode(ends) == [transient |-> "smtp_transient", rejected |-> "smtp_rejected",
                   error |-> "temporary_failure"][ends]

Idle == [pc |-> "idle", msg |-> NoMessage, senderActive |-> FALSE, code |-> "none"]
SlotPcs == {"idle", "load", "claim", "reserve", "smtp", "markSent", "markFailed",
            "done", "retry", "dead"}
(* Slots between a successful startDelivery and the end of the try/catch.    *)
ClaimedPcs == {"reserve", "smtp", "markSent", "markFailed"}

Goto(s, pc) == slot' = [slot EXCEPT ![s].pc = pc]

(* Wrong variant: the catch block rethrows without recording the failure.    *)
ThrowUnrecorded(s, code) == slot' = [slot EXCEPT ![s].pc = "dead", ![s].code = code]
(* An error inside the processor's try: the catch block calls markFailed.    *)
Fail(s, code) == slot' = [slot EXCEPT ![s].pc = "markFailed", ![s].code = code]

(* A database write: it returns, or throws without or with its effect.       *)
DbWrite(effect, noEffect, returned, threw) ==
  \/ effect /\ returned
  \/ "db_error" \in Faults /\ noEffect /\ threw
  \/ "db_ack_lost" \in Faults /\ effect /\ threw

NoJob == [state |-> "absent", attempts |-> 0, stalls |-> 0, lock |-> NoSlot,
          subject |-> ""]

-----------------------------------------------------------------------------
(* The API process: createAndEnqueue for an authenticated request.           *)

RequestAt(m, pc) == api' = [api EXCEPT ![m].pc = pc]

(* store.create: inside one transaction, the row is inserted QUEUED if the   *)
(* sender is active and the trimmed subject is not empty; otherwise it throws.*)
CreateDelivery(m) ==
  /\ api[m].pc = "idle"
  /\ \E subject \in Subjects :
       \/ /\ Trimmed(subject) # "" /\ active[SenderOf[m]]
          /\ DbWrite(row' = [row EXCEPT ![m] = [status |-> "QUEUED", code |-> "none",
                                                subject |-> Trimmed(subject)]],
                     row' = row,
                     api' = [api EXCEPT ![m] = [pc |-> "enqueue", subject |-> subject]],
                     RequestAt(m, "rejected"))
       \/ /\ Trimmed(subject) = "" \/ ~active[SenderOf[m]]
          /\ RequestAt(m, "rejected")
          /\ UNCHANGED row
  /\ UNCHANGED <<job, slot, active, reserved, today, gmail>>

(* queue.add: the job carries the request's own subject, not the row's.      *)
AddJob(m) == job' = [job EXCEPT ![m] = [NoJob EXCEPT !.state = "waiting",
                                                     !.subject = api[m].subject]]

(* Wrong variant: an error after the add, from the same try block, is        *)
(* reported as an unavailable queue.                                         *)
EnqueueThenThrow(m) ==
  /\ api[m].pc = "enqueue"
  /\ AddJob(m)
  /\ RequestAt(m, "accepted") \/ RequestAt(m, "markFailed")
  /\ UNCHANGED <<row, slot, active, reserved, today, gmail>>

(* createAndEnqueue's try block around enqueueEmail.                         *)
Enqueue(m) ==
  /\ api[m].pc = "enqueue"
  /\ \/ AddJob(m) /\ RequestAt(m, "accepted")
     \/ "queue_error" \in Faults /\ job' = job /\ RequestAt(m, "markFailed")
     \/ "queue_ambiguous" \in Faults /\ AddJob(m) /\ RequestAt(m, "markFailed")
  /\ UNCHANGED <<row, slot, active, reserved, today, gmail>>

(* store.markFailed(messageId, "Queue unavailable"): the two reads before    *)
(* the update look only for the row's existence, and the update has no guard *)
(* on the status.                                                            *)
MarkUnavailable(m) ==
  /\ api[m].pc = "markFailed"
  /\ DbWrite(row' = [row EXCEPT ![m].status = "FAILED", ![m].code = "queue_unavailable"],
             row' = row,
             RequestAt(m, "unavailable"),
             RequestAt(m, "error"))
  /\ UNCHANGED <<job, slot, active, reserved, today, gmail>>

(* The API process dies between two awaits of the handler.                   *)
ApiCrash(m) ==
  /\ "crash" \in Faults
  /\ api[m].pc \in {"enqueue", "markFailed"}
  /\ RequestAt(m, "crashed")
  /\ UNCHANGED <<row, job, slot, active, reserved, today, gmail>>

-----------------------------------------------------------------------------
(* BullMQ (external): which slot runs a job, and what its return does to it. *)

Take(s, m) ==
  /\ slot[s] = Idle
  /\ job[m].state = "waiting"
  /\ job' = [job EXCEPT ![m].state = "active", ![m].lock = s]
  /\ slot' = [slot EXCEPT ![s] = [Idle EXCEPT !.pc = "load", !.msg = m]]
  /\ UNCHANGED <<api, row, active, reserved, today, gmail>>

(* The processor's promise settled: BullMQ moves the job if the slot still   *)
(* owns its lock, and ignores the result otherwise.                          *)
Report(s, pc, result) ==
  LET m == slot[s].msg
  IN /\ slot[s].pc = pc
     /\ slot' = [slot EXCEPT ![s] = Idle]
     /\ job' = IF job[m].lock = s
                 THEN [job EXCEPT ![m] = [result EXCEPT !.lock = NoSlot]]
                 ELSE job
     /\ UNCHANGED <<api, row, active, reserved, today, gmail>>

Complete(s) == Report(s, "done", [job[slot[s].msg] EXCEPT !.state = "completed"])

(* Wrong variants: one attempt too many; attempts that are not counted.      *)
OneAttemptMore(j) ==
  [j EXCEPT !.attempts = @ + 1,
            !.state = IF j.attempts < MaxAttempts THEN "waiting" ELSE "failed"]
AttemptNotCounted(j) == [j EXCEPT !.state = "waiting"]

(* An error that is not permanent: another attempt after the backoff, while  *)
(* attempts last.                                                            *)
AfterRetry(j) ==
  [j EXCEPT !.attempts = @ + 1,
            !.state = IF j.attempts + 1 < MaxAttempts THEN "waiting" ELSE "failed"]
Retry(s) == Report(s, "retry", AfterRetry(job[slot[s].msg]))

(* Wrong variant: PermanentDeliveryError is rethrown as it is.               *)
RetryPermanent(s) == Report(s, "dead", AfterRetry(job[slot[s].msg]))
(* PermanentDeliveryError becomes UnrecoverableError: no further attempt.    *)
FailForGood(s) == Report(s, "dead", [job[slot[s].msg] EXCEPT !.state = "failed"])

(* The worker process dies; nothing renews the lock of its job any more.     *)
WorkerCrash(s) ==
  /\ "crash" \in Faults
  /\ slot[s] # Idle
  /\ slot' = [slot EXCEPT ![s] = Idle]
  /\ LET m == slot[s].msg
     IN job' = [job EXCEPT ![m].lock = IF @ = s THEN NoSlot ELSE @]
  /\ UNCHANGED <<api, row, active, reserved, today, gmail>>

(* The lock expires while the slot goes on, e.g. cut off from Redis.         *)
LoseLock(m) ==
  /\ "lock_lost" \in Faults
  /\ job[m].lock # NoSlot
  /\ job' = [job EXCEPT ![m].lock = NoSlot]
  /\ UNCHANGED <<api, row, slot, active, reserved, today, gmail>>

(* Wrong variant: stalled redeliveries are not counted.                      *)
StallNotCounted(j) == [j EXCEPT !.state = "waiting"]
(* A stalled job is delivered again, or failed when it stalled too often.    *)
AfterStall(j) ==
  [j EXCEPT !.stalls = @ + 1,
            !.state = IF j.stalls < MaxStalls THEN "waiting" ELSE "failed"]

(* The stalled-job check finds an active job without a lock.                 *)
Stall(m) ==
  /\ job[m].state = "active" /\ job[m].lock = NoSlot
  /\ job' = [job EXCEPT ![m] = AfterStall(@)]
  /\ UNCHANGED <<api, row, slot, active, reserved, today, gmail>>

-----------------------------------------------------------------------------
(* The worker: createEmailProcessor over PrismaWorkerStore.                  *)

(* load: the row's status ends the call when it is SENT; the sender is a     *)
(* snapshot that the checks after the claim use.  A failed read is thrown.   *)
Load(s) ==
  LET m == slot[s].msg
  IN /\ slot[s].pc = "load"
     /\ \/ row[m].status = "SENT" /\ Goto(s, "done")
        \/ /\ row[m].status # "SENT"
           /\ slot' = [slot EXCEPT ![s].pc = "claim",
                                   ![s].senderActive = active[SenderOf[m]]]
        \/ "db_error" \in Faults /\ Goto(s, "retry")
     /\ UNCHANGED <<api, row, job, active, reserved, today, gmail>>

(* Wrong variants: a redelivered job takes over an interrupted SENDING row;  *)
(* the guard leaves out the status; a busy row counts as delivered.          *)
ClaimInterrupted == {"QUEUED", "FAILED", "SENDING"}
ClaimAnything == {"QUEUED", "FAILED", "SENT"}
TreatBusyAsSent(status) == "done"

(* startDelivery's conditional update: QUEUED or FAILED, whatever retryable  *)
(* flag the failure recorded.  "Never reclaim SENDING automatically".        *)
Claimable == {"QUEUED", "FAILED"}
(* What the call does with a row it could not claim.                         *)
Unclaimed(status) == IF status = "SENT" THEN "done" ELSE "retry"

StartDelivery(s) ==
  LET m == slot[s].msg
  IN /\ slot[s].pc = "claim"
     /\ \/ /\ row[m].status \in Claimable
           /\ DbWrite(row' = [row EXCEPT ![m].status = "SENDING", ![m].code = "none"],
                      row' = row,
                      Goto(s, "reserve"),
                      Goto(s, "retry"))
        \/ /\ row[m].status \notin Claimable
           /\ \/ Goto(s, Unclaimed(row[m].status))
              \/ "db_error" \in Faults /\ Goto(s, "retry")
           /\ UNCHANGED row
     /\ UNCHANGED <<api, job, active, reserved, today, gmail>>

(* Wrong variant: the limit is compared before the new recipients are added. *)
FitsBeforeAdding(m) == Usage(reserved, SenderOf[m], today) < DailyLimit[SenderOf[m]]
(* reserveQuota's comparison with the sender's daily limit.                  *)
FitsQuota(m) ==
  Usage(reserved, SenderOf[m], today) + RecipientCount(m) <= DailyLimit[SenderOf[m]]

(* The checks on the loaded snapshot, where delivery_mismatch stands for all *)
(* that the block refuses for good, then reserveQuota as one transaction     *)
(* (module QuotaTransaction opens it up): a reservation that exists is kept  *)
(* with its date, a new one needs an active sender and room.                 *)
ReserveQuota(s) ==
  LET m == slot[s].msg
      matches == slot[s].senderActive /\ job[m].subject = row[m].subject
      refuse(code) == Fail(s, code) /\ UNCHANGED reserved
  IN /\ slot[s].pc = "reserve"
     /\ \/ ~matches /\ refuse("delivery_mismatch")
        \/ /\ matches
           /\ \/ reserved[m] # NoDay /\ Goto(s, "smtp") /\ UNCHANGED reserved
              \/ /\ reserved[m] = NoDay
                 /\ \/ ~active[SenderOf[m]] /\ refuse("invalid_sender")
                    \/ active[SenderOf[m]] /\ ~FitsQuota(m) /\ refuse("quota_exceeded")
                    \/ /\ active[SenderOf[m]] /\ FitsQuota(m)
                       /\ Goto(s, "smtp") \/ (   "db_ack_lost" \in Faults
                                               /\ Fail(s, "temporary_failure"))
                       /\ reserved' = [reserved EXCEPT ![m] = today]
              \/ "db_error" \in Faults /\ refuse("temporary_failure")
     /\ UNCHANGED <<api, row, job, active, today, gmail>>

(* Decryption of the App Password fails, or buildMime throws a TypeError at  *)
(* a line break in the subject or the sender's name: no session is opened.   *)
DecryptFails(s) ==
  /\ "bad_credential" \in Faults
  /\ slot[s].pc = "smtp"
  /\ \E code \in {"credential_invalid", "invalid_job"} : Fail(s, code)
  /\ UNCHANGED <<api, row, job, active, reserved, today, gmail>>

(* One GmailSmtpTransport.send, which module GmailSmtp opens up.  A session  *)
(* that fails after the 250 to DATA is an error like any other to the caller.*)
SmtpSend(s) ==
  LET m == slot[s].msg
  IN /\ slot[s].pc = "smtp"
     /\ \E o \in SmtpOutcomes :
          /\ (o.ends # "ok" /\ o.accepted) => "smtp_ambiguous" \in Faults
          /\ ~o.accepted => "smtp_error" \in Faults
          /\ gmail' = IF o.accepted
                        THEN [gmail EXCEPT ![m] = [copies |-> @.copies + 1, day |-> today]]
                        ELSE gmail
          /\ IF o.ends = "ok" THEN Goto(s, "markSent") ELSE Fail(s, SmtpCode(o.ends))
     /\ UNCHANGED <<api, row, job, active, reserved, today>>

MarkSent(s) ==
  /\ slot[s].pc = "markSent"
  /\ LET m == slot[s].msg
     IN DbWrite(row' = [row EXCEPT ![m].status = "SENT", ![m].code = "sent"],
                row' = row,
                Goto(s, "done"),
                Fail(s, AmbiguousCode))
  /\ UNCHANGED <<api, job, active, reserved, today, gmail>>

(* The catch block: an unconditional update, then the throw that BullMQ sees.*)
(* If the update itself throws, that error replaces the classified one.      *)
MarkFailed(s) ==
  /\ slot[s].pc = "markFailed"
  /\ LET m == slot[s].msg
         code == slot[s].code
     IN DbWrite(row' = [row EXCEPT ![m].status = "FAILED", ![m].code = code],
                row' = row,
                Goto(s, IF code \in RetryableCodes THEN "retry" ELSE "dead"),
                Goto(s, "retry"))
  /\ UNCHANGED <<api, job, active, reserved, today, gmail>>

-----------------------------------------------------------------------------
(* The environment: the account owner archives or reactivates a sender       *)
(* (deleteSender and PUT /api/v1/senders/:id), a UTC day ends.               *)

SetSenderActive(a) ==
  /\ active' = [active EXCEPT ![a] = ~@]
  /\ UNCHANGED <<api, row, job, slot, reserved, today, gmail>>

Midnight ==
  /\ today < MaxDay
  /\ today' = today + 1
  /\ UNCHANGED <<api, row, job, slot, active, reserved, gmail>>

-----------------------------------------------------------------------------
Init ==
  /\ api = [m \in Messages |-> [pc |-> "idle", subject |-> ""]]
  /\ row = [m \in Messages |-> [status |-> "ABSENT", code |-> "none", subject |-> ""]]
  /\ job = [m \in Messages |-> NoJob]
  /\ slot = [s \in Slots |-> Idle]
  /\ active = [a \in Senders |-> TRUE]
  /\ reserved = [m \in Messages |-> NoDay]
  /\ today = 1
  /\ gmail = [m \in Messages |-> [copies |-> 0, day |-> NoDay]]

ApiStep(m) == CreateDelivery(m) \/ Enqueue(m) \/ MarkUnavailable(m)

ProcessorStep(s) ==
  \/ Load(s) \/ StartDelivery(s) \/ ReserveQuota(s) \/ DecryptFails(s)
  \/ SmtpSend(s) \/ MarkSent(s) \/ MarkFailed(s)

ReportStep(s) == Complete(s) \/ FailForGood(s) \/ Retry(s)

Next ==
  \/ \E m \in Messages : ApiStep(m) \/ ApiCrash(m) \/ LoseLock(m) \/ Stall(m)
  \/ \E s \in Slots : ProcessorStep(s) \/ ReportStep(s) \/ WorkerCrash(s)
  \/ \E s \in Slots, m \in Messages : Take(s, m)
  \/ \E a \in Senders : SetSenderActive(a)
  \/ Midnight

Spec == Init /\ [][Next]_vars

(* A running process goes on: the event loop resumes a handler whose await   *)
(* settled, every SMTP read has the 30 s socket timeout, BullMQ hands out    *)
(* waiting jobs and checks for stalled ones.  Faults are never owed, and     *)
(* neither are requests, archivals or the end of a day.                      *)
Fairness ==
  /\ \A m \in Messages :
       /\ WF_vars(Enqueue(m) \/ MarkUnavailable(m))
       /\ WF_vars(Stall(m))
       /\ WF_vars(\E s \in Slots : Take(s, m))
  /\ \A s \in Slots : WF_vars(ProcessorStep(s) \/ ReportStep(s))

FairSpec == Spec /\ Fairness
=============================================================================
