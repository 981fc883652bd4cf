--------------------------- MODULE QuotaTransaction ---------------------------
(***************************************************************************)
(* reserveQuota (packages/database/src/quota.ts), statement by statement:  *)
(* concurrent calls run one READ COMMITTED transaction each, ordered only  *)
(* by the two advisory locks that it takes.  Between two statements of a   *)
(* call every other call may run, the account owner may change the         *)
(* sender's limit or archive it, and the UTC day may end.                  *)
(***************************************************************************)
EXTENDS QuotaLedger

CONSTANTS Calls,      \* concurrent calls of reserveQuota, in all worker processes
          Nobody,     \* the holder of a free lock
          NoMessage,
          Limits,     \* the values Sender.dailyLimit may take
          MaxDay      \* bound: the last UTC day of a behaviour

ASSUME TransactionAssumption ==
  /\ Nobody \notin Calls
  /\ NoMessage \notin Messages
  /\ Limits \subseteq Nat \ {0}
  /\ MaxDay \in Nat \ {0}

VARIABLES call,        \* call[c]: statement, message, day, limit and sum read so far
          messageLock, \* messageLock[m]: holder of the lock `message:<m>'
          senderLock,  \* senderLock[a]: holder of the lock `sender:<a>'
          reserved,    \* committed QuotaReservation rows: quotaDate of m, or NoDay
          limit,       \* limit[a]: Sender.dailyLimit
          active,      \* active[a]: Sender.active
          today,
          highest      \* history: the highest limit that a ever had

locks == <<messageLock, senderLock>>
environment == <<limit, active, today, highest>>
vars == <<call, locks, reserved, environment>>

-----------------------------------------------------------------------------
(* One call.                                                                 *)

Ready == [pc |-> "idle", msg |-> NoMessage, day |-> NoDay, limit |-> 0, sum |-> 0]
Statements == {"idle", "lockMessage", "lockSender", "findExisting", "findSender",
               "sumUsage", "insert", "commit"}
Owner(c) == SenderOf[call[c].msg]

At(c, pc) == call[c].pc = pc
Goto(c, pc) == call' = [call EXCEPT ![c].pc = pc]

(* Wrong variant: session locks instead of pg_advisory_xact_lock.            *)
KeepLocks(c) == UNCHANGED locks
(* Transaction locks are free again when the transaction ends.               *)
Release(c) ==
  /\ messageLock' = [m \in Messages |-> IF messageLock[m] = c THEN Nobody ELSE messageLock[m]]
  /\ senderLock' = [a \in Senders |-> IF senderLock[a] = c THEN Nobody ELSE senderLock[a]]

(* The call returns or throws; the transaction is over.                      *)
Finish(c) == call' = [call EXCEPT ![c] = Ready] /\ Release(c)

(* quotaDate is taken from the clock before the transaction begins.          *)
Begin(c, m) ==
  /\ At(c, "idle")
  /\ call' = [call EXCEPT ![c] = [Ready EXCEPT !.pc = "lockMessage", !.msg = m,
                                               !.day = today]]
  /\ UNCHANGED <<locks, reserved, environment>>

LockMessage(c) ==
  /\ At(c, "lockMessage") /\ messageLock[call[c].msg] = Nobody
  /\ messageLock' = [messageLock EXCEPT ![call[c].msg] = c]
  /\ Goto(c, "lockSender")
  /\ UNCHANGED <<senderLock, reserved, environment>>

(* Wrong variant: the sender's calls are not serialised.                     *)
SkipSenderLock(c) ==
  /\ At(c, "lockSender")
  /\ Goto(c, "findExisting")
  /\ UNCHANGED <<locks, reserved, environment>>
LockSender(c) ==
  /\ At(c, "lockSender") /\ senderLock[Owner(c)] = Nobody
  /\ senderLock' = [senderLock EXCEPT ![Owner(c)] = c]
  /\ Goto(c, "findExisting")
  /\ UNCHANGED <<messageLock, reserved, environment>>

(* Wrong variant: a retried message asks for room again.                     *)
IgnoreExisting(c) ==
  /\ At(c, "findExisting")
  /\ Goto(c, "findSender")
  /\ UNCHANGED <<locks, reserved, environment>>
(* A message that has a reservation keeps it, whatever its date, and the     *)
(* call returns.                                                             *)
FindExisting(c) ==
  /\ At(c, "findExisting")
  /\ \/ reserved[call[c].msg] # NoDay /\ Finish(c)
     \/ reserved[call[c].msg] = NoDay /\ Goto(c, "findSender") /\ UNCHANGED locks
  /\ UNCHANGED <<reserved, environment>>

FindSender(c) ==
  /\ At(c, "findSender")
  /\ \/ ~active[Owner(c)] /\ Finish(c)
     \/ /\ active[Owner(c)]
        /\ call' = [call EXCEPT ![c].pc = "sumUsage", ![c].limit = limit[Owner(c)]]
        /\ UNCHANGED locks
  /\ UNCHANGED <<reserved, environment>>

(* Wrong variant: today's rows are summed, not those of the call's date.     *)
SumToday(c) == Usage(reserved, Owner(c), today)
(* usage(tx, senderId, quotaDate)                                            *)
Sum(c) == Usage(reserved, Owner(c), call[c].day)
Fits(c, sum) == sum + RecipientCount(call[c].msg) <= call[c].limit

SumUsage(c) ==
  /\ At(c, "sumUsage")
  /\ \/ ~Fits(c, Sum(c)) /\ Finish(c)
     \/ /\ Fits(c, Sum(c))
        /\ call' = [call EXCEPT ![c].pc = "insert", ![c].sum = Sum(c)]
        /\ UNCHANGED locks
  /\ UNCHANGED <<reserved, environment>>

(* The row is visible to nobody else before the commit.                      *)
Insert(c) ==
  /\ At(c, "insert")
  /\ Goto(c, "commit")
  /\ UNCHANGED <<locks, reserved, environment>>

Commit(c) ==
  /\ At(c, "commit")
  /\ reserved' = [reserved EXCEPT ![call[c].msg] = call[c].day]
  /\ Finish(c)
  /\ UNCHANGED environment

(* The worker dies, or the connection breaks: PostgreSQL rolls back.         *)
Abort(c) ==
  /\ ~At(c, "idle")
  /\ Finish(c)
  /\ UNCHANGED <<reserved, environment>>

-----------------------------------------------------------------------------
(* The environment: PUT and DELETE /api/v1/senders/:id, the clock.           *)

(* Wrong variant: the limit of a request is stored as it is.                 *)
AnyLimit == Limits \cup {0}
(* dailyLimit(): a positive integer.                                         *)
ValidLimits == Limits

ChangeLimit(a) ==
  /\ \E l \in ValidLimits :
       /\ limit' = [limit EXCEPT ![a] = l]
       /\ highest' = [highest EXCEPT ![a] = IF l > @ THEN l ELSE @]
  /\ UNCHANGED <<call, locks, reserved, active, today>>

SetSenderActive(a) ==
  /\ active' = [active EXCEPT ![a] = ~@]
  /\ UNCHANGED <<call, locks, reserved, limit, today, highest>>

Midnight ==
  /\ today < MaxDay
  /\ today' = today + 1
  /\ UNCHANGED <<call, locks, reserved, limit, active, highest>>

-----------------------------------------------------------------------------
Init ==
  /\ call = [c \in Calls |-> Ready]
  /\ messageLock = [m \in Messages |-> Nobody]
  /\ senderLock = [a \in Senders |-> Nobody]
  /\ reserved = [m \in Messages |-> NoDay]
  /\ limit \in [Senders -> Limits]
  /\ active = [a \in Senders |-> TRUE]
  /\ today = 1
  /\ highest = limit

Statement(c) ==
  \/ LockMessage(c) \/ LockSender(c) \/ FindExisting(c) \/ FindSender(c)
  \/ SumUsage(c) \/ Insert(c) \/ Commit(c)

Next ==
  \/ \E c \in Calls : Statement(c) \/ Abort(c) \/ \E m \in Messages : Begin(c, m)
  \/ \E a \in Senders : ChangeLimit(a) \/ SetSenderActive(a)
  \/ Midnight

Spec == Init /\ [][Next]_vars

(* PostgreSQL answers every statement; a free lock goes in the end to each   *)
(* call that waits for it, because waiters queue.                            *)
FairSpec ==
  /\ Spec
  /\ \A c \in Calls : WF_vars(Statement(c)) /\ SF_vars(LockMessage(c) \/ LockSender(c))

-----------------------------------------------------------------------------
CallRecords == [pc : Statements, msg : Messages \cup {NoMessage}, day : 0..MaxDay,
                limit : Limits \cup {0}, sum : Nat]

(* The types of all variables.                                               *)
TypeOK ==
  /\ call \in [Calls -> CallRecords]
  /\ messageLock \in [Messages -> Calls \cup {Nobody}]
  /\ senderLock \in [Senders -> Calls \cup {Nobody}]
  /\ reserved \in [Messages -> 0..MaxDay]
  /\ limit \in [Senders -> Limits]
  /\ active \in [Senders -> BOOLEAN]
  /\ today \in 1..MaxDay
  /\ highest \in [Senders -> Limits]

(* The reservations of a sender on one day never exceed the highest limit it *)
(* ever had, although read, sum and insert are separate statements of        *)
(* concurrent calls ("Locks make the read/sum/insert sequence atomic across  *)
(* Bun API and worker processes").                                           *)
LimitKept ==
  \A a \in Senders, d \in 1..MaxDay : Usage(reserved, a, d) <= highest[a]

(* The sum that a call has compared with the limit is still the sender's     *)
(* usage of that day when its row is inserted and committed.                 *)
SumIsFresh ==
  \A c \in Calls :
    call[c].pc \in {"insert", "commit"} =>
      call[c].sum = Usage(reserved, Owner(c), call[c].day)

(* A retry never asks for room again: while a message has a reservation no   *)
(* call for it gets as far as the sender's limit, so a retry is not refused  *)
(* because its own first attempt used up the quota, its date is kept, and    *)
(* the primary key of QuotaReservation never rejects the insert.             *)
RetryNeverAsksAgain ==
  \A c \in Calls :
    call[c].pc \in {"findSender", "sumUsage", "insert", "commit"}
      => reserved[call[c].msg] = NoDay

(* Read, sum and insert behave as one step: the commit of a call compares    *)
(* and charges at once, against what is committed at that moment, a charge   *)
(* is never moved or taken back, and no call is charged to a day to come.    *)
Quota == INSTANCE DailyQuota WITH ceiling <- highest
ImplementsDailyQuota == Quota!Spec

(* Every call comes to an end: the lock order message, then sender, is the   *)
(* same everywhere, and no lock outlives its transaction.                    *)
CallsEnd == \A c \in Calls : call[c].pc # "idle" ~> call[c].pc = "idle"
=============================================================================
