--------------------------- MODULE TransactionProofs ---------------------------
(***************************************************************************)
(* The reservation transaction keeps every sender within its limit: for    *)
(* any number of concurrent calls, messages, recipients, limits and days.  *)
(* The sender lock alone carries the argument; nothing is assumed of the   *)
(* message lock.                                                           *)
(***************************************************************************)
EXTENDS QuotaTransaction, LedgerProofs

Locked == {"findExisting", "findSender", "sumUsage", "insert", "commit"}

(* What a call that has come to a statement has seen and holds.              *)
CallInv(c) ==
  /\ call[c].pc # "idle" => call[c].msg \in Messages /\ call[c].day \in 1..MaxDay
  /\ call[c].pc \in Locked => senderLock[Owner(c)] = c
  /\ call[c].pc \in {"findSender", "sumUsage", "insert", "commit"}
       => reserved[call[c].msg] = NoDay
  /\ call[c].pc \in {"sumUsage", "insert", "commit"}
       => call[c].limit <= highest[Owner(c)]
  /\ call[c].pc \in {"insert", "commit"}
       => /\ call[c].sum = Usage(reserved, Owner(c), call[c].day)
          /\ call[c].sum + RecipientCount(call[c].msg) <= call[c].limit

TransactionInv ==
  /\ TypeOK
  /\ \A a \in Senders : limit[a] <= highest[a]
  /\ \A c \in Calls : CallInv(c)
  /\ LimitKept

(* Limits are natural numbers.                                               *)
LEMMA LimitsAreNumbers == TypeOK => \A a \in Senders : limit[a] \in Nat /\ highest[a] \in Nat
BY TransactionAssumption DEF TypeOK

(* So is the limit that a call has read.                                     *)
LEMMA ReadLimits == ASSUME TypeOK, NEW c \in Calls PROVE call[c].limit \in Nat
<1>1. call[c] \in CallRecords
  BY DEF TypeOK
<1>2. call[c].limit \in Limits \/ call[c].limit = 0
  BY <1>1 DEF CallRecords
<1>3. \A l \in Limits : l \in Nat
  BY TransactionAssumption
<1>4. QED
  BY <1>2, <1>3

-----------------------------------------------------------------------------
(* What the steps of one call do.                                            *)

(* Every step of call c is its own: other calls, and the locks they hold,    *)
(* stay as they are.                                                         *)
LEMMA OwnStep ==
  ASSUME TypeOK, NEW c \in Calls, NEW m \in Messages,
         Statement(c) \/ Abort(c) \/ Begin(c, m)
  PROVE  /\ \A t \in Calls \ {c} : call'[t] = call[t]
         /\ \A t \in Calls \ {c}, a \in Senders : senderLock[a] = t => senderLock'[a] = t
         /\ UNCHANGED environment
<1>1. /\ DOMAIN call = Calls /\ DOMAIN senderLock = Senders
  BY DEF TypeOK
<1>2. ASSUME Release(c)
      PROVE  \A t \in Calls \ {c}, a \in Senders : senderLock[a] = t => senderLock'[a] = t
  BY <1>2 DEF Release
<1>3. CASE Begin(c, m)
  BY <1>1, <1>3 DEF Begin, locks
<1>4. CASE Abort(c)
  BY <1>1, <1>2, <1>4 DEF Abort, Finish
<1>5. CASE LockMessage(c)
  BY <1>1, <1>5 DEF LockMessage, Goto
<1>6. CASE LockSender(c)
  BY <1>1, <1>6, TransactionAssumption DEF LockSender, Goto
<1>7. CASE FindExisting(c)
  BY <1>1, <1>2, <1>7 DEF FindExisting, Goto, Finish, locks
<1>8. CASE FindSender(c)
  BY <1>1, <1>2, <1>8 DEF FindSender, Finish, locks
<1>9. CASE SumUsage(c)
  BY <1>1, <1>2, <1>9 DEF SumUsage, Finish, locks
<1>10. CASE Insert(c)
  BY <1>1, <1>10 DEF Insert, Goto, locks
<1>11. CASE Commit(c)
  BY <1>1, <1>2, <1>11 DEF Commit, Finish
<1>12. QED
  BY <1>3, <1>4, <1>5, <1>6, <1>7, <1>8, <1>9, <1>10, <1>11 DEF Statement

(* Updates of a call's record keep its type.                                 *)
LEMMA RecordUpdates ==
  ASSUME NEW k \in CallRecords, NEW pc \in Statements
  PROVE  /\ [k EXCEPT !.pc = pc] \in CallRecords
         /\ \A l \in Limits : [k EXCEPT !.pc = pc, !.limit = l] \in CallRecords
         /\ \A n \in Nat : [k EXCEPT !.pc = pc, !.sum = n] \in CallRecords
         /\ \A m \in Messages, d \in 0..MaxDay :
              [k EXCEPT !.pc = pc, !.msg = m, !.day = d] \in CallRecords
BY DEF CallRecords

(* A call that is not running has a record of its own.                       *)
LEMMA ReadyRecord == Ready \in CallRecords
BY TransactionAssumption DEF Ready, CallRecords, Statements, NoDay

(* The end of a call leaves the locks to others.                             *)
LEMMA FinishTypes ==
  ASSUME TypeOK, NEW c \in Calls, Finish(c)
  PROVE  /\ call' \in [Calls -> CallRecords]
         /\ messageLock' \in [Messages -> Calls \cup {Nobody}]
         /\ senderLock' \in [Senders -> Calls \cup {Nobody}]
         /\ call'[c].pc = "idle"
<1>1. Ready \in CallRecords
  BY TransactionAssumption DEF Ready, CallRecords, Statements, NoDay
<1>2. call' = [call EXCEPT ![c] = Ready] /\ Release(c)
  BY DEF Finish
<1>3. QED
  BY <1>1, <1>2 DEF TypeOK, Release, Ready

(* At the start no call runs and nothing is reserved.                        *)
LEMMA InitTransactionInv == Init => TransactionInv
<1> SUFFICES ASSUME Init PROVE TransactionInv
  OBVIOUS
<1>1. /\ \A c \in Calls : call[c].pc = "idle"
      /\ \A m \in Messages : reserved[m] = NoDay
      /\ highest \in [Senders -> Limits]
  BY DEF Init, Ready
<1>2. TypeOK
  <2>1. Ready \in CallRecords
    BY TransactionAssumption DEF Ready, CallRecords, Statements, NoDay
  <2>2. QED
    BY <2>1, TransactionAssumption DEF Init, TypeOK, NoDay
<1>3. ASSUME NEW a \in Senders, NEW d \in 1..MaxDay PROVE Usage(reserved, a, d) <= highest[a]
  <2>1. Units(reserved, a, d) = {}
    BY <1>1 DEF Units, NoDay
  <2>2. Usage(reserved, a, d) = 0
    BY <2>1, FS_EmptySet DEF Usage
  <2>3. QED
    BY <1>2, <2>2, LimitsAreNumbers
<1>4. \A a \in Senders : limit[a] <= highest[a]
  BY <1>2, LimitsAreNumbers DEF Init
<1>5. \A c \in Calls : CallInv(c)
  BY <1>1 DEF CallInv, Locked
<1>6. QED
  BY <1>2, <1>3, <1>4, <1>5 DEF TransactionInv, LimitKept

-----------------------------------------------------------------------------
(* Types.                                                                    *)

(* A step of a call keeps the types.                                         *)
LEMMA StepTypes ==
  ASSUME TransactionInv, NEW c \in Calls, NEW m \in Messages,
         Statement(c) \/ Abort(c) \/ Begin(c, m)
  PROVE  TypeOK'
<1>1. /\ TypeOK /\ CallInv(c)
      /\ \A n \in Messages, d \in 0..MaxDay : Usage(reserved, SenderOf[n], d) \in Nat
  BY UsageIsFinite DEF TransactionInv
<1>2. UNCHANGED environment
  BY <1>1, OwnStep
<1>3. ASSUME Finish(c), UNCHANGED reserved PROVE TypeOK'
  BY <1>1, <1>2, <1>3, FinishTypes DEF TypeOK, environment
<1>4. CASE Begin(c, m)
  <2>1. today \in 0..MaxDay /\ "lockMessage" \in Statements
    BY <1>1 DEF TypeOK, Statements
  <2>2. [Ready EXCEPT !.pc = "lockMessage", !.msg = m, !.day = today] \in CallRecords
    BY <2>1, ReadyRecord, RecordUpdates
  <2>3. QED
    BY <1>1, <1>2, <1>4, <2>2 DEF Begin, TypeOK, environment, locks
<1>5. CASE Abort(c)
  BY <1>3, <1>5 DEF Abort
<1>6. ASSUME NEW pc \in Statements, Goto(c, pc) PROVE call' \in [Calls -> CallRecords]
  BY <1>1, <1>6, RecordUpdates DEF Goto, TypeOK
<1>7. CASE LockMessage(c)
  <2>1. call' \in [Calls -> CallRecords]
    BY <1>6, <1>7 DEF LockMessage, Statements
  <2>2. QED
    BY <1>1, <1>2, <1>7, <2>1 DEF LockMessage, TypeOK, environment
<1>8. CASE LockSender(c)
  <2>1. call' \in [Calls -> CallRecords]
    BY <1>6, <1>8 DEF LockSender, Statements
  <2>2. QED
    BY <1>1, <1>2, <1>8, <2>1 DEF LockSender, TypeOK, environment
<1>9. CASE FindExisting(c)
  <2>1. CASE Goto(c, "findSender") /\ UNCHANGED locks
    <3>1. call' \in [Calls -> CallRecords]
      BY <1>6, <2>1 DEF Statements
    <3>2. QED
      BY <1>1, <1>2, <1>9, <2>1, <3>1 DEF FindExisting, TypeOK, environment, locks
  <2>2. QED
    BY <1>3, <1>9, <2>1 DEF FindExisting
<1>10. CASE FindSender(c)
  <2>1. ASSUME call' = [call EXCEPT ![c].pc = "sumUsage", ![c].limit = limit[Owner(c)]],
               UNCHANGED <<locks, reserved>>
        PROVE  TypeOK'
    <3>1. limit[Owner(c)] \in Limits
      BY <1>1, <1>10, LedgerAssumption DEF FindSender, At, CallInv, Owner, TypeOK
    <3>2. [call[c] EXCEPT !.pc = "sumUsage", !.limit = limit[Owner(c)]] \in CallRecords
      BY <1>1, <3>1, RecordUpdates DEF TypeOK, Statements
    <3>3. call' = [call EXCEPT ![c] = [call[c] EXCEPT !.pc = "sumUsage",
                                                      !.limit = limit[Owner(c)]]]
      BY <1>1, <2>1 DEF TypeOK
    <3>4. call' \in [Calls -> CallRecords]
      BY <1>1, <3>2, <3>3 DEF TypeOK
    <3>5. QED
      BY <1>1, <1>2, <2>1, <3>4 DEF TypeOK, environment, locks
  <2>2. QED
    BY <1>3, <1>10, <2>1 DEF FindSender
<1>11. CASE SumUsage(c)
  <2>1. ASSUME call' = [call EXCEPT ![c].pc = "insert", ![c].sum = Sum(c)],
               UNCHANGED <<locks, reserved>>
        PROVE  TypeOK'
    <3>1. Sum(c) \in Nat
      BY UsageIsFinite DEF Sum
    <3>2. [call[c] EXCEPT !.pc = "insert", !.sum = Sum(c)] \in CallRecords
      BY <1>1, <3>1, RecordUpdates DEF TypeOK, Statements
    <3>3. call' = [call EXCEPT ![c] = [call[c] EXCEPT !.pc = "insert", !.sum = Sum(c)]]
      BY <1>1, <2>1 DEF TypeOK
    <3>4. call' \in [Calls -> CallRecords]
      BY <1>1, <3>2, <3>3 DEF TypeOK
    <3>5. QED
      BY <1>1, <1>2, <2>1, <3>4 DEF TypeOK, environment, locks
  <2>2. QED
    BY <1>3, <1>11, <2>1 DEF SumUsage
<1>12. CASE Insert(c)
  <2>1. call' \in [Calls -> CallRecords]
    BY <1>6, <1>12 DEF Insert, Statements
  <2>2. QED
    BY <1>1, <1>2, <1>12, <2>1 DEF Insert, TypeOK, environment, locks
<1>13. CASE Commit(c)
  <2>1. Finish(c) /\ reserved' = [reserved EXCEPT ![call[c].msg] = call[c].day]
        /\ call[c].day \in 0..MaxDay
    BY <1>1, <1>13 DEF Commit, TypeOK, CallRecords
  <2>2. reserved' \in [Messages -> 0..MaxDay]
    BY <1>1, <2>1 DEF TypeOK
  <2>3. QED
    BY <1>1, <1>2, <2>1, <2>2, FinishTypes DEF TypeOK, environment
<1>14. QED
  BY <1>4, <1>5, <1>7, <1>8, <1>9, <1>10, <1>11, <1>12, <1>13 DEF Statement

-----------------------------------------------------------------------------
(* The sender lock keeps what a call has seen.                               *)

(* What a call knows survives a step that leaves its record, its lock and    *)
(* its sender's reservations alone and lowers no highest limit.              *)
LEMMA KnowledgeSurvives ==
  ASSUME TypeOK, NEW t \in Calls, CallInv(t), call'[t] = call[t],
         \A a \in Senders : senderLock[a] = t => senderLock'[a] = t,
         \A a \in Senders : highest[a] <= highest'[a] /\ highest'[a] \in Nat,
         \A n \in Messages : call[t].pc \in Locked /\ SenderOf[n] = Owner(t)
                              => reserved'[n] = reserved[n]
  PROVE  CallInv(t)'
<1>1. CASE call[t].pc = "idle"
  BY <1>1 DEF CallInv, Locked
<1>2. CASE call[t].pc # "idle"
  <2>1. /\ call[t].msg \in Messages /\ Owner(t) \in Senders /\ Owner(t)' = Owner(t)
        /\ highest[Owner(t)] \in Nat
    BY <1>2, LedgerAssumption, LimitsAreNumbers DEF CallInv, Owner
  <2>2. call[t].limit \in Nat
    BY ReadLimits
  <2>3. call[t].pc \in Locked
          => Usage(reserved', Owner(t), call[t].day) = Usage(reserved, Owner(t), call[t].day)
    BY DEF Usage, Units
  <2>4. call[t].pc \in Locked => reserved'[call[t].msg] = reserved[call[t].msg]
    BY <2>1 DEF Owner
  <2>5. Usage(reserved, Owner(t), call[t].day)' = Usage(reserved', Owner(t), call[t].day)
    BY <2>1 DEF Usage, Units
  <2>6. QED
    BY <1>2, <2>1, <2>2, <2>3, <2>4, <2>5 DEF CallInv, Locked
<1>3. QED
  BY <1>1, <1>2

(* The acting call: what it reads at a statement is what the invariant says  *)
(* of the next one.                                                          *)
LEMMA ActorKnows ==
  ASSUME TransactionInv, NEW c \in Calls, NEW m \in Messages,
         Statement(c) \/ Abort(c) \/ Begin(c, m)
  PROVE  CallInv(c)'
<1>1. /\ TypeOK /\ CallInv(c) /\ call[c] \in CallRecords
      /\ DOMAIN call = Calls /\ DOMAIN senderLock = Senders
  BY DEF TransactionInv, TypeOK
<1>2. UNCHANGED environment
  BY <1>1, OwnStep
<1>3. ASSUME Finish(c) PROVE CallInv(c)'
  BY <1>1, <1>3, FinishTypes DEF CallInv, Locked
<1>4. CASE Begin(c, m)
  <2>1. today \in 1..MaxDay
    BY <1>1 DEF TypeOK
  <2>2. call'[c].pc = "lockMessage" /\ call'[c].msg = m /\ call'[c].day = today
    BY <1>1, <1>4 DEF Begin, Ready
  <2>3. QED
    BY <2>1, <2>2 DEF CallInv, Locked
<1>5. CASE Abort(c)
  BY <1>3, <1>5 DEF Abort
<1>6. CASE LockMessage(c)
  BY <1>1, <1>6 DEF LockMessage, Goto, At, CallInv, Locked, CallRecords
<1>7. CASE LockSender(c)
  <2>1. call[c].msg \in Messages /\ Owner(c) \in Senders
    BY <1>1, <1>7, LedgerAssumption DEF LockSender, At, CallInv, Owner
  <2>2. /\ call'[c].pc = "findExisting" /\ call'[c].msg = call[c].msg
        /\ call'[c].day = call[c].day
    BY <1>1, <1>7 DEF LockSender, Goto, CallRecords
  <2>3. senderLock'[Owner(c)] = c /\ Owner(c)' = Owner(c)
    BY <1>1, <1>7, <2>1, <2>2 DEF LockSender, Owner
  <2>4. QED
    BY <1>1, <1>7, <2>1, <2>2, <2>3 DEF LockSender, At, CallInv, Locked
<1>8. CASE FindExisting(c)
  BY <1>1, <1>3, <1>8 DEF FindExisting, Goto, At, CallInv, Locked, CallRecords, Owner, locks
<1>9. CASE FindSender(c)
  <2>1. CASE Finish(c)
    BY <1>3, <2>1
  <2>2. CASE call' = [call EXCEPT ![c].pc = "sumUsage", ![c].limit = limit[Owner(c)]]
             /\ UNCHANGED locks
    <3>1. limit[Owner(c)] <= highest[Owner(c)]
      BY <1>1, <1>9, LedgerAssumption DEF TransactionInv, FindSender, At, CallInv, Owner
    <3>2. /\ call'[c].pc = "sumUsage" /\ call'[c].msg = call[c].msg
          /\ call'[c].day = call[c].day /\ call'[c].limit = limit[Owner(c)]
      BY <1>1, <2>2 DEF CallRecords
    <3>3. QED
      BY <1>1, <1>2, <1>9, <2>2, <3>1, <3>2
         DEF FindSender, At, CallInv, Locked, Owner, locks, environment
  <2>3. QED
    BY <1>9, <2>1, <2>2 DEF FindSender
<1>10. CASE SumUsage(c)
  <2>1. CASE Finish(c)
    BY <1>3, <2>1
  <2>2. CASE Fits(c, Sum(c)) /\ call' = [call EXCEPT ![c].pc = "insert", ![c].sum = Sum(c)]
             /\ UNCHANGED locks
    <3>1. /\ call'[c].pc = "insert" /\ call'[c].msg = call[c].msg
          /\ call'[c].day = call[c].day /\ call'[c].limit = call[c].limit
          /\ call'[c].sum = Sum(c)
      BY <1>1, <2>2 DEF CallRecords
    <3>2. Usage(reserved, Owner(c), call[c].day)' = Usage(reserved, Owner(c), call[c].day)
      BY <1>10, <3>1 DEF SumUsage, Usage, Units, Owner
    <3>3. QED
      BY <1>1, <1>2, <1>10, <2>2, <3>1, <3>2
         DEF SumUsage, At, CallInv, Locked, Owner, locks, environment, Sum, Fits
  <2>3. QED
    BY <1>10, <2>1, <2>2 DEF SumUsage
<1>11. CASE Insert(c)
  <2>1. /\ call'[c].pc = "commit" /\ call'[c].msg = call[c].msg /\ call'[c].sum = call[c].sum
        /\ call'[c].day = call[c].day /\ call'[c].limit = call[c].limit
    BY <1>1, <1>11 DEF Insert, Goto, CallRecords
  <2>2. Usage(reserved, Owner(c), call[c].day)' = Usage(reserved, Owner(c), call[c].day)
    BY <1>11, <2>1 DEF Insert, Usage, Units, Owner
  <2>3. QED
    BY <1>1, <1>2, <1>11, <2>1, <2>2
       DEF Insert, At, CallInv, Locked, Owner, locks, environment
<1>12. CASE Commit(c)
  BY <1>3, <1>12 DEF Commit
<1>13. QED
  BY <1>4, <1>5, <1>6, <1>7, <1>8, <1>9, <1>10, <1>11, <1>12 DEF Statement

-----------------------------------------------------------------------------
(* The invariant.                                                            *)

(* A commit adds the call's recipients to the sum it has just compared.      *)
LEMMA CommitKeepsLimit ==
  ASSUME TransactionInv, NEW c \in Calls, Commit(c), NEW a \in Senders, NEW d \in 1..MaxDay
  PROVE  Usage(reserved', a, d) <= highest[a]
<1> DEFINE m == call[c].msg  day == call[c].day
<1>1. /\ TypeOK /\ CallInv(c) /\ call[c].pc = "commit"
      /\ reserved' = [reserved EXCEPT ![m] = day]
      /\ Usage(reserved, a, d) <= highest[a]
  BY DEF TransactionInv, LimitKept, Commit, At
<1>2. /\ m \in Messages /\ day \in Nat \ {NoDay} /\ reserved[m] = NoDay
      /\ Usage(reserved, SenderOf[m], day) + RecipientCount(m) <= call[c].limit
      /\ call[c].limit <= highest[SenderOf[m]]
  BY <1>1 DEF CallInv, Owner, NoDay
<1>3. /\ call[c].limit \in Nat /\ highest[SenderOf[m]] \in Nat
      /\ RecipientCount(m) \in Nat /\ d # NoDay
  <2>1. SenderOf[m] \in Senders
    BY <1>2, LedgerAssumption
  <2>2. QED
    BY <1>1, <1>2, <2>1, ReadLimits, LimitsAreNumbers, RecipientsAreFinite DEF NoDay
<1>4. /\ Usage(reserved', SenderOf[m], day) = Usage(reserved, SenderOf[m], day) + RecipientCount(m)
      /\ a # SenderOf[m] \/ d # day => Usage(reserved', a, d) = Usage(reserved, a, d)
  <2>1. /\ reserved'[m] = day
        /\ \A n \in Messages : n # m => reserved'[n] = reserved[n]
    BY <1>1, <1>2 DEF TypeOK
  <2>2. QED
    BY <1>2, <1>3, <2>1, ReservationAddsRecipients
<1>5. Usage(reserved, SenderOf[m], day) \in Nat
  BY UsageIsFinite
<1>6. CASE a = SenderOf[m] /\ d = day
  BY <1>2, <1>3, <1>4, <1>5, <1>6
<1>7. CASE a # SenderOf[m] \/ d # day
  BY <1>1, <1>4, <1>7
<1>8. QED
  BY <1>6, <1>7

(* Only a commit changes the reservations, and only its own message's.       *)
LEMMA OnlyCommitReserves ==
  ASSUME NEW c \in Calls, NEW m \in Messages, Statement(c) \/ Abort(c) \/ Begin(c, m)
  PROVE  UNCHANGED reserved \/ Commit(c)
BY DEF Statement, LockMessage, LockSender, FindExisting, FindSender, SumUsage, Insert,
       Abort, Begin

(* A statement, an abort or a new call keeps the invariant.                  *)
LEMMA StepKeepsInv ==
  ASSUME TransactionInv, NEW c \in Calls, NEW m \in Messages,
         Statement(c) \/ Abort(c) \/ Begin(c, m)
  PROVE  TransactionInv'
<1>1. /\ TypeOK /\ TypeOK' /\ \A t \in Calls : CallInv(t)
      /\ \A a \in Senders : highest[a] \in Nat /\ limit[a] <= highest[a]
      /\ highest' = highest /\ limit' = limit
  BY StepTypes, OwnStep, LimitsAreNumbers DEF TransactionInv, environment
<1>2. ASSUME NEW t \in Calls PROVE CallInv(t)'
  <2>1. CASE t = c
    BY <2>1, ActorKnows
  <2>2. CASE t # c
    <3>1. /\ call'[t] = call[t]
          /\ \A a \in Senders : senderLock[a] = t => senderLock'[a] = t
      BY <1>1, <2>2, OwnStep
    <3>2. ASSUME NEW n \in Messages, call[t].pc \in Locked, SenderOf[n] = Owner(t)
          PROVE  reserved'[n] = reserved[n]
      <4>1. CASE UNCHANGED reserved
        BY <4>1
      <4>2. CASE Commit(c)
        <5>1. senderLock[Owner(c)] = c /\ senderLock[Owner(t)] = t
          BY <1>1, <3>2, <4>2 DEF CallInv, Commit, At, Locked
        <5>2. n # call[c].msg
          BY <2>2, <3>2, <5>1 DEF Owner
        <5>3. QED
          BY <1>1, <4>2, <5>2 DEF Commit, TypeOK
      <4>3. QED
        BY <4>1, <4>2, OnlyCommitReserves
    <3>3. QED
      BY <1>1, <3>1, <3>2, KnowledgeSurvives
  <2>3. QED
    BY <2>1, <2>2
<1>3. LimitKept'
  <2>1. ASSUME NEW a \in Senders, NEW d \in 1..MaxDay PROVE Usage(reserved', a, d) <= highest[a]
    BY <2>1, CommitKeepsLimit, OnlyCommitReserves DEF TransactionInv, LimitKept
  <2>2. QED
    BY <1>1, <2>1 DEF LimitKept, Usage, Units
<1>4. QED
  BY <1>1, <1>2, <1>3 DEF TransactionInv

(* The account owner and the clock only let a limit rise above or stay       *)
(* within the highest one.                                                   *)
LEMMA EnvironmentKeepsInv ==
  ASSUME TransactionInv,
         (\E a \in Senders : ChangeLimit(a) \/ SetSenderActive(a)) \/ Midnight
  PROVE  TransactionInv'
<1>1. /\ TypeOK /\ UNCHANGED <<call, messageLock, senderLock, reserved>>
      /\ \A a \in Senders : highest[a] \in Nat /\ limit[a] \in Nat
  BY LimitsAreNumbers DEF TransactionInv, ChangeLimit, SetSenderActive, Midnight, locks
<1>2. TypeOK' /\ \A a \in Senders : highest[a] <= highest'[a] /\ limit'[a] <= highest'[a]
  <2>1. CASE \E a \in Senders : ChangeLimit(a)
    <3>1. PICK a \in Senders, l \in Limits :
            /\ limit' = [limit EXCEPT ![a] = l]
            /\ highest' = [highest EXCEPT ![a] = IF l > @ THEN l ELSE @]
            /\ UNCHANGED <<active, today>>
      BY <2>1 DEF ChangeLimit, ValidLimits
    <3>2. l \in Nat
      BY TransactionAssumption
    <3>3. TypeOK'
      BY <1>1, <3>1 DEF TypeOK
    <3>4. QED
      BY <1>1, <3>1, <3>2, <3>3 DEF TypeOK, TransactionInv
  <2>2. CASE \E a \in Senders : SetSenderActive(a)
    BY <1>1, <2>2 DEF SetSenderActive, TypeOK, TransactionInv
  <2>3. CASE Midnight
    BY <1>1, <2>3, TransactionAssumption DEF Midnight, TypeOK, TransactionInv
  <2>4. QED
    BY <2>1, <2>2, <2>3
<1>3. \A a \in Senders : highest'[a] \in Nat
  BY <1>2, TransactionAssumption DEF TypeOK
<1>4. \A t \in Calls : CallInv(t)'
  BY <1>1, <1>2, <1>3, KnowledgeSurvives DEF TransactionInv
<1>5. LimitKept'
  <2>1. ASSUME NEW a \in Senders, NEW d \in 1..MaxDay PROVE Usage(reserved', a, d) <= highest'[a]
    BY <1>1, <1>2, <1>3, UsageIsFinite DEF TransactionInv, LimitKept
  <2>2. QED
    BY <2>1 DEF LimitKept, Usage, Units
<1>6. QED
  BY <1>2, <1>4, <1>5 DEF TransactionInv

(* The invariant holds throughout.                                           *)
LEMMA TransactionInvAlways == Spec => []TransactionInv
<1>1. TransactionInv /\ [Next]_vars => TransactionInv'
  <2> SUFFICES ASSUME TransactionInv, [Next]_vars PROVE TransactionInv'
    OBVIOUS
  <2>1. CASE UNCHANGED vars
    BY <2>1 DEF TransactionInv, CallInv, TypeOK, LimitKept, vars, locks, environment,
                Owner, Usage, Units
  <2>2. ASSUME NEW c \in Calls, Statement(c) \/ Abort(c) PROVE TransactionInv'
    <3>1. CASE call[c].pc = "idle"
      BY <2>2, <3>1 DEF Statement, Abort, At, LockMessage, LockSender, FindExisting,
                        FindSender, SumUsage, Insert, Commit
    <3>2. CASE call[c].pc # "idle"
      BY <2>2, <3>2, StepKeepsInv DEF TransactionInv, CallInv
    <3>3. QED
      BY <3>1, <3>2
  <2>3. ASSUME NEW c \in Calls, NEW m \in Messages, Begin(c, m) PROVE TransactionInv'
    BY <2>3, StepKeepsInv
  <2>4. QED
    BY <2>1, <2>2, <2>3, EnvironmentKeepsInv DEF Next
<1>2. QED
  BY <1>1, InitTransactionInv, PTL DEF Spec

-----------------------------------------------------------------------------
(* However the statements of concurrent reserveQuota calls interleave, the   *)
(* reservations of a sender on a day stay within its highest limit.          *)
THEOREM LimitKeptAlways == Spec => []LimitKept
<1>1. TransactionInv => LimitKept
  BY DEF TransactionInv
<1>2. QED
  BY <1>1, TransactionInvAlways, PTL

(* The sum a reserveQuota call compared is still right when it commits.      *)
THEOREM SumIsFreshAlways == Spec => []SumIsFresh
<1>1. TransactionInv => SumIsFresh
  BY DEF TransactionInv, CallInv, SumIsFresh
<1>2. QED
  BY <1>1, TransactionInvAlways, PTL

(* A message with a reservation is never measured against the limit again.   *)
THEOREM RetryNeverAsksAgainAlways == Spec => []RetryNeverAsksAgain
<1>1. TransactionInv => RetryNeverAsksAgain
  BY DEF TransactionInv, CallInv, RetryNeverAsksAgain
<1>2. QED
  BY <1>1, TransactionInvAlways, PTL

(* The types of the reservation transaction.                                 *)
THEOREM TransactionTypes == Spec => []TypeOK
<1>1. TransactionInv => TypeOK
  BY DEF TransactionInv
<1>2. QED
  BY <1>1, TransactionInvAlways, PTL

-----------------------------------------------------------------------------
(* The transaction as one step: DailyQuota.                                  *)

(* No call is dated later than today: quotaDate is read before it begins.    *)
Dated == \A c \in Calls : call[c].pc # "idle" => call[c].day <= today

(* A call keeps the date that it took at its beginning.                      *)
LEMMA StepKeepsDate ==
  ASSUME TransactionInv, Dated, NEW c \in Calls, NEW m \in Messages,
         Statement(c) \/ Abort(c) \/ Begin(c, m)
  PROVE  call'[c].pc # "idle" => call'[c].day <= today
<1>1. TypeOK /\ DOMAIN call = Calls /\ today \in Nat
  BY DEF TransactionInv, TypeOK
<1>2. call[c].pc # "idle" => call[c].day <= today
  BY DEF Dated
<1>3. CASE Begin(c, m)
  BY <1>1, <1>3 DEF Begin, Ready
<1>4. CASE Finish(c)
  BY <1>1, <1>4, FinishTypes
<1>5. ASSUME NEW pc \in Statements, Goto(c, pc), call[c].pc # "idle"
      PROVE  call'[c].day <= today
  BY <1>1, <1>2, <1>5 DEF Goto
<1>6. CASE LockMessage(c) \/ LockSender(c) \/ Insert(c)
  <2>1. (\E pc \in Statements : Goto(c, pc)) /\ call[c].pc # "idle"
    BY <1>6 DEF LockMessage, LockSender, Insert, At, Statements
  <2>2. QED
    BY <1>5, <2>1
<1>7. CASE FindExisting(c)
  <2>1. Finish(c) \/ (Goto(c, "findSender") /\ call[c].pc # "idle")
    BY <1>7 DEF FindExisting, At
  <2>2. QED
    BY <1>4, <1>5, <2>1 DEF Statements
<1>8. call[c] \in CallRecords
  BY <1>1 DEF TypeOK
<1>9. CASE FindSender(c) \/ SumUsage(c)
  <2>1. CASE call' = [call EXCEPT ![c].pc = "sumUsage", ![c].limit = limit[Owner(c)]]
    <3>1. call'[c].day = call[c].day
      BY <1>1, <1>8, <2>1 DEF CallRecords
    <3>2. QED
      BY <1>2, <1>9, <3>1 DEF FindSender, SumUsage, At
  <2>2. CASE call' = [call EXCEPT ![c].pc = "insert", ![c].sum = Sum(c)]
    <3>1. call'[c].day = call[c].day
      BY <1>1, <1>8, <2>2 DEF CallRecords
    <3>2. QED
      BY <1>2, <1>9, <3>1 DEF FindSender, SumUsage, At
  <2>3. QED
    BY <1>4, <1>9, <2>1, <2>2 DEF FindSender, SumUsage
<1>10. QED
  BY <1>3, <1>4, <1>6, <1>7, <1>9 DEF Statement, Commit, Abort

(* The dates of the calls never run ahead of the clock.                      *)
LEMMA DatedAlways == Spec => []Dated
<1>1. Init => Dated
  BY DEF Init, Dated, Ready
<1>2. TransactionInv /\ Dated /\ [Next]_vars => Dated'
  <2> SUFFICES ASSUME TransactionInv, Dated, [Next]_vars PROVE Dated'
    OBVIOUS
  <2>1. TypeOK /\ (\A c \in Calls : call[c].pc # "idle" => call[c].msg \in Messages)
    BY DEF TransactionInv, CallInv
  <2>2. ASSUME NEW c \in Calls, NEW m \in Messages, Statement(c) \/ Abort(c) \/ Begin(c, m)
        PROVE  Dated'
    BY <2>1, <2>2, StepKeepsDate, OwnStep DEF Dated, environment
  <2>3. ASSUME NEW c \in Calls, Statement(c) \/ Abort(c) PROVE call[c].pc # "idle"
    BY <2>3 DEF Statement, Abort, At, LockMessage, LockSender, FindExisting,
                FindSender, SumUsage, Insert, Commit
  <2>4. CASE \E a \in Senders : ChangeLimit(a) \/ SetSenderActive(a)
    BY <2>4 DEF ChangeLimit, SetSenderActive, Dated
  <2>5. CASE Midnight
    <3>1. call' = call /\ today' = today + 1 /\ today \in Nat
      BY <2>1, <2>5 DEF Midnight, TypeOK
    <3>2. \A c \in Calls : call[c] \in CallRecords
      BY <2>1 DEF TypeOK
    <3>3. \A c \in Calls : call[c].day \in Nat
      BY <3>2 DEF CallRecords
    <3>4. QED
      BY <3>1, <3>3 DEF Dated
  <2>6. CASE UNCHANGED vars
    BY <2>6 DEF vars, environment, Dated
  <2>7. QED
    BY <2>1, <2>2, <2>3, <2>4, <2>5, <2>6 DEF Next
<1>3. QED
  BY <1>1, <1>2, TransactionInvAlways, PTL DEF Spec

(* Both levels count with the same ledger.                                   *)
LEMMA SameLedger ==
  /\ \A r, a, d : Quota!Usage(r, a, d) = Usage(r, a, d)
  /\ \A m : Quota!RecipientCount(m) = RecipientCount(m)
  /\ Quota!NoDay = NoDay
BY DEF Quota!Usage, Usage, Quota!Units, Units, Quota!RecipientCount, RecipientCount,
       Quota!Cardinality, Cardinality, Quota!NoDay, NoDay

(* A commit charges what fits in at that very moment.                        *)
LEMMA CommitCharges ==
  ASSUME TransactionInv, Dated, NEW c \in Calls, Commit(c)
  PROVE  \E m \in Messages, d \in 1..today : Quota!Charge(m, d)
<1> DEFINE m == call[c].msg  d == call[c].day
<1>1. /\ TypeOK /\ CallInv(c) /\ call[c].pc = "commit"
      /\ reserved' = [reserved EXCEPT ![m] = d]
      /\ UNCHANGED environment
  BY DEF TransactionInv, Commit, At
<1>2. /\ m \in Messages /\ d \in 1..MaxDay /\ d <= today /\ reserved[m] = NoDay
      /\ Usage(reserved, SenderOf[m], d) + RecipientCount(m) <= call[c].limit
      /\ call[c].limit <= highest[SenderOf[m]]
  BY <1>1 DEF CallInv, Owner, Dated
<1>3. SenderOf[m] \in Senders
  BY <1>2, LedgerAssumption
<1>4. /\ call[c].limit \in Nat /\ highest[SenderOf[m]] \in Nat
      /\ RecipientCount(m) \in Nat /\ Usage(reserved, SenderOf[m], d) \in Nat
  BY <1>1, <1>2, <1>3, ReadLimits, LimitsAreNumbers, RecipientsAreFinite, UsageIsFinite
<1>5. Usage(reserved, SenderOf[m], d) + RecipientCount(m) <= highest[SenderOf[m]]
  BY <1>2, <1>4
<1>6. d \in 1..today
  BY <1>1, <1>2 DEF TypeOK
<1>7. Quota!Charge(m, d)
  BY <1>1, <1>2, <1>5, SameLedger DEF Quota!Charge, environment
<1>8. QED
  BY <1>2, <1>6, <1>7

(* A higher limit raises the ceiling, a lower one leaves it.                 *)
LEMMA LimitRaises ==
  ASSUME TransactionInv, NEW a \in Senders, ChangeLimit(a)
  PROVE  Quota!Raise
<1>1. TypeOK /\ UNCHANGED <<reserved, today>>
  BY DEF TransactionInv, ChangeLimit
<1>2. PICK l \in Limits : highest' = [highest EXCEPT ![a] = IF l > @ THEN l ELSE @]
  BY DEF ChangeLimit, ValidLimits
<1>3. l \in Nat /\ highest \in [Senders -> Nat]
  BY <1>1, TransactionAssumption DEF TypeOK
<1>4. highest' \in [Senders -> Nat]
  BY <1>2, <1>3
<1>5. \A b \in Senders : highest[b] <= highest'[b]
  BY <1>2, <1>3
<1>6. QED
  BY <1>1, <1>4, <1>5 DEF Quota!Raise

(* Every step of the transaction is a step of the daily quota or changes     *)
(* nothing that it sees.                                                     *)
LEMMA StepRefinesQuota ==
  TransactionInv /\ Dated /\ [Next]_vars => [Quota!Next]_(Quota!quota)
<1> SUFFICES ASSUME TransactionInv, Dated, [Next]_vars PROVE [Quota!Next]_(Quota!quota)
  OBVIOUS
<1>1. ASSUME NEW c \in Calls, NEW m \in Messages, Statement(c) \/ Abort(c) \/ Begin(c, m)
      PROVE  [Quota!Next]_(Quota!quota)
  <2>1. CASE Commit(c)
    BY <2>1, CommitCharges DEF Quota!Next
  <2>2. CASE UNCHANGED reserved
    BY <1>1, <2>2, OwnStep DEF TransactionInv, environment, Quota!quota
  <2>3. QED
    BY <1>1, <2>1, <2>2, OnlyCommitReserves
<1>2. ASSUME NEW c \in Calls, Statement(c) \/ Abort(c) PROVE [Quota!Next]_(Quota!quota)
  <2>1. call[c].pc # "idle"
    BY <1>2 DEF Statement, Abort, At, LockMessage, LockSender, FindExisting,
                FindSender, SumUsage, Insert, Commit
  <2>2. call[c].msg \in Messages
    BY <2>1 DEF TransactionInv, CallInv
  <2>3. QED
    BY <1>1, <1>2, <2>2
<1>3. CASE \E a \in Senders : ChangeLimit(a)
  BY <1>3, LimitRaises DEF Quota!Next
<1>4. CASE \E a \in Senders : SetSenderActive(a)
  BY <1>4 DEF SetSenderActive, Quota!quota
<1>5. CASE Midnight
  BY <1>5 DEF Midnight, Quota!Next, Quota!Midnight
<1>6. CASE UNCHANGED vars
  BY <1>6 DEF vars, environment, Quota!quota
<1>7. QED
  BY <1>1, <1>2, <1>3, <1>4, <1>5, <1>6 DEF Next

(* reserveQuota, statement by statement and with every interleaving, limit   *)
(* change, rollback and midnight, is the daily quota that compares and       *)
(* charges in one step.                                                      *)
THEOREM TransactionImplementsDailyQuota == Spec => ImplementsDailyQuota
<1>1. Init => Quota!Init
  BY TransactionAssumption, SameLedger DEF Init, Quota!Init
<1>2. QED
  BY <1>1, StepRefinesQuota, TransactionInvAlways, DatedAlways, PTL
     DEF Spec, ImplementsDailyQuota, Quota!Spec

-----------------------------------------------------------------------------
(* No standstill.                                                            *)

AfterMessageLock == {"lockSender"} \cup Locked

(* A lock is held for a call that has taken it and is still at work, in the  *)
(* order message, then sender.                                               *)
HoldersInv ==
  /\ \A m \in Messages : messageLock[m] # Nobody =>
       call[messageLock[m]].pc \in AfterMessageLock /\ call[messageLock[m]].msg = m
  /\ \A a \in Senders : senderLock[a] # Nobody =>
       call[senderLock[a]].pc \in Locked /\ Owner(senderLock[a]) = a

Waits(c) ==
  \/ At(c, "lockMessage") /\ messageLock[call[c].msg] # Nobody
  \/ At(c, "lockSender") /\ senderLock[Owner(c)] # Nobody

(* Whenever calls are at work, one of them waits for nobody.                 *)
NoStandstill ==
  (\E c \in Calls : ~At(c, "idle")) => \E c \in Calls : ~At(c, "idle") /\ ~Waits(c)

(* A step of a call takes a lock or frees its own ones, and goes on behind   *)
(* the lock it has taken.                                                    *)
LEMMA StepKeepsHolders ==
  ASSUME TypeOK, HoldersInv, NEW c \in Calls, NEW m \in Messages,
         call[c].pc # "idle" => call[c].msg \in Messages,
         Statement(c) \/ Abort(c) \/ Begin(c, m)
  PROVE  HoldersInv'
<1>1. /\ DOMAIN call = Calls /\ call[c] \in CallRecords /\ Nobody \notin Calls
      /\ \A t \in Calls \ {c} : call'[t] = call[t]
      /\ \A n \in Messages : messageLock[n] \in Calls \cup {Nobody}
      /\ \A a \in Senders : senderLock[a] \in Calls \cup {Nobody}
  BY OwnStep, TransactionAssumption DEF TypeOK
<1>2. CASE Finish(c)
  BY <1>1, <1>2 DEF Finish, Release, HoldersInv, Owner
<1>3. ASSUME NEW pc \in AfterMessageLock, UNCHANGED locks, call[c].pc # "idle",
             call'[c].pc = pc, call'[c].msg = call[c].msg,
             call[c].pc \in Locked => pc \in Locked
      PROVE  HoldersInv'
  BY <1>1, <1>3 DEF HoldersInv, Owner, locks
<1>4. ASSUME NEW pc \in Statements, Goto(c, pc) PROVE call'[c].pc = pc /\ call'[c].msg = call[c].msg
  BY <1>1, <1>4 DEF Goto, CallRecords
<1>5. CASE Begin(c, m)
  BY <1>1, <1>5 DEF Begin, At, HoldersInv, Owner, AfterMessageLock, Locked, locks
<1>6. CASE LockMessage(c)
  <2>1. /\ call'[c].pc = "lockSender" /\ call'[c].msg = call[c].msg
        /\ messageLock' = [messageLock EXCEPT ![call[c].msg] = c]
        /\ senderLock' = senderLock /\ call[c].pc = "lockMessage"
    BY <1>4, <1>6 DEF LockMessage, At, Statements
  <2>2. DOMAIN messageLock = Messages
    BY DEF TypeOK
  <2>3. ASSUME NEW n \in Messages, messageLock'[n] # Nobody
        PROVE  call'[messageLock'[n]].pc \in AfterMessageLock /\ call'[messageLock'[n]].msg = n
    BY <1>1, <2>1, <2>2, <2>3 DEF HoldersInv, AfterMessageLock, Locked
  <2>4. ASSUME NEW a \in Senders, senderLock'[a] # Nobody
        PROVE  call'[senderLock'[a]].pc \in Locked /\ SenderOf[call'[senderLock'[a]].msg] = a
    BY <1>1, <2>1, <2>4 DEF HoldersInv, Locked, Owner
  <2>5. QED
    BY <2>3, <2>4 DEF HoldersInv, Owner
<1>7. CASE LockSender(c)
  <2>1. /\ call'[c].pc = "findExisting" /\ call'[c].msg = call[c].msg
        /\ senderLock' = [senderLock EXCEPT ![Owner(c)] = c]
        /\ messageLock' = messageLock /\ call[c].pc = "lockSender"
    BY <1>4, <1>7 DEF LockSender, At, Statements
  <2>2. DOMAIN senderLock = Senders
    BY DEF TypeOK
  <2>3. ASSUME NEW n \in Messages, messageLock'[n] # Nobody
        PROVE  call'[messageLock'[n]].pc \in AfterMessageLock /\ call'[messageLock'[n]].msg = n
    BY <1>1, <2>1, <2>3 DEF HoldersInv, AfterMessageLock, Locked
  <2>4. ASSUME NEW a \in Senders, senderLock'[a] # Nobody
        PROVE  call'[senderLock'[a]].pc \in Locked /\ SenderOf[call'[senderLock'[a]].msg] = a
    BY <1>1, <2>1, <2>2, <2>4 DEF HoldersInv, Locked, Owner
  <2>5. QED
    BY <2>3, <2>4 DEF HoldersInv, Owner
<1>8. CASE FindExisting(c)
  <2>1. CASE Goto(c, "findSender") /\ UNCHANGED locks
    BY <1>3, <1>4, <1>8, <2>1 DEF FindExisting, At, AfterMessageLock, Locked, Statements
  <2>2. QED
    BY <1>2, <1>8, <2>1 DEF FindExisting
<1>9. CASE FindSender(c)
  <2>1. CASE /\ call' = [call EXCEPT ![c].pc = "sumUsage", ![c].limit = limit[Owner(c)]]
             /\ UNCHANGED locks
    <3>1. call'[c].pc = "sumUsage" /\ call'[c].msg = call[c].msg
      BY <1>1, <2>1 DEF CallRecords
    <3>2. QED
      BY <1>3, <1>9, <2>1, <3>1 DEF FindSender, At, AfterMessageLock, Locked
  <2>2. QED
    BY <1>2, <1>9, <2>1 DEF FindSender
<1>10. CASE SumUsage(c)
  <2>1. CASE /\ call' = [call EXCEPT ![c].pc = "insert", ![c].sum = Sum(c)]
             /\ UNCHANGED locks
    <3>1. call'[c].pc = "insert" /\ call'[c].msg = call[c].msg
      BY <1>1, <2>1 DEF CallRecords
    <3>2. QED
      BY <1>3, <1>10, <2>1, <3>1 DEF SumUsage, At, AfterMessageLock, Locked
  <2>2. QED
    BY <1>2, <1>10, <2>1 DEF SumUsage
<1>11. CASE Insert(c)
  BY <1>3, <1>4, <1>11 DEF Insert, At, AfterMessageLock, Locked, Statements, locks
<1>12. QED
  BY <1>2, <1>5, <1>6, <1>7, <1>8, <1>9, <1>10, <1>11 DEF Statement, Commit, Abort

(* Locks are always held as HoldersInv says.                                 *)
LEMMA HoldersInvAlways == Spec => []HoldersInv
<1>1. Init => HoldersInv
  BY DEF Init, HoldersInv
<1>2. TransactionInv /\ HoldersInv /\ [Next]_vars => HoldersInv'
  <2> SUFFICES ASSUME TransactionInv, HoldersInv, [Next]_vars PROVE HoldersInv'
    OBVIOUS
  <2>1. TypeOK /\ (\A c \in Calls : call[c].pc # "idle" => call[c].msg \in Messages)
    BY DEF TransactionInv, CallInv
  <2>2. ASSUME NEW c \in Calls, Statement(c) \/ Abort(c) PROVE call[c].pc # "idle"
    BY <2>2 DEF Statement, Abort, At, LockMessage, LockSender, FindExisting,
                FindSender, SumUsage, Insert, Commit
  <2>3. CASE UNCHANGED <<call, messageLock, senderLock>>
    BY <2>3 DEF HoldersInv, Owner
  <2>4. QED
    BY <2>1, <2>2, <2>3, StepKeepsHolders
       DEF Next, ChangeLimit, SetSenderActive, Midnight, vars, locks
<1>3. QED
  BY <1>1, <1>2, TransactionInvAlways, PTL DEF Spec

(* Concurrent reserveQuota calls never all wait for each other: message      *)
(* locks are waited for by calls that hold nothing, sender locks are held    *)
(* only by calls that need no further lock.                                  *)
THEOREM NoStandstillAlways == Spec => []NoStandstill
<1>1. TransactionInv /\ HoldersInv => NoStandstill
  <2> SUFFICES ASSUME TransactionInv, HoldersInv, NEW c \in Calls, ~At(c, "idle")
               PROVE  \E t \in Calls : ~At(t, "idle") /\ ~Waits(t)
    BY DEF NoStandstill
  <2>1. /\ \A t \in Calls : ~At(t, "idle") =>
              call[t].msg \in Messages /\ Owner(t) \in Senders
        /\ \A n \in Messages : messageLock[n] \in Calls \cup {Nobody}
        /\ \A a \in Senders : senderLock[a] \in Calls \cup {Nobody}
    BY LedgerAssumption DEF TransactionInv, CallInv, TypeOK, At, Owner
  <2>2. ASSUME NEW t \in Calls, call[t].pc \in Locked PROVE ~At(t, "idle") /\ ~Waits(t)
    BY <2>2 DEF Locked, Waits, At
  <2>3. ASSUME NEW t \in Calls, At(t, "lockSender"), Waits(t)
        PROVE  \E u \in Calls : ~At(u, "idle") /\ ~Waits(u)
    <3>1. senderLock[Owner(t)] \in Calls /\ call[senderLock[Owner(t)]].pc \in Locked
      BY <2>1, <2>3 DEF Waits, At, HoldersInv
    <3>2. QED
      BY <2>2, <3>1
  <2>4. ASSUME NEW t \in Calls, call[t].pc \in AfterMessageLock
        PROVE  \E u \in Calls : ~At(u, "idle") /\ ~Waits(u)
    BY <2>2, <2>3, <2>4 DEF AfterMessageLock, At
  <2>5. CASE At(c, "lockMessage") /\ Waits(c)
    <3>1. /\ messageLock[call[c].msg] \in Calls
          /\ call[messageLock[call[c].msg]].pc \in AfterMessageLock
      BY <2>1, <2>5 DEF Waits, At, HoldersInv
    <3>2. QED
      BY <2>4, <3>1
  <2>6. QED
    BY <2>3, <2>5 DEF Waits
<1>2. QED
  BY <1>1, TransactionInvAlways, HoldersInvAlways, PTL
=============================================================================
