# SendPlug: a TLA+ verification project

SendPlug lets an account send mail through its own Gmail sender: an HTTP API
accepts a message, PostgreSQL keeps its Delivery row, a BullMQ queue in Redis
carries the job, and a worker speaks SMTP with smtp.gmail.com. Around that path
stand the account API with its senders and tokens, sign-in by password or
WorkOS, and the importer that moves the data of the older Python service to
PostgreSQL. These modules model all of these, check them with TLC and prove
their main safety properties with TLAPS. All paths below are relative to the
repository.

## 1. Inventory

| Component | State | Operations | Hard parts |
|---|---|---|---|
| Delivery service (`apps/api/src/delivery.ts`, `adapters.ts`, `index.ts`) | a request's position in its handler | create row, enqueue, mark failed, read status | row and job are not one transaction; `queue.add` may reject although it added |
| Delivery rows (`packages/database/src/deliveries.ts`, `schema.prisma`) | status, error, subject, recipients | create, update status | the API's update has no guard on the status |
| Email processor (`apps/worker/src/processor.ts`, `database-adapter.ts`) | one call per worker slot | load, claim, checks, reserve, decrypt, send, mark sent or failed | redelivery while a call is at work, failures after Gmail accepted, stale sender snapshot |
| BullMQ wiring (`apps/worker/src/index.ts`) | jobs, attempts, locks | take, complete, retry, fail, stall | locks expire, workers die, attempts are bounded |
| Quota (`packages/database/src/quota.ts`) | QuotaReservation rows | `reserveQuota` | concurrent read/sum/insert, limit boundary, midnight, retries |
| SMTP transport (`apps/worker/src/smtp.ts`) | socket, reader | `send`, `testCredentials` | partial refusals, silence, hang-ups, ambiguous outcomes |
| Send rate limiter (`apps/api/src/send-rate-limit.ts`) | Redis counter per sender, or per account for connection tests | `check` | counter and expiry must not come apart |
| Account API (`apps/api/src/account-api.ts`, `adapters.ts`, `packages/database/src/senders.ts`, `tokens.ts`) | senders, API tokens | create, update, test, archive senders; create, rebind, revoke tokens; verify | caps are counted before the insert, reads are outdated when the write runs, revocation during a send |
| Local authentication (`apps/api/src/local-auth.ts`, `adapters.ts`) | users, sessions and attempt counters in Redis | register, login, recovery login, logout, limiter | the limiter's two Redis commands are not atomic |
| WorkOS identities (`apps/api/src/auth.ts`, `index.ts`, `packages/database/src/identity.ts`) | login states, account, user, membership | login, callback, resume | concurrent first logins, racing callbacks |
| Importer (`packages/database/src/import-sqlite.ts`) | PostgreSQL copy of SQLite | import, verify, repair, rollback | the rollback is fenced against later writes, lock orders differ |
| Legacy Python (`src/*.py`) | SQLite, Redis, Celery | campaigns, quota, sending | campaign edit/start races, resend on reconnect, acks_late |
| Contracts, MIME, encryption, health check, environment, static files, web console | none of interest | pure functions and reads | - |

How they interact: the API calls PostgreSQL and Redis, the worker takes jobs
from Redis, calls PostgreSQL and Gmail, and reports to Redis. No process calls
another directly. The row is the only memory that survives both a lost job and
a dead worker, so correctness rests on who may write it and when.

What makes each correct: a message is mailed at most once and its status never
says more than happened (delivery); mail is covered by quota and a sender stays
within its daily limit (quota); `send` returns only after acceptance, for all
recipients or none (SMTP); caps and revocations hold against concurrent requests
(account); a limiter always lets go again (authentication); an import is
complete and a rollback loses nothing newer (importer).

## 2. Modules

| Module | What it is |
|---|---|
| `DeliveryPipeline` | API handler, BullMQ, worker slots, database, Gmail and clock, one action per awaited step |
| `DeliveryProperties` | types, safety, action and liveness properties, documented claims that fail |
| `MessageLifecycle` | abstract specification: what a client may rely on for one message |
| `QuotaLedger` | what a set of reservations adds up to; shared by the next module and the pipeline |
| `DailyQuota` | abstract specification: comparing and charging is one step |
| `QuotaTransaction` | `reserveQuota` statement by statement under its two advisory locks |
| `GmailSmtp` | one SMTP session, `send` or `testCredentials` |
| `OneSend` | abstract specification of `SmtpTransport.send` for its caller |
| `SendRateLimit` | the fixed window counter: one Lua script |
| `AccountApi` | the writing handlers of the account API, one action per awaited statement |
| `SendGate` | a bearer request's way to the Delivery row or to a status, composed with `AccountApi` |
| `SignIn` | registration, login, WorkOS callback, limiter and sessions |
| `ImportFence` | import, verification, repair and rollback beside the service's writes |
| `MCDelivery`, `MCQuota`, `MCGate`, `MCSignIn`, `MCImport` | constants for TLC |
| `DeliveryProofs`, `SafetyProofs`, `LedgerProofs`, `TransactionProofs`, `SmtpProofs`, `GateProofs`, `SignInProofs`, `ImportProofs` | theorems and proofs |

`DeliveryPipeline` uses `reserveQuota` and `send` as single steps.
`QuotaTransaction` and `GmailSmtp` open these steps up. The two levels of the
reservation meet in `DailyQuota`, which both implement: the transaction because
its locks make read, sum, insert and commit behave as one comparison and charge,
the pipeline because its step is just that. A session implements `OneSend`,
whose ends are the outcomes that the pipeline offers (`SmtpOutcomes`).

`SendGate` EXTENDS `AccountApi`, which EXTENDS `SendRateLimit`: its next-state
relation interleaves the statements of both kinds of requests. It ends with the
row's insert, where `DeliveryPipeline` begins.

### State and code

The delivery path:

* `api[m]`: `createAndEnqueue` for message m. Its ends: accepted (202), rejected
  (create threw), unavailable (503 after `markFailed`), error (500).
* `row[m]`: the Delivery row; `code` is `details.code` or the error text. The
  `retryable` flag is a function of the code (`RetryableCodes`).
* `job[m]`: the BullMQ job with `jobId` m; the lock is the slot that owns it.
  `attempts` is `attemptsMade`, `stalls` BullMQ's stalled counter.
* `slot[s]`: the processor call in one of the `WORKER_CONCURRENCY` slots of any
  worker process, with what it keeps across awaits: the loaded sender's active
  flag and the code of the error it is handling.
* `reserved[m]`: the date of m's reservation. The recipients are constant, so
  `SUM(recipientCount)` is the number of units in `QuotaLedger!Units`.
* `gmail[m]`: how often Gmail accepted m, and on which day last.

Actions of the pipeline and their code: `CreateDelivery` (`createDelivery`),
`Enqueue` and `MarkUnavailable` (`createAndEnqueue`), `Load`, `StartDelivery`,
`ReserveQuota`, `DecryptFails`, `SmtpSend`, `MarkSent`, `MarkFailed` (the
awaits of `createEmailProcessor` over `PrismaWorkerStore`), `Complete`, `Retry`,
`FailForGood` (the wrapper in `runWorker` and BullMQ's reaction), `Take`,
`Stall`, `LoseLock`, `WorkerCrash`, `ApiCrash` (external), `SetSenderActive`
(DELETE and PUT of a sender), `Midnight`.

A database call that fails is told apart by its effect: `db_error` throws
without it, `db_ack_lost` throws after it committed. The same for the queue
(`queue_error`, `queue_ambiguous`) and SMTP (`smtp_error`, `smtp_ambiguous`).
Every property names the faults it needs to exclude:

* `ErrorsExact`: no `queue_ambiguous`, no `db_ack_lost`.
* `CopySafe`: `ErrorsExact`, no `smtp_ambiguous`, and `db_error` not together
  with `crash` or `lock_lost`. The last combination does duplicate mail: the
  failed `markSent` leads to FAILED, and a redelivered job claims FAILED rows.

Simplifications: the recipient list of the row and of the job are taken as equal
(both derive from the same request); sender, account and SMTP settings other
than `active` do not change; the limit is a constant in the pipeline and
changes only in `QuotaTransaction`. Of the
permanent errors, `delivery_missing` cannot occur (the row exists before the
job), and `gmail_starttls_required` and `credential_missing` end like
`delivery_mismatch`. `invalid_job` does not come from parsing, since the job was
parsed when it was queued, but from `buildMime`, which throws a TypeError at a
line break in the subject or the sender's name, after the reservation and before
the session: it is an outcome of `DecryptFails`, next to `credential_invalid`.
`reserveQuota` in the pipeline uses the day of its step; a reservation dated one
day earlier, because midnight passed between clock and commit, is covered in
`QuotaTransaction`. A session that Gmail accepts after the client gave up
counts as accepted at the step of the session. That a silent server ends a
session (`Broken`) rests on the socket timeout. While the client waits for
`secureConnect`, the timeout is that of the plain socket below, and that its
destruction reaches the waiter as an error is taken on trust from the runtime.

The account API and the gate:

* `sender[s]`, `token[k]`: the rows; `account = None` and `sender = None` stand
  for no row. A token belongs to the account of its sender (`AccountOf`), as in
  the code's where clauses.
* `request[r]`: a handler call; `Program` lists the statements that each handler
  awaits, the store's own reads included, and `step` is the next one.
* `call[c]`: a bearer request with what it has read: the token row is read once
  (`Verify`) and everything after goes by that.
* `window[k]`: the limiter's counter of a sender (sends) or account (connection
  tests). Counts saturate at the limit, because all counts above are refused
  alike. `passed` is history.
* `entitled[c]`, `open[c]`: history, written by `Witness` in every step: for which
  senders the token stood at some moment of the call, and whether the sender
  was active at some moment since the limiter admitted the call.

A refusal that depends on data left out (an address twice, a bad password, a
wrong `from`) is a choice (`Refuse`, `CheckScope`). Token scopes are chosen when
the row is written, which is the earliest moment anyone can tell.

Sign-in:

* `users`, `homes`: committed rows. An account, its user and the membership are
  always committed together; `homes` holds the pairs. The random account id is
  chosen at the commit, before which nobody can see it.
* `call[c]`: a request at its next statement; `inserted` says that its open
  transaction holds the unique key of its user.
* `window[k]`: the limiter key of a kind of request and an address; a count of 0
  is a missing key. `session`: identities with a live session, of which there
  may be several with the same effect. `login[s]`: a WorkOS login state.

Every stored user has a membership: all writers commit both together, and an
imported user is taken to come with its own. (For a user without one,
`identity.ts:24-34` would create an account without inserting the user.) For a
stored user, `tx.user.update` belongs to the read in `FindUser`; its wait for the
row's lock is left out, which no transaction holds for longer than its own run.

The importer:

* `db[t]`: for each table what became of the file's rows (absent, without
  microseconds, exact, changed by the service), whether one differs from the file
  without a trace in its timestamps (`edited`), and whether the service added
  rows (`newer`). `defect`: what its readers find wrong with the file. There is
  one SQLite file for all tools; imports of different files, whose rows could
  have different keys, are not modelled.
* `job[j]`: one of the tools or one of the service's transactions (`Writes`) with
  the statements it has done and its uncommitted writes. Statements are verbs on
  tables: `empty`, `insert`, `stamp`, `compare`, `exact`, `none`, `baseline`,
  `lock`, `delete` for the tools, `create`, `change`, `edit`, `touch` for the
  service.
* Most writes of the service leave a trace that stays: a new row, or a timestamp
  of an imported one. PUT of a token does not (`updateAccountApiToken`; ApiToken
  has no `updatedAt`): it is `edit`, and after another PUT the row may equal the
  file again (`After`). `compare` sees an edit, `exact` and `baseline` look at
  timestamps only and do not.
* `clean`, `alike`, `matched`, `disturbed`, `retouched`: history of an import or a
  verification, for the properties. Since it began: was the database empty; did
  it hold the file's rows up to edits, or exactly; has another tool committed;
  was a token edited.
* Transactions are READ COMMITTED. `Blockers` says who waits for whom: everyone
  for an ACCESS EXCLUSIVE lock, such a lock for everyone who used the table, an
  insert for an uncommitted one with the same keys. `BreakDeadlock` aborts a
  member of a circle.

A verification by itself is no transaction: the reads of a `Promise.all` are
spread over the connections of the pool and run in any order (`Together`,
`Before`). Inside a transaction they share its connection and run in their order
of writing. A rollback reads the file behind its locks, the model looks at the
file's defects when it begins, which makes no difference to the database. Foreign keys
appear as `touch` of the parent's table; cascades never happen, since the rollback
deletes children first.

## 3. Runs

| Run | Shows | Bounds |
|---|---|---|
| `pipeline_crash` | exclusive claim, one copy, refused means never mailed, SENT is final, refinement of `MessageLifecycle`, under crashes, lost locks, SMTP and queue errors | 2 messages, 2 slots, 2 attempts, 1 stall |
| `pipeline_db` | mail is covered by quota, permanent failures stay, refinement, under database errors and midnight | 2 messages that ask for 3 units of 2, 2 slots, 2 days |
| `pipeline_faults` | types, SENT means mailed, bounded copies, jobs end, under every fault at once | 1 message, 2 slots, all subjects |
| `pipeline_live` | every created row settles without crashes and database errors | 1 message, 2 slots, 3 attempts, 2 days |
| `quota_transaction` | limit kept, retries keep their reservation, refinement of `DailyQuota`, calls end | 2 calls, 2 messages, limits 1 and 2, 2 days |
| `smtp_session` | all recipients or none, replies in step, refinement of `OneSend`, sessions end | 2 recipients |
| `send_gate` | caps, tokens stay in their account, answers are authorized, archival stops sends, limiter kept | 2 accounts, 2 senders, 1 token, 1 message, caps and limits 1, 2 requests and 1 call of which 2 at work (`MaxAtWork`), 1 open window (`MaxOpen`) |
| `sign_in` | one account per user, sessions of stored users, attempts bounded, states used once, requests end | 2 requests at a time, one user of each provider, 3 accounts, 1 address, 1 login state, at most 2 registrations and 1 login per window |
| `import_fence` | newer rows survive, imports are whole, verified means equal, tools end | 2 jobs at a time, any number one after the other; 4 tables of 13 (`MCTables`) |
| `ambiguous_resent` | violation: a message with an ambiguous outcome is retried | 1 message, 1 slot |
| `padded_subject` | violation: an accepted subject with blanks around it can never be sent | 1 message, 1 slot |
| `lockout_forever` | violation: a limiter counter without an expiry reaches the maximum | 2 requests, 1 address |

Why the bounds are enough to be interesting: two slots are what it takes for two
calls to meet at one row, since a third would have to meet one of them; two
attempts and one stall allow three deliveries of one job; two messages with
three recipients against a limit of two make both the refusal and the exact fit
happen; two days make a reservation older than its session. Messages only
interact through slots and quota, which is why the runs with all faults and the
liveness runs use one message. Symmetry of slots is used where no liveness is
checked; messages are permuted only where they have the same recipients. The
theorems of section 5 remove the bounds from the safety properties.

In `send_gate` two requests meet at one row, or one request and a call; a cap of 1
is passed by the second of two creations, a limit of 1 by the second check;
two accounts and two senders are what a token needs to go astray. In
`sign_in` two requests race for a user, a limiter key, a login state; the third
account makes the recovery user's own, the registered one's and the WorkOS one's.
In `import_fence` two jobs are a tool and its disturbance, and a verification
can meet several transactions one after the other. `api_tokens` is imported,
changed and edited by the service, `quota_reservations` is imported and added
to (a row added to a table already compared, while an edit is taken back),
`account_suppressions` is only imported and is locked in different orders by
repair and rollback, `deliveries` is only written by the service. `MaxAtWork` and `MaxOpen` are guards of `Next`; the
theorems hold with them at any value.

`CHECK_DEADLOCK FALSE`: the gate, sign-in and the importer may use up the ids,
accounts and states of the instance. In the pipeline, once every request is
answered and every job is over the
system rests, apart from the owner switching a sender on and off; a
finished SMTP session has nothing left to do.

Every property has a mutant in `PROJECT.json`: a change of one definition that a
plausible bug would make (a status too many in the claim, a limit compared too
early, an unacknowledged attempt that is not counted), under which TLC finds
the property violated. The wrong variants stand in the modules
just before the definitions that they replace.

## 4. Fairness

`DeliveryPipeline!Fairness` is weak fairness of each running process: a handler
whose await settled is resumed by the event loop, every SMTP read has a 30 s
timeout, BullMQ hands out waiting jobs and looks for stalled ones every 30 s.
Faults, requests, archivals and the end of a day are never owed. Jobs that wait
only compete for slots, and a slot always finishes its call, so weak fairness of
`Take` suffices.

`QuotaTransaction!FairSpec` adds strong fairness of the lock steps: PostgreSQL
queues the waiters of an advisory lock, so a waiter is not passed over forever.

`SignIn!Fairness`: a statement that can settle does (weak fairness of `Step`). A
waiter for a unique key is woken when the holder's transaction ends, so one that
can go on infinitely often does (strong fairness of `InsertUser`). Redis expiry,
failures and new requests are never owed.

`ImportFence!Fairness`: PostgreSQL queues the waiters of a lock, so a
statement that is possible again and again runs (strong fairness of `Execute`),
a finished transaction commits, and a deadlock is found after
`deadlock_timeout`.

`GmailSmtp!FairSpec` owes steps of the client only, including the timeout;
Gmail may stay silent.

## 5. What is proved

Every safety property of a passing run is also proved, for every number of
messages, slots, senders, recipients, attempts, stalls, days, calls, requests,
jobs and every set of tables. The assumptions on the constants are those of
`QuotaLedger`, `DeliveryPipeline`, `QuotaTransaction`, `AccountApi`, `SendGate`
and `SignIn`; `GmailSmtp` needs at least one recipient, and `ImportFence` that
the tables of the instance are tables of the schema and that `local_identities`
comes with `accounts`, without which its rows would have no parent.

| Theorem | Faults allowed | Inductive invariant |
|---|---|---|
| `DeliveryProofs!TypeCorrect` | all | `TypeInv`: types, a job that is not over has attempts and stalls left (`JobCounts`), a slot at work has a message (`BusySlots`) |
| `SafetyProofs!SentMeansMailedAlways` | all | `MailedInv`: a call comes to `markSent` or to its end only with a copy at Gmail |
| `SafetyProofs!BoundedCopiesAlways` | all | `PaidInv`: copies and calls that may still add one are at most the deliveries that BullMQ has made of the job |
| `SafetyProofs!SoleClaimAlways`, `RefusedNeverMailedAlways`, `SentIsFinalAlways` | `ErrorsExact` | `ClaimInv`: the claim is exclusive, and a message whose request was not accepted is untouched by queue and workers (`Origins`) |
| `SafetyProofs!PermanentIsTerminalAlways` | `ErrorsExact` without crashes and lost locks (`NoRedelivery`) | `FinalInv`: a row that failed for good has no handler, no waiting job and no call ahead that could write it; `Owned`: a call at work holds its job's lock |
| `SafetyProofs!AtMostOneCopyAlways`, `PipelineImplementsLifecycle` | `CopySafe` | `CopyInv`: a copy exists only for a call past its session, for a SENT row, or for a message that is over |
| `SafetyProofs!QuotaCoversMailAlways`, `PipelineImplementsDailyQuota` | all | `QuotaInv`: a session is opened only with a reservation, and the limit holds; the refinement needs `TypeInv` only |
| `TransactionProofs!TransactionTypes`, `LimitKeptAlways`, `SumIsFreshAlways`, `RetryNeverAsksAgainAlways` | aborts at any statement | `TransactionInv`: a call past its second lock holds the sender lock, and what it has read since is still true |
| `TransactionProofs!TransactionImplementsDailyQuota`, `NoStandstillAlways` | the same | with it `Dated`: no call is dated later than today, and `HoldersInv`: a lock is held by a call that is past it |
| `SmtpProofs!SessionTypes`, `AllOrNothingAlways`, `InStepAlways`, `SessionImplementsOneSend` | refusals, lost answers, silence, hang-ups at any step | `SessionInv`: Gmail is at most one command ahead of the client, the inbox holds the rest of one reply, and the recipients taken are those of the steps behind |
| `GateProofs!GateTypesHold`, `Caps`, `Authorized`, `ArchiveStops`, `Limiters`, `TokensStay` | an answer instead of any statement, a lost limiter answer | `GateInv`: a request past its reads has read what is still true (`Informed`), a call trusts only what its token stood for (`Trusted`, `Witnessed`) |
| `SignInProofs!SignInTypes`, `OneHomeHolds`, `SessionsHold`, `AttemptsHold`, `StatesHold` | failure at any statement, lost acknowledgements | `SignInInv`: users and accounts correspond (`HomesInv`), a call that holds a key inserted a user nobody else has (`Knows`, `Apart`), a state that is taken is with at most one call (`LoginsInv`) |
| `ImportProofs!FenceInvAlways`, `FenceTypes`, `ImportIsWholeAlways`, `VerifyIsTrueAlways`, `NewerSurvivesAlways` | a tool or transaction that stops at any statement, deadlocks | `FenceInv`: fences exclude every other transaction (`Exclusive`), written tables are locked (`Owned`), and a job knows of each table what its statements so far have found (`Knows`) |

### The pipeline

`SoleClaim` says nothing about who wrote a row, so a step of the API could break
it unless `Origins` bounds when the API writes. `AtMostOneCopy` is not inductive
because a call about to send must be known to find no copy, which is what the
status of the row stands for; `RowCopies` makes this meaning explicit, and
`Owned` says that without crashes no call outlives its job's lock.

`BoundedCopies` compares a mailbox with two counters that no step changes at the
same time as it. `PaidInv` puts the calls on the way to a session in between: a
delivery of the job pays for one call, a call for one copy, and a job that is
over has been delivered at most `MaxAttempts + MaxStalls` times. It holds under
every fault, a lost lock included, where several calls work on one job.

`PermanentIsTerminal` rests on the queue alone, since `startDelivery` claims any
FAILED row. The theorem therefore states what the queue has to guarantee: no
crash and no lost lock. `pipeline_db` checks it under these assumptions too.

The refinement of `MessageLifecycle` treats each action of the pipeline: writes
of a row are `Create`, `Refuse`, `Start`, `Confirm` or `GiveUp`, an accepted
session is `Deliver`, everything else a stutter.

### The reservation

The comparison is made two statements before the insert, so the invariant
carries its result along: nobody else can insert for the sender while the lock is
held. The proof does not use the message lock, which shows that for the limit
the sender lock alone is enough. `SumIsFresh` is the heart of it and is stated as a
theorem; the run checks `DailyQuota` instead, which it implies together with the
date of the call. A commit is `Charge` of the call's own date, a limit that rises
above all earlier ones is `Raise`, everything else but `Midnight` a stutter.

`NoStandstill` is the part of `CallsEnd` that needs no fairness: calls that hold a
sender lock wait for nothing, and calls that wait for a message lock wait for
one that is past it, so some call can always go on.

`LedgerProofs` holds the counting lemma: a reservation adds exactly the
message's recipients to its sender's usage of its day and changes no other.

### The SMTP session

`AllOrNothing` is about Gmail's state, `InStep` about lines that may be on the
wire. `SessionInv` ties both to the client's position in the script: behind a
written command Gmail may or may not have acted, behind a read reply it has. A
reply in parts leaves the inbox with lines of one command only, and a line that
ends a reply is its last. Recipients are unbounded in the proof; a reply has one or
two lines in the model, since the reader treats all lines before the last
alike.

### The gate and sign-in

The facts that requests rely on are those that no step undoes: a row keeps its
owner, a revoked token stays revoked (`Grows`). The token that `UpdateToken`
writes by its id belongs to the account of the request because of that, not
because of the reads' moments. `CapsHold` counts, next to the rows, the creations
that have passed their count: the lemma `CapKept` shows that a step changes this
sum only by a request that clears the count, and then there was room.

For sign-in, `OneHome` needs that a transaction past `InsertUser` excludes the
others for its user, which is what `inserted` stands for; `AttemptsBounded` needs
that the admitted attempts are at most the counter; `StateUsedOnce` that a call
at the exchange has taken the state and no other call has it.

### The importer

The three properties are about moments that no single statement sees. An import
counts its tables one after the other without a lock; that there was a moment at
which all were empty follows by contraposition (`Clean`): while there has been
none, some table that it has not counted yet holds rows, and it will find them.

`VerifyIsTrue` is proved the same way for a verification by itself (`Matched`):
while the database has never equalled the file, some comparison that is still to
come will fail, in whatever order they run. This holds for differences that stay
(`Lasting`): added rows and timestamps that are not the file's. Two things
can take a difference away, and the property says so. Another tool may commit in
between. And an edit of a token may be taken back: then a verification can print
`verified: true` for a database that never equalled the file. A token is renamed
before the run, the senders are compared, a sender is added, the token gets its
old name, the tokens are compared. What is left in this case is that at some
moment the database held the file's rows and no others but for edits (`alike`),
and `import_fence` reaches states in which only this holds. A rollback is not
exposed to it: behind its fence the database equals the file when it has
verified, and until it has deleted the rows (`RollingBack`).

`NewerSurvives` needs the fences. Repair and rollback lock all tables before they
look at one (`FencedFirst`); behind the fence nothing changes (`Exclusive`), so
what the comparison found is still true when the rows are overwritten or deleted.
A repair fences the imported tables only, which is enough: it neither reads nor
writes the others. Its baseline compares timestamps and passes a row that was
edited; it then writes the row's timestamps, which nobody had changed, and keeps
the edit. So the property does not say that a repair leaves edited rows alone,
but that added rows, changed timestamps and edits survive it.

A statement about a table that is not part of the instance is left out (`Own`), so
an instance of four tables has all the statements of the tools that concern
them and the theorems hold for the whole schema.

### Only model-checked

`JobsEnd`, `Settles`, `CallsEnd`, `SessionEnds`, `RequestsEnd`, `ToolsEnd`:
liveness needs fairness and ENABLED, which the prover cannot handle. The three
expected violations are counterexamples and stay with TLC as well.

## 6. Where the code and its documentation differ

* `docs/operations/cutover.md:94` calls ambiguous SMTP outcomes terminal. Only
  those between `send` returning and `markSent` are; a session that breaks
  after the 250 to DATA is retried (`ambiguous_resent`). `BoundedCopies` bounds
  the damage: one copy per attempt and per stalled redelivery.
* `web/public/docs/index.html:131` describes `failed` as stopped and `queued` as
  waiting for a retry. Between attempts the row of a retryable failure says
  FAILED, and `startDelivery` claims it again
  (`worker/src/database-adapter.ts:39`). It also describes `sending` as reserved against
  quota, but the claim precedes the reservation.
* `web/public/docs/index.html:91` accepts any subject of 1 to 998 characters. One
  with blanks around it is accepted, queued and then always refused
  (`padded_subject`).
* `web/public/docs/index.html:153` promises a limit per UTC day. It is kept for
  reservations (`LimitKept`): a reservation keeps its date when the session or
  a retry falls on the next day (`quota.ts:41-45`), whose mail then exceeds the
  limit by what was carried over.
* `apps/api/src/local-auth.ts:177` promises another login in five minutes. If the
  limiter key ends between SET NX and INCR, the counter that INCR creates never
  expires, and once it has counted five attempts the address is locked out for
  good (`lockout_forever`). `AttemptsBounded` holds nevertheless: the limiter errs only
  on the side of refusing.
* `web/public/docs/index.html:154` and `:167` speak of a burst limit per API token;
  the counter belongs to the sender (`delivery.ts:163`), so the sender's tokens
  share it.
* `web/public/docs/index.html:156` lets status records expire after seven days;
  nothing in the TypeScript service deletes a Delivery row.
* `web/public/docs/index.html:80` binds a token to its sender at creation; PUT
  rebinds it to another sender of the account. `AnswersAreAuthorized` and
  `TokensStayHome` are stated with that in mind.
* The sender cap is known to be passable by concurrent requests
  (comment at `account-api.ts:199`); the token cap has the same gap without a
  comment. `CapsHold` says by how much.
* PUT of a sender without `active` reactivates it (`account-api.ts:236`).

## 7. Not modelled, and the plan

* Payload validation (`packages/contracts`), MIME and encryption: pure functions
  without state. A decryption failure and a refused header are outcomes in the
  pipeline.
* Worker heartbeat, health check and graceful close; environment parsing; static
  files; the web console, which holds no state the server depends on.
* Read-only routes: dashboard, lists, suppressions; the campaign route always
  answers 403.
* `packages/database/src/local-auth.ts` and `getAccountDashboard`: functions that no
  route of the API calls. The tables they would write are in `ImportFence`'s
  fence.
* `backupSqlite`, `inspectSqlite`, the dry run and the command line of the
  importer: they touch files only.
* The legacy Python service (`src/*.py`): it is replaced by the TypeScript one and
  switched off at the cutover; nothing of the new system calls it.

Left to do:

1. Proofs: the safety side of the remaining liveness properties, as
   `NoStandstill` is for `CallsEnd`: a measure that every step of a job or a
   session lowers, and a waiter in `SignIn` that always waits for one that can
   go on.
2. Two tokens and two calls in `send_gate`, beyond what five minutes allow.
3. Heartbeat and graceful close of the worker, if its shutdown gets more
   elaborate than closing the queue.
