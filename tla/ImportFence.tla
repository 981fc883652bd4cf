------------------------------ MODULE ImportFence ------------------------------
(***************************************************************************)
(* The SQLite importer (import-sqlite.ts) on a database that the service   *)
(* may be writing to: import, verification, repair of timestamps and       *)
(* rollback, statement by statement.  Transactions are READ COMMITTED: a   *)
(* statement sees what is committed and what its own transaction wrote,    *)
(* and keeps its lock on the table until the transaction ends.             *)
(***************************************************************************)
EXTENDS Naturals, Sequences

CONSTANTS Tables,  \* tables of the instance, of those named below: bound
          Jobs     \* transactions and verifications that run at a time

AllLegacy == {"accounts", "users", "memberships", "senders", "api_tokens",
              "quota_reservations", "campaigns", "campaign_recipients",
              "account_suppressions"}
AllNew == {"gmail_connections", "deliveries", "local_identities", "account_sessions"}
Legacy == Tables \cap AllLegacy

(* ensureEmpty does not count local_identities: a registration adds its      *)
(* identity together with its account, which is counted.                     *)
ASSUME FenceAssumption ==
  /\ Tables \subseteq AllLegacy \cup AllNew
  /\ "local_identities" \in Tables => "accounts" \in Tables

VARIABLES defect,  \* what is wrong with the SQLite file, or "none"
          db,      \* db[t]: the imported rows of t, whether the name, scopes or sender
                   \* of one was edited, whether the service added others
          job      \* job[j]: kind, statements done, uncommitted writes; history

vars == <<defect, db, job>>

-----------------------------------------------------------------------------
(* The SQLite file, one for all tools: what its readers refuse.  A rollback  *)
(* reads it behind its locks, which makes no difference to the database.     *)
Preflight == {"user_version", "missing_column", "integrity", "foreign_key"}
ReadImportData == {"wrong_type", "bad_timestamp", "unknown_status"}
ReadExactTimestamps == {"bad_timestamp", "too_precise"}
SourceInvariants == {"dangling_owner", "campaign_counters"}

ReadByTools == Preflight \cup ReadImportData \cup ReadExactTimestamps \cup SourceInvariants
Refused(kind) ==
  IF kind = "repair" THEN Preflight \cup ReadExactTimestamps ELSE ReadByTools
Defects == ReadByTools \cup {"none"}

-----------------------------------------------------------------------------
(* The statements of each kind of work: a verb and its table, in order.      *)
Each(verb, order) == [i \in 1..Len(order) |-> [verb |-> verb, table |-> order[i]]]

InsertOrder == <<"accounts", "users", "memberships", "senders", "api_tokens",
                 "quota_reservations", "campaigns", "campaign_recipients",
                 "account_suppressions">>
DeleteOrder == <<"campaign_recipients", "campaigns", "quota_reservations", "api_tokens",
                 "account_suppressions", "senders", "memberships", "users", "accounts">>

(* Wrong variant: only the tables about to be filled are counted.            *)
CountFilled == InsertOrder
CountOrder == <<"accounts", "users", "memberships", "gmail_connections", "senders",
                "api_tokens", "quota_reservations", "campaigns", "campaign_recipients",
                "account_suppressions", "deliveries">>
RepairLocks == <<"account_suppressions", "campaign_recipients", "campaigns",
                 "quota_reservations", "api_tokens", "senders", "memberships", "users",
                 "accounts">>
RollbackLocks == <<"account_sessions", "local_identities", "gmail_connections", "deliveries",
                   "campaign_recipients", "campaigns", "quota_reservations", "api_tokens",
                   "account_suppressions", "senders", "memberships", "users", "accounts">>
NewOrder == <<"gmail_connections", "deliveries", "local_identities", "account_sessions">>

(* Wrong variant: only timestamps are compared, as the repair does.          *)
VerifyByTimestamps ==
  Each("baseline", InsertOrder) \o Each("exact", InsertOrder) \o Each("none", NewOrder)
VerifyImport ==
  Each("compare", InsertOrder) \o Each("exact", InsertOrder) \o Each("none", NewOrder)

ImportSqlite ==
  Each("empty", CountOrder) \o Each("insert", InsertOrder) \o Each("stamp", InsertOrder)
    \o Each("compare", InsertOrder) \o Each("exact", InsertOrder)

RepairImportedTimestamps ==
  Each("lock", RepairLocks) \o Each("baseline", InsertOrder) \o Each("stamp", InsertOrder)
    \o Each("exact", InsertOrder)

(* Wrong variant: the fence is raised after the verification.                *)
FenceLate == VerifyImport \o Each("lock", RollbackLocks) \o Each("delete", DeleteOrder)
RollbackImport == Each("lock", RollbackLocks) \o VerifyImport \o Each("delete", DeleteOrder)

(* The writes of API and worker, with the tables their transactions read and *)
(* the parents that foreign keys lock.  Logins, PUT and DELETE of senders,   *)
(* use and revocation of tokens change an imported row and a timestamp of it *)
(* for good; PUT of a token edits its name, scopes and sender, no timestamp, *)
(* and another PUT may take the edit back.                                   *)
Writes ==
  [register |-> Each("create", <<"accounts", "users", "local_identities", "memberships">>),
   workos |-> Each("touch", <<"users">>)
                \o Each("create", <<"accounts", "users", "memberships">>),
   login |-> Each("change", <<"users">>) \o Each("touch", <<"memberships">>),
   addSender |-> Each("create", <<"senders">>) \o Each("touch", <<"accounts">>),
   changeSender |-> Each("change", <<"senders">>),
   addToken |-> Each("create", <<"api_tokens">>) \o Each("touch", <<"senders">>),
   updateToken |-> Each("edit", <<"api_tokens">>) \o Each("touch", <<"senders">>),
   useToken |-> Each("change", <<"api_tokens">>),
   send |-> Each("touch", <<"deliveries", "senders">>)
              \o Each("create", <<"deliveries">>) \o Each("touch", <<"accounts", "senders">>),
   reserve |-> Each("touch", <<"quota_reservations", "senders">>)
                 \o Each("create", <<"quota_reservations">>) \o Each("touch", <<"senders">>)]

Tools == {"import", "verify", "repair", "rollback"}
Kinds == Tools \cup DOMAIN Writes
Program ==
  [kind \in Kinds |->
     CASE kind = "import" -> ImportSqlite
       [] kind = "verify" -> VerifyImport
       [] kind = "repair" -> RepairImportedTimestamps
       [] kind = "rollback" -> RollbackImport
       [] OTHER -> Writes[kind]]

(* The statements about tables of the instance, and which of them must be    *)
(* done before number i.  A verification by itself reads over the pool: the  *)
(* queries of one Promise.all run in any order.  In a transaction all share  *)
(* one connection.                                                           *)
Own == [kind \in Kinds |-> {i \in DOMAIN Program[kind] : Program[kind][i].table \in Tables}]
Together(kind, r, s) ==
  kind = "verify" /\ r.verb = s.verb /\ s.verb \in {"compare", "none"}
Before ==
  [kind \in Kinds |-> [i \in Own[kind] |->
     {n \in Own[kind] : n < i /\ ~Together(kind, Program[kind][n], Program[kind][i])}]]

-----------------------------------------------------------------------------
Idle == [kind |-> "idle", done |-> {}, pending |-> [t \in Tables |-> "unwritten"],
         clean |-> FALSE, alike |-> FALSE, matched |-> FALSE,
         disturbed |-> FALSE, retouched |-> FALSE]

Busy(j) == job[j].kind # "idle"
AtEnd(j) == Busy(j) /\ job[j].done = Own[job[j].kind]
Ready(j) ==
  {i \in Own[job[j].kind] \ job[j].done : Before[job[j].kind][i] \subseteq job[j].done}
Statement(j, i) == Program[job[j].kind][i]

(* Locks are kept to the end of the transaction; a verification by itself is *)
(* none.                                                                     *)
Done(j) ==
  IF Busy(j) /\ job[j].kind # "verify"
  THEN {Statement(j, i) : i \in job[j].done} ELSE {}
Locked(j) == {s.table : s \in Done(j)}
Fenced(j) == {s.table : s \in {r \in Done(j) : r.verb = "lock"}}

(* What a statement of j sees: its own writes over what is committed.        *)
Imported(j, t) ==
  IF job[j].pending[t] = "unwritten" THEN db[t].imported ELSE job[j].pending[t]
Seen(j, t) == Imported(j, t) # "absent" \/ db[t].newer

(* Who makes statement s of j wait: locks on the table, or rows with the     *)
(* same keys that another transaction inserted and has not committed.        *)
Blockers(j, s) ==
  {k \in Jobs \ {j} :
     \/ s.table \in Fenced(k)
     \/ s.verb = "lock" /\ s.table \in Locked(k)
     \/ s.verb = "insert" /\ job[k].kind = "import"
          /\ job[k].pending[s.table] # "unwritten"}

(* compare sees whole rows; baseline and exact see the timestamps of the     *)
(* file's rows, up to milliseconds and exactly.                              *)
Holds(j, s) ==
  CASE s.verb = "empty" -> ~Seen(j, s.table)
    [] s.verb = "insert" -> Imported(j, s.table) = "absent"
    [] s.verb = "stamp" -> Imported(j, s.table) # "absent"
    [] s.verb \in {"compare", "baseline"} ->
         /\ Imported(j, s.table) \in {"rounded", "exact"}
         /\ s.verb = "compare" => ~db[s.table].edited /\ ~db[s.table].newer
    [] s.verb = "exact" -> Imported(j, s.table) = "exact"
    [] s.verb = "none" -> ~db[s.table].newer
    [] OTHER -> TRUE

(* createMany keeps milliseconds; applyExactTimestamps restores the rest.    *)
Wrote(j, s) ==
  CASE s.verb = "insert" -> "rounded"
    [] s.verb = "stamp" -> "exact"
    [] s.verb = "delete" -> "absent"
    [] s.verb = "create" -> "created"
    [] s.verb = "change" /\ db[s.table].imported # "absent" -> "changed"
    [] s.verb = "edit" /\ db[s.table].imported # "absent" -> "edited"
    [] OTHER -> job[j].pending[s.table]

(* Wrong variant: a refusal is tried again.                                  *)
TryAgain(j) == UNCHANGED job
(* A statement throws: the transaction is rolled back.                       *)
Abort(j) == job' = [job EXCEPT ![j] = Idle]

(* The database holds exactly the file's rows, or does but for edits.        *)
Alike == /\ \A t \in Legacy : db[t].imported = "exact"
         /\ \A t \in Tables : ~db[t].newer
Matches == Alike /\ \A t \in Legacy : ~db[t].edited
Empty == \A t \in Tables : db[t].imported = "absent" /\ ~db[t].newer

Begin(j, kind) ==
  /\ ~Busy(j) /\ Own[kind] # {}
  /\ defect \notin Refused(kind) \/ kind \notin Tools
  /\ job' = [job EXCEPT ![j] =
                [Idle EXCEPT !.kind = kind, !.clean = (kind = "import" /\ Empty),
                             !.alike = (kind = "verify" /\ Alike),
                             !.matched = (kind = "verify" /\ Matches)]]
  /\ UNCHANGED <<defect, db>>

Execute(j) ==
  /\ Busy(j)
  /\ \E i \in Ready(j) :
       LET s == Statement(j, i)
       IN /\ Blockers(j, s) = {}
          /\ \/ /\ Holds(j, s)
                /\ job' = [job EXCEPT ![j].done = @ \cup {i},
                                      ![j].pending[s.table] = Wrote(j, s)]
             \/ ~Holds(j, s) /\ Abort(j)
  /\ UNCHANGED <<defect, db>>

(* Wrong variant: a row that the service adds passes for an imported one.    *)
AfterBlind(t, p, differs) ==
  CASE p = "absent" -> [imported |-> "absent", edited |-> FALSE, newer |-> FALSE]
    [] p = "unwritten" -> db[t]
    [] OTHER -> [db[t] EXCEPT !.imported = p]
(* What a committed table holds: deleteMany removes every row; after an edit *)
(* rows differ from the file or, when edits were taken back, do not.         *)
After(t, p, differs) ==
  CASE p = "created" -> [db[t] EXCEPT !.newer = TRUE]
    [] p = "absent" -> [imported |-> "absent", edited |-> FALSE, newer |-> FALSE]
    [] p = "edited" -> [db[t] EXCEPT !.edited = differs]
    [] p = "unwritten" -> db[t]
    [] OTHER -> [db[t] EXCEPT !.imported = p]

(* The transaction commits, or the verification prints verified: true.       *)
Finish(j) ==
  /\ AtEnd(j)
  /\ \E differs \in BOOLEAN :
       db' = [t \in Tables |-> After(t, job[j].pending[t], differs)]
  /\ job' = [k \in Jobs |->
               IF k = j THEN Idle
               ELSE LET verifies == job[k].kind = "verify"
                    IN [job[k] EXCEPT
                          !.clean = job[k].kind = "import" /\ (@ \/ Empty'),
                          !.alike = verifies /\ (@ \/ Alike'),
                          !.matched = verifies /\ (@ \/ Matches'),
                          !.disturbed = verifies /\ (@ \/ job[j].kind \in Tools),
                          !.retouched = verifies /\ (@ \/ job[j].kind = "updateToken")]]
  /\ UNCHANGED defect

(* A lost connection, a killed process, the timeout of 120 seconds.          *)
Fail(j) == Busy(j) /\ Abort(j) /\ UNCHANGED <<defect, db>>

(* PostgreSQL (external) aborts a member of a circle of waiters.             *)
Stuck(j) ==
  \E S \in SUBSET Jobs :
    /\ j \in S
    /\ \A k \in S : /\ Busy(k) /\ ~AtEnd(k)
                     /\ \A i \in Ready(k) : Blockers(k, Statement(k, i)) \cap S # {}
BreakDeadlock(j) == Stuck(j) /\ Abort(j) /\ UNCHANGED <<defect, db>>

-----------------------------------------------------------------------------
(* An empty database; or one that an importer without the exact timestamps   *)
(* has filled, which is what the repair is for.                              *)
Init ==
  /\ \E before \in {"absent", "rounded"} :
       /\ defect \in IF before = "absent" THEN Defects ELSE {"none"}
       /\ db = [t \in Tables |-> [imported |-> IF t \in Legacy THEN before ELSE "absent",
                                  edited |-> FALSE, newer |-> FALSE]]
  /\ job = [j \in Jobs |-> Idle]

Next ==
  \E j \in Jobs :
    \/ \E kind \in Kinds : Begin(j, kind)
    \/ Execute(j) \/ Finish(j) \/ Fail(j) \/ BreakDeadlock(j)

(* A statement that is not blocked settles; PostgreSQL hands out table locks *)
(* in the order of their waiters and looks for deadlocks.                    *)
Fairness == \A j \in Jobs : /\ SF_vars(Execute(j)) /\ WF_vars(Finish(j))
                            /\ WF_vars(BreakDeadlock(j))

Spec == Init /\ [][Next]_vars
FairSpec == Spec /\ Fairness

-----------------------------------------------------------------------------
(* The types of all variables.                                               *)
TypeOK ==
  /\ defect \in Defects
  /\ db \in [Tables -> [imported : {"absent", "rounded", "exact", "changed"},
                        edited : BOOLEAN, newer : BOOLEAN]]
  /\ \A j \in Jobs :
       /\ job[j].kind \in Kinds \cup {"idle"}
       /\ Busy(j) => job[j].done \subseteq Own[job[j].kind]
       /\ \A t \in Tables : job[j].pending[t] \in
            {"unwritten", "absent", "rounded", "exact", "changed", "edited", "created"}

(* No tool destroys what the service wrote ("no Bun write can appear in the  *)
(* gap", import-sqlite.ts:864), whatever tools run at the same time and      *)
(* wherever they stop: rows it added are never deleted, timestamps it        *)
(* changed are never set back, and only PUT of a token takes an edit back.   *)
(* The repair's baseline does not see edits, so it does write the timestamps *)
(* of edited rows.                                                           *)
NewerSurvives ==
  [][\A t \in Tables :
       /\ db[t].newer => db'[t].newer
       /\ db[t].imported = "changed" => db'[t].imported = "changed"
       /\ db[t].edited /\ ~db'[t].edited =>
            \E j \in Jobs : job[j].kind = "updateToken" /\ AtEnd(j)]_vars

(* An import commits every table with its exact timestamps, from a file that *)
(* all readers accept, into a database that was empty at some moment of its  *)
(* run, although its tables are counted one after the other: two imports of  *)
(* one file, or an import and a rollback, never mix.                         *)
ImportIsWhole ==
  \A j \in Jobs : AtEnd(j) /\ job[j].kind = "import" =>
    /\ defect = "none"
    /\ job[j].clean
    /\ \A t \in Legacy : job[j].pending[t] = "exact" /\ db[t].imported = "absent"

(* When a rollback has verified, the database holds exactly the file's rows  *)
(* until it has deleted them.  "verified: true" of a verification by itself, *)
(* which reads every table at a moment of its own, was true at some moment   *)
(* of its run, unless another tool committed in between; but only up to the  *)
(* edits of tokens when a token was edited in between, as these can be taken *)
(* back: senders are compared, a sender is added, a token renamed before the *)
(* run gets its old name, tokens are compared.                               *)
VerifyIsTrue ==
  \A j \in Jobs : AtEnd(j) =>
    /\ job[j].kind = "rollback" => Matches
    /\ job[j].kind = "verify" =>
         \/ job[j].matched \/ job[j].disturbed
         \/ job[j].retouched /\ job[j].alike

(* No tool runs forever although repair and rollback lock the same tables in *)
(* different orders and imports wait for each other's keys.                  *)
ToolsEnd == \A j \in Jobs : []<>~Busy(j)
=============================================================================
