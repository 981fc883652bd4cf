----------------------------- MODULE ImportProofs ------------------------------
(***************************************************************************)
(* The SQLite importer beside the service: for every set of tables and any *)
(* number of tools and transactions, an import commits whole and into an   *)
(* empty database, "verified: true" was true, and no tool destroys what    *)
(* the service wrote.  The fences are the table locks: the proof shows     *)
(* what they keep from changing, and what READ COMMITTED leaves open.      *)
(***************************************************************************)
EXTENDS ImportFence, SequenceTheorems, TLAPS

-----------------------------------------------------------------------------
(* The invariant.                                                            *)

(* The statements that a job has put behind it.                              *)
Past(j) ==
  IF Busy(j) THEN {Statement(j, i) : i \in job[j].done} ELSE {}
Did(j, verb, t) == [verb |-> verb, table |-> t] \in Past(j)

Commits == {"rounded", "exact"}
Values == {"unwritten", "absent", "rounded", "exact", "changed", "edited", "created"}
JobRecords ==
  [kind : Kinds \cup {"idle"}, done : SUBSET Nat, pending : [Tables -> Values],
   clean : BOOLEAN, alike : BOOLEAN, matched : BOOLEAN,
   disturbed : BOOLEAN, retouched : BOOLEAN]
TableRecords ==
  [imported : {"absent", "rounded", "exact", "changed"}, edited : BOOLEAN, newer : BOOLEAN]

(* A job has done statements of its program, about tables of the instance.   *)
Standing(j) == Busy(j) => job[j].done \subseteq Own[job[j].kind]

Typed ==
  /\ defect \in Defects
  /\ db \in [Tables -> TableRecords]
  /\ job \in [Jobs -> JobRecords]
  /\ \A j \in Jobs : Standing(j)

(* Only imported tables hold imported rows, and only imported rows are       *)
(* edited.  No transaction adds sessions, and a local identity comes with    *)
(* its account.                                                              *)
Tabled ==
  /\ \A t \in Tables \ AllLegacy : db[t].imported = "absent"
  /\ \A t \in Tables : db[t].imported = "absent" => ~db[t].edited
  /\ "account_sessions" \in Tables => ~db["account_sessions"].newer
  /\ "local_identities" \in Tables /\ db["local_identities"].newer => db["accounts"].newer

(* A fence keeps every other transaction out; what is written is locked.     *)
Exclusive ==
  \A j, k \in Jobs : j # k => Fenced(j) \cap Locked(k) \cap Tables = {}
Owned ==
  \A j \in Jobs, t \in Tables : job[j].pending[t] # "unwritten" => t \in Locked(j)

(* Keys that one import has inserted keep the others waiting.                *)
OneInserts ==
  \A j, k \in Jobs, t \in Tables :
    /\ j # k /\ job[j].kind = "import" /\ job[k].kind = "import"
    => "unwritten" \in {job[j].pending[t], job[k].pending[t]}

(* Repair and rollback have raised their fences before anything else.        *)
FencedFirst(j) ==
  \A x \in Past(j) : x.verb # "lock" /\ x.table \in Tables =>
    /\ job[j].kind \in {"repair", "rollback"} => \A t \in Legacy : Did(j, "lock", t)
    /\ job[j].kind = "rollback" => \A t \in Tables : Did(j, "lock", t)

(* What each kind of job knows of the table t.                               *)
Importing(j, t) ==
  /\ job[j].pending[t] \in {"unwritten"} \cup Commits
  /\ job[j].pending[t] # "unwritten" => t \in AllLegacy /\ db[t].imported = "absent"
  /\ Did(j, "insert", t) => job[j].pending[t] # "unwritten"
  /\ Did(j, "stamp", t) => job[j].pending[t] = "exact"
Verifying(j, t) == job[j].pending[t] = "unwritten"
Repairing(j, t) ==
  /\ job[j].pending[t] \in {"unwritten", "exact"}
  /\ job[j].pending[t] = "exact" => Did(j, "baseline", t) /\ t \in AllLegacy
  /\ Did(j, "baseline", t) => db[t].imported \in Commits
RollingBack(j, t) ==
  /\ job[j].pending[t] \in {"unwritten", "absent"}
  /\ job[j].pending[t] = "absent" => Did(j, "compare", t) /\ t \in AllLegacy
  /\ Did(j, "compare", t) => db[t].imported \in Commits /\ ~db[t].edited /\ ~db[t].newer
  /\ Did(j, "exact", t) => db[t].imported = "exact"
  /\ Did(j, "none", t) => ~db[t].newer
  /\ Did(j, "delete", t) => job[j].pending[t] = "absent"
Serving(j, t) ==
  /\ job[j].pending[t] \in {"unwritten", "created", "changed", "edited"}
  /\ job[j].pending[t] \in {"changed", "edited"} => t \in AllLegacy /\ db[t].imported # "absent"
  /\ job[j].pending[t] = "edited" => job[j].kind = "updateToken"
  /\ job[j].pending[t] = "created" =>
       /\ t # "account_sessions"
       /\ t = "local_identities" => job[j].kind = "register"
  /\ job[j].kind = "register" /\ Did(j, "create", t) => job[j].pending[t] = "created"

Knows(j) ==
  \A t \in Tables :
    /\ job[j].kind = "import" => Importing(j, t)
    /\ job[j].kind = "verify" => Verifying(j, t)
    /\ job[j].kind = "repair" => Repairing(j, t)
    /\ job[j].kind = "rollback" => RollingBack(j, t)
    /\ Busy(j) /\ job[j].kind \notin Tools => Serving(j, t)

(* An import that has never seen the database empty will still find rows in  *)
(* a table that it has not counted yet.                                      *)
Counted == AllLegacy \cup {"gmail_connections", "deliveries"}
Clean(j) ==
  job[j].kind = "import" /\ ~job[j].clean =>
    \E t \in Tables \cap Counted :
      /\ db[t].imported # "absent" \/ db[t].newer
      /\ ~Did(j, "empty", t)

(* A difference that a verification j is still to find; if it is more than   *)
(* an edit, no transaction of the service can take it back.                  *)
Lasting(j, t) ==
  \/ t \in Legacy /\ db[t].imported # "exact" /\ ~Did(j, "exact", t)
  \/ t \in Legacy /\ db[t].newer /\ ~Did(j, "compare", t)
  \/ t \notin Legacy /\ db[t].newer /\ ~Did(j, "none", t)
Differs(j, t) ==
  Lasting(j, t) \/ (t \in Legacy /\ db[t].edited /\ ~Did(j, "compare", t))

(* A verification that has never seen the database match the file will still *)
(* find a difference, unless another tool commits; and unless a token is     *)
(* edited, edits are differences, too.                                       *)
Matched(j) ==
  job[j].kind = "verify" /\ ~job[j].disturbed =>
    /\ ~job[j].alike => \E t \in Tables : Lasting(j, t)
    /\ ~job[j].matched /\ ~job[j].retouched => \E t \in Tables : Differs(j, t)

(* An import has begun only from a file that all readers accept.             *)
Accepted(j) == job[j].kind = "import" => defect = "none"

JobInv(j) == Accepted(j) /\ FencedFirst(j) /\ Knows(j) /\ Clean(j) /\ Matched(j)
FenceInv ==
  /\ Typed /\ Tabled /\ Exclusive /\ Owned /\ OneInserts
  /\ \A j \in Jobs : JobInv(j)

-----------------------------------------------------------------------------
(* The programs: which statements they have and in which order.              *)

AllTables == AllLegacy \cup AllNew
Verbs == {"empty", "insert", "stamp", "compare", "exact", "baseline", "none", "lock",
          "delete", "create", "touch", "change", "edit"}
Statements == [verb : Verbs, table : AllTables]
On(verb, T) == {[verb |-> verb, table |-> t] : t \in T}
Elements(p) == {p[i] : i \in 1..Len(p)}

(* y stands in front of every x.                                             *)
Precedes(p, y, x) ==
  \A i \in 1..Len(p) : p[i] = x => \E l \in 1..(i - 1) : p[l] = y

(* A program p whose statements are those of S.                              *)
Has(p, S) == p \in Seq(Statements) /\ Elements(p) = S

(* One verb for every table of an order.                                     *)
LEMMA EachHas ==
  ASSUME NEW order \in Seq(AllTables), NEW verb \in Verbs
  PROVE  Has(Each(verb, order), On(verb, Elements(order)))
<1>1. /\ DOMAIN Each(verb, order) = 1..Len(order) /\ Len(order) \in Nat
      /\ \A i \in 1..Len(order) :
           /\ order[i] \in AllTables
           /\ Each(verb, order)[i] = [verb |-> verb, table |-> order[i]]
  BY ElementOfSeq, LenProperties DEF Each
<1>2. Each(verb, order) \in Seq(Statements) /\ Len(Each(verb, order)) = Len(order)
  BY <1>1 DEF Each, Statements
<1>3. QED
  BY <1>1, <1>2 DEF Has, On, Elements

(* What a program in two parts has, and what order there is in it.           *)
LEMMA Parts ==
  ASSUME NEW A, NEW B, NEW a, NEW b, NEW p, Has(a, A), Has(b, B), p = a \o b
  PROVE  /\ Has(p, A \cup B)
         /\ \A y \in A : \A x : x \notin A => Precedes(p, y, x)
         /\ \A x, y : x \notin B /\ Precedes(a, y, x) => Precedes(p, y, x)
<1>1. /\ a \in Seq(Statements) /\ b \in Seq(Statements) /\ Len(a) \in Nat /\ Len(b) \in Nat
      /\ A = Elements(a) /\ B = Elements(b)
  BY DEF Has
<1>2. /\ p \in Seq(Statements) /\ Len(p) = Len(a) + Len(b)
      /\ \A i \in 1..(Len(a) + Len(b)) : p[i] = IF i <= Len(a) THEN a[i] ELSE b[i - Len(a)]
  BY <1>1, ConcatProperties, Zenon
<1>3. \A i \in 1..Len(a) : i \in 1..Len(p) /\ p[i] = a[i] /\ a[i] \in A
  BY <1>1, <1>2 DEF Elements
<1>4. \A i \in 1..Len(p) : i > Len(a) => p[i] = b[i - Len(a)] /\ i - Len(a) \in 1..Len(b) /\ p[i] \in B
  BY <1>1, <1>2 DEF Elements
<1>5. \A i \in 1..Len(b) : Len(a) + i \in 1..Len(p) /\ p[Len(a) + i] = b[i]
  BY <1>1, <1>2
<1>6. \A i \in 1..Len(p) : i \in 1..Len(a) \/ i > Len(a)
  BY <1>1, <1>2
<1>7. Elements(p) = A \cup B
  <2>1. Elements(p) \subseteq A \cup B
    BY <1>3, <1>4, <1>6 DEF Elements
  <2>2. A \subseteq Elements(p)
    BY <1>1, <1>3 DEF Elements
  <2>3. B \subseteq Elements(p)
    BY <1>1, <1>5 DEF Elements
  <2>4. QED
    BY <2>1, <2>2, <2>3
<1>8. ASSUME NEW y \in A, NEW x, x \notin A PROVE Precedes(p, y, x)
  <2>1. PICK l \in 1..Len(a) : p[l] = y
    BY <1>1, <1>3 DEF Elements
  <2>2. \A i \in 1..Len(p) : p[i] = x => i > Len(a)
    BY <1>3, <1>6, <1>8
  <2>3. \A i \in 1..Len(p) : i > Len(a) => l \in 1..(i - 1)
    BY <1>1
  <2>4. QED
    BY <2>1, <2>2, <2>3 DEF Precedes
<1>9. ASSUME NEW x, NEW y, x \notin B, Precedes(a, y, x) PROVE Precedes(p, y, x)
  <2> SUFFICES ASSUME NEW i \in 1..Len(p), p[i] = x PROVE \E l \in 1..(i - 1) : p[l] = y
    BY DEF Precedes
  <2>1. i \in 1..Len(a) /\ a[i] = x
    BY <1>3, <1>4, <1>6, <1>9
  <2>2. PICK l \in 1..(i - 1) : a[l] = y
    BY <1>9, <2>1 DEF Precedes
  <2>3. l \in 1..Len(a)
    BY <1>1, <2>1
  <2>4. QED
    BY <1>3, <2>2, <2>3
<1>10. QED
  BY <1>2, <1>7, <1>8, <1>9 DEF Has

(* The tables of each order.                                                 *)
LEMMA Orders ==
  /\ InsertOrder \in Seq(AllTables) /\ Elements(InsertOrder) = AllLegacy
  /\ DeleteOrder \in Seq(AllTables) /\ Elements(DeleteOrder) = AllLegacy
  /\ CountOrder \in Seq(AllTables) /\ Elements(CountOrder) = Counted
  /\ RepairLocks \in Seq(AllTables) /\ Elements(RepairLocks) = AllLegacy
  /\ RollbackLocks \in Seq(AllTables) /\ Elements(RollbackLocks) = AllTables
  /\ NewOrder \in Seq(AllTables) /\ Elements(NewOrder) = AllNew
<1>1. InsertOrder \in Seq(AllTables) /\ Elements(InsertOrder) = AllLegacy
  BY DEF InsertOrder, AllTables, AllLegacy, AllNew, Elements
<1>2. DeleteOrder \in Seq(AllTables) /\ Elements(DeleteOrder) = AllLegacy
  BY DEF DeleteOrder, AllTables, AllLegacy, AllNew, Elements
<1>3. CountOrder \in Seq(AllTables) /\ Elements(CountOrder) = Counted
  BY DEF CountOrder, AllTables, AllLegacy, AllNew, Elements, Counted
<1>4. RepairLocks \in Seq(AllTables) /\ Elements(RepairLocks) = AllLegacy
  BY DEF RepairLocks, AllTables, AllLegacy, AllNew, Elements
<1>5. RollbackLocks \in Seq(AllTables) /\ Elements(RollbackLocks) = AllTables
  BY DEF RollbackLocks, AllTables, AllLegacy, AllNew, Elements
<1>6. NewOrder \in Seq(AllTables) /\ Elements(NewOrder) = AllNew
  BY DEF NewOrder, AllTables, AllLegacy, AllNew, Elements
<1>7. QED
  BY <1>1, <1>2, <1>3, <1>4, <1>5, <1>6

(* Three phases: the statements of a verification, in any transaction.       *)
VerifySet == (On("compare", AllLegacy) \cup On("exact", AllLegacy)) \cup On("none", AllNew)
LEMMA VerifyProgram == Has(VerifyImport, VerifySet)
<1> DEFINE a == Each("compare", InsertOrder)
           b == Each("exact", InsertOrder)
           c == Each("none", NewOrder)
           ab == a \o b
<1>1. Has(a, On("compare", AllLegacy)) /\ Has(b, On("exact", AllLegacy)) /\ Has(c, On("none", AllNew))
  BY EachHas, Orders DEF Verbs
<1>2. VerifyImport = ab \o c
  BY DEF VerifyImport
<1>3. ab = a \o b
  OBVIOUS
<1> HIDE DEF a, b, c, ab
<1>4. Has(ab, On("compare", AllLegacy) \cup On("exact", AllLegacy))
  BY <1>1, <1>3, Parts
<1>5. QED
  BY <1>1, <1>2, <1>4, Parts DEF VerifySet

(* An import inserts into a table before it restores its timestamps.         *)
ImportSet ==
  On("empty", Counted) \cup On("insert", AllLegacy) \cup On("stamp", AllLegacy)
    \cup On("compare", AllLegacy) \cup On("exact", AllLegacy)
LEMMA ImportProgram ==
  /\ Has(ImportSqlite, ImportSet)
  /\ \A t \in AllLegacy : Precedes(ImportSqlite, [verb |-> "insert", table |-> t],
                                    [verb |-> "stamp", table |-> t])
<1> DEFINE a == Each("empty", CountOrder)
           b == Each("insert", InsertOrder)
           c == Each("stamp", InsertOrder)
           d == Each("compare", InsertOrder)
           e == Each("exact", InsertOrder)
           ab == a \o b
           abc == ab \o c
           abcd == abc \o d
           A == On("empty", Counted) \cup On("insert", AllLegacy)
           C == A \cup On("stamp", AllLegacy)
           D == C \cup On("compare", AllLegacy)
<1>1. /\ Has(a, On("empty", Counted)) /\ Has(b, On("insert", AllLegacy))
      /\ Has(c, On("stamp", AllLegacy)) /\ Has(d, On("compare", AllLegacy))
      /\ Has(e, On("exact", AllLegacy))
  BY EachHas, Orders DEF Verbs
<1>2. /\ ImportSqlite = abcd \o e /\ abcd = abc \o d /\ abc = ab \o c /\ ab = a \o b
  BY DEF ImportSqlite
<1>3. ASSUME NEW t \in AllLegacy
      PROVE  /\ [verb |-> "insert", table |-> t] \in A
             /\ [verb |-> "stamp", table |-> t] \notin A
             /\ [verb |-> "stamp", table |-> t] \notin On("compare", AllLegacy)
             /\ [verb |-> "stamp", table |-> t] \notin On("exact", AllLegacy)
  BY DEF On
<1> HIDE DEF a, b, c, d, e, ab, abc, abcd, A, C, D
<1>4. Has(ab, A)
  BY <1>1, <1>2, Parts DEF A
<1>5. /\ Has(abc, C)
      /\ \A y \in A : \A x : x \notin A => Precedes(abc, y, x)
  BY <1>1, <1>2, <1>4, Parts DEF C
<1>6. /\ Has(abcd, D)
      /\ \A x, y : x \notin On("compare", AllLegacy) /\ Precedes(abc, y, x) => Precedes(abcd, y, x)
  BY <1>1, <1>2, <1>5, Parts DEF D
<1>7. /\ Has(ImportSqlite, D \cup On("exact", AllLegacy))
      /\ \A x, y : x \notin On("exact", AllLegacy) /\ Precedes(abcd, y, x) => Precedes(ImportSqlite, y, x)
  BY <1>1, <1>2, <1>6, Parts
<1>8. ImportSet = D \cup On("exact", AllLegacy)
  BY DEF ImportSet, A, C, D
<1>9. QED
  BY <1>3, <1>5, <1>6, <1>7, <1>8

(* The repair locks all imported tables first, and compares a table with its *)
(* baseline before it writes to it.                                          *)
RepairSet ==
  On("lock", AllLegacy) \cup On("baseline", AllLegacy) \cup On("stamp", AllLegacy)
    \cup On("exact", AllLegacy)
LEMMA RepairProgram ==
  /\ Has(RepairImportedTimestamps, RepairSet)
  /\ \A x \in RepairSet, t \in AllLegacy :
       x.verb # "lock" => Precedes(RepairImportedTimestamps, [verb |-> "lock", table |-> t], x)
  /\ \A t \in AllLegacy :
       Precedes(RepairImportedTimestamps, [verb |-> "baseline", table |-> t],
                [verb |-> "stamp", table |-> t])
<1> DEFINE a == Each("lock", RepairLocks)
           b == Each("baseline", InsertOrder)
           c == Each("stamp", InsertOrder)
           d == Each("exact", InsertOrder)
           ab == a \o b
           abc == ab \o c
           A == On("lock", AllLegacy)
           B == A \cup On("baseline", AllLegacy)
           C == B \cup On("stamp", AllLegacy)
           p == RepairImportedTimestamps
<1>1. /\ Has(a, A) /\ Has(b, On("baseline", AllLegacy))
      /\ Has(c, On("stamp", AllLegacy)) /\ Has(d, On("exact", AllLegacy))
  BY EachHas, Orders DEF Verbs
<1>2. p = abc \o d /\ abc = ab \o c /\ ab = a \o b
  BY DEF RepairImportedTimestamps
<1>3. ASSUME NEW t \in AllLegacy
      PROVE  /\ [verb |-> "lock", table |-> t] \in A /\ [verb |-> "lock", table |-> t] \in B
             /\ [verb |-> "lock", table |-> t] \in C
             /\ [verb |-> "baseline", table |-> t] \in B
             /\ [verb |-> "stamp", table |-> t] \notin B
             /\ [verb |-> "stamp", table |-> t] \notin On("exact", AllLegacy)
  BY DEF On
<1>4. ASSUME NEW x \in RepairSet, x.verb # "lock"
      PROVE  /\ x \notin A
             /\ \/ x \notin On("exact", AllLegacy) /\ x \notin On("stamp", AllLegacy)
                \/ x \notin On("exact", AllLegacy) /\ x \notin B
                \/ x \notin C
  BY <1>4 DEF RepairSet, On
<1> HIDE DEF a, b, c, d, ab, abc, A, B, C, p
<1>5. Has(ab, B) /\ \A y \in A : \A x : x \notin A => Precedes(ab, y, x)
  BY <1>1, <1>2, Parts DEF B
<1>6. /\ Has(abc, C)
      /\ \A y \in B : \A x : x \notin B => Precedes(abc, y, x)
      /\ \A x, y : x \notin On("stamp", AllLegacy) /\ Precedes(ab, y, x) => Precedes(abc, y, x)
  BY <1>1, <1>2, <1>5, Parts DEF C
<1>7. /\ Has(p, C \cup On("exact", AllLegacy))
      /\ \A y \in C : \A x : x \notin C => Precedes(p, y, x)
      /\ \A x, y : x \notin On("exact", AllLegacy) /\ Precedes(abc, y, x) => Precedes(p, y, x)
  BY <1>1, <1>2, <1>6, Parts
<1>8. RepairSet = C \cup On("exact", AllLegacy)
  BY DEF RepairSet, A, B, C
<1>9. ASSUME NEW x \in RepairSet, NEW t \in AllLegacy, x.verb # "lock"
      PROVE  Precedes(p, [verb |-> "lock", table |-> t], x)
  BY <1>3, <1>4, <1>5, <1>6, <1>7, <1>9
<1>10. \A t \in AllLegacy : Precedes(p, [verb |-> "baseline", table |-> t],
                                     [verb |-> "stamp", table |-> t])
  BY <1>3, <1>6, <1>7
<1>11. QED
  BY <1>7, <1>8, <1>9, <1>10 DEF p

(* The rollback locks all tables first, and verifies before it deletes.      *)
RollbackSet == (On("lock", AllTables) \cup VerifySet) \cup On("delete", AllLegacy)
LEMMA RollbackProgram ==
  /\ Has(RollbackImport, RollbackSet)
  /\ \A x \in RollbackSet, t \in AllTables :
       x.verb # "lock" => Precedes(RollbackImport, [verb |-> "lock", table |-> t], x)
  /\ \A t \in AllLegacy :
       Precedes(RollbackImport, [verb |-> "compare", table |-> t],
                [verb |-> "delete", table |-> t])
<1> DEFINE a == Each("lock", RollbackLocks)
           c == Each("delete", DeleteOrder)
           ab == a \o VerifyImport
           A == On("lock", AllTables)
           B == A \cup VerifySet
           p == RollbackImport
<1>1. Has(a, A) /\ Has(c, On("delete", AllLegacy))
  BY EachHas, Orders DEF Verbs
<1>2. p = ab \o c /\ ab = a \o VerifyImport
  BY DEF RollbackImport
<1>3. /\ \A t \in AllTables : [verb |-> "lock", table |-> t] \in A /\ [verb |-> "lock", table |-> t] \in B
      /\ \A t \in AllLegacy : /\ [verb |-> "compare", table |-> t] \in B
                             /\ [verb |-> "delete", table |-> t] \notin B
  BY DEF On, VerifySet
<1>4. ASSUME NEW x \in RollbackSet, x.verb # "lock"
      PROVE  x \notin A /\ (x \notin On("delete", AllLegacy) \/ x \notin B)
  BY <1>4 DEF RollbackSet, VerifySet, On
<1> HIDE DEF a, c, ab, A, B, p
<1>5. Has(ab, B) /\ \A y \in A : \A x : x \notin A => Precedes(ab, y, x)
  BY <1>1, <1>2, VerifyProgram, Parts DEF B
<1>6. /\ Has(p, B \cup On("delete", AllLegacy))
      /\ \A y \in B : \A x : x \notin B => Precedes(p, y, x)
      /\ \A x, y : x \notin On("delete", AllLegacy) /\ Precedes(ab, y, x) => Precedes(p, y, x)
  BY <1>1, <1>2, <1>5, Parts
<1>7. RollbackSet = B \cup On("delete", AllLegacy)
  BY DEF RollbackSet, A, B
<1>8. ASSUME NEW x \in RollbackSet, NEW t \in AllTables, x.verb # "lock"
      PROVE  Precedes(p, [verb |-> "lock", table |-> t], x)
  BY <1>3, <1>4, <1>5, <1>6, <1>8
<1>9. \A t \in AllLegacy : Precedes(p, [verb |-> "compare", table |-> t],
                                    [verb |-> "delete", table |-> t])
  BY <1>3, <1>6
<1>10. QED
  BY <1>6, <1>7, <1>8, <1>9 DEF p

(* A program whose statements are among those of S.                          *)
Within(p, S) == p \in Seq(Statements) /\ Elements(p) \subseteq S

LEMMA EachWithin ==
  ASSUME NEW order \in Seq(AllTables), NEW verb \in Verbs, NEW S,
         On(verb, Elements(order)) \subseteq S
  PROVE  Within(Each(verb, order), S)
BY EachHas DEF Within, Has

LEMMA PartsWithin ==
  ASSUME NEW S, NEW a, NEW b, Within(a, S), Within(b, S)
  PROVE  Within(a \o b, S)
<1>1. Has(a, Elements(a)) /\ Has(b, Elements(b))
  BY DEF Has, Within
<1>2. Has(a \o b, Elements(a) \cup Elements(b))
  BY <1>1, Parts
<1>3. QED
  BY <1>2 DEF Has, Within

(* The transactions of the service: they lock no table, change only imported *)
(* rows, only PUT of a token edits them, and only a registration adds a      *)
(* local identity, with its account.                                         *)
ServiceSet(kind) ==
  (On("touch", AllTables) \cup On("change", AllLegacy)
     \cup IF kind = "updateToken" THEN On("edit", AllLegacy) ELSE {})
    \cup On("create", AllTables \ ({"account_sessions"}
                                   \cup IF kind = "register" THEN {} ELSE {"local_identities"}))
LEMMA ServicePrograms ==
  ASSUME NEW kind \in Kinds \ Tools
  PROVE  /\ Program[kind] = Writes[kind] /\ Within(Writes[kind], ServiceSet(kind))
         /\ kind = "register" =>
              /\ [verb |-> "create", table |-> "accounts"] \in Elements(Writes[kind])
              /\ \A x \in Elements(Writes[kind]) : x.verb = "create"
<1> DEFINE users == <<"users">>
           memberships == <<"memberships">>
           senders == <<"senders">>
           accounts == <<"accounts">>
           tokens == <<"api_tokens">>
           deliveries == <<"deliveries">>
           quota == <<"quota_reservations">>
           registration == <<"accounts", "users", "local_identities", "memberships">>
           newAccount == <<"accounts", "users", "memberships">>
           lookup == <<"deliveries", "senders">>
           parents == <<"accounts", "senders">>
           usage == <<"quota_reservations", "senders">>
<1>1. /\ users \in Seq(AllTables) /\ Elements(users) = {"users"}
      /\ memberships \in Seq(AllTables) /\ Elements(memberships) = {"memberships"}
      /\ senders \in Seq(AllTables) /\ Elements(senders) = {"senders"}
      /\ accounts \in Seq(AllTables) /\ Elements(accounts) = {"accounts"}
      /\ tokens \in Seq(AllTables) /\ Elements(tokens) = {"api_tokens"}
      /\ deliveries \in Seq(AllTables) /\ Elements(deliveries) = {"deliveries"}
      /\ quota \in Seq(AllTables)
      /\ Elements(quota) = {"quota_reservations"}
  BY DEF AllTables, AllLegacy, AllNew, Elements
<1>2. /\ registration \in Seq(AllTables)
      /\ Elements(registration)
           = {"accounts", "users", "local_identities", "memberships"}
      /\ newAccount \in Seq(AllTables)
      /\ Elements(newAccount) = {"accounts", "users", "memberships"}
  BY DEF AllTables, AllLegacy, AllNew, Elements
<1>3. /\ lookup \in Seq(AllTables)
      /\ Elements(lookup) = {"deliveries", "senders"}
      /\ parents \in Seq(AllTables)
      /\ Elements(parents) = {"accounts", "senders"}
      /\ usage \in Seq(AllTables)
      /\ Elements(usage) = {"quota_reservations", "senders"}
  BY DEF AllTables, AllLegacy, AllNew, Elements
<1>4. /\ {"users", "memberships", "senders", "accounts", "api_tokens", "deliveries",
          "quota_reservations", "local_identities"} \subseteq AllTables \ {"account_sessions"}
      /\ {"users", "senders", "api_tokens"} \subseteq AllLegacy
      /\ {"touch", "change", "create", "edit"} \subseteq Verbs
  BY DEF AllTables, AllLegacy, AllNew, Verbs
<1>5. /\ kind \in {"register", "workos", "login", "addSender", "changeSender", "addToken",
                   "updateToken", "useToken", "send", "reserve"}
      /\ Program[kind] = Writes[kind]
  BY DEF Kinds, Tools, Writes, Program
<1>6. /\ Writes.register = Each("create", registration)
      /\ Writes.workos = Each("touch", users) \o Each("create", newAccount)
      /\ Writes.login = Each("change", users) \o Each("touch", memberships)
      /\ Writes.addSender = Each("create", senders) \o Each("touch", accounts)
      /\ Writes.changeSender = Each("change", senders)
      /\ Writes.addToken = Each("create", tokens) \o Each("touch", senders)
      /\ Writes.updateToken = Each("edit", tokens) \o Each("touch", senders)
      /\ Writes.useToken = Each("change", tokens)
      /\ Writes.send = (Each("touch", lookup) \o Each("create", deliveries))
                                           \o Each("touch", parents)
      /\ Writes.reserve = (Each("touch", usage) \o Each("create", quota))
                                              \o Each("touch", senders)
  BY DEF Writes
<1> HIDE DEF users, memberships, senders, accounts, tokens, deliveries,
             quota, registration, newAccount, lookup, parents, usage
<1>7. ASSUME NEW order \in Seq(AllTables)
      PROVE  /\ Within(Each("touch", order), ServiceSet(kind))
             /\ Elements(order) \subseteq AllLegacy => Within(Each("change", order), ServiceSet(kind))
             /\ Elements(order) \subseteq AllLegacy /\ kind = "updateToken" =>
                  Within(Each("edit", order), ServiceSet(kind))
             /\ /\ "account_sessions" \notin Elements(order)
                /\ kind # "register" => "local_identities" \notin Elements(order)
                => Within(Each("create", order), ServiceSet(kind))
  <2>1. Elements(order) \subseteq AllTables
    BY ElementOfSeq DEF Elements
  <2>2. On("touch", Elements(order)) \subseteq ServiceSet(kind)
    BY <2>1 DEF On, ServiceSet
  <2>3. Elements(order) \subseteq AllLegacy => On("change", Elements(order)) \subseteq ServiceSet(kind)
    BY DEF On, ServiceSet
  <2>4. Elements(order) \subseteq AllLegacy /\ kind = "updateToken" =>
          On("edit", Elements(order)) \subseteq ServiceSet(kind)
    BY DEF On, ServiceSet
  <2>5. /\ "account_sessions" \notin Elements(order)
        /\ kind # "register" => "local_identities" \notin Elements(order)
        => On("create", Elements(order)) \subseteq ServiceSet(kind)
    BY <2>1 DEF On, ServiceSet
  <2>6. QED
    BY <1>4, <2>2, <2>3, <2>4, <2>5, EachWithin
<1>8. /\ Within(Each("touch", users), ServiceSet(kind)) /\ Within(Each("change", users), ServiceSet(kind))
      /\ Within(Each("create", newAccount), ServiceSet(kind))
      /\ Within(Each("touch", memberships), ServiceSet(kind))
      /\ kind = "register" => Within(Each("create", registration), ServiceSet(kind))
  BY <1>1, <1>2, <1>4, <1>7
<1>9. /\ Within(Each("create", senders), ServiceSet(kind)) /\ Within(Each("touch", senders), ServiceSet(kind))
      /\ Within(Each("change", senders), ServiceSet(kind))
      /\ Within(Each("touch", accounts), ServiceSet(kind)) /\ Within(Each("touch", parents), ServiceSet(kind))
  BY <1>1, <1>3, <1>4, <1>7
<1>10. /\ Within(Each("create", tokens), ServiceSet(kind)) /\ Within(Each("change", tokens), ServiceSet(kind))
       /\ kind = "updateToken" => Within(Each("edit", tokens), ServiceSet(kind))
       /\ Within(Each("touch", lookup), ServiceSet(kind)) /\ Within(Each("create", deliveries), ServiceSet(kind))
       /\ Within(Each("touch", usage), ServiceSet(kind)) /\ Within(Each("create", quota), ServiceSet(kind))
  BY <1>1, <1>3, <1>4, <1>7
<1>11. Within(Writes[kind], ServiceSet(kind))
  <2>1. CASE kind \in {"register", "changeSender", "useToken"}
    BY <1>6, <1>8, <1>9, <1>10, <2>1
  <2>2. CASE kind \in {"workos", "login", "addSender", "addToken", "updateToken"}
    BY <1>6, <1>8, <1>9, <1>10, <2>2, PartsWithin
  <2>3. CASE kind = "send"
    <3>1. Within(Each("touch", lookup) \o Each("create", deliveries), ServiceSet(kind))
      BY <1>10, PartsWithin
    <3>2. QED
      BY <1>6, <1>9, <2>3, <3>1, PartsWithin
  <2>4. CASE kind = "reserve"
    <3>1. Within(Each("touch", usage) \o Each("create", quota), ServiceSet(kind))
      BY <1>10, PartsWithin
    <3>2. QED
      BY <1>6, <1>9, <2>4, <3>1, PartsWithin
  <2>5. QED
    BY <1>5, <2>1, <2>2, <2>3, <2>4
<1>12. kind = "register" =>
         /\ [verb |-> "create", table |-> "accounts"] \in Elements(Writes[kind])
         /\ \A x \in Elements(Writes[kind]) : x.verb = "create"
  <2>1. Elements(Writes.register)
          = On("create", {"accounts", "users", "local_identities", "memberships"})
    BY <1>2, <1>4, <1>6, EachHas DEF Has
  <2>2. QED
    BY <2>1 DEF On
<1>13. QED
  BY <1>5, <1>11, <1>12

(* The program of each kind of work.                                         *)
LEMMA Programs ==
  ASSUME NEW kind \in Kinds
  PROVE  /\ Program[kind] \in Seq(Statements) /\ Len(Program[kind]) \in Nat
         /\ kind = "import" => Program[kind] = ImportSqlite /\ Elements(Program[kind]) = ImportSet
         /\ kind = "verify" => Program[kind] = VerifyImport /\ Elements(Program[kind]) = VerifySet
         /\ kind = "repair" => /\ Program[kind] = RepairImportedTimestamps
                               /\ Elements(Program[kind]) = RepairSet
         /\ kind = "rollback" => /\ Program[kind] = RollbackImport
                                 /\ Elements(Program[kind]) = RollbackSet
         /\ kind \notin Tools => Elements(Program[kind]) \subseteq ServiceSet(kind)
<1>1. CASE kind = "import"
  BY <1>1, ImportProgram, LenProperties DEF Program, Has, Tools
<1>2. CASE kind = "verify"
  BY <1>2, VerifyProgram, LenProperties DEF Program, Has, Tools
<1>3. CASE kind = "repair"
  BY <1>3, RepairProgram, LenProperties DEF Program, Has, Tools
<1>4. CASE kind = "rollback"
  BY <1>4, RollbackProgram, LenProperties DEF Program, Has, Tools
<1>5. CASE kind \notin Tools
  <2>1. Program[kind] \in Seq(Statements) /\ Elements(Program[kind]) \subseteq ServiceSet(kind)
    BY <1>5, ServicePrograms DEF Within
  <2>2. QED
    BY <1>5, <2>1, LenProperties DEF Tools
<1>6. QED
  BY <1>1, <1>2, <1>3, <1>4, <1>5 DEF Tools

(* The statements that a job has to do, and what is done before them.        *)
LEMMA OwnStatements ==
  ASSUME NEW kind \in Kinds
  PROVE  /\ Own[kind] = {i \in 1..Len(Program[kind]) : Program[kind][i].table \in Tables}
         /\ Own[kind] \subseteq Nat
         /\ \A i \in Own[kind] : Program[kind][i] \in Elements(Program[kind])
         /\ \A x \in Elements(Program[kind]) :
              x.table \in Tables => \E i \in Own[kind] : x = Program[kind][i]
         /\ kind # "verify" => \A i \in Own[kind] :
              Before[kind][i] = {n \in Own[kind] : n < i}
<1>1. Program[kind] \in Seq(Statements) /\ Len(Program[kind]) \in Nat
  BY Programs
<1>2. DOMAIN Program[kind] = 1..Len(Program[kind])
  BY <1>1
<1>3. Own[kind] = {i \in 1..Len(Program[kind]) : Program[kind][i].table \in Tables}
  BY <1>2 DEF Own
<1>4. kind # "verify" => \A i \in Own[kind] :
        Before[kind][i] = {n \in Own[kind] : n < i}
  BY DEF Before, Together
<1>5. QED
  BY <1>1, <1>3, <1>4 DEF Elements

(* What a statement can be.                                                  *)
LEMMA StatementKinds ==
  ASSUME NEW kind \in Kinds, NEW x \in Elements(Program[kind])
  PROVE  /\ x \in Statements
         /\ kind = "import" =>
              /\ x.verb \in {"empty", "insert", "stamp", "compare", "exact"}
              /\ x.verb \in {"insert", "stamp"} => x.table \in AllLegacy
         /\ kind = "verify" => x.verb \in {"compare", "exact", "none"}
         /\ kind = "repair" => /\ x.verb \in {"lock", "baseline", "stamp", "exact"}
                               /\ x.table \in AllLegacy
         /\ kind = "rollback" =>
              /\ x.verb \in {"lock", "compare", "exact", "none", "delete"}
              /\ x.verb = "delete" => x.table \in AllLegacy
         /\ kind \notin Tools =>
              /\ x.verb \in {"create", "touch", "change", "edit"}
              /\ x.verb \in {"change", "edit"} => x.table \in AllLegacy
              /\ x.verb = "edit" => kind = "updateToken"
              /\ x.verb = "create" => /\ x.table # "account_sessions"
                                      /\ x.table = "local_identities" => kind = "register"
              /\ kind = "register" => x.verb = "create"
<1>1. x \in Statements
  BY Programs, ElementOfSeq DEF Elements
<1>2. CASE kind = "import"
  BY <1>1, <1>2, Programs DEF ImportSet, On, Tools
<1>3. CASE kind = "verify"
  BY <1>1, <1>3, Programs DEF VerifySet, On, Tools
<1>4. CASE kind = "repair"
  BY <1>1, <1>4, Programs DEF RepairSet, On, Tools
<1>5. CASE kind = "rollback"
  BY <1>1, <1>5, Programs DEF RollbackSet, VerifySet, On, Tools
<1>6. CASE kind \notin Tools
  <2>1. x \in ServiceSet(kind)
    BY <1>6, Programs
  <2>2. /\ x.verb \in {"create", "touch", "change", "edit"}
        /\ x.verb \in {"change", "edit"} => x.table \in AllLegacy
        /\ x.verb = "edit" => kind = "updateToken"
        /\ x.verb = "create" => /\ x.table # "account_sessions"
                                /\ x.table = "local_identities" => kind = "register"
    BY <2>1 DEF ServiceSet, On
  <2>3. kind = "register" => x.verb = "create"
    BY <1>6, ServicePrograms
  <2>4. QED
    BY <1>1, <1>6, <2>2, <2>3 DEF Tools
<1>7. QED
  BY <1>2, <1>3, <1>4, <1>5, <1>6 DEF Tools

(* What has been done at the end.                                            *)
LEMMA Required ==
  ASSUME NEW kind \in Kinds
  PROVE  /\ kind = "import" =>
              /\ \A t \in Counted : [verb |-> "empty", table |-> t] \in Elements(Program[kind])
              /\ \A t \in AllLegacy : [verb |-> "stamp", table |-> t] \in Elements(Program[kind])
         /\ kind \in {"verify", "rollback"} =>
              /\ \A t \in AllLegacy :
                   /\ [verb |-> "compare", table |-> t] \in Elements(Program[kind])
                   /\ [verb |-> "exact", table |-> t] \in Elements(Program[kind])
              /\ \A t \in AllNew : [verb |-> "none", table |-> t] \in Elements(Program[kind])
         /\ kind = "rollback" =>
              \A t \in AllLegacy : [verb |-> "delete", table |-> t] \in Elements(Program[kind])
         /\ kind = "register" =>
              [verb |-> "create", table |-> "accounts"] \in Elements(Program[kind])
<1>1. kind = "import" =>
        /\ \A t \in Counted : [verb |-> "empty", table |-> t] \in Elements(Program[kind])
        /\ \A t \in AllLegacy : [verb |-> "stamp", table |-> t] \in Elements(Program[kind])
  BY Programs DEF ImportSet, On
<1>2. kind \in {"verify", "rollback"} => VerifySet \subseteq Elements(Program[kind])
  BY Programs DEF RollbackSet
<1>3. kind = "rollback" =>
        \A t \in AllLegacy : [verb |-> "delete", table |-> t] \in Elements(Program[kind])
  BY Programs DEF RollbackSet, On
<1>4. kind = "register" => [verb |-> "create", table |-> "accounts"] \in Elements(Program[kind])
  BY ServicePrograms DEF Tools
<1>5. /\ \A t \in AllLegacy : /\ [verb |-> "compare", table |-> t] \in VerifySet
                              /\ [verb |-> "exact", table |-> t] \in VerifySet
      /\ \A t \in AllNew : [verb |-> "none", table |-> t] \in VerifySet
  BY DEF VerifySet, On
<1>6. QED
  BY <1>1, <1>2, <1>3, <1>4, <1>5

(* What has been done before a statement.                                    *)
LEMMA Ordered ==
  ASSUME NEW kind \in Kinds, NEW x \in Elements(Program[kind])
  PROVE  /\ kind \in {"repair", "rollback"} /\ x.verb # "lock" =>
              \A t \in AllLegacy : Precedes(Program[kind], [verb |-> "lock", table |-> t], x)
         /\ kind = "rollback" /\ x.verb # "lock" =>
              \A t \in AllTables : Precedes(Program[kind], [verb |-> "lock", table |-> t], x)
         /\ kind = "import" /\ x.verb = "stamp" =>
              Precedes(Program[kind], [verb |-> "insert", table |-> x.table], x)
         /\ kind = "repair" /\ x.verb = "stamp" =>
              Precedes(Program[kind], [verb |-> "baseline", table |-> x.table], x)
         /\ kind = "rollback" /\ x.verb = "delete" =>
              Precedes(Program[kind], [verb |-> "compare", table |-> x.table], x)
<1>1. x = [verb |-> x.verb, table |-> x.table]
  BY StatementKinds DEF Statements
<1>2. CASE kind = "import"
  <2>1. x.verb = "stamp" => x.table \in AllLegacy /\ x = [verb |-> "stamp", table |-> x.table]
    BY <1>1, <1>2, StatementKinds
  <2>2. QED
    BY <1>2, <2>1, Programs, ImportProgram
<1>3. CASE kind = "repair"
  <2>1. x.verb = "stamp" => x.table \in AllLegacy /\ x = [verb |-> "stamp", table |-> x.table]
    BY <1>1, <1>3, StatementKinds
  <2>2. Program[kind] = RepairImportedTimestamps /\ x \in RepairSet
    BY <1>3, Programs
  <2>3. QED
    BY <1>3, <2>1, <2>2, RepairProgram
<1>4. CASE kind = "rollback"
  <2>1. x.verb = "delete" => x.table \in AllLegacy /\ x = [verb |-> "delete", table |-> x.table]
    BY <1>1, <1>4, StatementKinds
  <2>2. Program[kind] = RollbackImport /\ x \in RollbackSet /\ AllLegacy \subseteq AllTables
    BY <1>4, Programs DEF AllTables
  <2>3. QED
    BY <1>4, <2>1, <2>2, RollbackProgram
<1>5. QED
  BY <1>2, <1>3, <1>4

-----------------------------------------------------------------------------
(* What the steps do.                                                        *)

(* Job j executes statement s and goes on.                                   *)
Moves(j, s) ==
  /\ Busy(j) /\ job[j].kind \in Kinds
  /\ s \in Elements(Program[job[j].kind]) /\ s.table \in Tables
  /\ Blockers(j, s) = {} /\ Holds(j, s)
  /\ UNCHANGED <<defect, db>> /\ job' \in [Jobs -> JobRecords]
  /\ \A k \in Jobs \ {j} : job'[k] = job[k]
  /\ job'[j].kind = job[j].kind /\ job'[j].clean = job[j].clean
  /\ job'[j].alike = job[j].alike /\ job'[j].matched = job[j].matched
  /\ job'[j].disturbed = job[j].disturbed /\ job'[j].retouched = job[j].retouched
  /\ job'[j].pending = [job[j].pending EXCEPT ![s.table] = Wrote(j, s)]
  /\ Standing(j)' /\ Past(j)' = Past(j) \cup {s}
  /\ job[j].kind # "verify" =>
       \A y : y.table \in Tables /\ Precedes(Program[job[j].kind], y, s) => y \in Past(j)

(* A transaction writes what a table can hold.                               *)
LEMMA WroteValues ==
  ASSUME Typed, NEW j \in Jobs, NEW s, s.table \in Tables
  PROVE  Wrote(j, s) \in Values
<1>1. job[j].pending[s.table] \in Values
  BY DEF Typed, JobRecords
<1>2. QED
  BY <1>1 DEF Wrote, Values

(* A statement takes effect, or the transaction is rolled back.              *)
LEMMA ExecuteEffect ==
  ASSUME Typed, NEW j \in Jobs, Execute(j)
  PROVE  \/ Abort(j) /\ UNCHANGED <<defect, db>>
         \/ \E s : Moves(j, s)
<1> DEFINE kind == job[j].kind
           p == Program[job[j].kind]
<1>1. PICK i \in Ready(j) :
        /\ Blockers(j, Statement(j, i)) = {}
        /\ \/ /\ Holds(j, Statement(j, i))
              /\ job' = [job EXCEPT ![j].done = @ \cup {i},
                                    ![j].pending[Statement(j, i).table] = Wrote(j, Statement(j, i))]
           \/ Abort(j)
  BY DEF Execute
<1>2. Busy(j) /\ UNCHANGED <<defect, db>>
  BY DEF Execute
<1>3. CASE Abort(j)
  BY <1>2, <1>3
<1>4. CASE /\ Holds(j, Statement(j, i))
           /\ job' = [job EXCEPT ![j].done = @ \cup {i},
                                 ![j].pending[Statement(j, i).table] = Wrote(j, Statement(j, i))]
  <2>1. PICK s : s = Statement(j, i)
    OBVIOUS
  <2>2. /\ kind \in Kinds /\ job \in [Jobs -> JobRecords] /\ job[j] \in JobRecords
        /\ job[j].done \subseteq Own[kind] /\ job[j].done \in SUBSET Nat
    BY <1>2 DEF Typed, Standing, Busy, JobRecords
  <2>3. i \in Own[kind] /\ Before[kind][i] \subseteq job[j].done /\ s = p[i]
    BY <2>1 DEF Ready, Statement
  <2>4. s \in Elements(p) /\ s.table \in Tables /\ i \in Nat
    BY <2>2, <2>3, OwnStatements
  <2>5. PICK f \in [Tables -> Values] : f = [job[j].pending EXCEPT ![s.table] = Wrote(j, s)]
    BY <2>2, <2>4, WroteValues DEF JobRecords
  <2>6. PICK D \in SUBSET Nat : D = job[j].done \cup {i}
    BY <2>2, <2>4
  <2>7. job' = [job EXCEPT ![j] = [job[j] EXCEPT !.done = D, !.pending = f]]
    BY <1>4, <2>1, <2>2, <2>5, <2>6 DEF JobRecords
  <2>8. job'[j] = [job[j] EXCEPT !.done = D, !.pending = f] /\ \A k \in Jobs \ {j} : job'[k] = job[k]
    BY <2>2, <2>7
  <2>9. /\ job'[j] \in JobRecords /\ job'[j].kind = kind /\ job'[j].clean = job[j].clean
        /\ job'[j].alike = job[j].alike /\ job'[j].matched = job[j].matched
        /\ job'[j].disturbed = job[j].disturbed /\ job'[j].retouched = job[j].retouched
        /\ job'[j].done = D /\ job'[j].pending = f
    <3>1. PICK r \in JobRecords : r = job[j]
      BY <2>2
    <3>2. job'[j] = [r EXCEPT !.done = D, !.pending = f]
      BY <2>8, <3>1
    <3>3. /\ job'[j] \in JobRecords /\ job'[j].kind = r.kind /\ job'[j].clean = r.clean
          /\ job'[j].alike = r.alike /\ job'[j].matched = r.matched
          /\ job'[j].disturbed = r.disturbed /\ job'[j].retouched = r.retouched
          /\ job'[j].done = D /\ job'[j].pending = f
      BY <3>2 DEF JobRecords
    <3>4. QED
      BY <3>1, <3>3
  <2>10. job' \in [Jobs -> JobRecords]
    BY <2>2, <2>7, <2>9
  <2>11. Past(j)' = Past(j) \cup {s}
    BY <1>2, <2>3, <2>6, <2>9 DEF Past, Busy, Statement
  <2>12. Standing(j)'
    BY <2>2, <2>3, <2>6, <2>9 DEF Standing
  <2>13. ASSUME kind # "verify", NEW y, y.table \in Tables, Precedes(p, y, s)
         PROVE  y \in Past(j)
    <3>1. i \in 1..Len(p) /\ Len(p) \in Nat
      BY <2>2, <2>3, OwnStatements, Programs
    <3>2. PICK l \in 1..(i - 1) : p[l] = y
      BY <2>3, <2>13, <3>1 DEF Precedes
    <3>3. l \in Own[kind] /\ l < i
      BY <2>2, <2>13, <3>1, <3>2, OwnStatements
    <3>4. l \in job[j].done
      BY <2>2, <2>3, <2>13, <3>3, OwnStatements
    <3>5. QED
      BY <1>2, <3>2, <3>4 DEF Past, Statement
  <2>14. Moves(j, s)
    BY <1>1, <1>2, <1>4, <2>1, <2>2, <2>4, <2>5, <2>8, <2>9, <2>10, <2>11, <2>12, <2>13 DEF Moves
  <2>15. QED
    BY <2>14
<1>5. QED
  BY <1>1, <1>3, <1>4

(* A job that stays as it is.                                                *)
LEMMA SameJob ==
  ASSUME NEW k, job'[k] = job[k]
  PROVE  /\ Past(k)' = Past(k) /\ Busy(k)' = Busy(k) /\ AtEnd(k)' = AtEnd(k)
         /\ Locked(k)' = Locked(k) /\ Fenced(k)' = Fenced(k) /\ Standing(k)' = Standing(k)
         /\ FencedFirst(k)' = FencedFirst(k)
BY DEF Past, Busy, AtEnd, Locked, Fenced, Done, Standing, Statement, FencedFirst, Did

(* What it knows stays true as long as nothing is committed.                 *)
LEMMA SameKnowledge ==
  ASSUME NEW k, job'[k] = job[k], UNCHANGED <<defect, db>>, JobInv(k)
  PROVE  JobInv(k)'
<1>1. Past(k)' = Past(k) /\ Busy(k)' = Busy(k) /\ FencedFirst(k)' = FencedFirst(k)
  BY SameJob
<1>2. \A verb, t : Did(k, verb, t)' <=> Did(k, verb, t)
  BY <1>1 DEF Did
<1>3. FencedFirst(k)'
  BY <1>1 DEF JobInv
<1>4. Clean(k)'
  BY <1>2 DEF JobInv, Clean
<1>5. Matched(k)'
  <2>1. \A t : (Lasting(k, t)' <=> Lasting(k, t)) /\ (Differs(k, t)' <=> Differs(k, t))
    BY <1>2 DEF Lasting, Differs
  <2>2. QED
    BY <2>1 DEF JobInv, Matched
<1>6. Knows(k)'
  <2> SUFFICES ASSUME NEW t \in Tables
               PROVE  /\ job'[k].kind = "import" => Importing(k, t)'
                      /\ job'[k].kind = "verify" => Verifying(k, t)'
                      /\ job'[k].kind = "repair" => Repairing(k, t)'
                      /\ job'[k].kind = "rollback" => RollingBack(k, t)'
                      /\ Busy(k)' /\ job'[k].kind \notin Tools => Serving(k, t)'
    BY DEF Knows
  <2>1. /\ job[k].kind = "import" => Importing(k, t)
        /\ job[k].kind = "verify" => Verifying(k, t)
        /\ job[k].kind = "repair" => Repairing(k, t)
        /\ job[k].kind = "rollback" => RollingBack(k, t)
        /\ Busy(k) /\ job[k].kind \notin Tools => Serving(k, t)
    BY DEF JobInv, Knows
  <2>2. Importing(k, t)' <=> Importing(k, t)
    BY <1>2 DEF Importing
  <2>3. Verifying(k, t)' <=> Verifying(k, t)
    BY DEF Verifying
  <2>4. Repairing(k, t)' <=> Repairing(k, t)
    BY <1>2 DEF Repairing
  <2>5. RollingBack(k, t)' <=> RollingBack(k, t)
    BY <1>2 DEF RollingBack
  <2>6. Serving(k, t)' <=> Serving(k, t)
    BY <1>2 DEF Serving
  <2>7. QED
    BY <1>1, <2>1, <2>2, <2>3, <2>4, <2>5, <2>6
<1>7. Accepted(k)'
  BY DEF JobInv, Accepted
<1>8. QED
  BY <1>3, <1>4, <1>5, <1>6, <1>7 DEF JobInv

(* Locks and fences in terms of what a job has done.                         *)
LEMMA Locks ==
  ASSUME NEW j
  PROVE  /\ \A t : t \in Locked(j) <=>
                     job[j].kind # "verify" /\ \E x \in Past(j) : x.table = t
         /\ \A t : t \in Fenced(j) <=>
                     job[j].kind # "verify" /\ \E x \in Past(j) : x.table = t /\ x.verb = "lock"
BY DEF Locked, Fenced, Done, Past

-----------------------------------------------------------------------------
(* A statement keeps the invariant.                                          *)

(* What each verb demands and what it writes.                                *)
LEMMA VerbEffects ==
  ASSUME NEW j, NEW s, Holds(j, s)
  PROVE  /\ s.verb \in {"empty", "compare", "baseline", "exact", "none", "lock", "touch"} =>
              Wrote(j, s) = job[j].pending[s.table]
         /\ s.verb = "insert" => Wrote(j, s) = "rounded" /\ Imported(j, s.table) = "absent"
         /\ s.verb = "stamp" => Wrote(j, s) = "exact" /\ Imported(j, s.table) # "absent"
         /\ s.verb = "delete" => Wrote(j, s) = "absent"
         /\ s.verb = "create" => Wrote(j, s) = "created"
         /\ s.verb = "change" => IF db[s.table].imported # "absent"
                                 THEN Wrote(j, s) = "changed"
                                 ELSE Wrote(j, s) = job[j].pending[s.table]
         /\ s.verb = "edit" => IF db[s.table].imported # "absent"
                               THEN Wrote(j, s) = "edited"
                               ELSE Wrote(j, s) = job[j].pending[s.table]
         /\ s.verb = "empty" => ~Seen(j, s.table)
         /\ s.verb = "compare" => /\ Imported(j, s.table) \in Commits
                                  /\ ~db[s.table].edited /\ ~db[s.table].newer
         /\ s.verb = "baseline" => Imported(j, s.table) \in Commits
         /\ s.verb = "exact" => Imported(j, s.table) = "exact"
         /\ s.verb = "none" => ~db[s.table].newer
BY DEF Holds, Wrote, Commits

(* What a job has done after a statement, and what it has written.           *)
LEMMA MoveEffects ==
  ASSUME Typed, NEW j \in Jobs, NEW s, Moves(j, s)
  PROVE  /\ s \in Statements /\ s = [verb |-> s.verb, table |-> s.table]
         /\ Did(j, s.verb, s.table)'
         /\ \A verb, t : Did(j, verb, t) => Did(j, verb, t)'
         /\ \A verb, t : t \in Tables /\ Did(j, verb, t)' =>
              Did(j, verb, t) \/ (s.verb = verb /\ s.table = t)
         /\ job'[j].pending[s.table] = Wrote(j, s)
         /\ \A t \in Tables : t # s.table => job'[j].pending[t] = job[j].pending[t]
<1>1. s \in Statements /\ s = [verb |-> s.verb, table |-> s.table]
  BY StatementKinds DEF Moves, Statements
<1>2. /\ Past(j)' = Past(j) \cup {s} /\ s.table \in Tables
      /\ job'[j].pending = [job[j].pending EXCEPT ![s.table] = Wrote(j, s)]
      /\ job[j].pending \in [Tables -> Values]
  BY DEF Moves, Typed, JobRecords
<1>3. \A verb, t : t \in Tables /\ Did(j, verb, t)' =>
        Did(j, verb, t) \/ (s.verb = verb /\ s.table = t)
  BY <1>2 DEF Did
<1>4. Did(j, s.verb, s.table)' /\ \A verb, t : Did(j, verb, t) => Did(j, verb, t)'
  BY <1>1, <1>2 DEF Did
<1>5. QED
  BY <1>1, <1>2, <1>3, <1>4

(* Locks: whoever holds the table in a conflicting mode keeps j waiting.     *)
LEMMA MoveLocks ==
  ASSUME FenceInv, NEW j \in Jobs, NEW s, Moves(j, s)
  PROVE  Exclusive' /\ Owned' /\ OneInserts'
<1>1. /\ Typed /\ Exclusive /\ Owned /\ OneInserts /\ s.table \in Tables /\ Blockers(j, s) = {}
      /\ \A k \in Jobs \ {j} : job'[k] = job[k]
      /\ job'[j].kind = job[j].kind /\ job[j].kind \in Kinds /\ Holds(j, s)
      /\ s \in Elements(Program[job[j].kind])
  BY DEF FenceInv, Moves
<1>2. ASSUME NEW k \in Jobs \ {j}
      PROVE  /\ Locked(k)' = Locked(k) /\ Fenced(k)' = Fenced(k)
             /\ s.table \notin Fenced(k)
             /\ s.verb = "lock" => s.table \notin Locked(k)
             /\ s.verb = "insert" /\ job[k].kind = "import" =>
                  job[k].pending[s.table] = "unwritten"
  BY <1>1, SameJob DEF Blockers
<1>3. \A t \in Tables : /\ t \in Locked(j)' => t \in Locked(j) \/ t = s.table
                        /\ t \in Fenced(j)' => t \in Fenced(j) \/ (t = s.table /\ s.verb = "lock")
                        /\ t \in Locked(j) => t \in Locked(j)'
  <2>1. Past(j)' = Past(j) \cup {s}
    BY DEF Moves
  <2>2. /\ \A t : t \in Locked(j)' <=>
                    job'[j].kind # "verify" /\ \E x \in Past(j)' : x.table = t
        /\ \A t : t \in Fenced(j)' <=>
                    job'[j].kind # "verify" /\ \E x \in Past(j)' : x.table = t /\ x.verb = "lock"
    BY DEF Locked, Fenced, Done, Past
  <2>3. QED
    BY <1>1, <2>1, <2>2, Locks
<1>4. Exclusive'
  <2>1. ASSUME NEW k, NEW l, k \in Jobs, l \in Jobs, k # l, NEW t \in Tables,
               t \in Fenced(k)', t \in Locked(l)'
        PROVE  FALSE
    <3>1. Fenced(k) \cap Locked(l) \cap Tables = {}
      BY <1>1, <2>1 DEF Exclusive
    <3>2. CASE k = j
      BY <1>2, <1>3, <2>1, <3>1, <3>2
    <3>3. CASE l = j
      BY <1>2, <1>3, <2>1, <3>1, <3>3
    <3>4. CASE k # j /\ l # j
      BY <1>2, <2>1, <3>1, <3>4
    <3>5. QED
      BY <3>2, <3>3, <3>4
  <2>2. QED
    BY <2>1 DEF Exclusive
<1>5. Owned'
  <2>1. ASSUME NEW t \in Tables, job'[j].pending[t] # "unwritten" PROVE t \in Locked(j)'
    <3>1. CASE t # s.table
      <4>1. t \in Locked(j)
        BY <1>1, <2>1, <3>1, MoveEffects DEF Owned
      <4>2. QED
        BY <1>3, <4>1
    <3>2. CASE t = s.table
      <4>1. CASE job[j].kind = "verify"
        <5>1. Wrote(j, s) = job[j].pending[t]
          BY <1>1, <3>2, <4>1, StatementKinds, VerbEffects
        <5>2. t \in Locked(j)
          BY <1>1, <2>1, <3>2, <5>1, MoveEffects DEF Owned
        <5>3. QED
          BY <1>3, <5>2
      <4>2. CASE job[j].kind # "verify"
        <5>1. s \in Past(j)'
          BY DEF Moves
        <5>2. QED
          BY <1>1, <3>2, <4>2, <5>1 DEF Locked, Done, Past
      <4>3. QED
        BY <4>1, <4>2
    <3>3. QED
      BY <3>1, <3>2
  <2>2. QED
    BY <1>1, <1>2, <2>1 DEF Owned
<1>6. OneInserts'
  <2>1. ASSUME NEW k \in Jobs \ {j}, NEW t \in Tables,
               job[j].kind = "import", job[k].kind = "import"
        PROVE  "unwritten" \in {job'[j].pending[t], job[k].pending[t]}
    <3>1. "unwritten" \in {job[j].pending[t], job[k].pending[t]}
      BY <1>1, <2>1 DEF OneInserts
    <3>2. CASE t # s.table
      BY <1>1, <3>1, <3>2, MoveEffects
    <3>3. CASE t = s.table
      <4>1. s.verb \in {"empty", "compare", "exact", "insert", "stamp"}
        BY <1>1, <2>1, StatementKinds
      <4>2. CASE s.verb = "insert"
        BY <1>2, <2>1, <3>3, <4>2
      <4>3. CASE s.verb = "stamp"
        <5>1. Did(j, "insert", t)
          BY <1>1, <2>1, <3>3, <4>3, Ordered DEF Moves, Did
        <5>2. job[j].pending[t] # "unwritten"
          BY <2>1, <5>1 DEF FenceInv, JobInv, Knows, Importing
        <5>3. QED
          BY <3>1, <5>2
      <4>4. CASE s.verb \in {"empty", "compare", "exact"}
        <5>1. job'[j].pending[t] = job[j].pending[t]
          BY <1>1, <3>3, <4>4, MoveEffects, VerbEffects
        <5>2. QED
          BY <3>1, <5>1
      <4>5. QED
        BY <4>1, <4>2, <4>3, <4>4
    <3>4. QED
      BY <3>2, <3>3
  <2>2. ASSUME NEW k \in Jobs, NEW l \in Jobs, NEW t \in Tables, k # l,
               job'[k].kind = "import", job'[l].kind = "import"
        PROVE  "unwritten" \in {job'[k].pending[t], job'[l].pending[t]}
    <3>1. CASE k = j
      BY <1>1, <2>1, <2>2, <3>1
    <3>2. CASE l = j
      BY <1>1, <2>1, <2>2, <3>2
    <3>3. CASE k # j /\ l # j
      BY <1>1, <2>2, <3>3 DEF OneInserts
    <3>4. QED
      BY <3>1, <3>2, <3>3
  <2>3. QED
    BY <2>2 DEF OneInserts
<1>7. QED
  BY <1>4, <1>5, <1>6

(* The fences are up before anything else is done.                           *)
LEMMA MoveFences ==
  ASSUME FenceInv, NEW j \in Jobs, NEW s, Moves(j, s)
  PROVE  FencedFirst(j)'
<1>1. /\ Typed /\ FencedFirst(j) /\ job'[j].kind = job[j].kind /\ job[j].kind \in Kinds
      /\ s \in Elements(Program[job[j].kind])
      /\ job[j].kind # "verify" =>
           \A y : y.table \in Tables /\ Precedes(Program[job[j].kind], y, s) => y \in Past(j)
      /\ Past(j)' = Past(j) \cup {s}
  BY DEF FenceInv, JobInv, Moves
<1>2. \A t : Did(j, "lock", t) => Did(j, "lock", t)'
  BY <1>1, MoveEffects
<1>3. Tables \subseteq AllTables /\ Legacy \subseteq AllLegacy
  BY FenceAssumption DEF AllTables, Legacy
<1>4. s.verb # "lock" =>
        /\ job[j].kind \in {"repair", "rollback"} => \A t \in Legacy : Did(j, "lock", t)
        /\ job[j].kind = "rollback" => \A t \in Tables : Did(j, "lock", t)
  BY <1>1, <1>3, Ordered DEF Did, Legacy
<1>5. ASSUME NEW x \in Past(j)', x.verb # "lock", x.table \in Tables
      PROVE  /\ job'[j].kind \in {"repair", "rollback"} => \A t \in Legacy : Did(j, "lock", t)'
             /\ job'[j].kind = "rollback" => \A t \in Tables : Did(j, "lock", t)'
  BY <1>1, <1>2, <1>4, <1>5 DEF FencedFirst
<1>6. QED
  BY <1>5 DEF FencedFirst

(* An import inserts into an empty table and then restores its timestamps.   *)
LEMMA MoveImporting ==
  ASSUME FenceInv, NEW j \in Jobs, NEW s, Moves(j, s), job[j].kind = "import", NEW t \in Tables
  PROVE  Importing(j, t)'
<1>1. /\ Typed /\ Importing(j, t) /\ UNCHANGED <<defect, db>> /\ Holds(j, s)
      /\ s.verb \in {"empty", "insert", "stamp", "compare", "exact"}
      /\ s.verb \in {"insert", "stamp"} => s.table \in AllLegacy
  BY StatementKinds DEF FenceInv, JobInv, Knows, Moves
<1>2. \A verb : Did(j, verb, t)' => Did(j, verb, t) \/ (s.verb = verb /\ s.table = t)
  BY <1>1, MoveEffects
<1>3. CASE t # s.table
  BY <1>1, <1>2, <1>3, MoveEffects DEF Importing
<1>4. CASE t = s.table
  <2>1. job'[j].pending[t] = Wrote(j, s)
    BY <1>1, <1>4, MoveEffects
  <2>2. CASE s.verb \in {"empty", "compare", "exact"}
    BY <1>1, <1>2, <1>4, <2>1, <2>2, VerbEffects DEF Importing
  <2>3. CASE s.verb = "insert"
    <3>1. Wrote(j, s) = "rounded" /\ Imported(j, t) = "absent" /\ t \in AllLegacy
      BY <1>1, <1>4, <2>3, VerbEffects
    <3>2. job[j].pending[t] = "unwritten" /\ db[t].imported = "absent"
      BY <1>1, <3>1 DEF Importing, Imported, Commits
    <3>3. ~Did(j, "stamp", t)'
      BY <1>1, <1>2, <2>3, <3>2 DEF Importing
    <3>4. QED
      BY <1>1, <2>1, <3>1, <3>2, <3>3 DEF Importing, Commits
  <2>4. CASE s.verb = "stamp"
    <3>1. Did(j, "insert", t)
      BY <1>4, <2>4, Ordered DEF Moves, Did
    <3>2. Wrote(j, s) = "exact" /\ t \in AllLegacy
      BY <1>1, <1>4, <2>4, VerbEffects
    <3>3. QED
      BY <1>1, <2>1, <3>1, <3>2 DEF Importing, Commits
  <2>5. QED
    BY <1>1, <2>2, <2>3, <2>4
<1>5. QED
  BY <1>3, <1>4

(* A verification writes nothing.                                            *)
LEMMA MoveVerifying ==
  ASSUME FenceInv, NEW j \in Jobs, NEW s, Moves(j, s), job[j].kind = "verify", NEW t \in Tables
  PROVE  Verifying(j, t)'
<1>1. Typed /\ Verifying(j, t) /\ Holds(j, s) /\ s.verb \in {"compare", "exact", "none"}
  BY StatementKinds DEF FenceInv, JobInv, Knows, Moves
<1>2. QED
  BY <1>1, MoveEffects, VerbEffects DEF Verifying

(* A repair writes to a table whose rows it has compared with the baseline.  *)
LEMMA MoveRepairing ==
  ASSUME FenceInv, NEW j \in Jobs, NEW s, Moves(j, s), job[j].kind = "repair", NEW t \in Tables
  PROVE  Repairing(j, t)'
<1>1. /\ Typed /\ Repairing(j, t) /\ UNCHANGED <<defect, db>> /\ Holds(j, s)
      /\ s.verb \in {"lock", "baseline", "stamp", "exact"} /\ s.table \in AllLegacy
  BY StatementKinds DEF FenceInv, JobInv, Knows, Moves
<1>2. \A verb : /\ Did(j, verb, t)' => Did(j, verb, t) \/ (s.verb = verb /\ s.table = t)
                /\ Did(j, verb, t) => Did(j, verb, t)'
  BY <1>1, MoveEffects
<1>3. CASE t # s.table
  BY <1>1, <1>2, <1>3, MoveEffects DEF Repairing
<1>4. CASE t = s.table
  <2>1. job'[j].pending[t] = Wrote(j, s)
    BY <1>1, <1>4, MoveEffects
  <2>2. CASE s.verb \in {"lock", "exact"}
    BY <1>1, <1>2, <1>4, <2>1, <2>2, VerbEffects DEF Repairing
  <2>3. CASE s.verb = "baseline"
    <3>1. Wrote(j, s) = job[j].pending[t] /\ Imported(j, t) \in Commits
      BY <1>1, <1>4, <2>3, VerbEffects
    <3>2. db[t].imported \in Commits
      BY <1>1, <3>1 DEF Repairing, Imported
    <3>3. QED
      BY <1>1, <1>2, <2>1, <3>1, <3>2 DEF Repairing
  <2>4. CASE s.verb = "stamp"
    <3>1. Did(j, "baseline", t)
      BY <1>4, <2>4, Ordered DEF Moves, Did
    <3>2. Wrote(j, s) = "exact" /\ t \in AllLegacy
      BY <1>1, <1>4, <2>4, VerbEffects
    <3>3. QED
      BY <1>1, <1>2, <2>1, <3>1, <3>2 DEF Repairing
  <2>5. QED
    BY <1>1, <2>2, <2>3, <2>4
<1>5. QED
  BY <1>3, <1>4

(* A rollback deletes from a table that it has verified.                     *)
LEMMA MoveRollingBack ==
  ASSUME FenceInv, NEW j \in Jobs, NEW s, Moves(j, s), job[j].kind = "rollback", NEW t \in Tables
  PROVE  RollingBack(j, t)'
<1>1. /\ Typed /\ RollingBack(j, t) /\ UNCHANGED <<defect, db>> /\ Holds(j, s)
      /\ s.verb \in {"lock", "compare", "exact", "none", "delete"}
      /\ s.verb = "delete" => s.table \in AllLegacy
  BY StatementKinds DEF FenceInv, JobInv, Knows, Moves
<1>2. \A verb : /\ Did(j, verb, t)' => Did(j, verb, t) \/ (s.verb = verb /\ s.table = t)
                /\ Did(j, verb, t) => Did(j, verb, t)'
  BY <1>1, MoveEffects
<1>3. CASE t # s.table
  BY <1>1, <1>2, <1>3, MoveEffects DEF RollingBack
<1>4. CASE t = s.table
  <2>1. job'[j].pending[t] = Wrote(j, s)
    BY <1>1, <1>4, MoveEffects
  <2>2. CASE s.verb \in {"lock", "none"}
    BY <1>1, <1>2, <1>4, <2>1, <2>2, VerbEffects DEF RollingBack
  <2>3. CASE s.verb = "exact"
    <3>1. Wrote(j, s) = job[j].pending[t] /\ Imported(j, t) = "exact"
      BY <1>1, <1>4, <2>3, VerbEffects
    <3>2. db[t].imported = "exact"
      BY <1>1, <3>1 DEF RollingBack, Imported
    <3>3. QED
      BY <1>1, <1>2, <2>1, <2>3, <3>1, <3>2 DEF RollingBack
  <2>4. CASE s.verb = "compare"
    <3>1. Wrote(j, s) = job[j].pending[t] /\ Imported(j, t) \in Commits
          /\ ~db[t].edited /\ ~db[t].newer
      BY <1>1, <1>4, <2>4, VerbEffects
    <3>2. db[t].imported \in Commits
      BY <1>1, <3>1 DEF RollingBack, Imported
    <3>3. QED
      BY <1>1, <1>2, <2>1, <2>4, <3>1, <3>2 DEF RollingBack
  <2>5. CASE s.verb = "delete"
    <3>1. Did(j, "compare", t)
      BY <1>4, <2>5, Ordered DEF Moves, Did
    <3>2. Wrote(j, s) = "absent" /\ t \in AllLegacy
      BY <1>1, <1>4, <2>5, VerbEffects
    <3>3. QED
      BY <1>1, <1>2, <2>1, <2>5, <3>1, <3>2 DEF RollingBack
  <2>6. QED
    BY <1>1, <2>2, <2>3, <2>4, <2>5
<1>5. QED
  BY <1>3, <1>4

(* The service adds rows, or changes imported ones that are there.           *)
LEMMA MoveServing ==
  ASSUME FenceInv, NEW j \in Jobs, NEW s, Moves(j, s), job[j].kind \notin Tools, NEW t \in Tables
  PROVE  Serving(j, t)'
<1>1. /\ Typed /\ Serving(j, t) /\ UNCHANGED <<defect, db>> /\ Holds(j, s)
      /\ job'[j].kind = job[j].kind
      /\ s.verb \in {"create", "touch", "change", "edit"}
      /\ s.verb \in {"change", "edit"} => s.table \in AllLegacy
      /\ s.verb = "edit" => job[j].kind = "updateToken"
      /\ s.verb = "create" => /\ s.table # "account_sessions"
                              /\ s.table = "local_identities" => job[j].kind = "register"
      /\ job[j].kind = "register" => s.verb = "create"
  BY StatementKinds DEF FenceInv, JobInv, Knows, Moves
<1>2. \A verb : Did(j, verb, t)' => Did(j, verb, t) \/ (s.verb = verb /\ s.table = t)
  BY <1>1, MoveEffects
<1>3. CASE t # s.table
  BY <1>1, <1>2, <1>3, MoveEffects DEF Serving
<1>4. CASE t = s.table
  <2>1. job'[j].pending[t] = Wrote(j, s)
    BY <1>1, <1>4, MoveEffects
  <2>2. CASE s.verb = "touch"
    BY <1>1, <1>2, <1>4, <2>1, <2>2, VerbEffects DEF Serving
  <2>3. CASE s.verb = "create"
    BY <1>1, <1>2, <1>4, <2>1, <2>3, VerbEffects DEF Serving
  <2>4. CASE s.verb = "change"
    <3>1. \/ Wrote(j, s) = job[j].pending[t]
          \/ Wrote(j, s) = "changed" /\ db[t].imported # "absent"
      BY <1>1, <1>4, <2>4, VerbEffects
    <3>2. t \in AllLegacy
      BY <1>1, <1>4, <2>4
    <3>3. QED
      BY <1>1, <1>2, <1>4, <2>1, <2>4, <3>1, <3>2 DEF Serving
  <2>5. CASE s.verb = "edit"
    <3>1. \/ Wrote(j, s) = job[j].pending[t]
          \/ Wrote(j, s) = "edited" /\ db[t].imported # "absent"
      BY <1>1, <1>4, <2>5, VerbEffects
    <3>2. t \in AllLegacy /\ job[j].kind = "updateToken"
      BY <1>1, <1>4, <2>5
    <3>3. QED
      BY <1>1, <1>2, <1>4, <2>1, <2>5, <3>1, <3>2 DEF Serving
  <2>6. QED
    BY <1>1, <2>2, <2>3, <2>4, <2>5
<1>5. QED
  BY <1>3, <1>4

(* A table that an import counts has no row, so the rows it is still to find *)
(* are elsewhere.                                                            *)
LEMMA MoveClean ==
  ASSUME FenceInv, NEW j \in Jobs, NEW s, Moves(j, s)
  PROVE  Clean(j)'
<1> SUFFICES ASSUME job'[j].kind = "import", ~job'[j].clean
             PROVE  \E t \in Tables \cap Counted :
                      /\ db'[t].imported # "absent" \/ db'[t].newer
                      /\ ~Did(j, "empty", t)'
  BY DEF Clean
<1>1. /\ Typed /\ job[j].kind = "import" /\ ~job[j].clean /\ UNCHANGED db /\ Holds(j, s)
      /\ Clean(j) /\ \A t \in Tables : Importing(j, t)
  BY DEF FenceInv, JobInv, Knows, Moves
<1>2. PICK t \in Tables \cap Counted :
        (db[t].imported # "absent" \/ db[t].newer) /\ ~Did(j, "empty", t)
  BY <1>1 DEF Clean
<1>3. ~(s.verb = "empty" /\ s.table = t)
  <2> SUFFICES ASSUME s.verb = "empty", s.table = t PROVE FALSE
    OBVIOUS
  <2>1. ~Seen(j, t)
    BY <1>1, VerbEffects
  <2>2. Imported(j, t) = "absent" /\ ~db[t].newer
    BY <2>1 DEF Seen
  <2>3. job[j].pending[t] = "unwritten"
    BY <1>1, <1>2, <2>2 DEF Imported, Importing, Commits
  <2>4. QED
    BY <1>2, <2>2, <2>3 DEF Imported
<1>4. ~Did(j, "empty", t)'
  BY <1>1, <1>2, <1>3, MoveEffects
<1>5. QED
  BY <1>1, <1>2, <1>4

(* What a verification has compared does not differ from the file, so the    *)
(* difference it is still to find is elsewhere.                              *)
LEMMA MoveMatched ==
  ASSUME FenceInv, NEW j \in Jobs, NEW s, Moves(j, s)
  PROVE  Matched(j)'
<1> SUFFICES ASSUME job'[j].kind = "verify", ~job'[j].disturbed
             PROVE  /\ ~job'[j].alike => \E t \in Tables : Lasting(j, t)'
                    /\ ~job'[j].matched /\ ~job'[j].retouched =>
                         \E t \in Tables : Differs(j, t)'
  BY DEF Matched
<1>1. /\ Typed /\ job[j].kind = "verify" /\ ~job[j].disturbed
      /\ job'[j].alike = job[j].alike /\ job'[j].matched = job[j].matched
      /\ job'[j].retouched = job[j].retouched
      /\ UNCHANGED db /\ Holds(j, s) /\ Matched(j) /\ Knows(j)
  BY DEF FenceInv, JobInv, Moves
<1>2. \A verb, t : t \in Tables /\ Did(j, verb, t)' =>
        Did(j, verb, t) \/ (s.verb = verb /\ s.table = t)
  BY <1>1, MoveEffects
<1>3. \A t \in Tables : /\ s.verb = "exact" /\ s.table = t => db[t].imported = "exact"
                        /\ s.verb \in {"compare", "none"} /\ s.table = t => ~db[t].newer
                        /\ s.verb = "compare" /\ s.table = t => ~db[t].edited
  BY <1>1, VerbEffects DEF Imported, Knows, Verifying
<1>4. \A t \in Tables : /\ Lasting(j, t) => Lasting(j, t)'
                        /\ Differs(j, t) => Differs(j, t)'
  BY <1>1, <1>2, <1>3 DEF Lasting, Differs
<1>5. QED
  BY <1>1, <1>4 DEF Matched

(* A statement of any job keeps the invariant.                               *)
LEMMA MoveKeepsInv ==
  ASSUME FenceInv, NEW j \in Jobs, NEW s, Moves(j, s)
  PROVE  FenceInv'
<1>1. /\ Typed /\ Tabled /\ UNCHANGED <<defect, db>> /\ job' \in [Jobs -> JobRecords]
      /\ \A k \in Jobs \ {j} : job'[k] = job[k]
      /\ \A k \in Jobs : JobInv(k)
      /\ job'[j].kind = job[j].kind /\ Standing(j)'
  BY DEF FenceInv, Moves
<1>2. Typed'
  <2>1. \A k \in Jobs : Standing(k)'
    BY <1>1, SameJob DEF Typed
  <2>2. QED
    BY <1>1, <2>1 DEF Typed
<1>3. Tabled'
  BY <1>1 DEF Tabled
<1>4. Knows(j)'
  <2>1. job[j].kind = "import" => \A t \in Tables : Importing(j, t)'
    BY MoveImporting
  <2>2. job[j].kind = "verify" => \A t \in Tables : Verifying(j, t)'
    BY MoveVerifying
  <2>3. job[j].kind = "repair" => \A t \in Tables : Repairing(j, t)'
    BY MoveRepairing
  <2>4. job[j].kind = "rollback" => \A t \in Tables : RollingBack(j, t)'
    BY MoveRollingBack
  <2>5. job[j].kind \notin Tools => \A t \in Tables : Serving(j, t)'
    BY MoveServing
  <2>6. QED
    BY <1>1, <2>1, <2>2, <2>3, <2>4, <2>5 DEF Knows
<1>5. JobInv(j)'
  <2>1. Accepted(j)'
    BY <1>1 DEF JobInv, Accepted
  <2>2. QED
    BY <1>4, <2>1, MoveFences, MoveClean, MoveMatched DEF JobInv
<1>6. \A k \in Jobs : JobInv(k)'
  BY <1>1, <1>5, SameKnowledge
<1>7. QED
  BY <1>2, <1>3, <1>6, MoveLocks DEF FenceInv

-----------------------------------------------------------------------------
(* The beginning and the end of a job.                                       *)

(* A job that has not executed a statement.                                  *)
Fresh(j) ==
  /\ Past(j) = {}
  /\ \A t \in Tables : job[j].pending[t] = "unwritten"

(* It locks nothing and knows nothing.                                       *)
LEMMA FreshKnows ==
  ASSUME NEW j, Fresh(j)
  PROVE  /\ Locked(j) \cap Tables = {} /\ Fenced(j) \cap Tables = {}
         /\ FencedFirst(j) /\ Knows(j)
<1>1. \A verb, t : t \in Tables => ~Did(j, verb, t)
  BY DEF Fresh, Did
<1>2. Locked(j) \cap Tables = {} /\ Fenced(j) \cap Tables = {}
  BY Locks DEF Fresh
<1>3. FencedFirst(j)
  BY DEF FencedFirst, Fresh
<1>4. Knows(j)
  BY <1>1 DEF Knows, Fresh, Importing, Verifying, Repairing, RollingBack, Serving
<1>5. QED
  BY <1>2, <1>3, <1>4

(* The idle record: a job between two pieces of work.                        *)
LEMMA IdleJob ==
  /\ Idle \in JobRecords /\ Idle.kind = "idle" /\ Idle.kind \notin Kinds
  /\ \A t \in Tables : Idle.pending[t] = "unwritten"
BY DEF Idle, JobRecords, Values, Kinds, Tools, Writes

(* What holds of the locks when one job starts afresh and the others stay    *)
(* where they are.                                                           *)
LEMMA FreshLocks ==
  ASSUME FenceInv, NEW j \in Jobs, Fresh(j)', 
         \A k \in Jobs \ {j} : Locked(k)' = Locked(k) /\ Fenced(k)' = Fenced(k)
                               /\ job'[k].kind = job[k].kind /\ job'[k].pending = job[k].pending
  PROVE  Exclusive' /\ Owned' /\ OneInserts'
<1>1. \A t \in Tables : t \notin Locked(j)' /\ t \notin Fenced(j)' /\ job'[j].pending[t] = "unwritten"
  <2>1. Past(j)' = {}
    BY DEF Fresh
  <2>2. /\ \A t : t \in Locked(j)' => \E x \in Past(j)' : x.table = t
        /\ \A t : t \in Fenced(j)' => \E x \in Past(j)' : x.table = t
    BY DEF Locked, Fenced, Done, Past
  <2>3. QED
    BY <2>1, <2>2 DEF Fresh
<1>2. Exclusive /\ Owned /\ OneInserts
  BY DEF FenceInv
<1>3. Exclusive'
  <2>1. ASSUME NEW k \in Jobs, NEW l \in Jobs, k # l, NEW t \in Tables, t \in Fenced(k)', t \in Locked(l)'
        PROVE  FALSE
    <3>1. k # j /\ l # j
      BY <1>1, <2>1
    <3>2. t \in Fenced(k) /\ t \in Locked(l)
      BY <2>1, <3>1
    <3>3. QED
      BY <1>2, <2>1, <3>2 DEF Exclusive
  <2>2. QED
    BY <2>1 DEF Exclusive
<1>4. Owned'
  BY <1>1, <1>2 DEF Owned
<1>5. OneInserts'
  <2>1. ASSUME NEW k \in Jobs, NEW l \in Jobs, NEW t \in Tables, k # l,
               job'[k].kind = "import", job'[l].kind = "import"
        PROVE  "unwritten" \in {job'[k].pending[t], job'[l].pending[t]}
    BY <1>1, <1>2, <2>1 DEF OneInserts
  <2>2. QED
    BY <2>1 DEF OneInserts
<1>6. QED
  BY <1>3, <1>4, <1>5

(* A job that is idle afterwards.                                            *)
LEMMA BackToIdle ==
  ASSUME NEW j, job'[j] = Idle
  PROVE  Fresh(j)' /\ Standing(j)' /\ JobInv(j)'
<1>1. job'[j].kind = "idle" /\ \A t \in Tables : job'[j].pending[t] = "unwritten"
  BY IdleJob
<1>2. Past(j)' = {}
  BY <1>1 DEF Past, Busy
<1>3. Standing(j)'
  BY <1>1 DEF Standing, Busy
<1>4. FencedFirst(j)' /\ Fresh(j)'
  BY <1>1, <1>2 DEF FencedFirst, Fresh
<1>5. Accepted(j)' /\ Knows(j)' /\ Clean(j)' /\ Matched(j)'
  BY <1>1 DEF Accepted, Knows, Clean, Matched, Busy, Tools
<1>6. QED
  BY <1>3, <1>4, <1>5 DEF JobInv

(* A transaction that is rolled back.                                        *)
LEMMA AbortKeepsInv ==
  ASSUME FenceInv, NEW j \in Jobs, Abort(j), UNCHANGED <<defect, db>>
  PROVE  FenceInv'
<1>1. /\ Typed /\ Tabled /\ job'[j] = Idle /\ \A k \in Jobs \ {j} : job'[k] = job[k]
      /\ job' \in [Jobs -> JobRecords] /\ \A k \in Jobs : JobInv(k)
  BY IdleJob DEF FenceInv, Abort, Typed
<1>2. Typed'
  <2>1. \A k \in Jobs : Standing(k)'
    BY <1>1, SameJob, BackToIdle DEF Typed
  <2>2. QED
    BY <1>1, <2>1 DEF Typed
<1>3. Tabled'
  BY <1>1 DEF Tabled
<1>4. Exclusive' /\ Owned' /\ OneInserts'
  BY <1>1, SameJob, BackToIdle, FreshLocks
<1>5. \A k \in Jobs : JobInv(k)'
  BY <1>1, SameKnowledge, BackToIdle
<1>6. QED
  BY <1>2, <1>3, <1>4, <1>5 DEF FenceInv

(* No work has begun, and only imported tables hold rows.                    *)
LEMMA InitFence == Init => FenceInv
<1> SUFFICES ASSUME Init PROVE FenceInv
  OBVIOUS
<1>1. PICK before \in {"absent", "rounded"} :
        /\ defect \in IF before = "absent" THEN Defects ELSE {"none"}
        /\ db = [t \in Tables |-> [imported |-> IF t \in Legacy THEN before ELSE "absent",
                                   edited |-> FALSE, newer |-> FALSE]]
  BY DEF Init
<1>2. /\ \A j \in Jobs : job[j] = Idle /\ ~Busy(j) /\ Past(j) = {}
      /\ job \in [Jobs -> JobRecords]
  BY IdleJob DEF Init, Idle, Busy, Past
<1>3. Typed
  <2>1. defect \in Defects
    BY <1>1 DEF Defects
  <2>2. db \in [Tables -> TableRecords]
    BY <1>1 DEF TableRecords
  <2>3. QED
    BY <1>2, <2>1, <2>2 DEF Typed, Standing
<1>4. Tabled
  BY <1>1, FenceAssumption DEF Tabled, Legacy
<1>5. \A j \in Jobs : Fresh(j) /\ job[j].kind = "idle"
  BY <1>2, IdleJob DEF Fresh
<1>6. Exclusive /\ Owned /\ OneInserts
  BY <1>5, FreshKnows DEF Exclusive, Owned, OneInserts, Fresh
<1>7. \A j \in Jobs : JobInv(j)
  BY <1>5, FreshKnows DEF JobInv, Accepted, Clean, Matched
<1>8. QED
  BY <1>3, <1>4, <1>6, <1>7 DEF FenceInv

(* A job begins: if the database is not empty, an import still has to find   *)
(* the rows; if it does not match the file, a verification the difference.   *)
LEMMA BeginKeepsInv ==
  ASSUME FenceInv, NEW j \in Jobs, NEW kind \in Kinds, Begin(j, kind)
  PROVE  FenceInv'
<1> DEFINE p == Program[kind]
<1>1. /\ Typed /\ Tabled /\ UNCHANGED <<defect, db>>
      /\ \A k \in Jobs : JobInv(k)
      /\ defect \notin Refused(kind) \/ kind \notin Tools
  BY DEF FenceInv, Begin
<1>2. kind # "idle"
  BY DEF Kinds, Tools, Writes
<1>3. PICK c \in BOOLEAN, a \in BOOLEAN, m \in BOOLEAN :
        /\ c = (kind = "import" /\ Empty) /\ a = (kind = "verify" /\ Alike)
        /\ m = (kind = "verify" /\ Matches)
  OBVIOUS
<1>4. /\ job'[j] = [Idle EXCEPT !.kind = kind, !.clean = c, !.alike = a, !.matched = m]
      /\ job' = [job EXCEPT ![j] = job'[j]]
      /\ \A k \in Jobs \ {j} : job'[k] = job[k]
  BY <1>1, <1>3 DEF Typed, Begin
<1>5. /\ job'[j].kind = kind /\ job'[j].done = {} /\ job'[j].pending = Idle.pending
      /\ job'[j].clean = c /\ job'[j].alike = a /\ job'[j].matched = m
      /\ job'[j] \in JobRecords
  <2>1. PICK r \in JobRecords : r = Idle
    BY IdleJob
  <2>2. job'[j] = [r EXCEPT !.kind = kind, !.clean = c, !.alike = a, !.matched = m]
    BY <1>4, <2>1
  <2>3. r.done = {}
    BY <2>1 DEF Idle
  <2>4. /\ job'[j].kind = kind /\ job'[j].done = r.done /\ job'[j].pending = r.pending
        /\ job'[j].clean = c /\ job'[j].alike = a /\ job'[j].matched = m
        /\ job'[j] \in JobRecords
    BY <2>2 DEF JobRecords
  <2>5. QED
    BY <2>1, <2>3, <2>4
<1>6. \A t \in Tables : job'[j].pending[t] = "unwritten"
  BY <1>5, IdleJob
<1>7. Standing(j)' /\ Past(j)' = {}
  BY <1>5 DEF Standing, Past
<1>8. Fresh(j)'
  BY <1>6, <1>7 DEF Fresh
<1>9. Accepted(j)'
  BY <1>1, <1>5 DEF Typed, Refused, Defects, Tools, Accepted
<1>10. FencedFirst(j)' /\ Knows(j)' /\ \A verb, t : t \in Tables => ~Did(j, verb, t)'
  <2>1. /\ \A verb, t : t \in Tables => ~Did(j, verb, t)'
        /\ FencedFirst(j)'
    BY <1>8 DEF Fresh, Did, FencedFirst
  <2>2. \A t \in Tables : job'[j].pending[t] = "unwritten"
    BY <1>6
  <2>3. Knows(j)'
    BY <1>1, <1>5, <2>1, <2>2
    DEF Knows, Importing, Verifying, Repairing, RollingBack, Serving
  <2>4. QED
    BY <2>1, <2>3
<1>11. Clean(j)'
  <2> SUFFICES ASSUME ~Empty
               PROVE  \E t \in Tables \cap Counted : db[t].imported # "absent" \/ db[t].newer
    BY <1>1, <1>3, <1>5, <1>10 DEF Clean
  <2>1. PICK t \in Tables : db[t].imported # "absent" \/ db[t].newer
    BY DEF Empty
  <2>2. CASE t \in Counted
    BY <2>1, <2>2
  <2>3. CASE t \notin Counted
    <3>1. t \in {"local_identities", "account_sessions"} /\ t \notin AllLegacy
      BY <2>3, FenceAssumption DEF Counted, AllNew
    <3>2. db[t].newer /\ t # "account_sessions"
      BY <1>1, <2>1, <3>1 DEF Tabled
    <3>3. "accounts" \in Tables /\ db["accounts"].newer
      BY <1>1, <3>1, <3>2, FenceAssumption DEF Tabled
    <3>4. QED
      BY <3>3 DEF Counted, AllLegacy
  <2>4. QED
    BY <2>2, <2>3
<1>12. Matched(j)'
  <2>1. ASSUME ~Alike PROVE \E t \in Tables : Lasting(j, t)'
    <3>1. PICK t \in Tables : (t \in Legacy /\ db[t].imported # "exact") \/ db[t].newer
      BY <2>1 DEF Alike, Legacy
    <3>2. QED
      BY <1>1, <1>10, <3>1 DEF Lasting
  <2>2. ASSUME ~Matches PROVE \E t \in Tables : Differs(j, t)'
    <3>1. CASE ~Alike
      BY <2>1, <3>1 DEF Differs
    <3>2. CASE Alike
      <4>1. PICK t \in Legacy : db[t].edited
        BY <2>2, <3>2 DEF Matches
      <4>2. t \in Tables
        BY DEF Legacy
      <4>3. QED
        BY <1>1, <1>10, <4>1, <4>2 DEF Differs
    <3>3. QED
      BY <3>1, <3>2
  <2>3. QED
    BY <1>3, <1>5, <2>1, <2>2 DEF Matched
<1>13. Typed'
  <2>1. job' \in [Jobs -> JobRecords]
    BY <1>1, <1>4, <1>5 DEF Typed
  <2>2. \A k \in Jobs : Standing(k)'
    BY <1>1, <1>4, <1>7, SameJob DEF Typed
  <2>3. QED
    BY <1>1, <2>1, <2>2 DEF Typed
<1>14. Tabled'
  BY <1>1 DEF Tabled
<1>15. Exclusive' /\ Owned' /\ OneInserts'
  BY <1>4, <1>8, SameJob, FreshLocks
<1>16. \A k \in Jobs : JobInv(k)'
  BY <1>1, <1>4, <1>9, <1>10, <1>11, <1>12, SameKnowledge DEF JobInv
<1>17. QED
  BY <1>13, <1>14, <1>15, <1>16 DEF FenceInv

(* At the end everything has been done.                                      *)
LEMMA EndsWhole ==
  ASSUME Typed, NEW k \in Jobs, AtEnd(k)
  PROVE  /\ Busy(k) /\ job[k].kind \in Kinds
         /\ \A x \in Elements(Program[job[k].kind]) : x.table \in Tables => x \in Past(k)
<1>1. Busy(k) /\ job[k].kind \in Kinds /\ job[k].done = Own[job[k].kind]
  BY DEF AtEnd, Busy, Typed, JobRecords
<1>2. ASSUME NEW x \in Elements(Program[job[k].kind]), x.table \in Tables PROVE x \in Past(k)
  BY <1>1, <1>2, OwnStatements DEF Past, Statement
<1>3. QED
  BY <1>1, <1>2

(* What stands in the past of a job is in its program.                       *)
LEMMA PastKinds ==
  ASSUME Typed, NEW j \in Jobs, NEW x \in Past(j)
  PROVE  job[j].kind \in Kinds /\ x \in Elements(Program[job[j].kind])
<1>1. Busy(j) /\ job[j].kind \in Kinds /\ job[j].done \subseteq Own[job[j].kind]
  BY DEF Past, Busy, Typed, Standing, JobRecords
<1>2. PICK i \in job[j].done : x = Program[job[j].kind][i]
  BY <1>1 DEF Past, Statement
<1>3. QED
  BY <1>1, <1>2, OwnStatements

(* The table after a commit.                                                 *)
LEMMA CommittedTable ==
  ASSUME Typed, NEW k \in Jobs, Finish(k), NEW t \in Tables
  PROVE  /\ job[k].pending[t] = "unwritten" => db'[t] = db[t]
         /\ job[k].pending[t] = "created" =>
              /\ db'[t].newer /\ db'[t].imported = db[t].imported
              /\ db'[t].edited = db[t].edited
         /\ job[k].pending[t] = "absent" =>
              db'[t].imported = "absent" /\ ~db'[t].edited /\ ~db'[t].newer
         /\ job[k].pending[t] = "edited" =>
              db'[t].imported = db[t].imported /\ db'[t].newer = db[t].newer
         /\ job[k].pending[t] \in {"rounded", "exact", "changed"} =>
              /\ db'[t].imported = job[k].pending[t] /\ db'[t].newer = db[t].newer
              /\ db'[t].edited = db[t].edited
         /\ db'[t] \in TableRecords
<1>1. PICK differs \in BOOLEAN :
        db' = [u \in Tables |-> After(u, job[k].pending[u], differs)]
  BY DEF Finish
<1>2. PICK r \in TableRecords : r = db[t]
  BY DEF Typed
<1>3. PICK p \in Values : p = job[k].pending[t]
  BY DEF Typed, JobRecords
<1>4. db'[t] = After(t, p, differs)
  BY <1>1, <1>3
<1>5. CASE p = "unwritten"
  BY <1>2, <1>3, <1>4, <1>5 DEF After
<1>6. CASE p = "absent"
  <2>1. db'[t] = [imported |-> "absent", edited |-> FALSE, newer |-> FALSE]
    BY <1>4, <1>6 DEF After
  <2>2. QED
    BY <1>3, <1>6, <2>1 DEF TableRecords
<1>7. CASE p = "created"
  <2>1. db'[t] = [r EXCEPT !.newer = TRUE]
    BY <1>2, <1>4, <1>7 DEF After
  <2>2. db'[t] \in TableRecords /\ db'[t].newer /\ db'[t].imported = r.imported
        /\ db'[t].edited = r.edited
    BY <2>1 DEF TableRecords
  <2>3. QED
    BY <1>2, <1>3, <1>7, <2>2
<1>8. CASE p = "edited"
  <2>1. db'[t] = [r EXCEPT !.edited = differs]
    BY <1>2, <1>4, <1>8 DEF After
  <2>2. db'[t] \in TableRecords /\ db'[t].imported = r.imported /\ db'[t].newer = r.newer
    BY <2>1 DEF TableRecords
  <2>3. QED
    BY <1>2, <1>3, <1>8, <2>2
<1>9. CASE p \in {"rounded", "exact", "changed"}
  <2>1. db'[t] = [r EXCEPT !.imported = p]
    BY <1>2, <1>4, <1>9 DEF After
  <2>2. db'[t] \in TableRecords /\ db'[t].imported = p /\ db'[t].newer = r.newer
        /\ db'[t].edited = r.edited
    BY <1>9, <2>1 DEF TableRecords
  <2>3. QED
    BY <1>2, <1>3, <1>9, <2>2
<1>10. QED
  BY <1>5, <1>6, <1>7, <1>8, <1>9 DEF Values

(* What a transaction of the service commits.                                *)
LEMMA ServiceCommits ==
  ASSUME FenceInv, NEW k \in Jobs, Finish(k), job[k].kind \notin Tools, NEW t \in Tables
  PROVE  /\ db[t].newer => db'[t].newer
         /\ db'[t].newer => db[t].newer \/ job[k].pending[t] = "created"
         /\ \/ db'[t].imported = db[t].imported
            \/ db'[t].imported = "changed" /\ db[t].imported # "absent" /\ t \in AllLegacy
         /\ db'[t].edited # db[t].edited =>
              job[k].kind = "updateToken" /\ db'[t].imported # "absent"
         /\ job[k].pending[t] = "created" =>
              /\ t # "account_sessions"
              /\ t = "local_identities" => job[k].kind = "register"
<1>1. Typed /\ Serving(k, t)
  BY DEF FenceInv, JobInv, Knows, Finish, AtEnd
<1>2. QED
  BY <1>1, CommittedTable DEF Serving

(* An import fills tables that have been empty, with exact timestamps.       *)
LEMMA ImportCommits ==
  ASSUME FenceInv, NEW k \in Jobs, AtEnd(k), job[k].kind = "import", NEW t \in Tables
  PROVE  /\ t \in AllLegacy => job[k].pending[t] = "exact"
         /\ job[k].pending[t] \in {"unwritten", "exact"}
         /\ job[k].pending[t] = "exact" => t \in AllLegacy /\ db[t].imported = "absent"
<1>1. Typed /\ Importing(k, t)
  BY DEF FenceInv, JobInv, Knows
<1>2. \A u \in AllLegacy \cap Tables : Did(k, "stamp", u)
  BY <1>1, EndsWhole, Required DEF Did
<1>3. t \in AllLegacy => job[k].pending[t] = "exact"
  BY <1>1, <1>2 DEF Importing
<1>4. job[k].pending[t] # "unwritten" => t \in AllLegacy /\ db[t].imported = "absent"
  BY <1>1 DEF Importing
<1>5. QED
  BY <1>1, <1>3, <1>4 DEF Importing, Commits

(* A job that has done more than lock has the fences of its kind.            *)
LEMMA FencesUp ==
  ASSUME FenceInv, NEW j \in Jobs, NEW verb, NEW t \in Tables, Did(j, verb, t), verb # "lock",
         job[j].kind \in {"repair", "rollback"}
  PROVE  t \in Fenced(j)
<1>1. Typed /\ FencedFirst(j)
  BY DEF FenceInv, JobInv
<1>2. DEFINE x == [verb |-> verb, table |-> t]
<1>3. x \in Past(j) /\ x.verb # "lock" /\ x.table = t
  BY DEF Did
<1>4. x \in Elements(Program[job[j].kind]) /\ job[j].kind \in Kinds
  BY <1>1, <1>3, PastKinds
<1>5. job[j].kind = "repair" => t \in Legacy
  BY <1>3, <1>4, StatementKinds DEF Legacy
<1>6. Did(j, "lock", t)
  BY <1>1, <1>3, <1>5 DEF FencedFirst
<1>7. QED
  BY <1>6, Locks DEF Did

(* A repair restores the timestamps of tables behind its fence.              *)
LEMMA RepairCommits ==
  ASSUME FenceInv, NEW k \in Jobs, AtEnd(k), job[k].kind = "repair", NEW t \in Tables
  PROVE  /\ job[k].pending[t] \in {"unwritten", "exact"}
         /\ job[k].pending[t] = "exact" =>
              t \in AllLegacy /\ t \in Fenced(k) /\ db[t].imported \in Commits
<1>1. Typed /\ Repairing(k, t)
  BY DEF FenceInv, JobInv, Knows
<1>2. Did(k, "baseline", t) => t \in Fenced(k)
  BY FencesUp
<1>3. QED
  BY <1>1, <1>2 DEF Repairing

(* A rollback empties the imported tables, behind its fence, and finds       *)
(* nothing in the others.                                                    *)
LEMMA RollbackCommits ==
  ASSUME FenceInv, NEW k \in Jobs, AtEnd(k), job[k].kind = "rollback", NEW t \in Tables
  PROVE  /\ job[k].pending[t] = IF t \in AllLegacy THEN "absent" ELSE "unwritten"
         /\ ~db[t].newer
         /\ t \in AllLegacy => t \in Fenced(k) /\ db[t].imported = "exact" /\ ~db[t].edited
<1>1. Typed /\ RollingBack(k, t)
  BY DEF FenceInv, JobInv, Knows
<1>2. /\ t \in AllLegacy =>
           Did(k, "compare", t) /\ Did(k, "exact", t) /\ Did(k, "delete", t)
      /\ t \in AllNew => Did(k, "none", t)
  BY <1>1, EndsWhole, Required DEF Did
<1>3. CASE t \in AllLegacy
  <2>1. t \in Fenced(k)
    BY <1>2, <1>3, FencesUp
  <2>2. QED
    BY <1>1, <1>2, <1>3, <2>1 DEF RollingBack
<1>4. CASE t \notin AllLegacy
  <2>1. t \in AllNew
    BY <1>4, FenceAssumption
  <2>2. QED
    BY <1>1, <1>2, <1>4, <2>1 DEF RollingBack
<1>5. QED
  BY <1>3, <1>4

(* After a rollback the database is empty.                                   *)
LEMMA RollbackEmpties ==
  ASSUME FenceInv, NEW k \in Jobs, Finish(k), job[k].kind = "rollback"
  PROVE  Empty'
<1>1. Typed /\ Tabled /\ AtEnd(k)
  BY DEF FenceInv, Finish
<1>2. ASSUME NEW t \in Tables PROVE db'[t].imported = "absent" /\ ~db'[t].newer
  <2>1. CASE t \in AllLegacy
    <3>1. job[k].pending[t] = "absent"
      BY <1>1, <2>1, RollbackCommits
    <3>2. QED
      BY <1>1, <3>1, CommittedTable
  <2>2. CASE t \notin AllLegacy
    <3>1. job[k].pending[t] = "unwritten" /\ ~db[t].newer
      BY <1>1, <2>2, RollbackCommits
    <3>2. db'[t] = db[t] /\ db[t].imported = "absent"
      BY <1>1, <2>2, <3>1, CommittedTable DEF Tabled
    <3>3. QED
      BY <3>1, <3>2
  <2>3. QED
    BY <2>1, <2>2
<1>3. QED
  BY <1>2 DEF Empty

(* What any commit does to a table: rows that the service added go only with *)
(* a rollback, which has found none.                                         *)
LEMMA Committed ==
  ASSUME FenceInv, NEW k \in Jobs, Finish(k), NEW t \in Tables
  PROVE  /\ job[k].pending[t] = "unwritten" => db'[t] = db[t]
         /\ db[t].newer => db'[t].newer
         /\ db[t].imported = "changed" => db'[t].imported = "changed"
         /\ db[t].imported # "absent" /\ db'[t].imported = "absent" => job[k].kind = "rollback"
         /\ job[k].kind = "rollback" /\ db'[t] # db[t] => t \in Fenced(k)
         /\ t \notin AllLegacy => db'[t].imported = db[t].imported
         /\ db'[t].newer /\ ~db[t].newer =>
              /\ t # "account_sessions"
              /\ t = "local_identities" => job[k].kind = "register"
         /\ db[t].imported = "absent" /\ db'[t].imported # "absent" =>
              job[k].kind = "import" /\ job[k].pending[t] # "unwritten"
         /\ job[k].kind \notin Tools /\ db'[t].imported # db[t].imported =>
              db'[t].imported = "changed"
         /\ db[t].edited /\ ~db'[t].edited => job[k].kind = "updateToken"
         /\ job[k].kind \notin Tools /\ db'[t].edited # db[t].edited =>
              job[k].kind = "updateToken"
         /\ db'[t].imported = "absent" => ~db'[t].edited
<1>1. /\ Typed /\ AtEnd(k) /\ Knows(k)
      /\ db[t].imported = "absent" => ~db[t].edited
      /\ db[t].edited \in BOOLEAN
  BY DEF FenceInv, JobInv, Finish, Tabled, Typed, TableRecords
<1>2. job[k].kind \in Kinds
  BY <1>1, EndsWhole
<1>3. CASE job[k].kind \notin Tools
  <2>1. job[k].kind # "rollback" /\ job[k].kind # "import"
    BY <1>3 DEF Tools
  <2>2. job[k].pending[t] = "unwritten" => db'[t] = db[t]
    BY <1>1, CommittedTable
  <2>3. db'[t] \in TableRecords
    BY <1>1, CommittedTable
  <2>4. QED
    BY <1>1, <1>3, <2>1, <2>2, <2>3, ServiceCommits DEF TableRecords
<1>4. CASE job[k].kind = "import"
  <2>1. /\ job[k].pending[t] \in {"unwritten", "exact"}
        /\ job[k].pending[t] = "exact" => t \in AllLegacy /\ db[t].imported = "absent"
    BY <1>1, <1>4, ImportCommits
  <2>2. QED
    BY <1>1, <1>4, <2>1, CommittedTable DEF Tools
<1>5. CASE job[k].kind = "verify"
  <2>1. job[k].pending[t] = "unwritten"
    BY <1>1, <1>5 DEF Knows, Verifying
  <2>2. QED
    BY <1>1, <1>5, <2>1, CommittedTable
<1>6. CASE job[k].kind = "repair"
  <2>1. /\ job[k].pending[t] \in {"unwritten", "exact"}
        /\ job[k].pending[t] = "exact" => t \in AllLegacy /\ db[t].imported \in Commits
    BY <1>1, <1>6, RepairCommits
  <2>2. QED
    BY <1>1, <1>6, <2>1, CommittedTable DEF Tools, Commits
<1>7. CASE job[k].kind = "rollback"
  <2>1. /\ job[k].pending[t] = IF t \in AllLegacy THEN "absent" ELSE "unwritten"
        /\ ~db[t].newer
        /\ t \in AllLegacy => t \in Fenced(k) /\ db[t].imported = "exact" /\ ~db[t].edited
    BY <1>1, <1>7, RollbackCommits
  <2>2. QED
    BY <1>1, <1>7, <2>1, CommittedTable DEF Tools
<1>8. QED
  BY <1>2, <1>3, <1>4, <1>5, <1>6, <1>7 DEF Tools

(* A fence keeps the commits of others out.                                  *)
LEMMA FenceHolds ==
  ASSUME FenceInv, NEW k \in Jobs, Finish(k), NEW j \in Jobs \ {k}, NEW t \in Tables,
         t \in Fenced(j)
  PROVE  db'[t] = db[t]
<1>1. t \notin Locked(k)
  BY DEF FenceInv, Exclusive
<1>2. job[k].pending[t] = "unwritten"
  BY <1>1 DEF FenceInv, Owned
<1>3. QED
  BY <1>2, Committed

(* The other jobs, after a commit: where they were, but told of it.          *)
LEMMA Others ==
  ASSUME Typed, NEW k \in Jobs, Finish(k), NEW j \in Jobs \ {k}
  PROVE  /\ job'[j] \in JobRecords
         /\ job'[j].kind = job[j].kind /\ job'[j].done = job[j].done
         /\ job'[j].pending = job[j].pending
         /\ job[j].kind = "import" => job'[j].clean = (job[j].clean \/ Empty')
         /\ job[j].kind = "verify" =>
              /\ job'[j].alike = (job[j].alike \/ Alike')
              /\ job'[j].matched = (job[j].matched \/ Matches')
              /\ job'[j].disturbed = (job[j].disturbed \/ job[k].kind \in Tools)
              /\ job'[j].retouched = (job[j].retouched \/ job[k].kind = "updateToken")
         /\ Past(j)' = Past(j) /\ Busy(j)' = Busy(j)
         /\ Locked(j)' = Locked(j) /\ Fenced(j)' = Fenced(j) /\ Standing(j)'
<1>1. PICK r \in JobRecords : r = job[j]
  BY DEF Typed
<1>2. PICK c \in BOOLEAN, a \in BOOLEAN, m \in BOOLEAN, d \in BOOLEAN, e \in BOOLEAN :
        /\ c = (r.kind = "import" /\ (r.clean \/ Empty'))
        /\ a = (r.kind = "verify" /\ (r.alike \/ Alike'))
        /\ m = (r.kind = "verify" /\ (r.matched \/ Matches'))
        /\ d = (r.kind = "verify" /\ (r.disturbed \/ job[k].kind \in Tools))
        /\ e = (r.kind = "verify" /\ (r.retouched \/ job[k].kind = "updateToken"))
  OBVIOUS
<1>3. job'[j] = [r EXCEPT !.clean = c, !.alike = a, !.matched = m, !.disturbed = d,
                          !.retouched = e]
  BY <1>1, <1>2 DEF Finish
<1>4. /\ job'[j] \in JobRecords /\ job'[j].kind = r.kind /\ job'[j].done = r.done
      /\ job'[j].pending = r.pending
      /\ job'[j].clean = c /\ job'[j].alike = a /\ job'[j].matched = m
      /\ job'[j].disturbed = d /\ job'[j].retouched = e
  BY <1>3 DEF JobRecords
<1>5. job'[j].kind = job[j].kind /\ job'[j].done = job[j].done
  BY <1>1, <1>4
<1>6. Past(j)' = Past(j) /\ Busy(j)' = Busy(j)
  BY <1>5 DEF Past, Busy, Statement
<1>7. Locked(j)' = Locked(j) /\ Fenced(j)' = Fenced(j)
  BY <1>5 DEF Locked, Fenced, Done, Busy, Statement
<1>8. Standing(j)'
  BY <1>5 DEF Typed, Standing, Busy
<1>9. job[j].kind = "import" => job'[j].clean = (job[j].clean \/ Empty')
  BY <1>1, <1>2, <1>4
<1>10. job[j].kind = "verify" =>
         /\ job'[j].alike = (job[j].alike \/ Alike')
         /\ job'[j].matched = (job[j].matched \/ Matches')
         /\ job'[j].disturbed = (job[j].disturbed \/ job[k].kind \in Tools)
         /\ job'[j].retouched = (job[j].retouched \/ job[k].kind = "updateToken")
  BY <1>1, <1>2, <1>4
<1>11. QED
  BY <1>1, <1>4, <1>5, <1>6, <1>7, <1>8, <1>9, <1>10

(* What the others know stays true: a repair and a rollback behind their     *)
(* fences, an import by the keys it holds, a transaction of the service by   *)
(* the locks that keep a rollback waiting.                                   *)
LEMMA CommitKnowledge ==
  ASSUME FenceInv, NEW k \in Jobs, Finish(k), NEW j \in Jobs \ {k}
  PROVE  Knows(j)'
<1>1. /\ Typed /\ Exclusive /\ Owned /\ OneInserts /\ Knows(j) /\ AtEnd(k)
  BY DEF FenceInv, JobInv, Finish
<1>2. /\ job'[j].kind = job[j].kind /\ job'[j].pending = job[j].pending
      /\ Busy(j)' = Busy(j) /\ Past(j)' = Past(j)
  BY <1>1, Others
<1>3. \A verb, t : Did(j, verb, t)' <=> Did(j, verb, t)
  BY <1>2 DEF Did
<1> SUFFICES ASSUME NEW t \in Tables
             PROVE  /\ job'[j].kind = "import" => Importing(j, t)'
                    /\ job'[j].kind = "verify" => Verifying(j, t)'
                    /\ job'[j].kind = "repair" => Repairing(j, t)'
                    /\ job'[j].kind = "rollback" => RollingBack(j, t)'
                    /\ Busy(j)' /\ job'[j].kind \notin Tools => Serving(j, t)'
  BY DEF Knows
<1>4. ASSUME job[j].kind = "import" PROVE Importing(j, t)'
  <2>1. Importing(j, t)
    BY <1>1, <1>4 DEF Knows
  <2>2. job[j].pending[t] # "unwritten" => db'[t].imported = "absent"
    <3>1. SUFFICES ASSUME job[j].pending[t] # "unwritten", db'[t].imported # "absent" PROVE FALSE
      OBVIOUS
    <3>2. job[k].kind = "import" /\ job[k].pending[t] # "unwritten"
      BY <2>1, <3>1, Committed DEF Importing
    <3>3. QED
      BY <1>1, <1>4, <3>1, <3>2 DEF OneInserts
  <2>3. QED
    BY <1>1, <1>2, <1>3, <2>1, <2>2 DEF Importing
<1>5. ASSUME job[j].kind = "verify" PROVE Verifying(j, t)'
  BY <1>1, <1>2, <1>5 DEF Knows, Verifying
<1>6. ASSUME job[j].kind = "repair" PROVE Repairing(j, t)'
  <2>1. Repairing(j, t)
    BY <1>1, <1>6 DEF Knows
  <2>2. Did(j, "baseline", t) => db'[t] = db[t]
    BY <1>6, FencesUp, FenceHolds
  <2>3. QED
    BY <1>2, <1>3, <2>1, <2>2 DEF Repairing
<1>7. ASSUME job[j].kind = "rollback" PROVE RollingBack(j, t)'
  <2>1. RollingBack(j, t)
    BY <1>1, <1>7 DEF Knows
  <2>2. Did(j, "compare", t) \/ Did(j, "exact", t) \/ Did(j, "none", t) => db'[t] = db[t]
    BY <1>7, FencesUp, FenceHolds
  <2>3. QED
    BY <1>2, <1>3, <2>1, <2>2 DEF RollingBack
<1>8. ASSUME Busy(j), job[j].kind \notin Tools PROVE Serving(j, t)'
  <2>1. Serving(j, t)
    BY <1>1, <1>8 DEF Knows
  <2>2. job[j].pending[t] \in {"changed", "edited"} => db'[t].imported # "absent"
    <3>1. SUFFICES ASSUME job[j].pending[t] \in {"changed", "edited"}, db'[t].imported = "absent"
                   PROVE  FALSE
      OBVIOUS
    <3>2. db[t].imported # "absent" /\ t \in Locked(j)
      BY <1>1, <2>1, <3>1 DEF Serving, Owned
    <3>3. t \in Fenced(k)
      BY <3>1, <3>2, Committed
    <3>4. QED
      BY <1>1, <3>2, <3>3 DEF Exclusive
  <2>3. QED
    BY <1>2, <1>3, <2>1, <2>2 DEF Serving
<1>9. QED
  BY <1>2, <1>4, <1>5, <1>6, <1>7, <1>8

(* Rows that an import is still to find disappear only with a rollback, and  *)
(* then it has seen the database empty.                                      *)
LEMMA CommitClean ==
  ASSUME FenceInv, NEW k \in Jobs, Finish(k), NEW j \in Jobs \ {k}
  PROVE  Clean(j)'
<1>1. Typed /\ Clean(j)
  BY DEF FenceInv, JobInv
<1>2. /\ job'[j].kind = job[j].kind /\ Past(j)' = Past(j)
      /\ job[j].kind = "import" => job'[j].clean = (job[j].clean \/ Empty')
  BY <1>1, Others
<1> SUFFICES ASSUME job[j].kind = "import", ~job'[j].clean
             PROVE  \E t \in Tables \cap Counted :
                      /\ db'[t].imported # "absent" \/ db'[t].newer
                      /\ ~Did(j, "empty", t)
  BY <1>2 DEF Clean, Did
<1>3. ~job[j].clean /\ ~Empty'
  BY <1>2
<1>4. PICK t \in Tables \cap Counted :
        (db[t].imported # "absent" \/ db[t].newer) /\ ~Did(j, "empty", t)
  BY <1>1, <1>3 DEF Clean
<1>5. job[k].kind # "rollback"
  BY <1>3, RollbackEmpties
<1>6. db'[t].imported # "absent" \/ db'[t].newer
  BY <1>4, <1>5, Committed
<1>7. QED
  BY <1>4, <1>6

(* A difference that a verification is still to find stays, whatever the     *)
(* service commits; unless it is an edit, which PUT of a token may take back. *)
LEMMA CommitMatched ==
  ASSUME FenceInv, NEW k \in Jobs, Finish(k), NEW j \in Jobs \ {k}
  PROVE  Matched(j)'
<1>1. Typed /\ Matched(j)
  BY DEF FenceInv, JobInv
<1>2. job'[j].kind = job[j].kind /\ Past(j)' = Past(j)
  BY <1>1, Others
<1> SUFFICES ASSUME job[j].kind = "verify", ~job'[j].disturbed
             PROVE  /\ ~job'[j].alike => \E t \in Tables : Lasting(j, t)'
                    /\ ~job'[j].matched /\ ~job'[j].retouched =>
                         \E t \in Tables : Differs(j, t)'
  BY <1>2 DEF Matched
<1>3. /\ ~job[j].disturbed /\ job[k].kind \notin Tools
      /\ ~job'[j].alike => ~job[j].alike
      /\ ~job'[j].matched => ~job[j].matched
      /\ ~job'[j].retouched => ~job[j].retouched /\ job[k].kind # "updateToken"
  BY <1>1, Others
<1>4. \A verb, t : Did(j, verb, t)' <=> Did(j, verb, t)
  BY <1>2 DEF Did
<1>5. \A t \in Tables : /\ db[t].imported # "exact" => db'[t].imported # "exact"
                        /\ db[t].newer => db'[t].newer
                        /\ job[k].kind # "updateToken" /\ db[t].edited => db'[t].edited
  BY <1>3, Committed
<1>6. \A t \in Tables : Lasting(j, t) => Lasting(j, t)'
  BY <1>4, <1>5 DEF Lasting
<1>7. job[k].kind # "updateToken" => \A t \in Tables : Differs(j, t) => Differs(j, t)'
  BY <1>4, <1>5, <1>6 DEF Differs
<1>8. QED
  BY <1>1, <1>3, <1>6, <1>7 DEF Matched

(* No sessions; a local identity is committed together with its account.     *)
LEMMA CommitTabled ==
  ASSUME FenceInv, NEW k \in Jobs, Finish(k)
  PROVE  Tabled'
<1>1. Typed /\ Tabled /\ AtEnd(k)
  BY DEF FenceInv, Finish
<1>2. /\ \A t \in Tables \ AllLegacy : db'[t].imported = "absent"
      /\ \A t \in Tables : db'[t].imported = "absent" => ~db'[t].edited
  BY <1>1, Committed DEF Tabled
<1>3. "account_sessions" \in Tables => ~db'["account_sessions"].newer
  BY <1>1, Committed DEF Tabled
<1>4. ASSUME "local_identities" \in Tables, db'["local_identities"].newer
      PROVE  db'["accounts"].newer
  <2>1. "accounts" \in Tables
    BY <1>4, FenceAssumption
  <2>2. CASE db["local_identities"].newer
    BY <1>1, <1>4, <2>1, <2>2, Committed DEF Tabled
  <2>3. CASE ~db["local_identities"].newer
    <3>1. job[k].kind = "register"
      BY <1>4, <2>3, Committed
    <3>2. Did(k, "create", "accounts")
      BY <1>1, <2>1, <3>1, EndsWhole, Required DEF Did
    <3>3. Serving(k, "accounts")
      BY <1>1, <2>1, <3>1 DEF FenceInv, JobInv, Knows, AtEnd, Tools
    <3>4. job[k].pending["accounts"] = "created"
      BY <3>1, <3>2, <3>3 DEF Serving
    <3>5. QED
      BY <1>1, <2>1, <3>4, CommittedTable
  <2>4. QED
    BY <2>2, <2>3
<1>5. QED
  BY <1>2, <1>3, <1>4 DEF Tabled

(* A commit keeps the invariant.                                             *)
LEMMA FinishKeepsInv ==
  ASSUME FenceInv, NEW k \in Jobs, Finish(k)
  PROVE  FenceInv'
<1>1. Typed /\ defect' = defect /\ job'[k] = Idle
  BY DEF FenceInv, Finish
<1>2. Fresh(k)' /\ Standing(k)' /\ JobInv(k)'
  BY <1>1, BackToIdle
<1>3. Typed'
  <2>1. db' \in [Tables -> TableRecords]
    <3>1. \A t \in Tables : db'[t] \in TableRecords
      BY <1>1, CommittedTable
    <3>2. db' = [t \in Tables |-> db'[t]]
      BY DEF Finish
    <3>3. QED
      BY <3>1, <3>2
  <2>2. job' \in [Jobs -> JobRecords]
    <3>1. \A j \in Jobs : job'[j] \in JobRecords
      BY <1>1, Others, IdleJob
    <3>2. job' = [j \in Jobs |-> job'[j]]
      BY DEF Finish
    <3>3. QED
      BY <3>1, <3>2
  <2>3. \A j \in Jobs : Standing(j)'
    BY <1>1, <1>2, Others
  <2>4. QED
    BY <1>1, <2>1, <2>2, <2>3 DEF Typed
<1>4. Exclusive' /\ Owned' /\ OneInserts'
  BY <1>1, <1>2, Others, FreshLocks
<1>5. ASSUME NEW j \in Jobs \ {k} PROVE JobInv(j)'
  <2>1. FencedFirst(j)'
    <3>1. FencedFirst(j) /\ job'[j].kind = job[j].kind /\ Past(j)' = Past(j)
      BY <1>1, Others DEF FenceInv, JobInv
    <3>2. QED
      BY <3>1 DEF FencedFirst, Did
  <2>2. Accepted(j)'
    BY <1>1, Others DEF FenceInv, JobInv, Accepted
  <2>3. QED
    BY <2>1, <2>2, CommitKnowledge, CommitClean, CommitMatched DEF JobInv
<1>6. \A j \in Jobs : JobInv(j)'
  BY <1>2, <1>5
<1>7. QED
  BY <1>3, <1>4, <1>6, CommitTabled DEF FenceInv

-----------------------------------------------------------------------------
(* The theorems.                                                             *)

(* Every step keeps the invariant.                                           *)
LEMMA FenceStep == FenceInv /\ [Next]_vars => FenceInv'
<1> SUFFICES ASSUME FenceInv, [Next]_vars PROVE FenceInv'
  OBVIOUS
<1>1. ASSUME NEW j \in Jobs, NEW kind \in Kinds, Begin(j, kind) PROVE FenceInv'
  BY <1>1, BeginKeepsInv
<1>2. ASSUME NEW j \in Jobs, Execute(j) PROVE FenceInv'
  <2>1. Typed
    BY DEF FenceInv
  <2>2. CASE Abort(j) /\ UNCHANGED <<defect, db>>
    BY <2>2, AbortKeepsInv
  <2>3. CASE \E s : Moves(j, s)
    BY <2>3, MoveKeepsInv
  <2>4. QED
    BY <1>2, <2>1, <2>2, <2>3, ExecuteEffect
<1>3. ASSUME NEW j \in Jobs, Finish(j) PROVE FenceInv'
  BY <1>3, FinishKeepsInv
<1>4. ASSUME NEW j \in Jobs, Fail(j) \/ BreakDeadlock(j) PROVE FenceInv'
  BY <1>4, AbortKeepsInv DEF Fail, BreakDeadlock
<1>5. CASE UNCHANGED vars
  <2>1. UNCHANGED <<defect, db>> /\ job' = job
    BY <1>5 DEF vars
  <2>2. /\ Typed /\ Tabled /\ Exclusive /\ Owned /\ OneInserts /\ \A j \in Jobs : JobInv(j)
    BY DEF FenceInv
  <2>3. /\ \A j \in Jobs : JobInv(j)'
        /\ \A j \in Jobs : /\ Standing(j)' = Standing(j) /\ Locked(j)' = Locked(j)
                           /\ Fenced(j)' = Fenced(j)
    BY <2>1, <2>2, SameJob, SameKnowledge
  <2>4. Typed' /\ Tabled'
    BY <2>1, <2>2, <2>3 DEF Typed, Tabled
  <2>5. Exclusive' /\ Owned' /\ OneInserts'
    BY <2>1, <2>2, <2>3 DEF Exclusive, Owned, OneInserts
  <2>6. QED
    BY <2>3, <2>4, <2>5 DEF FenceInv
<1>6. QED
  BY <1>1, <1>2, <1>3, <1>4, <1>5 DEF Next

(* The fences, and what every job knows behind them, hold in every state of  *)
(* every behaviour: for all sets of tables, and any number of imports,       *)
(* verifications, repairs, rollbacks and transactions of API and worker.     *)
THEOREM FenceInvAlways == Spec => []FenceInv
BY InitFence, FenceStep, PTL DEF Spec

(* Type correctness of the importer and of the database it shares with the   *)
(* service.                                                                  *)
THEOREM FenceTypes == Spec => []TypeOK
<1>1. FenceInv => TypeOK
  BY DEF FenceInv, Typed, Standing, TypeOK, JobRecords, TableRecords, Values
<1>2. QED
  BY <1>1, FenceInvAlways, PTL

(* import-sqlite.ts, importSqlite: what an import is about to commit is      *)
(* every table with its exact timestamps, from a file that all readers       *)
(* accept, over tables without imported rows, in a database that was empty   *)
(* at some moment of the run.  The tables are counted one after the other,   *)
(* without a lock: that the moment exists is Clean.                          *)
THEOREM ImportIsWholeAlways == Spec => []ImportIsWhole
<1>1. FenceInv => ImportIsWhole
  <2> SUFFICES ASSUME FenceInv, NEW j \in Jobs, AtEnd(j), job[j].kind = "import"
               PROVE  /\ defect = "none" /\ job[j].clean
                      /\ \A t \in Legacy : job[j].pending[t] = "exact" /\ db[t].imported = "absent"
    BY DEF ImportIsWhole
  <2>1. Typed /\ Clean(j) /\ defect = "none"
    BY DEF FenceInv, JobInv, Accepted
  <2>2. \A t \in Tables \cap Counted : Did(j, "empty", t)
    BY <2>1, EndsWhole, Required DEF Did
  <2>3. job[j].clean
    BY <2>1, <2>2 DEF Clean
  <2>4. QED
    BY <2>1, <2>3, ImportCommits DEF Legacy
<1>2. QED
  BY <1>1, FenceInvAlways, PTL

(* import-sqlite.ts, verifyImport: when a rollback has verified, the database *)
(* holds exactly the file's rows.  When a verification by itself has made    *)
(* every comparison, the database held exactly the file's rows at some       *)
(* moment of its run, unless another tool committed in between; and held     *)
(* them but for edits of tokens, if a token was edited in between.  What the *)
(* service does otherwise stays different from the file: that the difference *)
(* is found, in whatever order the tables are read, is Matched.              *)
THEOREM VerifyIsTrueAlways == Spec => []VerifyIsTrue
<1>1. FenceInv => VerifyIsTrue
  <2> SUFFICES ASSUME FenceInv, NEW j \in Jobs, AtEnd(j)
               PROVE  /\ job[j].kind = "rollback" => Matches
                      /\ job[j].kind = "verify" =>
                           \/ job[j].matched \/ job[j].disturbed
                           \/ job[j].retouched /\ job[j].alike
    BY DEF VerifyIsTrue
  <2>1. Typed /\ Matched(j)
    BY DEF FenceInv, JobInv
  <2>2. Tables \subseteq AllLegacy \cup AllNew /\ Legacy = Tables \cap AllLegacy
    BY FenceAssumption DEF Legacy
  <2>3. ASSUME job[j].kind = "rollback" PROVE Matches
    BY <2>2, <2>3, RollbackCommits DEF Matches, Alike
  <2>4. ASSUME job[j].kind = "verify"
        PROVE  \/ job[j].matched \/ job[j].disturbed
               \/ job[j].retouched /\ job[j].alike
    <3>1. /\ \A t \in Tables \cap AllLegacy : Did(j, "compare", t) /\ Did(j, "exact", t)
          /\ \A t \in Tables \cap AllNew : Did(j, "none", t)
      BY <2>1, <2>4, EndsWhole, Required DEF Did
    <3>2. \A t \in Tables : ~Lasting(j, t) /\ ~Differs(j, t)
      BY <2>2, <3>1 DEF Lasting, Differs
    <3>3. QED
      BY <2>1, <2>4, <3>2 DEF Matched
  <2>5. QED
    BY <2>3, <2>4
<1>2. QED
  BY <1>1, FenceInvAlways, PTL

(* import-sqlite.ts:864, "no Bun write can appear in the gap": in any        *)
(* interleaving and wherever the tools stop, rows that the service added are *)
(* never deleted, timestamps that it changed are never set back, and an edit *)
(* goes only with another PUT of a token.  Locks are not enough for it: a    *)
(* repair and a rollback must also have found the table, behind their fence, *)
(* without such a change.                                                    *)
THEOREM NewerSurvivesAlways == Spec => NewerSurvives
<1> DEFINE Kept == \A t \in Tables :
                     /\ db[t].newer => db'[t].newer
                     /\ db[t].imported = "changed" => db'[t].imported = "changed"
                     /\ db[t].edited /\ ~db'[t].edited =>
                          \E j \in Jobs : job[j].kind = "updateToken" /\ AtEnd(j)
<1>1. FenceInv /\ [Next]_vars => [Kept]_vars
  <2> SUFFICES ASSUME FenceInv, Next PROVE Kept
    OBVIOUS
  <2>1. ASSUME NEW k \in Jobs, Finish(k) PROVE Kept
    <3>1. AtEnd(k)
      BY <2>1 DEF Finish
    <3>2. QED
      BY <2>1, <3>1, Committed
  <2>2. CASE db' = db
    BY <2>2
  <2>3. QED
    BY <2>1, <2>2 DEF Next, Begin, Execute, Fail, BreakDeadlock
<1>2. QED
  BY <1>1, FenceInvAlways, PTL DEF Spec, NewerSurvives
=============================================================================
