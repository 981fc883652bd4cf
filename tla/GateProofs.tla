------------------------------ MODULE GateProofs ------------------------------
(***************************************************************************)
(* The account API and the send gate are safe for any number of accounts,  *)
(* senders, tokens, requests and calls: caps, owners, answers and limits.  *)
(***************************************************************************)
EXTENDS SendGate, FiniteSetTheorems, TLAPS

SenderRecords == [account : Accounts \cup {None}, active : BOOLEAN]
TokenRecords == [sender : Senders \cup {None}, scopes : SUBSET Scopes, revoked : BOOLEAN]
RequestRecords ==
  [op : Operations \cup {"none"}, step : 0..5, account : Accounts \cup {None},
   sender : Senders \cup {None}, token : Tokens \cup {None}]
WindowRecords == [count : Nat, expires : BOOLEAN, passed : Nat]

(* The account of token k, by given tables of senders and tokens.            *)
Owner(k, sd, tk) == IF tk[k].sender = None THEN None ELSE sd[tk[k].sender].account

(* What a handler of the account API knows at its step.                      *)
Informed(q, sd, tk) ==
  q # NoRequest =>
    /\ q.op \in Operations /\ q.step \in DOMAIN Program[q.op] /\ q.account \in Accounts
    /\ q.op \notin {"createSender", "revokeToken"} =>
         q.sender \in Senders /\ sd[q.sender].account # None
    /\ q.op \in {"updateToken", "revokeToken"} => q.token \in Tokens /\ tk[q.token].sender # None
    /\ q.op = "createToken" /\ q.step >= 2 => sd[q.sender].account = q.account
    /\ q.op = "updateToken" /\ q.step >= 2 => Owner(q.token, sd, tk) = q.account
    /\ q.op = "updateToken" /\ q.step >= 3 => sd[q.sender].account = q.account

(* What a bearer call knows at its statement.                                *)
Trusted(q, sd, dl) ==
  /\ q.pc # "idle" => q.token \in Tokens /\ (q.scope = "status" => q.msg \in Messages)
  /\ q.pc \notin {"idle", "verify"} =>
       q.sender \in Senders /\ q.account # None /\ sd[q.sender].account = q.account
  /\ q.pc \notin {"idle", "verify", "scope"} => q.granted
  /\ q.pc \in {"limit", "findSender", "insert"} => q.scope = "send"
  /\ q.pc = "find" => q.scope = "status"
  /\ q.pc = "answered" => q.msg \in Messages /\ dl[q.msg] = q.sender

BoundInv == \A k \in Tokens : token[k].sender # None => sender[token[k].sender].account # None
RequestsInv == \A r \in Requests : Informed(request[r], sender, token)
WindowInv(w, limit) == w.passed <= w.count /\ w.count <= limit /\ (w.count > 0 => w.expires)
WindowsInv == \A k \in Accounts \cup Senders : WindowInv(window[k], LimitOf(k))
AccountInv == AccountTypeOK /\ BoundInv /\ RequestsInv /\ WindowsInv /\ CapsHold

CallRecords ==
  [pc : Steps, scope : Scopes, token : Tokens \cup {None}, msg : Messages \cup {None},
   sender : Senders \cup {None}, account : Accounts \cup {None}, granted : BOOLEAN]

(* What the history says of a call: entitled senders, and an active one.     *)
Witnessed(q, senders, active) ==
  /\ q.pc \notin {"idle", "verify"} /\ q.granted => q.sender \in senders
  /\ q.scope = "send" /\ q.pc \in {"insert", "answered"} => active

CallsInv ==
  /\ GateTypeOK
  /\ \A c \in Calls : /\ Trusted(call[c], sender, delivery)
                      /\ Witnessed(call[c], entitled[c], open[c])

GateInv == AccountInv /\ CallsInv

(* What no step undoes: a sender keeps its account, a token is one's own.    *)
Grows ==
  /\ \A s \in Senders : sender[s].account # None => sender'[s].account = sender[s].account
  /\ \A k \in Tokens : /\ token[k].sender # None => token'[k].sender # None
                       /\ Owner(k, sender, token) # None =>
                            Owner(k, sender', token') = Owner(k, sender, token)

-----------------------------------------------------------------------------
(* Which handler is at a statement, and at which of its steps.               *)
LEMMA ProgramSays ==
  ASSUME NEW op \in Operations, NEW n \in DOMAIN Program[op]
  PROVE  /\ n \in 1..5
         /\ Program[op][n] = "countSenders" => op = "createSender" /\ n = 1
         /\ Program[op][n] = "insertSender" => op = "createSender" /\ n = 2
         /\ Program[op][n] = "ownSender" =>
              /\ op \in {"updateSender", "deleteSender", "createToken", "updateToken"}
              /\ n + 1 \in DOMAIN Program[op]
              /\ op = "createToken" => n \in {1, 3}
              /\ op = "updateToken" => n \in {2, 4}
         /\ Program[op][n] = "ownToken" =>
              /\ op \in {"updateToken", "revokeToken"}
              /\ n + 1 \in DOMAIN Program[op]
              /\ op = "updateToken" => n \in {1, 3}
         /\ Program[op][n] \in {"updateSender", "archiveSender"} =>
              op \in {"updateSender", "deleteSender"}
         /\ Program[op][n] \in {"readCredentials", "countTest"} => op = "testSender"
         /\ Program[op][n] = "readCredentials" => n + 1 \in DOMAIN Program[op]
         /\ Program[op][n] = "countTokens" => op = "createToken" /\ n = 2
         /\ Program[op][n] = "insertToken" => op = "createToken" /\ n = 4
         /\ Program[op][n] = "updateToken" => op = "updateToken" /\ n = 5
         /\ Program[op][n] = "revokeToken" => op = "revokeToken"
<1>1. CASE op = "createSender"
  BY <1>1 DEF Program
<1>2. CASE op = "updateSender"
  BY <1>2 DEF Program
<1>3. CASE op = "testSender"
  BY <1>3 DEF Program
<1>4. CASE op = "deleteSender"
  BY <1>4 DEF Program
<1>5. CASE op = "createToken"
  BY <1>5 DEF Program
<1>6. CASE op = "updateToken"
  BY <1>6 DEF Program, UpdateTokenStatements
<1>7. CASE op = "revokeToken"
  BY <1>7 DEF Program
<1>8. QED
  BY <1>1, <1>2, <1>3, <1>4, <1>5, <1>6, <1>7 DEF Operations

(* The count of createSender and createToken is at these steps.              *)
LEMMA CountSteps ==
  /\ Program["createSender"][1] = "countSenders" /\ DOMAIN Program["createSender"] = 1..2
  /\ Program["createToken"][2] = "countTokens" /\ DOMAIN Program["createToken"] = 1..4
BY DEF Program

(* One check of a limiter keeps its counter in the limit and with an end.    *)
LEMMA CountedKeeps ==
  ASSUME NEW limit \in Nat, NEW w \in WindowRecords, WindowInv(w, limit)
  PROVE  Counted(w, limit) \in WindowRecords /\ WindowInv(Counted(w, limit), limit)
<1> DEFINE count == IF w.count < limit THEN w.count + 1 ELSE w.count
           passed == IF Allows(w, limit) THEN w.passed + 1 ELSE w.passed
<1>1. w.count \in Nat /\ w.passed \in Nat /\ w.expires \in BOOLEAN
  BY DEF WindowRecords
<1>2. count \in Nat /\ passed \in Nat /\ passed <= count /\ count <= limit
  BY <1>1 DEF Allows, WindowInv
<1>3. Expires(w) \in BOOLEAN /\ Expires(w)
  BY <1>1 DEF Expires, WindowInv
<1>4. Counted(w, limit) = [count |-> count, expires |-> Expires(w), passed |-> passed]
  BY DEF Counted
<1> HIDE DEF count, passed
<1>5. /\ Counted(w, limit).count = count /\ Counted(w, limit).passed = passed
      /\ Counted(w, limit).expires = Expires(w)
  BY <1>4
<1>6. Counted(w, limit) \in WindowRecords
  BY <1>2, <1>3, <1>4 DEF WindowRecords
<1>7. QED
  BY <1>2, <1>3, <1>5, <1>6 DEF WindowInv

(* A cap holds on: rows and clearances shrink, or the rows are few, or a     *)
(* clearance is spent on a row.                                              *)
LEMMA CapKept ==
  ASSUME NEW Rows, IsFiniteSet(Rows), NEW X \in SUBSET Rows, NEW Y \in SUBSET Rows,
         NEW C \in SUBSET Requests, NEW D \in SUBSET Requests, NEW max \in Nat \ {0},
         Cardinality(X) + Cardinality(C) <= max - 1 + Cardinality(Requests),
         \/ Y \subseteq X /\ D \subseteq C
         \/ Y \subseteq X /\ Cardinality(X) < max
         \/ \E s, r : Y \subseteq X \cup {s} /\ r \in C /\ D \subseteq C \ {r}
  PROVE  Cardinality(Y) + Cardinality(D) <= max - 1 + Cardinality(Requests)
<1>1. /\ IsFiniteSet(X) /\ IsFiniteSet(Y) /\ IsFiniteSet(C) /\ IsFiniteSet(D)
      /\ IsFiniteSet(Requests)
  BY AccountAssumption, FS_Subset
<1>2. /\ Cardinality(X) \in Nat /\ Cardinality(Y) \in Nat /\ Cardinality(C) \in Nat
      /\ Cardinality(D) \in Nat /\ Cardinality(Requests) \in Nat
      /\ Cardinality(D) <= Cardinality(Requests)
  BY <1>1, FS_CardinalityType, FS_Subset
<1>3. CASE Y \subseteq X /\ D \subseteq C
  <2>1. Cardinality(Y) <= Cardinality(X) /\ Cardinality(D) <= Cardinality(C)
    BY <1>1, <1>3, FS_Subset
  <2>2. QED
    BY <1>2, <2>1
<1>4. CASE Y \subseteq X /\ Cardinality(X) < max
  <2>1. Cardinality(Y) <= Cardinality(X)
    BY <1>1, <1>4, FS_Subset
  <2>2. QED
    BY <1>2, <1>4, <2>1
<1>5. ASSUME NEW s, NEW r, Y \subseteq X \cup {s}, r \in C, D \subseteq C \ {r}
      PROVE  Cardinality(Y) + Cardinality(D) <= max - 1 + Cardinality(Requests)
  <2>1. /\ IsFiniteSet(X \cup {s}) /\ Cardinality(X \cup {s}) <= Cardinality(X) + 1
        /\ Cardinality(X \cup {s}) \in Nat
    <3>1. /\ IsFiniteSet(X \cup {s})
          /\ Cardinality(X \cup {s}) = IF s \in X THEN Cardinality(X) ELSE Cardinality(X) + 1
      BY <1>1, FS_AddElement
    <3>2. QED
      BY <1>2, <3>1
  <2>2. Cardinality(Y) <= Cardinality(X) + 1
    <3>1. Cardinality(Y) <= Cardinality(X \cup {s})
      BY <1>5, <2>1, FS_Subset
    <3>2. QED
      BY <1>2, <2>1, <3>1
  <2>3. IsFiniteSet(C \ {r}) /\ Cardinality(C \ {r}) = Cardinality(C) - 1
    BY <1>1, <1>5, FS_RemoveElement
  <2>4. Cardinality(D) <= Cardinality(C) - 1
    BY <1>5, <2>3, FS_Subset
  <2>5. QED
    BY <1>2, <2>2, <2>4
<1>6. QED
  BY <1>3, <1>4, <1>5

-----------------------------------------------------------------------------
(* One step of one handler.                                                  *)

(* Request q holds a clearance of account a.                                 *)
Clear(q, a, op) == q.account = a /\ q.op = op /\ q.step > Counting(op)

(* How rows X become Y while r becomes q: see CapKept.                       *)
Spends(r, q, a, op, X, Y, max) ==
  \/ Y \subseteq X /\ (Clear(q, a, op) => Clear(request[r], a, op))
  \/ Y \subseteq X /\ Cardinality(X) < max
  \/ (\E s : Y \subseteq X \cup {s}) /\ Clear(request[r], a, op) /\ ~Clear(q, a, op)

(* What a step of request r to q has to keep, beside the caps.               *)
Keeps(r, q) ==
  /\ q \in RequestRecords /\ request' = [request EXCEPT ![r] = q]
  /\ Informed(q, sender', token') /\ Grows /\ BoundInv'
  /\ sender' \in [Senders -> SenderRecords] /\ token' \in [Tokens -> TokenRecords]
  /\ window' \in [Accounts \cup Senders -> WindowRecords] /\ WindowsInv'

(* The types of the account API, with the records named.                     *)
LEMMA AccountTypes ==
  AccountTypeOK <=> /\ sender \in [Senders -> SenderRecords]
                    /\ token \in [Tokens -> TokenRecords]
                    /\ request \in [Requests -> RequestRecords]
                    /\ window \in [Accounts \cup Senders -> WindowRecords]
BY DEF AccountTypeOK, SenderRecords, TokenRecords, RequestRecords, WindowRecords

(* Handlers stay informed while the tables grow.                             *)
LEMMA StaysInformed ==
  ASSUME Grows, NEW q, Informed(q, sender, token)
  PROVE  Informed(q, sender', token')
BY AccountAssumption DEF Grows, Informed

(* The rows are within the caps after a step, with the clearances that stay. *)
LEMMA CapsKept ==
  ASSUME AccountInv, NEW r \in Requests, NEW q, request' = [request EXCEPT ![r] = q],
         \A a \in Accounts :
           /\ Spends(r, q, a, "createSender", SendersOf(a), SendersOf(a)', MaxSenders)
           /\ Spends(r, q, a, "createToken", ActiveTokensOf(a), ActiveTokensOf(a)', MaxTokens)
  PROVE  CapsHold'
<1>1. request'[r] = q /\ \A x \in Requests \ {r} : request'[x] = request[x]
  BY DEF AccountInv, AccountTypeOK
<1>2. ASSUME NEW a, NEW op
      PROVE  /\ Cleared(a, op) = {x \in Requests : Clear(request[x], a, op)}
             /\ Cleared(a, op)' = {x \in Requests : Clear(request'[x], a, op)}
  BY DEF Cleared, Clear, Counting
<1>3. ASSUME NEW a \in Accounts, NEW op, NEW Rows, NEW X \in SUBSET Rows, NEW Y \in SUBSET Rows,
             IsFiniteSet(Rows), NEW max \in Nat \ {0}, Spends(r, q, a, op, X, Y, max),
             Cardinality(X) + Cardinality(Cleared(a, op)) <= max - 1 + Cardinality(Requests)
      PROVE  Cardinality(Y) + Cardinality(Cleared(a, op)') <= max - 1 + Cardinality(Requests)
  <2> DEFINE C == Cleared(a, op)
             D == Cleared(a, op)'
  <2>1. C \in SUBSET Requests /\ D \in SUBSET Requests
    BY <1>2
  <2>2. \/ Y \subseteq X /\ D \subseteq C
        \/ Y \subseteq X /\ Cardinality(X) < max
        \/ \E s, x : Y \subseteq X \cup {s} /\ x \in C /\ D \subseteq C \ {x}
    <3>1. Clear(q, a, op) => r \in D
      BY <1>1, <1>2
    <3>2. /\ r \in C <=> Clear(request[r], a, op)
          /\ r \in D <=> Clear(q, a, op)
          /\ D \ {r} \subseteq C
      BY <1>1, <1>2
    <3> HIDE DEF C, D
    <3>3. QED
      BY <1>3, <3>2 DEF Spends
  <2> HIDE DEF C, D
  <2>3. Cardinality(X) + Cardinality(C) <= max - 1 + Cardinality(Requests)
    BY <1>3 DEF C
  <2>4. Cardinality(Y) + Cardinality(D) <= max - 1 + Cardinality(Requests)
    BY <1>3, <2>1, <2>2, <2>3, CapKept
  <2>5. QED
    BY <2>4 DEF D
<1>4. ASSUME NEW a \in Accounts
      PROVE  /\ Cardinality(SendersOf(a)') + Cardinality(Cleared(a, "createSender")')
                  <= MaxSenders - 1 + Cardinality(Requests)
             /\ Cardinality(ActiveTokensOf(a)') + Cardinality(Cleared(a, "createToken")')
                  <= MaxTokens - 1 + Cardinality(Requests)
  <2>1. /\ SendersOf(a) \in SUBSET Senders /\ SendersOf(a)' \in SUBSET Senders
        /\ ActiveTokensOf(a) \in SUBSET Tokens /\ ActiveTokensOf(a)' \in SUBSET Tokens
    BY DEF SendersOf, ActiveTokensOf
  <2>2. /\ Cardinality(SendersOf(a)) + Cardinality(Cleared(a, "createSender"))
             <= MaxSenders - 1 + Cardinality(Requests)
        /\ Cardinality(ActiveTokensOf(a)) + Cardinality(Cleared(a, "createToken"))
             <= MaxTokens - 1 + Cardinality(Requests)
    BY DEF AccountInv, CapsHold
  <2>3. QED
    BY <1>3, <2>1, <2>2, AccountAssumption
<1>5. QED
  BY <1>4 DEF CapsHold

(* A step keeps the invariant if it keeps what is to keep and spends right.  *)
LEMMA AccountKept ==
  ASSUME AccountInv, NEW r \in Requests, NEW q, Keeps(r, q),
         \A a \in Accounts :
           /\ Spends(r, q, a, "createSender", SendersOf(a), SendersOf(a)', MaxSenders)
           /\ Spends(r, q, a, "createToken", ActiveTokensOf(a), ActiveTokensOf(a)', MaxTokens)
  PROVE  AccountInv' /\ Grows
<1>1. request \in [Requests -> RequestRecords]
  BY AccountTypes DEF AccountInv
<1>2. request' \in [Requests -> RequestRecords] /\ request' = [request EXCEPT ![r] = q]
  BY <1>1 DEF Keeps
<1>3. RequestsInv'
  <2>1. ASSUME NEW x \in Requests PROVE Informed(request'[x], sender', token')
    <3>1. CASE x = r
      BY <1>1, <1>2, <3>1 DEF Keeps
    <3>2. CASE x # r
      <4>1. request'[x] = request[x]
        BY <1>1, <1>2, <3>2
      <4>2. Informed(request[x], sender, token) /\ Grows
        BY DEF AccountInv, RequestsInv, Keeps
      <4>3. QED
        BY <4>1, <4>2, StaysInformed
    <3>3. QED
      BY <3>1, <3>2
  <2>2. QED
    BY <2>1 DEF RequestsInv
<1>4. AccountTypeOK'
  BY <1>2 DEF Keeps, AccountTypeOK, SenderRecords, TokenRecords, RequestRecords, WindowRecords
<1>5. CapsHold'
  BY <1>2, CapsKept
<1>6. QED
  BY <1>3, <1>4, <1>5 DEF AccountInv, Keeps

(* Tables that stay grow.                                                    *)
LEMMA TablesSame ==
  ASSUME AccountInv, UNCHANGED tables
  PROVE  /\ Grows /\ BoundInv'
         /\ sender' \in [Senders -> SenderRecords] /\ token' \in [Tokens -> TokenRecords]
         /\ \A a \in Accounts : /\ SendersOf(a)' = SendersOf(a)
                                /\ ActiveTokensOf(a)' = ActiveTokensOf(a)
<1>1. sender \in [Senders -> SenderRecords] /\ token \in [Tokens -> TokenRecords]
  BY AccountTypes DEF AccountInv
<1>2. QED
  BY <1>1 DEF tables, Grows, BoundInv, AccountInv, Owner, SendersOf, ActiveTokensOf, AccountOf

(* Windows that stay keep their limits.                                      *)
LEMMA WindowsSame ==
  ASSUME AccountInv, UNCHANGED window
  PROVE  window' \in [Accounts \cup Senders -> WindowRecords] /\ WindowsInv'
BY AccountTypes DEF AccountInv, WindowsInv

(* No request is a typed request that holds no clearance.                    *)
LEMMA NoRequestSafe ==
  /\ NoRequest \in RequestRecords
  /\ \A sd, tk : Informed(NoRequest, sd, tk)
  /\ \A a, op : op \in {"createSender", "createToken"} => ~Clear(NoRequest, a, op)
BY DEF NoRequest, RequestRecords, Informed, Clear

(* What is known of a request at a statement.                                *)
LEMMA AtStatement ==
  ASSUME AccountInv, NEW r \in Requests, NEW statement, At(r, statement)
  PROVE  /\ request[r] \in RequestRecords /\ request \in [Requests -> RequestRecords]
         /\ request[r].op \in Operations /\ request[r].step \in DOMAIN Program[request[r].op]
         /\ request[r] # NoRequest /\ Informed(request[r], sender, token)
         /\ request[r].account \in Accounts /\ request[r].account # None
         /\ Program[request[r].op][request[r].step] = statement
<1>1. /\ request[r] \in RequestRecords /\ request \in [Requests -> RequestRecords]
      /\ Informed(request[r], sender, token)
  BY AccountTypes DEF AccountInv, RequestsInv
<1>2. request[r] # NoRequest
  BY DEF At, NoRequest
<1>3. QED
  BY <1>1, <1>2, AccountAssumption DEF Informed, At

-----------------------------------------------------------------------------
(* The steps of the account API, one by one.                                 *)

(* A new request knows that the ids it names were handed out.                *)
LEMMA ReceiveKeeps ==
  ASSUME AccountInv, NEW r \in Requests, NEW op \in Operations, NEW a \in Accounts,
         NEW s \in KnownSenders(op), NEW k \in KnownTokens(op), Receive(r, op, a, s, k)
  PROVE  AccountInv' /\ Grows
<1> DEFINE q == [op |-> op, step |-> 1, account |-> a, sender |-> s, token |-> k]
<1>1. /\ request' = [request EXCEPT ![r] = q] /\ UNCHANGED tables /\ UNCHANGED window
      /\ UNCHANGED <<sender, token>>
  BY DEF Receive, tables
<1>2. q \in RequestRecords
  BY DEF RequestRecords, KnownSenders, KnownTokens
<1>3. 1 \in DOMAIN Program[op]
  BY DEF Operations, Program, UpdateTokenStatements
<1>4. /\ op \notin {"createSender", "revokeToken"} => s \in Senders /\ sender[s].account # None
      /\ op \in {"updateToken", "revokeToken"} => k \in Tokens /\ token[k].sender # None
  BY DEF KnownSenders, KnownTokens
<1>5. Informed(q, sender', token')
  BY <1>1, <1>3, <1>4 DEF Informed
<1>6. \A b \in Accounts, o \in {"createSender", "createToken"} : ~Clear(q, b, o)
  BY DEF Clear, Counting
<1> HIDE DEF q
<1>7. Keeps(r, q)
  BY <1>1, <1>2, <1>5, TablesSame, WindowsSame DEF Keeps
<1>8. QED
  BY <1>1, <1>6, <1>7, TablesSame, AccountKept DEF Spends

(* An answer drops what the request held.                                    *)
LEMMA AnswerKeeps ==
  ASSUME AccountInv, NEW r \in Requests, Answer(r), Grows, BoundInv',
         sender' \in [Senders -> SenderRecords], token' \in [Tokens -> TokenRecords],
         window' \in [Accounts \cup Senders -> WindowRecords], WindowsInv',
         \A a \in Accounts :
           /\ \/ SendersOf(a)' \subseteq SendersOf(a)
              \/ /\ \E s : SendersOf(a)' \subseteq SendersOf(a) \cup {s}
                 /\ Clear(request[r], a, "createSender")
           /\ \/ ActiveTokensOf(a)' \subseteq ActiveTokensOf(a)
              \/ /\ \E k : ActiveTokensOf(a)' \subseteq ActiveTokensOf(a) \cup {k}
                 /\ Clear(request[r], a, "createToken")
  PROVE  AccountInv' /\ Grows
<1>1. Keeps(r, NoRequest)
  BY NoRequestSafe DEF Keeps, Answer
<1>2. \A a \in Accounts :
        /\ Spends(r, NoRequest, a, "createSender", SendersOf(a), SendersOf(a)', MaxSenders)
        /\ Spends(r, NoRequest, a, "createToken", ActiveTokensOf(a), ActiveTokensOf(a)', MaxTokens)
  BY NoRequestSafe DEF Spends
<1>3. QED
  BY <1>1, <1>2, AccountKept

(* Likewise when the tables and windows stay.                                *)
LEMMA RefusalKeeps ==
  ASSUME AccountInv, NEW r \in Requests, Answer(r), UNCHANGED <<sender, token, window>>
  PROVE  AccountInv' /\ Grows
<1>1. UNCHANGED tables /\ UNCHANGED window
  BY DEF tables
<1>2. QED
  BY <1>1, TablesSame, WindowsSame, AnswerKeeps

(* A step on, when what the next step knows was just read.                   *)
LEMMA ContinueKeeps ==
  ASSUME AccountInv, NEW r \in Requests, Continue(r), UNCHANGED <<sender, token, window>>,
         NEW statement, At(r, statement), NEW n, n = request[r].step,
         n + 1 \in DOMAIN Program[request[r].op],
         request[r].op = "createToken" /\ n = 1 =>
           sender[request[r].sender].account = request[r].account,
         request[r].op = "updateToken" /\ n = 1 => AccountOf(request[r].token) = request[r].account,
         request[r].op = "updateToken" /\ n = 2 =>
           sender[request[r].sender].account = request[r].account,
         request[r].op = "createSender" =>
           n = 1 /\ Cardinality(SendersOf(request[r].account)) < MaxSenders,
         request[r].op = "createToken" /\ n = 2 =>
           Cardinality(ActiveTokensOf(request[r].account)) < MaxTokens
  PROVE  AccountInv' /\ Grows
<1> DEFINE q == [request[r] EXCEPT !.step = n + 1]
<1>1. UNCHANGED tables /\ UNCHANGED window
  BY DEF tables
<1>2. /\ request[r] \in RequestRecords /\ request \in [Requests -> RequestRecords]
      /\ request[r].op \in Operations /\ n \in DOMAIN Program[request[r].op]
      /\ request[r] # NoRequest /\ Informed(request[r], sender, token)
      /\ n \in 1..5 /\ n + 1 \in 1..5
  BY AtStatement, ProgramSays
<1>3. request' = [request EXCEPT ![r] = q]
  BY <1>2 DEF Continue
<1>4. /\ q \in RequestRecords /\ q.op = request[r].op /\ q.step = n + 1
      /\ q.account = request[r].account /\ q.sender = request[r].sender
      /\ q.token = request[r].token
  BY <1>2 DEF RequestRecords
<1> HIDE DEF q
<1>5. Informed(q, sender, token)
  BY <1>2, <1>4 DEF Informed, AccountOf, Owner
<1>6. Informed(q, sender', token')
  BY <1>1, <1>5 DEF tables
<1>7. Keeps(r, q)
  BY <1>1, <1>3, <1>4, <1>6, TablesSame, WindowsSame DEF Keeps
<1>8. ASSUME NEW a \in Accounts
      PROVE  /\ Spends(r, q, a, "createSender", SendersOf(a), SendersOf(a)', MaxSenders)
             /\ Spends(r, q, a, "createToken", ActiveTokensOf(a), ActiveTokensOf(a)', MaxTokens)
  <2>1. SendersOf(a)' = SendersOf(a) /\ ActiveTokensOf(a)' = ActiveTokensOf(a)
    BY <1>1, TablesSame
  <2>2. \/ ~Clear(q, a, "createSender")
        \/ Cardinality(SendersOf(a)) < MaxSenders
    BY <1>4 DEF Clear, Counting
  <2>3. \/ ~Clear(q, a, "createToken")
        \/ Clear(request[r], a, "createToken")
        \/ Cardinality(ActiveTokensOf(a)) < MaxTokens
    BY <1>2, <1>4 DEF Clear, Counting
  <2>4. QED
    BY <2>1, <2>2, <2>3 DEF Spends
<1>9. QED
  BY <1>7, <1>8, AccountKept

(* The reads of the handlers: counts, owners, credentials.                   *)
LEMMA CheckKeeps ==
  ASSUME AccountInv, NEW r \in Requests,
         CountSenders(r) \/ CountTokens(r) \/ OwnSender(r) \/ OwnToken(r) \/ ReadCredentials(r)
  PROVE  AccountInv' /\ Grows
<1> DEFINE n == request[r].step
           op == request[r].op
<1>1. UNCHANGED <<sender, token, window>> /\ (Continue(r) \/ Answer(r))
  BY DEF CountSenders, CountTokens, OwnSender, OwnToken, ReadCredentials, Check
<1>2. CASE Answer(r)
  BY <1>1, <1>2, RefusalKeeps
<1>3. CASE Continue(r) /\ ~Answer(r)
  <2>1. CASE CountSenders(r)
    <3>1. /\ At(r, "countSenders")
          /\ Cardinality(SendersOf(request[r].account)) < MaxSenders
      BY <1>3, <2>1 DEF CountSenders, Check, Room
    <3>2. op = "createSender" /\ n = 1 /\ n + 1 \in DOMAIN Program[op]
      BY <3>1, AtStatement, ProgramSays, CountSteps
    <3>3. QED
      BY <1>1, <1>3, <3>1, <3>2, ContinueKeeps
  <2>2. CASE CountTokens(r)
    <3>1. /\ At(r, "countTokens")
          /\ Cardinality(ActiveTokensOf(request[r].account)) < MaxTokens
      BY <1>3, <2>2 DEF CountTokens, Check, Room
    <3>2. op = "createToken" /\ n = 2 /\ n + 1 \in DOMAIN Program[op]
      BY <3>1, AtStatement, ProgramSays, CountSteps
    <3>3. QED
      BY <1>1, <1>3, <3>1, <3>2, ContinueKeeps
  <2>3. CASE OwnSender(r)
    <3>1. /\ At(r, "ownSender")
          /\ sender[request[r].sender].account = request[r].account
      BY <1>3, <2>3 DEF OwnSender, Check
    <3>2. /\ op \in {"updateSender", "deleteSender", "createToken", "updateToken"}
          /\ n + 1 \in DOMAIN Program[op]
          /\ op = "createToken" => n \in {1, 3}
          /\ op = "updateToken" => n \in {2, 4}
      BY <3>1, AtStatement, ProgramSays
    <3>3. QED
      BY <1>1, <1>3, <3>1, <3>2, ContinueKeeps
  <2>4. CASE OwnToken(r)
    <3>1. At(r, "ownToken") /\ AccountOf(request[r].token) = request[r].account
      BY <1>3, <2>4 DEF OwnToken, Check
    <3>2. /\ op \in {"updateToken", "revokeToken"}
          /\ n + 1 \in DOMAIN Program[op]
          /\ op = "updateToken" => n \in {1, 3}
      BY <3>1, AtStatement, ProgramSays
    <3>3. QED
      BY <1>1, <1>3, <3>1, <3>2, ContinueKeeps
  <2>5. CASE ReadCredentials(r)
    <3>1. At(r, "readCredentials")
      BY <2>5 DEF ReadCredentials, Check
    <3>2. op = "testSender" /\ n + 1 \in DOMAIN Program[op]
      BY <3>1, AtStatement, ProgramSays
    <3>3. QED
      BY <1>1, <1>3, <3>1, <3>2, ContinueKeeps
  <2>6. QED
    BY <2>1, <2>2, <2>3, <2>4, <2>5
<1>4. QED
  BY <1>1, <1>2, <1>3

(* A limiter that counts once more keeps all windows in their limits.        *)
LEMMA WindowCounts ==
  ASSUME AccountInv, NEW k \in Accounts \cup Senders,
         window' = [window EXCEPT ![k] = Counted(window[k], LimitOf(k))]
  PROVE  window' \in [Accounts \cup Senders -> WindowRecords] /\ WindowsInv'
<1>1. window \in [Accounts \cup Senders -> WindowRecords] /\ WindowInv(window[k], LimitOf(k))
  BY AccountTypes DEF AccountInv, WindowsInv
<1>2. LimitOf(k) \in Nat
  BY AccountAssumption, GateAssumption DEF LimitOf
<1>3. /\ Counted(window[k], LimitOf(k)) \in WindowRecords
      /\ WindowInv(Counted(window[k], LimitOf(k)), LimitOf(k))
  BY <1>1, <1>2, CountedKeeps
<1>4. \A i \in Accounts \cup Senders :
        window'[i] = IF i = k THEN Counted(window[k], LimitOf(k)) ELSE window[i]
  BY <1>1
<1>5. ASSUME NEW i \in Accounts \cup Senders PROVE WindowInv(window'[i], LimitOf(i))
  BY <1>3, <1>4 DEF AccountInv, WindowsInv
<1>6. QED
  BY <1>1, <1>3, <1>5 DEF WindowsInv

(* Testing a sender counts against the account's limit.                      *)
LEMMA TestKeeps ==
  ASSUME AccountInv, NEW r \in Requests, CountTest(r)
  PROVE  AccountInv' /\ Grows
<1> DEFINE a == request[r].account
<1>1. a \in Accounts /\ a \notin Senders
  BY AtStatement, AccountAssumption DEF CountTest
<1>2. window' = [window EXCEPT ![a] = Counted(window[a], LimitOf(a))]
  BY <1>1 DEF CountTest, LimitOf
<1>3. window' \in [Accounts \cup Senders -> WindowRecords] /\ WindowsInv'
  BY <1>1, <1>2, WindowCounts
<1>4. UNCHANGED tables /\ Answer(r)
  BY DEF CountTest
<1>5. QED
  BY <1>3, <1>4, TablesSame, AnswerKeeps

(* A new sender is its account's; the creation spends its clearance.         *)
LEMMA InsertSenderKeeps ==
  ASSUME AccountInv, NEW r \in Requests, InsertSender(r)
  PROVE  AccountInv' /\ Grows
<1> DEFINE a == request[r].account
<1>1. At(r, "insertSender") /\ Answer(r) /\ UNCHANGED window /\ token' = token
  BY DEF InsertSender, Write
<1>2. a \in Accounts /\ a # None /\ request[r].op = "createSender" /\ request[r].step = 2
  BY <1>1, AtStatement, ProgramSays
<1>3. PICK s \in Senders :
        /\ sender[s].account = None
        /\ sender' = [sender EXCEPT ![s] = [account |-> a, active |-> TRUE]]
  BY DEF InsertSender
<1>4. /\ sender \in [Senders -> SenderRecords] /\ token \in [Tokens -> TokenRecords]
      /\ sender' \in [Senders -> SenderRecords]
  BY <1>2, <1>3, AccountTypes DEF AccountInv, SenderRecords
<1>5. sender'[s].account = a /\ \A t \in Senders \ {s} : sender'[t] = sender[t]
  BY <1>3, <1>4
<1>6. \A k \in Tokens : token[k].sender # None => token[k].sender \in Senders \ {s}
  BY <1>3, <1>4 DEF AccountInv, BoundInv, TokenRecords
<1>7. \A k \in Tokens : Owner(k, sender', token') = Owner(k, sender, token)
  BY <1>1, <1>5, <1>6 DEF Owner
<1>8. Grows /\ BoundInv'
  BY <1>1, <1>3, <1>5, <1>6, <1>7 DEF Grows, BoundInv, AccountInv
<1>9. ASSUME NEW b \in Accounts
      PROVE  /\ ActiveTokensOf(b)' = ActiveTokensOf(b)
             /\ b # a => SendersOf(b)' = SendersOf(b)
             /\ SendersOf(b)' \subseteq SendersOf(b) \cup {s}
  BY <1>1, <1>3, <1>5, <1>7, AccountAssumption DEF ActiveTokensOf, AccountOf, Owner, SendersOf
<1>10. Clear(request[r], a, "createSender")
  BY <1>2 DEF Clear, Counting
<1>11. QED
  BY <1>1, <1>4, <1>8, <1>9, <1>10, WindowsSame, AnswerKeeps, AccountTypes DEF AccountInv

(* A sender that is changed or archived stays its account's.                 *)
LEMMA ChangeSenderKeeps ==
  ASSUME AccountInv, NEW r \in Requests, UpdateSender(r) \/ ArchiveSender(r)
  PROVE  AccountInv' /\ Grows
<1> DEFINE s == request[r].sender
<1>1. /\ At(r, "updateSender") \/ At(r, "archiveSender")
      /\ Answer(r) /\ UNCHANGED window /\ token' = token
  BY DEF UpdateSender, ArchiveSender, Write
<1>2. s \in Senders
  BY <1>1, AtStatement, ProgramSays DEF Informed
<1>3. PICK active \in BOOLEAN : sender' = [sender EXCEPT ![s].active = active]
  BY DEF UpdateSender, ArchiveSender
<1>4. sender \in [Senders -> SenderRecords] /\ token \in [Tokens -> TokenRecords]
  BY AccountTypes DEF AccountInv
<1>5. [sender[s] EXCEPT !.active = active] \in SenderRecords
  BY <1>2, <1>4 DEF SenderRecords
<1>6. /\ sender' \in [Senders -> SenderRecords]
      /\ \A t \in Senders : sender'[t].account = sender[t].account
  <2>1. sender' = [sender EXCEPT ![s] = [sender[s] EXCEPT !.active = active]]
    BY <1>2, <1>3, <1>4
  <2>2. [sender[s] EXCEPT !.active = active].account = sender[s].account
    BY <1>2, <1>4 DEF SenderRecords
  <2>3. QED
    BY <1>2, <1>4, <1>5, <2>1, <2>2
<1>7. \A k \in Tokens : Owner(k, sender', token') = Owner(k, sender, token)
  BY <1>1, <1>4, <1>6 DEF Owner, TokenRecords
<1>8. Grows /\ BoundInv'
  BY <1>1, <1>4, <1>6, <1>7 DEF Grows, BoundInv, AccountInv, TokenRecords
<1>9. ASSUME NEW b \in Accounts
      PROVE  ActiveTokensOf(b)' = ActiveTokensOf(b) /\ SendersOf(b)' = SendersOf(b)
  BY <1>1, <1>6, <1>7 DEF ActiveTokensOf, AccountOf, Owner, SendersOf
<1>10. QED
  BY <1>1, <1>4, <1>6, <1>8, <1>9, WindowsSame, AnswerKeeps

(* A token row changes; senders and windows stay.  It keeps the invariant if *)
(* the row stays its account's, or is new and spends a clearance.            *)
LEMMA TokenWritten ==
  ASSUME AccountInv, NEW r \in Requests, Answer(r), UNCHANGED <<sender, window>>,
         NEW k \in Tokens, NEW v \in TokenRecords, token' = [token EXCEPT ![k] = v],
         v.sender # None, sender[v.sender].account # None,
         \/ AccountOf(k) = sender[v.sender].account /\ (token[k].revoked => v.revoked)
         \/ /\ token[k].sender = None
            /\ Clear(request[r], sender[v.sender].account, "createToken")
  PROVE  AccountInv' /\ Grows
<1>1. /\ sender \in [Senders -> SenderRecords] /\ token \in [Tokens -> TokenRecords]
      /\ token' \in [Tokens -> TokenRecords] /\ v.sender \in Senders
  BY AccountTypes DEF AccountInv, TokenRecords
<1>2. token'[k] = v /\ \A i \in Tokens \ {k} : token'[i] = token[i]
  BY <1>1
<1>3. /\ Owner(k, sender', token') = sender[v.sender].account
      /\ \A i \in Tokens \ {k} : Owner(i, sender', token') = Owner(i, sender, token)
  BY <1>2 DEF Owner
<1>4. Owner(k, sender, token) \in {None, sender[v.sender].account}
  BY DEF Owner, AccountOf
<1>5. Grows
  BY <1>2, <1>3, <1>4 DEF Grows
<1>6. BoundInv'
  BY <1>2 DEF BoundInv, AccountInv
<1>7. ASSUME NEW a \in Accounts
      PROVE  /\ SendersOf(a)' = SendersOf(a)
             /\ \/ ActiveTokensOf(a)' \subseteq ActiveTokensOf(a)
                \/ /\ ActiveTokensOf(a)' \subseteq ActiveTokensOf(a) \cup {k}
                   /\ Clear(request[r], a, "createToken")
  <2>1. /\ ActiveTokensOf(a) = {i \in Tokens : Owner(i, sender, token) = a /\ ~token[i].revoked}
        /\ ActiveTokensOf(a)' = {i \in Tokens : Owner(i, sender', token') = a /\ ~token'[i].revoked}
    BY DEF ActiveTokensOf, AccountOf, Owner
  <2>2. ActiveTokensOf(a)' \subseteq ActiveTokensOf(a) \cup {k}
    BY <1>2, <1>3, <2>1
  <2>3. k \in ActiveTokensOf(a)' => sender[v.sender].account = a /\ ~v.revoked
    BY <1>2, <1>3, <2>1
  <2>4. \/ AccountOf(k) = sender[v.sender].account /\ (token[k].revoked => v.revoked)
        \/ Clear(request[r], sender[v.sender].account, "createToken")
    OBVIOUS
  <2>5. k \in ActiveTokensOf(a)' =>
          k \in ActiveTokensOf(a) \/ Clear(request[r], a, "createToken")
    BY <2>3, <2>4 DEF ActiveTokensOf
  <2>6. SendersOf(a)' = SendersOf(a)
    BY DEF SendersOf
  <2>7. QED
    BY <2>2, <2>5, <2>6
<1>8. sender' \in [Senders -> SenderRecords]
  BY <1>1
<1>9. QED
  BY <1>1, <1>5, <1>6, <1>7, <1>8, WindowsSame, AnswerKeeps

(* A new token belongs to the sender that was found to be the account's.     *)
LEMMA InsertTokenKeeps ==
  ASSUME AccountInv, NEW r \in Requests, InsertToken(r)
  PROVE  AccountInv' /\ Grows
<1> DEFINE s == request[r].sender
<1>1. At(r, "insertToken") /\ Answer(r) /\ UNCHANGED <<sender, window>>
  BY DEF InsertToken, Write
<1>2. /\ request[r].op = "createToken" /\ request[r].step = 4
      /\ request[r].account \in Accounts /\ request[r].account # None
      /\ s \in Senders /\ sender[s].account = request[r].account
  BY <1>1, AtStatement, ProgramSays DEF Informed
<1>3. PICK k \in Tokens, scopes \in ScopeSets :
        /\ token[k].sender = None
        /\ token' = [token EXCEPT ![k] = [sender |-> s, scopes |-> scopes, revoked |-> FALSE]]
  BY DEF InsertToken
<1> DEFINE v == [sender |-> s, scopes |-> scopes, revoked |-> FALSE]
<1>4. v \in TokenRecords /\ v.sender = s /\ s # None
  BY <1>2, AccountAssumption DEF TokenRecords
<1>5. Clear(request[r], sender[s].account, "createToken")
  BY <1>2 DEF Clear, Counting
<1> HIDE DEF v
<1>6. token' = [token EXCEPT ![k] = v]
  BY <1>3 DEF v
<1>7. /\ v.sender # None /\ sender[v.sender].account # None
      /\ Clear(request[r], sender[v.sender].account, "createToken")
  BY <1>2, <1>4, <1>5
<1>8. QED
  BY <1>1, <1>3, <1>4, <1>6, <1>7, TokenWritten

(* A rebound token stays its account's: both owners were checked.            *)
LEMMA UpdateTokenKeeps ==
  ASSUME AccountInv, NEW r \in Requests, UpdateToken(r)
  PROVE  AccountInv' /\ Grows
<1> DEFINE s == request[r].sender
           k == request[r].token
<1>1. At(r, "updateToken") /\ Answer(r) /\ UNCHANGED <<sender, window>>
  BY DEF UpdateToken, Write
<1>2. /\ request[r].account \in Accounts /\ request[r].account # None
      /\ s \in Senders /\ sender[s].account = request[r].account
      /\ k \in Tokens /\ AccountOf(k) = request[r].account
  <2>1. request[r].op = "updateToken" /\ request[r].step = 5
    BY <1>1, AtStatement, ProgramSays
  <2>2. Informed(request[r], sender, token) /\ request[r] # NoRequest
    BY <1>1, AtStatement
  <2>3. QED
    BY <2>1, <2>2, AccountAssumption DEF Informed, Owner, AccountOf
<1>3. PICK scopes \in ScopeSets :
        token' = [token EXCEPT ![k].sender = s, ![k].scopes = scopes]
  BY DEF UpdateToken
<1>4. token \in [Tokens -> TokenRecords] /\ s # None /\ scopes \in SUBSET Scopes
  BY <1>2, AccountTypes, AccountAssumption DEF AccountInv
<1> DEFINE v == [token[k] EXCEPT !.sender = s, !.scopes = scopes]
<1>5. token' = [token EXCEPT ![k] = v]
  BY <1>2, <1>3, <1>4
<1>6. v \in TokenRecords /\ v.sender = s /\ v.revoked = token[k].revoked
  BY <1>2, <1>4 DEF TokenRecords
<1> HIDE DEF v
<1>7. QED
  BY <1>1, <1>2, <1>4, <1>5, <1>6, TokenWritten

(* Revocation is final and changes nothing else.                             *)
LEMMA RevokeTokenKeeps ==
  ASSUME AccountInv, NEW r \in Requests, RevokeToken(r)
  PROVE  AccountInv' /\ Grows
<1> DEFINE k == request[r].token
           gone == token[k].revoked \/ AccountOf(k) = request[r].account
<1>1. At(r, "revokeToken") /\ Answer(r) /\ UNCHANGED <<sender, window>>
  BY DEF RevokeToken, Write
<1>2. k \in Tokens /\ token[k].sender # None
  <2>1. request[r].op = "revokeToken"
    BY <1>1, AtStatement, ProgramSays
  <2>2. Informed(request[r], sender, token) /\ request[r] # NoRequest
    BY <1>1, AtStatement
  <2>3. QED
    BY <2>1, <2>2 DEF Informed
<1>3. token \in [Tokens -> TokenRecords] /\ gone \in BOOLEAN
  BY AccountTypes DEF AccountInv
<1>4. token' = [token EXCEPT ![k].revoked = gone]
  BY DEF RevokeToken
<1>5. token[k].revoked => gone
  OBVIOUS
<1> HIDE DEF gone
<1> DEFINE v == [token[k] EXCEPT !.revoked = gone]
<1>6. token' = [token EXCEPT ![k] = v]
  BY <1>2, <1>3, <1>4
<1>7. v \in TokenRecords /\ v.sender = token[k].sender /\ v.revoked = gone
  BY <1>2, <1>3 DEF TokenRecords
<1> HIDE DEF v
<1>8. sender[v.sender].account # None /\ AccountOf(k) = sender[v.sender].account
  BY <1>2, <1>7 DEF AccountInv, BoundInv, AccountOf
<1>9. QED
  BY <1>1, <1>2, <1>5, <1>6, <1>7, <1>8, TokenWritten

(* The end of a window closes it.                                            *)
LEMMA WindowEndsKeeps ==
  ASSUME AccountInv, NEW k \in Accounts \cup Senders, WindowEnds(k)
  PROVE  AccountInv' /\ Grows
<1>1. /\ window \in [Accounts \cup Senders -> WindowRecords]
      /\ window' = [window EXCEPT ![k] = Closed] /\ UNCHANGED <<sender, token, request>>
  BY AccountTypes DEF AccountInv, WindowEnds
<1>2. Closed \in WindowRecords /\ \A i \in Accounts \cup Senders : WindowInv(Closed, LimitOf(i))
  BY AccountAssumption, GateAssumption DEF Closed, WindowRecords, WindowInv, LimitOf
<1>3. /\ window' \in [Accounts \cup Senders -> WindowRecords]
      /\ \A i \in Accounts \cup Senders : window'[i] = IF i = k THEN Closed ELSE window[i]
  BY <1>1, <1>2
<1>4. WindowsInv'
  <2>1. ASSUME NEW i \in Accounts \cup Senders PROVE WindowInv(window'[i], LimitOf(i))
    BY <1>2, <1>3 DEF AccountInv, WindowsInv
  <2>2. QED
    BY <2>1 DEF WindowsInv
<1>5. AccountTypeOK'
  BY <1>1, <1>3 DEF AccountInv, AccountTypeOK, WindowRecords
<1>6. CapsHold' /\ BoundInv' /\ RequestsInv' /\ Grows
  <2>1. UNCHANGED tables
    BY <1>1 DEF tables
  <2>2. \A a, op : Cleared(a, op)' = Cleared(a, op)
    BY <1>1 DEF Cleared
  <2>3. CapsHold'
    BY <2>1, <2>2, TablesSame DEF AccountInv, CapsHold
  <2>4. QED
    BY <1>1, <2>1, <2>3, TablesSame DEF AccountInv, RequestsInv
<1>7. QED
  BY <1>4, <1>5, <1>6 DEF AccountInv

(* Every step of the account API keeps its invariant.                        *)
LEMMA AccountStepKeeps ==
  ASSUME AccountInv, AccountStep
  PROVE  AccountInv' /\ Grows
<1>1. ASSUME NEW r \in Requests, Handle(r) PROVE AccountInv' /\ Grows
  <2>1. CASE Refuse(r)
    BY <2>1, RefusalKeeps DEF Refuse
  <2>2. CASE \E op \in Operations, a \in Accounts :
               \E s \in KnownSenders(op), k \in KnownTokens(op) : Receive(r, op, a, s, k)
    BY <2>2, ReceiveKeeps
  <2>3. CASE \/ CountSenders(r) \/ CountTokens(r) \/ OwnSender(r) \/ OwnToken(r)
             \/ ReadCredentials(r)
    BY <2>3, CheckKeeps
  <2>4. QED
    BY <1>1, <2>1, <2>2, <2>3, TestKeeps, InsertSenderKeeps, ChangeSenderKeeps,
       InsertTokenKeeps, UpdateTokenKeeps, RevokeTokenKeeps DEF Handle
<1>2. QED
  BY <1>1, WindowEndsKeeps DEF AccountStep

-----------------------------------------------------------------------------
(* The bearer calls.                                                         *)

(* The types of the calls, with the records named.                           *)
LEMMA GateTypes ==
  GateTypeOK <=>
    /\ call \in [Calls -> CallRecords]
    /\ \A c \in Calls : call[c].pc \notin {"idle", "verify"} => call[c].sender \in Senders
    /\ delivery \in [Messages -> Senders \cup {None}]
    /\ entitled \in [Calls -> SUBSET Senders] /\ open \in [Calls -> BOOLEAN]
BY DEF GateTypeOK, CallRecords

(* What the history variables become in a step.                              *)
LEMMA WitnessSays ==
  ASSUME CallsInv, Witness, NEW c \in Calls
  PROVE  /\ call'[c].pc # "idle" => entitled[c] \cup Standing(c)' \subseteq entitled'[c]
         /\ call'[c].pc \in {"findSender", "insert", "answered"} =>
              (open[c] => open'[c]) /\ (sender'[call'[c].sender].active => open'[c])
BY DEF Witness, On, Admitted

(* The history variables keep their types.                                   *)
LEMMA WitnessTyped ==
  ASSUME CallsInv, Witness
  PROVE  entitled' \in [Calls -> SUBSET Senders] /\ open' \in [Calls -> BOOLEAN]
<1>1. entitled \in [Calls -> SUBSET Senders]
  BY GateTypes DEF CallsInv
<1>2. \A c \in Calls : Standing(c)' \subseteq Senders
  BY DEF Standing
<1>3. entitled' \in [Calls -> SUBSET Senders]
  BY <1>1, <1>2 DEF Witness
<1>4. open' \in [Calls -> BOOLEAN]
  BY DEF Witness
<1>5. QED
  BY <1>3, <1>4

(* A call that makes no step stays trusted and witnessed.                    *)
LEMMA OtherCall ==
  ASSUME GateInv, Grows, Witness, NEW d \in Calls, call'[d] = call[d],
         \A m \in Messages : delivery[m] # None => delivery'[m] = delivery[m]
  PROVE  /\ Trusted(call'[d], sender', delivery')
         /\ Witnessed(call'[d], entitled'[d], open'[d])
<1>1. Trusted(call[d], sender, delivery) /\ Witnessed(call[d], entitled[d], open[d])
  BY DEF GateInv, CallsInv
<1>2. Trusted(call[d], sender', delivery')
  BY <1>1, AccountAssumption DEF Trusted, Grows
<1>3. /\ call'[d].pc # "idle" => entitled[d] \subseteq entitled'[d]
      /\ call'[d].pc \in {"insert", "answered"} => (open[d] => open'[d])
  BY WitnessSays DEF GateInv
<1>4. Witnessed(call[d], entitled'[d], open'[d])
  BY <1>1, <1>3 DEF Witnessed
<1>5. QED
  BY <1>2, <1>4

(* A call's step keeps the invariant if its new record is right.             *)
LEMMA CallKept ==
  ASSUME GateInv, AccountInv', Grows, Witness, NEW c \in Calls, NEW q \in CallRecords,
         call' = [call EXCEPT ![c] = q], delivery' \in [Messages -> Senders \cup {None}],
         \A m \in Messages : delivery[m] # None => delivery'[m] = delivery[m],
         Trusted(q, sender', delivery'), Witnessed(q, entitled'[c], open'[c])
  PROVE  GateInv'
<1>1. call \in [Calls -> CallRecords]
  BY GateTypes DEF GateInv, CallsInv
<1>2. /\ call' \in [Calls -> CallRecords] /\ call'[c] = q
      /\ \A d \in Calls \ {c} : call'[d] = call[d]
  BY <1>1
<1>3. ASSUME NEW d \in Calls
      PROVE  Trusted(call'[d], sender', delivery') /\ Witnessed(call'[d], entitled'[d], open'[d])
  BY <1>2, OtherCall
<1>4. GateTypeOK'
  <2>1. entitled' \in [Calls -> SUBSET Senders] /\ open' \in [Calls -> BOOLEAN]
    BY WitnessTyped DEF GateInv
  <2>2. \A d \in Calls : call'[d].pc \notin {"idle", "verify"} => call'[d].sender \in Senders
    BY <1>3 DEF Trusted
  <2>3. QED
    BY <1>2, <2>1, <2>2 DEF GateTypeOK, CallRecords
<1>5. QED
  BY <1>3, <1>4 DEF GateInv, CallsInv

(* The account API's steps leave the calls as they are.                      *)
LEMMA AccountStepSafe ==
  ASSUME GateInv, AccountStep, UNCHANGED gateVars, Witness
  PROVE  GateInv'
<1>1. AccountInv' /\ Grows
  BY AccountStepKeeps DEF GateInv
<1>2. call' = call /\ delivery' = delivery
  BY DEF gateVars
<1>3. \A d \in Calls : /\ Trusted(call'[d], sender', delivery')
                       /\ Witnessed(call'[d], entitled'[d], open'[d])
  BY <1>1, <1>2, OtherCall
<1>4. entitled' \in [Calls -> SUBSET Senders] /\ open' \in [Calls -> BOOLEAN]
  BY WitnessTyped DEF GateInv
<1>5. GateTypeOK'
  BY <1>2, <1>4 DEF GateInv, CallsInv, GateTypeOK
<1>6. QED
  BY <1>1, <1>3, <1>5 DEF GateInv, CallsInv

(* The account API's part of the state during a call's step.                 *)
LEMMA TablesDuringCall ==
  ASSUME GateInv, UNCHANGED accountVars
  PROVE  AccountInv' /\ Grows
<1>1. UNCHANGED tables /\ UNCHANGED window /\ request' = request
  BY DEF accountVars, tables
<1>2. Grows
  BY <1>1, TablesSame DEF GateInv
<1>3. AccountTypeOK' /\ BoundInv' /\ RequestsInv' /\ WindowsInv'
  BY <1>1 DEF GateInv, AccountInv, AccountTypeOK, BoundInv, RequestsInv, WindowsInv, tables
<1>4. CapsHold'
  <2>1. \A a, op : Cleared(a, op)' = Cleared(a, op)
    BY <1>1 DEF Cleared
  <2>2. QED
    BY <1>1, <2>1, TablesSame DEF GateInv, AccountInv, CapsHold
<1>5. QED
  BY <1>2, <1>3, <1>4 DEF AccountInv

(* A call that ends leaves nothing behind.                                   *)
LEMMA LeaveSafe ==
  ASSUME GateInv, AccountInv', Grows, Witness, NEW c \in Calls, Leave(c), delivery' = delivery
  PROVE  GateInv'
<1>1. NoCall \in CallRecords
  BY DEF NoCall, CallRecords, Steps, Scopes
<1>2. Trusted(NoCall, sender', delivery') /\ Witnessed(NoCall, entitled'[c], open'[c])
  BY DEF NoCall, Trusted, Witnessed
<1>3. delivery' \in [Messages -> Senders \cup {None}]
  BY GateTypes DEF GateInv, CallsInv
<1>4. QED
  BY <1>1, <1>2, <1>3, CallKept DEF Leave

(* What is known of a call that is at work.                                  *)
LEMMA CallKnown ==
  ASSUME GateInv, NEW c \in Calls
  PROVE  /\ call[c] \in CallRecords /\ call \in [Calls -> CallRecords]
         /\ delivery \in [Messages -> Senders \cup {None}]
         /\ Trusted(call[c], sender, delivery) /\ Witnessed(call[c], entitled[c], open[c])
BY GateTypes DEF GateInv, CallsInv

(* Going on to a statement, when what it needs was just read.                *)
LEMMA GotoSafe ==
  ASSUME GateInv, AccountInv', Grows, Witness, NEW c \in Calls, delivery' = delivery,
         NEW pc \in Steps \ {"idle", "verify", "scope"}, Goto(c, pc),
         call[c].pc \notin {"idle", "verify"}, call[c].granted,
         pc \in {"limit", "findSender", "insert"} <=> call[c].scope = "send",
         pc = "insert" => sender'[call[c].sender].active,
         pc = "answered" => delivery[call[c].msg] = call[c].sender
  PROVE  GateInv'
<1> DEFINE q == [call[c] EXCEPT !.pc = pc]
<1>1. /\ call[c] \in CallRecords /\ call \in [Calls -> CallRecords]
      /\ delivery \in [Messages -> Senders \cup {None}]
      /\ Trusted(call[c], sender, delivery) /\ Witnessed(call[c], entitled[c], open[c])
  BY CallKnown
<1>2. call' = [call EXCEPT ![c] = q] /\ call'[c] = q
  BY <1>1 DEF Goto
<1>3. /\ q \in CallRecords /\ q.pc = pc /\ q.scope = call[c].scope /\ q.token = call[c].token
      /\ q.msg = call[c].msg /\ q.sender = call[c].sender /\ q.account = call[c].account
      /\ q.granted = call[c].granted
  BY <1>1 DEF CallRecords
<1> HIDE DEF q
<1>4. /\ call[c].scope \in {"send", "status"}
      /\ pc \in {"limit", "findSender", "insert", "find", "answered"}
  BY <1>1 DEF CallRecords, Scopes, Steps
<1>5. Trusted(q, sender, delivery)
  BY <1>1, <1>3, <1>4 DEF Trusted
<1>6. Trusted(q, sender', delivery')
  BY <1>3, <1>5, AccountAssumption DEF Trusted, Grows
<1>7. /\ entitled[c] \subseteq entitled'[c]
      /\ pc = "insert" => open'[c]
  BY <1>2, <1>3, WitnessSays DEF GateInv
<1>8. Witnessed(q, entitled'[c], open'[c])
  BY <1>1, <1>3, <1>7 DEF Witnessed
<1>9. QED
  BY <1>1, <1>2, <1>3, <1>6, <1>8, CallKept

(* A new call knows nothing but what the client sent.                        *)
LEMMA AskSafe ==
  ASSUME GateInv, Witness, NEW c \in Calls, NEW scope \in Scopes, NEW k \in Tokens,
         NEW m \in Messages \cup {None}, scope = "status" => m \in Messages,
         Ask(c, scope, k, m)
  PROVE  GateInv'
<1> DEFINE q == [NoCall EXCEPT !.pc = "verify", !.scope = scope, !.token = k, !.msg = m]
<1>1. AccountInv' /\ Grows /\ delivery' = delivery /\ call' = [call EXCEPT ![c] = q]
  BY TablesDuringCall DEF Ask
<1>2. q \in CallRecords /\ Trusted(q, sender', delivery') /\ Witnessed(q, entitled'[c], open'[c])
  BY DEF NoCall, CallRecords, Steps, Scopes, Trusted, Witnessed
<1>3. delivery' \in [Messages -> Senders \cup {None}]
  BY <1>1, CallKnown
<1>4. QED
  BY <1>1, <1>2, <1>3, CallKept

(* The token that is found stands for its sender at this moment.             *)
LEMMA VerifySafe ==
  ASSUME GateInv, Witness, NEW c \in Calls, Verify(c)
  PROVE  GateInv'
<1> DEFINE k == call[c].token
           g == call[c].scope \in token[k].scopes
           q == [call[c] EXCEPT !.pc = "scope", !.sender = token[k].sender,
                                !.account = AccountOf(k), !.granted = g]
<1>1. /\ AccountInv' /\ Grows /\ delivery' = delivery /\ call[c].pc = "verify"
      /\ UNCHANGED <<sender, token>>
  BY TablesDuringCall DEF Verify, On, accountVars
<1>2. /\ call[c] \in CallRecords /\ call \in [Calls -> CallRecords]
      /\ delivery \in [Messages -> Senders \cup {None}]
      /\ Trusted(call[c], sender, delivery) /\ k \in Tokens
  BY <1>1, CallKnown DEF Trusted
<1>3. CASE Leave(c)
  BY <1>1, <1>3, LeaveSafe
<1>4. CASE /\ Accepts(k)
           /\ call' = [call EXCEPT ![c].pc = "scope", ![c].sender = token[k].sender,
                                   ![c].account = AccountOf(k), ![c].granted = g]
  <2>1. /\ token[k].sender \in Senders /\ sender[token[k].sender].account # None
        /\ AccountOf(k) = sender[token[k].sender].account
        /\ AccountOf(k) \in Accounts /\ sender[token[k].sender].active /\ ~token[k].revoked
    BY <1>2, <1>4, AccountTypes DEF Accepts, GateInv, AccountInv, BoundInv, AccountOf,
       TokenRecords, SenderRecords
  <2>2. g \in BOOLEAN
    OBVIOUS
  <2>3. g => call[c].scope \in token[k].scopes
    OBVIOUS
  <2> HIDE DEF g
  <2>4. call' = [call EXCEPT ![c] = q]
    BY <1>2, <1>4
  <2>5. /\ q \in CallRecords /\ q.pc = "scope" /\ q.sender = token[k].sender
        /\ q.account = AccountOf(k) /\ q.granted = g /\ q.scope = call[c].scope
        /\ q.token = k /\ q.msg = call[c].msg
    BY <1>2, <2>1, <2>2 DEF CallRecords, Steps
  <2> HIDE DEF q
  <2>6. Trusted(q, sender', delivery')
    BY <1>1, <1>2, <2>1, <2>5 DEF Trusted
  <2>7. Witnessed(q, entitled'[c], open'[c])
    <3>1. call'[c] = q
      BY <1>2, <2>4
    <3>2. q.granted => q.sender \in Standing(c)'
      BY <1>1, <1>2, <2>1, <2>3, <2>5, <3>1 DEF Standing
    <3>3. Standing(c)' \subseteq entitled'[c]
      BY <2>5, <3>1, WitnessSays DEF GateInv
    <3>4. QED
      BY <2>5, <3>2, <3>3 DEF Witnessed
  <2>8. QED
    BY <1>1, <1>2, <2>4, <2>5, <2>6, <2>7, CallKept
<1>5. QED
  BY <1>3, <1>4 DEF Verify

(* The scope was granted when the token was read.                            *)
LEMMA ScopeSafe ==
  ASSUME GateInv, Witness, NEW c \in Calls, CheckScope(c)
  PROVE  GateInv'
<1>1. AccountInv' /\ Grows /\ delivery' = delivery /\ call[c].pc = "scope"
  BY TablesDuringCall DEF CheckScope, On
<1>2. CASE Leave(c)
  BY <1>1, <1>2, LeaveSafe
<1>3. ASSUME call[c].granted, Goto(c, IF call[c].scope = "send" THEN "limit" ELSE "find")
      PROVE  GateInv'
  <2>1. call[c].scope \in {"send", "status"}
    BY CallKnown DEF CallRecords, Scopes
  <2>2. CASE call[c].scope = "send"
    BY <1>1, <1>3, <2>2, GotoSafe DEF Steps
  <2>3. CASE call[c].scope = "status"
    BY <1>1, <1>3, <2>3, GotoSafe DEF Steps
  <2>4. QED
    BY <2>1, <2>2, <2>3
<1>4. QED
  BY <1>2, <1>3 DEF CheckScope

(* The limiter counts a send against its sender.                             *)
LEMMA RateSafe ==
  ASSUME GateInv, Witness, NEW c \in Calls, CheckRate(c)
  PROVE  GateInv'
<1> DEFINE s == call[c].sender
<1>1. /\ call[c].pc = "limit" /\ delivery' = delivery /\ UNCHANGED <<sender, token, request>>
      /\ UNCHANGED tables
  BY DEF CheckRate, On, tables
<1>2. /\ s \in Senders /\ call[c].granted /\ call[c].scope = "send"
  BY <1>1, CallKnown DEF Trusted
<1>3. window' \in [Accounts \cup Senders -> WindowRecords] /\ WindowsInv'
  <2>1. CASE UNCHANGED window
    BY <2>1, WindowsSame DEF GateInv
  <2>2. CASE window' = [window EXCEPT ![s] = Counted(window[s], BurstLimit)]
    BY <1>2, <2>2, WindowCounts DEF GateInv, LimitOf
  <2>3. QED
    BY <2>1, <2>2 DEF CheckRate
<1>4. AccountInv' /\ Grows
  <2>1. CapsHold'
    <3>1. \A a, op : Cleared(a, op)' = Cleared(a, op)
      BY <1>1 DEF Cleared
    <3>2. QED
      BY <1>1, <3>1, TablesSame DEF GateInv, AccountInv, CapsHold
  <2>2. AccountTypeOK'
    BY <1>1, <1>3 DEF GateInv, AccountInv, AccountTypeOK, WindowRecords
  <2>3. QED
    BY <1>1, <1>3, <2>1, <2>2, TablesSame DEF GateInv, AccountInv, RequestsInv
<1>5. CASE Leave(c)
  BY <1>1, <1>4, <1>5, LeaveSafe
<1>6. CASE Goto(c, "findSender")
  BY <1>1, <1>2, <1>4, <1>6, GotoSafe DEF Steps
<1>7. QED
  BY <1>5, <1>6 DEF CheckRate

(* createDelivery looks at the sender again, then inserts for it.            *)
LEMMA FindSenderSafe ==
  ASSUME GateInv, Witness, NEW c \in Calls, FindSender(c)
  PROVE  GateInv'
<1>1. /\ AccountInv' /\ Grows /\ delivery' = delivery /\ call[c].pc = "findSender"
      /\ sender' = sender
  BY TablesDuringCall DEF FindSender, On, accountVars
<1>2. call[c].granted /\ call[c].scope = "send"
  BY <1>1, CallKnown DEF Trusted
<1>3. CASE Leave(c)
  BY <1>1, <1>3, LeaveSafe
<1>4. CASE Usable(c) /\ Goto(c, "insert")
  <2>1. sender'[call[c].sender].active
    BY <1>1, <1>4 DEF Usable
  <2>2. QED
    BY <1>1, <1>2, <1>4, <2>1, GotoSafe DEF Steps
<1>5. QED
  BY <1>3, <1>4 DEF FindSender

(* The new row is the call's sender's.                                       *)
LEMMA InsertSafe ==
  ASSUME GateInv, Witness, NEW c \in Calls, InsertDelivery(c)
  PROVE  GateInv'
<1>1. /\ AccountInv' /\ Grows /\ call[c].pc = "insert"
  BY TablesDuringCall DEF InsertDelivery, On
<1>2. PICK m \in Messages :
        /\ delivery[m] = None
        /\ delivery' = [delivery EXCEPT ![m] = call[c].sender]
        /\ call' = [call EXCEPT ![c].pc = "answered", ![c].msg = m]
  BY DEF InsertDelivery
<1> DEFINE q == [call[c] EXCEPT !.pc = "answered", !.msg = m]
<1>3. /\ call[c] \in CallRecords /\ call \in [Calls -> CallRecords]
      /\ delivery \in [Messages -> Senders \cup {None}]
      /\ Trusted(call[c], sender, delivery) /\ Witnessed(call[c], entitled[c], open[c])
  BY CallKnown
<1>4. call' = [call EXCEPT ![c] = q] /\ call'[c] = q
  BY <1>2, <1>3
<1>5. /\ q \in CallRecords /\ q.pc = "answered" /\ q.scope = call[c].scope
      /\ q.token = call[c].token /\ q.msg = m /\ q.sender = call[c].sender
      /\ q.account = call[c].account /\ q.granted = call[c].granted
  BY <1>3 DEF CallRecords, Steps
<1> HIDE DEF q
<1>6. /\ delivery' \in [Messages -> Senders \cup {None}] /\ delivery'[m] = call[c].sender
      /\ \A n \in Messages : delivery[n] # None => delivery'[n] = delivery[n]
  BY <1>1, <1>2, <1>3 DEF Trusted
<1>7. Trusted(q, sender', delivery')
  BY <1>1, <1>3, <1>5, <1>6, AccountAssumption DEF Trusted, Grows
<1>8. entitled[c] \subseteq entitled'[c] /\ (open[c] => open'[c])
  BY <1>4, <1>5, WitnessSays DEF GateInv
<1>9. Witnessed(q, entitled'[c], open'[c])
  BY <1>1, <1>3, <1>5, <1>8 DEF Witnessed
<1>10. QED
  BY <1>1, <1>4, <1>5, <1>6, <1>7, <1>9, CallKept

(* A status is shown of the token's sender's deliveries only.                *)
LEMMA FindDeliverySafe ==
  ASSUME GateInv, Witness, NEW c \in Calls, FindDelivery(c)
  PROVE  GateInv'
<1>1. AccountInv' /\ Grows /\ delivery' = delivery /\ call[c].pc = "find"
  BY TablesDuringCall DEF FindDelivery, On
<1>2. call[c].granted /\ call[c].scope = "status"
  BY <1>1, CallKnown DEF Trusted
<1>3. CASE Leave(c)
  BY <1>1, <1>3, LeaveSafe
<1>4. CASE Visible(c) /\ Goto(c, "answered")
  BY <1>1, <1>2, <1>4, GotoSafe DEF Steps, Visible
<1>5. QED
  BY <1>3, <1>4 DEF FindDelivery

-----------------------------------------------------------------------------
(* The invariant, and what it says.                                          *)

(* No account has anything when the API starts.                              *)
LEMMA GateInit == Init => GateInv
<1> SUFFICES ASSUME Init PROVE GateInv
  OBVIOUS
<1>1. AccountTypeOK
  <2>1. window \in [Accounts \cup Senders -> WindowRecords]
    BY DEF Init, AccountInit, Closed, WindowRecords
  <2>2. request \in [Requests -> RequestRecords]
    BY NoRequestSafe DEF Init, AccountInit
  <2>3. sender \in [Senders -> SenderRecords] /\ token \in [Tokens -> TokenRecords]
    BY DEF Init, AccountInit, SenderRecords, TokenRecords
  <2>4. QED
    BY <2>1, <2>2, <2>3, AccountTypes
<1>2. BoundInv /\ RequestsInv /\ WindowsInv
  <2>1. \A k \in Accounts \cup Senders : LimitOf(k) \in Nat
    BY AccountAssumption, GateAssumption DEF LimitOf
  <2>2. QED
    BY <2>1, NoRequestSafe DEF Init, AccountInit, BoundInv, RequestsInv, WindowsInv,
       WindowInv, Closed
<1>3. CapsHold
  <2>1. ASSUME NEW a \in Accounts, NEW op \in {"createSender", "createToken"}
        PROVE  Cleared(a, op) = {} /\ SendersOf(a) = {} /\ ActiveTokensOf(a) = {}
    BY AccountAssumption DEF Init, AccountInit, Cleared, NoRequest, SendersOf, ActiveTokensOf,
       AccountOf
  <2>2. Cardinality({}) = 0 /\ Cardinality(Requests) \in Nat
    BY FS_EmptySet, FS_CardinalityType, AccountAssumption
  <2>3. \A max \in Nat \ {0} : 0 + 0 <= max - 1 + Cardinality(Requests)
    BY <2>2
  <2>4. ASSUME NEW a \in Accounts
        PROVE  /\ Cardinality(SendersOf(a)) + Cardinality(Cleared(a, "createSender"))
                    <= MaxSenders - 1 + Cardinality(Requests)
               /\ Cardinality(ActiveTokensOf(a)) + Cardinality(Cleared(a, "createToken"))
                    <= MaxTokens - 1 + Cardinality(Requests)
    <3>1. /\ Cardinality(SendersOf(a)) = 0 /\ Cardinality(Cleared(a, "createSender")) = 0
          /\ Cardinality(ActiveTokensOf(a)) = 0 /\ Cardinality(Cleared(a, "createToken")) = 0
      BY <2>1, <2>2
    <3>2. QED
      BY <2>3, <3>1, AccountAssumption
  <2>5. QED
    BY <2>4 DEF CapsHold
<1>4. CallsInv
  <2>1. NoCall \in CallRecords
    BY DEF NoCall, CallRecords, Steps, Scopes
  <2>2. GateTypeOK
    <3>1. call \in [Calls -> CallRecords] /\ \A c \in Calls : call[c].pc = "idle"
      BY <2>1 DEF Init, NoCall
    <3>2. /\ delivery \in [Messages -> Senders \cup {None}]
          /\ entitled \in [Calls -> SUBSET Senders] /\ open \in [Calls -> BOOLEAN]
      BY DEF Init
    <3>3. QED
      BY <3>1, <3>2, GateTypes
  <2>3. QED
    BY <2>2 DEF Init, CallsInv, Trusted, Witnessed, NoCall
<1>5. QED
  BY <1>1, <1>2, <1>3, <1>4 DEF GateInv, AccountInv

(* Every step of a handler, a call or a window keeps the invariant.          *)
LEMMA GateStep == GateInv /\ [Next]_vars => GateInv' /\ (UNCHANGED vars \/ Grows)
<1> SUFFICES ASSUME GateInv, [Next]_vars PROVE GateInv' /\ (UNCHANGED vars \/ Grows)
  OBVIOUS
<1>1. CASE UNCHANGED vars
  <2>1. AccountInv'
    BY <1>1, TablesDuringCall DEF vars
  <2>2. CallsInv'
    BY <1>1 DEF vars, accountVars, gateVars, GateInv, CallsInv, GateTypeOK
  <2>3. QED
    BY <1>1, <2>1, <2>2 DEF GateInv
<1>2. CASE AccountStep /\ UNCHANGED gateVars /\ Witness
  BY <1>2, AccountStepSafe, AccountStepKeeps DEF GateInv
<1>3. ASSUME NEW c \in Calls, Serve(c), Witness PROVE GateInv' /\ Grows
  <2>1. Grows
    <3>1. UNCHANGED tables
      BY <1>3 DEF Serve, Ask, Verify, CheckScope, CheckRate, FindSender, InsertDelivery,
                  FindDelivery, End, accountVars, tables
    <3>2. QED
      BY <3>1, TablesSame DEF GateInv
  <2>2. CASE \E k \in Tokens : \/ Ask(c, "send", k, None)
                               \/ \E m \in Messages : Ask(c, "status", k, m)
    BY <1>3, <2>1, <2>2, AskSafe DEF Scopes
  <2>3. CASE End(c)
    <3>1. AccountInv' /\ Leave(c) /\ delivery' = delivery
      BY <2>3, TablesDuringCall DEF End
    <3>2. QED
      BY <1>3, <2>1, <3>1, LeaveSafe
  <2>4. QED
    BY <1>3, <2>1, <2>2, <2>3, VerifySafe, ScopeSafe, RateSafe, FindSenderSafe, InsertSafe,
       FindDeliverySafe DEF Serve
<1>4. QED
  BY <1>1, <1>2, <1>3 DEF Next

(* The invariant says what the run checks of a state.                        *)
LEMMA GateSays ==
  GateInv => TypeOK /\ CapsHold /\ AnswersAreAuthorized /\ ArchiveStopsCalls /\ LimiterKept
<1> SUFFICES ASSUME GateInv
             PROVE  AnswersAreAuthorized /\ ArchiveStopsCalls /\ LimiterKept
  BY DEF GateInv, AccountInv, CallsInv, TypeOK
<1>1. AnswersAreAuthorized /\ ArchiveStopsCalls
  BY DEF GateInv, CallsInv, Trusted, Witnessed, AnswersAreAuthorized, ArchiveStopsCalls, On
<1>2. LimiterKept
  <2>1. ASSUME NEW k \in Accounts \cup Senders
        PROVE  window[k].passed <= LimitOf(k) /\ (window[k].count > 0 => window[k].expires)
    <3>1. /\ window[k].passed \in Nat /\ window[k].count \in Nat /\ LimitOf(k) \in Nat
          /\ WindowInv(window[k], LimitOf(k))
      BY AccountTypes, AccountAssumption, GateAssumption
         DEF GateInv, AccountInv, WindowsInv, WindowRecords, LimitOf
    <3>2. QED
      BY <3>1 DEF WindowInv
  <2>2. QED
    BY <2>1 DEF LimiterKept
<1>3. QED
  BY <1>1, <1>2

(* The account API and the send gate keep the types of their state.          *)
THEOREM GateTypesHold == Spec => []TypeOK
BY GateInit, GateStep, GateSays, PTL DEF Spec

(* The caps on senders and active tokens are passed by concurrent creations  *)
(* only, and by one row for each of them but the first.                      *)
THEOREM Caps == Spec => []CapsHold
BY GateInit, GateStep, GateSays, PTL DEF Spec

(* An accepted send and a shown status were the token's to ask for.          *)
THEOREM Authorized == Spec => []AnswersAreAuthorized
BY GateInit, GateStep, GateSays, PTL DEF Spec

(* A sender archived before its limit check and not since gets no delivery.  *)
THEOREM ArchiveStops == Spec => []ArchiveStopsCalls
BY GateInit, GateStep, GateSays, PTL DEF Spec

(* The limiters of sends and connection tests let at most their limit pass.  *)
THEOREM Limiters == Spec => []LimiterKept
BY GateInit, GateStep, GateSays, PTL DEF Spec

(* No request moves a token to another account.                              *)
THEOREM TokensStay == Spec => TokensStayHome
<1> DEFINE Stay == \A k \in Tokens : AccountOf(k) # None => AccountOf(k)' = AccountOf(k)
<1>1. GateInv /\ [Next]_vars => [Stay]_vars
  <2>1. ASSUME Grows PROVE Stay
    BY <2>1 DEF Grows, Owner, AccountOf
  <2>2. QED
    BY <2>1, GateStep
<1>2. QED
  BY <1>1, GateInit, GateStep, PTL DEF Spec, TokensStayHome
=============================================================================
