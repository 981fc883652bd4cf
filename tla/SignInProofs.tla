----------------------------- MODULE SignInProofs -----------------------------
(***************************************************************************)
(* Sign-in is safe for any number of concurrent requests, users, accounts, *)
(* addresses and login states: homes, sessions, attempts and login states. *)
(***************************************************************************)
EXTENDS SignIn, TLAPS

(* What a request knows of the tables when it has come to a statement.  The  *)
(* tables are parameters: they are the ones before or after a step.          *)
Knows(r, hs, us, ls) ==
  /\ r.pc \notin {"idle", "take", "exchange"} => r.user \in Users
  /\ r.pc \in {"limitSet", "limitIncr"} => r.op \in {"register", "login"} /\ r.ip \in Ips
  /\ r.pc \in {"take", "exchange"} => r.state \in States /\ r.account = None
  /\ r.account # None => <<r.account, r.user>> \in hs
  /\ r.pc = "session" => r.account # None
  /\ r.inserted <=> r.pc \in {"insertMember", "commit"}
  /\ r.inserted => r.user \notin us
  /\ r.pc = "exchange" => ls[r.state].at = "taken" /\ ls[r.state].exchanged = 0

(* No two open transactions inserted the same user, and no two callbacks     *)
(* took the same state.                                                      *)
Apart(r, q) ==
  /\ r.inserted /\ q.inserted => r.user # q.user
  /\ r.pc = "exchange" /\ q.pc = "exchange" => r.state # q.state

HomesInv ==
  /\ \A u \in users : \E a \in Accounts : <<a, u>> \in homes
  /\ \A h \in homes : h[2] \in users
  /\ \A h, i \in homes : h[1] = i[1] \/ h[2] = i[2] => h = i

CallsInv ==
  /\ \A c \in Calls : Knows(call[c], homes, users, login)
  /\ \A c, d \in Calls : c # d => Apart(call[c], call[d])

WindowsInv ==
  \A k \in Keys : window[k].admitted <= window[k].count /\ window[k].count <= Maximum(k)

LoginsInv ==
  \A s \in States : /\ login[s].exchanged <= 1
                    /\ login[s].at # "taken" => login[s].exchanged = 0

SignInInv ==
  TypeOK /\ HomesInv /\ CallsInv /\ WindowsInv /\ LoginsInv /\ session \subseteq homes

-----------------------------------------------------------------------------
(* How a step changes the requests.                                          *)

(* Call c's record becomes r: nothing else of the requests changes.          *)
Becomes(c, r) == r \in CallRecords /\ call' = [call EXCEPT ![c] = r]

(* A new record of c, and new tables, keep what all requests know.           *)
LEMMA CallsKept ==
  ASSUME TypeOK, CallsInv, NEW c \in Calls, NEW r, Becomes(c, r), homes \subseteq homes',
         Knows(r, homes', users', login'),
         \A d \in Calls \ {c} :
           /\ Apart(r, call[d])
           /\ call[d].inserted => call[d].user \notin users'
           /\ call[d].pc = "exchange" => login'[call[d].state] = login[call[d].state]
  PROVE  CallsInv' /\ call' \in [Calls -> CallRecords]
<1>1. /\ call \in [Calls -> CallRecords] /\ call' = [call EXCEPT ![c] = r] /\ r \in CallRecords
  BY DEF TypeOK, Becomes
<1>2. call'[c] = r /\ \A d \in Calls \ {c} : call'[d] = call[d]
  BY <1>1
<1>3. ASSUME NEW d \in Calls PROVE Knows(call'[d], homes', users', login')
  <2>1. CASE d = c
    BY <1>2, <2>1
  <2>2. CASE d # c
    <3>1. Knows(call[d], homes, users, login)
      BY DEF CallsInv
    <3>2. QED
      BY <1>2, <2>2, <3>1 DEF Knows
  <2>3. QED
    BY <2>1, <2>2
<1>4. ASSUME NEW d \in Calls, NEW e \in Calls, d # e PROVE Apart(call'[d], call'[e])
  <2>1. Apart(call[d], call[e])
    BY <1>4 DEF CallsInv
  <2>2. QED
    BY <1>2, <1>4, <2>1 DEF Apart
<1>5. QED
  BY <1>1, <1>3, <1>4 DEF CallsInv

(* A record that neither inserts a user nor takes a state.                   *)
Quiet(c, r) ==
  /\ Becomes(c, r)
  /\ Knows(r, homes, users, login)
  /\ r.pc # "exchange"
  /\ r.inserted => call[c].inserted /\ r.user = call[c].user

(* The types of what is not a request, after a step.                         *)
TablesTyped ==
  /\ users \subseteq Users
  /\ homes \subseteq Accounts \X Users
  /\ window \in [Keys -> [count : Nat, expires : BOOLEAN, admitted : Nat]]
  /\ session \subseteq homes
  /\ login \in [States -> [at : {"new", "stored", "taken", "expired"}, exchanged : Nat]]

(* Typed tables, and requests that know, keep the type invariant.            *)
LEMMA TypesTogether ==
  ASSUME TablesTyped', CallsInv', call' \in [Calls -> CallRecords]
  PROVE  TypeOK'
<1>1. ASSUME NEW c \in Calls
      PROVE  /\ call'[c].pc \in {"insertUser", "insertMember", "commit"}
                  => call'[c].user \in Users
             /\ On(c, "session")' => <<call'[c].account, call'[c].user>> \in Accounts \X Users
  BY DEF TablesTyped, CallsInv, Knows, On
<1>2. session' \subseteq Accounts \X Users
  BY DEF TablesTyped
<1>3. QED
  BY <1>1, <1>2 DEF TypeOK, TablesTyped

(* What the invariant says of the types.                                     *)
LEMMA TypesApart == SignInInv => TablesTyped /\ call \in [Calls -> CallRecords]
BY DEF SignInInv, TablesTyped, TypeOK

(* A quiet step keeps the invariant if it keeps what it says of the windows  *)
(* and the sessions.                                                         *)
LEMMA QuietKeeps ==
  ASSUME SignInInv, NEW c \in Calls, NEW r, Quiet(c, r), UNCHANGED <<rows, login>>,
         window' \in [Keys -> [count : Nat, expires : BOOLEAN, admitted : Nat]],
         WindowsInv', session' \subseteq homes
  PROVE  SignInInv'
<1>1. /\ homes' = homes /\ users' = users /\ login' = login
      /\ HomesInv' /\ LoginsInv' /\ session' \subseteq homes'
  BY DEF rows, SignInInv, HomesInv, LoginsInv
<1>2. CallsInv' /\ call' \in [Calls -> CallRecords]
  <2>1. ASSUME NEW d \in Calls \ {c}
        PROVE  /\ Apart(r, call[d])
               /\ call[d].inserted => call[d].user \notin users'
    BY <1>1 DEF SignInInv, CallsInv, Apart, Knows, Quiet
  <2>2. TypeOK /\ CallsInv /\ Becomes(c, r) /\ Knows(r, homes', users', login')
    BY <1>1 DEF SignInInv, Quiet
  <2>3. QED
    BY <1>1, <2>1, <2>2, CallsKept
<1>3. TablesTyped'
  BY <1>1, TypesApart DEF TablesTyped
<1>4. TypeOK'
  BY <1>2, <1>3, TypesTogether
<1>5. QED
  BY <1>1, <1>2, <1>4 DEF SignInInv

(* Likewise when windows and sessions stay as they are.                      *)
LEMMA QuietKeepsAll ==
  ASSUME SignInInv, NEW c \in Calls, NEW r, Quiet(c, r), UNCHANGED <<rows, window, session, login>>
  PROVE  SignInInv'
<1>1. /\ UNCHANGED <<rows, login>>
      /\ window' \in [Keys -> [count : Nat, expires : BOOLEAN, admitted : Nat]]
      /\ WindowsInv' /\ session' \subseteq homes
  BY DEF SignInInv, TypeOK, WindowsInv
<1>2. QED
  BY <1>1, QuietKeeps

-----------------------------------------------------------------------------
(* The records that steps make.                                              *)

(* The record of no request is typed.                                        *)
LEMMA NoCallTyped == NoCall \in CallRecords
BY DEF NoCall, CallRecords

(* An answer leaves nothing behind.                                          *)
LEMMA LeaveQuiet ==
  ASSUME SignInInv, NEW c \in Calls, Leave(c)
  PROVE  Quiet(c, NoCall)
BY NoCallTyped DEF Leave, Quiet, Becomes, Knows, NoCall

(* Going on to a statement changes nothing else of the record.               *)
LEMMA GotoBecomes ==
  ASSUME SignInInv, NEW c \in Calls, NEW pc \in Statements, Goto(c, pc)
  PROVE  \E r \in CallRecords :
           /\ Becomes(c, r)
           /\ r.pc = pc /\ r.op = call[c].op /\ r.ip = call[c].ip /\ r.state = call[c].state
           /\ r.user = call[c].user /\ r.account = call[c].account
           /\ r.inserted = call[c].inserted
<1> DEFINE r == [call[c] EXCEPT !.pc = pc]
<1>1. call \in [Calls -> CallRecords] /\ call[c] \in CallRecords
  BY DEF SignInInv, TypeOK
<1>2. r \in CallRecords
  BY <1>1 DEF CallRecords
<1>3. call' = [call EXCEPT ![c] = r]
  BY <1>1 DEF Goto
<1>4. QED
  BY <1>1, <1>2, <1>3 DEF Becomes, CallRecords

(* Going on between statements that insert nothing and take no state, with   *)
(* the user known, and to the session only with the account known.           *)
LEMMA QuietGoto ==
  ASSUME SignInInv, NEW c \in Calls, NEW pc \in Statements \ {"take", "exchange"}, Goto(c, pc),
         call[c].user \in Users,
         pc \in {"limitSet", "limitIncr"} => call[c].op \in {"register", "login"} /\ call[c].ip \in Ips,
         pc = "session" => call[c].account # None,
         call[c].inserted <=> pc \in {"insertMember", "commit"}
  PROVE  \E r : Quiet(c, r)
<1>1. PICK r \in CallRecords :
        /\ Becomes(c, r)
        /\ r.pc = pc /\ r.op = call[c].op /\ r.ip = call[c].ip /\ r.state = call[c].state
        /\ r.user = call[c].user /\ r.account = call[c].account
        /\ r.inserted = call[c].inserted
  BY GotoBecomes
<1>2. Knows(call[c], homes, users, login)
  BY DEF SignInInv, CallsInv
<1>3. Knows(r, homes, users, login)
  BY <1>1, <1>2 DEF Knows
<1>4. QED
  BY <1>1, <1>3 DEF Quiet

-----------------------------------------------------------------------------
(* The steps that change only the request, the windows or the sessions.      *)

(* A new request knows nothing but what it was sent.                         *)
LEMMA ReceiveKeeps ==
  ASSUME SignInInv, NEW c \in Calls, Request(c)
  PROVE  SignInInv'
<1>1. ASSUME NEW op \in Operations, NEW pc \in Statements \ {"exchange", "session"},
             NEW u \in Users \cup {None}, NEW ip \in Ips \cup {None},
             NEW s \in States \cup {None}, Receive(c, op, pc, u, ip, s),
             Knows([NoCall EXCEPT !.op = op, !.pc = pc, !.user = u, !.ip = ip, !.state = s],
                   homes, users, login),
             pc \notin {"insertMember", "commit"}
      PROVE  SignInInv'
  <2> DEFINE r == [NoCall EXCEPT !.op = op, !.pc = pc, !.user = u, !.ip = ip, !.state = s]
  <2>1. r \in CallRecords
    BY DEF NoCall, CallRecords
  <2>2. Quiet(c, r) /\ UNCHANGED <<rows, window, session, login>>
    BY <1>1, <2>1 DEF Receive, Quiet, Becomes, NoCall
  <2>3. QED
    BY <2>2, QuietKeepsAll
<1>2. ASSUME NEW u \in Emails, NEW ip \in Ips, NEW op \in {"register", "login"},
             Receive(c, op, "limitSet", u, ip, None)
      PROVE  SignInInv'
  BY <1>1, <1>2 DEF Users, Operations, Statements, Knows, NoCall
<1>3. ASSUME NEW s \in States, Receive(c, "callback", "take", None, None, s)
      PROVE  SignInInv'
  BY <1>1, <1>3 DEF Operations, Statements, Knows, NoCall
<1>4. ASSUME NEW u \in Profiles \cap users, Receive(c, "resume", "findUser", u, None, None)
      PROVE  SignInInv'
  BY <1>1, <1>4 DEF Users, Operations, Statements, Knows, NoCall
<1>5. QED
  BY <1>2, <1>3, <1>4 DEF Request

(* The limiter counts at least what it admits.                               *)
LEMMA LimitKeeps ==
  ASSUME SignInInv, NEW c \in Calls, LimitSet(c) \/ LimitIncr(c)
  PROVE  SignInInv'
<1> DEFINE k == Key(c)
<1>1. /\ k \in Keys /\ window \in [Keys -> [count : Nat, expires : BOOLEAN, admitted : Nat]]
      /\ call[c].user \in Users /\ ~call[c].inserted
      /\ call[c].op \in {"register", "login"} /\ call[c].ip \in Ips
  BY DEF SignInInv, TypeOK, CallsInv, Knows, LimitSet, LimitIncr, On, Key, Keys
<1>2. Maximum(k) \in Nat \ {0}
  BY SignInAssumption DEF Maximum
<1>3. ASSUME NEW pc \in {"limitIncr", Admitted(c)}, Goto(c, pc)
      PROVE  \E r : Quiet(c, r)
  <2>1. pc \in Statements \ {"take", "exchange", "session", "insertMember", "commit", "limitSet"}
    BY DEF Admitted, Statements
  <2>2. QED
    BY <1>1, <1>3, <2>1, QuietGoto
<1>4. (\E r : Quiet(c, r)) /\ UNCHANGED <<rows, session, login>>
  BY <1>3, LeaveQuiet DEF LimitSet, LimitIncr
<1>5. ASSUME NEW w \in [count : Nat, expires : BOOLEAN, admitted : Nat],
             window' = [window EXCEPT ![k] = w],
             w.admitted <= w.count, w.count <= Maximum(k)
      PROVE  SignInInv'
  <2>1. window' \in [Keys -> [count : Nat, expires : BOOLEAN, admitted : Nat]]
    BY <1>1, <1>5
  <2>2. \A i \in Keys : window'[i] = IF i = k THEN w ELSE window[i]
    BY <1>1, <1>5
  <2>3. WindowsInv'
    BY <1>5, <2>2 DEF SignInInv, WindowsInv, Maximum
  <2>4. session' \subseteq homes /\ UNCHANGED <<rows, login>>
    BY <1>4 DEF SignInInv
  <2>5. QED
    BY <1>4, <2>1, <2>3, <2>4, QuietKeeps
<1>6. CASE LimitSet(c)
  <2>1. CASE UNCHANGED window
    BY <1>4, <2>1, QuietKeepsAll
  <2>2. CASE window' = [window EXCEPT ![Key(c)] = [count |-> 1, expires |-> TRUE, admitted |-> 1]]
    <3> DEFINE w == [count |-> 1, expires |-> TRUE, admitted |-> 1]
    <3>1. w \in [count : Nat, expires : BOOLEAN, admitted : Nat]
      OBVIOUS
    <3>2. w.admitted <= w.count /\ w.count <= Maximum(k)
      BY <1>2
    <3>3. window' = [window EXCEPT ![k] = w]
      BY <2>2
    <3> HIDE DEF w, k
    <3>4. QED
      BY <1>5, <3>1, <3>2, <3>3
  <2>3. QED
    BY <1>6, <2>1, <2>2 DEF LimitSet
<1>7. CASE LimitIncr(c)
  <2> DEFINE n == window[k].count
             m == IF n < Maximum(k) THEN n + 1 ELSE n
  <2>1. /\ n \in Nat /\ window[k].admitted \in Nat
        /\ window[k].admitted <= n /\ n <= Maximum(k)
    BY <1>1 DEF SignInInv, WindowsInv
  <2>2. ASSUME NEW more \in {0, 1}, more = 1 => n + 1 <= Maximum(k),
               window' = [window EXCEPT ![k].count = m, ![k].admitted = @ + more]
        PROVE  SignInInv'
    <3> DEFINE w == [window[k] EXCEPT !.count = m, !.admitted = @ + more]
    <3>1. w \in [count : Nat, expires : BOOLEAN, admitted : Nat]
      <4>1. window[k] \in [count : Nat, expires : BOOLEAN, admitted : Nat]
        BY <1>1
      <4>2. m \in Nat /\ window[k].admitted + more \in Nat
        BY <2>1
      <4> HIDE DEF m, k
      <4>3. QED
        BY <4>1, <4>2
    <3>2. window' = [window EXCEPT ![k] = w]
      BY <1>1, <2>2
    <3>3. w.admitted <= w.count /\ w.count <= Maximum(k)
      BY <1>1, <1>2, <2>1, <2>2
    <3>4. QED
      BY <1>5, <3>1, <3>2, <3>3
  <2>3. QED
    BY <1>7, <2>2 DEF LimitIncr, Allows
<1>8. QED
  BY <1>6, <1>7

(* Logins read the tables; the session that follows is of a stored identity. *)
LEMMA LoginKeeps ==
  ASSUME SignInInv, NEW c \in Calls,
         FindCredential(c) \/ VerifyPassword(c) \/ RecoveryIdentity(c) \/ CreateSession(c)
  PROVE  SignInInv'
<1>1. /\ call \in [Calls -> CallRecords] /\ call[c] \in CallRecords
      /\ homes \subseteq Accounts \X Users
      /\ Knows(call[c], homes, users, login)
      /\ call[c].pc \in {"findCredential", "verify", "recovery", "session"}
  BY DEF SignInInv, TypeOK, CallsInv, FindCredential, VerifyPassword, RecoveryIdentity,
         CreateSession, On
<1>2. call[c].user \in Users /\ ~call[c].inserted
  BY <1>1 DEF Knows
<1>4. CASE FindCredential(c)
  <2>1. ASSUME NEW a \in HomeOf(call[c].user),
               call' = [call EXCEPT ![c].pc = "verify", ![c].account = a]
        PROVE  \E r : Quiet(c, r)
    <3> DEFINE r == [call[c] EXCEPT !.pc = "verify", !.account = a]
    <3>1. a \in Accounts /\ <<a, call[c].user>> \in homes
      BY DEF HomeOf
    <3>2. call' = [call EXCEPT ![c] = r] /\ r \in CallRecords
      BY <1>1, <2>1, <3>1 DEF CallRecords, Statements
    <3>3. Knows(r, homes, users, login)
      BY <1>1, <1>2, <3>1 DEF Knows, CallRecords
    <3>4. QED
      BY <1>1, <1>2, <3>2, <3>3 DEF Quiet, Becomes, CallRecords
  <2>2. Goto(c, "verify") => \E r : Quiet(c, r)
    BY <1>2, QuietGoto DEF Statements
  <2>3. QED
    BY <1>4, <2>1, <2>2, QuietKeepsAll DEF FindCredential
<1>5. CASE VerifyPassword(c)
  BY <1>2, <1>5, QuietGoto, QuietKeepsAll DEF VerifyPassword, Statements
<1>6. CASE RecoveryIdentity(c)
  <2>1. ASSUME NEW a \in HomeOf(Recovery),
               call' = [call EXCEPT ![c].pc = "session", ![c].user = Recovery, ![c].account = a]
        PROVE  \E r : Quiet(c, r)
    <3> DEFINE r == [call[c] EXCEPT !.pc = "session", !.user = Recovery, !.account = a]
    <3>1. a \in Accounts /\ <<a, Recovery>> \in homes /\ Recovery \in Users /\ a # None
      BY SignInAssumption DEF HomeOf, Users
    <3>2. call' = [call EXCEPT ![c] = r] /\ r \in CallRecords
      BY <1>1, <2>1, <3>1 DEF CallRecords, Statements
    <3>3. Knows(r, homes, users, login)
      BY <1>1, <1>2, <3>1 DEF Knows, CallRecords
    <3>4. QED
      BY <1>1, <1>2, <3>2, <3>3 DEF Quiet, Becomes, CallRecords
  <2>2. QED
    BY <1>6, <2>1, LeaveQuiet, QuietKeepsAll DEF RecoveryIdentity
<1>7. CASE CreateSession(c)
  <2>1. <<call[c].account, call[c].user>> \in homes
    BY <1>1, <1>7 DEF Knows, CreateSession, On
  <2>2. Quiet(c, NoCall) /\ session' \subseteq homes /\ UNCHANGED <<rows, window, login>>
    BY <1>7, <2>1, LeaveQuiet DEF CreateSession, SignInInv
  <2>3. /\ window' \in [Keys -> [count : Nat, expires : BOOLEAN, admitted : Nat]]
        /\ WindowsInv' /\ UNCHANGED <<rows, login>>
    BY <2>2 DEF SignInInv, TypeOK, WindowsInv
  <2>4. QED
    BY <2>2, <2>3, QuietKeeps
<1>8. QED
  BY <1>4, <1>5, <1>6, <1>7

(* Ends of sessions and of limiter windows take away only.                   *)
LEMMA RedisKeeps ==
  ASSUME SignInInv, \/ \E i \in session : EndSession(i)
                    \/ \E k \in Keys : WindowEnds(k)
  PROVE  SignInInv'
<1>1. UNCHANGED <<rows, call, login>> /\ session' \subseteq session
  BY DEF EndSession, WindowEnds
<1>2. /\ window' \in [Keys -> [count : Nat, expires : BOOLEAN, admitted : Nat]]
      /\ WindowsInv'
  <2>1. CASE UNCHANGED window
    BY <2>1 DEF SignInInv, TypeOK, WindowsInv
  <2>2. CASE \E k \in Keys : WindowEnds(k)
    <3>1. PICK k \in Keys : window' = [window EXCEPT ![k] = Closed]
      BY <2>2 DEF WindowEnds
    <3>2. Closed \in [count : Nat, expires : BOOLEAN, admitted : Nat]
      BY DEF Closed
    <3>3. \A i \in Keys : window'[i] = IF i = k THEN Closed ELSE window[i]
      BY <3>1 DEF SignInInv, TypeOK
    <3>4. \A i \in Keys : Maximum(i) \in Nat
      BY SignInAssumption DEF Maximum
    <3>5. WindowsInv'
      BY <3>3, <3>4 DEF SignInInv, WindowsInv, Closed, Maximum
    <3>6. QED
      BY <3>1, <3>2, <3>5 DEF SignInInv, TypeOK
  <2>3. QED
    BY <2>1, <2>2 DEF EndSession
<1>3. QED
  BY <1>1, <1>2 DEF SignInInv, TypeOK, HomesInv, CallsInv, LoginsInv, rows, On

-----------------------------------------------------------------------------
(* The steps of WorkOS.                                                      *)

(* States are stored and expire before they are taken.                       *)
LEMMA StateKeeps ==
  ASSUME SignInInv, NEW s \in States, StoreState(s) \/ StateExpires(s)
  PROVE  SignInInv'
<1>1. PICK at \in {"stored", "expired"} : login' = [login EXCEPT ![s].at = at]
  BY DEF StoreState, StateExpires
<1>2. /\ login[s].at # "taken" /\ UNCHANGED <<rows, call, window, session>>
      /\ login \in [States -> [at : {"new", "stored", "taken", "expired"}, exchanged : Nat]]
  BY DEF StoreState, StateExpires, SignInInv, TypeOK
<1>3. /\ login' \in [States -> [at : {"new", "stored", "taken", "expired"}, exchanged : Nat]]
      /\ \A t \in States \ {s} : login'[t] = login[t]
      /\ login'[s].at = at /\ login'[s].exchanged = login[s].exchanged
  BY <1>1, <1>2
<1>4. LoginsInv'
  BY <1>2, <1>3 DEF SignInInv, LoginsInv
<1>5. CallsInv'
  <2>1. ASSUME NEW c \in Calls PROVE Knows(call[c], homes, users, login')
    BY <1>2, <1>3 DEF SignInInv, CallsInv, Knows
  <2>2. QED
    BY <1>2, <2>1 DEF SignInInv, CallsInv, rows
<1>6. TypeOK'
  BY <1>2, <1>3 DEF SignInInv, TypeOK, rows, On
<1>7. QED
  BY <1>2, <1>4, <1>5, <1>6 DEF SignInInv, HomesInv, WindowsInv, rows

(* A state is taken by one callback, which alone exchanges it.               *)
LEMMA TakeKeeps ==
  ASSUME SignInInv, NEW c \in Calls, TakeState(c)
  PROVE  SignInInv'
<1> DEFINE s == call[c].state
<1>1. CASE Leave(c) /\ UNCHANGED login
  BY <1>1, LeaveQuiet, QuietKeepsAll DEF TakeState
<1>2. CASE login[s].at = "stored" /\ login' = [login EXCEPT ![s].at = Taken] /\ Goto(c, "exchange")
  <2>1. /\ Knows(call[c], homes, users, login) /\ call[c].pc = "take" /\ s \in States
        /\ login \in [States -> [at : {"new", "stored", "taken", "expired"}, exchanged : Nat]]
        /\ UNCHANGED <<rows, window, session>>
    BY DEF TakeState, On, SignInInv, TypeOK, CallsInv, Knows
  <2>2. PICK r \in CallRecords :
          /\ Becomes(c, r)
          /\ r.pc = "exchange" /\ r.op = call[c].op /\ r.ip = call[c].ip /\ r.state = s
          /\ r.user = call[c].user /\ r.account = call[c].account
          /\ r.inserted = call[c].inserted
    BY <1>2, GotoBecomes DEF Statements
  <2>3. /\ login' \in [States -> [at : {"new", "stored", "taken", "expired"}, exchanged : Nat]]
        /\ \A t \in States \ {s} : login'[t] = login[t]
        /\ login'[s].at = "taken" /\ login'[s].exchanged = login[s].exchanged
        /\ login[s].exchanged = 0
    BY <1>2, <2>1 DEF Taken, SignInInv, LoginsInv
  <2>4. Knows(r, homes', users', login')
    BY <2>1, <2>2, <2>3 DEF Knows, rows
  <2>5. ASSUME NEW d \in Calls \ {c}
        PROVE  /\ Apart(r, call[d])
               /\ call[d].inserted => call[d].user \notin users'
               /\ call[d].pc = "exchange" => login'[call[d].state] = login[call[d].state]
    <3>1. Knows(call[d], homes, users, login)
      BY DEF SignInInv, CallsInv
    <3>2. call[d].pc = "exchange" => call[d].state # s
      BY <1>2, <3>1 DEF Knows
    <3>3. ~r.inserted
      BY <2>1, <2>2 DEF Knows
    <3>4. QED
      BY <2>1, <2>2, <2>3, <3>1, <3>2, <3>3 DEF Knows, Apart, rows
  <2>6. CallsInv' /\ call' \in [Calls -> CallRecords]
    <3>1. TypeOK /\ CallsInv /\ homes \subseteq homes'
      BY <2>1 DEF SignInInv, rows
    <3>2. QED
      BY <2>2, <2>4, <2>5, <3>1, CallsKept
  <2>7. TablesTyped'
    BY <2>1, <2>3, TypesApart DEF TablesTyped, rows
  <2>8. TypeOK'
    BY <2>6, <2>7, TypesTogether
  <2>9. QED
    BY <2>1, <2>3, <2>6, <2>8 DEF SignInInv, HomesInv, WindowsInv, LoginsInv, rows
<1>3. QED
  BY <1>1, <1>2 DEF TakeState

(* The callback that took a state exchanges it for a user, or leaves.        *)
LEMMA ExchangeKeeps ==
  ASSUME SignInInv, NEW c \in Calls, Exchange(c)
  PROVE  SignInInv'
<1> DEFINE s == call[c].state
<1>1. /\ Knows(call[c], homes, users, login) /\ call[c].pc = "exchange" /\ s \in States
      /\ login \in [States -> [at : {"new", "stored", "taken", "expired"}, exchanged : Nat]]
      /\ login' = [login EXCEPT ![s].exchanged = @ + 1]
      /\ UNCHANGED <<rows, window, session>>
      /\ call[c] \in CallRecords /\ call \in [Calls -> CallRecords]
  BY DEF Exchange, On, SignInInv, TypeOK, CallsInv, Knows
<1>2. login[s].at = "taken" /\ login[s].exchanged = 0
  BY <1>1 DEF Knows
<1>3. /\ login' \in [States -> [at : {"new", "stored", "taken", "expired"}, exchanged : Nat]]
      /\ \A t \in States \ {s} : login'[t] = login[t]
      /\ login'[s].at = "taken" /\ login'[s].exchanged = 1
  BY <1>1, <1>2
<1>4. \E r \in CallRecords :
        /\ Becomes(c, r) /\ Knows(r, homes', users', login')
        /\ r.pc # "exchange" /\ ~r.inserted
  <2>1. CASE Leave(c)
    BY <2>1, LeaveQuiet DEF Quiet, Becomes, Knows, NoCall
  <2>2. ASSUME NEW u \in Profiles, call' = [call EXCEPT ![c].pc = "findUser", ![c].user = u]
        PROVE  \E r \in CallRecords :
                 /\ Becomes(c, r) /\ Knows(r, homes', users', login')
                 /\ r.pc # "exchange" /\ ~r.inserted
    <3> DEFINE r == [call[c] EXCEPT !.pc = "findUser", !.user = u]
    <3>1. /\ r \in CallRecords /\ r.pc = "findUser" /\ r.user = u /\ u \in Users
          /\ r.account = call[c].account /\ r.inserted = call[c].inserted
      BY <1>1 DEF CallRecords, Statements, Users
    <3>2. call' = [call EXCEPT ![c] = r]
      BY <1>1, <2>2
    <3>3. call[c].account = None /\ ~call[c].inserted
      BY <1>1 DEF Knows
    <3> HIDE DEF r
    <3>4. Knows(r, homes', users', login')
      BY <3>1, <3>3 DEF Knows
    <3>5. QED
      BY <3>1, <3>2, <3>3, <3>4 DEF Becomes
  <2>3. QED
    BY <2>1, <2>2 DEF Exchange
<1>5. PICK r \in CallRecords :
        /\ Becomes(c, r) /\ Knows(r, homes', users', login')
        /\ r.pc # "exchange" /\ ~r.inserted
  BY <1>4
<1>6. ASSUME NEW d \in Calls \ {c}
      PROVE  /\ Apart(r, call[d])
             /\ call[d].inserted => call[d].user \notin users'
             /\ call[d].pc = "exchange" => login'[call[d].state] = login[call[d].state]
  <2>1. Knows(call[d], homes, users, login) /\ Apart(call[c], call[d])
    BY DEF SignInInv, CallsInv
  <2>2. call[d].pc = "exchange" => call[d].state # s /\ call[d].state \in States
    BY <1>1, <2>1 DEF Knows, Apart
  <2>3. QED
    BY <1>1, <1>3, <1>5, <2>1, <2>2 DEF Knows, Apart, rows
<1>7. CallsInv' /\ call' \in [Calls -> CallRecords]
  <2>1. TypeOK /\ CallsInv /\ homes \subseteq homes'
    BY <1>1 DEF SignInInv, rows
  <2>2. QED
    BY <1>5, <1>6, <2>1, CallsKept
<1>8. TypeOK'
  <2>1. TablesTyped'
    BY <1>1, <1>3, TypesApart DEF TablesTyped, rows
  <2>2. QED
    BY <1>7, <2>1, TypesTogether
<1>9. LoginsInv'
  BY <1>3 DEF SignInInv, LoginsInv
<1>10. QED
  BY <1>1, <1>7, <1>8, <1>9 DEF SignInInv, HomesInv, WindowsInv, rows

-----------------------------------------------------------------------------
(* The transaction that stores a user with an account.                       *)

(* Looking up, inserting the account and the membership change no table, and *)
(* neither does a failure.                                                   *)
LEMMA QuietSteps ==
  ASSUME SignInInv, NEW c \in Calls,
         FindUser(c) \/ InsertAccount(c) \/ InsertMember(c) \/ Fail(c)
  PROVE  SignInInv'
<1>1. UNCHANGED <<rows, window, session, login>>
  BY DEF FindUser, InsertAccount, InsertMember, Fail
<1>2. Knows(call[c], homes, users, login)
  BY DEF SignInInv, CallsInv
<1>3. \E r : Quiet(c, r)
  <2>1. CASE FindUser(c)
    BY <1>2, <2>1, LeaveQuiet, QuietGoto DEF FindUser, On, Knows, Statements
  <2>2. CASE InsertAccount(c)
    BY <1>2, <2>2, QuietGoto DEF InsertAccount, On, Knows, Statements
  <2>3. CASE InsertMember(c)
    BY <1>2, <2>3, QuietGoto DEF InsertMember, AfterMember, On, Knows, Statements
  <2>4. CASE Fail(c)
    BY <2>4, LeaveQuiet DEF Fail
  <2>5. QED
    BY <2>1, <2>2, <2>3, <2>4
<1>4. QED
  BY <1>1, <1>3, QuietKeepsAll

(* An insert waits for every open transaction with the same user, and fails  *)
(* on a stored one.                                                          *)
LEMMA InsertKeeps ==
  ASSUME SignInInv, NEW c \in Calls, InsertUser(c)
  PROVE  SignInInv'
<1>1. /\ Knows(call[c], homes, users, login) /\ call[c].pc = "insertUser"
      /\ call[c] \in CallRecords /\ call \in [Calls -> CallRecords]
      /\ UNCHANGED <<rows, window, session, login>>
  BY DEF InsertUser, On, SignInInv, TypeOK, CallsInv
<1>2. CASE Leave(c)
  BY <1>1, <1>2, LeaveQuiet, QuietKeepsAll
<1>3. CASE /\ call[c].user \notin users
           /\ call' = [call EXCEPT ![c].pc = "insertMember", ![c].inserted = TRUE]
  <2> DEFINE r == [call[c] EXCEPT !.pc = "insertMember", !.inserted = TRUE]
  <2>1. /\ r \in CallRecords /\ r.pc = "insertMember" /\ r.inserted
        /\ r.user = call[c].user /\ r.account = call[c].account
    BY <1>1 DEF CallRecords, Statements
  <2>2. Becomes(c, r)
    BY <1>1, <1>3, <2>1 DEF Becomes
  <2> HIDE DEF r
  <2>3. Knows(r, homes', users', login')
    BY <1>1, <1>3, <2>1 DEF Knows, rows
  <2>4. ASSUME NEW d \in Calls \ {c}
        PROVE  /\ Apart(r, call[d])
               /\ call[d].inserted => call[d].user \notin users'
               /\ call[d].pc = "exchange" => login'[call[d].state] = login[call[d].state]
    <3>1. Knows(call[d], homes, users, login)
      BY DEF SignInInv, CallsInv
    <3>2. call[d].inserted => call[d].user # call[c].user
      BY DEF InsertUser, Holders
    <3>3. QED
      BY <1>1, <2>1, <3>1, <3>2 DEF Knows, Apart, rows
  <2>5. CallsInv' /\ call' \in [Calls -> CallRecords]
    <3>1. TypeOK /\ CallsInv /\ homes \subseteq homes'
      BY <1>1 DEF SignInInv, rows
    <3>2. QED
      BY <2>2, <2>3, <2>4, <3>1, CallsKept
  <2>6. TypeOK'
    <3>1. TablesTyped'
      BY <1>1, TypesApart DEF TablesTyped, rows
    <3>2. QED
      BY <2>5, <3>1, TypesTogether
  <2>7. QED
    BY <1>1, <2>5, <2>6 DEF SignInInv, HomesInv, WindowsInv, LoginsInv, rows
<1>4. QED
  BY <1>2, <1>3 DEF InsertUser

(* A commit stores one new user, with an account nobody has.                 *)
LEMMA CommitKeeps ==
  ASSUME SignInInv, NEW c \in Calls, Commit(c)
  PROVE  SignInInv'
<1> DEFINE u == call[c].user
           a == CHOOSE b \in Fresh : TRUE
<1>1. /\ Knows(call[c], homes, users, login) /\ call[c].pc = "commit"
      /\ call[c] \in CallRecords /\ call \in [Calls -> CallRecords]
      /\ users' = users \cup {u} /\ homes' = homes \cup {<<a, u>>}
      /\ UNCHANGED <<window, session, login>>
  BY DEF Commit, On, SignInInv, TypeOK, CallsInv
<1>2. call[c].inserted /\ u \notin users /\ u \in Users
  BY <1>1 DEF Knows
<1>3. a \in Accounts /\ a # None /\ \A v \in Users : <<a, v>> \notin homes
  <2>1. a \in Fresh
    BY DEF Commit
  <2>2. QED
    BY <2>1, SignInAssumption DEF Fresh
<1>4. PICK r \in CallRecords : /\ Becomes(c, r) /\ Knows(r, homes', users', login')
                               /\ r.pc # "exchange" /\ ~r.inserted
  <2>1. CASE Leave(c)
    BY <2>1, LeaveQuiet DEF Quiet, Becomes, Knows, NoCall
  <2>2. CASE call' = [call EXCEPT ![c].pc = "session", ![c].account = a, ![c].inserted = FALSE]
    <3> DEFINE q == [call[c] EXCEPT !.pc = "session", !.account = a, !.inserted = FALSE]
    <3> HIDE DEF a
    <3>1. /\ q \in CallRecords /\ q.pc = "session" /\ q.account = a /\ ~q.inserted
          /\ q.user = u
      BY <1>1, <1>3 DEF CallRecords, Statements
    <3>2. call' = [call EXCEPT ![c] = q]
      BY <1>1, <2>2
    <3> HIDE DEF q
    <3>3. Knows(q, homes', users', login')
      BY <1>1, <1>2, <1>3, <3>1 DEF Knows
    <3>4. QED
      BY <3>1, <3>2, <3>3 DEF Becomes
  <2>3. QED
    BY <2>1, <2>2 DEF Commit
<1> HIDE DEF a
<1>5. ASSUME NEW d \in Calls \ {c}
      PROVE  /\ Apart(r, call[d])
             /\ call[d].inserted => call[d].user \notin users'
             /\ call[d].pc = "exchange" => login'[call[d].state] = login[call[d].state]
  <2>1. Knows(call[d], homes, users, login) /\ Apart(call[c], call[d])
    BY DEF SignInInv, CallsInv
  <2>2. QED
    BY <1>1, <1>2, <1>4, <2>1 DEF Knows, Apart
<1>6. CallsInv' /\ call' \in [Calls -> CallRecords]
  <2>1. TypeOK /\ CallsInv /\ homes \subseteq homes'
    BY <1>1 DEF SignInInv
  <2>2. QED
    BY <1>4, <1>5, <2>1, CallsKept
<1>7. TypeOK' /\ session' \subseteq homes'
  <2>1. TablesTyped'
    BY <1>1, <1>2, <1>3, TypesApart DEF TablesTyped
  <2>2. QED
    BY <1>6, <2>1, TypesTogether DEF TablesTyped
<1>8. HomesInv'
  <2>1. homes \subseteq Accounts \X Users /\ HomesInv
    BY DEF SignInInv, TypeOK
  <2>2. \A h \in homes : h = <<h[1], h[2]>> /\ h[2] \in Users
    BY <2>1
  <2>3. \A h \in homes : h[1] # a /\ h[2] # u
    BY <1>2, <1>3, <2>1, <2>2 DEF HomesInv
  <2>4. \A v \in users' : \E b \in Accounts : <<b, v>> \in homes'
    BY <1>1, <1>3, <2>1 DEF HomesInv
  <2>5. \A h \in homes' : h[2] \in users'
    BY <1>1, <2>1 DEF HomesInv
  <2>6. ASSUME NEW h \in homes', NEW i \in homes', h[1] = i[1] \/ h[2] = i[2]
        PROVE  h = i
    <3>1. CASE h \in homes /\ i \in homes
      BY <2>1, <2>6, <3>1 DEF HomesInv
    <3>2. CASE h = <<a, u>> \/ i = <<a, u>>
      BY <1>1, <2>3, <2>6, <3>2
    <3>3. QED
      BY <1>1, <3>1, <3>2
  <2>7. QED
    BY <2>4, <2>5, <2>6 DEF HomesInv
<1>9. QED
  BY <1>1, <1>6, <1>7, <1>8 DEF SignInInv, WindowsInv, LoginsInv

-----------------------------------------------------------------------------
(* The invariant, and what it says.                                          *)

(* Nothing but the imported user is stored when the API starts.              *)
LEMMA InitSafe == Init => SignInInv
<1> SUFFICES ASSUME Init PROVE SignInInv
  OBVIOUS
<1> DEFINE a == CHOOSE b \in Accounts : TRUE
<1>1. a \in Accounts /\ Recovery \in Users
  BY SignInAssumption DEF Users
<1>2. \/ users = {} /\ homes = {}
      \/ users = {Recovery} /\ homes = {<<a, Recovery>>}
  BY DEF Init
<1> HIDE DEF a
<1>3. HomesInv /\ users \subseteq Users /\ homes \subseteq Accounts \X Users
  BY <1>1, <1>2 DEF HomesInv
<1>4. CallsInv /\ call \in [Calls -> CallRecords]
  BY NoCallTyped DEF Init, CallsInv, Knows, Apart, NoCall
<1>5. window \in [Keys -> [count : Nat, expires : BOOLEAN, admitted : Nat]] /\ WindowsInv
  <2>1. \A k \in Keys : Maximum(k) \in Nat
    BY SignInAssumption DEF Maximum
  <2>2. QED
    BY <2>1 DEF Init, Closed, WindowsInv
<1>6. /\ login \in [States -> [at : {"new", "stored", "taken", "expired"}, exchanged : Nat]]
      /\ LoginsInv
  BY DEF Init, LoginsInv
<1>7. session \subseteq homes
  BY DEF Init
<1>8. TypeOK
  BY <1>3, <1>4, <1>5, <1>6, <1>7 DEF TypeOK, Init, NoCall, On
<1>9. QED
  BY <1>3, <1>4, <1>5, <1>6, <1>7, <1>8 DEF SignInInv

(* Every step of a handler, of Redis or of a failure keeps the invariant.    *)
LEMMA StepSafe == SignInInv /\ [Next]_vars => SignInInv'
<1> SUFFICES ASSUME SignInInv, [Next]_vars PROVE SignInInv'
  OBVIOUS
<1>1. CASE UNCHANGED vars
  BY <1>1 DEF vars, SignInInv, TypeOK, HomesInv, CallsInv, WindowsInv, LoginsInv, On
<1>2. CASE Redis
  BY <1>2, RedisKeeps, StateKeeps DEF Redis
<1>3. ASSUME NEW c \in Calls, Request(c) \/ Step(c) \/ Fail(c)
      PROVE  SignInInv'
  BY <1>3, ReceiveKeeps, LimitKeeps, LoginKeeps, TakeKeeps, ExchangeKeeps, QuietSteps,
     InsertKeeps, CommitKeeps DEF Step
<1>4. QED
  BY <1>1, <1>2, <1>3 DEF Next

(* The invariant says all that the runs check of a state.                    *)
LEMMA SafeSays ==
  SignInInv => TypeOK /\ OneHome /\ SessionsHaveAHome /\ AttemptsBounded /\ StateUsedOnce
<1> SUFFICES ASSUME SignInInv
             PROVE  OneHome /\ SessionsHaveAHome /\ AttemptsBounded /\ StateUsedOnce
  BY DEF SignInInv
<1>1. OneHome
  <2>1. ASSUME NEW u \in users PROVE \E a \in Accounts : HomeOf(u) = {a}
    <3>1. PICK a \in Accounts : <<a, u>> \in homes
      BY DEF SignInInv, HomesInv
    <3>2. \A b \in HomeOf(u) : b = a
      BY <3>1 DEF SignInInv, HomesInv, HomeOf
    <3>3. QED
      BY <3>1, <3>2 DEF HomeOf
  <2>2. QED
    BY <2>1 DEF OneHome, SignInInv, HomesInv
<1>2. SessionsHaveAHome
  BY DEF SessionsHaveAHome, SignInInv, CallsInv, Knows, On
<1>3. AttemptsBounded
  <2>1. ASSUME NEW k \in Keys PROVE window[k].admitted <= Maximum(k)
    <3>1. window[k].admitted \in Nat /\ window[k].count \in Nat /\ Maximum(k) \in Nat
      BY SignInAssumption DEF SignInInv, TypeOK, Maximum
    <3>2. QED
      BY <3>1 DEF SignInInv, WindowsInv
  <2>2. QED
    BY <2>1 DEF AttemptsBounded
<1>4. StateUsedOnce
  BY DEF StateUsedOnce, SignInInv, LoginsInv
<1>5. QED
  BY <1>1, <1>2, <1>3, <1>4

(* What sign-in stores is always in its types.                               *)
THEOREM SignInTypes == Spec => []TypeOK
BY InitSafe, StepSafe, SafeSays, PTL DEF Spec

(* For every number of concurrent first logins and registrations of a user,  *)
(* whatever aborts, a user has one account and an account one user.          *)
THEOREM OneHomeHolds == Spec => []OneHome
BY InitSafe, StepSafe, SafeSays, PTL DEF Spec

(* No session stands for a registration that was rolled back.                *)
THEOREM SessionsHold == Spec => []SessionsHaveAHome
BY InitSafe, StepSafe, SafeSays, PTL DEF Spec

(* While a limiter key lives it admits at most its maximum.                  *)
THEOREM AttemptsHold == Spec => []AttemptsBounded
BY InitSafe, StepSafe, SafeSays, PTL DEF Spec

(* No login state is exchanged twice.                                        *)
THEOREM StatesHold == Spec => []StateUsedOnce
BY InitSafe, StepSafe, SafeSays, PTL DEF Spec
=============================================================================
