-------------------------------- MODULE SignIn --------------------------------
(***************************************************************************)
(* How a client becomes an identity: registration and password login       *)
(* (local-auth.ts over adapters.ts), the WorkOS callback (auth.ts,         *)
(* identity.ts) and the attempt limiter and sessions in Redis.  Each       *)
(* handler is a sequence of awaited statements; other requests run between *)
(* any two.  Transactions are READ COMMITTED: rows are seen when committed,*)
(* but a unique key is held from the insert on.                            *)
(***************************************************************************)
EXTENDS Naturals, FiniteSets

CONSTANTS Emails,       \* addresses that register and log in: users of provider "local"
          Profiles,     \* users of provider "workos"
          Recovery,     \* the imported user of provider "recovery"
          Accounts,     \* account ids that may be generated: bound
          Ips, States,  \* client addresses; WorkOS login states
          Calls,        \* requests that are handled at a time
          None,
          MaxRegister,  \* registrations per address and window (3)
          MaxLogin      \* logins per address and window (5)

Users == Emails \cup Profiles \cup {Recovery}
Keys == {"register", "login"} \X Ips

ASSUME SignInAssumption ==
  /\ Emails \cap Profiles = {} /\ Recovery \notin Emails \cup Profiles
  /\ None \notin Users \cup Accounts \cup Ips \cup States
  /\ Accounts # {}
  /\ MaxRegister \in Nat \ {0} /\ MaxLogin \in Nat \ {0}

VARIABLES users,    \* committed User rows, by their unique (provider, subject)
          homes,    \* committed accounts with their Membership: pairs <<account, user>>
          call,     \* call[c]: statement, request, rows of its open transaction
          window,   \* window[k]: attempt counter of a kind of request and an address
          session,  \* identities with a live session in Redis
          login     \* login[s]: "new", "stored", "taken" or "expired"; times exchanged

rows == <<users, homes>>
vars == <<users, homes, call, window, session, login>>

-----------------------------------------------------------------------------
NoCall == [op |-> "none", pc |-> "idle", ip |-> None, state |-> None,
           user |-> None, account |-> None, inserted |-> FALSE]
Operations == {"register", "login", "callback", "resume"}
Statements == {"limitSet", "limitIncr", "findCredential", "verify", "recovery",
               "take", "exchange", "findUser", "insertAccount", "insertUser",
               "insertMember", "commit", "session"}

On(c, pc) == call[c].pc = pc
Goto(c, pc) == call' = [call EXCEPT ![c].pc = pc]

(* Wrong variant: the answer leaves the transaction open.                    *)
LeaveOpen(c) == Goto(c, "idle")
(* The handler answers or throws; an open transaction is rolled back.        *)
Leave(c) == call' = [call EXCEPT ![c] = NoCall]

Receive(c, op, first, u, ip, s) ==
  /\ On(c, "idle")
  /\ call' = [call EXCEPT ![c] = [NoCall EXCEPT !.op = op, !.pc = first, !.user = u,
                                                !.ip = ip, !.state = s]]
  /\ UNCHANGED <<rows, window, session, login>>

-----------------------------------------------------------------------------
(* allowRequest: SET NX EX, and INCR if the key was there.                   *)
Closed == [count |-> 0, expires |-> FALSE, admitted |-> 0]
Key(c) == <<call[c].op, call[c].ip>>
Maximum(k) == IF k[1] = "register" THEN MaxRegister ELSE MaxLogin
Admitted(c) == IF call[c].op = "register" THEN "insertAccount" ELSE "findCredential"

LimitSet(c) ==
  /\ On(c, "limitSet")
  /\ \/ /\ window[Key(c)].count = 0
        /\ window' = [window EXCEPT ![Key(c)] = [count |-> 1, expires |-> TRUE, admitted |-> 1]]
        /\ Goto(c, Admitted(c))
     \/ /\ window[Key(c)].count > 0
        /\ Goto(c, "limitIncr")
        /\ UNCHANGED window
  /\ UNCHANGED <<rows, session, login>>

(* Wrong variant: the counter is compared before it is incremented.          *)
AllowsOneMore(n, maximum) == n <= maximum
Allows(n, maximum) == n + 1 <= maximum

(* INCR creates a missing key, without an expiry.  A count above the maximum *)
(* is refused like the one that reaches it and is not told apart.            *)
LimitIncr(c) ==
  LET k == Key(c)
      n == window[k].count
      count(more) ==
        window' = [window EXCEPT ![k].count = IF n < Maximum(k) THEN n + 1 ELSE n,
                                 ![k].admitted = @ + more]
  IN /\ On(c, "limitIncr")
     /\ \/ Allows(n, Maximum(k)) /\ count(1) /\ Goto(c, Admitted(c))
        \/ ~Allows(n, Maximum(k)) /\ count(0) /\ Leave(c)
     /\ UNCHANGED <<rows, session, login>>

(* Redis (external): a key with an expiry is dropped when its time is up.    *)
WindowEnds(k) ==
  /\ window[k].expires
  /\ window' = [window EXCEPT ![k] = Closed]
  /\ UNCHANGED <<rows, call, session, login>>

-----------------------------------------------------------------------------
(* POST /auth/login.                                                         *)
HomeOf(u) == {a \in Accounts : <<a, u>> \in homes}

(* The credential with the oldest membership, or the dummy hash.             *)
FindCredential(c) ==
  /\ On(c, "findCredential")
  /\ \/ \E a \in HomeOf(call[c].user) :
          call' = [call EXCEPT ![c].pc = "verify", ![c].account = a]
     \/ HomeOf(call[c].user) = {} /\ Goto(c, "verify")
  /\ UNCHANGED <<rows, window, session, login>>

VerifyPassword(c) ==
  /\ On(c, "verify")
  /\ \/ call[c].account # None /\ Goto(c, "session")
     \/ Goto(c, "recovery")
  /\ UNCHANGED <<rows, window, session, login>>

RecoveryIdentity(c) ==
  /\ On(c, "recovery")
  /\ \/ \E a \in HomeOf(Recovery) :
          call' = [call EXCEPT ![c].pc = "session", ![c].user = Recovery, ![c].account = a]
     \/ Leave(c)
  /\ UNCHANGED <<rows, window, session, login>>

(* createSession, and the answer with its cookie.                            *)
CreateSession(c) ==
  /\ On(c, "session")
  /\ session' = session \cup {<<call[c].account, call[c].user>>}
  /\ Leave(c)
  /\ UNCHANGED <<rows, window, login>>

(* POST /auth/logout, or the session's time to live is over: the identity    *)
(* has no session left.                                                      *)
EndSession(i) ==
  /\ i \in session
  /\ session' = session \ {i}
  /\ UNCHANGED <<rows, call, window, login>>

-----------------------------------------------------------------------------
(* GET /workos/login and /workos/callback.                                   *)
StoreState(s) ==
  /\ login[s].at = "new"
  /\ login' = [login EXCEPT ![s].at = "stored"]
  /\ UNCHANGED <<rows, call, window, session>>

StateExpires(s) ==
  /\ login[s].at = "stored"
  /\ login' = [login EXCEPT ![s].at = "expired"]
  /\ UNCHANGED <<rows, call, window, session>>

(* Wrong variant: GET.                                                       *)
Kept == "stored"
(* GETDEL.                                                                   *)
Taken == "taken"

TakeState(c) ==
  LET s == call[c].state
  IN /\ On(c, "take")
     /\ \/ /\ login[s].at = "stored"
           /\ login' = [login EXCEPT ![s].at = Taken]
           /\ Goto(c, "exchange")
        \/ /\ login[s].at # "stored"
           /\ Leave(c)
           /\ UNCHANGED login
     /\ UNCHANGED <<rows, window, session>>

(* authenticateWithCode (external): WorkOS says who the user is, or refuses. *)
Exchange(c) ==
  /\ On(c, "exchange")
  /\ login' = [login EXCEPT ![call[c].state].exchanged = @ + 1]
  /\ \/ \E u \in Profiles : call' = [call EXCEPT ![c].pc = "findUser", ![c].user = u]
     \/ Leave(c)
  /\ UNCHANGED <<rows, window, session>>

-----------------------------------------------------------------------------
(* The transactions of getOrCreateWorkOSIdentity and createLocalIdentity.    *)
(* A user and its membership are committed together: the branch of           *)
(* identity.ts:24-34 for a user without one is never taken (OneHome).  For a *)
(* stored user, tx.user.update is one step with the read: its wait for the   *)
(* row's lock, which every holder gives back, is left out.                   *)
FindUser(c) ==
  /\ On(c, "findUser")
  /\ \/ HomeOf(call[c].user) # {} /\ Leave(c)
     \/ HomeOf(call[c].user) = {} /\ Goto(c, "insertAccount")
  /\ UNCHANGED <<rows, window, session, login>>

(* The account's random id collides with nobody's and matters to nobody      *)
(* before the commit: it is chosen there.                                    *)
Fresh == {a \in Accounts : \A u \in Users : <<a, u>> \notin homes}
InsertAccount(c) ==
  /\ On(c, "insertAccount")
  /\ Goto(c, "insertUser")
  /\ UNCHANGED <<rows, window, session, login>>

(* Wrong variant: no unique index.                                           *)
Anyone(c) == {}
(* Open transactions that inserted the same user: the insert waits for them. *)
Holders(c) == {d \in Calls : call[d].inserted /\ call[d].user = call[c].user}

(* A committed user is P2002: registration answers 409, the callback throws. *)
InsertUser(c) ==
  /\ On(c, "insertUser")
  /\ Holders(c) = {}
  /\ \/ call[c].user \in users /\ Leave(c)
     \/ /\ call[c].user \notin users
        /\ call' = [call EXCEPT ![c].pc = "insertMember", ![c].inserted = TRUE]
  /\ UNCHANGED <<rows, window, session, login>>

(* Wrong variant: the session is stored before the commit.                   *)
SessionFirst(c) == IF call[c].op = "register" THEN "session" ELSE "commit"
AfterMember(c) == "commit"

InsertMember(c) ==
  /\ On(c, "insertMember")
  /\ Goto(c, AfterMember(c))
  /\ UNCHANGED <<rows, window, session, login>>

(* The rows become visible.  A registration goes on to its session; WorkOS   *)
(* sealed its own.  The acknowledgement may be lost.                         *)
Commit(c) ==
  /\ On(c, "commit")
  /\ Fresh # {}
  /\ users' = users \cup {call[c].user}
  /\ LET a == CHOOSE b \in Fresh : TRUE
     IN /\ homes' = homes \cup {<<a, call[c].user>>}
        /\ \/ /\ call[c].op = "register"
              /\ call' = [call EXCEPT ![c].pc = "session", ![c].account = a,
                                      ![c].inserted = FALSE]
           \/ Leave(c)
  /\ UNCHANGED <<window, session, login>>

(* A statement throws or its process dies: what was committed stays.         *)
Fail(c) ==
  /\ ~On(c, "idle")
  /\ Leave(c)
  /\ UNCHANGED <<rows, window, session, login>>

-----------------------------------------------------------------------------
Init ==
  /\ \/ users = {} /\ homes = {}
     \/ users = {Recovery} /\ homes = {<<CHOOSE a \in Accounts : TRUE, Recovery>>}
  /\ call = [c \in Calls |-> NoCall]
  /\ window = [k \in Keys |-> Closed]
  /\ session = {}
  /\ login = [s \in States |-> [at |-> "new", exchanged |-> 0]]

Request(c) ==
  \/ \E u \in Emails, ip \in Ips : \/ Receive(c, "register", "limitSet", u, ip, None)
                                   \/ Receive(c, "login", "limitSet", u, ip, None)
  \/ \E s \in States : Receive(c, "callback", "take", None, None, s)
  (* A request with a sealed session: resolveWorkOS looks the user up again. *)
  \/ \E u \in Profiles \cap users : Receive(c, "resume", "findUser", u, None, None)

Step(c) ==
  \/ LimitSet(c) \/ LimitIncr(c)
  \/ FindCredential(c) \/ VerifyPassword(c) \/ RecoveryIdentity(c) \/ CreateSession(c)
  \/ TakeState(c) \/ Exchange(c)
  \/ FindUser(c) \/ InsertAccount(c) \/ InsertUser(c) \/ InsertMember(c) \/ Commit(c)

Redis ==
  \/ \E k \in Keys : WindowEnds(k)
  \/ \E i \in session : EndSession(i)
  \/ \E s \in States : StoreState(s) \/ StateExpires(s)

Next == Redis \/ (\E c \in Calls : Request(c) \/ Step(c) \/ Fail(c))

(* A statement that can settle does.  PostgreSQL wakes the waiters of a key  *)
(* when its holder ends: one that can go on infinitely often does.           *)
Fairness == \A c \in Calls : WF_vars(Step(c)) /\ SF_vars(InsertUser(c))

Spec == Init /\ [][Next]_vars
FairSpec == Spec /\ Fairness

-----------------------------------------------------------------------------
CallRecords ==
  [op : Operations \cup {"none"}, pc : Statements \cup {"idle"}, ip : Ips \cup {None},
   state : States \cup {None}, user : Users \cup {None}, account : Accounts \cup {None},
   inserted : BOOLEAN]

(* The types of all variables.                                               *)
TypeOK ==
  /\ users \subseteq Users
  /\ homes \subseteq Accounts \X Users
  /\ call \in [Calls -> CallRecords]
  /\ \A c \in Calls :
       /\ call[c].pc \in {"insertUser", "insertMember", "commit"} => call[c].user \in Users
       /\ On(c, "session") => <<call[c].account, call[c].user>> \in Accounts \X Users
  /\ window \in [Keys -> [count : Nat, expires : BOOLEAN, admitted : Nat]]
  /\ session \subseteq Accounts \X Users
  /\ login \in [States -> [at : {"new", "stored", "taken", "expired"}, exchanged : Nat]]

(* However many first logins and registrations of a user run at once, abort  *)
(* or lose their answer, a user has one account and an account one user:     *)
(* identity.ts looks the user up, and inserts later (identity.ts:16, 36).    *)
OneHome ==
  /\ \A u \in users : \E a \in Accounts : HomeOf(u) = {a}
  /\ \A h, i \in homes : h[1] = i[1] => h[2] = i[2]

(* An identity that has a session, or is about to get one, is stored: no     *)
(* session outlives a registration that was rolled back.                     *)
SessionsHaveAHome ==
  /\ session \subseteq homes
  /\ \A c \in Calls : On(c, "session") => <<call[c].account, call[c].user>> \in homes

(* While a limiter key lives, at most the maximum of attempts is let through,*)
(* whichever of the two commands of allowRequest counted them.               *)
AttemptsBounded == \A k \in Keys : window[k].admitted <= Maximum(k)

(* A login state is exchanged once, also when callbacks with it race.        *)
StateUsedOnce == \A s \in States : login[s].exchanged <= 1

(* Every request ends: nobody waits forever for a unique key.                *)
RequestsEnd == \A c \in Calls : ~On(c, "idle") ~> On(c, "idle")

(* What the 429 of a login says ("retry in five minutes", local-auth.ts:177):*)
(* an address that is locked out has a counter that expires.                 *)
LockoutEnds ==
  \A k \in Keys : window[k].count = Maximum(k) => window[k].expires
=============================================================================
