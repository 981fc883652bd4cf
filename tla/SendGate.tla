------------------------------- MODULE SendGate -------------------------------
(***************************************************************************)
(* The way of a bearer request through delivery.ts: verifyApiToken, scope, *)
(* sender, send limiter, createDelivery's transaction; or the status route.*)
(* It runs beside the account API, whose requests revoke and rebind tokens *)
(* and archive senders between any two of its statements.  What follows    *)
(* the insert is the subject of DeliveryPipeline.                          *)
(***************************************************************************)
EXTENDS AccountApi

CONSTANTS Calls,     \* bearer requests that run at a time
          Messages,  \* message ids that may be generated: bound on the rows
          BurstLimit,\* SEND_BURST_LIMIT per sender and window
          MaxAtWork, \* bound: requests and calls at work at a time
          MaxOpen    \* bound: limiter windows that are open at a time

ASSUME GateAssumption ==
  /\ None \notin Messages
  /\ BurstLimit \in Nat \ {0}

VARIABLES call,      \* call[c]: statement, what the client sent, what was read so far
          delivery,  \* delivery[m]: owner of the Delivery row, or None
          entitled,  \* history: senders the token stood for at some moment of the call
          open       \* history: the sender was active since the limiter admitted the call

gateVars == <<call, delivery>>
vars == <<accountVars, gateVars, entitled, open>>

-----------------------------------------------------------------------------
NoCall == [pc |-> "idle", scope |-> "send", token |-> None, msg |-> None,
           sender |-> None, account |-> None, granted |-> FALSE]
Steps == {"idle", "verify", "scope", "limit", "findSender", "insert", "find", "answered"}

On(c, pc) == call[c].pc = pc
Goto(c, pc) == call' = [call EXCEPT ![c].pc = pc]
Leave(c) == call' = [call EXCEPT ![c] = NoCall]

(* POST with a token, or GET of a message id that is anybody's.              *)
Ask(c, scope, k, m) ==
  /\ On(c, "idle")
  /\ call' = [call EXCEPT ![c] = [NoCall EXCEPT !.pc = "verify", !.scope = scope,
                                                !.token = k, !.msg = m]]
  /\ UNCHANGED <<accountVars, delivery>>

(* Wrong variants: revoked tokens are still found; so are unbound ones.      *)
AcceptsRevoked(k) == token[k].sender # None /\ sender[token[k].sender].active
AcceptsUnbound(k) == ~token[k].revoked
(* verifyApiToken's where clause, for the digest that is k's.                *)
Accepts(k) ==
  /\ token[k].sender # None
  /\ ~token[k].revoked
  /\ sender[token[k].sender].active

(* The token row is read once; the call goes on with what it said then.  The *)
(* update of lastUsedAt and the look at the sender's address follow.         *)
Verify(c) ==
  LET k == call[c].token
  IN /\ On(c, "verify")
     /\ \/ ~Accepts(k) /\ Leave(c)
        \/ /\ Accepts(k)
           /\ call' = [call EXCEPT ![c].pc = "scope", ![c].sender = token[k].sender,
                                   ![c].account = AccountOf(k),
                                   ![c].granted = call[c].scope \in token[k].scopes]
     /\ UNCHANGED <<accountVars, delivery>>

(* 403 for the scope; 403 and 422 for sender_id, from and content.           *)
CheckScope(c) ==
  /\ On(c, "scope")
  /\ \/ Leave(c)
     \/ call[c].granted /\ Goto(c, IF call[c].scope = "send" THEN "limit" ELSE "find")
  /\ UNCHANGED <<accountVars, delivery>>

(* rateLimit.check(senderId): 429; 503 when Redis does not answer, whether   *)
(* it counted or not.                                                        *)
CheckRate(c) ==
  LET w == window[call[c].sender]
      count == window' = [window EXCEPT ![call[c].sender] = Counted(w, BurstLimit)]
  IN /\ On(c, "limit")
     /\ \/ count /\ Allows(w, BurstLimit) /\ Goto(c, "findSender")
        \/ count /\ Leave(c)
        \/ Leave(c) /\ UNCHANGED window
     /\ UNCHANGED <<sender, token, request, delivery>>

(* Wrong variant: createDelivery trusts the token's sender.                  *)
OwnedOnly(c) == sender[call[c].sender].account = call[c].account
(* createDelivery's sender.findFirst({id, accountId, active: true}).         *)
Usable(c) == sender[call[c].sender] = [account |-> call[c].account, active |-> TRUE]

FindSender(c) ==
  /\ On(c, "findSender")
  /\ \/ Usable(c) /\ Goto(c, "insert")
     \/ ~Usable(c) /\ Leave(c)
  /\ UNCHANGED <<accountVars, delivery>>

InsertDelivery(c) ==
  /\ On(c, "insert")
  /\ \E m \in Messages :
       /\ delivery[m] = None
       /\ delivery' = [delivery EXCEPT ![m] = call[c].sender]
       /\ call' = [call EXCEPT ![c].pc = "answered", ![c].msg = m]
  /\ UNCHANGED accountVars

(* The row's accountId and senderId are the token's.                         *)
Visible(c) == delivery[call[c].msg] = call[c].sender

FindDelivery(c) ==
  /\ On(c, "find")
  /\ \/ delivery[call[c].msg] # None /\ Visible(c) /\ Goto(c, "answered")
     \/ delivery[call[c].msg] = None /\ Leave(c)
     \/ delivery[call[c].msg] # None /\ ~Visible(c) /\ Leave(c)
  /\ UNCHANGED <<accountVars, delivery>>

(* The answer was sent, or the connection, the database or the API failed.   *)
End(c) ==
  /\ ~On(c, "idle")
  /\ Leave(c)
  /\ UNCHANGED <<accountVars, delivery>>

-----------------------------------------------------------------------------
(* The senders that the call's token stands for in a state, with its scope.  *)
Standing(c) ==
  {s \in Senders : \E k \in Tokens :
     /\ k = call[c].token /\ s = token[k].sender
     /\ ~token[k].revoked /\ call[c].scope \in token[k].scopes
     /\ sender[s].active}
Admitted(c) == call[c].pc \in {"findSender", "insert", "answered"}

Witness ==
  /\ entitled' = [c \in Calls |-> IF On(c, "idle")' THEN {} ELSE entitled[c] \cup Standing(c)']
  /\ open' = [c \in Calls |-> Admitted(c)' /\ (open[c] \/ sender'[call'[c].sender].active)]

Init ==
  /\ AccountInit
  /\ call = [c \in Calls |-> NoCall]
  /\ delivery = [m \in Messages |-> None]
  /\ entitled = [c \in Calls |-> {}]
  /\ open = [c \in Calls |-> FALSE]

Serve(c) ==
  \/ \E k \in Tokens : \/ Ask(c, "send", k, None)
                       \/ \E m \in Messages : Ask(c, "status", k, m)
  \/ Verify(c) \/ CheckScope(c) \/ CheckRate(c) \/ FindSender(c) \/ InsertDelivery(c)
  \/ FindDelivery(c) \/ End(c)

AtWork == {r \in Requests : request[r] # NoRequest} \cup {c \in Calls : ~On(c, "idle")}
OpenWindows == {k \in Accounts \cup Senders : window[k] # Closed}

Next ==
  /\ \/ AccountStep /\ UNCHANGED gateVars
     \/ \E c \in Calls : Serve(c)
  /\ Witness
  /\ Cardinality(AtWork') <= MaxAtWork /\ Cardinality(OpenWindows') <= MaxOpen

Spec == Init /\ [][Next]_vars

-----------------------------------------------------------------------------
(* Types: what a handler has read by the step it is at.                      *)
AccountTypeOK ==
  /\ sender \in [Senders -> [account : Accounts \cup {None}, active : BOOLEAN]]
  /\ token \in [Tokens -> [sender : Senders \cup {None}, scopes : SUBSET Scopes,
                           revoked : BOOLEAN]]
  /\ request \in [Requests -> [op : Operations \cup {"none"}, step : 0..5,
                               account : Accounts \cup {None},
                               sender : Senders \cup {None}, token : Tokens \cup {None}]]
  /\ window \in [Accounts \cup Senders -> [count : Nat, expires : BOOLEAN, passed : Nat]]
GateTypeOK ==
  /\ call \in [Calls -> [pc : Steps, scope : Scopes, token : Tokens \cup {None},
                         msg : Messages \cup {None}, sender : Senders \cup {None},
                         account : Accounts \cup {None}, granted : BOOLEAN]]
  /\ \A c \in Calls : call[c].pc \notin {"idle", "verify"} => call[c].sender \in Senders
  /\ delivery \in [Messages -> Senders \cup {None}]
  /\ entitled \in [Calls -> SUBSET Senders]
  /\ open \in [Calls -> BOOLEAN]
TypeOK == AccountTypeOK /\ GateTypeOK

(* A creation that has passed its count and not yet inserted its row.        *)
Counting(op) == IF op = "createSender" THEN 1 ELSE 2
Cleared(a, op) ==
  {r \in Requests : request[r].account = a /\ request[r].op = op
                      /\ request[r].step > Counting(op)}

(* Counting and inserting are separate statements (account-api.ts:200, 290), *)
(* so the caps of 5 senders and 20 active tokens can be passed: but only by  *)
(* creations that run at the same time, one row for each but the first.  No  *)
(* sequence of archivals, rebindings and revocations opens them further.     *)
CapsHold ==
  \A a \in Accounts :
    /\ Cardinality(SendersOf(a)) + Cardinality(Cleared(a, "createSender"))
         <= MaxSenders - 1 + Cardinality(Requests)
    /\ Cardinality(ActiveTokensOf(a)) + Cardinality(Cleared(a, "createToken"))
         <= MaxTokens - 1 + Cardinality(Requests)

(* No request ever moves a token to another account's sender, although       *)
(* updateAccountApiToken writes the row by its id alone and other requests   *)
(* rebind, revoke and archive between its four reads and the write.          *)
TokensStayHome ==
  [][\A k \in Tokens : AccountOf(k) # None => AccountOf(k)' = AccountOf(k)]_vars

(* A send that was accepted, and a status that was shown, concern a sender   *)
(* of the token's own account for which the token stood, unrevoked, with the *)
(* scope and the sender active, at some moment of this very call.  A token   *)
(* revoked or rebound before the call gets nothing.                          *)
AnswersAreAuthorized ==
  \A c \in Calls : On(c, "answered") =>
    /\ call[c].sender \in entitled[c]
    /\ delivery[call[c].msg] = call[c].sender
    /\ sender[call[c].sender].account = call[c].account

(* A sender archived before the limiter let a send pass, and not reactivated *)
(* since, gets no delivery: createDelivery looks at the flag again.          *)
ArchiveStopsCalls ==
  \A c \in Calls :
    call[c].scope = "send" /\ call[c].pc \in {"insert", "answered"} => open[c]

(* Between the opening of a window and its end at most limit checks pass,    *)
(* and no counter stays without an end: the limiter always lets go again.    *)
LimitOf(k) == IF k \in Senders THEN BurstLimit ELSE TestLimit
LimiterKept ==
  \A k \in Accounts \cup Senders :
    /\ window[k].passed <= LimitOf(k)
    /\ window[k].count > 0 => window[k].expires
=============================================================================
