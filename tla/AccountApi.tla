------------------------------ MODULE AccountApi ------------------------------
(***************************************************************************)
(* The account API (account-api.ts over adapters.ts, senders.ts and        *)
(* tokens.ts): requests of signed-in accounts that create, change, test    *)
(* and archive senders and create, rebind and revoke API tokens.  Each     *)
(* handler is a program of awaited statements; every other request may run *)
(* between two of them.                                                    *)
(***************************************************************************)
EXTENDS Naturals, FiniteSets, Sequences, SendRateLimit

CONSTANTS Accounts,
          Senders, Tokens,  \* ids that may be generated: bounds on the rows
          Requests,         \* requests of the account API that run at a time
          None,
          ScopeSets,        \* the scopes a token may ask for
          MaxSenders,       \* MAX_SENDERS_PER_ACCOUNT (5)
          MaxTokens,        \* MAX_ACTIVE_TOKENS_PER_ACCOUNT (20)
          TestLimit         \* connection tests per account and minute (5)

Scopes == {"send", "status"}

ASSUME AccountAssumption ==
  /\ None \notin Accounts \cup Senders \cup Tokens
  /\ Accounts \cap Senders = {}
  /\ IsFiniteSet(Senders) /\ IsFiniteSet(Tokens) /\ IsFiniteSet(Requests)
  /\ ScopeSets \subseteq SUBSET Scopes
  /\ MaxSenders \in Nat \ {0} /\ MaxTokens \in Nat \ {0} /\ TestLimit \in Nat

VARIABLES sender,  \* sender[s]: owner account, or None for no row; Sender.active
          token,   \* token[k]: bound sender, or None for no row; scopes; revoked
          request, \* request[r]: the handler call r
          window   \* window[k]: the rate limiter's counter of a sender or account

tables == <<sender, token>>
accountVars == <<sender, token, request, window>>

-----------------------------------------------------------------------------
(* The statements that the handlers await, in order.  A handler checks the   *)
(* owner, and the store function that it calls checks it again.              *)

(* Wrong variant: neither looks at the owner of the token's new sender.      *)
UpdateTokenUnchecked == <<"ownToken", "ownToken", "updateToken">>
UpdateTokenStatements ==
  <<"ownToken", "ownSender", "ownToken", "ownSender", "updateToken">>

Program ==
  [createSender |-> <<"countSenders", "insertSender">>,
   updateSender |-> <<"ownSender", "ownSender", "updateSender">>,
   testSender   |-> <<"readCredentials", "countTest">>,
   deleteSender |-> <<"ownSender", "archiveSender">>,
   createToken  |-> <<"ownSender", "countTokens", "ownSender", "insertToken">>,
   updateToken  |-> UpdateTokenStatements,
   revokeToken  |-> <<"ownToken", "revokeToken">>]
Operations == {"createSender", "updateSender", "testSender", "deleteSender",
               "createToken", "updateToken", "revokeToken"}

NoRequest == [op |-> "none", step |-> 0, account |-> None, sender |-> None,
              token |-> None]

At(r, statement) ==
  /\ request[r].op # "none"
  /\ Program[request[r].op][request[r].step] = statement
Continue(r) == request' = [request EXCEPT ![r].step = @ + 1]
Answer(r) == request' = [request EXCEPT ![r] = NoRequest]

(* A statement that only reads: the handler goes on or answers an error.     *)
Check(r, statement, holds) ==
  /\ At(r, statement)
  /\ \/ holds /\ Continue(r)
     \/ ~holds /\ Answer(r)
  /\ UNCHANGED <<sender, token, window>>

SendersOf(a) == {s \in Senders : sender[s].account = a}
(* Rows exist only with a sender that exists.                                *)
AccountOf(k) == IF token[k].sender = None THEN None ELSE sender[token[k].sender].account
ActiveTokensOf(a) == {k \in Tokens : AccountOf(k) = a /\ ~token[k].revoked}

-----------------------------------------------------------------------------
(* dependencies.identity.authenticate resolved the account; ids come from    *)
(* the client and may be anybody's.                                          *)
Receive(r, op, a, s, k) ==
  /\ request[r] = NoRequest
  /\ request' = [request EXCEPT ![r] = [op |-> op, step |-> 1, account |-> a,
                                        sender |-> s, token |-> k]]
  /\ UNCHANGED <<sender, token, window>>

(* Wrong variant: the cap is compared after the row it makes room for.       *)
RoomForOneMore(n, max) == n <= max
Room(n, max) == n < max

(* listSenders(..., includeInactive): archived senders count.                *)
CountSenders(r) ==
  Check(r, "countSenders", Room(Cardinality(SendersOf(request[r].account)), MaxSenders))
CountTokens(r) ==
  Check(r, "countTokens", Room(Cardinality(ActiveTokensOf(request[r].account)), MaxTokens))

OwnSender(r) == Check(r, "ownSender", sender[request[r].sender].account = request[r].account)
OwnToken(r) == Check(r, "ownToken", AccountOf(request[r].token) = request[r].account)

ReadCredentials(r) ==
  Check(r, "readCredentials", /\ sender[request[r].sender].account = request[r].account
                              /\ sender[request[r].sender].active)

(* senderTestRateLimit.check, then a session with Gmail that changes nothing.*)
CountTest(r) ==
  /\ At(r, "countTest")
  /\ window' = [window EXCEPT ![request[r].account] = Counted(@, TestLimit)]
  /\ Answer(r)
  /\ UNCHANGED tables

Write(r, statement) == At(r, statement) /\ Answer(r) /\ UNCHANGED window

InsertSender(r) ==
  /\ Write(r, "insertSender")
  /\ \E s \in Senders :
       /\ sender[s].account = None
       /\ sender' = [sender EXCEPT ![s] = [account |-> request[r].account, active |-> TRUE]]
  /\ UNCHANGED token

(* PUT: active is what the body says, TRUE if it says nothing.               *)
UpdateSender(r) ==
  /\ Write(r, "updateSender")
  /\ \E active \in BOOLEAN : sender' = [sender EXCEPT ![request[r].sender].active = active]
  /\ UNCHANGED token

(* DELETE archives: deliveries and tokens keep their foreign keys.           *)
ArchiveSender(r) ==
  /\ Write(r, "archiveSender")
  /\ sender' = [sender EXCEPT ![request[r].sender].active = FALSE]
  /\ UNCHANGED token

InsertToken(r) ==
  /\ Write(r, "insertToken")
  /\ \E k \in Tokens, scopes \in ScopeSets :
       /\ token[k].sender = None
       /\ token' = [token EXCEPT ![k] = [sender |-> request[r].sender, scopes |-> scopes,
                                         revoked |-> FALSE]]
  /\ UNCHANGED sender

(* The row is found by its id alone; a revoked token stays revoked.          *)
UpdateToken(r) ==
  /\ Write(r, "updateToken")
  /\ \E scopes \in ScopeSets :
       token' = [token EXCEPT ![request[r].token].sender = request[r].sender,
                              ![request[r].token].scopes = scopes]
  /\ UNCHANGED sender

RevokeToken(r) ==
  /\ Write(r, "revokeToken")
  /\ token' = [token EXCEPT ![request[r].token].revoked =
                             @ \/ AccountOf(request[r].token) = request[r].account]
  /\ UNCHANGED sender

(* 409 for an address that another sender of the account has, 422 for a      *)
(* password, an error of the database: the handler answers and wrote nothing.*)
Refuse(r) ==
  /\ request[r] # NoRequest
  /\ Answer(r)
  /\ UNCHANGED <<sender, token, window>>

(* Redis (external): a counter with an expiry is dropped when its time is up.*)
WindowEnds(k) ==
  /\ window[k].expires
  /\ window' = [window EXCEPT ![k] = Closed]
  /\ UNCHANGED <<sender, token, request>>

-----------------------------------------------------------------------------
AccountInit ==
  /\ sender = [s \in Senders |-> [account |-> None, active |-> FALSE]]
  /\ token = [k \in Tokens |-> [sender |-> None, scopes |-> {}, revoked |-> FALSE]]
  /\ request = [r \in Requests |-> NoRequest]
  /\ window = [k \in Accounts \cup Senders |-> Closed]

(* A client knows the ids that were handed out, of whatever account.         *)
KnownSenders(op) ==
  IF op \in {"createSender", "revokeToken"} THEN {None}
  ELSE {s \in Senders : sender[s].account # None}
KnownTokens(op) ==
  IF op \in {"updateToken", "revokeToken"} THEN {k \in Tokens : token[k].sender # None}
  ELSE {None}

Handle(r) ==
  \/ \E op \in Operations, a \in Accounts :
       \E s \in KnownSenders(op), k \in KnownTokens(op) : Receive(r, op, a, s, k)
  \/ CountSenders(r) \/ CountTokens(r) \/ OwnSender(r) \/ OwnToken(r)
  \/ ReadCredentials(r) \/ CountTest(r)
  \/ InsertSender(r) \/ UpdateSender(r) \/ ArchiveSender(r)
  \/ InsertToken(r) \/ UpdateToken(r) \/ RevokeToken(r)
  \/ Refuse(r)

AccountStep == (\E r \in Requests : Handle(r)) \/ (\E k \in Accounts \cup Senders : WindowEnds(k))
=============================================================================
