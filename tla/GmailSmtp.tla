------------------------------- MODULE GmailSmtp -------------------------------
(***************************************************************************)
(* GmailSmtpTransport (apps/worker/src/smtp.ts): one SMTP session with     *)
(* smtp.gmail.com, either send or testCredentials.  The client walks       *)
(* through a fixed script; per step it writes a command and reads one      *)
(* reply, which may have several lines.  Gmail and the network are         *)
(* external: a command may be refused, an answer lost, the connection cut  *)
(* at any moment, and a command that is under way when the connection      *)
(* breaks may still be served.                                             *)
(***************************************************************************)
EXTENDS Naturals, Sequences

CONSTANT N   \* number of envelope recipients

ASSUME RecipientsAssumption == N \in Nat \ {0}

VARIABLES purpose,    \* "send" or "test"
          at,         \* the script step the client is in
          pc,         \* "write", "read" or "over"
          code,       \* reply code of the first line read in this step, or NoCode
          ends,       \* how the call ended, "pending" before that
          inbox,      \* Responses.lines: lines received and not yet read
          open,       \* the connection
          request,    \* the step whose command is on its way to Gmail, or 0
          envelope,   \* recipients that Gmail accepted in this session
          taken       \* recipients of the message that Gmail accepted

client == <<purpose, at, pc, code, ends>>
gmail == <<envelope, taken>>
vars == <<client, inbox, open, request, gmail>>

-----------------------------------------------------------------------------
(* The script.  In the steps connect, greeting and tls the client sends no   *)
(* command and waits for an event or a line.                                 *)
SignIn == <<"connect", "greeting", "ehlo", "starttls", "tls", "ehlo",
            "auth", "username", "password">>
SendScript ==
  SignIn \o <<"mail">> \o [i \in 1..N |-> "rcpt"] \o <<"data", "body", "quit">>
TestScript == SignIn \o <<"quit">>
Script == IF purpose = "send" THEN SendScript ELSE TestScript

(* Wrong variant: the loop over the recipients starts one too late.          *)
NextRecipient(i) == i - Len(SignIn)
(* The recipient that step i names.                                          *)
Recipient(i) == i - Len(SignIn) - 1

Ready == 0   \* stands for the events connect and secureConnect
NoCode == 1
Refusals == {421, 550}
Answered == [connect |-> {Ready}, greeting |-> {220}, ehlo |-> {250},
             starttls |-> {220}, tls |-> {Ready}, auth |-> {334},
             username |-> {334}, password |-> {235}, mail |-> {250},
             rcpt |-> {250, 251}, data |-> {354}, body |-> {250}, quit |-> {221}]

(* Wrong variants: a refused recipient is skipped; DATA's final reply is not *)
(* looked at.                                                                *)
SkipRefusedRecipient(step) == Answered[step] \cup (IF step = "rcpt" THEN {550} ELSE {})
IgnoreFinalReply(step) == Answered[step] \cup (IF step = "body" THEN Refusals ELSE {})
(* The codes that response() lets pass for a step.                           *)
Accepted(step) == Answered[step]

Retryable(c) == c \in 400..499

-----------------------------------------------------------------------------
(* The client.                                                               *)

Throw(how) == pc' = "over" /\ ends' = how /\ open' = FALSE /\ UNCHANGED at

(* write(): the bytes leave, or the socket is already closed.                *)
Write ==
  /\ pc = "write"
  /\ \/ open /\ request' = at /\ pc' = "read" /\ UNCHANGED <<at, ends, open>>
     \/ ~open /\ Throw("error") /\ UNCHANGED request
  /\ UNCHANGED <<purpose, code, inbox, gmail>>

(* The reply is complete: the next command, the return, or the throw of      *)
(* SmtpResponseError; `finally' destroys the socket.                         *)
Conclude(c) ==
  \/ /\ c \in Accepted(Script[at]) /\ at < Len(Script)
     /\ at' = at + 1 /\ pc' = "write"
     /\ UNCHANGED <<ends, open>>
  \/ /\ c \in Accepted(Script[at]) /\ at = Len(Script)
     /\ Throw("ok")
  \/ /\ c \notin Accepted(Script[at])
     /\ Throw(IF Retryable(c) THEN "transient" ELSE "rejected")

(* Wrong variant: only the first line of a reply is read.                    *)
FirstLineOnly(line) == FALSE
(* "while (line[3] === '-')": the reply goes on after this line.             *)
Continues(line) == line.more

(* response(): the code is that of the first line; the rest is skipped.      *)
ReadLine ==
  /\ pc = "read" /\ inbox # <<>>
  /\ inbox' = Tail(inbox)
  /\ LET line == Head(inbox)
         c == IF code = NoCode THEN line.code ELSE code
     IN IF Continues(line)
          THEN code' = c /\ UNCHANGED <<at, pc, ends, open>>
          ELSE code' = NoCode /\ Conclude(c)
  /\ UNCHANGED <<purpose, request, gmail>>

(* Wrong variant: no socket timeout; only a closed connection ends a wait.   *)
WaitForClose == ~open
(* A waiter is rejected when the connection closes or stays silent for the   *)
(* timeout, which destroys the socket.  In step tls the client waits for     *)
(* secureConnect while the timeout is the plain socket's: that the secure    *)
(* socket reports its end as an error is left to the runtime (external).     *)
Silence == TRUE

Broken ==
  /\ pc = "read" /\ inbox = <<>>
  /\ Silence
  /\ Throw("error")
  /\ UNCHANGED <<purpose, code, inbox, request, gmail>>

-----------------------------------------------------------------------------
(* Gmail and the network (external).                                         *)

Line(c, more, of) == [code |-> c, more |-> more, of |-> of]
(* EHLO's reply lists the extensions on lines of their own.                  *)
Reply(c, i) ==
  IF Script[i] = "ehlo" /\ c = 250
    THEN <<Line(c, TRUE, i), Line(c, FALSE, i)>>
    ELSE <<Line(c, FALSE, i)>>

Serve ==
  LET i == request
  IN /\ request # 0
     /\ request' = 0
     /\ \/ \E c \in Answered[Script[i]] :
             /\ inbox' = IF open THEN inbox \o Reply(c, i) ELSE inbox
             /\ envelope' = envelope \cup
                              (IF Script[i] = "rcpt" THEN {Recipient(i)} ELSE {})
             /\ taken' = IF Script[i] = "body" THEN envelope ELSE taken
        \/ \E c \in Refusals :
             /\ Script[i] \notin {"connect", "tls"}
             /\ inbox' = IF open THEN inbox \o Reply(c, i) ELSE inbox
             /\ UNCHANGED gmail
     /\ UNCHANGED <<client, open>>

(* The connection breaks, and the command under way is lost or still         *)
(* arrives; or Gmail itself ends it with a 421 that answers no command.      *)
Hangup ==
  /\ open
  /\ open' = FALSE
  /\ \/ request' \in {0, request} /\ UNCHANGED inbox
     \/ request' = 0 /\ inbox' = Append(inbox, Line(421, FALSE, 0))
  /\ UNCHANGED <<client, gmail>>

-----------------------------------------------------------------------------
Init ==
  /\ purpose \in {"send", "test"}
  /\ at = 1 /\ pc = "write" /\ code = NoCode /\ ends = "pending"
  /\ inbox = <<>> /\ open = TRUE /\ request = 0
  /\ envelope = {} /\ taken = {}

Client == Write \/ ReadLine \/ Broken
Next == Client \/ Serve \/ Hangup

Spec == Init /\ [][Next]_vars

(* The worker's event loop goes on and the socket timeout fires; nothing is  *)
(* owed by Gmail.                                                            *)
FairSpec == Spec /\ WF_vars(Client)

-----------------------------------------------------------------------------
Lines == [code : Nat, more : BOOLEAN, of : 0..Len(SendScript)]

(* The types of all variables.                                               *)
TypeOK ==
  /\ purpose \in {"send", "test"}
  /\ at \in 1..Len(Script)
  /\ pc \in {"write", "read", "over"}
  /\ code \in Nat
  /\ ends \in {"pending", "ok", "transient", "rejected", "error"}
  /\ inbox \in Seq(Lines)
  /\ open \in BOOLEAN
  /\ request \in 0..Len(Script)
  /\ envelope \subseteq 1..N
  /\ taken \subseteq 1..N

(* Gmail takes the message for every envelope recipient or for none: after   *)
(* one refused RCPT the session never reaches DATA.                          *)
AllOrNothing == taken \in {{}, 1..N}

(* Replies stay in step with commands: the client never takes a line of the  *)
(* answer to one command for the answer to another (an unsolicited 421       *)
(* answers none).                                                            *)
InStep ==
  pc = "read" /\ inbox # <<>> => Head(inbox).of \in {0, at}

(* The session does what processor.ts expects of SmtpTransport.send.         *)
Caller == INSTANCE OneSend
            WITH accepted <- taken # {},
                 ends <- IF purpose = "send" THEN ends ELSE "pending"
ImplementsOneSend == Caller!Spec

(* A worker slot is never held by a session forever, whatever Gmail does.    *)
SessionEnds == <>(pc = "over")
=============================================================================
