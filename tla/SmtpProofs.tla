------------------------------ MODULE SmtpProofs ------------------------------
(***************************************************************************)
(* One SMTP session: for every number of recipients, every refusal, lost   *)
(* answer and cut connection, the client stays in step with Gmail's        *)
(* replies, Gmail takes the message for all recipients or for none, and    *)
(* the session does what the processor expects of SmtpTransport.send.      *)
(***************************************************************************)
EXTENDS GmailSmtp, SequenceTheorems, TLAPS

-----------------------------------------------------------------------------
(* The script.                                                               *)

(* A sequence that was put together from two.                                *)
LEMMA Joined ==
  ASSUME NEW S, NEW s \in Seq(S), NEW t \in Seq(S), NEW u, u = s \o t
  PROVE  /\ u \in Seq(S)
         /\ Len(u) = Len(s) + Len(t)
         /\ \A i \in 1..(Len(s) + Len(t)) : u[i] = IF i <= Len(s) THEN s[i] ELSE t[i - Len(s)]
BY ConcatProperties, Zenon

Steps == {"connect", "greeting", "ehlo", "starttls", "tls", "auth", "username",
          "password", "mail", "rcpt", "data", "body", "quit"}

(* The nine steps of connecting and signing in.                              *)
LEMMA SignInSteps ==
  /\ SignIn \in Seq(Steps) /\ Len(SignIn) = 9
  /\ \A i \in 1..9 : SignIn[i] \notin {"rcpt", "body"}
BY DEF SignIn, Steps

(* What send() goes through: the recipients, then the message.               *)
LEMMA SendSteps ==
  /\ SendScript \in Seq(Steps) /\ Len(SendScript) = N + 13
  /\ \A i \in 1..(N + 13) :
       /\ SendScript[i] = "rcpt" <=> i \in 11..(N + 10)
       /\ SendScript[i] = "body" <=> i = N + 12
<1> DEFINE m == <<"mail">>
           r == [i \in 1..N |-> "rcpt"]
           d == <<"data", "body", "quit">>
           sm == SignIn \o m
           smr == sm \o r
<1>1. N \in Nat /\ N > 0
  BY RecipientsAssumption
<1>2. m \in Seq(Steps) /\ Len(m) = 1 /\ m[1] = "mail"
  BY DEF Steps
<1>3. d \in Seq(Steps) /\ Len(d) = 3 /\ d[1] = "data" /\ d[2] = "body" /\ d[3] = "quit"
  BY DEF Steps
<1>4. r \in Seq(Steps) /\ Len(r) = N /\ \A i \in 1..N : r[i] = "rcpt"
  BY <1>1 DEF Steps
<1>5. sm = SignIn \o m /\ smr = sm \o r /\ SendScript = smr \o d
  BY DEF SendScript
<1> HIDE DEF m, r, d, sm, smr
<1>6. sm \in Seq(Steps) /\ Len(sm) = 10 /\ \A i \in 1..10 : sm[i] \notin {"rcpt", "body"}
  <2>1. /\ sm \in Seq(Steps) /\ Len(sm) = Len(SignIn) + Len(m)
        /\ \A i \in 1..(Len(SignIn) + Len(m)) :
             sm[i] = IF i <= Len(SignIn) THEN SignIn[i] ELSE m[i - Len(SignIn)]
    <3>1. SignIn \in Seq(Steps) /\ m \in Seq(Steps)
      BY <1>2, SignInSteps
    <3>2. QED
      BY <1>5, <3>1, Joined
  <2>2. QED
    BY <1>2, <2>1, SignInSteps
<1>7. /\ smr \in Seq(Steps) /\ Len(smr) = N + 10
      /\ \A i \in 1..(N + 10) : smr[i] = IF i <= 10 THEN sm[i] ELSE "rcpt"
  <2>1. /\ smr \in Seq(Steps) /\ Len(smr) = Len(sm) + Len(r)
        /\ \A i \in 1..(Len(sm) + Len(r)) : smr[i] = IF i <= Len(sm) THEN sm[i] ELSE r[i - Len(sm)]
    <3>1. sm \in Seq(Steps) /\ r \in Seq(Steps)
      BY <1>4, <1>6
    <3>2. QED
      BY <1>5, <3>1, Joined
  <2>2. QED
    BY <1>1, <1>4, <1>6, <2>1
<1>8. /\ SendScript \in Seq(Steps) /\ Len(SendScript) = N + 13
      /\ \A i \in 1..(N + 13) :
           SendScript[i] = IF i <= N + 10 THEN smr[i] ELSE d[i - (N + 10)]
  <2>1. /\ SendScript \in Seq(Steps) /\ Len(SendScript) = Len(smr) + Len(d)
        /\ \A i \in 1..(Len(smr) + Len(d)) :
             SendScript[i] = IF i <= Len(smr) THEN smr[i] ELSE d[i - Len(smr)]
    <3>1. smr \in Seq(Steps) /\ d \in Seq(Steps)
      BY <1>3, <1>7
    <3>2. QED
      BY <1>5, <3>1, Joined
  <2>2. QED
    BY <1>1, <1>3, <1>7, <2>1
<1>9. ASSUME NEW i \in 1..(N + 13)
      PROVE  /\ SendScript[i] = "rcpt" <=> i \in 11..(N + 10)
             /\ SendScript[i] = "body" <=> i = N + 12
  <2>1. CASE i \in 1..10
    <3>1. SendScript[i] = sm[i] /\ sm[i] \notin {"rcpt", "body"} /\ i # N + 12
      BY <1>1, <1>6, <1>7, <1>8, <2>1
    <3>2. QED
      BY <1>1, <2>1, <3>1
  <2>2. CASE i \in 11..(N + 10)
    BY <1>1, <1>7, <1>8, <2>2
  <2>3. CASE i \in (N + 11)..(N + 13)
    <3>1. /\ SendScript[i] = d[i - (N + 10)] /\ i \notin 11..(N + 10)
          /\ i - (N + 10) \in {1, 2, 3} /\ (i - (N + 10) = 2 <=> i = N + 12)
      BY <1>1, <1>8, <2>3
    <3>2. QED
      BY <1>3, <3>1
  <2>4. QED
    BY <1>1, <2>1, <2>2, <2>3
<1>10. QED
  BY <1>8, <1>9

(* What testCredentials() goes through: nothing is sent.                     *)
LEMMA TestSteps ==
  /\ TestScript \in Seq(Steps) /\ Len(TestScript) = 10
  /\ \A i \in 1..10 : TestScript[i] \notin {"rcpt", "body"}
<1> DEFINE q == <<"quit">>
<1>1. q \in Seq(Steps) /\ Len(q) = 1 /\ q[1] = "quit"
  BY DEF Steps
<1>2. TestScript = SignIn \o q
  BY DEF TestScript
<1> HIDE DEF q
<1>3. /\ TestScript \in Seq(Steps) /\ Len(TestScript) = Len(SignIn) + Len(q)
      /\ \A i \in 1..(Len(SignIn) + Len(q)) :
           TestScript[i] = IF i <= Len(SignIn) THEN SignIn[i] ELSE q[i - Len(SignIn)]
  <2>1. SignIn \in Seq(Steps) /\ q \in Seq(Steps)
    BY <1>1, SignInSteps
  <2>2. QED
    BY <1>2, <2>1, Joined
<1>4. QED
  BY <1>1, <1>3, SignInSteps

(* Where the recipients and the message stand in the script at hand.         *)
LEMMA ScriptSteps ==
  ASSUME purpose \in {"send", "test"}
  PROVE  /\ N \in Nat /\ N > 0
         /\ Len(Script) \in 10..(N + 13) /\ Len(SendScript) = N + 13 /\ Len(SignIn) = 9
         /\ purpose = "send" => Len(Script) = N + 13
         /\ \A i \in 1..Len(Script) :
              /\ Script[i] \in Steps
              /\ Script[i] = "rcpt" <=> purpose = "send" /\ i \in 11..(N + 10)
              /\ Script[i] = "body" <=> purpose = "send" /\ i = N + 12
<1>1. N \in Nat /\ N > 0
  BY RecipientsAssumption
<1>2. CASE purpose = "send"
  BY <1>1, <1>2, SendSteps, SignInSteps, ElementOfSeq DEF Script
<1>3. CASE purpose = "test"
  <2>1. Script = TestScript /\ 10 \in 10..(N + 13) /\ purpose # "send"
    BY <1>1, <1>3 DEF Script
  <2>2. \A i \in 1..10 : TestScript[i] \in Steps
    BY TestSteps, ElementOfSeq
  <2>3. QED
    BY <1>1, <2>1, <2>2, SendSteps, TestSteps, SignInSteps
<1>4. QED
  BY <1>2, <1>3

(* A reply that a step accepts is no refusal, and none is the code 1.        *)
LEMMA AnsweredCodes ==
  ASSUME NEW step \in Steps
  PROVE  /\ Answered[step] \subseteq Nat
         /\ Answered[step] \cap {421, 550, NoCode} = {}
         /\ step = "ehlo" => Answered[step] = {250}
BY DEF Steps, Answered, Ready, NoCode

-----------------------------------------------------------------------------
(* The invariant of a session.                                               *)

(* Gmail's envelope and message when the steps before k have been accepted.  *)
EnvelopeBefore(k) == {r \in 1..N : purpose = "send" /\ r + 10 < k}
TakenBefore(k) == IF purpose = "send" /\ k > N + 12 THEN 1..N ELSE {}

(* Gmail has not, or has, accepted the step the client is in.                *)
Before == envelope = EnvelopeBefore(at) /\ taken = TakenBefore(at)
After == envelope = EnvelopeBefore(at + 1) /\ taken = TakenBefore(at + 1)

Passes(c) == c \in Accepted(Script[at])

(* Gmail is never more than one step ahead, and not ahead of a command that  *)
(* is to be written or still on its way.                                     *)
OneAhead ==
  /\ Before \/ After
  /\ pc = "write" \/ request # 0 => Before

(* The command under way is that of the current step, and nobody has         *)
(* answered it.                                                              *)
UnderWay ==
  request # 0 => /\ request = at /\ pc # "write" /\ code = NoCode /\ inbox = <<>>
                 /\ ends \in {"pending", "error"}

(* How a call ends.                                                          *)
Ended ==
  /\ pc = "over" <=> ends # "pending"
  /\ pc = "over" => ~open
  /\ ends = "ok" => at = Len(Script) /\ After

(* Gmail's own 421 is the last line of a closed connection.                  *)
Unsolicited(i) ==
  inbox[i].of = 0 => i = Len(inbox) /\ ~open /\ inbox[i].code = 421 /\ ~inbox[i].more

(* Any other line answers the current step: a code that passes means that    *)
(* Gmail accepted the step, and the last line of the reply is in the inbox.  *)
Solicited(i) ==
  inbox[i].of # 0 =>
    /\ pc = "read" /\ inbox[i].of = at
    /\ Passes(inbox[i].code) => After
    /\ inbox[i].more => /\ Passes(inbox[i].code) /\ i + 1 \in 1..Len(inbox)
                        /\ inbox[i + 1].of = at /\ ~inbox[i + 1].more
    /\ ~inbox[i].more /\ i + 1 \in 1..Len(inbox) => inbox[i + 1].of = 0

(* A reply that has been read in part has passed so far.                     *)
Partial ==
  code # NoCode => /\ Passes(code) /\ After
                   /\ inbox # <<>> /\ inbox[1].of = at /\ ~inbox[1].more

Inbox ==
  pc # "over" => /\ Partial
                 /\ pc = "write" => code = NoCode
                 /\ \A i \in 1..Len(inbox) : Unsolicited(i) /\ Solicited(i)

SessionInv == TypeOK /\ OneAhead /\ UnderWay /\ Ended /\ Inbox

(* At the start nothing is sent, received or taken.                          *)
LEMMA InitSession == Init => SessionInv
<1> SUFFICES ASSUME Init PROVE SessionInv
  OBVIOUS
<1>1. /\ purpose \in {"send", "test"} /\ N \in Nat /\ N > 0 /\ Len(Script) \in 10..(N + 13)
  BY ScriptSteps DEF Init
<1>2. TypeOK
  BY <1>1 DEF Init, TypeOK, NoCode
<1>3. Before
  BY <1>1 DEF Init, Before, EnvelopeBefore, TakenBefore
<1>4. QED
  BY <1>2, <1>3 DEF Init, SessionInv, OneAhead, UnderWay, Ended, Inbox, Partial

-----------------------------------------------------------------------------
(* What Gmail accepts.                                                       *)

(* The step is accepted: its recipient joins the envelope, the message is    *)
(* taken for the envelope.                                                   *)
LEMMA AcceptStep ==
  ASSUME TypeOK, Before, UNCHANGED <<purpose, at>>,
         envelope' = envelope \cup (IF Script[at] = "rcpt" THEN {Recipient(at)} ELSE {}),
         taken' = IF Script[at] = "body" THEN envelope ELSE taken
  PROVE  After'
<1>1. /\ N \in Nat /\ Len(SignIn) = 9 /\ at \in Nat
      /\ Script[at] = "rcpt" <=> purpose = "send" /\ at \in 11..(N + 10)
      /\ Script[at] = "body" <=> purpose = "send" /\ at = N + 12
  BY ScriptSteps DEF TypeOK
<1>2. envelope' = EnvelopeBefore(at + 1)
  BY <1>1 DEF Before, EnvelopeBefore, Recipient
<1>3. taken' = TakenBefore(at + 1)
  <2>1. at = N + 12 /\ purpose = "send" => EnvelopeBefore(at) = 1..N
    BY <1>1 DEF EnvelopeBefore
  <2>2. QED
    BY <1>1, <2>1 DEF Before, TakenBefore
<1>4. EnvelopeBefore(at + 1)' = EnvelopeBefore(at + 1) /\ TakenBefore(at + 1)' = TakenBefore(at + 1)
  BY DEF EnvelopeBefore, TakenBefore
<1>5. QED
  BY <1>2, <1>3, <1>4 DEF After

(* The envelope and the message stand where they stood.                      *)
LEMMA SameStanding ==
  ASSUME UNCHANGED <<purpose, at, gmail>>
  PROVE  (Before <=> Before') /\ (After <=> After')
BY DEF gmail, Before, After, EnvelopeBefore, TakenBefore

(* The client goes on from an accepted step.                                 *)
LEMMA NextStanding ==
  ASSUME After, at' = at + 1, UNCHANGED <<purpose, gmail>>
  PROVE  Before'
BY DEF gmail, Before, After, EnvelopeBefore, TakenBefore

-----------------------------------------------------------------------------
(* The client's steps.                                                       *)

(* Before a command is written, only Gmail's own 421 can be in the inbox.    *)
LEMMA NothingToRead ==
  ASSUME SessionInv, pc = "write", open
  PROVE  inbox = <<>>
<1>1. inbox \in Seq(Lines) /\ \A i \in 1..Len(inbox) : Unsolicited(i) /\ Solicited(i)
  BY DEF SessionInv, TypeOK, Inbox
<1>2. \A i \in 1..Len(inbox) : FALSE
  BY <1>1 DEF Unsolicited, Solicited
<1>3. QED
  BY <1>1, <1>2, EmptySeq

(* A call that ends leaves Gmail's side alone.                               *)
LEMMA ThrowSession ==
  ASSUME SessionInv, NEW how \in {"ok", "transient", "rejected", "error"}, Throw(how),
         UNCHANGED <<purpose, request, gmail>>,
         code' \in Nat, inbox' \in Seq(Lines),
         request # 0 => how = "error" /\ code' = NoCode /\ inbox' = <<>>,
         how = "ok" => at = Len(Script) /\ After
  PROVE  SessionInv'
<1>1. pc' = "over" /\ ends' = how /\ open' = FALSE /\ at' = at /\ purpose' = purpose
  BY DEF Throw
<1>2. Script' = Script /\ SendScript' = SendScript
  BY <1>1 DEF Script, SendScript, TestScript
<1>3. (Before <=> Before') /\ (After <=> After')
  BY <1>1, SameStanding
<1>4. TypeOK'
  BY <1>1, <1>2 DEF SessionInv, TypeOK, gmail, Lines
<1>5. OneAhead' /\ UnderWay'
  BY <1>1, <1>3 DEF SessionInv, OneAhead, UnderWay
<1>6. Ended' /\ Inbox'
  BY <1>1, <1>2, <1>3 DEF Ended, Inbox
<1>7. QED
  BY <1>4, <1>5, <1>6 DEF SessionInv

(* write().                                                                  *)
LEMMA WriteSession ==
  ASSUME SessionInv, Write
  PROVE  SessionInv'
<1>1. /\ pc = "write" /\ UNCHANGED <<purpose, code, inbox, gmail>>
      /\ \/ open /\ request' = at /\ pc' = "read" /\ UNCHANGED <<at, ends, open>>
         \/ Throw("error") /\ UNCHANGED request
  BY DEF Write
<1>2. TypeOK /\ code = NoCode /\ request = 0 /\ ends = "pending" /\ Before
  BY <1>1 DEF SessionInv, Inbox, UnderWay, Ended, OneAhead
<1>3. CASE Throw("error") /\ UNCHANGED request
  BY <1>1, <1>2, <1>3, ThrowSession DEF TypeOK
<1>4. CASE open /\ request' = at /\ pc' = "read" /\ UNCHANGED <<at, ends, open>>
  <2>1. inbox = <<>> /\ inbox' = <<>> /\ Len(inbox') = 0
    BY <1>1, <1>4, NothingToRead
  <2>2. Script' = Script /\ SendScript' = SendScript
    BY <1>1, <1>4 DEF Script, SendScript, TestScript
  <2>3. Before'
    BY <1>1, <1>2, <1>4, SameStanding
  <2>4. TypeOK'
    BY <1>1, <1>2, <1>4, <2>2, ScriptSteps DEF TypeOK, Lines, gmail
  <2>5. OneAhead' /\ UnderWay'
    BY <1>1, <1>2, <1>4, <2>1, <2>3 DEF OneAhead, UnderWay
  <2>6. Ended' /\ Inbox'
    BY <1>1, <1>2, <1>4, <2>1, <2>2 DEF Ended, Inbox, Partial
  <2>7. QED
    BY <2>4, <2>5, <2>6 DEF SessionInv
<1>5. QED
  BY <1>1, <1>3, <1>4

(* The wait that ends with the connection or the timeout.                    *)
LEMMA BrokenSession ==
  ASSUME SessionInv, Broken
  PROVE  SessionInv'
<1>1. pc = "read" /\ inbox = <<>> /\ Throw("error") /\ UNCHANGED <<purpose, code, inbox, request, gmail>>
  BY DEF Broken
<1>2. code = NoCode
  BY <1>1 DEF SessionInv, Inbox, Partial
<1>3. QED
  BY <1>1, <1>2, ThrowSession DEF SessionInv, TypeOK

-----------------------------------------------------------------------------
(* A line is read.                                                           *)

(* The line at the head of the inbox answers the current step, or is         *)
(* Gmail's own 421; the rest of the inbox moves up.                          *)
LEMMA HeadLine ==
  ASSUME SessionInv, pc = "read", inbox # <<>>
  PROVE  /\ Head(inbox) = inbox[1] /\ Head(inbox) \in Lines
         /\ 1 \in 1..Len(inbox) /\ Len(inbox) \in Nat
         /\ Unsolicited(1) /\ Solicited(1)
         /\ Tail(inbox) \in Seq(Lines) /\ Len(Tail(inbox)) = Len(inbox) - 1
         /\ \A i \in 1..Len(Tail(inbox)) :
              Tail(inbox)[i] = inbox[i + 1] /\ i + 1 \in 1..Len(inbox)
         /\ request = 0
<1>1. inbox \in Seq(Lines) /\ \A i \in 1..Len(inbox) : Unsolicited(i) /\ Solicited(i)
  BY DEF SessionInv, TypeOK, Inbox
<1>2. Len(inbox) \in Nat /\ Len(inbox) > 0
  BY <1>1, EmptySeq
<1>3. /\ Head(inbox) \in Lines /\ Tail(inbox) \in Seq(Lines)
      /\ Len(Tail(inbox)) = Len(inbox) - 1
      /\ \A i \in 1..Len(Tail(inbox)) : Tail(inbox)[i] = inbox[i + 1]
  BY <1>1, HeadTailProperties
<1>4. Head(inbox) = inbox[1]
  BY <1>1
<1>5. request = 0
  BY DEF SessionInv, UnderWay
<1>6. QED
  BY <1>1, <1>2, <1>3, <1>4, <1>5

(* What holds of the lines of an inbox holds when its head is gone, while    *)
(* the client stays in its step.                                             *)
LEMMA ShiftLines ==
  ASSUME SessionInv, pc = "read", inbox # <<>>, inbox' = Tail(inbox),
         UNCHANGED <<purpose, at, pc, open, gmail>>
  PROVE  \A i \in 1..Len(inbox') : Unsolicited(i)' /\ Solicited(i)'
<1> SUFFICES ASSUME NEW i \in 1..Len(inbox') PROVE Unsolicited(i)' /\ Solicited(i)'
  OBVIOUS
<1>1. /\ i \in Nat /\ i + 1 \in 1..Len(inbox) /\ Len(inbox) \in Nat
      /\ Len(inbox') = Len(inbox) - 1
      /\ inbox'[i] = inbox[i + 1]
      /\ \A j \in 1..Len(inbox') : inbox'[j] = inbox[j + 1]
  BY HeadLine
<1>2. Unsolicited(i + 1) /\ Solicited(i + 1)
  BY <1>1 DEF SessionInv, Inbox
<1>3. Script' = Script /\ (After <=> After')
  BY SameStanding DEF Script, SendScript, TestScript
<1>4. Unsolicited(i)'
  <2>1. i = Len(inbox') <=> i + 1 = Len(inbox)
    BY <1>1
  <2>2. open' = open /\ inbox'[i] = inbox[i + 1]
    BY <1>1
  <2>3. QED
    BY <1>2, <2>1, <2>2 DEF Unsolicited
<1>5. i + 1 \in 1..Len(inbox') <=> (i + 1) + 1 \in 1..Len(inbox)
  BY <1>1
<1>6. i + 1 \in 1..Len(inbox') => inbox'[i + 1] = inbox[(i + 1) + 1]
  BY <1>1
<1>7. Solicited(i)'
  BY <1>1, <1>2, <1>3, <1>5, <1>6 DEF Solicited, Passes, Accepted
<1>8. QED
  BY <1>4, <1>7

(* The first line of a longer reply: the client waits for the rest of it.    *)
LEMMA ReadOn ==
  ASSUME SessionInv, ReadLine, Head(inbox).more
  PROVE  SessionInv'
<1>1. /\ pc = "read" /\ inbox # <<>> /\ inbox' = Tail(inbox)
      /\ code' = IF code = NoCode THEN Head(inbox).code ELSE code
      /\ UNCHANGED <<purpose, at, pc, ends, open, request, gmail>>
  BY DEF ReadLine, Continues
<1>2. TypeOK /\ OneAhead /\ UnderWay /\ Ended /\ Partial
  BY <1>1 DEF SessionInv, Inbox
<1>3. /\ inbox[1].of # 0 /\ inbox[1].of = at /\ Passes(inbox[1].code) /\ After
      /\ 2 \in 1..Len(inbox) /\ inbox[2].of = at /\ ~inbox[2].more
  BY <1>1, HeadLine DEF Unsolicited, Solicited
<1>4. code' = inbox[1].code /\ code' \in Nat
  BY <1>1, <1>2, <1>3, HeadLine DEF Partial, Lines
<1>5. Script' = Script /\ SendScript' = SendScript /\ (Before <=> Before') /\ (After <=> After')
  BY <1>1, SameStanding DEF Script, SendScript, TestScript
<1>6. TypeOK'
  BY <1>1, <1>2, <1>4, <1>5, HeadLine DEF TypeOK, Lines, gmail
<1>7. OneAhead' /\ UnderWay' /\ Ended'
  <2>1. request = 0
    BY <1>1, HeadLine
  <2>2. QED
    BY <1>1, <1>2, <1>5, <2>1 DEF OneAhead, UnderWay, Ended
<1>8. Partial'
  <2>1. inbox'[1] = inbox[2] /\ Len(inbox') > 0 /\ inbox' \in Seq(Lines)
    BY <1>1, <1>3, HeadLine
  <2>2. inbox' # <<>>
    BY <2>1, EmptySeq
  <2>3. QED
    BY <1>1, <1>3, <1>4, <1>5, <2>1, <2>2 DEF Partial, Passes, Accepted
<1>9. QED
  BY <1>1, <1>6, <1>7, <1>8, ShiftLines DEF SessionInv, Inbox

(* The last line of a reply: the next command, the return or the throw.      *)
LEMMA ReadLast ==
  ASSUME SessionInv, ReadLine, ~Head(inbox).more
  PROVE  SessionInv'
<1> DEFINE c == IF code = NoCode THEN Head(inbox).code ELSE code
<1>1. /\ pc = "read" /\ inbox # <<>> /\ inbox' = Tail(inbox)
      /\ code' = NoCode /\ Conclude(c)
      /\ UNCHANGED <<purpose, request, gmail>>
  BY DEF ReadLine, Continues
<1>2. TypeOK /\ Ended /\ Partial /\ ends = "pending" /\ request = 0 /\ code' \in Nat
  BY <1>1, HeadLine DEF SessionInv, Inbox, Ended, NoCode
<1>3. Script[at] \in Steps /\ at \in Nat
  BY <1>2, ScriptSteps DEF TypeOK
<1>4. ASSUME Passes(c) PROVE After /\ inbox[1].of = at /\ inbox[1].of # 0
  <2>1. CASE code # NoCode
    BY <1>2, <1>3, <2>1 DEF Partial, TypeOK
  <2>2. CASE code = NoCode
    <3>1. c = inbox[1].code /\ c # 421
      BY <1>1, <1>3, <1>4, <2>2, HeadLine, AnsweredCodes DEF Passes, Accepted
    <3>2. QED
      BY <1>1, <1>4, <3>1, HeadLine DEF Unsolicited, Solicited
  <2>3. QED
    BY <2>1, <2>2
<1>5. ASSUME NEW how \in {"ok", "transient", "rejected", "error"}, Throw(how),
             how = "ok" => at = Len(Script) /\ Passes(c)
      PROVE  SessionInv'
  BY <1>1, <1>2, <1>4, <1>5, HeadLine, ThrowSession
<1>6. CASE /\ Passes(c) /\ at < Len(Script) /\ at' = at + 1 /\ pc' = "write"
           /\ UNCHANGED <<ends, open>>
  <2>1. Script' = Script /\ SendScript' = SendScript
    BY <1>1 DEF Script, SendScript, TestScript
  <2>2. Before'
    BY <1>1, <1>4, <1>6, NextStanding
  <2>3. TypeOK'
    <3>1. at' \in 1..Len(Script) /\ inbox' \in Seq(Lines)
      BY <1>1, <1>2, <1>6, ScriptSteps, HeadLine DEF TypeOK
    <3>2. QED
      BY <1>1, <1>2, <1>6, <2>1, <3>1 DEF TypeOK, Lines, gmail
  <2>4. OneAhead' /\ UnderWay' /\ Ended'
    BY <1>1, <1>2, <1>6, <2>2 DEF OneAhead, UnderWay, Ended
  <2>5. ASSUME NEW i \in 1..Len(inbox') PROVE Unsolicited(i)' /\ Solicited(i)'
    <3>1. /\ i + 1 \in 1..Len(inbox) /\ Len(inbox) \in Nat /\ Len(inbox') = Len(inbox) - 1
          /\ inbox'[i] = inbox[i + 1] /\ i \in Nat /\ 2 \in 1..Len(inbox)
      BY <1>1, HeadLine
    <3>2. inbox[2].of = 0 /\ Unsolicited(2) /\ Unsolicited(i + 1)
      BY <1>1, <1>4, <1>6, <3>1, HeadLine DEF Solicited, SessionInv, Inbox
    <3>3. i = 1
      <4>1. Len(inbox) = 2
        BY <3>2 DEF Unsolicited
      <4>2. QED
        BY <3>1, <4>1
    <3>4. QED
      BY <1>6, <3>1, <3>2, <3>3 DEF Unsolicited, Solicited
  <2>6. Inbox'
    BY <1>1, <1>6, <2>5 DEF Inbox, Partial
  <2>7. QED
    BY <2>3, <2>4, <2>6 DEF SessionInv
<1>7. QED
  <2>1. Throw("ok") /\ Passes(c) /\ at = Len(Script) => SessionInv'
    BY <1>5
  <2>2. Throw("transient") => SessionInv'
    BY <1>5
  <2>3. Throw("rejected") => SessionInv'
    BY <1>5
  <2>4. QED
    BY <1>1, <1>6, <2>1, <2>2, <2>3 DEF Conclude, Passes

-----------------------------------------------------------------------------
(* Gmail's steps.                                                            *)

(* A sequence of two.                                                        *)
LEMMA Pair ==
  ASSUME NEW S, NEW x \in S, NEW y \in S
  PROVE  /\ <<x, y>> \in Seq(S) /\ Len(<<x, y>>) = 2 /\ <<x, y>> # <<>>
         /\ <<x, y>>[1] = x /\ <<x, y>>[2] = y
OBVIOUS

(* A line that arrives behind the others.                                    *)
LEMMA Appended ==
  ASSUME NEW S, NEW s \in Seq(S), NEW x \in S, NEW u, u = Append(s, x)
  PROVE  /\ u \in Seq(S) /\ Len(u) = Len(s) + 1 /\ u[Len(s) + 1] = x
         /\ \A i \in 1..Len(s) : u[i] = s[i]
BY AppendProperties, Zenon

(* r is the reply with code c to the command of step i: two lines to EHLO,   *)
(* one to any other command.                                                 *)
Answers(r, c, i) ==
  /\ r \in Seq(Lines) /\ Len(r) \in {1, 2} /\ <<>> \o r = r
  /\ Len(r) = 2 => c = 250 /\ Script[i] = "ehlo"
  /\ \A k \in 1..Len(r) : r[k].of = i /\ r[k].code = c /\ (r[k].more <=> k < Len(r))

(* What Gmail writes is such a reply.                                        *)
LEMMA ReplyLines ==
  ASSUME TypeOK, NEW i \in 1..Len(Script), NEW c \in Nat, NEW r, r = Reply(c, i)
  PROVE  Answers(r, c, i)
<1>1. i \in 0..Len(SendScript)
  BY ScriptSteps DEF TypeOK
<1>2. Line(c, TRUE, i) \in Lines /\ Line(c, FALSE, i) \in Lines
  BY <1>1 DEF Line, Lines
<1>3. CASE Script[i] = "ehlo" /\ c = 250
  <2>1. r = <<Line(c, TRUE, i), Line(c, FALSE, i)>>
    BY <1>3 DEF Reply
  <2>2. r \in Seq(Lines) /\ Len(r) = 2 /\ r[1] = Line(c, TRUE, i) /\ r[2] = Line(c, FALSE, i)
    <3>1. /\ <<Line(c, TRUE, i), Line(c, FALSE, i)>> \in Seq(Lines)
          /\ Len(<<Line(c, TRUE, i), Line(c, FALSE, i)>>) = 2
          /\ <<Line(c, TRUE, i), Line(c, FALSE, i)>>[1] = Line(c, TRUE, i)
          /\ <<Line(c, TRUE, i), Line(c, FALSE, i)>>[2] = Line(c, FALSE, i)
      BY <1>2, Pair
    <3>2. QED
      BY <2>1, <3>1, Zenon
  <2>3. <<>> \o r = r
    BY <2>2, ConcatEmptySeq
  <2>4. \A k \in 1..Len(r) : k = 1 \/ k = 2
    BY <2>2
  <2>5. QED
    BY <1>3, <2>2, <2>3, <2>4 DEF Line, Answers
<1>4. CASE ~(Script[i] = "ehlo" /\ c = 250)
  <2>1. r = <<Line(c, FALSE, i)>>
    BY <1>4 DEF Reply
  <2>2. QED
    BY <1>2, <2>1, ConcatEmptySeq DEF Line, Answers
<1>5. QED
  BY <1>3, <1>4

(* Gmail answers the command under way, as long as the connection stands;    *)
(* or the answer is lost.                                                    *)
LEMMA ServeSession ==
  ASSUME SessionInv, Serve
  PROVE  SessionInv'
<1>1. /\ request # 0 /\ request' = 0 /\ request = at
      /\ UNCHANGED <<purpose, at, pc, code, ends, open>>
  BY DEF Serve, client, SessionInv, UnderWay
<1>2. /\ TypeOK /\ Before /\ Ended /\ code = NoCode /\ inbox = <<>> /\ pc # "write"
      /\ ends # "ok"
  BY <1>1 DEF SessionInv, OneAhead, UnderWay
<1>3. /\ at \in 1..Len(Script) /\ Script[at] \in Steps /\ at \in Nat /\ at # 0
      /\ Script' = Script /\ SendScript' = SendScript
  BY <1>1, <1>2, ScriptSteps DEF TypeOK, Script, SendScript, TestScript
<1>4. PICK c \in Answered[Script[at]] \cup Refusals :
        /\ inbox' = IF open THEN inbox \o Reply(c, at) ELSE inbox
        /\ \/ /\ c \in Answered[Script[at]]
              /\ envelope' = envelope \cup (IF Script[at] = "rcpt" THEN {Recipient(at)} ELSE {})
              /\ taken' = IF Script[at] = "body" THEN envelope ELSE taken
           \/ c \in Refusals /\ UNCHANGED gmail
  BY <1>1 DEF Serve
<1>5. /\ c \in Nat
      /\ Passes(c) <=> c \in Answered[Script[at]]
      /\ c = 250 /\ Script[at] = "ehlo" => Passes(c)
      /\ c \in Refusals => ~Passes(c)
  BY <1>3, <1>4, AnsweredCodes DEF Refusals, Passes, Accepted
<1>6. (Before \/ After)' /\ (Passes(c) => After')
  <2>1. CASE c \in Refusals /\ UNCHANGED gmail
    BY <1>1, <1>2, <1>5, <2>1, SameStanding
  <2>2. CASE /\ envelope' = envelope \cup (IF Script[at] = "rcpt" THEN {Recipient(at)} ELSE {})
             /\ taken' = IF Script[at] = "body" THEN envelope ELSE taken
    BY <1>1, <1>2, <2>2, AcceptStep
  <2>3. QED
    BY <1>4, <2>1, <2>2
<1>7. envelope' \subseteq 1..N /\ taken' \subseteq 1..N
  BY <1>6 DEF Before, After, EnvelopeBefore, TakenBefore
<1>8. PICK r : r = Reply(c, at)
  OBVIOUS
<1>9. /\ r \in Seq(Lines) /\ Len(r) \in {1, 2}
      /\ Len(r) = 2 => Passes(c)
      /\ \A k \in 1..Len(r) : r[k].of = at /\ r[k].code = c /\ (r[k].more <=> k < Len(r))
      /\ open => inbox' = r
      /\ ~open => inbox' = <<>>
  <2>1. /\ r \in Seq(Lines) /\ Len(r) \in {1, 2} /\ <<>> \o r = r
        /\ Len(r) = 2 => c = 250 /\ Script[at] = "ehlo"
        /\ \A k \in 1..Len(r) : r[k].of = at /\ r[k].code = c /\ (r[k].more <=> k < Len(r))
    <3>1. TypeOK /\ at \in 1..Len(Script) /\ c \in Nat
      BY <1>2, <1>3, <1>5
    <3>2. Answers(r, c, at)
      BY <1>8, <3>1, ReplyLines
    <3>3. QED
      BY <3>2 DEF Answers
  <2>2. open => inbox' = r
    BY <1>2, <1>4, <1>8, <2>1
  <2>3. ~open => inbox' = <<>>
    BY <1>2, <1>4
  <2>4. QED
    BY <1>5, <2>1, <2>2, <2>3
<1>10. TypeOK'
  <2>1. inbox' \in Seq(Lines)
    BY <1>2, <1>9 DEF TypeOK
  <2>2. QED
    BY <1>1, <1>2, <1>3, <1>7, <2>1 DEF TypeOK, Lines
<1>11. OneAhead' /\ UnderWay' /\ Ended'
  BY <1>1, <1>2, <1>6 DEF OneAhead, UnderWay, Ended
<1>12. Inbox'
  <2>1. CASE pc = "over"
    BY <1>1, <2>1 DEF Inbox
  <2>2. CASE ~open
    <3>1. \A k \in 1..Len(inbox') : FALSE
      BY <1>9, <2>2
    <3>2. QED
      BY <1>1, <1>2, <3>1 DEF Inbox, Partial
  <2>3. CASE pc = "read" /\ open
    <3>1. ASSUME NEW k \in 1..Len(inbox') PROVE Unsolicited(k)' /\ Solicited(k)'
      <4>1. /\ inbox' = r /\ r[k].of = at /\ r[k].code = c /\ (r[k].more <=> k < Len(r))
            /\ k \in 1..Len(r)
        BY <1>9, <2>3, <3>1
      <4>2. Passes(inbox[k].code)' <=> Passes(c)
        BY <1>1, <1>3, <4>1 DEF Passes, Accepted
      <4>3. inbox'[k].of = at' /\ pc' = "read"
        BY <1>1, <2>3, <4>1
      <4>4. r[k].more => /\ Passes(c) /\ k + 1 \in 1..Len(r)
                         /\ r[k + 1].of = at /\ ~r[k + 1].more
        BY <1>9, <4>1
      <4>5. ~r[k].more => k + 1 \notin 1..Len(r)
        BY <1>9, <4>1
      <4>6. Unsolicited(k)'
        BY <1>1, <1>3, <4>1 DEF Unsolicited
      <4>7. Solicited(k)'
        BY <1>1, <1>6, <4>1, <4>2, <4>3, <4>4, <4>5 DEF Solicited
      <4>8. QED
        BY <4>6, <4>7
    <3>2. QED
      BY <1>1, <1>2, <3>1 DEF Inbox, Partial
  <2>4. QED
    BY <1>2, <2>1, <2>2, <2>3 DEF TypeOK
<1>13. QED
  BY <1>10, <1>11, <1>12 DEF SessionInv

(* The connection breaks, or Gmail ends it with a 421 of its own, which is   *)
(* then the last line that arrives.                                          *)
LEMMA HangupSession ==
  ASSUME SessionInv, Hangup
  PROVE  SessionInv'
<1>1. /\ open /\ open' = FALSE /\ request' \in {0, request} /\ UNCHANGED <<client, gmail>>
      /\ \/ UNCHANGED inbox
         \/ request' = 0 /\ inbox' = Append(inbox, Line(421, FALSE, 0))
      /\ UNCHANGED <<purpose, at, pc, code, ends, envelope, taken>>
  BY DEF Hangup, client, gmail
<1>2. /\ TypeOK /\ OneAhead /\ UnderWay /\ Ended /\ Inbox
      /\ Script' = Script /\ SendScript' = SendScript
      /\ (Before <=> Before') /\ (After <=> After')
      /\ inbox \in Seq(Lines) /\ Len(inbox) \in Nat /\ pc # "over"
  <2>1. Script' = Script /\ SendScript' = SendScript
    BY <1>1 DEF Script, SendScript, TestScript
  <2>2. (Before <=> Before') /\ (After <=> After')
    BY <1>1, SameStanding
  <2>3. TypeOK /\ OneAhead /\ UnderWay /\ Ended /\ Inbox
    BY DEF SessionInv
  <2>4. inbox \in Seq(Lines) /\ pc # "over"
    BY <1>1, <2>3 DEF TypeOK, Ended
  <2>5. QED
    BY <2>1, <2>2, <2>3, <2>4
<1>3. Line(421, FALSE, 0) \in Lines
  <2>1. Len(SendScript) \in Nat
    BY SendSteps, RecipientsAssumption
  <2>2. QED
    BY <2>1 DEF Line, Lines
<1>4. /\ inbox' \in Seq(Lines) /\ Len(inbox') \in {Len(inbox), Len(inbox) + 1}
      /\ \A k \in 1..Len(inbox) : inbox'[k] = inbox[k] /\ inbox'[k].of # 0
      /\ \A k \in 1..Len(inbox') : k \in 1..Len(inbox) \/ k = Len(inbox) + 1
      /\ Len(inbox') # Len(inbox) => inbox'[Len(inbox) + 1] = Line(421, FALSE, 0)
  <2>1. \A k \in 1..Len(inbox) : inbox[k].of # 0
    BY <1>1, <1>2 DEF Inbox, Unsolicited
  <2>2. CASE UNCHANGED inbox
    BY <1>2, <2>1, <2>2
  <2>3. CASE inbox' = Append(inbox, Line(421, FALSE, 0))
    <3>1. /\ inbox' \in Seq(Lines) /\ Len(inbox') = Len(inbox) + 1
          /\ \A k \in 1..Len(inbox) : inbox'[k] = inbox[k]
          /\ inbox'[Len(inbox) + 1] = Line(421, FALSE, 0)
      <4>1. PICK line \in Lines : line = Line(421, FALSE, 0)
        BY <1>3
      <4>2. inbox \in Seq(Lines) /\ inbox' = Append(inbox, line)
        BY <1>2, <2>3, <4>1
      <4>3. /\ inbox' \in Seq(Lines) /\ Len(inbox') = Len(inbox) + 1
            /\ inbox'[Len(inbox) + 1] = line
            /\ \A i \in 1..Len(inbox) : inbox'[i] = inbox[i]
        BY <4>2, Appended
      <4>4. QED
        BY <4>1, <4>3
    <3>2. QED
      BY <1>2, <2>1, <3>1
  <2>4. QED
    BY <1>1, <2>2, <2>3
<1>5. TypeOK'
  <2>1. inbox' \in Seq(Lines) /\ request' \in 0..Len(Script)
    BY <1>1, <1>2, <1>4, ScriptSteps DEF TypeOK
  <2>2. Lines' = Lines
    BY <1>2 DEF Lines
  <2>3. UNCHANGED <<purpose, at, pc, code, ends, envelope, taken, Script>> /\ open' \in BOOLEAN
    BY <1>1, <1>2
  <2>4. TypeOK
    BY <1>2
  <2>5. QED
    BY <2>1, <2>2, <2>3, <2>4 DEF TypeOK
<1>6. OneAhead' /\ UnderWay' /\ Ended'
  BY <1>1, <1>2 DEF OneAhead, UnderWay, Ended
<1>7. Inbox'
  <2>1. ASSUME NEW k \in 1..Len(inbox') PROVE Unsolicited(k)' /\ Solicited(k)'
    <3>1. CASE k \in 1..Len(inbox)
      <4>1. Solicited(k) /\ inbox'[k] = inbox[k] /\ inbox'[k].of # 0 /\ k \in Nat
        BY <1>1, <1>2, <1>4, <3>1 DEF Inbox
      <4>2. k + 1 \in 1..Len(inbox) => inbox'[k + 1] = inbox[k + 1] /\ k + 1 \in 1..Len(inbox')
        BY <1>2, <1>4, <3>1
      <4>3. k + 1 \in 1..Len(inbox') /\ k + 1 \notin 1..Len(inbox)
              => inbox'[k + 1] = Line(421, FALSE, 0)
        BY <1>2, <1>4, <3>1
      <4>4. Passes(inbox[k].code)' <=> Passes(inbox[k].code)
        BY <1>1, <1>2, <4>1 DEF Passes, Accepted
      <4>5. QED
        BY <1>1, <1>2, <4>1, <4>2, <4>3, <4>4 DEF Unsolicited, Solicited, Line
    <3>2. CASE k \notin 1..Len(inbox)
      <4>1. k = Len(inbox') /\ inbox'[k] = Line(421, FALSE, 0)
        BY <1>2, <1>4, <2>1, <3>2
      <4>2. QED
        BY <1>1, <4>1 DEF Unsolicited, Solicited, Line
    <3>3. QED
      BY <3>1, <3>2
  <2>2. Partial'
    <3>1. CASE code = NoCode
      BY <1>1, <3>1 DEF Partial
    <3>2. CASE code # NoCode
      <4>1. /\ Passes(code) /\ After /\ inbox # <<>> /\ inbox[1].of = at /\ ~inbox[1].more
        BY <1>2, <3>2 DEF Inbox, Partial
      <4>2. Len(inbox) > 0
        BY <1>2, <4>1, EmptySeq
      <4>3. inbox'[1] = inbox[1] /\ Len(inbox') > 0
        BY <1>2, <1>4, <4>2
      <4>4. inbox' # <<>>
        BY <4>3
      <4>5. QED
        BY <1>1, <1>2, <4>1, <4>3, <4>4 DEF Partial, Passes, Accepted
    <3>3. QED
      BY <3>1, <3>2
  <2>3. QED
    BY <1>1, <1>2, <2>1, <2>2 DEF Inbox
<1>8. QED
  BY <1>5, <1>6, <1>7 DEF SessionInv

-----------------------------------------------------------------------------
(* The invariant holds throughout.                                           *)
LEMMA SessionInvAlways == Spec => []SessionInv
<1>1. SessionInv /\ [Next]_vars => SessionInv'
  <2> SUFFICES ASSUME SessionInv, [Next]_vars PROVE SessionInv'
    OBVIOUS
  <2>1. CASE UNCHANGED vars
    <3>1. UNCHANGED <<purpose, at, pc, code, ends, inbox, open, request, envelope, taken>>
      BY <2>1 DEF vars, client, gmail
    <3>2. Script' = Script /\ SendScript' = SendScript
      BY <3>1 DEF Script, SendScript, TestScript
    <3>3. TypeOK' /\ OneAhead' /\ UnderWay' /\ Ended'
      BY <3>1, <3>2, SameStanding
         DEF SessionInv, TypeOK, OneAhead, UnderWay, Ended, Lines, gmail
    <3>4. Inbox'
      BY <3>1, <3>2, SameStanding
         DEF SessionInv, Inbox, Partial, Passes, Accepted, Unsolicited, Solicited, gmail
    <3>5. QED
      BY <3>3, <3>4 DEF SessionInv
  <2>2. CASE Write
    BY <2>2, WriteSession
  <2>3. CASE ReadLine
    BY <2>3, ReadOn, ReadLast
  <2>4. CASE Broken
    BY <2>4, BrokenSession
  <2>5. CASE Serve
    BY <2>5, ServeSession
  <2>6. CASE Hangup
    BY <2>6, HangupSession
  <2>7. QED
    BY <2>1, <2>2, <2>3, <2>4, <2>5, <2>6 DEF Next, Client
<1>2. QED
  BY <1>1, InitSession, PTL DEF Spec

-----------------------------------------------------------------------------
(* The variables of an SMTP session (GmailSmtpTransport) keep their types.   *)
THEOREM SessionTypes == Spec => []TypeOK
<1>1. SessionInv => TypeOK
  BY DEF SessionInv
<1>2. QED
  BY <1>1, SessionInvAlways, PTL

(* For any number of recipients Gmail takes the message for all of them or   *)
(* for none: send() reaches DATA only when every RCPT was accepted.          *)
THEOREM AllOrNothingAlways == Spec => []AllOrNothing
<1>1. SessionInv => AllOrNothing
  BY DEF SessionInv, OneAhead, Before, After, TakenBefore, AllOrNothing
<1>2. QED
  BY <1>1, SessionInvAlways, PTL

(* response() never takes a line of the answer to one command for the answer *)
(* to another, be the reply in parts or cut off wherever the connection ends.*)
THEOREM InStepAlways == Spec => []InStep
<1>1. SessionInv => InStep
  <2> SUFFICES ASSUME SessionInv, pc = "read", inbox # <<>> PROVE Head(inbox).of \in {0, at}
    BY DEF InStep
  <2>1. QED
    BY HeadLine DEF Solicited
<1>2. QED
  BY <1>1, SessionInvAlways, PTL

(* Whatever Gmail and the network do, a session does what processor.ts       *)
(* relies on: send() returns only when Gmail has taken the message, and the  *)
(* call ends once.                                                           *)
THEOREM SessionImplementsOneSend == Spec => ImplementsOneSend
<1> DEFINE outcome == IF purpose = "send" THEN ends ELSE "pending"
<1>1. Init => Caller!Init
  BY DEF Init, Caller!Init
<1>2. ASSUME SessionInv, SessionInv', [Next]_vars
      PROVE  [Caller!Accept \/ Caller!End]_Caller!send
  <2>1. /\ TypeOK /\ OneAhead /\ UnderWay /\ Ended /\ N \in Nat /\ N > 0
        /\ purpose = "send" => Len(Script) = N + 13
        /\ OneAhead' /\ UnderWay' /\ Ended'
    BY <1>2, ScriptSteps DEF SessionInv, TypeOK
  <2>2. ASSUME UNCHANGED <<purpose, gmail>>, ends' # ends
        PROVE  [Caller!Accept \/ Caller!End]_Caller!send
    <3>1. /\ ends = "pending" /\ ends' \in {"ok", "transient", "rejected", "error"}
          /\ Throw(ends')
      BY <1>2, <2>1, <2>2 DEF Next, Client, Write, ReadLine, Conclude, Broken, Serve, Hangup,
                              Throw, vars, client, Ended
    <3>2. CASE purpose # "send"
      BY <2>2, <3>2 DEF Caller!send, gmail
    <3>3. CASE purpose = "send"
      <4>1. ends' = "ok" => taken # {}
        <5>1. ends' = "ok" => taken' = TakenBefore(at + 1)' /\ at' = Len(Script)' /\ Len(Script)' = N + 13
          BY <2>1, <2>2, <3>3 DEF Ended, After, Script, SendScript
        <5>2. ends' = "ok" => taken' = 1..N
          BY <2>1, <2>2, <3>3, <5>1 DEF TakenBefore
        <5>3. QED
          BY <2>1, <2>2, <5>2 DEF gmail
      <4>2. QED
        BY <2>2, <3>1, <3>3, <4>1 DEF Caller!End, gmail
    <3>4. QED
      BY <3>2, <3>3
  <2>3. CASE UNCHANGED <<purpose, ends, gmail>>
    BY <2>3 DEF Caller!send, gmail
  <2>4. CASE Serve
    <3>1. purpose' = purpose /\ at' = at /\ ends' = ends /\ request # 0
      BY <2>4 DEF Serve, client
    <3>2. /\ Before /\ outcome \in {"pending", "error"} /\ outcome' = outcome
          /\ Before' \/ After'
      BY <2>1, <3>1 DEF OneAhead, UnderWay
    <3>3. CASE taken' = taken
      BY <3>2, <3>3 DEF Caller!send
    <3>4. CASE taken' # taken
      <4>1. taken = TakenBefore(at) /\ taken' \in {TakenBefore(at), TakenBefore(at + 1)}
        BY <3>1, <3>2 DEF Before, After, TakenBefore
      <4>2. at \in Nat /\ 1 \in 1..N
        BY <2>1, ScriptSteps DEF TypeOK
      <4>3. ~(taken # {}) /\ taken' # {}
        BY <2>1, <3>4, <4>1, <4>2 DEF TakenBefore
      <4>4. QED
        BY <3>2, <4>3 DEF Caller!Accept
    <3>5. QED
      BY <3>3, <3>4
  <2>5. purpose' = purpose /\ (UNCHANGED gmail \/ Serve)
    BY <1>2 DEF Next, Client, Write, ReadLine, Broken, Serve, Hangup, vars, client
  <2>6. QED
    BY <2>2, <2>3, <2>4, <2>5
<1>3. QED
  BY <1>1, <1>2, SessionInvAlways, PTL DEF Spec, ImplementsOneSend, Caller!Spec
=============================================================================
