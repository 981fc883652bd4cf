----------------------------- MODULE QuotaLedger -----------------------------
(***************************************************************************)
(* The daily recipient quota of a sender (packages/database/src/quota.ts): *)
(* what a set of QuotaReservation rows adds up to, shared by the delivery  *)
(* pipeline and by the model of the reservation transaction.               *)
(*                                                                         *)
(* A reservation counts recipients, so the rows are seen as a set of       *)
(* <<message, recipient>> units and SUM(recipientCount) is the number of   *)
(* units.  A day is a natural number; NoDay is the day of no reservation.  *)
(***************************************************************************)
EXTENDS Naturals, FiniteSets

CONSTANTS Messages,     \* message ids (Delivery.messageId, QuotaReservation.messageId)
          Senders,      \* sender ids
          Addresses,    \* recipient addresses, after case-insensitive de-duplication
          SenderOf,     \* SenderOf[m]: Delivery.senderId of message m
          Recipients    \* Recipients[m]: the to, cc and bcc addresses of m

ASSUME LedgerAssumption ==
  /\ IsFiniteSet(Messages)
  /\ IsFiniteSet(Addresses)
  /\ SenderOf \in [Messages -> Senders]
  /\ Recipients \in [Messages -> (SUBSET Addresses) \ {{}}]

NoDay == 0

(* The quota units that the reservations `reserved' hold for sender a on day d. *)
Units(reserved, a, d) ==
  {u \in Messages \X Addresses :
      SenderOf[u[1]] = a /\ reserved[u[1]] = d /\ u[2] \in Recipients[u[1]]}

(* usage(): the sum of recipientCount over the sender's rows of that day. *)
Usage(reserved, a, d) == Cardinality(Units(reserved, a, d))

(* recipientCount of the reservation that message m asks for. *)
RecipientCount(m) == Cardinality(Recipients[m])
=============================================================================
