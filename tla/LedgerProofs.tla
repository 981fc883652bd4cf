----------------------------- MODULE LedgerProofs -----------------------------
(***************************************************************************)
(* What a new reservation does to the usage of senders and days, for any   *)
(* number of messages and recipients.                                      *)
(***************************************************************************)
EXTENDS QuotaLedger, TLAPS, FiniteSetTheorems

(* The units that message m holds once it is reserved.                       *)
UnitsOf(m) == {m} \X Recipients[m]

(* recipientCount is a number.                                               *)
LEMMA RecipientsAreFinite ==
  ASSUME NEW m \in Messages
  PROVE  IsFiniteSet(Recipients[m]) /\ RecipientCount(m) \in Nat
<1>1. Recipients[m] \in SUBSET Addresses
  BY LedgerAssumption
<1>2. IsFiniteSet(Recipients[m])
  BY <1>1, LedgerAssumption, FS_Subset
<1>3. QED
  BY <1>2, FS_CardinalityType DEF RecipientCount

(* A reservation holds as many units as its message has recipients.          *)
LEMMA UnitsOfCount ==
  ASSUME NEW m \in Messages
  PROVE  IsFiniteSet(UnitsOf(m)) /\ Cardinality(UnitsOf(m)) = RecipientCount(m)
<1>1. IsFiniteSet({m}) /\ Cardinality({m}) = 1
  BY FS_Singleton
<1>2. IsFiniteSet(UnitsOf(m)) /\ Cardinality(UnitsOf(m)) = 1 * RecipientCount(m)
  BY <1>1, RecipientsAreFinite, FS_Product DEF UnitsOf, RecipientCount
<1>3. QED
  BY <1>2, RecipientsAreFinite

(* Usage is a number: a sender's units are finitely many.                    *)
LEMMA UsageIsFinite ==
  ASSUME NEW reserved, NEW a, NEW d
  PROVE  IsFiniteSet(Units(reserved, a, d)) /\ Usage(reserved, a, d) \in Nat
<1>1. IsFiniteSet(Messages \X Addresses)
  BY LedgerAssumption, FS_Product
<1>2. Units(reserved, a, d) \in SUBSET (Messages \X Addresses)
  BY DEF Units
<1>3. IsFiniteSet(Units(reserved, a, d))
  BY <1>1, <1>2, FS_Subset
<1>4. QED
  BY <1>3, FS_CardinalityType DEF Usage

(* A reservation taken for m on day d counts m's recipients for its sender   *)
(* on that day, and changes no other usage.                                  *)
LEMMA ReservationAddsRecipients ==
  ASSUME NEW m \in Messages, NEW d \in Nat \ {NoDay},
         NEW before, NEW after, before[m] = NoDay, after[m] = d,
         \A n \in Messages : n # m => after[n] = before[n]
  PROVE  /\ Usage(after, SenderOf[m], d) = Usage(before, SenderOf[m], d) + RecipientCount(m)
         /\ \A a, e : (a # SenderOf[m] \/ e # d) /\ e # NoDay =>
              Usage(after, a, e) = Usage(before, a, e)
<1>1. /\ before[m] = NoDay /\ after[m] = d
      /\ \A n \in Messages : n # m => after[n] = before[n]
  OBVIOUS
<1>2. Units(after, SenderOf[m], d) = Units(before, SenderOf[m], d) \cup UnitsOf(m)
  <2>1. Recipients[m] \subseteq Addresses
    BY LedgerAssumption
  <2>2. ASSUME NEW u PROVE u \in Units(after, SenderOf[m], d) <=>
                             u \in Units(before, SenderOf[m], d) \cup UnitsOf(m)
    <3>1. CASE u \in Messages \X Addresses
      <4>1. CASE u[1] = m
        BY <1>1, <2>1, <3>1, <4>1 DEF Units, UnitsOf, NoDay
      <4>2. CASE u[1] # m
        BY <1>1, <3>1, <4>2 DEF Units, UnitsOf
      <4>3. QED
        BY <4>1, <4>2
    <3>2. CASE u \notin Messages \X Addresses
      BY <2>1, <3>2 DEF Units, UnitsOf
    <3>3. QED
      BY <3>1, <3>2
  <2>3. QED
    BY <2>2
<1>3. Units(before, SenderOf[m], d) \cap UnitsOf(m) = {}
  BY DEF Units, UnitsOf
<1>4. /\ IsFiniteSet(Units(before, SenderOf[m], d))
      /\ Cardinality(Units(before, SenderOf[m], d)) \in Nat
  BY UsageIsFinite DEF Usage
<1>5. Cardinality(Units(after, SenderOf[m], d)) =
        Cardinality(Units(before, SenderOf[m], d)) + RecipientCount(m) - Cardinality({})
  BY <1>2, <1>3, <1>4, UnitsOfCount, FS_Union
<1>6. Usage(after, SenderOf[m], d) = Usage(before, SenderOf[m], d) + RecipientCount(m)
  BY <1>4, <1>5, RecipientsAreFinite, FS_EmptySet DEF Usage
<1>7. ASSUME NEW a, NEW e, a # SenderOf[m] \/ e # d, e # NoDay
      PROVE  Usage(after, a, e) = Usage(before, a, e)
  <2>1. Units(after, a, e) = Units(before, a, e)
    BY <1>1, <1>7 DEF Units
  <2>2. QED
    BY <2>1 DEF Usage
<1>8. QED
  BY <1>6, <1>7
=============================================================================
