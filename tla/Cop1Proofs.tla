----------------------------- MODULE Cop1Proofs -----------------------------
(***************************************************************************)
(* Theorems about Cop1 for every modulus of up to 8 bits, every capacity   *)
(* of the lists and all transmission limits: the two ends agree on their   *)
(* numbers however the medium treats frames and CLCWs, and COP-1           *)
(* implements in-order delivery.                                           *)
(***************************************************************************)
EXTENDS Cop1, SequenceTheorems, TLAPS

\* The lemmas about FOP, for the instance of FOP that Cop1 uses.
FP == INSTANCE FopDeliveryProofs WITH
  WaitQueueCap <- FopWaitCap, SentQueueCap <- FopSentCap,
  Services <- {"AD"}, Numbers <- {}, intact <- TRUE,
  Payloads <- 1..MaxFrames

----------------------------------------------------------------------------
(* The definitions of FOP that Cop1 and the lemmas speak of are the same.  *)

LEMMA SameRecords ==
  ASSUME NEW q, NEW f, NEW n
  PROVE  /\ Fop!StoreOut(q, f) = FP!StoreOut(q, f)
         /\ Fop!TransmitAdFrame(q) = FP!TransmitAdFrame(q)
         /\ Fop!LookForFdu(q) = FP!LookForFdu(q)
         /\ Fop!Alert(q) = FP!Alert(q)
         /\ Fop!Initialize(q, n) = FP!Initialize(q, n)
         /\ Fop!To(q, n) = FP!To(q, n)
<1>1. Fop!StoreOut(q, f) = FP!StoreOut(q, f)
  BY DEF Fop!StoreOut, FP!StoreOut
<1>2. Fop!TransmitAdFrame(q) = FP!TransmitAdFrame(q)
  BY DEF Fop!TransmitAdFrame, FP!TransmitAdFrame, FP!StoreOut, Fop!StoreOut
<1>3. Fop!LookForFdu(q) = FP!LookForFdu(q)
  BY <1>2 DEF Fop!LookForFdu, FP!LookForFdu
<1>4. Fop!Alert(q) = FP!Alert(q) /\ Fop!Initialize(q, n) = FP!Initialize(q, n)
  BY DEF Fop!Alert, FP!Alert, Fop!Initialize, FP!Initialize, Fop!PurgeQueues, FP!PurgeQueues
<1>5. Fop!To(q, n) = FP!To(q, n)
  BY DEF Fop!To, FP!To
<1>6. QED
  BY <1>1, <1>2, <1>3, <1>4, <1>5

LEMMA SameMarks ==
  ASSUME NEW q, NEW report, NEW ns, NEW f
  PROVE  /\ Fop!InitiateAdRetransmission(q) = FP!InitiateAdRetransmission(q)
         /\ Fop!RemoveAcknowledgedFrames(q) = FP!RemoveAcknowledgedFrames(q)
         /\ Fop!AcknowledgePreviousFrames(q, report) = FP!AcknowledgePreviousFrames(q, report)
         /\ Fop!Acknowledge(q, ns) = FP!Acknowledge(q, ns)
         /\ Fop!NewFrame(q, "AD", f) = FP!NewFrame(q, "AD", f)
         /\ Fop!TransferFdu(q, f) = FP!TransferFdu(q, f)
<1>1. Fop!InitiateAdRetransmission(q) = FP!InitiateAdRetransmission(q)
  BY DEF Fop!InitiateAdRetransmission, FP!InitiateAdRetransmission, Fop!ToSet, FP!ToSet
<1>2. Fop!RemoveAcknowledgedFrames(q) = FP!RemoveAcknowledgedFrames(q)
  BY DEF Fop!RemoveAcknowledgedFrames, FP!RemoveAcknowledgedFrames
<1>3. Fop!AcknowledgePreviousFrames(q, report) = FP!AcknowledgePreviousFrames(q, report)
  BY DEF Fop!AcknowledgePreviousFrames, FP!AcknowledgePreviousFrames,
         Fop!Acknowledge, FP!Acknowledge, Fop!SeqNumbers, FP!SeqNumbers,
         Fop!ToSet, FP!ToSet
<1>4. Fop!NewFrame(q, "AD", f) = FP!NewFrame(q, "AD", f)
  BY DEF Fop!NewFrame, FP!NewFrame
<1>5. Fop!TransferFdu(q, f) = FP!TransferFdu(q, f)
  BY SameRecords DEF Fop!TransferFdu, FP!TransferFdu
<1>6. Fop!Acknowledge(q, ns) = FP!Acknowledge(q, ns)
  BY DEF Fop!Acknowledge, FP!Acknowledge, Fop!ToSet, FP!ToSet
<1>7. QED
  BY <1>1, <1>2, <1>3, <1>4, <1>5, <1>6

LEMMA SameClcw ==
  ASSUME NEW c, Fop!ClcwArrives(c)
  PROVE  FP!ClcwArrives(c)
<1>1. \A S, q : Fop!React(c, S, q) <=> FP!React(c, S, q)
  BY SameMarks DEF Fop!React, FP!React, Fop!Call, FP!Call
<1>2. /\ Fop!ReportsVs(c) <=> FP!ReportsVs(c)
      /\ Fop!InWindow(c) <=> FP!InWindow(c)
      /\ Fop!Acks(c) <=> FP!Acks(c)
  BY DEF Fop!ReportsVs, FP!ReportsVs, Fop!InWindow, FP!InWindow, Fop!Acks, FP!Acks
<1>3. Fop!Running = FP!Running /\ Fop!FOPState = FP!FOPState /\ Fop!Initializing = FP!Initializing
  BY DEF Fop!Running, FP!Running, Fop!FOPState, FP!FOPState, Fop!Initializing, FP!Initializing
<1>4. (Fop!E1(c) => FP!E1(c)) /\ (Fop!E2(c) => FP!E2(c)) /\ (Fop!E3(c) => FP!E3(c))
      /\ (Fop!E4(c) => FP!E4(c))
  BY <1>1, <1>2, <1>3, SameRecords, SameMarks DEF Fop!E1, FP!E1, Fop!E2, FP!E2, Fop!E3, FP!E3,
     Fop!E4, FP!E4
<1>5. (Fop!E5(c) => FP!E5(c)) /\ (Fop!E6(c) => FP!E6(c)) /\ (Fop!E7(c) => FP!E7(c))
      /\ (Fop!E101(c) => FP!E101(c)) /\ (Fop!E102(c) => FP!E102(c))
  BY <1>1, <1>2, <1>3, SameRecords, SameMarks DEF Fop!E5, FP!E5, Fop!E6, FP!E6, Fop!E7, FP!E7,
     Fop!E101, FP!E101, Fop!E102, FP!E102
<1>6. (Fop!E8(c) => FP!E8(c)) /\ (Fop!E9(c) => FP!E9(c)) /\ (Fop!E10(c) => FP!E10(c))
  BY <1>1, <1>2, <1>3, SameRecords, SameMarks DEF Fop!E8, FP!E8, Fop!E9, FP!E9,
     Fop!E10, FP!E10
<1>7. (Fop!E11(c) => FP!E11(c)) /\ (Fop!E12(c) => FP!E12(c))
      /\ (Fop!LimitZero(c) => FP!LimitZero(c))
  BY <1>1, <1>2, <1>3, SameRecords, SameMarks DEF Fop!E11, FP!E11, Fop!E12, FP!E12,
     Fop!LimitZero, FP!LimitZero
<1>8. (Fop!E13(c) => FP!E13(c)) /\ (Fop!E14(c) => FP!E14(c))
  BY <1>1, <1>2, <1>3, SameRecords, SameMarks DEF Fop!E13, FP!E13, Fop!E14, FP!E14
<1>9. (Fop!AtVs(c) => FP!AtVs(c)) /\ (Fop!BeforeVs(c) => FP!BeforeVs(c))
  BY <1>2, <1>4, <1>5, <1>6, <1>7 DEF Fop!AtVs, FP!AtVs, Fop!BeforeVs, FP!BeforeVs
<1>10. QED
  BY <1>8, <1>9 DEF Fop!ClcwArrives, FP!ClcwArrives

LEMMA FopAssumptionHolds == FP!FopAssumption
BY Cop1Assumption DEF FP!FopAssumption

----------------------------------------------------------------------------
(* The invariant.                                                          *)

\* What FARM and the medium hold, against the frames that FOP has handed over.
Linked ==
  /\ made \in 0..MaxFrames
  /\ payload \in [Slots -> 0..made] /\ handed \in Seq(1..made)
  /\ sentQueue \in Seq(Farm!ADFrames) /\ Len(sentQueue) <= FarmSentCap
  /\ receiverFrameSeqNumber = Len(sentQueue)
  /\ delivered \in Seq(1..MaxFrames) /\ Len(delivered) = Len(sentQueue)
  /\ Len(delivered) <= Len(handed)
  /\ \A i \in 1..Len(delivered) : delivered[i] = handed[i]
  /\ fop.nnr <= receiverFrameSeqNumber
  /\ \A c \in downlink : c.report \in 0..receiverFrameSeqNumber
  /\ \A x \in uplink :
       x.ns \in 0..Len(handed) - 1 /\ handed[x.ns + 1] = x.payload

\* The two ends together, as long as no frame was misplaced.
Joined ==
  /\ FP!Sound(fop, FP!ToSet(unprocessed), handed, made - Len(unprocessed))
  /\ unprocessed \in Seq(Slots) /\ OnePlace(fop, unprocessed)
  /\ Linked

CopInv == NumbersAgree /\ (orderly => Joined)

\* With frames in one place only the queues and the list before FOP are disjoint.
LEMMA OnePlaceApart ==
  ASSUME NEW q, FP!Typed(q), NEW u \in Seq(Slots), OnePlace(q, u)
  PROVE  /\ \A i \in DOMAIN u, j \in DOMAIN q.wait : u[i] # q.wait[j]
         /\ \A i \in DOMAIN u, j \in DOMAIN q.sent : u[i] # q.sent[j]
         /\ \A i, j \in DOMAIN u : u[i] = u[j] => i = j
<1> DEFINE p == [q EXCEPT !.master = Slots]
<1>1. FP!Typed(p)
  BY FP!Updates, FopAssumptionHolds
<1>2. p.wait = q.wait /\ p.sent = q.sent /\ p.master = Slots
  BY DEF FP!Typed, FP!FopRecord
<1> HIDE DEF p
<1>3. q.wait \in Seq(Slots) /\ q.sent \in Seq(Slots)
  BY FP!FieldTypes, FopAssumptionHolds
<1> DEFINE all == u \o q.wait \o q.sent
<1>4. all \in Seq(Slots)
  BY <1>3
<1>5. FP!Placed(p, u)
  <2>1. u \o p.wait \o p.sent = all
    BY <1>2
  <2>2. FP!ToSet(all) \subseteq p.master
    <3> HIDE DEF all
    <3>1. \A i \in DOMAIN all : all[i] \in Slots
      BY <1>4
    <3>2. QED
      BY <1>2, <3>1 DEF FP!ToSet
  <2>3. \A i, j \in DOMAIN all : all[i] = all[j] => i = j
    BY DEF OnePlace
  <2> HIDE DEF all
  <2>4. QED
    BY <2>1, <2>2, <2>3, Zenon DEF FP!Placed
<1>6. /\ \A i \in DOMAIN u, j \in DOMAIN q.wait : u[i] # q.wait[j]
      /\ \A i \in DOMAIN u, j \in DOMAIN q.sent : u[i] # q.sent[j]
  BY <1>1, <1>2, <1>5, FP!PlacedApart, FopAssumptionHolds
<1>7. ASSUME NEW i \in DOMAIN u, NEW j \in DOMAIN u, u[i] = u[j]
      PROVE  i = j
  <2>1. /\ i \in DOMAIN all /\ j \in DOMAIN all /\ all[i] = u[i] /\ all[j] = u[j]
    <3> DEFINE front == u \o q.wait
    <3>1. /\ front \in Seq(Slots) /\ DOMAIN u \subseteq DOMAIN front
          /\ \A m \in DOMAIN u : front[m] = u[m]
      BY <1>3
    <3> HIDE DEF front
    <3>2. /\ DOMAIN front \subseteq DOMAIN (front \o q.sent)
          /\ \A m \in DOMAIN front : (front \o q.sent)[m] = front[m]
      BY <1>3, <3>1
    <3>3. QED
      BY <3>1, <3>2 DEF front
  <2>2. QED
    BY <1>7, <2>1 DEF OnePlace
<1>8. QED
  BY <1>6, <1>7

LEMMA InitInv == CopInit => CopInv
<1> SUFFICES ASSUME CopInit PROVE CopInv
  OBVIOUS
<1>1. /\ fop.vs = 0 /\ fop.nnr = 0 /\ fop.wait = <<>> /\ fop.sent = <<>>
      /\ unprocessed = <<>> /\ fop.frames = [f \in Slots |->
            [type |-> "AD", ns |-> 0, ack |-> FALSE, retx |-> FALSE]]
  BY DEF CopInit, Fop!Init
<1>2. FP!Typed(fop)
  <2>1. [f \in Slots |-> [type |-> "AD", ns |-> 0, ack |-> FALSE, retx |-> FALSE]]
          \in [Slots -> FP!Frames]
    BY Cop1Assumption DEF FP!Frames, FP!SeqNumbers
  <2>2. QED
    BY <2>1, Cop1Assumption
       DEF CopInit, Fop!Init, FP!Typed, FP!FopRecord, FP!FOPState, FP!SeqNumbers
<1>3. FP!Sound(fop, FP!ToSet(unprocessed), handed, made - Len(unprocessed))
  <2>1. made = 0 /\ handed = <<>> /\ payload = [f \in Slots |-> 0]
    BY DEF CopInit
  <2>2. FP!ToSet(unprocessed) = {} /\ FP!ToSet(handed) = {}
    BY <1>1, <2>1 DEF FP!ToSet
  <2>3. FP!Apart
    BY <2>1 DEF FP!Apart
  <2>4. \A f \in Slots : fop.frames[f].type = "AD"
    BY <1>1
  <2>5. made - Len(unprocessed) = 0 /\ Len(handed) = 0 /\ Len(fop.wait) = 0
    <3>1. Len(unprocessed) = 0 /\ Len(handed) = 0 /\ Len(fop.wait) = 0
      BY <1>1, <2>1
    <3>2. QED
      BY <2>1, <3>1
  <2>6. DOMAIN fop.wait = {} /\ DOMAIN fop.sent = {}
    BY <1>1
  <2>7. QED
    BY <1>1, <1>2, <2>1, <2>2, <2>3, <2>4, <2>5, <2>6, Cop1Assumption DEF FP!Sound
<1>4. OnePlace(fop, unprocessed)
  BY <1>1 DEF OnePlace
<1>5. /\ receiverFrameSeqNumber = 0 /\ sentQueue = <<>> /\ delivered = <<>> /\ handed = <<>>
      /\ made = 0 /\ payload = [f \in Slots |-> 0] /\ uplink = {} /\ downlink = {}
  BY DEF CopInit, Farm!Init
<1>6. Joined
  BY <1>1, <1>3, <1>4, <1>5, Cop1Assumption DEF Joined, Linked
<1>7. NumbersAgree
  BY <1>1, <1>5 DEF NumbersAgree
<1>8. QED
  BY <1>6, <1>7 DEF CopInv

----------------------------------------------------------------------------
(* The steps.                                                              *)

\* What every step has to establish.
Kept == NumbersAgree' /\ [Delivery!DeliveryNext]_(Delivery!deliveryVars) /\ (orderly' => Joined')

\* A step of FOP that believes no report but those that FARM gave.
LEMMA GroundStep ==
  ASSUME Joined, Ground, NEW U, NEW k,
         FP!Sound(fop', U, FP!Result(fop, fop', handed), k),
         fop'.vs = fop.vs \/ (fop'.vs = fop.vs + 1 /\ fop'.sent # <<>>),
         fop'.nnr <= receiverFrameSeqNumber,
         \A f \in Slots : fop'.frames[f].ack /\ ~fop.frames[f].ack =>
                            payload[f] \in FP!ToSet(delivered)
  PROVE  /\ NumbersAgree' /\ Linked' /\ Delivery!Confirm
         /\ handed' = FP!Result(fop, fop', handed)
<1> DEFINE p == payload[fop'.sent[Len(fop'.sent)]]
<1>1. Linked /\ fop.vs = Len(handed) /\ FP!Typed(fop')
  BY DEF Joined, FP!Sound
<1>2. handed \in Seq(1..made) /\ made \in 0..MaxFrames /\ payload \in [Slots -> 0..made]
  BY <1>1 DEF Linked
<1>3. UNCHANGED <<farmVars, uplink, downlink, payload, made, delivered, vouched>>
  BY DEF Ground
<1>4. \/ fop'.vs = fop.vs /\ handed' = handed
      \/ fop'.vs = fop.vs + 1 /\ p \in 1..made /\ handed' = Append(handed, p)
  <2>1. CASE fop'.vs = fop.vs
    <3>1. handed' = handed \o <<>>
      BY <2>1 DEF Ground, Numbered
    <3>2. handed \o <<>> = handed
      BY <1>2
    <3>3. QED
      BY <2>1, <3>1, <3>2
  <2>2. CASE fop'.vs = fop.vs + 1 /\ fop'.sent # <<>>
    <3>1. fop'.vs # fop.vs
      BY <1>1, <1>2, <2>2
    <3>2. handed' = handed \o <<p>>
      BY <3>1 DEF Ground, Numbered
    <3>3. fop'.sent \in Seq(Slots)
      BY <1>1, FP!FieldTypes, FopAssumptionHolds
    <3>4. p \in 0..made
      BY <1>2, <2>2, <3>3
    <3>5. Append(handed, p) \in Seq(1..MaxFrames)
      BY <3>1 DEF FP!Result, FP!Sound
    <3>6. p \in 1..MaxFrames
      <4>1. Len(handed) + 1 \in DOMAIN Append(handed, p) /\ Append(handed, p)[Len(handed) + 1] = p
        BY <1>2, <3>4
      <4>2. QED
        BY <3>5, <4>1
    <3>7. handed \o <<p>> = Append(handed, p)
      BY <1>2, <3>4
    <3>8. QED
      BY <1>2, <2>2, <3>2, <3>4, <3>6, <3>7
  <2>3. QED
    BY <2>1, <2>2
<1>5. handed' = FP!Result(fop, fop', handed)
  BY <1>1, <1>2, <1>4 DEF FP!Result
<1> HIDE DEF p
<1>6. /\ handed' \in Seq(1..made) /\ Len(handed') >= Len(handed)
      /\ Len(handed) \in Nat /\ Len(handed') \in Nat
      /\ \A i \in 1..Len(handed) : handed'[i] = handed[i]
  <2>1. CASE handed' = handed
    BY <1>2, <2>1
  <2>2. CASE p \in 1..made /\ handed' = Append(handed, p)
    BY <1>2, <2>2, AppendProperties
  <2>3. QED
    BY <1>4, <2>1, <2>2
<1>7. fop'.vs = Len(handed')
  BY <1>1, <1>2, <1>4
<1>8. NumbersAgree'
  BY <1>1, <1>3, <1>6, <1>7 DEF NumbersAgree, Linked, farmVars
<1>9. Linked'
  <2>1. ASSUME NEW x \in uplink
        PROVE  x.ns \in 0..Len(handed') - 1 /\ handed'[x.ns + 1] = x.payload
    <3>1. x.ns \in 0..Len(handed) - 1 /\ handed[x.ns + 1] = x.payload
      BY <1>1 DEF Linked
    <3>2. x.ns \in 0..Len(handed') - 1 /\ x.ns + 1 \in 1..Len(handed)
      BY <1>6, <3>1
    <3>3. QED
      BY <1>6, <3>1, <3>2
  <2>2. /\ Len(delivered) <= Len(handed')
        /\ \A i \in 1..Len(delivered) : delivered[i] = handed'[i]
    <3>1. Len(delivered) \in Nat /\ Len(delivered) <= Len(handed)
      BY <1>1 DEF Linked
    <3>2. \A i \in 1..Len(delivered) : i \in 1..Len(handed)
      BY <1>6, <3>1
    <3>3. QED
      BY <1>1, <1>6, <3>1, <3>2 DEF Linked
  <2>3. QED
    BY <1>1, <1>3, <1>6, <2>1, <2>2 DEF Linked, farmVars
<1>10. Delivery!Confirm
  <2>1. Acknowledged \in SUBSET {delivered[i] : i \in DOMAIN delivered}
    BY DEF Acknowledged, FP!ToSet
  <2>2. confirmed' = confirmed \cup Acknowledged /\ UNCHANGED <<delivered, vouched>>
    BY DEF Ground
  <2>3. handed' = handed \/ \E e \in 1..MaxFrames : handed' = Append(handed, e)
    <3>1. \A e \in 1..made : e \in 1..MaxFrames
      BY <1>2, Cop1Assumption
    <3>2. QED
      BY <1>4, <3>1, Zenon
  <2>4. QED
    BY <2>1, <2>2, <2>3 DEF Delivery!Confirm
<1>11. QED
  BY <1>5, <1>8, <1>9, <1>10

\* What is left to show after it.
LEMMA GroundKept ==
  ASSUME NumbersAgree', Linked', Delivery!Confirm, UNCHANGED payload,
         unprocessed' \in Seq(Slots), orderly' => OnePlace(fop', unprocessed'),
         orderly' => FP!Sound(fop', FP!ToSet(unprocessed'), handed', made' - Len(unprocessed'))
  PROVE  Kept
<1>1. Delivery!DeliveryNext
  BY DEF Delivery!DeliveryNext
<1>2. ASSUME orderly' PROVE Joined'
  <2>1. FP!Sound(fop', FP!ToSet(unprocessed'), handed', made' - Len(unprocessed'))
    BY <1>2
  <2>2. FP!Sound(fop, FP!ToSet(unprocessed), handed, made - Len(unprocessed))'
    BY <2>1, FP!SoundKept, FopAssumptionHolds DEF FP!ToSet
  <2>3. OnePlace(fop, unprocessed)'
    BY <1>2 DEF OnePlace
  <2>4. QED
    BY <2>2, <2>3 DEF Joined
<1>3. QED
  BY <1>1, <1>2 DEF Kept

\* A step of FOP that acknowledges nothing.
LEMMA AdvanceStep ==
  ASSUME Joined, Ground, NEW U, NEW k, FP!Advance(fop, fop', U, handed, k)
  PROVE  /\ NumbersAgree' /\ Linked' /\ Delivery!Confirm
         /\ FP!Sound(fop', U, handed', k)
<1>1. /\ FP!Sound(fop', U, FP!Result(fop, fop', handed), k)
      /\ fop'.vs = fop.vs \/ (fop'.vs = fop.vs + 1 /\ fop'.sent # <<>>)
      /\ fop'.nnr = fop.nnr
      /\ \A f \in Slots : fop'.frames[f].ack => fop.frames[f].ack
  BY DEF FP!Advance
<1>2. fop'.nnr <= receiverFrameSeqNumber
  BY <1>1 DEF Joined, Linked
<1>3. QED
  BY <1>1, <1>2, GroundStep

LEMMA AdvanceKept ==
  ASSUME Joined, Ground, UNCHANGED unprocessed,
         FP!Advance(fop, fop', FP!ToSet(unprocessed), handed, made - Len(unprocessed))
  PROVE  Kept
<1>1. /\ NumbersAgree' /\ Linked' /\ Delivery!Confirm
      /\ FP!Sound(fop', FP!ToSet(unprocessed), handed', made - Len(unprocessed))
  BY AdvanceStep
<1>2. /\ UNCHANGED <<payload, made>> /\ (orderly' => OnePlace(fop', unprocessed'))
      /\ unprocessed' \in Seq(Slots)
  BY DEF Ground, Joined
<1>3. FP!Sound(fop', FP!ToSet(unprocessed'), handed', made' - Len(unprocessed'))
  BY <1>1, <1>2
<1>4. QED
  BY <1>1, <1>2, <1>3, GroundKept

LEMMA VcGenerationKept ==
  ASSUME Joined, Ground, Fop!VcGenerationRequestTxTC
  PROVE  Kept
<1> DEFINE f == Head(unprocessed)
           q == FP!TransferFdu(fop, f)
           U == FP!ToSet(unprocessed)
           k == made - Len(unprocessed)
<1>1. /\ unprocessed # <<>> /\ fop' = FP!StoreOut(q, f)
      /\ unprocessed' \in {unprocessed, Tail(unprocessed)}
      /\ ~FP!Accepted(fop, f) => unprocessed' = unprocessed
  <2>1. Fop!TransferFdu(fop, f) = q /\ Fop!StoreOut(q, f) = FP!StoreOut(q, f)
    BY SameRecords, SameMarks
  <2>2. Fop!Accepted(fop, f) <=> FP!Accepted(fop, f)
    BY DEF Fop!Accepted, FP!Accepted, Fop!Running, FP!Running
  <2> HIDE DEF q, f
  <2>3. QED
    BY <2>1, <2>2 DEF Fop!VcGenerationRequestTxTC, f
<1>2. /\ FP!Sound(fop, U, handed, k) /\ unprocessed \in Seq(Slots)
      /\ OnePlace(fop, unprocessed) /\ made \in 0..MaxFrames /\ FP!Typed(fop)
  BY DEF Joined, Linked, FP!Sound
<1>3. f \in U /\ f \in Slots /\ Tail(unprocessed) \in Seq(Slots)
      /\ Len(unprocessed) \in Nat /\ Len(unprocessed) >= 1
      /\ Len(Tail(unprocessed)) = Len(unprocessed) - 1
  BY <1>1, <1>2 DEF FP!ToSet
<1>4. k + 1 < Modulus /\ k + 1 = made - Len(Tail(unprocessed))
  BY <1>2, <1>3, Cop1Assumption
<1>5. /\ UNCHANGED <<payload, made>> /\ (orderly' => OnePlace(fop', unprocessed'))
      /\ unprocessed' \in Seq(Slots)
  BY <1>1, <1>2, <1>3 DEF Ground
<1> HIDE DEF k, U
<1>6. CASE q = fop /\ ~FP!Accepted(fop, f)
  <2>1. unprocessed' = unprocessed /\ fop' = FP!StoreOut(fop, f)
    BY <1>1, <1>6
  <2>2. FP!Like(fop, fop')
    BY <1>2, <1>3, <2>1, FP!StoreOutLike, FopAssumptionHolds
  <2>3. fop'.nnr = fop.nnr
    BY <1>2, <2>1 DEF FP!StoreOut, FP!Typed, FP!FopRecord
  <2>4. FP!Advance(fop, fop', U, handed, k)
    BY <1>2, <2>2, <2>3, FP!LikeAdvance, FopAssumptionHolds
  <2>5. QED
    BY <2>1, <2>4, AdvanceKept DEF U, k
<1>7. CASE /\ FP!Advance(fop, q, U \ {f}, handed, k + 1)
           /\ f \in FP!ToSet(q.wait) \cup FP!ToSet(q.sent)
  <2> HIDE DEF q
  <2>1. FP!Typed(q)
    BY <1>7 DEF FP!Advance, FP!Sound
  <2>2. FP!Like(q, fop')
    BY <1>1, <1>3, <2>1, FP!StoreOutLike, FopAssumptionHolds
  <2>3. fop'.nnr = q.nnr
    BY <1>1, <2>1 DEF FP!StoreOut, FP!Typed, FP!FopRecord
  <2>4. FP!Advance(fop, fop', U \ {f}, handed, k + 1)
    BY <1>7, <2>2, <2>3, FP!ThenAdvance, FopAssumptionHolds
  <2>5. /\ NumbersAgree' /\ Linked' /\ Delivery!Confirm
        /\ FP!Sound(fop', U \ {f}, handed', k + 1)
    BY <2>4, AdvanceStep
  <2>6. CASE unprocessed' = Tail(unprocessed)
    <3>1. FP!ToSet(Tail(unprocessed)) = U \ {f}
      <4>1. \A i, j \in DOMAIN unprocessed : unprocessed[i] = unprocessed[j] => i = j
        BY <1>2, OnePlaceApart
      <4>2. DOMAIN unprocessed = 1..Len(unprocessed) /\ f = unprocessed[1]
        BY <1>1, <1>2
      <4>3. /\ DOMAIN Tail(unprocessed) = 1..Len(unprocessed) - 1
            /\ \A i \in 1..Len(unprocessed) - 1 : Tail(unprocessed)[i] = unprocessed[i + 1]
        BY <1>1, <1>2
      <4> HIDE DEF f
      <4>4. \A i \in 1..Len(unprocessed) - 1 : i + 1 \in 1..Len(unprocessed) /\ i + 1 # 1
        BY <1>3
      <4>5. \A i \in 1..Len(unprocessed) : i # 1 =>
              i - 1 \in 1..Len(unprocessed) - 1 /\ i - 1 + 1 = i
        BY <1>3
      <4>6. 1 \in 1..Len(unprocessed)
        BY <1>3
      <4>7. FP!ToSet(Tail(unprocessed)) \subseteq U \ {f}
        BY <4>1, <4>2, <4>3, <4>4, <4>6 DEF FP!ToSet, U
      <4>8. U \ {f} \subseteq FP!ToSet(Tail(unprocessed))
        <5> SUFFICES ASSUME NEW i \in 1..Len(unprocessed), unprocessed[i] # f
                     PROVE  unprocessed[i] \in FP!ToSet(Tail(unprocessed))
          BY <4>2 DEF FP!ToSet, U
        <5>1. i # 1
          BY <4>2
        <5>2. Tail(unprocessed)[i - 1] = unprocessed[i] /\ i - 1 \in DOMAIN Tail(unprocessed)
          BY <4>3, <4>5, <5>1
        <5>3. QED
          BY <5>2 DEF FP!ToSet
      <4>9. QED
        BY <4>7, <4>8
    <3>2. FP!Sound(fop', FP!ToSet(unprocessed'), handed', made' - Len(unprocessed'))
      BY <1>4, <1>5, <2>5, <2>6, <3>1
    <3>3. QED
      BY <1>5, <2>5, <3>2, GroundKept
  <2>7. CASE unprocessed' = unprocessed
    <3>1. fop'.wait = q.wait /\ fop'.sent = q.sent /\ FP!Typed(fop')
      BY <2>2 DEF FP!Like
    <3>2. ~OnePlace(fop', unprocessed')
      <4> SUFFICES ASSUME OnePlace(fop', unprocessed') PROVE FALSE
        OBVIOUS
      <4>1. /\ \A i \in DOMAIN unprocessed, j \in DOMAIN q.wait : unprocessed[i] # q.wait[j]
            /\ \A i \in DOMAIN unprocessed, j \in DOMAIN q.sent : unprocessed[i] # q.sent[j]
        BY <1>2, <2>7, <3>1, OnePlaceApart
      <4>2. QED
        BY <1>3, <1>7, <4>1 DEF FP!ToSet, U
    <3>3. QED
      BY <1>5, <2>5, <3>2, GroundKept
  <2>8. QED
    BY <1>1, <2>6, <2>7
<1>8. QED
  BY <1>2, <1>3, <1>4, <1>6, <1>7, FP!TransferAdvance, FopAssumptionHolds

LEMMA FopServiceKept ==
  ASSUME Joined, FopService
  PROVE  Kept
<1> DEFINE U == FP!ToSet(unprocessed)
           k == made - Len(unprocessed)
<1>1. Ground /\ FP!Sound(fop, U, handed, k) /\ FP!Typed(fop)
  BY DEF FopService, Joined, FP!Sound
<1> HIDE DEF U, k
<1>2. CASE Fop!VcGenerationRequestTxTC
  BY <1>1, <1>2, VcGenerationKept
<1>3. CASE Fop!TransmitAdFrameRequest
  <2>1. fop' = FP!TransmitAdFrame(fop) /\ UNCHANGED unprocessed
    BY <1>3, SameRecords DEF Fop!TransmitAdFrameRequest, Fop!Call
  <2>2. FP!Advance(fop, fop', U, handed, k)
    BY <1>1, <2>1, FP!TransmitAdvance, FopAssumptionHolds
  <2>3. QED
    BY <1>1, <2>1, <2>2, AdvanceKept DEF U, k
<1>4. CASE Fop!PushSentQueue
  <2>1. fop' = FP!StoreOut(fop, Head(fop.sent)) /\ fop.sent # <<>> /\ UNCHANGED unprocessed
    BY <1>4, SameRecords DEF Fop!PushSentQueue, Fop!Call
  <2>2. Head(fop.sent) \in Slots
    BY <1>1, <2>1, FP!FieldTypes, FopAssumptionHolds
  <2>3. FP!Like(fop, fop') /\ fop'.nnr = fop.nnr
    <3>1. FP!Like(fop, fop')
      BY <1>1, <2>1, <2>2, FP!StoreOutLike, FopAssumptionHolds
    <3>2. fop'.nnr = fop.nnr
      BY <1>1, <2>1 DEF FP!StoreOut, FP!Typed, FP!FopRecord
    <3>3. QED
      BY <3>1, <3>2
  <2>4. FP!Advance(fop, fop', U, handed, k)
    BY <1>1, <2>3, FP!LikeAdvance, FopAssumptionHolds
  <2>5. QED
    BY <1>1, <2>1, <2>4, AdvanceKept DEF U, k
<1>5. CASE Fop!ClearAcknowledgedFrames
  <2>1. fop' = FP!RemoveAcknowledgedFrames(fop) /\ UNCHANGED unprocessed
    BY <1>5, SameMarks DEF Fop!ClearAcknowledgedFrames, Fop!Call
  <2>2. FP!Advance(fop, fop', U, handed, k)
    BY <1>1, <2>1, FP!RemoveAdvance, FopAssumptionHolds
  <2>3. QED
    BY <1>1, <2>1, <2>2, AdvanceKept DEF U, k
<1>6. CASE Fop!InitiateAd \/ Fop!InitiateAdUnlock \/ Fop!TerminateAdService
  <2>1. /\ fop' \in {FP!Initialize(fop, "ACTIVE"), FP!Alert(fop),
                     FP!Initialize(fop, "INITIALIZING_WITH_BC_FRAME")}
        /\ UNCHANGED unprocessed
    BY <1>6, SameRecords DEF Fop!InitiateAd, Fop!InitiateAdUnlock, Fop!TerminateAdService, Fop!Call
  <2>2. {"ACTIVE", "INITIALIZING_WITH_BC_FRAME"} \subseteq FP!FOPState
    BY DEF FP!FOPState
  <2>3. FP!Advance(fop, fop', U, handed, k)
    BY <1>1, <2>1, <2>2, FP!PurgeAdvance, FopAssumptionHolds
  <2>4. QED
    BY <1>1, <2>1, <2>3, AdvanceKept DEF U, k
<1>7. CASE Fop!ResumeAdService
  <2>1. fop' = FP!To(fop, "INITIAL") /\ UNCHANGED unprocessed
    BY <1>7, SameRecords DEF Fop!ResumeAdService, Fop!Call
  <2>2. FP!Typed(fop')
    BY <1>1, <2>1, FP!PurgeTyped, FopAssumptionHolds DEF FP!FOPState
  <2>3. FP!Like(fop, fop') /\ fop'.nnr = fop.nnr
    BY <1>1, <2>1, <2>2 DEF FP!Like, FP!To, FP!Typed, FP!FopRecord
  <2>4. FP!Advance(fop, fop', U, handed, k)
    BY <1>1, <2>3, FP!LikeAdvance, FopAssumptionHolds
  <2>5. QED
    BY <1>1, <2>1, <2>4, AdvanceKept DEF U, k
<1>8. CASE Fop!SetFopWidth \/ Fop!SetTransmissionLimit
  <2>1. fop' = fop /\ UNCHANGED unprocessed
    BY <1>8 DEF Fop!SetFopWidth, Fop!SetTransmissionLimit
  <2>2. FP!Advance(fop, fop', U, handed, k)
    BY <1>1, <2>1, FP!LikeAdvance, FopAssumptionHolds DEF FP!Like
  <2>3. QED
    BY <1>1, <2>1, <2>2, AdvanceKept DEF U, k
<1>9. QED
  BY <1>2, <1>3, <1>4, <1>5, <1>6, <1>7, <1>8 DEF FopService

\* The user can acknowledge only what the sent queue holds, which has been handed over.
LEMMA AcknowledgeKept ==
  ASSUME Joined, NEW n, AcknowledgeFrame(n)
  PROVE  Kept
<1> DEFINE U == FP!ToSet(unprocessed)
           k == made - Len(unprocessed)
<1>1. /\ Linked /\ FP!Sound(fop, U, handed, k) /\ fop.vs = Len(handed)
      /\ unprocessed \in Seq(Slots) /\ OnePlace(fop, unprocessed)
  BY DEF Joined, FP!Sound
<1>2. /\ fop' = FP!Acknowledge(fop, {n}) /\ UNCHANGED unprocessed
      /\ vouched' = vouched \cup Acknowledged
      /\ UNCHANGED <<farmVars, uplink, downlink, payload, made, handed, delivered, confirmed>>
  BY SameMarks DEF AcknowledgeFrame, Fop!AcknowledgeFrameRequest, Fop!Call
<1> HIDE DEF U, k
<1>3. /\ FP!Sound(fop', U, handed, k)
      /\ fop'.vs = fop.vs /\ fop'.wait = fop.wait /\ fop'.sent = fop.sent
      /\ fop'.nnr = fop.nnr
      /\ \A f \in Slots : fop'.frames[f].ack /\ ~fop.frames[f].ack =>
           payload[f] \in FP!ToSet(handed)
  BY <1>1, <1>2, FP!AcknowledgeEffect, FopAssumptionHolds
<1>4. FP!Sound(fop, FP!ToSet(unprocessed), handed, made - Len(unprocessed))'
  <2>1. FP!Sound(fop', FP!ToSet(unprocessed'), handed', made' - Len(unprocessed'))
    BY <1>2, <1>3 DEF U, k
  <2>2. QED
    BY <1>2, <2>1, FP!SoundKept, FopAssumptionHolds DEF FP!ToSet
<1>5. Linked'
  BY <1>1, <1>2, <1>3 DEF Linked, farmVars
<1>6. OnePlace(fop, unprocessed)'
  <2>1. unprocessed' \o fop'.wait \o fop'.sent = unprocessed \o fop.wait \o fop.sent
    BY <1>2, <1>3
  <2>2. QED
    BY <1>1, <2>1, Zenon DEF OnePlace
<1>7. Joined'
  BY <1>1, <1>2, <1>4, <1>5, <1>6 DEF Joined
<1>8. NumbersAgree'
  <2>1. fop.nnr <= receiverFrameSeqNumber /\ receiverFrameSeqNumber <= fop.vs
    BY <1>1 DEF Linked
  <2>2. QED
    BY <1>2, <1>3, <2>1 DEF NumbersAgree, farmVars
<1>9. Delivery!Vouch
  <2>1. Acknowledged \in SUBSET {handed[i] : i \in DOMAIN handed}
    BY <1>3 DEF Acknowledged, FP!ToSet
  <2>2. QED
    BY <1>2, <2>1 DEF Delivery!Vouch
<1>10. QED
  BY <1>7, <1>8, <1>9 DEF Kept, Delivery!DeliveryNext

\* The report is one that FARM gave, so what lies before it has been delivered.
LEMMA ClcwKept ==
  ASSUME Joined, NEW c \in downlink, AllFramesReceptionRequestRxTM(c)
  PROVE  Kept
<1> DEFINE U == FP!ToSet(unprocessed)
           k == made - Len(unprocessed)
<1>1. /\ Ground /\ Linked /\ FP!Sound(fop, U, handed, k)
      /\ FP!ClcwArrives(AsReport(c)) /\ AsReport(c).report = c.report
      /\ c.report \in 0..receiverFrameSeqNumber
  <2>1. Ground /\ FP!ClcwArrives(AsReport(c))
    BY SameClcw DEF AllFramesReceptionRequestRxTM
  <2>2. AsReport(c).report = c.report
    BY DEF AsReport
  <2>3. Linked /\ FP!Sound(fop, U, handed, k) /\ c.report \in 0..receiverFrameSeqNumber
    BY DEF Joined, Linked
  <2>4. QED
    BY <2>1, <2>2, <2>3
<1> HIDE DEF U, k
<1>2. FP!Reports(U, handed, k, c.report)
  BY <1>1, FP!ClcwAdvance, FopAssumptionHolds
<1>3. PICK r : FP!Advance(fop, r, U, handed, k) /\ fop' = FP!AcknowledgePreviousFrames(r, c.report)
  BY <1>2 DEF FP!Reports
<1>4. UNCHANGED unprocessed
  BY <1>2 DEF FP!Reports
<1> DEFINE h == FP!Result(fop, r, handed)
<1>5. /\ FP!Sound(r, U, h, k)
      /\ r.vs = fop.vs \/ (r.vs = fop.vs + 1 /\ r.sent # <<>>)
      /\ \A f \in Slots : r.frames[f].ack => fop.frames[f].ack
  BY <1>3 DEF FP!Advance
<1>6. /\ receiverFrameSeqNumber = Len(delivered) /\ Len(delivered) \in Nat
      /\ Len(delivered) <= Len(handed) /\ handed \in Seq(1..made)
      /\ \A i \in 1..Len(delivered) : delivered[i] = handed[i]
      /\ DOMAIN delivered = 1..Len(delivered)
  <2>1. delivered \in Seq(1..MaxFrames)
    BY <1>1 DEF Linked
  <2>2. QED
    BY <1>1, <2>1 DEF Linked
<1>7. c.report \in FP!SeqNumbers
  <2>1. fop.vs \in FP!SeqNumbers /\ fop.vs = Len(handed)
    BY <1>1, FP!FieldTypes, FopAssumptionHolds DEF FP!Sound
  <2>2. c.report \in 0..fop.vs
    BY <1>1, <1>6, <2>1 DEF FP!SeqNumbers
  <2>3. QED
    BY <2>1, <2>2, Cop1Assumption DEF FP!SeqNumbers
<1> HIDE DEF h
<1>8. /\ FP!Sound(fop', U, h, k)
      /\ fop'.vs = r.vs /\ fop'.sent = r.sent /\ fop'.nnr = c.report
      /\ \A f \in Slots : fop'.frames[f].ack /\ ~r.frames[f].ack =>
            FP!Placement(r, f, h) /\ r.frames[f].ns < c.report
  BY <1>3, <1>5, <1>7, FP!ReportEffect, FopAssumptionHolds
<1>9. FP!Result(fop, fop', handed) = h
  BY <1>8 DEF FP!Result, h
<1>10. \A i \in 1..Len(handed) : h[i] = handed[i]
  <2>1. CASE r.vs = fop.vs
    BY <2>1 DEF h, FP!Result
  <2>2. CASE r.vs = fop.vs + 1 /\ r.sent # <<>>
    <3> DEFINE p == payload[r.sent[Len(r.sent)]]
    <3>1. h = Append(handed, p)
      <4>1. fop.vs = Len(handed)
        BY <1>1 DEF FP!Sound
      <4>2. r.vs # fop.vs
        BY <1>6, <2>2, <4>1
      <4>3. QED
        BY <4>2 DEF h, FP!Result
    <3> HIDE DEF p
    <3>2. QED
      BY <1>6, <3>1
  <2>3. QED
    BY <1>5, <2>1, <2>2
<1>11. ASSUME NEW f \in Slots, fop'.frames[f].ack, ~fop.frames[f].ack
       PROVE  payload[f] \in FP!ToSet(delivered)
  <2> DEFINE n == r.frames[f].ns
  <2>1. FP!Placement(r, f, h) /\ n < c.report
    BY <1>5, <1>8, <1>11
  <2>2. n \in Nat
    <3>1. FP!Typed(r)
      BY <1>5 DEF FP!Sound
    <3>2. r.frames[f] \in FP!Frames
      BY <3>1, FP!FieldTypes, FopAssumptionHolds
    <3>3. QED
      BY <3>2, Cop1Assumption DEF FP!Frames, FP!SeqNumbers
  <2>3. h[n + 1] = payload[f]
    BY <2>1 DEF FP!Placement
  <2> HIDE DEF n
  <2>4. n + 1 \in 1..Len(delivered)
    BY <1>1, <1>6, <2>1, <2>2
  <2>5. n + 1 \in 1..Len(handed)
    BY <1>6, <2>4
  <2>6. delivered[n + 1] = payload[f]
    BY <1>6, <1>10, <2>3, <2>4, <2>5
  <2>7. QED
    BY <1>6, <2>4, <2>6 DEF FP!ToSet
<1>12. fop'.nnr <= receiverFrameSeqNumber
  BY <1>1, <1>6, <1>8
<1>13. fop'.vs = fop.vs \/ (fop'.vs = fop.vs + 1 /\ fop'.sent # <<>>)
  BY <1>5, <1>8
<1>14. /\ NumbersAgree' /\ Linked' /\ Delivery!Confirm
       /\ handed' = FP!Result(fop, fop', handed)
  <2>1. FP!Sound(fop', U, FP!Result(fop, fop', handed), k)
    BY <1>8, <1>9
  <2>2. QED
    BY <1>1, <1>11, <1>12, <1>13, <2>1, GroundStep
<1>15. /\ UNCHANGED <<payload, made>> /\ (orderly' => OnePlace(fop', unprocessed'))
       /\ unprocessed' \in Seq(Slots)
  BY <1>1, <1>4 DEF Ground, Joined
<1>16. FP!Sound(fop', FP!ToSet(unprocessed'), handed', made' - Len(unprocessed'))
  <2>1. FP!Sound(fop', U, handed', k)
    BY <1>8, <1>9, <1>14
  <2>2. QED
    BY <1>4, <1>15, <2>1 DEF U, k
<1>17. QED
  BY <1>14, <1>15, <1>16, GroundKept

\* The frame that leaves is the one FOP numbered, or orderly falls.
LEMMA AllFramesKept ==
  ASSUME Joined, AllFramesGenerationRequestTxTC
  PROVE  Kept
<1> DEFINE U == FP!ToSet(unprocessed)
           k == made - Len(unprocessed)
           f == Head(fop.out)
           sent == [ns |-> fop.frames[f].ns, payload |-> payload[f]]
<1>1. /\ Linked /\ FP!Sound(fop, U, handed, k) /\ FP!Typed(fop)
      /\ unprocessed \in Seq(Slots) /\ OnePlace(fop, unprocessed)
  BY DEF Joined, FP!Sound
<1>2. /\ fop.out # <<>> /\ fop' = [fop EXCEPT !.out = Tail(@)] /\ UNCHANGED unprocessed
      /\ uplink' = uplink \cup {sent}
      /\ orderly' = \E i \in DOMAIN handed : handed[i] = payload[f]
      /\ UNCHANGED <<farmVars, downlink, payload, made, handed, delivered, confirmed, vouched>>
  BY DEF AllFramesGenerationRequestTxTC, Fop!AllFramesGenerationRequestTxTC
<1>3. /\ fop.out \in Seq(Slots) /\ Len(fop.out) <= OutCap
  BY <1>1, FP!FieldTypes, FopAssumptionHolds
<1>4. f \in Slots /\ Tail(fop.out) \in Seq(Slots) /\ Len(Tail(fop.out)) <= OutCap
  BY <1>2, <1>3, Cop1Assumption
<1> HIDE DEF U, k, f
<1>5. FP!Typed(fop')
  BY <1>1, <1>2, <1>4, FP!Updates, FopAssumptionHolds
<1>6. /\ fop'.vs = fop.vs /\ fop'.wait = fop.wait /\ fop'.sent = fop.sent
      /\ fop'.frames = fop.frames
  BY <1>1, <1>2 DEF FP!Typed, FP!FopRecord
<1>7. fop'.nnr = fop.nnr
  BY <1>1, <1>2 DEF FP!Typed, FP!FopRecord
<1>8. FP!Advance(fop, fop', U, handed, k)
  BY <1>1, <1>5, <1>6, <1>7, FP!LikeAdvance, FopAssumptionHolds DEF FP!Like
<1>9. FP!Sound(fop', U, handed, k)
  BY <1>6, <1>8 DEF FP!Advance, FP!Result
<1>10. FP!Sound(fop, FP!ToSet(unprocessed), handed, made - Len(unprocessed))'
  <2>1. FP!Sound(fop', FP!ToSet(unprocessed'), handed', made' - Len(unprocessed'))
    BY <1>2, <1>9 DEF U, k
  <2>2. QED
    BY <1>2, <2>1, FP!SoundKept, FopAssumptionHolds DEF FP!ToSet
<1>11. ASSUME orderly' PROVE Linked'
  <2>1. FP!Placement(fop, f, handed)
    BY <1>1, <1>2, <1>4, <1>11 DEF FP!Sound, FP!ToSet
  <2>2. fop.frames[f].ns \in Nat
    BY <1>1, <1>4, FP!FieldTypes, FopAssumptionHolds, Cop1Assumption DEF FP!Frames, FP!SeqNumbers
  <2> DEFINE n == fop.frames[f].ns
  <2>3. sent.ns = n /\ sent.payload = payload[f]
    OBVIOUS
  <2>4. handed[n + 1] = payload[f] /\ n < Len(handed) /\ Len(handed) \in Nat
    BY <1>1, <2>1 DEF FP!Placement, Linked
  <2> HIDE DEF n
  <2>5. n \in 0..Len(handed) - 1
    BY <2>2, <2>4 DEF n
  <2> HIDE DEF sent
  <2>6. \A x \in uplink' : x.ns \in 0..Len(handed) - 1 /\ handed[x.ns + 1] = x.payload
    BY <1>1, <1>2, <2>3, <2>4, <2>5 DEF Linked
  <2>7. QED
    BY <1>1, <1>2, <1>7, <2>6 DEF Linked, farmVars
<1>12. OnePlace(fop, unprocessed)'
  <2>1. unprocessed' \o fop'.wait \o fop'.sent = unprocessed \o fop.wait \o fop.sent
    BY <1>2, <1>6
  <2>2. QED
    BY <1>1, <2>1, Zenon DEF OnePlace
<1>13. NumbersAgree'
  <2>1. fop.nnr <= receiverFrameSeqNumber /\ receiverFrameSeqNumber <= fop.vs
    BY <1>1 DEF Linked, FP!Sound
  <2>2. QED
    BY <1>2, <1>6, <1>7, <2>1 DEF NumbersAgree, farmVars
<1>14. UNCHANGED Delivery!deliveryVars
  BY <1>2 DEF Delivery!deliveryVars
<1>15. orderly' => Joined'
  BY <1>1, <1>2, <1>10, <1>11, <1>12 DEF Joined
<1>16. QED
  BY <1>13, <1>14, <1>15 DEF Kept

\* A new frame carries the next payload.
LEMMA MappKept ==
  ASSUME Joined, NEW f \in Slots, MappRequestTxTC(f)
  PROVE  Kept
<1> DEFINE U == FP!ToSet(unprocessed)
           k == made - Len(unprocessed)
           p == made + 1
<1>1. /\ Linked /\ FP!Sound(fop, U, handed, k) /\ FP!Typed(fop)
      /\ unprocessed \in Seq(Slots)
  BY DEF Joined, FP!Sound
<1>2. /\ fop' = FP!NewFrame(fop, "AD", f) /\ unprocessed' = Append(unprocessed, f)
      /\ made < MaxFrames /\ made' = p /\ payload' = [payload EXCEPT ![f] = p]
      /\ orderly' = OnePlace(fop', unprocessed')
      /\ UNCHANGED <<farmVars, uplink, downlink, handed, delivered, confirmed, vouched>>
  <2>1. Fop!NewFrame(fop, "AD", f) = FP!NewFrame(fop, "AD", f)
    BY SameMarks
  <2>2. QED
    BY <2>1 DEF MappRequestTxTC, Fop!MappRequestTxTC
<1>3. /\ fop'.vs = fop.vs /\ fop'.nnr = fop.nnr
      /\ fop'.wait = fop.wait /\ fop'.sent = fop.sent
  BY <1>1, <1>2 DEF FP!NewFrame, FP!Typed, FP!FopRecord
<1>4. FP!Typed(fop')
  BY <1>1, <1>2, FP!NewFrameTyped, FopAssumptionHolds
<1>5. /\ made \in 0..MaxFrames /\ payload \in [Slots -> 0..made] /\ handed \in Seq(1..made)
      /\ p \in 1..MaxFrames
  <2>1. /\ made \in 0..MaxFrames /\ payload \in [Slots -> 0..made] /\ handed \in Seq(1..made)
    BY <1>1 DEF Linked
  <2>2. QED
    BY <1>2, <2>1, Cop1Assumption
<1>6. NumbersAgree'
  <2>1. fop.nnr <= receiverFrameSeqNumber /\ receiverFrameSeqNumber <= fop.vs
    BY <1>1 DEF Linked, FP!Sound
  <2>2. QED
    BY <1>2, <1>3, <2>1 DEF NumbersAgree, farmVars
<1>7. UNCHANGED Delivery!deliveryVars
  BY <1>2 DEF Delivery!deliveryVars
<1>8. Linked'
  <2>1. payload' \in [Slots -> 0..p] /\ handed \in Seq(1..p) /\ p \in 0..MaxFrames
    <3>1. 0..made \subseteq 0..p /\ 1..made \subseteq 1..p /\ p \in 0..p
      BY <1>5
    <3>2. \A i \in DOMAIN handed : handed[i] \in 1..p
      BY <1>5, <3>1
    <3>3. handed \in Seq(1..p)
      BY <1>5, <3>2
    <3>4. payload' \in [Slots -> 0..p]
      BY <1>2, <1>5, <3>1
    <3>5. QED
      BY <1>5, <3>3, <3>4
  <2> HIDE DEF p
  <2>2. QED
    BY <1>1, <1>2, <1>3, <2>1 DEF Linked, farmVars
<1>9. ASSUME orderly' PROVE Joined'
  <2>1. OnePlace(fop', unprocessed') /\ unprocessed' \in Seq(Slots)
    BY <1>1, <1>2, <1>9
  <2>2. /\ Len(unprocessed) + 1 \in DOMAIN unprocessed' /\ unprocessed'[Len(unprocessed) + 1] = f
        /\ \A i \in DOMAIN unprocessed :
             i \in DOMAIN unprocessed' /\ unprocessed'[i] = unprocessed[i]
             /\ i # Len(unprocessed) + 1
        /\ Len(unprocessed') = Len(unprocessed) + 1
        /\ \A i \in DOMAIN unprocessed' : i \in DOMAIN unprocessed \/ i = Len(unprocessed) + 1
    BY <1>1, <1>2, AppendProperties
  <2>3. /\ \A i \in DOMAIN fop.wait : fop.wait[i] # f
        /\ \A i \in DOMAIN fop.sent : fop.sent[i] # f
        /\ \A i \in DOMAIN unprocessed : unprocessed[i] # f
    BY <1>3, <1>4, <2>1, <2>2, OnePlaceApart
  <2>4. f \in Slots \ U
    BY <2>3 DEF FP!ToSet
  <2>5. p \notin FP!ToSet(handed) /\ (\A g \in Slots : payload[g] # p) /\ DOMAIN payload = Slots
    BY <1>5 DEF FP!ToSet
  <2>6. FP!ToSet(unprocessed') = U \cup {f}
    BY <2>2 DEF FP!ToSet
  <2>7. made' - Len(unprocessed') = k
    BY <1>1, <1>2, <1>5, <2>2
  <2> HIDE DEF U, k, p
  <2>8. FP!Sound(fop, FP!ToSet(unprocessed), handed, made - Len(unprocessed))'
    BY <1>1, <1>2, <1>5, <2>3, <2>4, <2>5, <2>6, <2>7, FP!NewFrameSound, FopAssumptionHolds
       DEF FP!ToSet
  <2>9. OnePlace(fop, unprocessed)'
    BY <2>1 DEF OnePlace
  <2>10. QED
    BY <1>8, <2>1, <2>8, <2>9 DEF Joined
<1>10. QED
  BY <1>6, <1>7, <1>9 DEF Kept

\* FARM's sent queue is never emptied, so V(R) keeps within the octet that reports it.
LEMMA SmallNumbers ==
  ASSUME NEW n \in Nat, n <= FarmSentCap
  PROVE  n % 256 = n /\ (n < FarmSentCap => (n + 1) % 65536 = n + 1 /\ (n + 1) % 256 = n + 1)
<1>1. FarmSentCap \in 1..254
  BY Cop1Assumption
<1>2. n \in 0..254 /\ n + 1 \in 1..255
  BY <1>1
<1>3. QED
  BY <1>2

\* FARM takes the frame numbered V(R) and none else, and reports V(R).
LEMMA VcReceptionKept ==
  ASSUME Joined, NEW x \in uplink, VcReceptionRxTC(x)
  PROVE  Kept
<1> DEFINE f == [type |-> "AD", ns |-> x.ns]
           clcw == NewClcw(lockout', wait', retransmit', 0, receiverFrameSeqNumber')
<1>1. /\ Linked /\ fop.vs = Len(handed)
      /\ FP!Sound(fop, FP!ToSet(unprocessed), handed, made - Len(unprocessed))
      /\ unprocessed \in Seq(Slots) /\ OnePlace(fop, unprocessed)
  BY DEF Joined, FP!Sound
<1>2. /\ receiverFrameSeqNumber = Len(delivered) /\ Len(delivered) = Len(sentQueue)
      /\ Len(delivered) \in Nat /\ Len(sentQueue) <= FarmSentCap
      /\ sentQueue \in Seq(Farm!ADFrames) /\ delivered \in Seq(1..MaxFrames)
      /\ handed \in Seq(1..made) /\ made \in 0..MaxFrames
      /\ Len(handed) \in Nat /\ Len(delivered) <= Len(handed)
      /\ \A i \in 1..Len(delivered) : delivered[i] = handed[i]
      /\ x.ns \in 0..Len(handed) - 1 /\ handed[x.ns + 1] = x.payload
  BY <1>1 DEF Linked
<1>3. /\ Farm!E1(f) \/ (UNCHANGED sentQueue /\ UNCHANGED receiverFrameSeqNumber)
      /\ downlink' = downlink \cup {clcw}
      /\ delivered' = IF sentQueue' = sentQueue THEN delivered ELSE Append(delivered, x.payload)
      /\ UNCHANGED <<fopVars, uplink, payload, made, handed, confirmed, vouched, orderly>>
  BY DEF VcReceptionRxTC, Farm!E2, Farm!E3, Farm!E5, Farm!Ignored
<1>4. clcw.report = receiverFrameSeqNumber' % 256
  BY DEF NewClcw
<1>5. FP!Sound(fop, FP!ToSet(unprocessed), handed, made - Len(unprocessed))'
  BY <1>1, <1>3, FP!SoundKept, FopAssumptionHolds DEF FP!ToSet, fopVars
<1>6. OnePlace(fop, unprocessed)'
  BY <1>1, <1>3 DEF OnePlace, fopVars
<1>7. CASE UNCHANGED sentQueue /\ UNCHANGED receiverFrameSeqNumber
  <2>1. clcw.report = receiverFrameSeqNumber
    <3>1. receiverFrameSeqNumber % 256 = receiverFrameSeqNumber
      BY <1>2, SmallNumbers
    <3>2. QED
      BY <1>4, <1>7, <3>1
  <2>2. delivered' = delivered
    BY <1>3, <1>7
  <2> HIDE DEF clcw
  <2>3. \A c \in downlink' : c.report \in 0..receiverFrameSeqNumber
    BY <1>1, <1>2, <1>3, <2>1 DEF Linked
  <2>4. Linked'
    BY <1>1, <1>3, <1>7, <2>2, <2>3 DEF Linked, fopVars
  <2>5. Joined'
    BY <1>1, <1>3, <1>5, <1>6, <2>4 DEF Joined, fopVars
  <2>6. NumbersAgree'
    BY <1>1, <1>2, <1>3, <1>7 DEF Linked, NumbersAgree, fopVars
  <2>7. UNCHANGED Delivery!deliveryVars
    BY <1>3, <2>2 DEF Delivery!deliveryVars
  <2>8. QED
    BY <2>5, <2>6, <2>7 DEF Kept
<1>8. CASE Farm!E1(f)
  <2>1. /\ x.ns = receiverFrameSeqNumber /\ Len(sentQueue) < FarmSentCap
        /\ sentQueue' = Append(sentQueue, f)
        /\ receiverFrameSeqNumber' = (receiverFrameSeqNumber + 1) % 65536
    BY <1>8 DEF Farm!E1
  <2>2. f \in Farm!ADFrames
    <3>1. Len(handed) < Modulus
      BY <1>1, Cop1Assumption DEF FP!Sound
    <3>2. x.ns \in 0..Modulus - 1
      <4>1. Modulus \in Nat
        BY Cop1Assumption
      <4>2. x.ns \in 0..Len(handed) - 1 /\ Len(handed) \in Nat
        BY <1>2
      <4>3. QED
        BY ONLY <3>1, <4>1, <4>2
    <3>3. QED
      BY <3>2 DEF Farm!ADFrames
  <2> HIDE DEF f
  <2>3. /\ sentQueue' \in Seq(Farm!ADFrames) /\ Len(sentQueue') = Len(sentQueue) + 1
    BY <1>2, <2>1, <2>2
  <2>4. sentQueue' # sentQueue
    BY <1>2, <2>3
  <2>5. receiverFrameSeqNumber' = Len(delivered) + 1
    BY <1>2, <2>1, SmallNumbers
  <2>6. x.payload = handed[Len(delivered) + 1] /\ Len(delivered) + 1 <= Len(handed)
    BY <1>2, <2>1
  <2>7. x.payload \in 1..MaxFrames
    <3>1. Len(delivered) + 1 \in DOMAIN handed
      BY <1>2, <2>6
    <3>2. x.payload \in 1..made
      BY <1>2, <2>6, <3>1
    <3>3. QED
      BY <1>2, <3>2, Cop1Assumption
  <2>8. delivered' = Append(delivered, x.payload)
    BY <1>3, <2>4
  <2>9. /\ delivered' \in Seq(1..MaxFrames) /\ Len(delivered') = Len(delivered) + 1
        /\ \A i \in 1..Len(delivered) : delivered'[i] = delivered[i]
        /\ delivered'[Len(delivered) + 1] = x.payload
    BY <1>2, <2>7, <2>8, AppendProperties
  <2>10. \A i \in 1..Len(delivered) + 1 : delivered'[i] = handed[i]
    <3>1. \A i \in 1..Len(delivered) + 1 : i \in 1..Len(delivered) \/ i = Len(delivered) + 1
      <4>1. Len(delivered) \in Nat
        BY <1>2
      <4>2. QED
        BY <4>1
    <3>2. QED
      BY <1>2, <2>6, <2>9, <3>1
  <2>11. clcw.report = Len(delivered) + 1
    <3>1. (Len(delivered) + 1) % 256 = Len(delivered) + 1
      BY <1>2, <2>1, SmallNumbers
    <3>2. QED
      BY <1>4, <2>5, <3>1
  <2> HIDE DEF clcw
  <2>12. \A c \in downlink' : c.report \in 0..Len(delivered) + 1
    <3>1. \A c \in downlink : c.report \in 0..Len(delivered)
      BY <1>1, <1>2 DEF Linked
    <3>2. QED
      BY <1>2, <1>3, <2>11, <3>1
  <2>13. fop'.nnr <= receiverFrameSeqNumber'
    <3>1. FP!Typed(fop)
      BY <1>1 DEF FP!Sound
    <3>2. fop.nnr \in FP!SeqNumbers
      BY <3>1, FP!FieldTypes, FopAssumptionHolds
    <3>3. fop.nnr <= Len(delivered)
      BY <1>1, <1>2 DEF Linked
    <3>4. fop' = fop
      BY <1>3 DEF fopVars
    <3>5. fop.nnr \in Int /\ Len(delivered) \in Int
      BY <1>2, <3>2, Cop1Assumption DEF FP!SeqNumbers
    <3>6. fop.nnr <= Len(delivered) + 1
      BY <3>3, <3>5
    <3>7. QED
      BY <2>5, <3>4, <3>6
  <2>14. Linked'
    <3>1. Len(sentQueue') <= FarmSentCap
      <4>1. Len(sentQueue) \in Int /\ FarmSentCap \in Int
        BY <1>2, Cop1Assumption
      <4>2. QED
        BY <2>1, <2>3, <4>1
    <3>2. QED
      BY <1>1, <1>2, <1>3, <2>3, <2>5, <2>6, <2>9, <2>10, <2>12, <2>13, <3>1 DEF Linked, fopVars
  <2>15. Joined'
    BY <1>1, <1>3, <1>5, <1>6, <2>14 DEF Joined, fopVars
  <2>16. NumbersAgree'
    BY <1>1, <1>3, <2>5, <2>6, <2>13 DEF NumbersAgree, fopVars
  <2>17. Delivery!Deliver
    BY <1>2, <1>3, <2>6, <2>8 DEF Delivery!Deliver
  <2>18. QED
    BY <2>15, <2>16, <2>17 DEF Kept, Delivery!DeliveryNext
<1>9. QED
  BY <1>3, <1>7, <1>8

LEMMA NextKept ==
  ASSUME CopInv, CopNext
  PROVE  Kept
<1>1. Joined
  BY DEF CopInv, CopNext
<1>2. CASE PacketExtractionRxTM
  <2>1. UNCHANGED <<fopVars, farmVars, uplink, downlink, history>>
    BY <1>2 DEF PacketExtractionRxTM
  <2>2. FP!Sound(fop, FP!ToSet(unprocessed), handed, made - Len(unprocessed))'
    BY <1>1, <2>1, FP!SoundKept, FopAssumptionHolds DEF Joined, FP!ToSet, fopVars, history
  <2>3. OnePlace(fop, unprocessed)'
    BY <1>1, <2>1 DEF Joined, OnePlace, fopVars
  <2>4. Linked'
    BY <1>1, <2>1 DEF Joined, Linked, fopVars, farmVars, history
  <2>5. Joined'
    BY <1>1, <2>1, <2>2, <2>3, <2>4 DEF Joined, fopVars
  <2>6. NumbersAgree'
    BY <2>1 DEF CopInv, NumbersAgree, fopVars, farmVars
  <2>7. UNCHANGED Delivery!deliveryVars
    BY <2>1 DEF Delivery!deliveryVars, history
  <2>8. QED
    BY <2>5, <2>6, <2>7 DEF Kept
<1>3. QED
  BY <1>1, <1>2, MappKept, FopServiceKept, AcknowledgeKept, AllFramesKept, ClcwKept, VcReceptionKept DEF CopNext

LEMMA CopInvariant == CopSpec => []CopInv
<1>1. CopInv /\ [CopNext]_copVars => CopInv'
  <2> SUFFICES ASSUME CopInv, [CopNext]_copVars PROVE CopInv'
    OBVIOUS
  <2>1. CASE CopNext
    BY <2>1, NextKept DEF Kept, CopInv
  <2>2. CASE UNCHANGED copVars
    <3>1. UNCHANGED <<fopVars, farmVars, uplink, downlink, history>>
      BY <2>2 DEF copVars
    <3>2. NumbersAgree'
      BY <3>1 DEF CopInv, NumbersAgree, fopVars, farmVars
    <3>3. ASSUME orderly' PROVE Joined'
      <4>1. Joined
        BY <3>1, <3>3 DEF CopInv, history
      <4>2. FP!Sound(fop, FP!ToSet(unprocessed), handed, made - Len(unprocessed))'
        BY <3>1, <4>1, FP!SoundKept, FopAssumptionHolds DEF Joined, FP!ToSet, fopVars, history
      <4>3. OnePlace(fop, unprocessed)'
        BY <3>1, <4>1 DEF Joined, OnePlace, fopVars
      <4>4. Linked'
        BY <3>1, <4>1 DEF Joined, Linked, fopVars, farmVars, history
      <4>5. QED
        BY <3>1, <4>1, <4>2, <4>3, <4>4 DEF Joined, fopVars
    <3>4. QED
      BY <3>2, <3>3 DEF CopInv
  <2>3. QED
    BY <2>1, <2>2
<1>2. QED
  BY <1>1, InitInv, PTL DEF CopSpec

\* NN(R) <= V(R) <= V(S) for every modulus, all capacities and every history of the
\* medium: neither end believes the other further than it is.
THEOREM CopNumbersAgree == CopSpec => []NumbersAgree
<1>1. CopInv => NumbersAgree
  BY DEF CopInv
<1>2. QED
  BY <1>1, CopInvariant, PTL

\* Every behaviour of FOP, FARM and the medium is one of in-order delivery: what FARM
\* accepts is a prefix of what FOP numbered, and that alone is acknowledged by CLCWs,
\* whatever directives the user gives and whichever frames he acknowledges himself.
THEOREM CopImplementsDelivery == CopSpec => ImplementsDelivery
<1>1. CopInit => Delivery!DeliveryInit
  BY DEF CopInit, Delivery!DeliveryInit
<1>2. CopInv /\ [CopNext]_copVars => [Delivery!DeliveryNext]_(Delivery!deliveryVars)
  <2>1. UNCHANGED copVars => UNCHANGED Delivery!deliveryVars
    BY DEF copVars, history, Delivery!deliveryVars
  <2>2. QED
    BY <2>1, NextKept DEF Kept
<1>3. QED
  BY <1>1, <1>2, CopInvariant, PTL DEF CopSpec, ImplementsDelivery, Delivery!DeliverySpec
=============================================================================
