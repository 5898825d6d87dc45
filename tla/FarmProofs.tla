------------------------------ MODULE FarmProofs ------------------------------
(***************************************************************************)
(* Theorems about FrameAcceptanceReporting, for every set of numbers,      *)
(* every queue capacity and every window width.                            *)
(***************************************************************************)
EXTENDS FrameAcceptanceReporting, TLAPS

USE DEF flags

\* The first frame of a non-empty wait queue is a received frame.
LEMMA HeadIsFrame ==
  ASSUME TypeOK, waitQueue # <<>>
  PROVE  Head(waitQueue) \in Frames
BY DEF TypeOK

\* A received AD frame is one of ADFrames.
LEMMA AdFrame ==
  ASSUME NEW f \in Frames, f.type = "AD"
  PROVE  f \in ADFrames
BY DEF Frames, ADFrames, BCFrames

\* Below the capacity V(R) does not wrap: it counts at most the frames accepted.
LEMMA NextNumber ==
  ASSUME NEW n \in Nat, n <= 254
  PROVE  (n + 1) % UInt16 = n + 1
BY FarmAssumption

\* Nor does the FARM-B counter, as long as it stays below its bound.
LEMMA NextCount ==
  ASSUME NEW n \in Nat, NEW m \in Nat, NEW u \in Nat, n < m, m < u
  PROVE  (n + 1) % u = n + 1
OBVIOUS

\* The bounds as facts of arithmetic.
LEMMA Bounds ==
  /\ SentQueueCap \in Nat /\ SentQueueCap <= 254
  /\ WaitQueueCap \in Nat
  /\ FarmBBound \in Nat /\ FarmBBound < UInt16
  /\ UInt16 \in Nat
BY FarmAssumption

\* Type correctness of FARM, with V(R) bounded by the frames accepted, so that
\* the 16-bit counter of the code never leaves the range of the 8-bit N(S).
THEOREM FarmTypeCorrect == Spec => []TypeOK
<1>1. Init => TypeOK
  <2> SUFFICES ASSUME Init PROVE TypeOK
    OBVIOUS
  <2>1. waitQueue \in Seq(Frames) /\ Len(waitQueue) = 0
    BY DEF Init
  <2>2. sentQueue \in Seq(ADFrames) /\ Len(sentQueue) = 0
    BY DEF Init
  <2>3. QED
    <3>1. receiverFrameSeqNumber \in 0..Len(sentQueue) /\ farmBCount \in 0..FarmBBound
      BY <2>2, Bounds DEF Init
    <3>2. Len(waitQueue) <= WaitQueueCap /\ Len(sentQueue) <= SentQueueCap
      BY <2>1, <2>2, Bounds
    <3>3. state \in FARMState /\ lockout \in BOOLEAN /\ wait \in BOOLEAN /\ retransmit \in BOOLEAN
      BY DEF Init, FARMState
    <3>4. QED
      BY <2>1, <2>2, <3>1, <3>2, <3>3 DEF TypeOK
<1>2. TypeOK /\ [Next]_vars => TypeOK'
  <2> SUFFICES ASSUME TypeOK, [Next]_vars
               PROVE  TypeOK'
    OBVIOUS
  <2>1. ASSUME NEW f \in Frames, Receive(f)
        PROVE  TypeOK'
    <3>1. waitQueue' \in Seq(Frames) /\ Len(waitQueue') = Len(waitQueue) + 1
      BY <2>1 DEF Receive, TypeOK
    <3>2. QED
      BY <2>1, <3>1, Bounds DEF Receive, TypeOK
  <2>2. CASE FrameArrives
    <3> DEFINE f == Head(waitQueue)
    <3>1. f \in Frames
      BY <2>2, HeadIsFrame DEF FrameArrives
    <3>2. waitQueue' \in Seq(Frames) /\ Len(waitQueue') <= WaitQueueCap
      <4>1. waitQueue' = Tail(waitQueue) /\ waitQueue # <<>> /\ waitQueue \in Seq(Frames)
        BY <2>2 DEF FrameArrives, TypeOK
      <4>2. Len(Tail(waitQueue)) = Len(waitQueue) - 1 /\ Tail(waitQueue) \in Seq(Frames)
        BY <4>1
      <4>3. QED
        BY <4>1, <4>2, Bounds DEF TypeOK
    <3> HIDE DEF f
    <3>3. CASE E1(f)
      <4>1. f \in ADFrames
        BY <3>1, <3>3, AdFrame DEF E1
      <4>2. sentQueue' \in Seq(ADFrames) /\ Len(sentQueue') = Len(sentQueue) + 1
            /\ Len(sentQueue') <= SentQueueCap /\ Len(sentQueue) \in Nat
        BY <3>3, <4>1, Bounds DEF E1, TypeOK
      <4>3. receiverFrameSeqNumber \in Nat /\ receiverFrameSeqNumber <= 254
        <5>1. receiverFrameSeqNumber \in 0..Len(sentQueue) /\ Len(sentQueue) <= SentQueueCap
          BY DEF TypeOK
        <5>2. QED
          BY <4>2, <5>1, Bounds
      <4>4. receiverFrameSeqNumber' = receiverFrameSeqNumber + 1
        BY <3>3, <4>3, NextNumber DEF E1
      <4>5. receiverFrameSeqNumber' \in 0..Len(sentQueue')
        BY <4>2, <4>3, <4>4 DEF TypeOK
      <4>6. QED
        BY <3>2, <3>3, <4>2, <4>5 DEF E1, TypeOK
    <3>4. CASE E2(f)
      BY <3>2, <3>4 DEF E2, TypeOK, FARMState
    <3>5. CASE E3(f)
      BY <3>2, <3>5 DEF E3, TypeOK
    <3>6. CASE E5(f)
      BY <3>2, <3>6 DEF E5, TypeOK, FARMState
    <3>7. CASE farmBCount < FarmBBound /\ (E6(f) \/ E7(f) \/ E8(f))
      <4>0. farmBCount \in Nat
        BY Bounds DEF TypeOK
      <4>1. farmBCount' = farmBCount + 1
        <5>1. farmBCount' = (farmBCount + 1) % UInt16
          BY <3>7 DEF E6, E7, E8
        <5>2. QED
          BY <3>7, <4>0, <5>1, NextCount, Bounds
      <4>2. farmBCount' \in 0..FarmBBound
        BY <3>7, <4>1, Bounds DEF TypeOK
      <4>3. CASE E6(f)
        BY <3>2, <4>2, <4>3 DEF E6, TypeOK
      <4>4. CASE E7(f)
        BY <3>2, <4>2, <4>4 DEF E7, TypeOK, FARMState
      <4>5. CASE E8(f)
        <5>1. Len(sentQueue) \in Nat /\ sentQueue' = sentQueue
          BY <4>5 DEF E8, TypeOK
        <5>2. receiverFrameSeqNumber' \in 0..Len(sentQueue')
          BY <4>5, <5>1 DEF E8
        <5>3. QED
          BY <3>2, <4>2, <4>5, <5>2 DEF E8, TypeOK
      <4>6. QED
        BY <3>7, <4>3, <4>4, <4>5
    <3>8. CASE Ignored(f)
      BY <3>2, <3>8 DEF Ignored, TypeOK
    <3>9. QED
      BY <2>2, <3>3, <3>4, <3>5, <3>6, <3>7, <3>8 DEF FrameArrives, f
  <2>3. CASE BufferRelease
    BY <2>3 DEF BufferRelease, TypeOK, FARMState
  <2>4. CASE UNCHANGED vars
    BY <2>4 DEF vars, TypeOK
  <2>5. QED
    BY <2>1, <2>2, <2>3, <2>4 DEF Next
<1>3. QED
  BY <1>1, <1>2, PTL DEF Spec

\* Accepting a frame keeps the sequence numbers of the sent queue in order.
LEMMA AcceptKeepsOrder ==
  ASSUME TypeOK, AcceptedInOrder, NEW f \in ADFrames, E1(f)
  PROVE  AcceptedInOrder'
<1> DEFINE n == Len(sentQueue)
<1>1. sentQueue \in Seq(ADFrames) /\ n \in Nat /\ n <= 254
  BY Bounds DEF TypeOK
<1>2. sentQueue' \in Seq(ADFrames) /\ Len(sentQueue') = n + 1
  BY <1>1 DEF E1
<1>3. \A i \in 1..n : sentQueue'[i] = sentQueue[i]
  BY <1>1 DEF E1
<1>4. sentQueue'[n + 1] = f
  BY <1>1 DEF E1
<1>5. f.ns = receiverFrameSeqNumber
  BY DEF E1
<1>6. receiverFrameSeqNumber' = f.ns + 1
  <2>1. receiverFrameSeqNumber \in Nat /\ receiverFrameSeqNumber <= 254
    BY <1>1 DEF TypeOK
  <2>2. receiverFrameSeqNumber' = (receiverFrameSeqNumber + 1) % UInt16
    BY DEF E1
  <2>3. QED
    BY <1>5, <2>1, <2>2, NextNumber
<1>7. \A i \in 1..n : sentQueue'[i + 1].ns \in {sentQueue'[i].ns + 1, 0}
  <2> SUFFICES ASSUME NEW i \in 1..n
               PROVE  sentQueue'[i + 1].ns \in {sentQueue'[i].ns + 1, 0}
    OBVIOUS
  <2>1. CASE i = n
    BY <1>1, <1>3, <1>4, <1>5, <2>1 DEF AcceptedInOrder
  <2>2. CASE i # n
    <3>1. i \in 1..n - 1 /\ i + 1 \in 1..n
      BY <1>1, <2>2
    <3>2. sentQueue[i + 1].ns \in {sentQueue[i].ns + 1, 0}
      BY <3>1 DEF AcceptedInOrder
    <3>3. QED
      BY <1>3, <3>1, <3>2
  <2>3. QED
    BY <2>1, <2>2
<1>8. sentQueue'[1].ns = 0
  <2>1. CASE n = 0
    <3>1. receiverFrameSeqNumber = 0
      BY <2>1 DEF TypeOK
    <3>2. QED
      BY <1>4, <1>5, <2>1, <3>1
  <2>2. CASE n # 0
    <3>1. 1 \in 1..n /\ sentQueue # <<>>
      BY <1>1, <2>2
    <3>2. QED
      BY <1>3, <3>1 DEF AcceptedInOrder
  <2>3. QED
    BY <2>1, <2>2
<1>9. receiverFrameSeqNumber' \in {sentQueue'[Len(sentQueue')].ns + 1, 0}
  BY <1>2, <1>4, <1>6
<1>10. \A i \in 1..Len(sentQueue') - 1 :
          sentQueue'[i + 1].ns \in {sentQueue'[i].ns + 1, 0}
  BY <1>1, <1>2, <1>7
<1>11. QED
  BY <1>8, <1>9, <1>10 DEF AcceptedInOrder

\* The accepted frames are numbered in order.  E1 appends V(R), which is the
\* number after the last one or 0; E8 alone resets it; nothing else touches
\* the sent queue.
THEOREM FarmAcceptsInOrder == Spec => []AcceptedInOrder
<1>1. Init => AcceptedInOrder
  BY DEF Init, AcceptedInOrder
<1>2. TypeOK /\ AcceptedInOrder /\ [Next]_vars => AcceptedInOrder'
  <2> SUFFICES ASSUME TypeOK, AcceptedInOrder, [Next]_vars
               PROVE  AcceptedInOrder'
    OBVIOUS
  <2>1. ASSUME NEW f \in Frames, Receive(f)
        PROVE  AcceptedInOrder'
    BY <2>1 DEF Receive, AcceptedInOrder
  <2>2. CASE FrameArrives
    <3> DEFINE f == Head(waitQueue)
    <3>1. f \in Frames
      BY <2>2, HeadIsFrame DEF FrameArrives
    <3> HIDE DEF f
    <3>2. CASE E1(f)
      <4>1. f \in ADFrames
        BY <3>1, <3>2, AdFrame DEF E1
      <4>2. QED
        BY <3>2, <4>1, AcceptKeepsOrder
    <3>3. CASE E8(f)
      BY <3>3 DEF E8, AcceptedInOrder
    <3>4. CASE E2(f) \/ E3(f) \/ E5(f) \/ E6(f) \/ E7(f) \/ Ignored(f)
      BY <3>4 DEF E2, E3, E5, E6, E7, Ignored, AcceptedInOrder
    <3>5. QED
      BY <2>2, <3>2, <3>3, <3>4 DEF FrameArrives, f
  <2>3. CASE BufferRelease
    BY <2>3 DEF BufferRelease, AcceptedInOrder
  <2>4. CASE UNCHANGED vars
    BY <2>4 DEF vars, AcceptedInOrder
  <2>5. QED
    BY <2>1, <2>2, <2>3, <2>4 DEF Next
<1>3. QED
  BY <1>1, <1>2, FarmTypeCorrect, PTL DEF Spec

\* FARM waits only with a full sent queue: E2 enters WAIT under that test and
\* no step shortens the queue.
THEOREM FarmWaitsOnlyWhenFull == Spec => []WaitOnlyWhenFull
<1>1. Init => WaitOnlyWhenFull
  BY DEF Init, WaitOnlyWhenFull
<1>2. WaitOnlyWhenFull /\ [Next]_vars => WaitOnlyWhenFull'
  <2> SUFFICES ASSUME WaitOnlyWhenFull, [Next]_vars
               PROVE  WaitOnlyWhenFull'
    OBVIOUS
  <2>1. ASSUME NEW f \in Frames, Receive(f)
        PROVE  WaitOnlyWhenFull'
    BY <2>1 DEF Receive, WaitOnlyWhenFull
  <2>2. CASE FrameArrives
    BY <2>2 DEF FrameArrives, E1, E2, E3, E5, E6, E7, E8, Ignored, WaitOnlyWhenFull
  <2>3. CASE BufferRelease
    BY <2>3 DEF BufferRelease, WaitOnlyWhenFull
  <2>4. CASE UNCHANGED vars
    BY <2>4 DEF vars, WaitOnlyWhenFull
  <2>5. QED
    BY <2>1, <2>2, <2>3, <2>4 DEF Next
<1>3. QED
  BY <1>1, <1>2, PTL DEF Spec
=============================================================================
