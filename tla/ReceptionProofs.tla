--------------------------- MODULE ReceptionProofs ---------------------------
(***************************************************************************)
(* Theorems about the two receiving chains, for all channels, buffers,     *)
(* capacities and window widths.  TcReception is shown to implement        *)
(* FrameAcceptanceReporting, so that what FarmProofs proves of FARM by     *)
(* itself holds in the chain, and to account for its master copies; of     *)
(* TmReception, that packets leave in the order of their frames, that each *)
(* master copy waits exactly once, and that FOP gets the CLCWs of the      *)
(* frames that are kept.                                                   *)
(***************************************************************************)
EXTENDS TcReception, TmReception, FarmProofs, SumProofs

USE DEF flags

\* The frames that get past the test of the version number.
Valid == ADFrames \cup [type : {"AC"}]

\* Every frame on the way is one that can be received; those before FARM are valid.
\* The flags agree with the state, and without MAP channels nothing has thrown.
RxInv ==
  /\ inFrames \in Seq(Stored)
  /\ waitQueue \in Seq(Valid)
  /\ farmBCount = 0
  /\ FlagsAgree
  /\ VcChannelNeverThrows

\* An octet is not changed by the mask of a field of eight bits.
LEMMA Octet ==
  ASSUME NEW n \in 0..255
  PROVE  n % 256 = n
BY SMT

\* A stored frame of the right version is an AD or AC frame.
LEMMA ValidFrames ==
  ASSUME NEW x \in Stored, ValidVersion(x)
  PROVE  x.frame \in Valid /\ x.frame \in Frames
BY DEF Stored, ValidVersion, Valid, Frames, ADFrames, BCFrames

\* Steps that leave the flags, the state and what has been thrown alone.
LEMMA FlagsKept ==
  ASSUME FlagsAgree, state' = state, lockout' = lockout, wait' = wait
  PROVE  FlagsAgree'
BY Zenon DEF FlagsAgree

LEMMA NothingThrown ==
  ASSUME VcChannelNeverThrows, segmentHeaderPresent' = segmentHeaderPresent, thrown' = thrown
  PROVE  VcChannelNeverThrows'
BY Zenon DEF VcChannelNeverThrows

\* FARM neither counts nor unlocks for the frames that reach it here.
LEMMA FarmStep ==
  ASSUME waitQueue \in Seq(Valid), FlagsAgree, FrameArrives
  PROVE  /\ waitQueue' \in Seq(Valid) /\ farmBCount' = farmBCount
         /\ FlagsAgree'
         /\ sentQueue' # sentQueue => ~lockout /\ ~wait
<1> DEFINE f == Head(waitQueue)
<1>1. f \in Valid /\ waitQueue' = Tail(waitQueue)
  BY DEF FrameArrives
<1>2. waitQueue' \in Seq(Valid)
  BY <1>1 DEF FrameArrives
<1>3. f.type \in {"AD", "AC"}
  BY <1>1 DEF Valid, ADFrames
<1>4. E1(f) \/ E2(f) \/ E3(f) \/ E5(f) \/ Ignored(f)
  BY <1>3 DEF FrameArrives, E6, E7, E8
<1> HIDE DEF f
<1>5. CASE E1(f)
  BY <1>2, <1>5 DEF E1, FlagsAgree
<1>6. CASE E2(f)
  BY <1>2, <1>6 DEF E2, FlagsAgree
<1>7. CASE E3(f)
  BY <1>2, <1>7 DEF E3, FlagsAgree
<1>8. CASE E5(f)
  BY <1>2, <1>8 DEF E5, FlagsAgree
<1>9. CASE Ignored(f)
  <2>1. UNCHANGED <<state, lockout, wait, farmBCount, sentQueue>>
    BY <1>9 DEF Ignored
  <2>2. QED
    BY <1>2, <2>1, FlagsKept
<1>10. QED
  BY <1>4, <1>5, <1>6, <1>7, <1>8, <1>9

\* What a step of the chain does to FARM: nothing, or a step of FARM's own.
LEMMA RxStep ==
  ASSUME RxInv, [RxNext]_rxVars
  PROVE  /\ RxInv'
         /\ [Next]_vars
         /\ sentQueue' # sentQueue => ~lockout /\ ~wait
<1> USE DEF RxInv
<1>1. ASSUME NEW x \in Stored, StoreFrameRxTC(x)
      PROVE  RxInv' /\ UNCHANGED vars
  <2>1. UNCHANGED vars
    BY <1>1 DEF StoreFrameRxTC
  <2>2. inFrames' \in Seq(Stored)
    BY <1>1 DEF StoreFrameRxTC
  <2>3. VcChannelNeverThrows'
    BY <1>1, NothingThrown DEF StoreFrameRxTC
  <2>4. FlagsAgree'
    BY <2>1, FlagsKept DEF vars
  <2>5. QED
    BY <2>1, <2>2, <2>3, <2>4 DEF vars
<1>2. CASE AllFramesReception
  <2>1. /\ Head(inFrames) \in Stored
        /\ inFrames' \in Seq(Stored)
    BY <1>2 DEF AllFramesReception
  <2>2. Head(inFrames).frame \in Valid /\ Head(inFrames).frame \in Frames
    BY <1>2, <2>1, ValidFrames DEF AllFramesReception
  <2>3. VcChannelNeverThrows' /\ FlagsAgree' /\ farmBCount' = 0 /\ sentQueue' = sentQueue
    BY <1>2, NothingThrown, FlagsKept DEF AllFramesReception, farm
  <2>4. CASE Head(inFrames).crc
    <3>1. Receive(Head(inFrames).frame)
      BY <1>2, <2>4 DEF AllFramesReception, Receive, farm
    <3>2. waitQueue' \in Seq(Valid)
      BY <2>2, <3>1 DEF Receive
    <3>3. QED
      BY <2>1, <2>2, <2>3, <3>1, <3>2 DEF Next
  <2>5. CASE ~Head(inFrames).crc
    BY <1>2, <2>1, <2>3, <2>5 DEF AllFramesReception, farm, vars
  <2>6. QED
    BY <2>4, <2>5
<1>3. CASE VcReceptionRxTC
  <2>1. FrameArrives /\ inFrames' = inFrames
    BY <1>3 DEF VcReceptionRxTC
  <2>2. VcChannelNeverThrows'
    <3>1. AfterVcCap \in Nat
      BY TcReceptionAssumption
    <3>2. SUFFICES ASSUME ~segmentHeaderPresent' PROVE ~thrown'
      BY DEF VcChannelNeverThrows
    <3>3. ~segmentHeaderPresent /\ Outputs = {"vc"} /\ ~thrown
      BY <1>3, <3>2 DEF VcReceptionRxTC, Outputs, VcChannelNeverThrows
    <3>4. Len(afterVc["vc"]) # AfterVcCap
      BY <1>3, <3>1 DEF VcReceptionRxTC, RoomChecked
    <3>5. QED
      BY <1>3, <3>3, <3>4 DEF VcReceptionRxTC
  <2>3. QED
    BY <2>1, <2>2, FarmStep DEF Next
<1>4. CASE VcPacketExtraction \/ \E m \in MapIds : MapPacketExtraction(m)
  <2>1. UNCHANGED <<vars, inFrames, segmentHeaderPresent, thrown>>
    BY <1>4 DEF VcPacketExtraction, MapPacketExtraction
  <2>2. QED
    BY <2>1, NothingThrown, FlagsKept DEF vars
<1>5. CASE UNCHANGED rxVars
  BY <1>5, NothingThrown, FlagsKept DEF rxVars, chain, vars
<1>6. QED
  BY <1>1, <1>2, <1>3, <1>4, <1>5 DEF RxNext, vars

LEMMA RxInvariant == RxSpec => []RxInv
<1>1. RxInit => RxInv
  BY DEF RxInit, Init, RxInv, FlagsAgree, VcChannelNeverThrows
<1>2. RxInv /\ [RxNext]_rxVars => RxInv'
  BY RxStep
<1>3. QED
  BY <1>1, <1>2, PTL DEF RxSpec

----------------------------------------------------------------------------
(* Theorems.                                                               *)

\* The chain around FARM does to FARM only what FARM's own specification allows, so
\* that every theorem about Spec is one about the chain.
THEOREM RxImplementsFarm == RxSpec => Spec
<1>1. RxInit => Init
  BY DEF RxInit
<1>2. RxInv /\ [RxNext]_rxVars => [Next]_vars
  BY RxStep
<1>3. QED
  BY <1>1, <1>2, RxInvariant, PTL DEF RxSpec, Spec

\* In the chain, where no BC frame reaches FARM, the flags of the CLCW agree with
\* FARM's state.
THEOREM RxFlagsAgree == RxSpec => []FlagsAgree
<1>1. RxInv => FlagsAgree
  BY DEF RxInv
<1>2. QED
  BY <1>1, RxInvariant, PTL

\* Without MAP channels no call of vcReceptionRxTC throws.
THEOREM RxVcChannelNeverThrows == RxSpec => []VcChannelNeverThrows
<1>1. RxInv => VcChannelNeverThrows
  BY DEF RxInv
<1>2. QED
  BY <1>1, RxInvariant, PTL

\* FARM accepts a frame only while its flags say that it is open.
THEOREM RxAcceptsOnlyWhenReportedOpen == RxSpec => AcceptsOnlyWhenReportedOpen
<1> DEFINE Open == sentQueue' # sentQueue => ~lockout /\ ~wait
<1>1. RxInv /\ [RxNext]_rxVars => [Open]_vars
  BY RxStep
<1>2. QED
  BY <1>1, RxInvariant, PTL DEF RxSpec, AcceptsOnlyWhenReportedOpen

\* The CLCW shows what FARM is in now.  V(R) stays an octet and the FARM-B counter 0,
\* so that no field of the word spills into another.
THEOREM RxClcwCurrent == RxSpec => []ClcwCurrent
<1>1. RxInit => ClcwCurrent
  BY DEF RxInit, ClcwCurrent
<1>2. TypeOK' /\ RxInv /\ RxInv' /\ ClcwCurrent /\ [RxNext]_rxVars => ClcwCurrent'
  <2> SUFFICES ASSUME TypeOK', RxInv, RxInv', ClcwCurrent, [RxNext]_rxVars
               PROVE  ClcwCurrent'
    OBVIOUS
  <2>1. CASE VcReceptionRxTC
    <3>1. receiverFrameSeqNumber' \in 0..255
      <4>1. /\ receiverFrameSeqNumber' \in 0..Len(sentQueue')
            /\ Len(sentQueue') <= SentQueueCap
            /\ Len(sentQueue') \in Nat
        BY DEF TypeOK
      <4>2. QED
        BY <4>1, Bounds
    <3>2. lockout' \in BOOLEAN /\ wait' \in BOOLEAN /\ retransmit' \in BOOLEAN
      BY DEF TypeOK
    <3>3. farmBCount' = 0
      BY DEF RxInv
    <3>4. clcw' = NewClcw(lockout', wait', retransmit', 0, receiverFrameSeqNumber')
      BY <2>1, <3>3 DEF VcReceptionRxTC, Report
    <3>5. ~Digit(0 % 256, 4) /\ ~Digit(0 % 256, 8) /\ ~Digit(0 % 256, 16)
      BY DEF Digit
    <3>6. receiverFrameSeqNumber' % 256 = receiverFrameSeqNumber'
      BY <3>1, Octet
    <3>7. /\ clcw'.lockout = (lockout' \/ FALSE) /\ clcw'.wait = (wait' \/ FALSE)
          /\ clcw'.retransmit = (retransmit' \/ FALSE)
          /\ clcw'.report = receiverFrameSeqNumber' % 256
      BY <3>4, <3>5 DEF NewClcw
    <3>8. QED
      BY <3>2, <3>6, <3>7 DEF ClcwCurrent
  <2>2. CASE UNCHANGED <<farm, clcw>>
    BY <2>2, Zenon DEF farm, ClcwCurrent
  <2>3. VcReceptionRxTC \/ UNCHANGED <<farm, clcw>>
    BY DEF RxNext, StoreFrameRxTC, AllFramesReception, VcPacketExtraction,
           MapPacketExtraction, vars, farm, rxVars, chain
  <2>4. QED
    BY <2>1, <2>2, <2>3
<1>3. QED
  BY <1>1, <1>2, RxInvariant, RxImplementsFarm, FarmTypeCorrect, PTL DEF RxSpec

----------------------------------------------------------------------------
(* The master copies of the TC chain.                                      *)

\* What a list behind FARM holds.
Passed == [frame : Frames, accepted : BOOLEAN]

AllOutputs == MapIds \cup {"vc"}

\* Every variable of the chain has its type and no list outgrows its capacity.
ChainTyped ==
  /\ segmentHeaderPresent \in BOOLEAN /\ thrown \in BOOLEAN
  /\ masterCopies \in Nat /\ masterCopies <= MasterCopyCap
  /\ inFrames \in Seq(Stored) /\ Len(inFrames) <= InFramesCap
  /\ afterVc \in [AllOutputs -> Seq(Passed)]
  /\ \A o \in AllOutputs : Len(afterVc[o]) <= AfterVcCap
  /\ clcw \in ClcwSet(0..255) \cup {NoClcw}

\* With MAP channels the master copies are those of the frames in the chain.  Without,
\* extraction leaves the master copy, so that there are at least as many as frames
\* before and in FARM: the one that a wrong checksum removes is there.
Accounted ==
  /\ segmentHeaderPresent /\ ~thrown =>
       masterCopies = Len(inFrames) + Len(waitQueue) + LengthSum(afterVc, MapIds)
  /\ ~segmentHeaderPresent => masterCopies >= Len(inFrames) + Len(waitQueue)

CopiesInv == ChainTyped /\ Accounted

\* The capacities as facts of arithmetic.
LEMMA ChainBounds ==
  /\ MasterCopyCap \in Nat /\ InFramesCap \in Nat /\ AfterVcCap \in Nat /\ AfterVcCap > 0
  /\ IsFiniteSet(MapIds)
BY TcReceptionAssumption

LEMMA WaitQueueLength ==
  ASSUME TypeOK
  PROVE  waitQueue \in Seq(Frames) /\ Len(waitQueue) \in Nat
BY DEF TypeOK

LEMMA SumOfLists ==
  ASSUME ChainTyped
  PROVE  /\ \A o \in AllOutputs : afterVc[o] \in Seq(Passed) /\ Len(afterVc[o]) \in Nat
         /\ LengthSum(afterVc, MapIds) \in Nat
<1>1. \A o \in AllOutputs : afterVc[o] \in Seq(Passed) /\ Len(afterVc[o]) \in Nat
  BY DEF ChainTyped
<1>2. \A m \in MapIds : Len(afterVc[m]) \in Nat
  BY <1>1 DEF AllOutputs
<1>3. PICK m \in MapIds : TRUE
  BY TcReceptionAssumption
<1>4. LengthSum(afterVc, MapIds) \in Nat
  BY <1>2, <1>3, ChainBounds, LengthsSplit
<1>5. QED
  BY <1>1, <1>4

\* A list that grows or shrinks by one changes the sum by one; the channel's own
\* list is in no sum, unless a MAP channel has its name.
LEMMA ListChanges ==
  ASSUME ChainTyped, NEW m \in MapIds, NEW s \in Seq(Passed),
         afterVc' = [afterVc EXCEPT ![m] = s]
  PROVE  /\ LengthSum(afterVc', MapIds) = LengthSum(afterVc, MapIds) - Len(afterVc[m]) + Len(s)
         /\ LengthSum(afterVc, MapIds) >= Len(afterVc[m])
<1>1. \A x \in MapIds : Len(afterVc[x]) \in Nat
  BY SumOfLists DEF AllOutputs
<1>2. /\ afterVc'[m] = s /\ Len(s) \in Nat
      /\ \A x \in MapIds \ {m} : Len(afterVc'[x]) = Len(afterVc[x])
  BY DEF ChainTyped, AllOutputs
<1>3. PICK g, h : g = afterVc /\ h = afterVc'
  OBVIOUS
<1>4. /\ LengthSum(h, MapIds) = LengthSum(g, MapIds) - Len(g[m]) + Len(h[m])
      /\ LengthSum(g, MapIds) >= Len(g[m])
  <2>1. /\ \A x \in MapIds : Len(g[x]) \in Nat
        /\ Len(h[m]) \in Nat
        /\ \A x \in MapIds \ {m} : Len(h[x]) = Len(g[x])
    BY <1>1, <1>2, <1>3
  <2>2. QED
    BY <2>1, ChainBounds, LengthsChange
<1>5. QED
  BY <1>2, <1>3, <1>4

\* A CLCW is cut to its fields.
LEMMA ClcwTyped ==
  ASSUME NEW l \in BOOLEAN, NEW w \in BOOLEAN, NEW r \in BOOLEAN, NEW b \in Nat, NEW v \in Nat
  PROVE  NewClcw(l, w, r, b, v) \in ClcwSet(0..255)
<1>1. v % 256 \in 0..255 /\ (b % 256) % 4 \in 0..3
  <2>1. b % 256 \in Nat
    OBVIOUS
  <2>2. QED
    BY <2>1
<1>2. /\ (l \/ Digit(b % 256, 16)) \in BOOLEAN
      /\ (w \/ Digit(b % 256, 8)) \in BOOLEAN
      /\ (r \/ Digit(b % 256, 4)) \in BOOLEAN
  OBVIOUS
<1>3. QED
  BY <1>1, <1>2 DEF NewClcw, ClcwSet

\* A frame that is stored brings its master copy.
LEMMA StoreAccounts ==
  ASSUME TypeOK, CopiesInv, NEW x \in Stored, StoreFrameRxTC(x)
  PROVE  CopiesInv'
<1> USE DEF CopiesInv
<1>1. /\ inFrames \in Seq(Stored) /\ inFrames' = Append(inFrames, x)
      /\ Len(inFrames) < InFramesCap /\ masterCopies < MasterCopyCap
      /\ masterCopies' = masterCopies + 1 /\ masterCopies \in Nat
      /\ waitQueue' = waitQueue /\ afterVc' = afterVc /\ clcw' = clcw
      /\ segmentHeaderPresent' = segmentHeaderPresent /\ thrown' = thrown
  BY DEF StoreFrameRxTC, ChainTyped, vars
<1>2. inFrames' \in Seq(Stored) /\ Len(inFrames') = Len(inFrames) + 1 /\ Len(inFrames) \in Nat
  BY <1>1
<1>3. ChainTyped'
  BY <1>1, <1>2, ChainBounds DEF ChainTyped
<1>4. Accounted'
  BY <1>1, <1>2, WaitQueueLength, SumOfLists DEF Accounted
<1>5. QED
  BY <1>3, <1>4

LEMMA SameBalance ==
  ASSUME NEW i \in Nat, NEW q \in Nat, NEW m \in Nat, NEW s \in Nat,
         NEW j \in Nat, NEW r \in Nat, NEW n \in Nat,
         j + r - n = i + q - m, m = i + q + s
  PROVE  n = j + r + s
OBVIOUS

\* A frame goes on to FARM, or is discarded together with its master copy.
LEMMA ReceptionAccounts ==
  ASSUME TypeOK, CopiesInv, ~thrown, AllFramesReception
  PROVE  CopiesInv'
<1> USE DEF CopiesInv
<1>1. /\ inFrames \in Seq(Stored) /\ inFrames # <<>> /\ inFrames' = Tail(inFrames)
      /\ masterCopies \in Nat
      /\ afterVc' = afterVc /\ clcw' = clcw
      /\ segmentHeaderPresent' = segmentHeaderPresent /\ thrown' = thrown
  BY DEF AllFramesReception, ChainTyped
<1>2. /\ inFrames' \in Seq(Stored) /\ Len(inFrames') = Len(inFrames) - 1
      /\ Len(inFrames) \in Nat /\ Len(inFrames) >= 1
  BY <1>1
<1>3. /\ waitQueue \in Seq(Frames) /\ Len(waitQueue) \in Nat
      /\ \/ masterCopies' = masterCopies /\ Len(waitQueue') = Len(waitQueue) + 1
         \/ masterCopies' = masterCopies - 1 /\ Len(waitQueue') = Len(waitQueue)
  <2>1. waitQueue \in Seq(Frames) /\ Len(waitQueue) \in Nat
    BY WaitQueueLength
  <2>2. Head(inFrames).frame \in Frames
    <3>1. Head(inFrames) \in Stored
      BY <1>1
    <3>2. QED
      BY <3>1 DEF Stored
  <2>3. Len(Append(waitQueue, Head(inFrames).frame)) = Len(waitQueue) + 1
    BY <2>1, <2>2
  <2>4. QED
    BY <2>1, <2>3 DEF AllFramesReception
<1>4. masterCopies >= 1
  BY <1>1, <1>2, <1>3, SumOfLists DEF Accounted, ChainTyped
<1>5. ChainTyped'
  BY <1>1, <1>2, <1>3, <1>4, ChainBounds DEF ChainTyped
<1>6. Accounted'
  <2>1. /\ Len(inFrames') + Len(waitQueue') - masterCopies' = Len(inFrames) + Len(waitQueue) - masterCopies
        /\ masterCopies' \in Nat /\ Len(inFrames') \in Nat /\ Len(waitQueue') \in Nat
    BY <1>1, <1>2, <1>3, <1>4
  <2>2. LengthSum(afterVc, MapIds) \in Nat
    BY SumOfLists
  <2>3. CASE segmentHeaderPresent
    <3>1. masterCopies = Len(inFrames) + Len(waitQueue) + LengthSum(afterVc, MapIds)
      BY <2>3 DEF Accounted
    <3>2. masterCopies' = Len(inFrames') + Len(waitQueue') + LengthSum(afterVc, MapIds)
      <4>1. masterCopies \in Nat /\ Len(inFrames) \in Nat /\ Len(waitQueue) \in Nat
        BY <1>1, <1>2, <1>3
      <4>2. PICK i, q, m, l, j, r, n :
              /\ i = Len(inFrames) /\ q = Len(waitQueue) /\ m = masterCopies
              /\ l = LengthSum(afterVc, MapIds)
              /\ j = Len(inFrames') /\ r = Len(waitQueue') /\ n = masterCopies'
        OBVIOUS
      <4>3. /\ i \in Nat /\ q \in Nat /\ m \in Nat /\ l \in Nat
            /\ j \in Nat /\ r \in Nat /\ n \in Nat
        BY <2>1, <2>2, <4>1, <4>2
      <4>4. j + r - n = i + q - m
        BY <2>1, <4>2
      <4>5. m = i + q + l
        BY <3>1, <4>2
      <4>6. n = j + r + l
        BY ONLY <4>3, <4>4, <4>5, SameBalance
      <4>7. QED
        BY <4>2, <4>6
    <3>3. QED
      BY <1>1, <2>3, <3>2 DEF Accounted
  <2>4. CASE ~segmentHeaderPresent
    <3>1. masterCopies >= Len(inFrames) + Len(waitQueue)
      BY <2>4 DEF Accounted
    <3>2. masterCopies' >= Len(inFrames') + Len(waitQueue')
      BY <1>1, <1>2, <1>3, <2>1, <3>1
    <3>3. QED
      BY <1>1, <2>4, <3>2 DEF Accounted
  <2>5. QED
    BY <2>3, <2>4
<1>7. QED
  BY <1>5, <1>6

\* A frame goes through FARM into one of the lists behind it.
LEMMA FarmAccounts ==
  ASSUME TypeOK, TypeOK', CopiesInv, VcReceptionRxTC
  PROVE  CopiesInv'
<1> USE DEF CopiesInv
<1>1. PICK o \in Outputs :
        \/ /\ Len(afterVc[o]) < AfterVcCap
           /\ afterVc' = [afterVc EXCEPT ![o] =
                 Append(@, [frame |-> Head(waitQueue), accepted |-> sentQueue' # sentQueue])]
           /\ UNCHANGED thrown
        \/ /\ Len(afterVc[o]) = AfterVcCap
           /\ thrown' = TRUE
           /\ UNCHANGED afterVc
  BY DEF VcReceptionRxTC
<1> DEFINE p == [frame |-> Head(waitQueue), accepted |-> sentQueue' # sentQueue]
<1>2. /\ waitQueue \in Seq(Frames) /\ Len(waitQueue) \in Nat /\ waitQueue # <<>>
      /\ waitQueue' = Tail(waitQueue)
  BY WaitQueueLength DEF VcReceptionRxTC, FrameArrives
<1>3. Len(waitQueue') = Len(waitQueue) - 1 /\ Len(waitQueue') \in Nat /\ Head(waitQueue) \in Frames
  BY <1>2
<1>4. p \in Passed
  BY <1>3 DEF Passed
<1>5. /\ inFrames' = inFrames /\ masterCopies' = masterCopies
      /\ segmentHeaderPresent' = segmentHeaderPresent
  BY DEF VcReceptionRxTC
<1>6. /\ Len(inFrames) \in Nat /\ masterCopies \in Nat
      /\ LengthSum(afterVc, MapIds) \in Nat
      /\ \A q \in AllOutputs : afterVc[q] \in Seq(Passed) /\ Len(afterVc[q]) \in Nat
  BY SumOfLists DEF ChainTyped
<1>7. clcw' \in ClcwSet(0..255)
  <2>1. lockout' \in BOOLEAN /\ wait' \in BOOLEAN /\ retransmit' \in BOOLEAN
    BY DEF TypeOK
  <2>2. farmBCount' \in Nat /\ receiverFrameSeqNumber' \in Nat
    BY Bounds DEF TypeOK
  <2>3. clcw' = NewClcw(lockout', wait', retransmit', farmBCount', receiverFrameSeqNumber')
    BY DEF VcReceptionRxTC, Report
  <2>4. QED
    BY <2>1, <2>2, <2>3, ClcwTyped
<1>8. o \in AllOutputs /\ (segmentHeaderPresent => o \in MapIds)
  BY <1>1 DEF Outputs, AllOutputs
<1> HIDE DEF p
<1>9. CASE /\ Len(afterVc[o]) < AfterVcCap
           /\ afterVc' = [afterVc EXCEPT ![o] = Append(@, p)]
           /\ UNCHANGED thrown
  <2>1. /\ Append(afterVc[o], p) \in Seq(Passed)
        /\ Len(Append(afterVc[o], p)) = Len(afterVc[o]) + 1
    BY <1>4, <1>6, <1>8
  <2>2. afterVc' = [afterVc EXCEPT ![o] = Append(afterVc[o], p)]
    BY <1>9
  <2>3. /\ afterVc' \in [AllOutputs -> Seq(Passed)]
        /\ \A q \in AllOutputs : Len(afterVc'[q]) <= AfterVcCap
    <3>1. afterVc' \in [AllOutputs -> Seq(Passed)]
      BY <2>1, <2>2 DEF ChainTyped
    <3>2. ASSUME NEW q \in AllOutputs PROVE Len(afterVc'[q]) <= AfterVcCap
      <4>1. CASE q = o
        <5>1. Len(afterVc'[q]) = Len(afterVc[o]) + 1
          BY <1>8, <2>1, <2>2, <4>1 DEF ChainTyped
        <5>2. QED
          BY <1>6, <1>8, <1>9, <5>1, ChainBounds
      <4>2. CASE q # o
        <5>1. afterVc'[q] = afterVc[q]
          BY <2>2, <4>2 DEF ChainTyped
        <5>2. QED
          BY <5>1 DEF ChainTyped
      <4>3. QED
        BY <4>1, <4>2
    <3>3. QED
      BY <3>1, <3>2
  <2>4. ChainTyped'
    BY <1>5, <1>7, <1>9, <2>3 DEF ChainTyped
  <2>5. segmentHeaderPresent => LengthSum(afterVc', MapIds) = LengthSum(afterVc, MapIds) + 1
    <3>1. SUFFICES ASSUME segmentHeaderPresent
                   PROVE  LengthSum(afterVc', MapIds) = LengthSum(afterVc, MapIds) + 1
      OBVIOUS
    <3>2. o \in MapIds
      BY <1>8, <3>1
    <3>3. LengthSum(afterVc', MapIds)
            = LengthSum(afterVc, MapIds) - Len(afterVc[o]) + Len(Append(afterVc[o], p))
      BY <2>1, <2>2, <3>2, ListChanges
    <3>4. QED
      BY <1>6, <1>8, <2>1, <3>3
  <2>6. Accounted'
    BY <1>3, <1>2, <1>5, <1>6, <1>9, <2>5 DEF Accounted
  <2>7. QED
    BY <2>4, <2>6
<1>10. CASE thrown' = TRUE /\ afterVc' = afterVc
  <2>1. ChainTyped'
    BY <1>5, <1>7, <1>10 DEF ChainTyped
  <2>2. Accounted'
    BY <1>3, <1>2, <1>5, <1>6, <1>10 DEF Accounted
  <2>3. QED
    BY <2>1, <2>2
<1>11. QED
  BY <1>1, <1>9, <1>10 DEF p

\* A packet leaves; with MAP channels the master copy goes with it.
LEMMA ExtractionAccounts ==
  ASSUME TypeOK, CopiesInv, ~thrown, NEW o \in AllOutputs, afterVc[o] # <<>>,
         afterVc' = [afterVc EXCEPT ![o] = Tail(@)],
         UNCHANGED <<waitQueue, segmentHeaderPresent, inFrames, clcw, thrown>>,
         \/ segmentHeaderPresent /\ o \in MapIds /\ masterCopies' = masterCopies - 1
         \/ ~segmentHeaderPresent /\ masterCopies' = masterCopies
  PROVE  CopiesInv'
<1> USE DEF CopiesInv
<1>1. /\ Len(inFrames) \in Nat /\ masterCopies \in Nat /\ Len(waitQueue) \in Nat
      /\ LengthSum(afterVc, MapIds) \in Nat
      /\ afterVc[o] \in Seq(Passed) /\ Len(afterVc[o]) \in Nat
  BY SumOfLists, WaitQueueLength DEF ChainTyped
<1>2. /\ Tail(afterVc[o]) \in Seq(Passed)
      /\ Len(Tail(afterVc[o])) = Len(afterVc[o]) - 1 /\ Len(afterVc[o]) >= 1
  BY <1>1
<1>3. afterVc' = [afterVc EXCEPT ![o] = Tail(afterVc[o])]
  OBVIOUS
<1>4. /\ afterVc' \in [AllOutputs -> Seq(Passed)]
      /\ \A q \in AllOutputs : Len(afterVc'[q]) <= AfterVcCap
  <2>1. afterVc' \in [AllOutputs -> Seq(Passed)]
    BY <1>2, <1>3 DEF ChainTyped
  <2>2. ASSUME NEW q \in AllOutputs PROVE Len(afterVc'[q]) <= AfterVcCap
    <3>1. Len(afterVc[q]) <= AfterVcCap /\ Len(afterVc[q]) \in Nat
      BY SumOfLists DEF ChainTyped
    <3>2. afterVc'[q] = IF q = o THEN Tail(afterVc[o]) ELSE afterVc[q]
      BY <1>3 DEF ChainTyped
    <3>3. QED
      BY <1>1, <1>2, <3>1, <3>2, ChainBounds
  <2>3. QED
    BY <2>1, <2>2
<1>5. CASE segmentHeaderPresent /\ o \in MapIds /\ masterCopies' = masterCopies - 1
  <2>1. /\ LengthSum(afterVc', MapIds)
             = LengthSum(afterVc, MapIds) - Len(afterVc[o]) + Len(Tail(afterVc[o]))
        /\ LengthSum(afterVc, MapIds) >= Len(afterVc[o])
    BY <1>2, <1>3, <1>5, ListChanges
  <2>2. masterCopies = Len(inFrames) + Len(waitQueue) + LengthSum(afterVc, MapIds)
    BY <1>5 DEF Accounted
  <2>3. /\ masterCopies' \in Nat /\ masterCopies' <= masterCopies
        /\ masterCopies' = Len(inFrames) + Len(waitQueue) + LengthSum(afterVc', MapIds)
    BY <1>1, <1>2, <1>5, <2>1, <2>2
  <2>4. ChainTyped'
    BY <1>1, <1>4, <2>3, ChainBounds DEF ChainTyped
  <2>5. Accounted'
    BY <1>5, <2>3 DEF Accounted
  <2>6. QED
    BY <2>4, <2>5
<1>6. CASE ~segmentHeaderPresent /\ masterCopies' = masterCopies
  <2>1. ChainTyped'
    BY <1>4, <1>6 DEF ChainTyped
  <2>2. Accounted'
    BY <1>6 DEF Accounted
  <2>3. QED
    BY <2>1, <2>2
<1>7. QED
  BY <1>5, <1>6

LEMMA CopiesInvariant == RxSpec => []CopiesInv
<1>1. RxInit => CopiesInv
  <2> SUFFICES ASSUME RxInit PROVE CopiesInv
    OBVIOUS
  <2>1. /\ inFrames = <<>> /\ waitQueue = <<>> /\ masterCopies = 0 /\ clcw = NoClcw
        /\ segmentHeaderPresent \in BOOLEAN /\ thrown = FALSE
        /\ afterVc = [o \in AllOutputs |-> <<>>]
    BY DEF RxInit, Init, AllOutputs
  <2>2. \A m \in MapIds : Len(afterVc[m]) = 0
    BY <2>1 DEF AllOutputs
  <2>3. LengthSum(afterVc, MapIds) = 0
    BY <2>2, ChainBounds, LengthsZero
  <2>4. ChainTyped
    <3>1. inFrames \in Seq(Stored) /\ Len(inFrames) = 0
      BY <2>1
    <3>2. /\ afterVc \in [AllOutputs -> Seq(Passed)]
          /\ \A o \in AllOutputs : Len(afterVc[o]) = 0
      BY <2>1
    <3>3. /\ masterCopies \in Nat /\ masterCopies <= MasterCopyCap
          /\ Len(inFrames) <= InFramesCap
          /\ \A o \in AllOutputs : Len(afterVc[o]) <= AfterVcCap
      BY <2>1, <3>1, <3>2, ChainBounds
    <3>4. segmentHeaderPresent \in BOOLEAN /\ thrown \in BOOLEAN /\ clcw \in ClcwSet(0..255) \cup {NoClcw}
      BY <2>1
    <3>5. QED
      BY <3>1, <3>2, <3>3, <3>4 DEF ChainTyped
  <2>5. Accounted
    BY <2>1, <2>3 DEF Accounted
  <2>6. QED
    BY <2>4, <2>5 DEF CopiesInv
<1>2. TypeOK /\ TypeOK' /\ CopiesInv /\ [RxNext]_rxVars => CopiesInv'
  <2> SUFFICES ASSUME TypeOK, TypeOK', CopiesInv, [RxNext]_rxVars
               PROVE  CopiesInv'
    OBVIOUS
  <2>1. CASE RxNext
    <3>1. ~thrown
      BY <2>1 DEF RxNext
    <3>2. ASSUME NEW x \in Stored, StoreFrameRxTC(x) PROVE CopiesInv'
      BY <3>2, StoreAccounts
    <3>3. CASE AllFramesReception
      BY <3>1, <3>3, ReceptionAccounts
    <3>4. CASE VcReceptionRxTC
      BY <3>4, FarmAccounts
    <3>5. CASE VcPacketExtraction
      <4>1. "vc" \in AllOutputs
        BY DEF AllOutputs
      <4>2. /\ afterVc["vc"] # <<>> /\ afterVc' = [afterVc EXCEPT !["vc"] = Tail(@)]
            /\ UNCHANGED <<waitQueue, segmentHeaderPresent, inFrames, clcw, thrown>>
            /\ ~segmentHeaderPresent /\ masterCopies' = masterCopies
        BY <3>5 DEF VcPacketExtraction, vars
      <4>3. QED
        BY <3>1, <4>1, <4>2, ExtractionAccounts
    <3>6. ASSUME NEW m \in MapIds, MapPacketExtraction(m) PROVE CopiesInv'
      <4>1. m \in AllOutputs
        BY DEF AllOutputs
      <4>2. /\ afterVc[m] # <<>> /\ afterVc' = [afterVc EXCEPT ![m] = Tail(@)]
            /\ UNCHANGED <<waitQueue, segmentHeaderPresent, inFrames, clcw, thrown>>
            /\ segmentHeaderPresent /\ masterCopies' = masterCopies - 1
        BY <3>6 DEF MapPacketExtraction, vars
      <4>3. QED
        BY <3>1, <4>1, <4>2, ExtractionAccounts
    <3>7. QED
      BY <2>1, <3>2, <3>3, <3>4, <3>5, <3>6 DEF RxNext
  <2>2. CASE UNCHANGED rxVars
    <3>1. UNCHANGED <<segmentHeaderPresent, thrown, masterCopies, inFrames, afterVc, clcw, waitQueue>>
      BY <2>2 DEF rxVars, vars, chain
    <3>2. ChainTyped' /\ Accounted'
      BY <3>1 DEF CopiesInv, ChainTyped, Accounted
    <3>3. QED
      BY <3>2 DEF CopiesInv
  <2>3. QED
    BY <2>1, <2>2
<1>3. QED
  BY <1>1, <1>2, RxImplementsFarm, FarmTypeCorrect, PTL DEF RxSpec

\* Every variable of the chain keeps its type, and no list outgrows its capacity,
\* whatever frames arrive and in whatever order the services are called.
THEOREM RxTypeCorrect == RxSpec => []RxTypeOK
<1>1. CopiesInv => RxTypeOK
  <2> SUFFICES ASSUME CopiesInv PROVE RxTypeOK
    OBVIOUS
  <2>1. ChainTyped
    BY DEF CopiesInv
  <2>2. masterCopies \in 0..MasterCopyCap
    BY <2>1, ChainBounds DEF ChainTyped
  <2>3. QED
    BY <2>1, <2>2 DEF ChainTyped, RxTypeOK, AllOutputs
<1>2. QED
  BY <1>1, CopiesInvariant, PTL

\* With MAP channels each master copy is that of a frame in the chain, for any number
\* of MAP channels and all capacities: none leaks and none is freed early.
THEOREM RxMasterCopiesAccounted == RxSpec => []MasterCopiesAccounted
<1>1. CopiesInv => MasterCopiesAccounted
  BY DEF CopiesInv, Accounted, MasterCopiesAccounted, LengthSum
<1>2. QED
  BY <1>1, CopiesInvariant, PTL

----------------------------------------------------------------------------
(* The TM chain.                                                           *)

Frame == [packet : Nat, buffer : Buffers]
Packet == [packet : Nat, clcw : BOOLEAN]

\* Every variable that the argument reads has its type.
RxTyped ==
  /\ buffer \in [Buffers -> Nat]
  /\ received \in Nat
  /\ afterMc \in [Vcs -> Seq(Frame)]
  /\ kept \in [Vcs -> Seq(Packet)]
  /\ extracted \in [Vcs -> Seq(Nat)]

\* A frame that waits is a master copy, and no other waiting frame has its buffer:
\* no reception and no extraction touches the octets of a frame that waits.
OwnBuffers ==
  /\ \A v \in Vcs : \A i \in 1..Len(afterMc[v]) : afterMc[v][i] \in masterCopy
  /\ \A v, w \in Vcs : \A i \in 1..Len(afterMc[v]), j \in 1..Len(afterMc[w]) :
       afterMc[v][i].buffer = afterMc[w][j].buffer => v = w /\ i = j

\* Of one channel: the packets e that were extracted and the frames a that wait,
\* one after the other, are what was received, k.
Matches(k, e, a, octets) ==
  /\ Len(k) = Len(e) + Len(a)
  /\ \A i \in 1..Len(e) : k[i].packet = e[i]
  /\ \A i \in 1..Len(a) : k[Len(e) + i].packet = octets[a[i].buffer]

OrderInv ==
  /\ RxTyped
  /\ OwnBuffers
  /\ \A v \in Vcs : Matches(kept[v], extracted[v], afterMc[v], buffer)

----------------------------------------------------------------------------
(* Sequences.                                                              *)

\* A buffer that no waiting frame has may change.
LEMMA OtherBuffer ==
  ASSUME NEW k, NEW e, NEW a, NEW old, NEW new, Matches(k, e, a, old),
         \A i \in 1..Len(a) : new[a[i].buffer] = old[a[i].buffer]
  PROVE  Matches(k, e, a, new)
BY DEF Matches

\* A frame that is received goes behind all others.
LEMMA AppendMatches ==
  ASSUME NEW k \in Seq(Packet), NEW e \in Seq(Nat), NEW a \in Seq(Frame), NEW octets,
         NEW p \in Packet, NEW f \in Frame,
         Matches(k, e, a, octets), p.packet = octets[f.buffer]
  PROVE  Matches(Append(k, p), e, Append(a, f), octets)
<1> DEFINE kk == Append(k, p)
           aa == Append(a, f)
<1>1. /\ Len(kk) = Len(k) + 1 /\ Len(aa) = Len(a) + 1
      /\ Len(k) \in Nat /\ Len(e) \in Nat /\ Len(a) \in Nat
      /\ \A i \in 1..Len(k) : kk[i] = k[i]
      /\ \A i \in 1..Len(a) : aa[i] = a[i]
      /\ kk[Len(k) + 1] = p /\ aa[Len(a) + 1] = f
  OBVIOUS
<1> HIDE DEF kk, aa
<1>2. ASSUME NEW i \in 1..Len(e) PROVE kk[i].packet = e[i]
  BY <1>1 DEF Matches
<1>3. ASSUME NEW i \in 1..Len(aa) PROVE kk[Len(e) + i].packet = octets[aa[i].buffer]
  <2>1. CASE i = Len(a) + 1
    <3>1. Len(e) + i = Len(k) + 1
      BY <1>1, <2>1 DEF Matches
    <3>2. QED
      BY <1>1, <2>1, <3>1
  <2>2. CASE i \in 1..Len(a)
    <3>1. Len(e) + i \in 1..Len(k)
      BY <1>1, <2>2 DEF Matches
    <3>2. QED
      BY <1>1, <2>2, <3>1 DEF Matches
  <2>3. QED
    BY <1>1, <2>1, <2>2
<1>4. Matches(kk, e, aa, octets)
  BY <1>1, <1>2, <1>3 DEF Matches
<1>5. QED
  BY <1>4 DEF kk, aa

\* The frame at the front is extracted.
LEMMA TailMatches ==
  ASSUME NEW k, NEW e \in Seq(Nat), NEW a \in Seq(Frame), NEW octets, NEW p \in Nat,
         a # <<>>, Matches(k, e, a, octets), p = octets[Head(a).buffer]
  PROVE  Matches(k, Append(e, p), Tail(a), octets)
<1> DEFINE ee == Append(e, p)
           aa == Tail(a)
<1>1. /\ Len(ee) = Len(e) + 1 /\ Len(aa) = Len(a) - 1 /\ Len(a) >= 1
      /\ Len(e) \in Nat /\ Len(a) \in Nat
      /\ \A i \in 1..Len(e) : ee[i] = e[i]
      /\ \A i \in 1..Len(aa) : aa[i] = a[i + 1]
      /\ ee[Len(e) + 1] = p /\ Head(a) = a[1]
  OBVIOUS
<1> HIDE DEF ee, aa
<1>2. ASSUME NEW i \in 1..Len(ee) PROVE k[i].packet = ee[i]
  <2>1. CASE i = Len(e) + 1
    BY <1>1, <2>1 DEF Matches
  <2>2. CASE i \in 1..Len(e)
    BY <1>1, <2>2 DEF Matches
  <2>3. QED
    BY <1>1, <2>1, <2>2
<1>3. ASSUME NEW i \in 1..Len(aa) PROVE k[Len(ee) + i].packet = octets[aa[i].buffer]
  <2>1. i + 1 \in 1..Len(a) /\ Len(ee) + i = Len(e) + (i + 1)
    BY <1>1
  <2>2. k[Len(e) + (i + 1)].packet = octets[a[i + 1].buffer]
    BY <2>1 DEF Matches
  <2>3. QED
    BY <1>1, <2>1, <2>2
<1>4. Matches(k, ee, aa, octets)
  BY <1>1, <1>2, <1>3 DEF Matches
<1>5. QED
  BY <1>4 DEF ee, aa

\* Where they match, the packets of k are those of e and then those of a.
LEMMA MatchingPackets ==
  ASSUME NEW k \in Seq(Packet), NEW e \in Seq(Nat), NEW a \in Seq(Frame),
         NEW octets \in [Buffers -> Nat], Matches(k, e, a, octets)
  PROVE  [i \in DOMAIN k |-> k[i].packet] = e \o [i \in DOMAIN a |-> octets[a[i].buffer]]
<1> DEFINE left == [i \in DOMAIN k |-> k[i].packet]
           rest == [i \in DOMAIN a |-> octets[a[i].buffer]]
<1>1. /\ DOMAIN k = 1..Len(k) /\ DOMAIN a = 1..Len(a)
      /\ Len(k) \in Nat /\ Len(a) \in Nat /\ Len(e) \in Nat
  OBVIOUS
<1>2. ASSUME NEW i \in 1..Len(k) PROVE k[i].packet \in Nat
  <2>1. k[i] \in Packet
    OBVIOUS
  <2>2. QED
    BY <2>1 DEF Packet
<1>3. ASSUME NEW i \in 1..Len(a) PROVE octets[a[i].buffer] \in Nat
  <2>1. a[i] \in Frame
    OBVIOUS
  <2>2. a[i].buffer \in Buffers
    BY <2>1 DEF Frame
  <2>3. QED
    BY <2>2
<1>4. left \in Seq(Nat) /\ Len(left) = Len(k) /\ \A i \in 1..Len(k) : left[i] = k[i].packet
  BY <1>1, <1>2
<1>5. /\ rest \in Seq(Nat) /\ Len(rest) = Len(a)
      /\ \A i \in 1..Len(a) : rest[i] = octets[a[i].buffer]
  BY <1>1, <1>3
<1> HIDE DEF left, rest
<1> DEFINE right == e \o rest
<1>6. /\ right \in Seq(Nat) /\ Len(right) = Len(e) + Len(a)
      /\ \A i \in 1..Len(e) : right[i] = e[i]
      /\ \A i \in 1..Len(a) : right[Len(e) + i] = rest[i]
  <2>1. right \in Seq(Nat) /\ Len(right) = Len(e) + Len(rest)
    BY <1>5, ConcatProperties
  <2>2. \A i \in 1..Len(e) : right[i] = e[i]
    BY <1>1, <1>5
  <2>3. ASSUME NEW i \in 1..Len(a) PROVE right[Len(e) + i] = rest[i]
    BY <1>1, <1>5
  <2>4. QED
    BY <1>5, <2>1, <2>2, <2>3
<1> HIDE DEF right
<1>7. Len(left) = Len(right)
  BY <1>4, <1>6 DEF Matches
<1>8. ASSUME NEW i \in 1..Len(left)
      PROVE  left[i] = right[i]
  <2>1. CASE i \in 1..Len(e)
    BY <1>4, <1>6, <2>1 DEF Matches
  <2>2. CASE i \notin 1..Len(e)
    <3>1. PICK j \in 1..Len(a) : i = Len(e) + j
      <4>1. i - Len(e) \in 1..Len(a) /\ i = Len(e) + (i - Len(e))
        BY <1>1, <1>4, <2>2 DEF Matches
      <4>2. QED
        BY <4>1
    <3>2. QED
      BY <1>4, <1>5, <1>6, <3>1 DEF Matches
  <2>3. QED
    BY <2>1, <2>2
<1>9. left = right
  BY <1>4, <1>6, <1>7, <1>8, SeqEqual
<1>10. QED
  BY <1>9 DEF left, rest, right

----------------------------------------------------------------------------
(* The steps.                                                              *)

\* The types of one channel's lists.
LEMMA ListsTyped ==
  ASSUME RxTyped, NEW v \in Vcs
  PROVE  /\ afterMc[v] \in Seq(Frame) /\ kept[v] \in Seq(Packet) /\ extracted[v] \in Seq(Nat)
         /\ \A i \in 1..Len(afterMc[v]) : afterMc[v][i].buffer \in Buffers
<1>1. afterMc[v] \in Seq(Frame) /\ kept[v] \in Seq(Packet) /\ extracted[v] \in Seq(Nat)
  BY DEF RxTyped
<1>2. ASSUME NEW i \in 1..Len(afterMc[v]) PROVE afterMc[v][i].buffer \in Buffers
  <2>1. afterMc[v][i] \in Frame
    BY <1>1
  <2>2. QED
    BY <2>1 DEF Frame
<1>3. QED
  BY <1>1, <1>2

\* A frame goes into a buffer that no waiting frame has.
LEMMA ReceptionKeepsOrder ==
  ASSUME OrderInv, NEW v \in Vcs, NEW b \in Buffers \ Waiting, NEW valid, NEW rep \in BOOLEAN,
         AllFramesReceptionRequestRxTM(v, b, valid, rep)
  PROVE  OrderInv'
<1> DEFINE f == [packet |-> received + 1, buffer |-> b]
           p == [packet |-> f.packet, clcw |-> rep]
<1> USE DEF OrderInv
<1>1. /\ buffer' = [buffer EXCEPT ![b] = f.packet]
      /\ masterCopy' = masterCopy \cup {f}
      /\ afterMc' = [afterMc EXCEPT ![v] = Append(@, f)]
      /\ received' = received + 1
      /\ kept' = [kept EXCEPT ![v] = Append(@, p)]
      /\ extracted' = extracted
  BY DEF AllFramesReceptionRequestRxTM, Keep
<1>2. f \in Frame /\ p \in Packet /\ f.buffer = b /\ f.packet \in Nat /\ p.packet = f.packet
  BY DEF RxTyped, Frame, Packet
<1> HIDE DEF f, p
<1>3. RxTyped'
  BY <1>1, <1>2 DEF RxTyped
<1>4. /\ afterMc'[v] = Append(afterMc[v], f) /\ kept'[v] = Append(kept[v], p)
      /\ \A w \in Vcs \ {v} : afterMc'[w] = afterMc[w] /\ kept'[w] = kept[w]
      /\ buffer'[b] = f.packet
      /\ \A c \in Buffers \ {b} : buffer'[c] = buffer[c]
  BY <1>1 DEF RxTyped
<1>5. ASSUME NEW w \in Vcs, NEW i \in 1..Len(afterMc[w])
      PROVE  afterMc[w][i].buffer # b /\ buffer'[afterMc[w][i].buffer] = buffer[afterMc[w][i].buffer]
  <2>1. afterMc[w][i].buffer \in Waiting
    BY DEF OwnBuffers, Waiting
  <2>2. afterMc[w][i].buffer \in Buffers
    BY ListsTyped
  <2>3. QED
    BY <1>4, <2>1, <2>2
<1>6. /\ Len(afterMc[v]) \in Nat /\ Len(afterMc'[v]) = Len(afterMc[v]) + 1
      /\ \A i \in 1..Len(afterMc[v]) : afterMc'[v][i] = afterMc[v][i]
      /\ afterMc'[v][Len(afterMc[v]) + 1] = f
  <2>1. afterMc[v] \in Seq(Frame)
    BY ListsTyped
  <2>2. QED
    BY <1>2, <1>4, <2>1
<1>7. ASSUME NEW w \in Vcs, NEW i \in 1..Len(afterMc'[w])
      PROVE  \/ w = v /\ i = Len(afterMc[v]) + 1 /\ afterMc'[w][i] = f
             \/ i \in 1..Len(afterMc[w]) /\ afterMc'[w][i] = afterMc[w][i]
  BY <1>4, <1>6
<1>8. OwnBuffers'
  <2>1. ASSUME NEW w \in Vcs, NEW i \in 1..Len(afterMc'[w])
        PROVE  afterMc'[w][i] \in masterCopy'
    BY <1>1, <1>7 DEF OwnBuffers
  <2>2. ASSUME NEW u \in Vcs, NEW w \in Vcs,
               NEW i \in 1..Len(afterMc'[u]), NEW j \in 1..Len(afterMc'[w]),
               afterMc'[u][i].buffer = afterMc'[w][j].buffer
        PROVE  u = w /\ i = j
    <3>1. CASE i \in 1..Len(afterMc[u]) /\ afterMc'[u][i] = afterMc[u][i]
      <4>1. CASE j \in 1..Len(afterMc[w]) /\ afterMc'[w][j] = afterMc[w][j]
        BY <2>2, <3>1, <4>1 DEF OwnBuffers
      <4>2. CASE afterMc'[w][j] = f
        BY <1>2, <1>5, <2>2, <3>1, <4>2
      <4>3. QED
        BY <1>7, <4>1, <4>2
    <3>2. CASE u = v /\ i = Len(afterMc[v]) + 1 /\ afterMc'[u][i] = f
      BY <1>2, <1>5, <1>7, <2>2, <3>2
    <3>3. QED
      BY <1>7, <3>1, <3>2
  <2>3. QED
    BY <2>1, <2>2 DEF OwnBuffers
<1>9. \A w \in Vcs : Matches(kept[w], extracted[w], afterMc[w], buffer')
  BY <1>5, OtherBuffer
<1>10. ASSUME NEW w \in Vcs PROVE Matches(kept'[w], extracted'[w], afterMc'[w], buffer')
  <2>1. CASE w = v
    <3>1. kept[v] \in Seq(Packet) /\ extracted[v] \in Seq(Nat) /\ afterMc[v] \in Seq(Frame)
      BY ListsTyped
    <3>2. p.packet = buffer'[f.buffer]
      BY <1>2, <1>4
    <3>3. Matches(Append(kept[v], p), extracted[v], Append(afterMc[v], f), buffer')
      BY <1>2, <1>9, <3>1, <3>2, AppendMatches
    <3>4. QED
      BY <1>1, <1>4, <2>1, <3>3
  <2>2. CASE w # v
    BY <1>1, <1>4, <1>9, <2>2
  <2>3. QED
    BY <2>1, <2>2
<1>11. QED
  BY <1>3, <1>8, <1>10

\* The buffer that is released belongs to no frame that goes on waiting.
LEMMA ExtractionKeepsOrder ==
  ASSUME OrderInv, NEW v \in Vcs, PacketExtractionRxTM(v)
  PROVE  OrderInv'
<1> DEFINE h == Head(afterMc[v])
           p == buffer[h.buffer]
<1> USE DEF OrderInv
<1>1. /\ buffer' = [buffer EXCEPT ![h.buffer] = 0]
      /\ masterCopy' = masterCopy \ {h}
      /\ afterMc' = [afterMc EXCEPT ![v] = Tail(@)]
      /\ received' = received
      /\ kept' = kept
      /\ extracted' = [extracted EXCEPT ![v] = Append(@, p)]
  BY DEF PacketExtractionRxTM
<1>2. /\ afterMc[v] \in Seq(Frame) /\ kept[v] \in Seq(Packet) /\ extracted[v] \in Seq(Nat)
      /\ \A i \in 1..Len(afterMc[v]) : afterMc[v][i].buffer \in Buffers
  BY ListsTyped
<1>3. Len(afterMc[v]) >= 1 /\ Len(afterMc[v]) \in Nat /\ afterMc[v] # <<>>
  BY <1>2, TmRxAssumption DEF PacketExtractionRxTM
<1>4. h = afterMc[v][1] /\ 1 \in 1..Len(afterMc[v])
  BY <1>2, <1>3
<1>5. h.buffer \in Buffers /\ p \in Nat
  BY <1>2, <1>4 DEF RxTyped
<1> HIDE DEF h, p
<1>6. /\ afterMc'[v] = Tail(afterMc[v]) /\ extracted'[v] = Append(extracted[v], p)
      /\ \A w \in Vcs \ {v} : afterMc'[w] = afterMc[w] /\ extracted'[w] = extracted[w]
      /\ \A c \in Buffers \ {h.buffer} : buffer'[c] = buffer[c]
  BY <1>1, <1>5 DEF RxTyped
<1>7. Len(afterMc'[v]) = Len(afterMc[v]) - 1
      /\ \A i \in 1..Len(afterMc'[v]) : afterMc'[v][i] = afterMc[v][i + 1]
  BY <1>2, <1>3, <1>6
<1>8. RxTyped'
  <2>1. Tail(afterMc[v]) \in Seq(Frame) /\ Append(extracted[v], p) \in Seq(Nat)
    BY <1>2, <1>3, <1>5
  <2>2. QED
    BY <1>1, <1>5, <2>1 DEF RxTyped
\* Where the frame at place i was before, and that it is not the one extracted.
<1> DEFINE Place(w, i) == IF w = v THEN i + 1 ELSE i
<1>9. ASSUME NEW w \in Vcs, NEW i \in 1..Len(afterMc'[w])
      PROVE  /\ Place(w, i) \in 1..Len(afterMc[w])
             /\ afterMc'[w][i] = afterMc[w][Place(w, i)]
             /\ afterMc'[w][i].buffer # h.buffer
             /\ buffer'[afterMc'[w][i].buffer] = buffer[afterMc'[w][i].buffer]
  <2>1. Place(w, i) \in 1..Len(afterMc[w]) /\ afterMc'[w][i] = afterMc[w][Place(w, i)]
    <3>1. CASE w = v
      BY <1>3, <1>7, <3>1
    <3>2. CASE w # v
      BY <1>6, <3>2
    <3>3. QED
      BY <3>1, <3>2
  <2>2. afterMc'[w][i].buffer \in Buffers
    BY <2>1, ListsTyped
  <2>3. w # v \/ Place(w, i) # 1
    OBVIOUS
  <2> HIDE DEF Place
  <2>4. afterMc'[w][i].buffer # h.buffer
    BY <1>4, <2>1, <2>3 DEF OwnBuffers
  <2>5. QED
    BY <1>6, <2>1, <2>2, <2>4
<1>10. OwnBuffers'
  <2>1. ASSUME NEW w \in Vcs, NEW i \in 1..Len(afterMc'[w])
        PROVE  afterMc'[w][i] \in masterCopy'
    <3>1. /\ Place(w, i) \in 1..Len(afterMc[w])
          /\ afterMc'[w][i] = afterMc[w][Place(w, i)] /\ afterMc'[w][i].buffer # h.buffer
      BY <1>9
    <3> HIDE DEF Place
    <3>2. afterMc'[w][i] \in masterCopy
      BY <3>1 DEF OwnBuffers
    <3>3. QED
      BY <1>1, <3>1, <3>2
  <2>2. ASSUME NEW u \in Vcs, NEW w \in Vcs,
               NEW i \in 1..Len(afterMc'[u]), NEW j \in 1..Len(afterMc'[w]),
               afterMc'[u][i].buffer = afterMc'[w][j].buffer
        PROVE  u = w /\ i = j
    <3>1. u = w /\ Place(u, i) = Place(w, j)
      <4>1. /\ Place(u, i) \in 1..Len(afterMc[u]) /\ afterMc'[u][i] = afterMc[u][Place(u, i)]
            /\ Place(w, j) \in 1..Len(afterMc[w]) /\ afterMc'[w][j] = afterMc[w][Place(w, j)]
        BY <1>9
      <4> HIDE DEF Place
      <4>2. QED
        BY <2>2, <4>1 DEF OwnBuffers
    <3>2. QED
      BY <3>1
  <2>3. QED
    BY <2>1, <2>2 DEF OwnBuffers
<1>11. ASSUME NEW w \in Vcs PROVE Matches(kept'[w], extracted'[w], afterMc'[w], buffer')
  <2>1. Matches(kept[w], extracted'[w], afterMc'[w], buffer)
    <3>1. CASE w = v
      BY <1>2, <1>3, <1>5, <1>6, <3>1, TailMatches DEF h, p
    <3>2. CASE w # v
      BY <1>6, <3>2
    <3>3. QED
      BY <3>1, <3>2
  <2>2. \A i \in 1..Len(afterMc'[w]) : buffer'[afterMc'[w][i].buffer] = buffer[afterMc'[w][i].buffer]
    BY <1>9
  <2>3. Matches(kept[w], extracted'[w], afterMc'[w], buffer')
    BY <2>1, <2>2, OtherBuffer
  <2>4. QED
    BY <1>1, <2>3
<1>12. QED
  BY <1>8, <1>10, <1>11

LEMMA OrderInit ==
  ASSUME TmRxInit
  PROVE  OrderInv
BY DEF TmRxInit, OrderInv, RxTyped, OwnBuffers, Matches

LEMMA OrderStep ==
  ASSUME OrderInv, [TmRxNext]_tmRxVars
  PROVE  OrderInv'
<1>1. CASE \E v \in Vcs, b \in Buffers \ Waiting, valid, rep \in BOOLEAN :
             AllFramesReceptionRequestRxTM(v, b, valid, rep)
  BY <1>1, ReceptionKeepsOrder
<1>2. CASE \E v \in Vcs : PacketExtractionRxTM(v)
  BY <1>2, ExtractionKeepsOrder
<1>3. CASE UNCHANGED tmRxVars
  BY <1>3 DEF tmRxVars, OrderInv, RxTyped, OwnBuffers
<1>4. QED
  BY <1>1, <1>2, <1>3 DEF TmRxNext

----------------------------------------------------------------------------
(* The master copies and the CLCWs of the TM chain.                        *)

\* Where the CLCWs were among the packets of a channel.
ClcwPlaces(k) == {i \in DOMAIN k : k[i].clcw}

RxTypes ==
  /\ buffer \in [Buffers -> 0..MaxFrames]
  /\ masterCopy \subseteq RxFrames
  /\ received \in 0..MaxFrames
  /\ kept \in [Vcs -> Seq(Received)]
  /\ extracted \in [Vcs -> Seq(1..MaxFrames)]

\* Every master copy waits, and there are as many as waiting frames: with OwnBuffers,
\* each waits once.
CopiesWait ==
  /\ \A f \in masterCopy : \E v \in Vcs : \E i \in 1..Len(afterMc[v]) : afterMc[v][i] = f
  /\ IsFiniteSet(masterCopy) /\ Cardinality(masterCopy) <= RxMasterCap
  /\ Cardinality(masterCopy) = LengthSum(afterMc, Vcs)
  /\ \A v \in Vcs : Len(afterMc[v]) <= AfterMcCap

\* No channel reports more CLCWs than frames were kept, and each those of its own.
ClcwsCounted ==
  /\ reports \in [Vcs -> Nat]
  /\ \A v \in Vcs : reports[v] <= received /\ reports[v] = Cardinality(ClcwPlaces(kept[v]))

TmRxInv == OrderInv /\ RxTypes /\ CopiesWait /\ ClcwsCounted

LEMMA RxBounds ==
  /\ RxMasterCap \in Nat /\ AfterMcCap \in Nat /\ MaxFrames \in Nat
  /\ IsFiniteSet(Vcs)
BY TmRxAssumption

\* A packet that is received adds a place if it came with a CLCW.
LEMMA ClcwAppended ==
  ASSUME NEW k \in Seq(Received), NEW p \in Received
  PROVE  /\ Cardinality(ClcwPlaces(k)) \in Nat
         /\ p.clcw => Cardinality(ClcwPlaces(Append(k, p))) = Cardinality(ClcwPlaces(k)) + 1
         /\ ~p.clcw => Cardinality(ClcwPlaces(Append(k, p))) = Cardinality(ClcwPlaces(k))
<1> DEFINE kk == Append(k, p)
           n == Len(k) + 1
<1>1. /\ DOMAIN k = 1..Len(k) /\ DOMAIN kk = 1..n /\ Len(k) \in Nat
      /\ \A i \in 1..Len(k) : kk[i] = k[i]
      /\ kk[n] = p
  OBVIOUS
<1>2. IsFiniteSet(ClcwPlaces(k)) /\ n \notin ClcwPlaces(k)
  <2>1. IsFiniteSet(1..Len(k))
    BY <1>1, FS_Interval
  <2>2. ClcwPlaces(k) \subseteq 1..Len(k) /\ n \notin 1..Len(k)
    BY <1>1 DEF ClcwPlaces
  <2>3. QED
    BY <2>1, <2>2, FS_Subset
<1> HIDE DEF kk
<1>3. ASSUME p.clcw PROVE ClcwPlaces(kk) = ClcwPlaces(k) \cup {n}
  BY <1>1, <1>3 DEF ClcwPlaces
<1>4. ASSUME ~p.clcw PROVE ClcwPlaces(kk) = ClcwPlaces(k)
  BY <1>1, <1>4 DEF ClcwPlaces
<1> HIDE DEF n
<1>5. Cardinality(ClcwPlaces(k) \cup {n}) = Cardinality(ClcwPlaces(k)) + 1
  BY <1>2, FS_AddElement
<1>6. Cardinality(ClcwPlaces(k)) \in Nat
  BY <1>2, FS_CardinalityType
<1>7. QED
  BY <1>3, <1>4, <1>5, <1>6 DEF kk

\* A list that changes, and the sum of all of them.
LEMMA ListsChange ==
  ASSUME OrderInv, OrderInv', NEW v \in Vcs, NEW s,
         afterMc' = [afterMc EXCEPT ![v] = s]
  PROVE  /\ LengthSum(afterMc', Vcs) = LengthSum(afterMc, Vcs) - Len(afterMc[v]) + Len(s)
         /\ LengthSum(afterMc, Vcs) \in Nat
<1>1. /\ \A w \in Vcs : Len(afterMc[w]) \in Nat /\ Len(afterMc'[w]) \in Nat
      /\ afterMc'[v] = s
      /\ \A w \in Vcs \ {v} : afterMc'[w] = afterMc[w]
  BY DEF OrderInv, RxTyped
<1>2. PICK g, h : g = afterMc /\ h = afterMc'
  OBVIOUS
<1>3. /\ LengthSum(h, Vcs) = LengthSum(g, Vcs) - Len(g[v]) + Len(h[v])
      /\ LengthSum(g, Vcs) \in Nat
  <2>1. /\ \A w \in Vcs : Len(g[w]) \in Nat
        /\ Len(h[v]) \in Nat
        /\ \A w \in Vcs \ {v} : Len(h[w]) = Len(g[w])
    BY <1>1, <1>2
  <2>2. QED
    BY <2>1, RxBounds, LengthsChange
<1>4. QED
  BY <1>1, <1>2, <1>3

\* A frame that is kept is a new master copy, and its CLCW goes to FOP.
LEMMA ReceptionKeepsCopies ==
  ASSUME TmRxInv, OrderInv', NEW v \in Vcs, NEW b \in Buffers \ Waiting,
         NEW valid, NEW rep \in BOOLEAN, AllFramesReceptionRequestRxTM(v, b, valid, rep)
  PROVE  (RxTypes /\ CopiesWait /\ ClcwsCounted)'
<1> DEFINE f == [packet |-> received + 1, buffer |-> b]
           p == [packet |-> f.packet, clcw |-> rep]
<1> USE DEF TmRxInv
<1>1. /\ buffer' = [buffer EXCEPT ![b] = f.packet]
      /\ masterCopy' = masterCopy \cup {f}
      /\ afterMc' = [afterMc EXCEPT ![v] = Append(@, f)]
      /\ received' = received + 1
      /\ kept' = [kept EXCEPT ![v] = Append(@, p)]
      /\ extracted' = extracted
      /\ reports' = IF rep THEN [reports EXCEPT ![v] = @ + 1] ELSE reports
      /\ received < MaxFrames /\ Cardinality(masterCopy) < RxMasterCap
      /\ Len(afterMc[v]) < AfterMcCap
  BY DEF AllFramesReceptionRequestRxTM, Keep, Processed
<1>2. /\ received \in Nat /\ received + 1 \in 1..MaxFrames /\ f \in RxFrames /\ p \in Received
      /\ f.buffer = b /\ p.clcw = rep /\ f.packet \in 1..MaxFrames
  <2>1. received \in Nat /\ received + 1 \in 1..MaxFrames
    BY <1>1, RxBounds DEF RxTypes
  <2>2. QED
    BY <2>1 DEF RxFrames, Received
<1>3. f \notin masterCopy
  BY <1>2 DEF Waiting
<1>4. afterMc[v] \in Seq(Frame) /\ Len(afterMc[v]) \in Nat /\ f \in Frame
  <2>1. afterMc[v] \in Seq(Frame)
    BY DEF OrderInv, RxTyped
  <2>2. f \in Frame
    BY <1>2 DEF Frame
  <2>3. QED
    BY <2>1, <2>2
<1> HIDE DEF f, p
<1>5. RxTypes'
  <2>1. buffer' \in [Buffers -> 0..MaxFrames]
    <3>1. f.packet \in 0..MaxFrames
      BY <1>2
    <3>2. QED
      BY <1>1, <3>1 DEF RxTypes
  <2>2. received' \in 0..MaxFrames
    BY <1>1, <1>2
  <2>3. kept' \in [Vcs -> Seq(Received)]
    <3>1. Append(kept[v], p) \in Seq(Received)
      BY <1>2 DEF RxTypes
    <3>2. QED
      BY <1>1, <3>1 DEF RxTypes
  <2>4. masterCopy' \subseteq RxFrames /\ extracted' \in [Vcs -> Seq(1..MaxFrames)]
    BY <1>1, <1>2 DEF RxTypes
  <2>5. QED
    BY <2>1, <2>2, <2>3, <2>4 DEF RxTypes
<1>6. /\ afterMc' = [afterMc EXCEPT ![v] = Append(afterMc[v], f)]
      /\ afterMc'[v] = Append(afterMc[v], f)
      /\ \A w \in Vcs \ {v} : afterMc'[w] = afterMc[w]
      /\ Len(afterMc'[v]) = Len(afterMc[v]) + 1
      /\ \A i \in 1..Len(afterMc[v]) : afterMc'[v][i] = afterMc[v][i]
      /\ afterMc'[v][Len(afterMc[v]) + 1] = f
  <2>1. /\ afterMc' = [afterMc EXCEPT ![v] = Append(afterMc[v], f)]
        /\ afterMc'[v] = Append(afterMc[v], f)
        /\ \A w \in Vcs \ {v} : afterMc'[w] = afterMc[w]
    BY <1>1 DEF OrderInv, RxTyped
  <2>2. QED
    BY <1>4, <2>1
<1>7. CopiesWait'
  <2>1. ASSUME NEW x \in masterCopy'
        PROVE  \E w \in Vcs : \E i \in 1..Len(afterMc'[w]) : afterMc'[w][i] = x
    <3>1. CASE x = f
      <4>1. Len(afterMc[v]) + 1 \in 1..Len(afterMc'[v])
        BY <1>4, <1>6
      <4>2. QED
        BY <1>6, <3>1, <4>1
    <3>2. CASE x \in masterCopy
      <4>1. PICK w \in Vcs : \E i \in 1..Len(afterMc[w]) : afterMc[w][i] = x
        BY <3>2 DEF CopiesWait
      <4>2. PICK i \in 1..Len(afterMc[w]) : afterMc[w][i] = x
        BY <4>1
      <4>3. i \in 1..Len(afterMc'[w]) /\ afterMc'[w][i] = x
        BY <1>4, <1>6, <4>2
      <4>4. QED
        BY <4>3
    <3>3. QED
      BY <1>1, <3>1, <3>2
  <2>2. IsFiniteSet(masterCopy') /\ Cardinality(masterCopy') = Cardinality(masterCopy) + 1
    BY <1>1, <1>3, FS_AddElement DEF CopiesWait
  <2>3. LengthSum(afterMc', Vcs) = LengthSum(afterMc, Vcs) + 1
    <3>1. /\ LengthSum(afterMc', Vcs)
               = LengthSum(afterMc, Vcs) - Len(afterMc[v]) + Len(Append(afterMc[v], f))
          /\ LengthSum(afterMc, Vcs) \in Nat
      BY <1>6, ListsChange
    <3>2. Len(Append(afterMc[v], f)) = Len(afterMc[v]) + 1
      BY <1>4
    <3>3. QED
      BY <1>4, <3>1, <3>2
  <2>4. Cardinality(masterCopy') <= RxMasterCap
    <3>1. Cardinality(masterCopy) \in Nat
      BY FS_CardinalityType DEF CopiesWait
    <3>2. QED
      BY <1>1, <2>2, <3>1, RxBounds
  <2>5. ASSUME NEW w \in Vcs PROVE Len(afterMc'[w]) <= AfterMcCap
    <3>1. CASE w = v
      BY <1>1, <1>4, <1>6, <3>1, RxBounds
    <3>2. CASE w # v
      BY <1>6, <3>2 DEF CopiesWait
    <3>3. QED
      BY <3>1, <3>2
  <2>6. Cardinality(masterCopy) = LengthSum(afterMc, Vcs)
    BY DEF CopiesWait
  <2>7. QED
    BY <2>1, <2>2, <2>3, <2>4, <2>5, <2>6 DEF CopiesWait
<1>8. ClcwsCounted'
  <2>1. /\ kept[v] \in Seq(Received)
        /\ kept'[v] = Append(kept[v], p) /\ \A w \in Vcs \ {v} : kept'[w] = kept[w]
    BY <1>1 DEF RxTypes
  <2>2. \A w \in Vcs : reports[w] \in Nat /\ reports[w] <= received
                       /\ reports[w] = Cardinality(ClcwPlaces(kept[w]))
    BY DEF ClcwsCounted
  <2>3. /\ reports' \in [Vcs -> Nat]
        /\ rep => reports'[v] = reports[v] + 1
        /\ ~rep => reports'[v] = reports[v]
        /\ \A w \in Vcs \ {v} : reports'[w] = reports[w]
    BY <1>1, <2>2 DEF ClcwsCounted
  <2>4. reports'[v] = Cardinality(ClcwPlaces(kept'[v]))
    <3>1. CASE rep
      <4>1. Cardinality(ClcwPlaces(kept'[v])) = Cardinality(ClcwPlaces(kept[v])) + 1
        BY <1>2, <2>1, <3>1, ClcwAppended
      <4>2. QED
        BY <2>2, <2>3, <3>1, <4>1
    <3>2. CASE ~rep
      BY <1>2, <2>1, <2>2, <2>3, <3>2, ClcwAppended
    <3>3. QED
      BY <3>1, <3>2
  <2>5. reports'[v] <= received'
    <3>1. reports'[v] \in {reports[v], reports[v] + 1}
      BY <2>3
    <3>2. QED
      BY <1>1, <1>2, <2>2, <3>1
  <2>6. ASSUME NEW w \in Vcs
        PROVE  reports'[w] <= received' /\ reports'[w] = Cardinality(ClcwPlaces(kept'[w]))
    <3>1. CASE w = v
      BY <2>4, <2>5, <3>1
    <3>2. CASE w # v
      <4>1. reports'[w] = reports[w] /\ kept'[w] = kept[w]
        BY <2>1, <2>3, <3>2
      <4>2. reports[w] <= received /\ reports[w] \in Nat
            /\ reports[w] = Cardinality(ClcwPlaces(kept[w]))
        BY <2>2
      <4>3. reports'[w] <= received'
        BY <1>1, <1>2, <4>1, <4>2
      <4>4. QED
        BY <4>1, <4>2, <4>3
    <3>3. QED
      BY <3>1, <3>2
  <2>7. QED
    BY <2>3, <2>6 DEF ClcwsCounted
<1>9. QED
  BY <1>5, <1>7, <1>8

\* The frame whose packet leaves is a master copy, and no other waiting frame is.
LEMMA ExtractionKeepsCopies ==
  ASSUME TmRxInv, OrderInv', NEW v \in Vcs, PacketExtractionRxTM(v)
  PROVE  (RxTypes /\ CopiesWait /\ ClcwsCounted)'
<1> DEFINE h == Head(afterMc[v])
           p == buffer[h.buffer]
<1> USE DEF TmRxInv
<1>1. /\ buffer' = [buffer EXCEPT ![h.buffer] = 0]
      /\ masterCopy' = masterCopy \ {h}
      /\ afterMc' = [afterMc EXCEPT ![v] = Tail(@)]
      /\ received' = received /\ kept' = kept /\ reports' = reports
      /\ extracted' = [extracted EXCEPT ![v] = Append(@, p)]
  BY DEF PacketExtractionRxTM
<1>2. /\ afterMc[v] \in Seq(Frame) /\ kept[v] \in Seq(Packet) /\ extracted[v] \in Seq(Nat)
      /\ Matches(kept[v], extracted[v], afterMc[v], buffer)
  BY DEF OrderInv, RxTyped
<1>3. Len(afterMc[v]) >= 1 /\ Len(afterMc[v]) \in Nat /\ afterMc[v] # <<>>
  BY <1>2, RxBounds DEF PacketExtractionRxTM
<1>4. h = afterMc[v][1] /\ 1 \in 1..Len(afterMc[v]) /\ h \in masterCopy
  <2>1. h = afterMc[v][1] /\ 1 \in 1..Len(afterMc[v])
    BY <1>2, <1>3
  <2>2. QED
    BY <2>1 DEF OrderInv, OwnBuffers
<1>5. p \in 1..MaxFrames
  <2>1. /\ kept[v] \in Seq(Received) /\ Len(extracted[v]) \in Nat
        /\ Len(extracted[v]) + 1 \in 1..Len(kept[v])
    BY <1>2, <1>3 DEF Matches, RxTypes
  <2>2. kept[v][Len(extracted[v]) + 1] \in Received
    BY <2>1
  <2>3. kept[v][Len(extracted[v]) + 1].packet = p
    BY <1>2, <1>4 DEF Matches
  <2>4. QED
    BY <2>2, <2>3 DEF Received
<1> HIDE DEF h, p
<1>6. /\ afterMc' = [afterMc EXCEPT ![v] = Tail(afterMc[v])]
      /\ afterMc'[v] = Tail(afterMc[v])
      /\ \A w \in Vcs \ {v} : afterMc'[w] = afterMc[w]
      /\ Len(Tail(afterMc[v])) = Len(afterMc[v]) - 1
      /\ \A i \in 1..Len(Tail(afterMc[v])) : Tail(afterMc[v])[i] = afterMc[v][i + 1]
  <2>1. /\ afterMc' = [afterMc EXCEPT ![v] = Tail(afterMc[v])]
        /\ afterMc'[v] = Tail(afterMc[v])
        /\ \A w \in Vcs \ {v} : afterMc'[w] = afterMc[w]
    BY <1>1 DEF OrderInv, RxTyped
  <2>2. QED
    BY <1>2, <1>3, <2>1
<1>7. RxTypes'
  <2>1. buffer' \in [Buffers -> 0..MaxFrames]
    <3>1. 0 \in 0..MaxFrames
      BY RxBounds
    <3>2. QED
      BY <1>1, <3>1 DEF RxTypes
  <2>2. extracted' \in [Vcs -> Seq(1..MaxFrames)]
    <3>1. Append(extracted[v], p) \in Seq(1..MaxFrames)
      BY <1>5 DEF RxTypes
    <3>2. QED
      BY <1>1, <3>1 DEF RxTypes
  <2>3. QED
    BY <1>1, <2>1, <2>2 DEF RxTypes
<1>8. CopiesWait'
  <2>1. ASSUME NEW x \in masterCopy'
        PROVE  \E w \in Vcs : \E i \in 1..Len(afterMc'[w]) : afterMc'[w][i] = x
    <3>1. PICK w \in Vcs : \E i \in 1..Len(afterMc[w]) : afterMc[w][i] = x
      BY <1>1 DEF CopiesWait
    <3>2. PICK i \in 1..Len(afterMc[w]) : afterMc[w][i] = x
      BY <3>1
    <3>3. CASE w = v
      <4>1. i # 1
        BY <1>1, <1>4, <3>2, <3>3
      <4>2. i - 1 \in 1..Len(Tail(afterMc[v])) /\ (i - 1) + 1 = i
        BY <1>3, <1>6, <3>3, <4>1
      <4>3. afterMc'[v][i - 1] = x
        BY <1>6, <3>2, <3>3, <4>2
      <4>4. QED
        BY <1>6, <4>2, <4>3
    <3>4. CASE w # v
      BY <1>6, <3>2, <3>4
    <3>5. QED
      BY <3>3, <3>4
  <2>2. /\ IsFiniteSet(masterCopy') /\ Cardinality(masterCopy') = Cardinality(masterCopy) - 1
        /\ Cardinality(masterCopy) \in Nat
    BY <1>1, <1>4, FS_RemoveElement, FS_CardinalityType DEF CopiesWait
  <2>3. LengthSum(afterMc', Vcs) = LengthSum(afterMc, Vcs) - 1
    <3>1. /\ LengthSum(afterMc', Vcs)
               = LengthSum(afterMc, Vcs) - Len(afterMc[v]) + Len(Tail(afterMc[v]))
          /\ LengthSum(afterMc, Vcs) \in Nat
      BY <1>6, ListsChange
    <3>2. QED
      BY <1>3, <1>6, <3>1
  <2>4. Cardinality(masterCopy) = LengthSum(afterMc, Vcs) /\ Cardinality(masterCopy) <= RxMasterCap
    BY DEF CopiesWait
  <2>5. Cardinality(masterCopy') <= RxMasterCap
    BY <2>2, <2>4, RxBounds
  <2>6. ASSUME NEW w \in Vcs PROVE Len(afterMc'[w]) <= AfterMcCap
    <3>1. Len(afterMc[w]) <= AfterMcCap
      BY DEF CopiesWait
    <3>2. CASE w = v
      BY <1>3, <1>6, <3>1, <3>2, RxBounds
    <3>3. CASE w # v
      BY <1>6, <3>1, <3>3
    <3>4. QED
      BY <3>2, <3>3
  <2>7. QED
    BY <2>1, <2>2, <2>3, <2>4, <2>5, <2>6 DEF CopiesWait
<1>9. ClcwsCounted'
  BY <1>1 DEF ClcwsCounted
<1>10. QED
  BY <1>7, <1>8, <1>9

LEMMA TmRxInvariant == TmRxSpec => []TmRxInv
<1>1. TmRxInit => TmRxInv
  <2> SUFFICES ASSUME TmRxInit PROVE TmRxInv
    OBVIOUS
  <2>1. OrderInv
    BY OrderInit
  <2>2. RxTypes
    BY RxBounds DEF TmRxInit, RxTypes
  <2>3. CopiesWait
    <3>1. masterCopy = {} /\ afterMc = [v \in Vcs |-> <<>>] /\ \A v \in Vcs : Len(afterMc[v]) = 0
      BY DEF TmRxInit
    <3>2. IsFiniteSet(masterCopy) /\ Cardinality(masterCopy) = 0
      BY <3>1, FS_EmptySet
    <3>3. LengthSum(afterMc, Vcs) = 0
      BY <3>1, RxBounds, LengthsZero
    <3>4. QED
      BY <3>1, <3>2, <3>3, RxBounds DEF CopiesWait
  <2>4. ClcwsCounted
    <3>1. /\ reports = [v \in Vcs |-> 0] /\ received = 0
          /\ \A v \in Vcs : ClcwPlaces(kept[v]) = {}
      BY DEF TmRxInit, ClcwPlaces
    <3>2. Cardinality({}) = 0
      BY FS_EmptySet
    <3>3. QED
      BY <3>1, <3>2 DEF ClcwsCounted
  <2>5. QED
    BY <2>1, <2>2, <2>3, <2>4 DEF TmRxInv
<1>2. TmRxInv /\ [TmRxNext]_tmRxVars => TmRxInv'
  <2> SUFFICES ASSUME TmRxInv, [TmRxNext]_tmRxVars PROVE TmRxInv'
    OBVIOUS
  <2>1. OrderInv'
    BY OrderStep DEF TmRxInv
  <2>2. CASE \E v \in Vcs, b \in Buffers \ Waiting, valid, rep \in BOOLEAN :
               AllFramesReceptionRequestRxTM(v, b, valid, rep)
    BY <2>1, <2>2, ReceptionKeepsCopies DEF TmRxInv
  <2>3. CASE \E v \in Vcs : PacketExtractionRxTM(v)
    BY <2>1, <2>3, ExtractionKeepsCopies DEF TmRxInv
  <2>4. CASE UNCHANGED tmRxVars
    BY <2>1, <2>4 DEF tmRxVars, TmRxInv, RxTypes, CopiesWait, ClcwsCounted
  <2>5. QED
    BY <2>2, <2>3, <2>4 DEF TmRxNext
<1>3. QED
  BY <1>1, <1>2, PTL DEF TmRxSpec

----------------------------------------------------------------------------
(* The theorems of the TM chain.                                           *)

\* The packets of every channel leave in the order in which their frames were
\* received, as long as the caller keeps the buffer of a frame that waits.
THEOREM TmPacketsInOrder == TmRxSpec => []PacketsInOrder
<1>1. TmRxInv => PacketsInOrder
  <2> SUFFICES ASSUME TmRxInv, NEW v \in Vcs
               PROVE  [i \in DOMAIN kept[v] |-> kept[v][i].packet]
                        = extracted[v] \o [i \in DOMAIN afterMc[v] |-> buffer[afterMc[v][i].buffer]]
    BY DEF PacketsInOrder
  <2>1. /\ afterMc[v] \in Seq(Frame) /\ kept[v] \in Seq(Packet) /\ extracted[v] \in Seq(Nat)
        /\ buffer \in [Buffers -> Nat]
        /\ Matches(kept[v], extracted[v], afterMc[v], buffer)
    BY DEF TmRxInv, OrderInv, RxTyped
  <2>2. QED
    BY <2>1, MatchingPackets
<1>2. QED
  BY <1>1, TmRxInvariant, PTL

\* Every variable keeps its type and no list outgrows its capacity: every packet that
\* is extracted is one that was received.
THEOREM TmRxTypeCorrect == TmRxSpec => []TmRxTypeOK
<1>1. TmRxInv => TmRxTypeOK
  <2> SUFFICES ASSUME TmRxInv PROVE TmRxTypeOK
    OBVIOUS
  <2>1. RxTypes /\ CopiesWait /\ ClcwsCounted
    BY DEF TmRxInv
  <2>2. reports \in [Vcs -> 0..MaxFrames]
    <3>1. received \in Nat /\ received <= MaxFrames
      BY <2>1, RxBounds DEF RxTypes
    <3>2. \A v \in Vcs : reports[v] \in 0..MaxFrames
      BY <2>1, <3>1, RxBounds DEF ClcwsCounted
    <3>3. QED
      BY <2>1, <3>2 DEF ClcwsCounted
  <2>3. QED
    BY <2>1, <2>2 DEF RxTypes, CopiesWait, TmRxTypeOK
<1>2. QED
  BY <1>1, TmRxInvariant, PTL

\* For any channels and capacities, each master copy waits in the list of exactly one
\* channel, once, and each pointer is to a master copy.
THEOREM TmRxCopiesAccounted == TmRxSpec => []RxCopiesAccounted
<1>1. TmRxInv => RxCopiesAccounted
  <2> SUFFICES ASSUME TmRxInv PROVE RxCopiesAccounted
    OBVIOUS
  <2>1. OwnBuffers /\ CopiesWait /\ afterMc \in [Vcs -> Seq(Frame)]
    BY DEF TmRxInv, OrderInv, RxTyped
  <2>2. \A v \in Vcs : DOMAIN afterMc[v] = 1..Len(afterMc[v])
    BY <2>1
  <2>3. masterCopy = UNION {ToSet(afterMc[v]) : v \in Vcs}
    BY <2>1, <2>2 DEF OwnBuffers, CopiesWait, ToSet
  <2>4. Cardinality(masterCopy) = MapThenSumSet(LAMBDA v : Len(afterMc[v]), Vcs)
    BY <2>1 DEF CopiesWait, LengthSum
  <2>5. QED
    BY <2>3, <2>4 DEF RxCopiesAccounted
<1>2. QED
  BY <1>1, TmRxInvariant, PTL

\* FOP is given the CLCWs of the frames that are kept, each once, and no others.
THEOREM TmClcwsOfKeptFrames == TmRxSpec => []ClcwsOfKeptFrames
<1>1. TmRxInv => ClcwsOfKeptFrames
  BY DEF TmRxInv, ClcwsCounted, ClcwsOfKeptFrames, ClcwPlaces
<1>2. QED
  BY <1>1, TmRxInvariant, PTL
=============================================================================
