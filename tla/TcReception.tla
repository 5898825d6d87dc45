----------------------------- MODULE TcReception -----------------------------
(***************************************************************************)
(* The receiving chain for TC frames of one virtual channel, as            *)
(* src/CCSDSServiceChannel.cpp wires it around FARM: storeFrameRxTC ->     *)
(* allFramesReceptionRequestRxTC -> vcReceptionRxTC (FARM and CLCW) ->     *)
(* packetExtractionTC.  The user's scheduler calls the four services in    *)
(* any order; each refuses when its input is empty or its output full.     *)
(* FARM's own steps are those of FrameAcceptanceReporting; bufferRelease   *)
(* has no caller here, and of the frames FARM knows only those of types AD *)
(* and AC get as far as its wait queue, see ValidVersion.                  *)
(***************************************************************************)
EXTENDS FrameAcceptanceReporting, CLCW, FiniteSetsExt

CONSTANTS
  MapIds,         \* keys of mapChannels, at most MaxMapChannels (3)
  MasterCopyCap,  \* MaxRxInMasterChannel (200)
  InFramesCap,    \* MaxReceivedRxTcInMasterBuffer (100)
  AfterVcCap,     \* MaxReceivedRxTcInVirtualChannelBuffer (100); same for a MAP
  NoClcw          \* no CLCW has been built yet

ASSUME TcReceptionAssumption ==
  /\ IsFiniteSet(MapIds) /\ MapIds # {}
  /\ MasterCopyCap \in Nat /\ InFramesCap \in Nat /\ AfterVcCap \in Nat \ {0}

VARIABLES
  segmentHeaderPresent,  \* configuration: the channel was added with MAP channels
  masterCopies,          \* size of masterCopyRxTC
  inFrames,              \* inFramesBeforeAllFramesReceptionListRxTC
  afterVc,               \* inFramesAfterVCReceptionRxTC of each MAP / of the channel
  clcw,                  \* the CLCW in clcwTransferFrameBuffer
  thrown                 \* an ETL container threw: the program ends

chain == <<segmentHeaderPresent, masterCopies, inFrames, afterVc, clcw, thrown>>
farm == <<state, flags, receiverFrameSeqNumber, farmBCount, sentQueue>>
rxVars == <<vars, chain>>

\* The frame lists after FARM: one per MAP channel, or the channel's own.
Outputs == IF segmentHeaderPresent THEN MapIds ELSE {"vc"}

\* A stored frame: what FARM will look at, bit 7 of the first octet, and whether
\* the checksum fits (it does where the channel has none).  The spacecraft check
\* never fails: spacecraftId() returns the constant.
Stored == [frame : Frames, bit7 : BOOLEAN, crc : BOOLEAN]

\* getTransferFrameVersionNumber() reads bits 6 and 7 of the first octet, and
\* getServiceType() reads bit 6 as the bypass flag, which BD and BC frames set.
ValidVersion(x) == ~x.bit7 /\ x.frame.type \in {"AD", "AC"}

RxInit ==
  /\ Init
  /\ segmentHeaderPresent \in BOOLEAN
  /\ masterCopies = 0
  /\ inFrames = <<>>
  /\ afterVc = [o \in MapIds \cup {"vc"} |-> <<>>]
  /\ clcw = NoClcw
  /\ thrown = FALSE

\* Slip: the room in masterCopyRxTC is not looked at.
StoreFrameUnchecked(x) ==
  /\ Len(inFrames) < InFramesCap
  /\ masterCopies' = masterCopies + 1
  /\ inFrames' = Append(inFrames, x)
  /\ UNCHANGED <<vars, segmentHeaderPresent, afterVc, clcw, thrown>>

\* storeFrameRxTC with a length, VCID and MAP id that exist; with others it
\* returns before it changes anything.
StoreFrameRxTC(x) ==
  /\ masterCopies < MasterCopyCap
  /\ Len(inFrames) < InFramesCap
  /\ masterCopies' = masterCopies + 1
  /\ inFrames' = Append(inFrames, x)
  /\ UNCHANGED <<vars, segmentHeaderPresent, afterVc, clcw, thrown>>

\* Slip: a frame with a wrong checksum leaves the list but not masterCopyRxTC.
AllFramesReceptionKeepsCopy ==
  /\ inFrames # <<>> /\ Len(waitQueue) < WaitQueueCap /\ ValidVersion(Head(inFrames))
  /\ inFrames' = Tail(inFrames)
  /\ waitQueue' = IF Head(inFrames).crc
                  THEN Append(waitQueue, Head(inFrames).frame) ELSE waitQueue
  /\ UNCHANGED <<farm, segmentHeaderPresent, masterCopies, afterVc, clcw, thrown>>

\* allFramesReceptionRequestRxTC.  A wrong version number returns and leaves
\* the frame at the front, which is not a step; a wrong checksum discards it.
AllFramesReception ==
  /\ inFrames # <<>>
  /\ Len(waitQueue) < WaitQueueCap
  /\ ValidVersion(Head(inFrames))
  /\ inFrames' = Tail(inFrames)
  /\ \/ /\ Head(inFrames).crc
        /\ waitQueue' = Append(waitQueue, Head(inFrames).frame)
        /\ UNCHANGED masterCopies
     \/ /\ ~Head(inFrames).crc
        /\ masterCopies' = masterCopies - 1
        /\ UNCHANGED waitQueue
  /\ UNCHANGED <<farm, segmentHeaderPresent, afterVc, clcw, thrown>>

\* Slip: the CLCW is built before FARM has seen the frame.
StaleReport ==
  clcw' = NewClcw(lockout, wait, retransmit, farmBCount, receiverFrameSeqNumber)

\* The CLCW of vcReceptionRxTC, from FARM's variables after frameArrives.
Report ==
  clcw' = NewClcw(lockout', wait', retransmit', farmBCount', receiverFrameSeqNumber')

\* Slip: the list after FARM is not checked.
NoRoomCheck == TRUE

\* vcReceptionRxTC looks at the channel's own list, also when the frame goes
\* to a MAP channel.
RoomChecked == Len(afterVc["vc"]) < AfterVcCap

\* vcReceptionRxTC: FARM, CLCW, then the frame is handed on whatever FARM
\* answered.  mapId() tests a member that the receiving constructor does not
\* set, so of the MAP channels that storeFrameRxTC found any may be read.
\* A list that is full makes push_back throw.
VcReceptionRxTC ==
  /\ RoomChecked
  /\ FrameArrives
  /\ Report
  /\ \E o \in Outputs :
       \/ /\ Len(afterVc[o]) < AfterVcCap
          /\ afterVc' = [afterVc EXCEPT ![o] =
                Append(@, [frame |-> Head(waitQueue), accepted |-> sentQueue' # sentQueue])]
          /\ UNCHANGED thrown
       \/ /\ Len(afterVc[o]) = AfterVcCap
          /\ thrown' = TRUE
          /\ UNCHANGED afterVc
  /\ UNCHANGED <<segmentHeaderPresent, masterCopies, inFrames>>

\* Slip: the packet is copied out and the frame stays in front.
VcPacketExtractionKeeps ==
  /\ ~segmentHeaderPresent
  /\ afterVc["vc"] # <<>>
  /\ UNCHANGED rxVars

\* packetExtractionTC(vid, packet): the master copy stays (a TODO in the code).
VcPacketExtraction ==
  /\ ~segmentHeaderPresent
  /\ afterVc["vc"] # <<>>
  /\ afterVc' = [afterVc EXCEPT !["vc"] = Tail(@)]
  /\ UNCHANGED <<vars, segmentHeaderPresent, masterCopies, inFrames, clcw, thrown>>

\* packetExtractionTC(vid, mapid, packet) removes the master copy.
MapPacketExtraction(m) ==
  /\ segmentHeaderPresent
  /\ afterVc[m] # <<>>
  /\ afterVc' = [afterVc EXCEPT ![m] = Tail(@)]
  /\ masterCopies' = masterCopies - 1
  /\ UNCHANGED <<vars, segmentHeaderPresent, inFrames, clcw, thrown>>

RxNext ==
  /\ ~thrown
  /\ \/ \E x \in Stored : StoreFrameRxTC(x)
     \/ AllFramesReception
     \/ VcReceptionRxTC
     \/ VcPacketExtraction
     \/ \E m \in MapIds : MapPacketExtraction(m)

RxSpec == RxInit /\ [][RxNext]_rxVars

\* The scheduler calls each service of the channel again and again.
RxFairness ==
  /\ WF_rxVars(~thrown /\ AllFramesReception)
  /\ WF_rxVars(~thrown /\ VcReceptionRxTC)
  /\ WF_rxVars(~thrown /\ VcPacketExtraction)
  /\ \A m \in MapIds : WF_rxVars(~thrown /\ MapPacketExtraction(m))

RxFairSpec == RxSpec /\ RxFairness

----------------------------------------------------------------------------
(* Properties.                                                             *)

\* Every variable of the chain has its type.
RxTypeOK ==
  /\ segmentHeaderPresent \in BOOLEAN
  /\ masterCopies \in 0..MasterCopyCap
  /\ inFrames \in Seq(Stored) /\ Len(inFrames) <= InFramesCap
  /\ \A o \in MapIds \cup {"vc"} : Len(afterVc[o]) <= AfterVcCap
  /\ clcw \in ClcwSet(0..255) \cup {NoClcw}
  /\ thrown \in BOOLEAN

\* The CLCW in the buffer shows what FARM is in now: the next expected number
\* and the three flags, which the FARM-B counter, shifted over them without a mask,
\* spares because no BC or BD frame gets as far as FARM.
\* (vcReceptionRxTC builds it after frameArrives, in the same call)
ClcwCurrent ==
  clcw # NoClcw =>
    /\ clcw.report = receiverFrameSeqNumber
    /\ clcw.lockout = lockout
    /\ clcw.wait = wait
    /\ clcw.retransmit = retransmit

\* With MAP channels every master copy belongs to a frame that is still in
\* the chain, and the reverse: none leaks and none is freed early.
MasterCopiesAccounted ==
  segmentHeaderPresent /\ ~thrown =>
    masterCopies = Len(inFrames) + Len(waitQueue)
                     + MapThenSumSet(LAMBDA m : Len(afterVc[m]), MapIds)

\* Without MAP channels vcReceptionRxTC never pushes into a full list.
VcChannelNeverThrows == ~segmentHeaderPresent => ~thrown

\* A frame in FARM's wait queue, which has one place in the run, leaves it: no
\* list behind it stays full.  (vcReceptionRxTC waits for packetExtractionTC)
WaitQueueDrains == waitQueue # <<>> ~> waitQueue = <<>> \/ thrown

\* What CCSDSChannel.hpp says of the master copies: a frame is held up until
\* packet extraction, or discarded in case it is invalid.  So the frame in the
\* list before All Frames Reception, which has one place in the run, leaves it.
StoredFrameLeaves == inFrames # <<>> ~> inFrames = <<>> \/ thrown
=============================================================================
