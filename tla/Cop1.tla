-------------------------------- MODULE Cop1 --------------------------------
(***************************************************************************)
(* The Communications Operation Procedure of one virtual channel: FOP-1 on *)
(* the ground, FARM-1 on board, and between them a medium that may lose,   *)
(* repeat, delay and reorder frames and CLCWs.  The steps of the two ends  *)
(* are those of FrameOperationProcedure and FrameAcceptanceReporting; here *)
(* are the services that join them.                                        *)
(*                                                                         *)
(* setVs and initiateAdVr, which move V(S) alone, are left to              *)
(* FrameOperationProcedure: the commands that would move V(R) with them    *)
(* are TODOs in the code.  setT1Initial, setTimeoutType and                *)
(* invalidDirective set what nothing reads; frameTransmission is the       *)
(* medium's.  Every other service of the channel for FOP is a step here.   *)
(***************************************************************************)
EXTENDS CLCW, Sequences, FiniteSets

CONSTANTS
  Modulus,          \* 2^8
  FopWaitCap, FopSentCap, UnprocessedCap, OutCap, Slots,  \* FOP's lists
  Limits,           \* the transmission limits that are configured or set
  Widths,           \* the FOP sliding window widths that are set
  FarmSentCap,      \* MaxReceivedRxTcInFOPSentQueue (10)
  PositiveWinWidth, \* farmPositiveWinWidth
  RxCap,            \* MaxReceivedRxTmInVirtBuffer (10)
  MaxFrames         \* bound on the frames made

ASSUME Cop1Assumption ==
  /\ Modulus \in 2..256
  /\ MaxFrames \in Nat /\ MaxFrames < Modulus   \* V(S) does not wrap
  /\ FopWaitCap \in Nat /\ FopSentCap \in 0..Modulus - 1
  /\ UnprocessedCap \in Nat /\ OutCap \in Nat /\ RxCap \in Nat
  /\ Limits \subseteq 0..255 /\ Widths \subseteq 0..Modulus - 1
  /\ FarmSentCap \in 1..254

VARIABLES
  fop, unprocessed, limit, width,                \* the ground: FOP-1
  received,                \* the ground: size of framesAfterMcReceptionRxTM
  state, lockout, wait, retransmit, receiverFrameSeqNumber, sentQueue,  \* FARM-1
  uplink,      \* the TC frames ever sent, as their N(S) and payload
  downlink,    \* the CLCWs ever sent
  payload,     \* history: what the frame of each slot carries, 0 before the first
  made,        \* history: the number of frames made
  handed, delivered, confirmed,  \* history: the payloads that FOP numbered, that
                                 \* FARM accepted, that FOP took a CLCW to acknowledge
  vouched,     \* history: the payloads that the user acknowledged himself
  orderly      \* history: no frame was in two places or sent without a number

fopVars == <<fop, unprocessed, limit, width>>
farmVars == <<state, lockout, wait, retransmit, receiverFrameSeqNumber, sentQueue>>
history == <<payload, made, handed, delivered, confirmed, vouched, orderly>>
copVars == <<fopVars, received, farmVars, uplink, downlink, history>>

Fop == INSTANCE FrameOperationProcedure WITH
  WaitQueueCap <- FopWaitCap, SentQueueCap <- FopSentCap,
  Services <- {"AD"}, Numbers <- {}, intact <- TRUE

Farm == INSTANCE FrameAcceptanceReporting WITH
  SeqNumbers <- 0..Modulus - 1, WaitQueueCap <- 1, SentQueueCap <- FarmSentCap,
  UInt16 <- 65536, FarmBBound <- 0, farmBCount <- 0, waitQueue <- <<>>

CopInit ==
  /\ Fop!Init /\ received = 0
  /\ Farm!Init
  /\ uplink = {} /\ downlink = {}
  /\ payload = [f \in Slots |-> 0] /\ made = 0
  /\ handed = <<>> /\ delivered = <<>> /\ confirmed = {} /\ vouched = {}
  /\ orderly = TRUE

----------------------------------------------------------------------------
(* The ground.                                                             *)

\* The frame that FOP gave a new number in this step, if any.
Numbered ==
  IF fop'.vs = fop.vs THEN <<>> ELSE <<payload[fop'.sent[Len(fop'.sent)]]>>

\* The frames that FOP marked as acknowledged in this step.
Acknowledged ==
  {payload[f] : f \in {g \in Slots : fop'.frames[g].ack /\ ~fop.frames[g].ack}}

\* No frame is in two places in and before FOP.  It is when the second storeOut
\* of Virtual Channel Generation fails, and when a slot is used again that the
\* sent queue still points at.
OnePlace(q, u) ==
  LET all == u \o q.wait \o q.sent
  IN  \A i, j \in DOMAIN all : all[i] = all[j] => i = j

\* A step of FOP that makes no frame and in which no frame is acknowledged by hand.
Ground ==
  /\ handed' = handed \o Numbered
  /\ confirmed' = confirmed \cup Acknowledged
  /\ orderly' = OnePlace(fop', unprocessed')
  /\ UNCHANGED <<farmVars, uplink, downlink, payload, made, delivered, vouched>>

MappRequestTxTC(f) ==
  /\ made < MaxFrames
  /\ Fop!MappRequestTxTC("AD", f)
  /\ made' = made + 1
  /\ payload' = [payload EXCEPT ![f] = made + 1]
  /\ orderly' = OnePlace(fop', unprocessed')
  /\ UNCHANGED <<received, farmVars, uplink, downlink, handed, delivered, confirmed, vouched>>

\* The services and directives of the user.
FopService ==
  /\ \/ Fop!VcGenerationRequestTxTC
     \/ Fop!TransmitAdFrameRequest
     \/ Fop!PushSentQueue
     \/ Fop!ClearAcknowledgedFrames
     \/ Fop!InitiateAd \/ Fop!InitiateAdUnlock
     \/ Fop!TerminateAdService \/ Fop!ResumeAdService
     \/ Fop!SetFopWidth \/ Fop!SetTransmissionLimit
  /\ Ground
  /\ UNCHANGED received

\* acknowledgeFrame: the user's word for it that frame n has arrived.
AcknowledgeFrame(n) ==
  /\ Fop!AcknowledgeFrameRequest(n)
  /\ vouched' = vouched \cup Acknowledged
  /\ UNCHANGED <<received, farmVars, uplink, downlink, payload, made, handed, delivered,
                 confirmed, orderly>>

\* allFramesGenerationRequestTxTC, and the frame is sent.  Its octets are read
\* through the pointer in the list.  A frame that FOP has not numbered goes out,
\* too, when it was stored although FOP rejected it or kept it waiting.
AllFramesGenerationRequestTxTC ==
  /\ Fop!AllFramesGenerationRequestTxTC
  /\ LET f == Head(fop.out)
     IN  /\ uplink' = uplink \cup {[ns |-> fop.frames[f].ns, payload |-> payload[f]]}
         /\ orderly' = \E i \in DOMAIN handed : handed[i] = payload[f]
  /\ UNCHANGED <<received, farmVars, downlink, payload, made, handed, delivered, confirmed,
                 vouched>>

\* What FOP reads of a CLCW; with the lockout flag it reads nothing else.
AsReport(c) ==
  [lockout |-> c.lockout, wait |-> c.wait /\ ~c.lockout,
   retransmit |-> c.retransmit /\ ~c.lockout, report |-> c.report]

\* allFramesReceptionRequestRxTM on a TM frame with the CLCW c.
AllFramesReceptionRequestRxTM(c) ==
  /\ received < RxCap
  /\ Fop!ClcwArrives(AsReport(c))
  /\ received' = received + 1
  /\ Ground

\* packetExtractionRxTM refuses when the list is full.
PacketExtractionRxTM ==
  /\ received \in 1..RxCap - 1
  /\ received' = received - 1
  /\ UNCHANGED <<fopVars, farmVars, uplink, downlink, history>>

----------------------------------------------------------------------------
(* On board.                                                               *)

\* A frame arrives and vcReceptionRxTC passes it to FARM and builds the CLCW.
VcReceptionRxTC(x) ==
  LET f == [type |-> "AD", ns |-> x.ns]
  IN  /\ Farm!E1(f) \/ Farm!E2(f) \/ Farm!E3(f) \/ Farm!E5(f) \/ Farm!Ignored(f)
      /\ downlink' = downlink \cup
           {NewClcw(lockout', wait', retransmit', 0, receiverFrameSeqNumber')}
      /\ delivered' = IF sentQueue' = sentQueue THEN delivered
                      ELSE Append(delivered, x.payload)
      /\ UNCHANGED <<fopVars, received, uplink, payload, made, handed, confirmed, vouched,
                     orderly>>

CopNext ==
  /\ orderly
  /\ \/ \E f \in Slots : MappRequestTxTC(f)
     \/ FopService
     \/ \E n \in Fop!SeqNumbers : AcknowledgeFrame(n)
     \/ AllFramesGenerationRequestTxTC
     \/ \E c \in downlink : AllFramesReceptionRequestRxTM(c)
     \/ PacketExtractionRxTM
     \/ \E x \in uplink : VcReceptionRxTC(x)

CopSpec == CopInit /\ [][CopNext]_copVars

----------------------------------------------------------------------------
(* Properties.                                                             *)

Delivery == INSTANCE InOrderDelivery WITH Payloads <- 1..MaxFrames

\* The two ends and the medium between them implement in-order delivery: FARM
\* takes the frames in the order in which FOP numbered them, each once and with no
\* gap, and no CLCW makes FOP count a frame as acknowledged that FARM has not taken;
\* what the user acknowledges himself is at least a frame that FOP has numbered.
\* (the numbers of transmitAdFrame, E1 of FARM, acknowledgePreviousFrames)
ImplementsDelivery == Delivery!DeliverySpec

\* However late the frames and reports, NN(R) <= V(R) <= V(S): FOP never believes
\* the receiver further than it is, and the receiver never expects a number past
\* the next one.  (old CLCWs fall behind NN(R); E13 resets FOP, yet
\* acknowledgePreviousFrames takes over whatever number the report has)
NumbersAgree ==
  fop.nnr <= receiverFrameSeqNumber /\ receiverFrameSeqNumber <= fop.vs

\* What inc/FrameOperationProcedure.hpp:79-80 says of V(S): it is the number put
\* into the next AD frame transmitted.  So every AD frame on the link carries
\* the number that FOP gave it.  (vcGenerationRequestTxTC stores the frame for
\* transmission when FOP has rejected it or only queued it, too)
SentUnderOwnNumber ==
  \A x \in uplink : x.ns < Len(handed) /\ handed[x.ns + 1] = x.payload
=============================================================================
