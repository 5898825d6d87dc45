----------------------- MODULE FrameOperationProcedure -----------------------
(***************************************************************************)
(* FOP-1 of one virtual channel (src/FrameOperationProcedure.cpp) with the *)
(* services of src/CCSDSServiceChannel.cpp that call it: Virtual Channel   *)
(* Generation, the directives, and the CLCWs that TM reception brings.     *)
(*                                                                         *)
(* Frames live in the list masterCopyTxTC; all other lists hold pointers   *)
(* to its elements.  A pointer is a slot of that list's node pool, which   *)
(* may hand out any free slot, so that a pointer kept after its frame is   *)
(* erased may come to point at a newer frame.                              *)
(*                                                                         *)
(* adAccept, adReject, bcAccept, bcReject, bdAccept, bdReject,             *)
(* lookForDirective, invalidClcwArrival, transmitBdFrame and               *)
(* initiateBcRetransmission are private and have no caller.  Without them  *)
(* bcOut and bdOut stay READY, and adOut is READY only until the first AD  *)
(* frame is sent, so that the first loop of lookForFdu never finds one.    *)
(***************************************************************************)
EXTENDS Integers, FiniteSets, SequencesExt

CONSTANTS
  Modulus,         \* 2^8: N(S), V(S) and NN(R) are uint8_t
  WaitQueueCap,    \* MaxReceivedTxTcInWaitQueue (10)
  SentQueueCap,    \* MaxReceivedTxTcInFOPSentQueue (10)
  UnprocessedCap,  \* MaxReceivedUnprocessedTxTcInVirtBuffer (6)
  OutCap,          \* MaxReceivedTxTcInMasterBuffer (100)
  Slots,           \* the nodes of masterCopyTxTC (MaxTxInMasterChannel of them, 200)
  Services,        \* the service types of the packets that the user stores
  Limits,          \* the transmission limits that are configured or set
  Widths,          \* the FOP sliding window widths that are set
  Numbers          \* the values of SetV(S) and InitiateADwithSetV(R)

ASSUME FopAssumption ==
  /\ Modulus \in Nat /\ Modulus > 1
  /\ WaitQueueCap \in Nat /\ SentQueueCap \in Nat /\ UnprocessedCap \in Nat
  /\ OutCap \in Nat
  /\ SentQueueCap < Modulus   \* no number is twice in the sent queue
  /\ Services \subseteq {"AD", "BD", "BC"}
  /\ Limits \subseteq 0..255
  /\ Widths \subseteq 0..Modulus - 1 /\ Numbers \subseteq 0..Modulus - 1

VARIABLES
  fop,          \* what the procedures of FOP-1 change, see FopRecord
  unprocessed,  \* unprocessedFrameListBufferVcCopyTxTC
  limit,        \* transmissionLimit
  width,        \* fopSlidingWindow
  intact        \* history: no frame was ever lost or in two places, see Placed

vars == <<fop, unprocessed, limit, width, intact>>

SeqNumbers == 0..Modulus - 1

FOPState == {"ACTIVE", "RETRANSMIT_WITHOUT_WAIT", "RETRANSMIT_WITH_WAIT",
             "INITIALIZING_WITHOUT_BC_FRAME", "INITIALIZING_WITH_BC_FRAME", "INITIAL"}

\* The states in which frames are on their way.
Running == {"ACTIVE", "RETRANSMIT_WITHOUT_WAIT", "RETRANSMIT_WITH_WAIT"}

\* A frame: its type, N(S), and the flags ack and toBeRetransmitted.
Frames == [type : {"AD", "BD", "BC"}, ns : SeqNumbers, ack : BOOLEAN, retx : BOOLEAN]

FopRecord ==
  [state : FOPState,
   vs    : SeqNumbers,           \* V(S)
   nnr   : SeqNumbers,           \* NN(R)
   count : 0..255,               \* transmissionCount
   wait  : Seq(Slots),           \* waitQueueFOP
   sent  : Seq(Slots),           \* sentQueueFOP
   out   : Seq(Slots),           \* outFramesBeforeAllFramesGenerationListTxTC
   master : SUBSET Slots,        \* the nodes of masterCopyTxTC in use
   frames : [Slots -> Frames]]   \* what the nodes hold, freed ones too

\* The reports that a CLCW can carry; nothing checks them on the way here.  With
\* the lockout flag the two others are not read.
Clcws ==
  {c \in [lockout : BOOLEAN, wait : BOOLEAN, retransmit : BOOLEAN, report : SeqNumbers] :
     c.lockout => ~c.wait /\ ~c.retransmit}

Init ==
  /\ fop = [state |-> "INITIAL", vs |-> 0, nnr |-> 0, count |-> 1,
            wait |-> <<>>, sent |-> <<>>, out |-> <<>>, master |-> {},
            frames |-> [f \in Slots |->
                          [type |-> "AD", ns |-> 0, ack |-> FALSE, retx |-> FALSE]]]
  /\ unprocessed = <<>>
  /\ limit \in Limits
  /\ width = Modulus - 1
  /\ intact = TRUE

----------------------------------------------------------------------------
(* The procedures of FOP-1, as functions from the record before a call to  *)
(* the record after it.                                                    *)

\* storeOut: the callers inside FOP ignore that a full list refuses.
StoreOut(q, f) ==
  IF Len(q.out) < OutCap THEN [q EXCEPT !.out = Append(@, f)] ELSE q

\* purgeSentQueue and purgeWaitQueue: the frames themselves stay in masterCopyTxTC.
PurgeQueues(q) == [q EXCEPT !.sent = <<>>, !.wait = <<>>]

\* alert, with the change to INITIAL that follows every call of it.
Alert(q) == [PurgeQueues(q) EXCEPT !.state = "INITIAL"]

\* Slip: initialize forgets the wait queue.
InitializeSentOnly(q, next) == [q EXCEPT !.sent = <<>>, !.count = 1, !.state = next]

\* initialize, called in INITIAL, and the state that follows it.
Initialize(q, next) == [PurgeQueues(q) EXCEPT !.count = 1, !.state = next]

\* Slip: V(S) does not move.
TransmitSameNumber(q) ==
  IF Len(q.sent) = SentQueueCap \/ q.wait = <<>> THEN q
  ELSE StoreOut([q EXCEPT !.wait = Tail(q.wait), !.sent = Append(@, Head(q.wait)),
                          !.frames[Head(q.wait)].ns = q.vs], Head(q.wait))

\* Slip: the sent queue's room is not tested.
TransmitUnchecked(q) ==
  IF q.wait = <<>> THEN q
  ELSE StoreOut([q EXCEPT !.wait = Tail(q.wait), !.sent = Append(@, Head(q.wait)),
                          !.frames[Head(q.wait)].ns = q.vs, !.vs = (@ + 1) % Modulus],
                Head(q.wait))

\* transmitAdFrame: a frame marked for retransmission takes V(S) without
\* moving it on.
TransmitAdFrame(q) ==
  IF Len(q.sent) = SentQueueCap THEN q
  ELSE
    LET counted == IF q.sent = <<>> THEN [q EXCEPT !.count = 1] ELSE q
        f == Head(q.wait)
    IN  IF q.wait = <<>> THEN counted
        ELSE StoreOut(
               [counted EXCEPT
                  !.frames[f].ns = q.vs,
                  !.frames[f].retx = FALSE,
                  !.vs = IF q.frames[f].retx THEN @ ELSE (@ + 1) % Modulus,
                  !.sent = Append(@, f),
                  !.wait = Tail(@)], f)

\* lookForFdu.  The window test reads N(S) of a frame that has none yet.
LookForFdu(q) ==
  IF /\ q.wait # <<>>
     /\ q.frames[Head(q.wait)].type = "AD"
     /\ q.frames[Head(q.wait)].ns < q.nnr + width
  THEN TransmitAdFrame(q) ELSE q

\* initiateAdRetransmission
InitiateAdRetransmission(q) ==
  [q EXCEPT
     !.count = IF @ = 255 THEN 0 ELSE @ + 1,
     !.frames = [f \in Slots |->
        [q.frames[f] EXCEPT
           !.retx = @ \/ (f \in ToSet(q.sent) /\ q.frames[f].type = "AD")]]]

\* Slip: the frames go, the count stays.
RemoveKeepsCount(q) == [q EXCEPT !.master = {f \in @ : ~q.frames[f].ack}]

\* removeAcknowledgedFrames erases acknowledged frames from the master copies,
\* and from them alone.
RemoveAcknowledgedFrames(q) ==
  [q EXCEPT !.master = {f \in @ : ~q.frames[f].ack}, !.count = 1]

\* acknowledgeFrame for every number in ns.
Acknowledge(q, ns) ==
  [q EXCEPT !.frames = [f \in Slots |->
     [q.frames[f] EXCEPT !.ack = @ \/ (f \in ToSet(q.sent) /\ q.frames[f].ns \in ns)]]]

\* Slip: no thought for numbers that have wrapped.
AcknowledgeUnwrapped(q, report) ==
  [Acknowledge(q, {n \in SeqNumbers : n < report}) EXCEPT !.nnr = report]

\* acknowledgePreviousFrames.  V(S) is read after the event has been handled.
AcknowledgePreviousFrames(q, report) ==
  [Acknowledge(q, {n \in SeqNumbers : n < report \/ n > q.vs}) EXCEPT !.nnr = report]

\* Slip: in RETRANSMIT_WITH_WAIT the frame goes out like in the others.
TransferFduNoWait(q, f) ==
  IF q.frames[f].type = "AD"
  THEN LET queued == [q EXCEPT !.wait = Append(@, f)]
       IN  IF q.state \in Running /\ Len(q.wait) < WaitQueueCap THEN LookForFdu(queued) ELSE q
  ELSE StoreOut(q, f)

\* transferFdu on frame f.  bypassFlag() reads the bit that marks BC frames;
\* BD frames take the branch of transmitBcFrame.
TransferFdu(q, f) ==
  IF q.frames[f].type = "AD"
  THEN LET queued == [q EXCEPT !.wait = Append(@, f)]
       IN  IF Len(q.wait) = WaitQueueCap THEN q
           ELSE IF q.state \in {"ACTIVE", "RETRANSMIT_WITHOUT_WAIT"} THEN LookForFdu(queued)
           ELSE IF q.state = "RETRANSMIT_WITH_WAIT" THEN queued
           ELSE q
  ELSE IF q.frames[f].type = "BD"
  THEN StoreOut([q EXCEPT !.frames[f].retx = FALSE, !.count = 1], f)
  ELSE StoreOut(q, f)

\* transferFdu returns ACCEPT.
Accepted(q, f) ==
  q.frames[f].type = "AD" => Len(q.wait) < WaitQueueCap /\ q.state \in Running

----------------------------------------------------------------------------
(* Services of the virtual channel.                                        *)

\* A new frame in slot f.  segmentationTC and blockingTC leave octet 4, the place of
\* N(S), 0.
NewFrame(q, type, f) ==
  [q EXCEPT
     !.master = @ \cup {f},
     !.frames[f] = [type |-> type, ns |-> 0, ack |-> FALSE, retx |-> FALSE]]

\* mappRequestTxTC stores one frame.  How it is made, and what happens where there
\* is no room, is the matter of TcTransmission.  The model stops making frames once
\* a waiting frame has been freed: what a read through its pointer returns then
\* depends on the reuse of pool memory.
MappRequestTxTC(type, f) ==
  /\ Len(fop.wait) < WaitQueueCap
  /\ Len(unprocessed) < UnprocessedCap
  /\ ToSet(fop.wait) \cup ToSet(unprocessed) \subseteq fop.master
  /\ f \notin fop.master
  /\ fop' = NewFrame(fop, type, f)
  /\ unprocessed' = Append(unprocessed, f)
  /\ UNCHANGED <<limit, width>>

\* vcGenerationRequestTxTC: FOP, then the frame is stored for All Frames
\* Generation whatever FOP answered; it leaves the list only when FOP accepted
\* it and the second storeOut found room.
VcGenerationRequestTxTC ==
  /\ unprocessed # <<>>
  /\ Len(fop.out) < OutCap
  /\ LET f == Head(unprocessed)
         q == TransferFdu(fop, f)
     IN  /\ fop' = StoreOut(q, f)
         /\ unprocessed' = IF Accepted(fop, f) /\ Len(q.out) < OutCap
                           THEN Tail(unprocessed) ELSE unprocessed
  /\ UNCHANGED <<limit, width>>

\* allFramesGenerationRequestTxTC, as far as FOP is concerned.
AllFramesGenerationRequestTxTC ==
  /\ fop.out # <<>>
  /\ fop' = [fop EXCEPT !.out = Tail(@)]
  /\ UNCHANGED <<unprocessed, limit, width>>

\* The calls that change nothing but FOP's record.
Call(q) ==
  /\ fop' = q
  /\ UNCHANGED <<unprocessed, limit, width>>

TransmitAdFrameRequest == Call(TransmitAdFrame(fop))

PushSentQueue == fop.sent # <<>> /\ Call(StoreOut(fop, Head(fop.sent)))

AcknowledgeFrameRequest(ns) == Call(Acknowledge(fop, {ns}))

ClearAcknowledgedFrames == Call(RemoveAcknowledgedFrames(fop))

----------------------------------------------------------------------------
(* validClcwArrival: the events E1 to E14 and their effect, followed in    *)
(* allFramesReceptionRequestRxTM by acknowledgePreviousFrames for every    *)
(* report, in every state.                                                 *)

\* FOP becomes q if its state is one of S, and then acknowledges.
React(c, S, q) ==
  Call(AcknowledgePreviousFrames(IF fop.state \in S THEN q ELSE fop, c.report))

To(q, state) == [q EXCEPT !.state = state]

Initializing == {"INITIALIZING_WITHOUT_BC_FRAME", "INITIALIZING_WITH_BC_FRAME"}

ReportsVs(c) == ~c.lockout /\ c.report = fop.vs
InWindow(c) == ~c.lockout /\ c.report < fop.vs /\ c.report >= fop.nnr
Acks(c) == c.report # fop.nnr

\* Nothing new: FOP was waiting for this report, or retransmits needlessly.
E1(c) ==
  /\ ~c.retransmit /\ ~c.wait /\ ~Acks(c)
  /\ \/ React(c, Running \ {"ACTIVE"}, Alert(fop)) /\ fop.state \notin Initializing
     \/ React(c, Initializing, To(fop, "ACTIVE")) /\ fop.state \in Initializing

\* E2 and E6: frames are acknowledged.
E2(c) ==
  /\ ~c.retransmit /\ ~c.wait /\ Acks(c)
  /\ React(c, Running, To(LookForFdu(RemoveAcknowledgedFrames(fop)), "ACTIVE"))

E3(c) ==
  /\ ~c.retransmit /\ c.wait
  /\ React(c, FOPState \ {"INITIAL"}, Alert(fop))

E4(c) ==
  /\ c.retransmit
  /\ React(c, Running \cup {"INITIALIZING_WITHOUT_BC_FRAME"}, Alert(fop))

E5(c) ==
  /\ ~c.wait /\ ~Acks(c)
  /\ React(c, Running \ {"ACTIVE"}, Alert(fop))

E6(c) ==
  /\ ~c.wait /\ Acks(c)
  /\ React(c, Running, To(LookForFdu(RemoveAcknowledgedFrames(fop)), "ACTIVE"))

E7(c) ==
  /\ c.wait
  /\ React(c, Running, Alert(fop))

\* The limit allows no retransmission.
E101(c) ==
  /\ limit = 1 /\ Acks(c)
  /\ React(c, Running, Alert(RemoveAcknowledgedFrames(fop)))

E102(c) ==
  /\ limit = 1 /\ ~Acks(c)
  /\ React(c, Running, Alert(fop))

\* Slip: the retransmission is counted on top of the old frame's count.
E8KeepsCount(c) ==
  /\ limit > 1 /\ Acks(c) /\ ~c.wait
  /\ React(c, Running, To(LookForFdu(InitiateAdRetransmission(RemoveKeepsCount(fop))),
                          "RETRANSMIT_WITHOUT_WAIT"))

E8(c) ==
  /\ limit > 1 /\ Acks(c) /\ ~c.wait
  /\ React(c, Running,
           To(LookForFdu(InitiateAdRetransmission(RemoveAcknowledgedFrames(fop))),
              "RETRANSMIT_WITHOUT_WAIT"))

E9(c) ==
  /\ limit > 1 /\ Acks(c) /\ c.wait
  /\ React(c, Running, To(RemoveAcknowledgedFrames(fop), "RETRANSMIT_WITH_WAIT"))

E10(c) ==
  /\ limit > 1 /\ ~Acks(c) /\ ~c.wait
  /\ fop.count < limit
  /\ React(c, {"ACTIVE", "RETRANSMIT_WITH_WAIT"},
           To(LookForFdu(InitiateAdRetransmission(fop)), "RETRANSMIT_WITHOUT_WAIT"))

\* E11 below the limit and E103 at it do the same.
E11(c) ==
  /\ limit > 1 /\ ~Acks(c) /\ c.wait
  /\ React(c, {"ACTIVE", "RETRANSMIT_WITHOUT_WAIT"}, To(fop, "RETRANSMIT_WITH_WAIT"))

E12(c) ==
  /\ limit > 1 /\ ~Acks(c) /\ ~c.wait
  /\ fop.count >= limit
  /\ React(c, {"ACTIVE", "RETRANSMIT_WITH_WAIT"}, To(fop, "RETRANSMIT_WITHOUT_WAIT"))

\* A limit of 0 has no event for a negative report.
LimitZero(c) ==
  /\ limit = 0
  /\ React(c, {}, fop)

E13(c) ==
  /\ ~c.lockout /\ ~ReportsVs(c) /\ ~InWindow(c)
  /\ React(c, Running \cup {"INITIALIZING_WITHOUT_BC_FRAME"}, Alert(fop))

E14(c) ==
  /\ c.lockout
  /\ React(c, Running \cup {"INITIALIZING_WITHOUT_BC_FRAME"}, Alert(fop))

\* The report is V(S): everything has arrived.
AtVs(c) == ReportsVs(c) /\ (E1(c) \/ E2(c) \/ E3(c) \/ E4(c))

\* The report lies between NN(R) and V(S).
BeforeVs(c) ==
  /\ InWindow(c)
  /\ \/ ~c.retransmit /\ (E5(c) \/ E6(c) \/ E7(c))
     \/ /\ c.retransmit
        /\ \/ E101(c) \/ E102(c) \/ E8(c) \/ E9(c) \/ E10(c) \/ E11(c) \/ E12(c)
           \/ LimitZero(c)

ClcwArrives(c) == AtVs(c) \/ BeforeVs(c) \/ E13(c) \/ E14(c)

ValidClcwArrival == \E c \in Clcws : ClcwArrives(c)

----------------------------------------------------------------------------
(* The directives of the user.  setT1Initial, setTimeoutType and           *)
(* invalidDirective set what nothing reads: no timer is ever started.      *)

\* initiateAdNoClcw and initiateAdClcw (E23, E24); InitiateADwithCLCW does
\* not wait for a CLCW either.
InitiateAd ==
  fop.state = "INITIAL" /\ Call(Initialize(fop, "ACTIVE"))

\* initiateAdUnlock (E25); the Unlock frame itself is a TODO in the code.
InitiateAdUnlock ==
  fop.state = "INITIAL" /\ Call(Initialize(fop, "INITIALIZING_WITH_BC_FRAME"))

\* initiateAdVr (E27); so is the Set V(R) frame.
InitiateAdVr(v) ==
  /\ fop.state = "INITIAL"
  /\ Call([Initialize(fop, "INITIALIZING_WITH_BC_FRAME") EXCEPT !.vs = v, !.nnr = v])

TerminateAdService == fop.state # "INITIAL" /\ Call(Alert(fop))

\* resumeAdService: suspendState is INITIAL from the constructor on, so that
\* this drops to INITIAL with the queues as they are.
ResumeAdService == fop.state # "INITIAL" /\ Call(To(fop, "INITIAL"))

\* setVs (E35); its test of suspendState always holds.
SetVs(v) ==
  /\ fop.state = "INITIAL"
  /\ Call([fop EXCEPT !.vs = v, !.nnr = v])

\* setFopWidth and setTransmissionLimit, in every state (E36, E38).
SetFopWidth ==
  /\ width' \in Widths
  /\ UNCHANGED <<fop, unprocessed, limit>>

SetTransmissionLimit ==
  /\ limit' \in Limits
  /\ UNCHANGED <<fop, unprocessed, width>>

Directive ==
  \/ InitiateAd \/ InitiateAdUnlock
  \/ \E v \in Numbers : InitiateAdVr(v) \/ SetVs(v)
  \/ TerminateAdService \/ ResumeAdService
  \/ SetFopWidth \/ SetTransmissionLimit

----------------------------------------------------------------------------
\* Every frame of the lists before and in FOP is a live master copy, in one
\* place only.
Placed(q, u) ==
  LET all == u \o q.wait \o q.sent
  IN  /\ ToSet(all) \subseteq q.master
      /\ \A i, j \in DOMAIN all : all[i] = all[j] => i = j

\* intact stays up until a frame is misplaced, resume takes FOP out of service
\* with frames in it, or the user acknowledges a frame without a CLCW.
Observe ==
  intact' = (/\ intact
             /\ Placed(fop', unprocessed')
             /\ fop'.state = "INITIAL" => fop'.wait = <<>> /\ fop'.sent = <<>>)

\* Every step of FOP but the making of frames.
Handle ==
  \/ VcGenerationRequestTxTC
  \/ AllFramesGenerationRequestTxTC
  \/ TransmitAdFrameRequest
  \/ PushSentQueue
  \/ ClearAcknowledgedFrames
  \/ ValidClcwArrival
  \/ Directive

Next ==
  \/ /\ Handle \/ \E type \in Services, f \in Slots : MappRequestTxTC(type, f)
     /\ Observe
  \/ \E n \in SeqNumbers : AcknowledgeFrameRequest(n) /\ intact' = FALSE

Spec == Init /\ [][Next]_vars

----------------------------------------------------------------------------
(* Properties.                                                             *)

\* Every variable has its type and no list outgrows its capacity (ETL lists
\* throw when they do).
TypeOK ==
  /\ fop \in FopRecord
  /\ Len(fop.wait) <= WaitQueueCap /\ Len(fop.sent) <= SentQueueCap
  /\ Len(fop.out) <= OutCap
  /\ Len(unprocessed) <= UnprocessedCap
  /\ unprocessed \in Seq(Slots)
  /\ limit \in Limits
  /\ width \in SeqNumbers
  /\ intact \in BOOLEAN

\* The sent queue carries consecutive numbers that end just below V(S), through
\* all reports, alerts and directives.  (transmitAdFrame numbers a frame and
\* moves V(S); initiateAdVr and setVs move V(S) alone)
SentNumberedUpToVs ==
  intact => \A i \in DOMAIN fop.sent :
     fop.frames[fop.sent[i]].ns = (fop.vs - (Len(fop.sent) + 1 - i)) % Modulus

\* Reports acknowledge the sent queue from its front: behind an unacknowledged
\* frame there is no acknowledged one, so that frames are freed oldest first,
\* also where the numbers wrap.  (acknowledgePreviousFrames compares octets)
AckedFromFront ==
  intact => \A i, j \in DOMAIN fop.sent :
     i < j /\ fop.frames[fop.sent[j]].ack => fop.frames[fop.sent[i]].ack

\* A retransmission is counted only up to the transmission limit in force.
\* (E10 tests the limit; E8 does not and relies on the reset before it)
RetransmitsWithinLimit ==
  [][fop'.count > fop.count => fop'.count <= limit]_vars

\* The AD service starts with empty queues, whatever resume left behind.
\* (initialize, against the purges of alert)
StartsEmpty ==
  [][fop.state = "INITIAL" /\ fop'.state # "INITIAL" =>
       fop'.wait = <<>> /\ fop'.sent = <<>>]_vars

\* While the receiver has no room (RETRANSMIT_WITH_WAIT) no frame goes to the
\* sent queue, unless the user calls transmitAdFrame or a CLCW ends the wait.
\* (transferFdu and the events that call lookForFdu)
WaitSendsNothing ==
  [][fop.state = "RETRANSMIT_WITH_WAIT" /\ fop'.state = "RETRANSMIT_WITH_WAIT"
       => fop'.sent = fop.sent \/ TransmitAdFrameRequest]_vars

\* What FrameOperationProcedure.hpp says of removeAcknowledgedFrames: it
\* removes them from the sent queue.  So the sent queue holds live frames only.
SentFramesLive == ToSet(fop.sent) \subseteq fop.master

\* What FrameOperationProcedure.hpp says of acknowledgePreviousFrames: it
\* acknowledges the frames before the report.  So an acknowledged frame of the
\* sent queue lies behind NN(R), counted back from V(S).
AckedBelowNnr ==
  intact => \A i \in DOMAIN fop.sent :
     LET f == fop.frames[fop.sent[i]]
     IN  f.ack => (fop.vs - f.ns) % Modulus > (fop.vs - fop.nnr) % Modulus

\* What FrameOperationProcedure.hpp says of the sliding window: it limits the
\* frames transmitted ahead of the last acknowledged one.  So a frame is sent
\* only where at most that many are then unacknowledged.
WithinWindow ==
  [][fop'.sent # fop.sent =>
       Cardinality({f \in ToSet(fop'.sent) : ~fop'.frames[f].ack}) <= width]_vars
=============================================================================
