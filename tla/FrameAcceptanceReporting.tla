---------------------- MODULE FrameAcceptanceReporting ----------------------
(***************************************************************************)
(* FARM-1 of one virtual channel (src/FrameAcceptanceReporting.cpp): it    *)
(* takes the received TC frames off the wait queue one at a time, accepts  *)
(* the Type-AD frame it expects next, and keeps the flags that the CLCW    *)
(* reports to the transmitter.                                             *)
(***************************************************************************)
EXTENDS Integers, Sequences

CONSTANTS
  SeqNumbers,        \* the numbers N(S) that received AD frames may carry
  WaitQueueCap,      \* MaxReceivedRxTcInWaitQueue (10)
  SentQueueCap,      \* MaxReceivedRxTcInFOPSentQueue (10)
  PositiveWinWidth,  \* farmPositiveWinWidth, fixed when the channel is added
  UInt16,            \* 2^16: V(R) and farmBCount are uint16_t
  FarmBBound         \* bound on farmBCount (the code's counter is 16 bits wide)

ASSUME FarmAssumption ==
  /\ SeqNumbers \subseteq 0..255
  /\ WaitQueueCap \in Nat \ {0}
  /\ SentQueueCap \in 1..254
  /\ PositiveWinWidth \in 0..255
  /\ UInt16 \in Nat /\ UInt16 > 255
  /\ FarmBBound \in 0..UInt16 - 1

VARIABLES
  state,                   \* FARMState
  lockout, wait, retransmit,  \* the flags, READY as TRUE
  receiverFrameSeqNumber,  \* V(R)
  farmBCount,              \* FARM-B counter
  waitQueue,               \* frames received, before FARM
  sentQueue                \* frames FARM accepted; nothing ever pops it

flags == <<lockout, wait, retransmit>>
vars == <<state, flags, receiverFrameSeqNumber, farmBCount, waitQueue, sentQueue>>

FARMState == {"OPEN", "WAIT", "LOCKOUT"}

(***************************************************************************)
(* A received frame, as far as FARM looks at it: the service type and N(S) *)
(* of an AD frame; for BD and BC the bit ctrlAndCmdFlag reads; for BC also *)
(* the bit controlWordType reads and the command in the data field.  Type, *)
(* flag and word are different bits of the first header octet, so every    *)
(* combination can be received.                                            *)
(***************************************************************************)
ADFrames == [type : {"AD"}, ns : SeqNumbers]
BCFrames == [type : {"BC"}, ctrl : BOOLEAN, word : BOOLEAN,
             command : {"unlock", "setVr0", "other"}]
Frames == ADFrames \cup BCFrames
            \cup [type : {"BD"}, ctrl : BOOLEAN] \cup [type : {"AC"}]

Init ==
  /\ state = "OPEN"
  /\ lockout = FALSE /\ wait = FALSE /\ retransmit = FALSE
  /\ receiverFrameSeqNumber = 0
  /\ farmBCount = 0
  /\ waitQueue = <<>>
  /\ sentQueue = <<>>

----------------------------------------------------------------------------
(* frameArrives(): what it does with the frame f it took off the queue.    *)

\* Slip: E1 without the test of the sent queue's room and of the state.
E1NoChecks(f) ==
  /\ f.type = "AD" /\ f.ns = receiverFrameSeqNumber
  /\ sentQueue' = Append(sentQueue, f)
  /\ receiverFrameSeqNumber' = (receiverFrameSeqNumber + 1) % UInt16
  /\ retransmit' = FALSE
  /\ UNCHANGED <<state, lockout, wait, farmBCount>>

\* Slip: E1 accepts any number up to V(R), so a repetition passes.
E1Repetition(f) ==
  /\ f.type = "AD" /\ f.ns <= receiverFrameSeqNumber
  /\ Len(sentQueue) < SentQueueCap
  /\ state = "OPEN"
  /\ sentQueue' = Append(sentQueue, f)
  /\ receiverFrameSeqNumber' = (receiverFrameSeqNumber + 1) % UInt16
  /\ retransmit' = FALSE
  /\ UNCHANGED <<state, lockout, wait, farmBCount>>

\* E1: the expected frame, with room for it, in OPEN.
E1(f) ==
  /\ f.type = "AD" /\ f.ns = receiverFrameSeqNumber
  /\ Len(sentQueue) < SentQueueCap
  /\ state = "OPEN"
  /\ sentQueue' = Append(sentQueue, f)
  /\ receiverFrameSeqNumber' = (receiverFrameSeqNumber + 1) % UInt16
  /\ retransmit' = FALSE
  /\ UNCHANGED <<state, lockout, wait, farmBCount>>

\* Slip: E2 one frame too early.
E2Early(f) ==
  /\ f.type = "AD" /\ f.ns = receiverFrameSeqNumber
  /\ Len(sentQueue) >= SentQueueCap - 1
  /\ state = "OPEN"
  /\ retransmit' = TRUE
  /\ wait' = TRUE
  /\ state' = "WAIT"
  /\ UNCHANGED <<lockout, receiverFrameSeqNumber, farmBCount, sentQueue>>

\* E2: the expected frame, but the sent queue is full.
E2(f) ==
  /\ f.type = "AD" /\ f.ns = receiverFrameSeqNumber
  /\ Len(sentQueue) = SentQueueCap
  /\ state = "OPEN"
  /\ retransmit' = TRUE
  /\ wait' = TRUE
  /\ state' = "WAIT"
  /\ UNCHANGED <<lockout, receiverFrameSeqNumber, farmBCount, sentQueue>>

\* E3: ahead of V(R) but inside the positive window.
E3(f) ==
  /\ f.type = "AD"
  /\ f.ns > receiverFrameSeqNumber
  /\ f.ns <= receiverFrameSeqNumber + PositiveWinWidth - 1
  /\ state = "OPEN"
  /\ retransmit' = TRUE
  /\ UNCHANGED <<state, lockout, wait, receiverFrameSeqNumber, farmBCount, sentQueue>>

\* Slip: the lockout flag is not raised.
E5NoFlag(f) ==
  /\ f.type = "AD"
  /\ f.ns > receiverFrameSeqNumber
  /\ f.ns > receiverFrameSeqNumber + PositiveWinWidth - 1
  /\ state' = "LOCKOUT"
  /\ UNCHANGED <<lockout, wait, retransmit, receiverFrameSeqNumber, farmBCount, sentQueue>>

\* E5: beyond the positive window.  The conditional operator binds weaker
\* than `<` and `&&`, so the second half of the code's condition always holds.
E5(f) ==
  /\ f.type = "AD"
  /\ f.ns > receiverFrameSeqNumber
  /\ f.ns > receiverFrameSeqNumber + PositiveWinWidth - 1
  /\ state' = "LOCKOUT"
  /\ lockout' = TRUE
  /\ UNCHANGED <<wait, retransmit, receiverFrameSeqNumber, farmBCount, sentQueue>>

\* E6: a BC or BD frame whose control-and-command bit is clear.
E6(f) ==
  /\ f.type \in {"BC", "BD"} /\ ~f.ctrl
  /\ farmBCount' = (farmBCount + 1) % UInt16
  /\ UNCHANGED <<state, flags, receiverFrameSeqNumber, sentQueue>>

\* E7: Unlock.
E7(f) ==
  /\ f.type = "BC" /\ f.ctrl /\ ~f.word
  /\ f.command = "unlock"
  /\ farmBCount' = (farmBCount + 1) % UInt16
  /\ retransmit' = FALSE
  /\ wait' = IF state \in {"WAIT", "LOCKOUT"} THEN FALSE ELSE wait
  /\ lockout' = IF state = "LOCKOUT" THEN FALSE ELSE lockout
  /\ state' = "OPEN"
  /\ UNCHANGED <<receiverFrameSeqNumber, sentQueue>>

\* E8: Set V(R).  The value is read from the octet that was compared with 0.
E8(f) ==
  /\ f.type = "BC" /\ f.ctrl /\ ~f.word
  /\ f.command = "setVr0"
  /\ farmBCount' = (farmBCount + 1) % UInt16
  /\ retransmit' = FALSE
  /\ receiverFrameSeqNumber' = 0
  /\ UNCHANGED <<state, lockout, wait, sentQueue>>

\* The remaining cases reject the frame and change nothing: E1, E2 and E3
\* outside OPEN; numbers behind V(R), inside the negative window (E4) or not,
\* so that farmNegativeWidth has no effect; AC frames, BD frames with the bit
\* set and unknown commands.
AdIgnored(f) ==
  /\ f.type = "AD"
  /\ \/ f.ns = receiverFrameSeqNumber /\ state # "OPEN"
     \/ f.ns < receiverFrameSeqNumber
     \/ /\ f.ns > receiverFrameSeqNumber
        /\ f.ns <= receiverFrameSeqNumber + PositiveWinWidth - 1
        /\ state # "OPEN"

BIgnored(f) ==
  \/ f.type = "AC"
  \/ f.type = "BD" /\ f.ctrl
  \/ f.type = "BC" /\ f.ctrl /\ (f.word \/ f.command = "other")

Ignored(f) ==
  /\ AdIgnored(f) \/ BIgnored(f)
  /\ UNCHANGED <<state, flags, receiverFrameSeqNumber, farmBCount, sentQueue>>

\* frameArrives on the frame at the front of the wait queue.
FrameArrives ==
  /\ waitQueue # <<>>
  /\ waitQueue' = Tail(waitQueue)
  /\ LET f == Head(waitQueue)
     IN  \/ E1(f) \/ E2(f) \/ E3(f) \/ E5(f)
         \/ farmBCount < FarmBBound /\ (E6(f) \/ E7(f) \/ E8(f))
         \/ Ignored(f)

----------------------------------------------------------------------------
\* bufferRelease(), the signal of the higher layer that it has room again.  No
\* code in src/ calls it; TcReception composes FARM without it.
BufferRelease ==
  /\ \/ /\ state = "LOCKOUT"
        /\ state' = "OPEN"
        /\ wait' = FALSE
     \/ /\ state = "WAIT"
        /\ wait' = FALSE
        /\ UNCHANGED state
  /\ UNCHANGED <<lockout, retransmit, receiverFrameSeqNumber, farmBCount,
                 waitQueue, sentQueue>>

\* allFramesReceptionRequestRxTC hands a valid frame to the virtual channel;
\* it refuses while the wait queue is full.
Receive(f) ==
  /\ Len(waitQueue) < WaitQueueCap
  /\ waitQueue' = Append(waitQueue, f)
  /\ UNCHANGED <<state, flags, receiverFrameSeqNumber, farmBCount, sentQueue>>

Next ==
  \/ \E f \in Frames : Receive(f)
  \/ FrameArrives
  \/ BufferRelease

Spec == Init /\ [][Next]_vars

----------------------------------------------------------------------------
(* Properties.                                                             *)

\* Every variable has its type; V(R) never exceeds the frames accepted, which
\* is why the 16-bit V(R) never leaves the 8-bit range of N(S).
TypeOK ==
  /\ state \in FARMState
  /\ lockout \in BOOLEAN /\ wait \in BOOLEAN /\ retransmit \in BOOLEAN
  /\ receiverFrameSeqNumber \in 0..Len(sentQueue)
  /\ farmBCount \in 0..FarmBBound
  /\ waitQueue \in Seq(Frames) /\ Len(waitQueue) <= WaitQueueCap
  /\ sentQueue \in Seq(ADFrames) /\ Len(sentQueue) <= SentQueueCap

\* The AD frames FARM has accepted are numbered 0, 1, 2, ... without a gap or
\* a repetition; only a Set V(R) command starts again at 0.  V(R) is the
\* number after the last one, or 0.  (frameArrives, E1 and E8)
AcceptedInOrder ==
  /\ \A i \in 1..Len(sentQueue) - 1 :
        sentQueue[i + 1].ns \in {sentQueue[i].ns + 1, 0}
  /\ sentQueue # <<>> =>
        /\ sentQueue[1].ns = 0
        /\ receiverFrameSeqNumber \in {sentQueue[Len(sentQueue)].ns + 1, 0}

\* The flags the CLCW reports agree with the state: the lockout flag is up
\* exactly in LOCKOUT, the wait flag is up in WAIT and never in OPEN.
\* (frameArrives sets state and flags in different events: E2, E5, E7)
FlagsAgree ==
  /\ lockout <=> state = "LOCKOUT"
  /\ state = "WAIT" => wait
  /\ state = "OPEN" => ~wait

\* FARM refuses frames for lack of room only when it has no room: WAIT is
\* entered, and stayed in, only with a full sent queue.  (E2, E7)
WaitOnlyWhenFull == state = "WAIT" => Len(sentQueue) = SentQueueCap

\* A frame is never accepted while the flags tell the transmitter that FARM
\* is locked out or waiting.  (E1 tests the state, the CLCW shows the flags)
AcceptsOnlyWhenReportedOpen ==
  [][sentQueue' # sentQueue => ~lockout /\ ~wait]_vars
=============================================================================
