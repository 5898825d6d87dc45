----------------------------- MODULE TmReception -----------------------------
(***************************************************************************)
(* The receiving chain for TM frames (src/CCSDSServiceChannel.cpp):        *)
(* allFramesReceptionRequestRxTM -> packetExtractionRxTM.  The channels    *)
(* share masterCopyRxTM; each has a list of pointers into it.  A frame is  *)
(* not copied: it points to the buffer in which the caller received it,    *)
(* which is read again when its packet is extracted.  What FOP does with a *)
(* CLCW is the matter of FrameOperationProcedure and Cop1.                 *)
(***************************************************************************)
EXTENDS SequencesExt, FiniteSetsExt

CONSTANTS
  Vcs,            \* the virtual channels of the master channel
  ErrorControl,   \* those whose frames carry a CRC
  Buffers,        \* the caller's receive buffers
  RxMasterCap,    \* MaxRxInMasterChannel (200)
  AfterMcCap,     \* MaxReceivedRxTmInVirtBuffer (10)
  MaxFrames       \* bound on the frames received

ASSUME TmRxAssumption ==
  /\ IsFiniteSet(Vcs) /\ ErrorControl \subseteq Vcs
  /\ RxMasterCap \in Nat /\ AfterMcCap \in Nat /\ MaxFrames \in Nat

VARIABLES
  buffer,      \* the packet in each of the caller's buffers, 0 where it does not matter
  masterCopy,  \* masterCopyRxTM
  afterMc,     \* framesAfterMcReceptionRxTM of each channel
  received,    \* history: the number of frames kept
  kept,        \* history: the packets received on each channel, and whether with a CLCW
  extracted,   \* history: the packets handed to the user of each channel
  reports      \* history: how many CLCWs the FOP of each channel was given

tmRxVars == <<buffer, masterCopy, afterMc, received, kept, extracted, reports>>

Received == [packet : 1..MaxFrames, clcw : BOOLEAN]

\* A frame: the pointer to its octets; `packet` tells the nodes of the list apart.
RxFrames == [packet : 1..MaxFrames, buffer : Buffers]

TmRxInit ==
  /\ buffer = [b \in Buffers |-> 0]
  /\ masterCopy = {}
  /\ afterMc = [v \in Vcs |-> <<>>]
  /\ received = 0
  /\ kept = [v \in Vcs |-> <<>>]
  /\ extracted = [v \in Vcs |-> <<>>]
  /\ reports = [v \in Vcs |-> 0]

\* The buffers of the frames that wait.  Nothing tells the caller that it must not
\* receive into them, and tests keep one buffer for each frame.
Waiting == {f.buffer : f \in masterCopy}

\* The frame is put into the lists.
Keep(v, b, clcw) ==
  LET f == [packet |-> received + 1, buffer |-> b]
  IN  /\ buffer' = [buffer EXCEPT ![b] = f.packet]
      /\ masterCopy' = masterCopy \cup {f}
      /\ afterMc' = [afterMc EXCEPT ![v] = Append(@, f)]
      /\ received' = received + 1
      /\ kept' = [kept EXCEPT ![v] = Append(@, [packet |-> f.packet, clcw |-> clcw])]

Processed(v, clcw) ==
  reports' = IF clcw THEN [reports EXCEPT ![v] = @ + 1] ELSE reports

\* Slip: the channel's list is looked at when the CLCW has been processed.
ClcwFirst(v, b, valid, clcw) ==
  /\ received < MaxFrames
  /\ Cardinality(masterCopy) < RxMasterCap
  /\ v \in ErrorControl => valid
  /\ Processed(v, clcw)
  /\ \/ /\ Len(afterMc[v]) < AfterMcCap
        /\ Keep(v, b, clcw)
     \/ /\ Len(afterMc[v]) = AfterMcCap
        /\ UNCHANGED <<buffer, masterCopy, afterMc, received, kept>>
  /\ UNCHANGED extracted

\* Slip: the channel's list is not looked at.
ReceptionUnchecked(v, b, valid, clcw) ==
  /\ received < MaxFrames
  /\ Cardinality(masterCopy) < RxMasterCap
  /\ v \in ErrorControl => valid
  /\ Processed(v, clcw)
  /\ Keep(v, b, clcw)
  /\ UNCHANGED extracted

\* allFramesReceptionRequestRxTM.  Full lists, an unknown channel and a wrong CRC
\* are refused before anything changes.
AllFramesReceptionRequestRxTM(v, b, valid, clcw) ==
  /\ received < MaxFrames
  /\ Cardinality(masterCopy) < RxMasterCap
  /\ Len(afterMc[v]) < AfterMcCap
  /\ v \in ErrorControl => valid
  /\ Processed(v, clcw)
  /\ Keep(v, b, clcw)
  /\ UNCHANGED extracted

\* Slip: the pointer leaves the list, the frame stays in masterCopyRxTM.
ExtractionKeepsCopy(v) ==
  /\ Len(afterMc[v]) \in 1..AfterMcCap - 1
  /\ extracted' = [extracted EXCEPT ![v] = Append(@, buffer[Head(afterMc[v]).buffer])]
  /\ afterMc' = [afterMc EXCEPT ![v] = Tail(@)]
  /\ UNCHANGED <<buffer, masterCopy, received, kept, reports>>

\* Slip: the frame received last is taken.
ExtractionFromBack(v) ==
  /\ Len(afterMc[v]) \in 1..AfterMcCap - 1
  /\ extracted' = [extracted EXCEPT ![v] = Append(@, buffer[Last(afterMc[v]).buffer])]
  /\ afterMc' = [afterMc EXCEPT ![v] = Front(@)]
  /\ masterCopy' = masterCopy \ {Last(afterMc[v])}
  /\ buffer' = [buffer EXCEPT ![Last(afterMc[v]).buffer] = 0]
  /\ UNCHANGED <<received, kept, reports>>

\* packetExtractionRxTM: it refuses when the list it reads from is full, so that a
\* full list stays full.  The buffer is the caller's again.
PacketExtractionRxTM(v) ==
  /\ Len(afterMc[v]) \in 1..AfterMcCap - 1
  /\ extracted' = [extracted EXCEPT ![v] = Append(@, buffer[Head(afterMc[v]).buffer])]
  /\ afterMc' = [afterMc EXCEPT ![v] = Tail(@)]
  /\ masterCopy' = masterCopy \ {Head(afterMc[v])}
  /\ buffer' = [buffer EXCEPT ![Head(afterMc[v]).buffer] = 0]
  /\ UNCHANGED <<received, kept, reports>>

TmRxNext ==
  \/ \E v \in Vcs, b \in Buffers \ Waiting, valid, clcw \in BOOLEAN :
       AllFramesReceptionRequestRxTM(v, b, valid, clcw)
  \/ \E v \in Vcs : PacketExtractionRxTM(v)

TmRxSpec == TmRxInit /\ [][TmRxNext]_tmRxVars

----------------------------------------------------------------------------
(* Properties.                                                             *)

\* Every variable has its type and no list outgrows its capacity.
TmRxTypeOK ==
  /\ buffer \in [Buffers -> 0..MaxFrames]
  /\ masterCopy \subseteq RxFrames /\ Cardinality(masterCopy) <= RxMasterCap
  /\ \A v \in Vcs : Len(afterMc[v]) <= AfterMcCap
  /\ received \in 0..MaxFrames
  /\ kept \in [Vcs -> Seq(Received)]
  /\ extracted \in [Vcs -> Seq(1..MaxFrames)]
  /\ reports \in [Vcs -> 0..MaxFrames]

\* Every master copy waits in the list of exactly one channel, once, and every
\* pointer of a list is to a master copy.  (the channels share masterCopyRxTM, and
\* packetExtractionRxTM erases from it by the address of the frame)
RxCopiesAccounted ==
  /\ masterCopy = UNION {ToSet(afterMc[v]) : v \in Vcs}
  /\ Cardinality(masterCopy) = MapThenSumSet(LAMBDA v : Len(afterMc[v]), Vcs)

\* The packets of a channel reach the user as they were received, in that order,
\* none left out and none twice, as long as the caller keeps the buffer of a
\* frame that waits.  (the octets are read at extraction, not at reception)
PacketsInOrder ==
  \A v \in Vcs :
    [i \in DOMAIN kept[v] |-> kept[v][i].packet]
      = extracted[v] \o [i \in DOMAIN afterMc[v] |-> buffer[afterMc[v][i].buffer]]

\* FOP gets the CLCW of every frame that is kept and of no frame that is refused, so
\* that the caller may offer a refused frame again.
\* (all tests of allFramesReceptionRequestRxTM stand before validClcwArrival)
ClcwsOfKeptFrames ==
  \A v \in Vcs : reports[v] = Cardinality({i \in DOMAIN kept[v] : kept[v][i].clcw})
=============================================================================
