---------------------------- MODULE TmTransmission ----------------------------
(***************************************************************************)
(* The sending chain for TM frames (src/CCSDSServiceChannel.cpp):          *)
(* storePacketTxTM -> vcGenerationServiceTxTM, which blocks or segments    *)
(* packets into frames -> mcGenerationRequestTxTM ->                       *)
(* allFramesGenerationRequestTxTM.  The octets of a frame are a block of   *)
(* the pool of module MemoryPool.  Virtual channels share the lists, the   *)
(* pool and masterCopyTxTM.                                                *)
(*                                                                         *)
(* The ETL containers are built to throw where a full one is pushed to and *)
(* an empty one popped: the program ends there.                            *)
(*                                                                         *)
(* currFrameCountTM is left out: mcGenerationRequestTxTM assigns it to     *)
(* itself where it means to increment it, so that it is always 0.          *)
(***************************************************************************)
EXTENDS MemoryPool

CONSTANTS
  Vcs,           \* the virtual channels
  Blocking,      \* those whose frames may hold several packets
  ErrorControl,  \* those whose frames carry a CRC
  PacketLengths, \* the lengths of the packets stored
  FieldLengths,  \* the data field lengths that the user asks for
  TargetLengths, \* the lengths of the user's target buffers
  HeaderSize,    \* TmPrimaryHeaderSize (6)
  TrailerSize,   \* TmTrailerSize (6)
  FrameSize,     \* TmTransferFrameSize (128)
  PacketBufferCap, \* PacketBufferTmSize (512), for the octets and for the lengths
  AfterVcCap,    \* MaxReceivedUnprocessedTxTmInVirtBuffer (6)
  AfterMcCap,    \* MaxReceivedTxTmOutInVCBuffer (100)
  MasterCap,     \* MaxTxInMasterChannel (200): so many frames fit a uint8_t
  CountMod       \* 2^8: frameCountTM is a uint8_t

Overhead == HeaderSize + TrailerSize

ASSUME TmAssumption ==
  /\ Blocking \subseteq Vcs /\ ErrorControl \subseteq Vcs
  /\ PacketLengths \subseteq Nat /\ FieldLengths \subseteq Nat \ {0}
  /\ \A d \in FieldLengths : d + Overhead <= FrameSize
  /\ \A d \in FieldLengths : \A k \in 0..d : k + Overhead \in Lengths
  /\ {HeaderSize, TrailerSize, FrameSize, PacketBufferCap} \subseteq Nat
  /\ {AfterVcCap, AfterMcCap} \subseteq Nat /\ MasterCap \in 0..255
  /\ CountMod \in Nat /\ CountMod > 1

VARIABLES
  lengths,     \* packetLengthBufferTxTM of each channel
  octets,      \* size of packetBufferTxTM of each channel
  frameCount,  \* frameCountTM of each channel
  masterCopy,  \* the frames of masterCopyTxTM
  afterVc,     \* framesAfterVcGenerationServiceTxTM
  afterMc,     \* toBeTransmittedFramesAfterMCGenerationListTxTM
  refused,     \* history: channels for which the pool was full in the middle of a packet
  spoiled,     \* history: frames whose header or data another frame has overwritten
  thrown       \* an ETL container threw: the program ends

framesTM == <<frameCount, masterCopy, afterVc, afterMc>>
packetsTM == <<lengths, octets>>
historyTM == <<refused, spoiled>>
tmVars == <<vars, packetsTM, framesTM, historyTM, thrown>>

\* A frame; its block is the pointer to its octets together with its length.
Frames == [vc : Vcs, count : 0..CountMod - 1, block : Blocks,
           segment : {"none", "start", "middle", "end"}]

TmInit ==
  /\ Init
  /\ lengths = [v \in Vcs |-> <<>>]
  /\ octets = [v \in Vcs |-> 0]
  /\ frameCount = [v \in Vcs |-> 0]
  /\ masterCopy = {} /\ afterVc = <<>> /\ afterMc = <<>>
  /\ refused = {} /\ spoiled = {} /\ thrown = FALSE

\* A push to a full container, or a pop of an empty one.
ThrowTM == thrown' = TRUE /\ UNCHANGED <<vars, packetsTM, framesTM, historyTM>>

----------------------------------------------------------------------------
(* Virtual channel generation.                                             *)

\* Slip: the count moves on before it is known that the pool has room.
CountBefore(v, made, wanted) == (frameCount[v] + wanted) % CountMod

\* frameCountTM after so many frames of those wanted have been made.
CountAfter(v, made, wanted) == (frameCount[v] + made) % CountMod

\* Slip: the last segment is looked for one too late.
SegmentNoEnd(i, n) == IF i = 1 THEN "start" ELSE IF i = n + 1 THEN "end" ELSE "middle"

\* segmentLengthId of segment i of n.
SegmentOf(i, n) == IF i = 1 THEN "start" ELSE IF i = n THEN "end" ELSE "middle"

\* The frames of channel v with these numbers of data octets and segments, up to the first
\* for which the pool has no room.
FramesFor(v, data, segments) ==
  LET blocks == BlocksFor(usedMemory, [i \in DOMAIN data |-> data[i] + Overhead])
  IN  [i \in DOMAIN blocks |->
         [vc |-> v, count |-> (frameCount[v] + i) % CountMod, block |-> blocks[i],
          segment |-> segments[i]]]

\* The frames enter the pool, masterCopyTxTM and the list after VC generation.
Enter(v, frames, wanted) ==
  LET blocks == {frames[i].block : i \in DOMAIN frames}
  IN  /\ usedMemory' = usedMemory \cup blocks
      /\ held' = held \cup blocks
      /\ masterCopy' = masterCopy \cup ToSet(frames)
      /\ afterVc' = afterVc \o frames
      /\ frameCount' = [frameCount EXCEPT ![v] = CountAfter(v, Len(frames), wanted)]
      /\ UNCHANGED thrown

\* Slip: the list after VC generation is not asked.
RoomInMasterCopies(n) == Cardinality(masterCopy) + n <= MasterCap

\* There is room for n frames.
RoomFor(n) ==
  Cardinality(masterCopy) + n <= MasterCap /\ Len(afterVc) + n <= AfterVcCap

\* The map of the pool has room for the frames' blocks.
MapTakes(frames) == Cardinality(usedMemory) + Len(frames) <= MaxPackets

\* How many packets blockingTM takes: those that fit into the field, one only
\* where blocking is disabled.
Taken(v, d) ==
  CHOOSE k \in 1..Len(lengths[v]) :
     /\ k > 1 => v \in Blocking /\ SumFunction(SubSeq(lengths[v], 1, k)) <= d
     /\ v \in Blocking /\ k < Len(lengths[v]) => SumFunction(SubSeq(lengths[v], 1, k + 1)) > d

\* blockingTM: the packets leave their buffer also when the pool is full.  With a
\* packet of no octets in front it makes a frame where room was asked for none.
BlockingTM(v, d) ==
  LET k == Taken(v, d)
      size == SumFunction(SubSeq(lengths[v], 1, k))
      frames == FramesFor(v, <<size>>, <<"none">>)
      asked == Head(lengths[v]) > 0
  IN  \/ /\ size <= octets[v] /\ MapTakes(frames) /\ (asked \/ RoomFor(Len(frames)))
         /\ lengths' = [lengths EXCEPT ![v] = SubSeq(@, k + 1, Len(@))]
         /\ octets' = [octets EXCEPT ![v] = @ - size]
         /\ Enter(v, frames, 1)
         /\ UNCHANGED refused
      \/ /\ size > octets[v] \/ ~MapTakes(frames) \/ (~asked /\ ~RoomFor(Len(frames)))
         /\ ThrowTM

\* Slip: the packet's length stays in its queue.
SegmentationKeepsLength(v, d, n) ==
  LET data == [i \in 1..n |-> IF i < n THEN d ELSE Head(lengths[v]) - (n - 1) * d]
      frames == FramesFor(v, data, [i \in 1..n |-> SegmentOf(i, n)])
  IN  /\ Enter(v, frames, n)
      /\ Len(frames) = n
      /\ octets' = [octets EXCEPT ![v] = @ - Head(lengths[v])]
      /\ UNCHANGED <<lengths, refused>>

\* segmentationTM: when the pool is full the octets up to the segment that
\* found no room are gone, the packet's length stays in its queue.
SegmentationTM(v, d, n) ==
  LET data == [i \in 1..n |-> IF i < n THEN d ELSE Head(lengths[v]) - (n - 1) * d]
      frames == FramesFor(v, data, [i \in 1..n |-> SegmentOf(i, n)])
      whole == Len(frames) = n
      size == SumFunction(SubSeq(data, 1, IF whole THEN n ELSE Len(frames) + 1))
  IN  \/ /\ size <= octets[v] /\ MapTakes(frames)
         /\ Enter(v, frames, n)
         /\ octets' = [octets EXCEPT ![v] = @ - size]
         /\ \/ whole /\ lengths' = [lengths EXCEPT ![v] = Tail(@)] /\ UNCHANGED refused
            \/ ~whole /\ refused' = refused \cup {v} /\ UNCHANGED lengths
      \/ /\ size > octets[v] \/ ~MapTakes(frames)
         /\ ThrowTM

----------------------------------------------------------------------------
(* The services.                                                           *)

\* storePacketTxTM tests the room for the octets, not that for the length.
StorePacketTxTM(v, n) ==
  /\ octets[v] + n <= PacketBufferCap
  /\ \/ /\ Len(lengths[v]) < PacketBufferCap
        /\ lengths' = [lengths EXCEPT ![v] = Append(@, n)]
        /\ octets' = [octets EXCEPT ![v] = @ + n]
        /\ UNCHANGED <<vars, framesTM, historyTM, thrown>>
     \/ Len(lengths[v]) = PacketBufferCap /\ ThrowTM

\* vcGenerationServiceTxTM; a packet of no octets needs no frame by its count.
VcGenerationServiceTxTM(v, d) ==
  /\ lengths[v] # <<>>
  /\ LET n == (Head(lengths[v]) + d - 1) \div d
     IN  /\ RoomFor(n)
         /\ \/ n <= 1 /\ BlockingTM(v, d)
            \/ n > 1 /\ SegmentationTM(v, d, n)
  /\ UNCHANGED <<afterMc, spoiled>>

\* mcGenerationRequestTxTM
McGenerationRequestTxTM ==
  /\ afterVc # <<>>
  /\ Len(afterMc) < AfterMcCap
  /\ afterMc' = Append(afterMc, Head(afterVc))
  /\ afterVc' = Tail(afterVc)
  /\ UNCHANGED <<vars, packetsTM, frameCount, masterCopy, historyTM, thrown>>

\* appendCRC of a TM frame writes the last two octets of FrameSize octets,
\* however short the frame's own block is.
CrcOctets(f) ==
  IF f.vc \in ErrorControl
  THEN {f.block.start + FrameSize - 2, f.block.start + FrameSize - 1} ELSE {}

\* The header and the data of a frame.
Contents(f) == f.block.start..End(f.block) - TrailerSize - 1

SpoiledBy(f) == {g \in masterCopy \ {f} : CrcOctets(f) \cap Contents(g) # {}}

\* Slip: the octets are given back before the target's length is looked at.
AllFramesFreesFirst(target) ==
  /\ afterMc # <<>>
  /\ LET f == Head(afterMc)
     IN  /\ DeletePacket(f.block)
         /\ \/ /\ f.block.len > target
               /\ spoiled' = spoiled \cup SpoiledBy(f)
               /\ UNCHANGED <<masterCopy, afterMc>>
            \/ /\ f.block.len <= target
               /\ afterMc' = Tail(afterMc)
               /\ masterCopy' = masterCopy \ {f}
               /\ spoiled' = (spoiled \cup SpoiledBy(f)) \ {f}
  /\ UNCHANGED <<packetsTM, frameCount, afterVc, refused, thrown>>

\* Slip: the frame stays in masterCopyTxTM.
AllFramesKeepsCopy(target) ==
  /\ afterMc # <<>>
  /\ LET f == Head(afterMc)
     IN  /\ f.block.len <= target
         /\ afterMc' = Tail(afterMc)
         /\ DeletePacket(f.block)
         /\ spoiled' = (spoiled \cup SpoiledBy(f)) \ {f}
  /\ UNCHANGED <<packetsTM, frameCount, masterCopy, afterVc, refused, thrown>>

\* Slip: the frame stays in the list.
AllFramesKeepsFrame(target) ==
  /\ afterMc # <<>>
  /\ spoiled' = spoiled \cup SpoiledBy(Head(afterMc))
  /\ UNCHANGED <<vars, packetsTM, framesTM, refused, thrown>>

\* allFramesGenerationRequestTxTM: the CRC is written before a target that is
\* too short makes it return.  deletePacket is given what the frame says after
\* its master copy was erased; nothing has overwritten the node by then.
AllFramesGenerationRequestTxTM(target) ==
  /\ afterMc # <<>>
  /\ LET f == Head(afterMc)
     IN  \/ /\ f.block.len > target
            /\ spoiled' = spoiled \cup SpoiledBy(f)
            /\ UNCHANGED <<vars, masterCopy, afterMc>>
         \/ /\ f.block.len <= target
            /\ afterMc' = Tail(afterMc)
            /\ masterCopy' = masterCopy \ {f}
            /\ DeletePacket(f.block)
            /\ spoiled' = (spoiled \cup SpoiledBy(f)) \ {f}
  /\ UNCHANGED <<packetsTM, frameCount, afterVc, refused, thrown>>

TmNext ==
  /\ ~thrown
  /\ \/ \E v \in Vcs, n \in PacketLengths : StorePacketTxTM(v, n)
     \/ \E v \in Vcs, d \in FieldLengths : VcGenerationServiceTxTM(v, d)
     \/ McGenerationRequestTxTM
     \/ \E target \in TargetLengths : AllFramesGenerationRequestTxTM(target)

TmSpec == TmInit /\ [][TmNext]_tmVars

\* The scheduler calls the last two services again and again, the last one
\* with a target that holds every frame, its default.
TmFairness ==
  /\ WF_tmVars(~thrown /\ McGenerationRequestTxTM)
  /\ WF_tmVars(~thrown /\ AllFramesGenerationRequestTxTM(FrameSize))

----------------------------------------------------------------------------
(* Properties.                                                             *)

Waiting == afterMc \o afterVc

\* Every variable has its type and no list outgrows its capacity.
TmTypeOK ==
  /\ lengths \in [Vcs -> Seq(PacketLengths)]
  /\ octets \in [Vcs -> 0..PacketBufferCap]
  /\ frameCount \in [Vcs -> 0..CountMod - 1]
  /\ masterCopy \subseteq Frames /\ Cardinality(masterCopy) <= MasterCap
  /\ Len(afterVc) <= AfterVcCap /\ Len(afterMc) <= AfterMcCap
  /\ refused \subseteq Vcs /\ spoiled \subseteq masterCopy /\ thrown \in BOOLEAN

\* Every master copy waits in exactly one place and every pointer of the two
\* lists is to a master copy: no frame leaks, is sent twice, or is used after it
\* is erased.  (the lists are filled and emptied by three services)
FramesPlaced == ToSet(Waiting) = masterCopy /\ Len(Waiting) = Cardinality(masterCopy)

\* The octets of every frame on its way are held in the pool, apart from all
\* others, and no block is held for a frame that is gone.
\* (allocatePacket and deletePacket are called in different services)
MemoryOwned ==
  /\ held = {f.block : f \in masterCopy}
  /\ held \subseteq usedMemory
  /\ BlocksDisjoint

\* The receiver sees no gap in the counts of a channel, though packets are
\* dropped and frames of other channels lie between.  (segmentationTM and
\* blockingTM return when the pool is full)
CountsConsecutive ==
  \A i \in DOMAIN Waiting :
    LET v == Waiting[i].vc
        later == {j \in DOMAIN Waiting : j > i /\ Waiting[j].vc = v}
    IN  Waiting[i].count = (frameCount[v] - Cardinality(later)) % CountMod

\* Frame j is the next one of its channel after frame i.
NextOf(i, j) ==
  /\ i < j /\ Waiting[j].vc = Waiting[i].vc
  /\ \A k \in i + 1..j - 1 : Waiting[k].vc # Waiting[i].vc

\* The segments of a packet follow each other, from the first to the last,
\* on a channel for which the pool was never full in the middle of a packet.
SegmentsComplete ==
  \A i \in DOMAIN Waiting :
    Waiting[i].vc \notin refused /\ Waiting[i].segment \in {"start", "middle"} =>
      \E j \in DOMAIN Waiting : NextOf(i, j) /\ Waiting[j].segment \in {"middle", "end"}

\* The octets in a channel's buffer are those of the packets whose lengths
\* are queued, on a channel for which the pool was never full in the middle of a
\* packet.  (the two queues are popped in different places)
OctetsMatchLengths == \A v \in Vcs \ refused : octets[v] = SumFunction(lengths[v])

\* A full list after VC generation does not stay full, unless the program ends.
\* (mcGenerationRequestTxTM waits for allFramesGenerationRequestTxTM to make room)
FullListDrains == Len(afterVc) = AfterVcCap ~> Len(afterVc) < AfterVcCap \/ thrown

\* What inc/TransferFrame.hpp:57-59 says of appendCRC: it "appends the CRC code" to
\* its frame.  So the header and the data of every other frame that waits stay
\* as they were written.
CrcStaysInFrame == spoiled = {}
=============================================================================
