---------------------------- MODULE TcTransmission ----------------------------
(***************************************************************************)
(* The sending chain for TC frames of one MAP channel, up to FOP           *)
(* (src/CCSDSServiceChannel.cpp): storePacketTxTC -> mappRequestTxTC,      *)
(* which blocks or segments packets into frames, whose octets are blocks   *)
(* of a pool of the kind of module MemoryPool.  A packet is its length.    *)
(*                                                                         *)
(* Which frame FOP takes on and which it erases is the matter of           *)
(* FrameOperationProcedure: here it may at any time take the front one,    *)
(* and erase any.                                                          *)
(***************************************************************************)
EXTENDS FindFit

CONSTANTS
  Services,           \* the service types used; BC shares the queues of BD
  TcPacketLengths,    \* the lengths of the packets stored
  TcFieldLengths,     \* the data field lengths that the user asks for
  MaxPacketLength,    \* maxFrameLengthTC less the headers
  TcOverhead,         \* TcPrimaryHeaderSize and the trailer
  TcPacketBufferCap,  \* PacketBufferTcSize (512), for the octets
  TcLengthsCap,       \* PacketBufferTmSize (512), for the lengths
  TcMasterCap,        \* MaxTxInMasterChannel (200)
  UnprocessedCap,     \* MaxReceivedUnprocessedTxTcInVirtBuffer (6)
  TcBlocking,         \* frames may hold several packets
  LengthHigh,         \* 2^8: the weight of the upper bits of the header's length
  UInt8,              \* 2^8: segmentationTC is told the number of frames in a uint8_t
  UInt16              \* 2^16

ASSUME TcAssumption ==
  /\ Services \subseteq {"AD", "BD"}
  /\ TcPacketLengths \subseteq Nat /\ TcFieldLengths \subseteq Nat \ {0}
  /\ UInt8 \in Nat \ {0} /\ UInt16 \in Nat /\ MaxPacketLength \in 0..UInt16 - 1
  /\ TcOverhead \in Nat \ {0} /\ LengthHigh \in Nat \ {0}
  /\ \A d \in TcFieldLengths : \A k \in 0..d : k + TcOverhead \in Lengths
  /\ {TcPacketBufferCap, TcLengthsCap, TcMasterCap, UnprocessedCap} \subseteq Nat
  /\ TcBlocking \in BOOLEAN

VARIABLES
  usedMemoryTC,    \* the map of the pool
  heldTC,          \* history: blocks handed out and not yet given back
  lengthsTC,       \* packetLengthBufferTxTcTypeA and TypeB
  octetsTC,        \* sizes of packetBufferTxTcTypeA and TypeB
  masterCopyTxTC,
  unprocessed,     \* size of unprocessedFrameListBufferVcCopyTxTC
  irregular,       \* history: services that had a packet neither empty nor of the largest
                   \* length, a number of frames beyond a uint8_t, or a full pool
  thrownTC         \* an ETL container threw: the program ends

framesTC == <<masterCopyTxTC, unprocessed>>
poolTC == <<usedMemoryTC, heldTC>>
packetsTC == <<lengthsTC, octetsTC>>
tcVars == <<poolTC, packetsTC, framesTC, irregular, thrownTC>>

\* A frame; its block is the pointer to its octets together with its length.
TcFrames == [service : Services, block : Blocks]

TcInit ==
  /\ usedMemoryTC = {} /\ heldTC = {}
  /\ lengthsTC = [s \in Services |-> <<>>] /\ octetsTC = [s \in Services |-> 0]
  /\ masterCopyTxTC = {} /\ unprocessed = 0
  /\ irregular = {} /\ thrownTC = FALSE

\* A push to a full container, or a pop of an empty one: the program ends.
ThrowTC == thrownTC' = TRUE /\ UNCHANGED <<poolTC, packetsTC, framesTC, irregular>>

----------------------------------------------------------------------------
(* MAP packet processing.                                                  *)

\* Slip: the room for the octets is not looked at.
StoreUnchecked(s, n) ==
  /\ Len(lengthsTC[s]) < TcLengthsCap
  /\ lengthsTC' = [lengthsTC EXCEPT ![s] = Append(@, n)]
  /\ octetsTC' = [octetsTC EXCEPT ![s] = @ + n]
  /\ UNCHANGED <<poolTC, framesTC, irregular, thrownTC>>

\* storePacketTxTC tests the room for the octets, not that for the length.
StorePacketTxTC(s, n) ==
  /\ octetsTC[s] + n <= TcPacketBufferCap
  /\ \/ /\ Len(lengthsTC[s]) < TcLengthsCap
        /\ lengthsTC' = [lengthsTC EXCEPT ![s] = Append(@, n)]
        /\ octetsTC' = [octetsTC EXCEPT ![s] = @ + n]
        /\ irregular' = IF n \in {0, MaxPacketLength} THEN irregular ELSE irregular \cup {s}
        /\ UNCHANGED <<poolTC, framesTC, thrownTC>>
     \/ Len(lengthsTC[s]) >= TcLengthsCap /\ ThrowTC

Prefix(s, n) == SubSeq(s, 1, n)

\* The blocks for frames with these numbers of data octets, up to the first for
\* which the pool has no room.
TcBlocksFor(data) == BlocksFor(usedMemoryTC, [i \in DOMAIN data |-> data[i] + TcOverhead])

\* The lists and the map of the pool take n more entries.
TcRoomFor(n) ==
  /\ Cardinality(usedMemoryTC) + n <= MaxPackets
  /\ Cardinality(masterCopyTxTC) + n <= TcMasterCap
  /\ unprocessed + n <= UnprocessedCap

\* The frames enter the pool, masterCopyTxTC and the unprocessed list.
TcEnter(s, blocks) ==
  /\ TcRoomFor(Len(blocks))
  /\ usedMemoryTC' = usedMemoryTC \cup ToSet(blocks)
  /\ heldTC' = heldTC \cup ToSet(blocks)
  /\ masterCopyTxTC' = masterCopyTxTC \cup {[service |-> s, block |-> b] : b \in ToSet(blocks)}
  /\ unprocessed' = unprocessed + Len(blocks)
  /\ UNCHANGED thrownTC

\* No room is tested, nor whether the queues hold what is popped.
Throw(s, size, n, popped) ==
  /\ size > octetsTC[s] \/ ~TcRoomFor(n) \/ popped > Len(lengthsTC[s])
  /\ ThrowTC

\* Slip: what is left is reduced before the frame is filled.
DataReducedFirst(d, i) ==
  LET left == (MaxPacketLength - i * d) % UInt16
  IN  IF left > d THEN d ELSE left

\* What segmentationTC puts into frame i: it is given the largest packet length in
\* place of the packet's, so that every frame is full as long as that lasts.
DataOfFrame(d, i) ==
  LET left == (MaxPacketLength - (i - 1) * d) % UInt16
  IN  IF left > d THEN d ELSE left

\* segmentationTC, asked for so many frames and told their number modulo 2^8; when the
\* pool is full the octets are gone up to the frame that found no room, and the length
\* stays.
SegmentationTC(s, d, asked) ==
  LET n == asked % UInt8
      data == [i \in 1..n |-> DataOfFrame(d, i)]
      blocks == TcBlocksFor(data)
      whole == Len(blocks) = n
      size == SumFunction(Prefix(data, IF whole THEN n ELSE Len(blocks) + 1))
      popped == IF whole THEN 1 ELSE 0
  IN  \/ /\ size <= octetsTC[s] /\ popped <= Len(lengthsTC[s])
         /\ TcEnter(s, blocks)
         /\ octetsTC' = [octetsTC EXCEPT ![s] = @ - size]
         /\ \/ whole /\ lengthsTC' = [lengthsTC EXCEPT ![s] = Tail(@)]
            \/ ~whole /\ UNCHANGED lengthsTC
         /\ irregular' = IF whole /\ asked < UInt8 THEN irregular ELSE irregular \cup {s}
      \/ Throw(s, size, Len(blocks), popped)

\* How many packets blockingTC takes: those that fit into the field, one only
\* where blocking is disabled, none of an empty queue.
TcTaken(q, d) ==
  CHOOSE k \in 0..Len(q) :
    /\ k = 0 <=> q = <<>>
    /\ k > 1 => TcBlocking /\ SumFunction(Prefix(q, k)) <= d
    /\ TcBlocking /\ k < Len(q) => SumFunction(Prefix(q, k + 1)) > d

\* blockingTC, which only a length of 0 in front leads to: that packet and those
\* behind it.  They leave their queues also when the pool is full.
BlockingTC(s, d) ==
  LET k == TcTaken(lengthsTC[s], d)
      size == SumFunction(Prefix(lengthsTC[s], k))
      blocks == TcBlocksFor(<<size>>)
  IN  \/ /\ size <= octetsTC[s]
         /\ TcEnter(s, blocks)
         /\ octetsTC' = [octetsTC EXCEPT ![s] = @ - size]
         /\ lengthsTC' = [lengthsTC EXCEPT ![s] = SubSeq(@, k + 1, Len(@))]
         /\ UNCHANGED irregular
      \/ Throw(s, size, Len(blocks), k)

\* mappRequestTxTC, which refuses while FOP's wait queue is full.  Without a packet
\* it reads the front of an empty queue, where any older length may be.
MappRequestTxTC(s, d) ==
  \E length \in IF lengthsTC[s] = <<>> THEN TcPacketLengths ELSE {Head(lengthsTC[s])} :
    LET n == (length + d - 1) \div d
    IN  \/ n > 0 /\ SegmentationTC(s, d, n)
        \/ n = 0 /\ BlockingTC(s, d)

----------------------------------------------------------------------------
(* FOP.                                                                    *)

\* vcGenerationRequestTxTC, where FOP takes the frame.
VcGenerationRequestTxTC ==
  /\ unprocessed > 0
  /\ unprocessed' = unprocessed - 1
  /\ UNCHANGED <<poolTC, packetsTC, masterCopyTxTC, irregular, thrownTC>>

\* frameLength(): the header's length field.  Of the length, the constructor writes
\* the lower two bits where the upper two belong.
HeaderLength(len) == ((len % 4) * LengthHigh) + (len % LengthHigh)

\* removeAcknowledgedFrames, for one of the frames it erases: deletePacket with
\* the header's length, which refuses where that reaches the end of the memory.  Not
\* only AD frames that FOP took: once it has freed a frame that it still remembers as
\* sent, a new one in the same place may be acknowledged, whatever its service and
\* while the list of the unprocessed frames points at it; that pointer stays.
RemoveAcknowledgedFrame(f) ==
  /\ masterCopyTxTC' = masterCopyTxTC \ {f}
  /\ heldTC' = heldTC \ {f.block}
  /\ usedMemoryTC' = IF f.block.start + HeaderLength(f.block.len) < MemorySize
                     THEN {u \in usedMemoryTC : u.start # f.block.start} ELSE usedMemoryTC
  /\ UNCHANGED <<packetsTC, unprocessed, irregular, thrownTC>>

TcNext ==
  /\ ~thrownTC
  /\ \/ \E s \in Services, n \in TcPacketLengths : StorePacketTxTC(s, n)
     \/ \E s \in Services, d \in TcFieldLengths : MappRequestTxTC(s, d)
     \/ VcGenerationRequestTxTC
     \/ \E f \in masterCopyTxTC : RemoveAcknowledgedFrame(f)

TcSpec == TcInit /\ [][TcNext]_tcVars

----------------------------------------------------------------------------
(* Properties.                                                             *)

\* Every variable has its type and no queue or list outgrows its capacity.
TcTypeOK ==
  /\ lengthsTC \in [Services -> Seq(TcPacketLengths)]
  /\ octetsTC \in [Services -> 0..TcPacketBufferCap]
  /\ masterCopyTxTC \subseteq TcFrames /\ Cardinality(masterCopyTxTC) <= TcMasterCap
  /\ unprocessed \in 0..UnprocessedCap
  /\ irregular \subseteq Services /\ thrownTC \in BOOLEAN

\* Every frame's octets are a block of its own, in use until the frame is erased,
\* whatever length the pool is told then.  (allocatePacket places the frames of a
\* packet one by one; deletePacket is given a wrong length)
FramesOwnOctets ==
  /\ heldTC = {f.block : f \in masterCopyTxTC}
  /\ Cardinality(heldTC) = Cardinality(masterCopyTxTC)
  /\ heldTC \subseteq usedMemoryTC
  /\ Separate(usedMemoryTC)

\* The octets in a queue are those of the packets whose lengths are queued, as long as
\* its packets are empty or of the largest length, which is the one that segmentationTC
\* is given for every packet, their frames fit a uint8_t and the pool is never full.
\* (the octets are popped frame by frame, with a length that wraps, the length once)
QueuesInStep == \A s \in Services \ irregular : octetsTC[s] = SumFunction(lengthsTC[s])
=============================================================================
