# TLA+ models of the CCSDS space data link library

The library in `src/` implements the TC and TM Space Data Link Protocols and the
sending (FOP-1) and receiving (FARM-1) side of COP-1. It is single-threaded: the
user's scheduler calls the public services of `ServiceChannel` in any order, each
call runs to its end, and all state lives in fixed-size ETL lists and maps. What is
hard about it is therefore the *order of calls* and the *limits of the containers*,
the pointers that several lists hold to one frame, and the agreement of two state
machines that only see each other's sequence numbers.

Paths below are relative to the repository (`src/CCSDSServiceChannel.cpp` is the
repository's file of that name, `inc/` its headers).

## Inventory

| Component | State | Operations | Must hold |
|---|---|---|---|
| Memory pool (`MemoryPool`) | map from block start to length | `allocatePacket`, `deletePacket` | blocks disjoint and inside the array; a free range is found when there is one |
| CLCW (`CLCW.hpp`) | 32 bits | constructor, getters | FARM's values survive the composition of bits |
| FARM-1 (`FrameAcceptanceReporting`) | state, flags, V(R), FARM-B counter, wait and sent queue | `frameArrives` (E1 to E8), `bufferRelease` | in-order acceptance, flags agree with the state, no overflow |
| TC reception (`ServiceChannel`) | `masterCopyRxTC`, list before All Frames Reception, FARM's queues, lists after FARM | `storeFrameRxTC`, `allFramesReceptionRequestRxTC`, `vcReceptionRxTC`, `packetExtractionTC` (two) | master copies and pointers agree, the CLCW is current, the chain drains |
| FOP-1 (`FrameOperationProcedure`) | state, V(S), NN(R), transmission count and limit, window, wait and sent queue | `transferFdu`, `validClcwArrival` (E1 to E14, E101 to E103), directives, `transmitAdFrame`, acknowledgement | consecutive numbers, acknowledgement from the front, window, limit |
| TC transmission (`ServiceChannel`) | packet queues, `masterCopyTxTC`, unprocessed list, outgoing lists, pool | `storePacketTxTC`, `mappRequestTxTC`, `vcGenerationRequestTxTC`, `allFramesGenerationRequestTxTC`, `frameTransmission` | every frame owns its octets, the two packet queues agree, lists keep within their capacity, no pointer outlives its frame |
| TM transmission | packet buffers of each channel, `masterCopyTxTM`, lists after VC and MC generation, pool | `storePacketTxTM`, `vcGenerationServiceTxTM`, `mcGenerationRequestTxTM`, `allFramesGenerationRequestTxTM` | frames, copies and pool blocks agree; counts without gaps; segments complete; lists drain |
| TM reception | `masterCopyRxTM`, list per VC | `allFramesReceptionRequestRxTM`, `packetExtractionRxTM` | the packets of a channel in order, a CLCW for every kept frame and no other, copies and pointers agree |
| COP-1 over the link | both ends, frames and CLCWs under way | FOP's services, arrival of a frame at FARM, arrival of a CLCW at FOP | delivery in order, each frame once, nothing confirmed that did not arrive |
| Channel configuration | maps of channels | `addVC`, `addMAP`, constructors | runs once before the services |
| Headers (`TransferFrame*.hpp`) | octets of a frame | getters, setters, CRC | what is written is what is read |
| Logging | none | | no effect on state |

Interactions: FOP and FARM are called by the services, hold pointers to the virtual
channel's queues and, FOP, write to the master channel's outgoing list. FARM's answer
travels in the CLCW of a TM frame, which `allFramesReceptionRequestRxTM` hands to FOP.
Frames are elements of `masterCopy...` lists; every other list holds pointers to them.
`PROJECT.json` lists the hazards at their lines.

## Modules

| Module | Models | Run by |
|---|---|---|
| `FrameAcceptanceReporting` | FARM-1 | `MCFarm`, and inside `TcReception` and `Cop1` |
| `CLCW` | the bits of a CLCW, as arithmetic on digits | inside `TcReception` and `Cop1` |
| `TcReception` | the TC reception chain around FARM (extends the two above) | `MCReception`, `MCTcReception` |
| `TmReception` | the TM reception chain of several channels | `MCReception` |
| `FrameOperationProcedure` | FOP-1 and the services that call it | `MCFop`, and inside `Cop1` |
| `Cop1` | FOP-1, FARM-1 and the link between them | `MCCop1` |
| `InOrderDelivery` | what COP-1 promises its user; `Cop1` implements it | `MCCop1` |
| `FindFit` | the pool's search, as operators on the map of a pool | inside the three below |
| `MemoryPool` | the pool | `MCMemoryPool`, and inside the TM sending chain |
| `TmTransmission` | the TM sending chain of several channels over one pool (extends `MemoryPool`) | `MCTransmission`, `MCTmTransmission` |
| `TcTransmission` | the TC sending chain up to FOP with its pool (extends `FindFit`) | `MCTransmission` |
| `FarmProofs`, `PoolProofs`, `FopProofs`, `ReceptionProofs`, `TransmissionProofs`, `FopDeliveryProofs`, `Cop1Proofs` | theorems and the lemmas they rest on | |
| `SumProofs` | lemmas only: induction over numbers, sums and cardinalities | |

A service channel is the ground end or the end on board, so it sends one kind of frames
and receives the other. `MCTransmission` and `MCReception` therefore choose the kind in
their initial state (`link`) and run the one chain or the other.

### FARM

`state`, `lockout`, `wait`, `retransmit`, `receiverFrameSeqNumber` and `farmBCount` are
the members of that name (flags: READY is TRUE). `FrameArrives` takes the head of the
wait queue and does what the branch of `frameArrives` does: `E1` to `E8` are the events
of the code's comments, `AdIgnored`, `BIgnored` and `Ignored` the branches that change
nothing. A frame is what FARM looks at: service type, N(S), and for BD and BC frames the
bits and the command that the code tests. In this module `Receive` puts any frame in the
queue; the chain that really fills it is `TcReception`.

### TC reception

Each service is one action, with its early returns as guards. An early return that
changes nothing is not a step. Two things are worth knowing:

* `getTransferFrameVersionNumber` reads bits 6 and 7 of the first octet, and bit 6 is
  the bypass flag (`inc/TransferFrameTC.hpp:249-251` and `271-284`). So
  `allFramesReceptionRequestRxTC` takes every BD and BC frame for one with a wrong
  version number (`ValidVersion`), and only AD and AC frames reach FARM in this chain.
  Unlock and Set V(R) never arrive; LOCKOUT and WAIT are final here. The module
  `FrameAcceptanceReporting` still models all events, as the code of FARM has them.
* `mapId()` of a received frame tests a member that no constructor has set, so the MAP
  channel a frame goes to is chosen nondeterministically among the existing ones.

A push to a full ETL list throws (`inc/etl_profile.h:7-9`); `thrown` records it and ends the
behaviour, here as in the two sending chains.

### FOP

`fop` is a record with what the procedures change; each procedure is a function from the
record before to the record after, so that a service or an event composes them in the
code's order (`LookForFdu(RemoveAcknowledgedFrames(fop))`). A pointer to a frame is a slot
of the node pool of `masterCopyTxTC`. A new frame takes any free slot, so a pointer kept too
long may come to mean another frame, as it does in the program (whose pool hands out the
slot freed last first, one of these choices). The slots are thereby alike, and the runs use
their symmetry.
The events `E1` ... `E14` of `validClcwArrival` are one action each (in INITIAL, `E3` and `E4` do
nothing, as their branches only break there, so that frames which `resumeAdService` left in the
queues stay there) and all end in
`React`, which runs `acknowledgePreviousFrames` as `allFramesReceptionRequestRxTM` does.
CLCWs are arbitrary: nothing on the way checks them, so lost, old and repeated reports
are all included. The directives are the user's, in any state.

Outside the model: the private procedures that nothing calls (listed in the module's
head), the timer (`setT1Initial` stores a value that nothing reads), and
`frameTransmission`. BC frames do not occur: no service makes one.

One cut is made on purpose: `MappRequestTxTC` makes no new frame once a frame in the wait
queue or in the unprocessed list has been freed, since what the program then reads depends
on how pool memory is reused.

`intact` is a history variable: TRUE until a frame is in two lists at once or freed while
listed, until `resumeAdService` leaves frames in queues out of service, or until the
user acknowledges frames by hand. Properties about the meaning of the sent queue's
numbers hold, and are claimed, while it is TRUE. How it becomes FALSE by the program's
own steps is the subject of `fop_sent_queue`.

### TC transmission

`TcTransmission` follows one MAP channel from the packets to the list in front of FOP:
lengths and octets in their two queues, one pair for AD and one for BD, frames with a block
of the pool each. `SegmentationTC` and `BlockingTC` are the two ways `mappRequestTxTC` can go:
it segments whenever the packet has an octet, so blocking is reached by a packet of length 0
only. Four peculiarities of the code are modelled as they are: segmentation is given the
largest packet length in place of the packet's (`DataOfFrame`), and the number of frames in a
`uint8_t` (`UInt8`); a request without a packet
reads a stale length; and nothing tests for room, so a full list, a full map of the pool
or a pop of an empty queue throws (`Throw`; the program ends there, `thrownTC`). A frame
leaves when FOP frees it. Which one that is is FOP's matter, here it may be any: since the sent queue
keeps pointers to freed frames (`fop_sent_queue`), a new frame in the same node, AD or BD, can be
acknowledged and freed while the list of unprocessed frames points at it. That pointer stays, so
of this list only the size is kept (`unprocessed`), with no claim that its pointers are good. The pool is then told
the length in the frame's header (`HeaderLength`), of which the upper bits are wrong.

`irregular` is a history variable: the queues that took a packet neither empty nor of the largest
length, that were asked for more frames than a `uint8_t` counts, or whose frames met a full pool. It looks at
what the user stores and asks for and at the pool, never at the octets popped. `QueuesInStep` is claimed for the
other queues: in them the largest length, which segmentation is given, is that of the packet.

### COP-1 over the link

`Cop1` takes the steps of the two ends from their modules (`Fop!...`, `Farm!...`) and adds what
joins them. `uplink` and `downlink` are the sets of all frames and CLCWs ever sent: a
frame that is received stays in the set, so it may be received again, late, after younger ones,
or never. That is every way a medium without corruption can behave (a corrupted
frame fails its CRC and is as good as lost).

`handed`, `delivered` and `confirmed` record what FOP numbered, what FARM accepted and what
FOP takes as acknowledged, and are the refinement mapping: under it every step of `Cop1` is a
step of `InOrderDelivery` or a stutter (`ImplementsDelivery`). `orderly` ends a behaviour
in which the program has already gone wrong in a way a finding shows by itself: a frame in two lists at
once (`fop_sent_queue`), or a frame that went out without a number of its own (`cop1_numbers`).
What a frame's octets are is decided when All Frames Generation reads them.

All services of the service channel for FOP are steps, `acknowledgeFrame` among them: with it the user
says himself that a frame has arrived, and nothing in the code keeps him from saying so of a frame that
FARM never took. What he vouches for is therefore recorded apart (`vouched`), and `InOrderDelivery` promises
of it only that it was handed over; what FOP takes a CLCW to acknowledge (`confirmed`) has been delivered,
also when the user vouches for other frames in between. Left out are `setVs` and `initiateAdVr`, which move V(S)
alone, because the command that would move V(R) along is a TODO in the code (both are in
`FrameOperationProcedure`); `setT1Initial`, `setTimeoutType` and `invalidDirective`, which set what nothing
reads; and `frameTransmission`, whose place the medium takes.

Delivery is a safety property here. Arrival cannot be claimed: a frame that is lost is only
marked for retransmission and never sent again (see the hazard at
`src/FrameOperationProcedure.cpp:85`).

### TM reception

`allFramesReceptionRequestRxTM` tests four things and then acts, `packetExtractionRxTM` takes the
front frame unless the list is *full*. A received frame is a pointer into the caller's
buffer, which is read again at extraction: `buffer` is the caller's memory, and the next-state
relation receives into buffers of which no frame waits. That is an obligation on the
caller that the interface does not state; the tests of the repository keep to it. The CLCW's effect on
FOP is `ValidClcwArrival` of `FrameOperationProcedure` and part of `Cop1`; here `reports` counts them.

### Memory pool

`usedMemory` is the set of the map's entries. The search is in `FindFit`, whose operators take
the map, as there are two pools, one in each sending chain: `Fits` is `findFit` (first place whose
distance to the next block is large enough), `BlocksFor` the blocks that packets stored one after
another get. `held` is the set of blocks a caller has and
has not given back. The property `FirstFit` compares `findFit`, which only looks at
block ends, with the definition of the lowest free range. `OnlyLastBlockLost` bounds the damage
of the strict comparison in `deletePacket`: the block that ends where the memory ends cannot be freed,
but what is lost never adds up to a second block. This holds of the TM chain, which gives back
the lengths it stored; the TC chain tells the pool a wrong length (see the findings) and can lose more.

### TM transmission

Each service is one action over the state of the channels (`lengths`, `octets`,
`frameCount`), the two lists and `masterCopy`. A frame carries the block of the pool that
holds its octets, so the pool is the state of `MemoryPool` itself: `BlocksFor` asks
`findFit` of the pool as it is after the segments made so far, and All Frames Generation
performs `DeletePacket`. Where a frame has
no room, segmentation and blocking stop as the code does: what was popped is gone, frames
already made stay. `storePacketTxTM` accepts packets of length 0. Such a packet needs no frame by the count of
Virtual Channel Generation, which therefore finds room in full lists, and then `blockingTM` makes one: the
push into the full list throws (`ThrowTM`, `thrown`). So do a full map of the pool (50 entries, while 640 octets
hold 53 frames of 12 octets), a full queue of lengths, and a pop of an empty queue.

Two history variables: `refused` holds the channels for which the pool was full in the
middle of a packet, and `spoiled` the frames whose header or data another frame's CRC has
overwritten. Once a channel is refused its two queues disagree, and `SegmentsComplete` and
`OctetsMatchLengths` are not claimed for it; `CountsConsecutive`, `FramesPlaced` and
`MemoryOwned` are. Left out: `currFrameCountTM`, which is always 0 (line 899 assigns it to
itself where it should increment it), secondary headers and the operational control field, which the
constructor used here never sets.

## Runs

| Run | Shows | Bounds |
|---|---|---|
| `farm` | acceptance in order, types, WAIT only when full | numbers {0,1,2,3,255} reach every event with window 2: expected, inside, behind and the far end; sent queue 3, so that full, one below and empty occur; FARM-B counter to 2 |
| `reception` | TC: flags agree with the state, current CLCW, master copies, no throw without MAP, no acceptance while locked out or waiting, and (liveness) FARM's queue drains. TM: packets in order, CLCWs of kept frames only, copies and pointers agree | TC: two MAP channels, or none; one place in each list, so that every "full" occurs; master copies 3. TM: two channels, one with CRC; lists of 3, master copies 4, five frames, so that one channel's list, and the shared one, can be the full one |
| `tc_head_of_line` | finding: a frame with a wrong version number blocks the channel | TC as above |
| `fop` | numbers, acknowledgement, retransmission limit, start and wait of the AD service | numbers modulo 3, so that they wrap; sent queue and slots 2, wait queue and unprocessed list 1; AD and BD frames, which share the lists; limit 2 (other limits rest on the theorem) |
| `fop_sent_queue` | finding: acknowledged frames are freed under the sent queue's pointers | as `fop`, AD frames |
| `fop_window` | finding: the window does not limit | width 1 |
| `fop_ack` | finding: a report acknowledges too much | as `fop_sent_queue` |
| `cop1` | FOP and FARM implement in-order delivery; NN(R) <= V(R) <= V(S) | limits 0, 1 and 2, one for each branch on the limit; FARM takes 2 frames, then waits; FOP's sent queue 2, window 1, three slots and three frames in all, fewer than `Modulus` (4); one step in a behaviour sets the limit or the width, resumes, initiates with Unlock, or acknowledges by hand (`MaxInterventions`) |
| `cop1_numbers` | finding: a frame that FOP rejected goes out all the same | as `cop1` |
| `pool_delete` | finding: the last block cannot be deleted | 9 octets, lengths 1, 2, 3 and the too long 10, 5 blocks |
| `transmission` | both sending chains: frames, copies and blocks agree; TM counts and segments; TC queues; disjoint blocks, first fit, no more than the last block lost; types and capacities; (liveness) the list after VC generation drains | TM: two channels, one that blocks; packets of 0 and 2 octets in fields of 1 and 2, so that frames without an octet, one frame, two packets in a frame, and two segments occur; lists of 2 and 1, three master copies, a pool of 4 octets for frames of 1 to 3, with a map of three entries, so that each can be the one that is full, also between two segments; counts modulo 2; no CRC. TC: AD packets of 0, 2 and 3 octets of which 2 is the largest length, frames of 1 to 3 octets in a pool of 4, queues of two lengths, lists of two entries, so that each throws; 3 as the number of frames that wraps; the weight of the upper length bits 2, so that header lengths are wrong for some frames (in the program, for every length that is no multiple of 4). The other service, BD, has queues of its own and shares the rest; that it changes nothing is left to the proofs |
| `tm_crc` | finding: a CRC is written into another frame | TM as above, with CRC on one channel |

The guards that carry bounds: `FarmBBound` (FARM-B counter), the capacities of all lists,
`Slots`, `MasterCopyCap` and `RxMasterCap` for the master copies, `MaxFrames` (frames
made or received), `MaxInterventions` (see `cop1`).
In `Cop1`, `MaxFrames < Modulus` keeps numbers from wrapping: a frame of one round that is
delayed into the next is indistinguishable from a new one, for this or any medium that delays
without bound. As V(R) is at most the capacity of FARM's sent queue, which is never emptied, the
program does not get there either. `Modulus` stands for 256: FOP's code
only adds one, compares, and wraps, and 3 is the least modulus at which the order of two
frames and the wrap are both visible. `CHECK_DEADLOCK FALSE` is set since the library
may have nothing to do: a full or empty chain waits for its user, and a thrown exception
ends the program.

Slips: each module holds, next to a definition, forms of it with a plausible mistake (a
missing test, a flag left behind, an order swapped). They are named in comments as slips,
belong to no specification, and show for every property that a mistake in the code breaks it.

### Fairness

Safety runs need none. `RxFairSpec` assumes weak fairness of the four reception services
after the first: a user's scheduler calls each of them again and again, as the tests do,
and a service that can do something does it in the call. `storeFrameRxTC` has no fairness:
frames may stop coming. The head-of-line finding is shown under this fairness: the frame
stays although the service is called for ever. `TmFairness` assumes the same of the last two
services of the TM chain, `allFramesGenerationRequestTxTM` with its default target length:
a user who only ever passes targets that are too short waits for ever.

## Findings

1. `tc_head_of_line`: `allFramesReceptionRequestRxTC` returns without removing a frame
   with a wrong version number (`src/CCSDSServiceChannel.cpp:567`), contrary to
   `inc/CCSDSChannel.hpp:558-559`; BD and BC frames always meet this fate.
2. `fop_sent_queue`: `removeAcknowledgedFrames` does not remove from the sent queue
   (`src/FrameOperationProcedure.cpp:110`), contrary to `inc/FrameOperationProcedure.hpp:172`.
3. `fop_window`: the window test reads a number that has not been assigned
   (`src/FrameOperationProcedure.cpp:182`).
4. `fop_ack`: `acknowledgePreviousFrames` reads V(S) after it has moved
   (`src/FrameOperationProcedure.cpp:706`).
5. `pool_delete`: `<` for `<=` in `deletePacket` (`src/MemoryPool.cpp:23`).
6. `cop1_numbers`: `vcGenerationRequestTxTC` stores a frame for transmission whatever FOP
   answered (`src/CCSDSServiceChannel.cpp:284`): a frame that FOP rejected or keeps waiting
   goes out under another frame's number, contrary to `inc/FrameOperationProcedure.hpp:79-80`.
7. `tm_crc`: `appendCRC` takes every TM frame to be 128 octets long and writes into the
   octets of a neighbour in the pool (`inc/TransferFrame.hpp:65-69`).

## Proofs

All theorems hold for every value of the constants allowed by the assumptions of the
modules. These say that capacities, widths and limits are numbers of the size the code's types
have, and two things more: FOP's sent queue holds fewer frames than there are numbers
(`SentQueueCap < Modulus`; 10 and 256 in the code), and in `Cop1` fewer frames are made than there
are numbers (`MaxFrames < Modulus`, the bound that section "Runs" explains).

* `FarmTypeCorrect`, `FarmAcceptsInOrder`, `FarmWaitsOnlyWhenFull` (`FarmProofs`).
  `TypeOK` is inductive because it ties V(R) to the length of the sent queue: the sent
  queue has at most 254 places, so the 16-bit V(R) never wraps nor leaves the range
  of the octet N(S). In-order acceptance needs that V(R) is the successor of
  the last accepted number or 0, which is part of the property; the WAIT invariant needs that
  the sent queue never shrinks. Each step proof has one case per event.
* `RxFlagsAgree`, `RxVcChannelNeverThrows`, `RxAcceptsOnlyWhenReportedOpen`, `RxClcwCurrent`
  (`ReceptionProofs`). They rest on `RxImplementsFarm`: every behaviour of the reception
  chain is one of FARM, so the theorems on FARM hold of the chain. The chain
  brings only AD and AC frames to FARM (`ValidFrames`), hence no command resets a flag behind
  FARM's back and the FARM-B counter stays 0; the CLCW's octets are then those of the flags. That
  the CLCW is current is the base of `RxAcceptsOnlyWhenReportedOpen`.
* `RxTypeCorrect`, `RxMasterCopiesAccounted` (`ReceptionProofs`). The types of the chain are not inductive
  alone: `masterCopies - 1` leaves the numbers unless there is a copy to remove. With MAP channels there
  is one by the accounting itself, as the sum over the lists is at least the length of the list a packet
  leaves; without, extraction never removes a copy, and there are at least as many as frames before and in
  FARM (`Accounted`).
* `TmPacketsInOrder`, `TmRxTypeCorrect`, `TmRxCopiesAccounted`, `TmClcwsOfKeptFrames` (`ReceptionProofs`).
  The order is inductive once it is known that no two
  waiting frames share a buffer (`OwnBuffers`): otherwise a reception overwrites a packet that waits.
  The caller's obligation enters the proof there and nowhere else. The other three stand on that: what
  is extracted is a packet that was received because the order holds, and removing a
  frame from `masterCopy` takes away one waiting frame because no other has its buffer, so that copies and
  lists shrink together (`CopiesWait`). A CLCW goes to FOP in the step that keeps its frame (`ClcwsCounted`).
* `FopRetransmitsWithinLimit`, `FopStartsEmpty`, `FopWaitSendsNothing` (`FopProofs`). The
  inductive invariant is small: the shape of the record, the transmission count in 1..255, the
  limit among the limits. With the count never 0, E8 cannot exceed a limit above 1, because the
  frames it removes reset the count before the retransmission is counted. Each procedure of FOP has a
  lemma on what it leaves alone; the events compose them.
* `FopTypeCorrect`, `FopSentNumberedUpToVs`, `FopAckedFromFront` (`FopProofs`). The types are
  inductive by themselves: every procedure tests the capacity of the list it adds to. That numbers in the
  sent queue are consecutive needs, while `intact`, the invariant `Ready`: frames in front of FOP and in
  its wait queue are in no other list, and are not marked for retransmission nor acknowledged; without
  it, a number given to a waiting frame would also change one that has been sent.
  Acknowledgement from the front needs the consecutive numbers and `SentQueueCap < Modulus`: with
  more places than numbers, a report would name two frames.
* `CopNumbersAgree`, `CopImplementsDelivery` (`Cop1Proofs`, on lemmas of `FopDeliveryProofs`). The
  inductive invariant is claimed while `orderly`. Its half on FOP (`Sound`): V(S) counts `handed`, the
  number of every frame that has one is its place in `handed`, and frames in front of FOP are not
  handed yet. Its half on the link (`Linked`): V(R) counts `delivered`, a prefix of `handed`; every
  CLCW under way reports at most V(R); every frame under way carries the payload `handed[N(S) + 1]`;
  NN(R) <= V(R). Then FARM, which accepts N(S) = V(R) only, appends the next payload of `handed`, and FOP, which
  moves NN(R) to a reported V(R), confirms a prefix of what was delivered. A frame that the user acknowledges is one
  that FOP has numbered, hence handed over. Each service of FOP is
  shown to be an `Advance` (it hands over payloads at the end, or nothing), so that the link's half
  has one argument for all of them.
* `PoolTypeCorrect`, `PoolBlocksDisjoint`, `PoolFirstFit` (`PoolProofs`). The inductive
  invariant is the conjunction of the first two. Disjointness alone is not inductive without the
  types, and `held \subseteq usedMemory` needs disjointness: `deletePacket` erases by start, which is one
  block only because two blocks never share a start (`SameStart`). The heart is `FitIsFree`:
  a place whose distance to the next start is enough overlaps no block at all. First fit is
  the converse: the lowest free range begins where a block ends or at 0, because it could be moved
  down otherwise. It is a lemma about disjoint blocks (`DisjointFirstFit`), so that it holds in the TM chain
  as well (`TmPoolFirstFit`).
* `PoolOnlyLastBlockLost`, `TmOnlyLastBlockLost`: only a block that ends where the memory ends is refused by
  `deletePacket`, and two disjoint blocks cannot both end there (`DeleteLosesLast`). Storing adds a block to the
  map and to those held at once. In the TM chain this needs `TmInv`: the block that All Frames Generation
  gives back is in the map.

* `TmTypesCorrect`, `TmFramesPlaced`, `TmMemoryOwned`, `TmCountsConsecutive`, `TmSegmentsComplete`,
  `TmOctetsMatchLengths` (`TransmissionProofs`). One invariant, `TmInv`, for all six, since each needs some of
  the others: the frames that wait, in the order in which they will be sent (`Waiting`), are the
  master copies, and no two have one block (`OwnBlocks`). So `deletePacket`, which erases by start, takes
  the block of the frame that is sent and no other, and erasing one frame from `masterCopyTxTM` erases
  no frame that waits. A call of Virtual Channel Generation appends frames whose blocks are apart from each
  other and from the pool (`StoredPlaced`), whose counts continue those of the channel, and whose segments
  begin and end where the packet does, unless the pool was full (`FramesMade`, `EnterKeeps`). That as many octets
  leave the queue as the popped lengths say rests on arithmetic of quotients (`FieldsNeeded`) and on the
  sum of the segments (`SegmentsSum`).
* `TcTypesCorrect`, `TcFramesOwnOctets`, `TcQueuesInStep` (`TransmissionProofs`). The invariant `TcInv` says the
  same of the TC pool. The length in a frame's header, which is wrong, does not matter: erasing is by start,
  and a wrong length only decides whether anything is erased, so that a block may stay in use after its frame,
  never the reverse. `QueuesInStep` needs that the queued lengths are 0 or the largest
  (`LengthsRegular`), and that the frames of a packet of the largest length then hold its octets, in spite of the
  subtraction that wraps (`WholePacket`, with `FieldsNeeded` and `SegmentsSum`).

Sums and counts (`SumProofs`). The provers here cannot use induction theorems that take a predicate, so
induction is stated over a set: a set of numbers with 0 and the successor of each of its numbers holds all
(`NumberInduction`, from the least number of a set). The sum that the community modules define by a fold is
shown to count *units*, the pairs of an index and a number up to its summand (`AdderCounts`), so that
the rest is about cardinalities: the sum of a concatenation (`SumConcat`), of one summand more, and of a
family of lists of which one changes (`LengthsChange`).

The assumptions used besides those above: the sets of channels are finite, data field lengths fit into a frame with
their overhead, and every length that a frame can then have is among `Lengths`, the lengths of the blocks.

Only model-checked: `WaitQueueDrains` and `FullListDrains`, as liveness needs ENABLED, which is
out of the prover's reach, and the findings, which are counterexamples.

## Not modelled

Logging, the octets of payloads, CRC computation (its verdict is an input), header
encoding beyond the bits named above, channel configuration (runs once, before any service),
`frameTransmission` (it hands out the octets of the frame object itself, as often as a
count says that nothing initialises, so there is no behaviour of the code to model), the number of octets that
`packetExtractionRxTM` copies, the master channel frame count (always 0 on the sending side,
only logged on the receiving side).

## Plan

1. Done: every service chain, COP-1 over the link with its abstract specification, and the
   theorems above.
2. Done: every safety property that a passing run checks is also a theorem.
3. Left: further facts worth a theorem that no run states, such as when a container of the TC sending
   chain cannot throw.
