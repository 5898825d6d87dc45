------------------------------- MODULE FindFit -------------------------------
(***************************************************************************)
(* The search of the pool that holds the octets of frames (findFit of      *)
(* src/MemoryPool.cpp): a fixed array and an ordered map from the start of *)
(* each block in use to its length.  A block is put first fit.  The        *)
(* operators take the map, `used`, as the set of its entries: the pools of *)
(* the two sending chains are of the same kind.                            *)
(***************************************************************************)
EXTENDS Integers, FiniteSets, SequencesExt

CONSTANTS
  MemorySize,   \* MemoryPoolMemorySize (640)
  MaxPackets,   \* MaxAllocatedPackets (50), the capacity of the map
  Lengths       \* the lengths of the packets stored

ASSUME PoolAssumption ==
  /\ MemorySize \in Nat \ {0}
  /\ MaxPackets \in Nat \ {0}
  /\ Lengths \subseteq Nat \ {0}

Blocks == [start : 0..MemorySize - 1, len : Lengths]

End(b) == b.start + b.len

\* The packet fits in front of the first block, or the pool is empty.
FitsInFront(used, len) == \A b \in used : b.start >= len

\* The packet fits behind block b: the next block, or the end of the array, is
\* at least len away.
FitsBehind(used, b, len) ==
  /\ \A c \in used : c.start > b.start => c.start - End(b) >= len
  /\ MemorySize - End(b) >= len

\* Slip: the gap behind the last block is not measured.
PlacesNoEnd(used, len) ==
  {p \in {0} \cup {End(b) : b \in used} :
     \/ p = 0 /\ FitsInFront(used, len)
     \/ \E b \in used :
          p = End(b) /\ \A c \in used : c.start > b.start => c.start - End(b) >= len}

\* Slip: the end of the pool is never used.
PlacesInside(used, len) ==
  {p \in {0} \cup {End(b) : b \in used} :
     \/ p = 0 /\ FitsInFront(used, len)
     \/ \E b, c \in used : p = End(b) /\ FitsBehind(used, b, len) /\ c.start > b.start}

\* The places where a packet of this length can go, of which findFit takes the
\* first.
Places(used, len) ==
  {p \in {0} \cup {End(b) : b \in used} :
     \/ p = 0 /\ FitsInFront(used, len)
     \/ \E b \in used : p = End(b) /\ FitsBehind(used, b, len)}

\* A packet longer than the pool has no place (NO_SPACE), not even the first.
Fits(used, p, len) ==
  len <= MemorySize /\ p \in Places(used, len) /\ \A q \in Places(used, len) : p <= q

\* The block that a packet of this length gets: one, or none.
Fitting(used, len) == {b \in Blocks : b.len = len /\ Fits(used, b.start, len)}

\* Slip: a packet is placed as if those before it were not yet in the pool.
BlocksForgetting(used, lens) ==
  LET fit == [i \in DOMAIN lens |-> Fitting(used, lens[i])]
  IN  IF {} \in {fit[i] : i \in DOMAIN lens} THEN <<>>
      ELSE [i \in DOMAIN lens |-> CHOOSE b \in fit[i] : TRUE]

\* The blocks for packets of these lengths, stored one after another up to the first for
\* which the pool has no room.
BlocksFor(used, lens) ==
  LET placed[i \in 0..Len(lens)] ==
        IF i = 0 THEN <<>>
        ELSE LET before == placed[i - 1]
                 fit == Fitting(used \cup ToSet(before), lens[i])
             IN  IF Len(before) < i - 1 \/ fit = {} THEN before
                 ELSE Append(before, CHOOSE b \in fit : TRUE)
  IN  placed[Len(lens)]

Disjoint(b, c) == End(b) <= c.start \/ End(c) <= b.start

\* No octet belongs to two blocks and none lies outside the pool.
Separate(used) ==
  /\ \A b \in used : End(b) <= MemorySize
  /\ \A b, c \in used : b # c => Disjoint(b, c)
=============================================================================
