------------------------------ MODULE MemoryPool ------------------------------
(***************************************************************************)
(* The pool that holds the octets of the frames (src/MemoryPool.cpp): a    *)
(* packet is stored where the search of FindFit puts it; the holder gives  *)
(* the block back with the pointer it got.  The octets themselves are left *)
(* out.                                                                    *)
(***************************************************************************)
EXTENDS FindFit

VARIABLES
  usedMemory,   \* the map, as the set of its entries
  held          \* history: blocks handed out and not yet given back

vars == <<usedMemory, held>>

Init == usedMemory = {} /\ held = {}

----------------------------------------------------------------------------
\* allocatePacket that finds a place; otherwise it returns nullptr and changes
\* nothing.  An entry more than the map holds would throw.
AllocatePacket(len) ==
  /\ Cardinality(usedMemory) < MaxPackets
  /\ \E p \in Fitting(usedMemory, len) :
       /\ usedMemory' = usedMemory \cup {p}
       /\ held' = held \cup {p}

\* Slip: the block in front goes too.
DeleteBefore(b) ==
  /\ usedMemory' = {u \in usedMemory : u.start # b.start /\ End(u) # b.start}
  /\ held' = held \ {b}

\* Slip: the index 0 is taken for none.
DeleteNotFirst(b) ==
  /\ usedMemory' = IF b.start > 0 /\ End(b) < MemorySize
                   THEN {u \in usedMemory : u.start # b.start} ELSE usedMemory
  /\ held' = held \ {b}

\* deletePacket by the holder of b, with the length it stored.  The strict
\* comparison excludes the block that ends where the pool ends.
DeletePacket(b) ==
  /\ usedMemory' = IF End(b) < MemorySize
                   THEN {u \in usedMemory : u.start # b.start} ELSE usedMemory
  /\ held' = held \ {b}

Next ==
  \/ \E len \in Lengths : AllocatePacket(len)
  \/ \E b \in held : DeletePacket(b)

Spec == Init /\ [][Next]_vars

----------------------------------------------------------------------------
(* Properties.                                                             *)

\* The entries are blocks, and the holders' blocks are among them: what is
\* handed out is never forgotten.  (deletePacket erases by start alone)
TypeOK == usedMemory \subseteq Blocks /\ held \subseteq usedMemory

\* No octet belongs to two frames and none lies outside the pool.
\* (findFit trusts that the map's blocks do not overlap)
BlocksDisjoint == Separate(usedMemory)

\* The reference for findFit: the octets from p to p + len - 1 are free.
FreeRange(used, p, len) ==
  p + len <= MemorySize /\ \A b \in used : End(b) <= p \/ p + len <= b.start

\* findFit finds the lowest free range of the length, anywhere in the pool, and
\* none exactly when there is none.  (it only looks where blocks begin and end)
FirstFit ==
  \A len \in Lengths :
    LET free == {p \in 0..MemorySize - 1 : FreeRange(usedMemory, p, len)}
    IN  /\ \A p \in 0..MemorySize - 1 :
             Fits(usedMemory, p, len) <=> p \in free /\ \A q \in free : p <= q
        /\ free # {} => \E p \in free : Fits(usedMemory, p, len)

\* However long the pool is used, no more than one block is lost to it, and that one ends
\* where the pool does: what deletePacket refuses never adds up.
\* (its comparison is off by one octet, and nobody gives such a block back again)
OnlyLastBlockLost ==
  \A b \in usedMemory \ held :
    End(b) = MemorySize /\ \A c \in usedMemory \ held : b = c

\* What MemoryPool.hpp says of deletePacket: the packet's data is deleted, and
\* only a packet that is not found is refused.  So only held blocks are in use.
GivenBackIsFree == usedMemory \subseteq held
=============================================================================
