------------------------------ MODULE PoolProofs ------------------------------
(***************************************************************************)
(* Theorems about MemoryPool, for every size of the pool and every set of  *)
(* packet lengths.                                                         *)
(***************************************************************************)
EXTENDS MemoryPool, SumProofs

\* Blocks are made of numbers, and none is empty.
LEMMA BlockNumbers ==
  ASSUME NEW b \in Blocks
  PROVE  /\ b.start \in Nat /\ b.len \in Nat /\ b.len > 0
         /\ End(b) \in Nat /\ End(b) > b.start
<1>1. MemorySize \in Nat /\ Lengths \subseteq Nat \ {0}
  BY PoolAssumption
<1>2. b.start \in 0..MemorySize - 1 /\ b.len \in Lengths
  BY DEF Blocks
<1>3. b.len \in Nat /\ b.len > 0
  <2>1. b.len \in Nat /\ b.len # 0
    BY <1>1, <1>2
  <2>2. QED
    BY <2>1
<1>4. b.start \in Nat
  BY <1>1, <1>2
<1>5. QED
  BY <1>3, <1>4 DEF End

\* What is handed out is in the map until its holder gives it back: deletion
\* erases by start, and two blocks never have the same start.
LEMMA SameStart ==
  ASSUME NEW used, Separate(used), used \subseteq Blocks,
         NEW b \in used, NEW c \in used, b.start = c.start
  PROVE  b = c
<1>1. b.start \in Nat /\ c.start \in Nat /\ End(b) > b.start /\ End(c) > c.start
      /\ End(b) \in Nat /\ End(c) \in Nat
  BY BlockNumbers
<1>2. ~Disjoint(b, c)
  BY <1>1 DEF Disjoint
<1>3. QED
  BY <1>2 DEF Separate

\* Where findFit looks, the range is free.
LEMMA PlaceIsFree ==
  ASSUME NEW used, Separate(used), used \subseteq Blocks,
         NEW len \in Lengths, len <= MemorySize, NEW p \in Places(used, len)
  PROVE  p \in 0..MemorySize - 1 /\ FreeRange(used, p, len)
<1>1. len \in Nat /\ len > 0 /\ MemorySize \in Nat
  <2>1. len \in Nat /\ len # 0 /\ MemorySize \in Nat
    BY PoolAssumption
  <2>2. QED
    BY <2>1
<1>2. CASE p = 0 /\ FitsInFront(used, len)
  <2>1. \A c \in used : p + len <= c.start
    BY <1>1, <1>2, BlockNumbers DEF FitsInFront
  <2>2. QED
    BY <1>1, <1>2, <2>1 DEF FreeRange
<1>3. ASSUME NEW b \in used, p = End(b), FitsBehind(used, b, len)
      PROVE  p \in 0..MemorySize - 1 /\ FreeRange(used, p, len)
  <2>1. b.start \in Nat /\ End(b) \in Nat /\ End(b) > b.start
    BY BlockNumbers
  <2>2. p + len <= MemorySize
    BY <1>1, <1>3, <2>1 DEF FitsBehind
  <2>3. ASSUME NEW c \in used
        PROVE  End(c) <= p \/ p + len <= c.start
    <3>1. c.start \in Nat /\ End(c) \in Nat /\ End(c) > c.start
      BY BlockNumbers
    <3>2. CASE c.start > b.start
      <4>1. c.start - End(b) >= len
        BY <1>3, <3>2 DEF FitsBehind
      <4>2. QED
        BY <1>1, <1>3, <2>1, <3>1, <4>1
    <3>3. CASE c.start = b.start
      <4>1. c = b
        BY <3>3, SameStart
      <4>2. QED
        BY <1>3, <2>1, <4>1
    <3>4. CASE c.start < b.start
      <4>1. c # b
        BY <2>1, <3>4
      <4>2. Disjoint(c, b)
        BY <4>1 DEF Separate
      <4>3. QED
        BY <1>3, <2>1, <3>1, <3>4, <4>2 DEF Disjoint
    <3>5. QED
      BY <2>1, <3>1, <3>2, <3>3, <3>4
  <2>4. p \in 0..MemorySize - 1
    BY <1>1, <1>3, <2>1, <2>2
  <2>5. QED
    BY <2>2, <2>3, <2>4 DEF FreeRange
<1>4. QED
  BY <1>2, <1>3 DEF Places

\* A block that findFit chooses overlaps no block in use.
LEMMA FitIsFree ==
  ASSUME NEW used, Separate(used), used \subseteq Blocks,
         NEW p \in Blocks, Fits(used, p.start, p.len)
  PROVE  /\ End(p) <= MemorySize
         /\ \A c \in used : Disjoint(p, c)
<1>1. p.len \in Lengths
  BY DEF Blocks
<1>2. FreeRange(used, p.start, p.len)
  BY <1>1, PlaceIsFree DEF Fits
<1>3. QED
  BY <1>2 DEF FreeRange, Disjoint, End

\* Every free range has one of findFit's places at or before it: the front, or the
\* end of the last block before it.
LEMMA FreeHasPlace ==
  ASSUME NEW used, used \subseteq Blocks, NEW len \in Lengths,
         NEW p \in 0..MemorySize - 1, FreeRange(used, p, len)
  PROVE  \E q \in Places(used, len) : q <= p
<1> DEFINE before == {b \in used : End(b) <= p}
           T == {MemorySize - b.start : b \in before}
<1>1. len \in Nat /\ len > 0 /\ MemorySize \in Nat /\ p \in Nat
  <2>1. len \in Nat /\ len # 0 /\ MemorySize \in Nat
    BY PoolAssumption
  <2>2. QED
    BY <2>1
<1>2. \A b \in used : /\ b.start \in 0..MemorySize - 1 /\ End(b) \in Nat
                            /\ End(b) > b.start
  BY BlockNumbers DEF Blocks
<1>3. \A b \in used : b \notin before => p + len <= b.start
  BY DEF FreeRange
<1>4. CASE before = {}
  <2>1. FitsInFront(used, len)
    BY <1>1, <1>2, <1>3, <1>4 DEF FitsInFront
  <2>2. 0 \in Places(used, len)
    BY <2>1 DEF Places
  <2>3. QED
    BY <1>1, <2>2
<1>5. CASE before # {}
  <2>1. T \subseteq Nat
    BY <1>1, <1>2
  <2>2. T # {}
    BY <1>5
  <2>3. PICK m \in T : \A n \in T : m <= n
    BY <2>1, <2>2, LeastNumber
  <2>4. PICK b \in before : m = MemorySize - b.start
    OBVIOUS
  <2>5. ASSUME NEW c \in before
        PROVE  c.start <= b.start
    <3>1. MemorySize - b.start <= MemorySize - c.start
      BY <2>3, <2>4
    <3>2. b.start \in Nat /\ c.start \in Nat
      BY <1>1, <1>2
    <3>3. QED
      BY <1>1, <3>1, <3>2
  <2>6. ASSUME NEW c \in used, c.start > b.start
        PROVE  c.start - End(b) >= len
    <3>1. c \notin before
      BY <1>2, <2>5, <2>6
    <3>2. p + len <= c.start
      BY <1>3, <3>1
    <3>3. QED
      BY <1>1, <1>2, <3>2
  <2>7. MemorySize - End(b) >= len
    BY <1>1, <1>2 DEF FreeRange
  <2>8. End(b) \in Places(used, len)
    BY <2>6, <2>7 DEF Places, FitsBehind
  <2>9. QED
    BY <2>8
<1>6. QED
  BY <1>4, <1>5

----------------------------------------------------------------------------
(* The frames of one packet are stored one after another.                  *)

\* One more packet, of length lens[i], behind those before it.
Stored(used, lens, i, before) ==
  LET fit == Fitting(used \cup ToSet(before), lens[i])
  IN  IF Len(before) < i - 1 \/ fit = {} THEN before
      ELSE Append(before, CHOOSE b \in fit : TRUE)

\* The function that BlocksFor defines, up to packet m.
Storing(g, used, lens, m) ==
  g = [i \in 0..m |-> IF i = 0 THEN << >> ELSE Stored(used, lens, i, g[i - 1])]

\* There is one for every number of packets.
LEMMA StoringExists ==
  ASSUME NEW used, NEW lens, NEW n \in Nat
  PROVE  \E g : Storing(g, used, lens, n)
<1> DEFINE T == {m \in Nat : \E g : Storing(g, used, lens, m)}
<1>1. 0 \in T
  <2> DEFINE g == [i \in 0..0 |-> << >>]
  <2>1. g = [i \in 0..0 |-> IF i = 0 THEN << >> ELSE Stored(used, lens, i, g[i - 1])]
    OBVIOUS
  <2>2. Storing(g, used, lens, 0)
    BY <2>1 DEF Storing
  <2> HIDE DEF g
  <2>3. QED
    BY <2>2
<1>2. ASSUME NEW m \in Nat, m \in T
      PROVE  m + 1 \in T
  <2>1. PICK g : Storing(g, used, lens, m)
    BY <1>2
  <2>2. /\ g = [i \in 0..m |-> IF i = 0 THEN << >> ELSE Stored(used, lens, i, g[i - 1])]
        /\ \A i \in 0..m : g[i] = IF i = 0 THEN << >> ELSE Stored(used, lens, i, g[i - 1])
    BY <2>1 DEF Storing
  <2> DEFINE h == [i \in 0..m + 1 |->
                     IF i = m + 1 THEN Stored(used, lens, i, g[m]) ELSE g[i]]
  <2>3. \A i \in 0..m + 1 : h[i] = IF i = 0 THEN << >> ELSE Stored(used, lens, i, h[i - 1])
    <3>1. h[0] = << >>
      BY <2>2
    <3>2. ASSUME NEW i \in 1..m
          PROVE  h[i] = Stored(used, lens, i, h[i - 1])
      <4>1. i \in 0..m + 1 /\ i \in 0..m /\ i # m + 1 /\ i # 0
            /\ i - 1 \in 0..m + 1 /\ i - 1 # m + 1
        BY <3>2
      <4>2. h[i] = g[i] /\ h[i - 1] = g[i - 1]
        BY <4>1
      <4>3. g[i] = Stored(used, lens, i, g[i - 1])
        BY <2>2, <4>1
      <4>4. QED
        BY <4>2, <4>3
    <3>3. h[m + 1] = Stored(used, lens, m + 1, h[m])
      OBVIOUS
    <3> HIDE DEF h
    <3>4. ASSUME NEW i \in 0..m + 1
          PROVE  i = 0 \/ i \in 1..m \/ (i = m + 1 /\ i - 1 = m /\ i # 0)
      OBVIOUS
    <3>5. QED
      BY <3>1, <3>2, <3>3, <3>4
  <2>4. h = [i \in 0..m + 1 |-> IF i = 0 THEN << >> ELSE Stored(used, lens, i, h[i - 1])]
    <3>1. h = [i \in 0..m + 1 |-> h[i]]
      OBVIOUS
    <3> HIDE DEF h
    <3>2. QED
      BY <2>3, <3>1
  <2> HIDE DEF h
  <2>5. Storing(h, used, lens, m + 1)
    BY <2>4 DEF Storing
  <2>6. QED
    BY <2>5
<1>3. Nat \subseteq T
  <2> HIDE DEF T
  <2>1. QED
    BY <1>1, <1>2, NumberInduction
<1>4. QED
  BY <1>3

\* The blocks bs are new, of the lengths asked for, and apart from each other and from
\* those in use.
Placed(used, lens, bs) ==
  /\ bs \in Seq(Blocks)
  /\ \A j \in 1..Len(bs) : bs[j].len = lens[j] /\ bs[j] \notin used
  /\ \A j, k \in 1..Len(bs) : bs[j] = bs[k] => j = k
  /\ Separate(used \cup ToSet(bs))

\* Storing one more packet keeps that so.
LEMMA StoredPlaced ==
  ASSUME NEW used, used \subseteq Blocks, NEW lens, NEW i \in Nat \ {0},
         NEW before, Placed(used, lens, before), Len(before) <= i - 1
  PROVE  /\ Placed(used, lens, Stored(used, lens, i, before))
         /\ Len(Stored(used, lens, i, before)) <= i
<1> DEFINE all == used \cup ToSet(before)
           fit == Fitting(all, lens[i])
           b == CHOOSE x \in fit : TRUE
           after == Append(before, b)
<1>1. /\ before \in Seq(Blocks) /\ Len(before) \in Nat
      /\ \A j \in 1..Len(before) : before[j].len = lens[j] /\ before[j] \notin used
      /\ \A j, k \in 1..Len(before) : before[j] = before[k] => j = k
      /\ Separate(all)
  BY DEF Placed
<1>2. CASE Len(before) < i - 1 \/ fit = {}
  <2>1. Stored(used, lens, i, before) = before
    BY <1>2 DEF Stored
  <2>2. QED
    BY <1>1, <2>1
<1>3. CASE Len(before) = i - 1 /\ fit # {}
  <2>1. Stored(used, lens, i, before) = after
    <3>1. ~ (Len(before) < i - 1) /\ fit # {}
      <4> HIDE DEF fit
      <4>1. QED
        BY <1>1, <1>3
    <3>2. QED
      BY <3>1 DEF Stored
  <2>2. b \in Blocks /\ b.len = lens[i] /\ Fits(all, b.start, b.len)
    <3>1. b \in fit
      BY <1>3
    <3> HIDE DEF b
    <3>2. QED
      BY <3>1 DEF Fitting
  <2>3. all \subseteq Blocks
    BY <1>1 DEF ToSet
  <2> HIDE DEF b
  <2>4. End(b) <= MemorySize /\ \A c \in all : Disjoint(b, c) /\ Disjoint(c, b)
    <3> HIDE DEF all
    <3>1. End(b) <= MemorySize /\ \A c \in all : Disjoint(b, c)
      BY <1>1, <2>2, <2>3, FitIsFree
    <3>2. QED
      BY <3>1 DEF Disjoint
  <2>5. ~Disjoint(b, b)
    <3>1. b.start \in Nat /\ End(b) \in Nat /\ End(b) > b.start
      BY <2>2, BlockNumbers
    <3>2. QED
      BY <3>1 DEF Disjoint
  <2>6. b \notin all
    BY <2>4, <2>5
  <2>7. /\ after \in Seq(Blocks) /\ Len(after) = i /\ after[i] = b
        /\ \A j \in 1..Len(before) : after[j] = before[j]
    BY <1>1, <1>3, <2>2
  <2>8. ToSet(after) = ToSet(before) \cup {b}
    <3>1. DOMAIN after = DOMAIN before \cup {i} /\ DOMAIN before = 1..Len(before)
      BY <1>1, <1>3, <2>2
    <3>2. QED
      BY <2>7, <3>1 DEF ToSet
  <2>9. used \cup ToSet(after) = all \cup {b}
    BY <2>8
  <2>10. Separate(all \cup {b})
    <3> HIDE DEF all
    <3>1. QED
      BY <1>1, <2>4 DEF Separate
  <2>11. \A j \in 1..Len(before) : before[j] \in ToSet(before)
    BY <1>1 DEF ToSet
  <2>12. \A j \in 1..i : j = i \/ j \in 1..Len(before)
    BY <1>1, <1>3
  <2> HIDE DEF after
  <2>13. \A j \in 1..Len(after) : after[j].len = lens[j] /\ after[j] \notin used
    BY <1>1, <2>2, <2>6, <2>7, <2>12
  <2>14. \A j, k \in 1..Len(after) : after[j] = after[k] => j = k
    BY <1>1, <2>6, <2>7, <2>11, <2>12
  <2>15. Placed(used, lens, after)
    BY <2>7, <2>9, <2>10, <2>13, <2>14 DEF Placed
  <2>16. QED
    BY <2>1, <2>7, <2>15
<1>4. (Len(before) < i - 1 \/ fit = {}) \/ (Len(before) = i - 1 /\ fit # {})
  <2>1. Len(before) < i - 1 \/ Len(before) = i - 1
    BY <1>1
  <2> HIDE DEF fit
  <2>2. QED
    BY <2>1
<1>5. QED
  BY <1>2, <1>3, <1>4

\* What BlocksFor returns is a block for each of the packets up to some packet: of its
\* length, and apart from the others and from those that were in use.
LEMMA BlocksForPlaced ==
  ASSUME NEW used, used \subseteq Blocks, Separate(used), NEW lens, Len(lens) \in Nat
  PROVE  /\ Placed(used, lens, BlocksFor(used, lens))
         /\ Len(BlocksFor(used, lens)) <= Len(lens)
<1> DEFINE n == Len(lens)
           g == CHOOSE h : Storing(h, used, lens, n)
           T == {i \in Nat : i <= n => Placed(used, lens, g[i]) /\ Len(g[i]) <= i}
<1>1. Storing(g, used, lens, n)
  <2> HIDE DEF n
  <2>1. n \in Nat
    BY DEF n
  <2>2. \E h : Storing(h, used, lens, n)
    BY <2>1, StoringExists
  <2>3. QED
    BY <2>2
<1>2. BlocksFor(used, lens) = g[n]
  BY DEF BlocksFor, Storing, Stored
<1> HIDE DEF g
<1>3. \A i \in 0..n : g[i] = IF i = 0 THEN << >> ELSE Stored(used, lens, i, g[i - 1])
  BY <1>1 DEF Storing
<1>4. 0 \in T
  <2>1. g[0] = << >>
    BY <1>3
  <2>2. used \cup ToSet(<< >>) = used
    BY DEF ToSet
  <2>3. Placed(used, lens, << >>)
    <3>1. << >> \in Seq(Blocks) /\ 1..Len(<< >>) = {}
      OBVIOUS
    <3>2. QED
      BY <2>2, <3>1 DEF Placed
  <2>4. QED
    BY <2>1, <2>3
<1>5. ASSUME NEW i \in Nat, i \in T
      PROVE  i + 1 \in T
  <2>1. SUFFICES ASSUME i + 1 <= n
                 PROVE  Placed(used, lens, g[i + 1]) /\ Len(g[i + 1]) <= i + 1
    OBVIOUS
  <2>2. Placed(used, lens, g[i]) /\ Len(g[i]) <= i
    BY <1>5, <2>1
  <2>3. g[i + 1] = Stored(used, lens, i + 1, g[i])
    BY <1>3, <2>1
  <2>4. i + 1 \in Nat \ {0} /\ (i + 1) - 1 = i
    OBVIOUS
  <2>5. QED
    BY <2>2, <2>3, <2>4, StoredPlaced
<1>6. n \in T
  <2> HIDE DEF T
  <2>1. Nat \subseteq T
    BY <1>4, <1>5, NumberInduction
  <2>2. QED
    BY <2>1
<1>7. QED
  BY <1>2, <1>6

----------------------------------------------------------------------------
(* The pool's invariant and theorems.                                      *)

\* The invariant: types and disjointness need each other, because deletion by
\* start removes only the block meant when starts are unique.
PoolInv == TypeOK /\ BlocksDisjoint

LEMMA PoolInvariant == Spec => []PoolInv
<1>1. Init => PoolInv
  BY DEF Init, PoolInv, TypeOK, BlocksDisjoint, Separate
<1>2. PoolInv /\ [Next]_vars => PoolInv'
  <2> SUFFICES ASSUME PoolInv, [Next]_vars
               PROVE  PoolInv'
    OBVIOUS
  <2> USE DEF PoolInv
  <2>1. ASSUME NEW len \in Lengths, AllocatePacket(len)
        PROVE  PoolInv'
    <3>1. PICK p \in Blocks : /\ p.len = len /\ Fits(usedMemory, p.start, len)
                              /\ usedMemory' = usedMemory \cup {p}
                              /\ held' = held \cup {p}
      BY <2>1 DEF AllocatePacket, Fitting
    <3>2. End(p) <= MemorySize /\ \A c \in usedMemory : Disjoint(p, c)
      BY <3>1, FitIsFree DEF TypeOK, BlocksDisjoint
    <3>3. TypeOK'
      BY <3>1 DEF TypeOK
    <3>4. \A c \in usedMemory : Disjoint(c, p)
      BY <3>2 DEF Disjoint
    <3>5. BlocksDisjoint'
      BY <3>1, <3>2, <3>4 DEF BlocksDisjoint, Separate
    <3>6. QED
      BY <3>3, <3>5
  <2>2. ASSUME NEW b \in held, DeletePacket(b)
        PROVE  PoolInv'
    <3>1. usedMemory' \subseteq usedMemory
      BY <2>2 DEF DeletePacket
    <3>2. held' \subseteq usedMemory'
      <4> SUFFICES ASSUME NEW c \in held'
                   PROVE  c \in usedMemory'
        OBVIOUS
      <4>1. c \in usedMemory /\ c # b /\ b \in usedMemory
        BY <2>2 DEF DeletePacket, TypeOK
      <4>2. c.start # b.start
        BY <4>1, SameStart DEF TypeOK, BlocksDisjoint
      <4>3. QED
        BY <2>2, <4>1, <4>2 DEF DeletePacket
    <3>3. QED
      BY <3>1, <3>2 DEF TypeOK, BlocksDisjoint, Separate
  <2>3. CASE UNCHANGED vars
    BY <2>3 DEF vars, TypeOK, BlocksDisjoint
  <2>4. QED
    BY <2>1, <2>2, <2>3 DEF Next
<1>3. QED
  BY <1>1, <1>2, PTL DEF Spec

\* What is handed out stays in the map until it is given back.
THEOREM PoolTypeCorrect == Spec => []TypeOK
<1>1. PoolInv => TypeOK
  BY DEF PoolInv
<1>2. QED
  BY <1>1, PoolInvariant, PTL

\* No octet of the pool ever belongs to two frames, and none lies outside it.
THEOREM PoolBlocksDisjoint == Spec => []BlocksDisjoint
<1>1. PoolInv => BlocksDisjoint
  BY DEF PoolInv
<1>2. QED
  BY <1>1, PoolInvariant, PTL

\* findFit finds the lowest free range of the length, anywhere in the pool, and none
\* exactly when there is none, although it looks only where blocks begin and end:
\* all it needs is that the blocks in use are apart.
LEMMA DisjointFirstFit ==
  ASSUME BlocksDisjoint, usedMemory \subseteq Blocks
  PROVE  FirstFit
<1> SUFFICES ASSUME NEW len \in Lengths
             PROVE  LET free == {p \in 0..MemorySize - 1 : FreeRange(usedMemory, p, len)}
                    IN  /\ \A p \in 0..MemorySize - 1 :
                             Fits(usedMemory, p, len) <=> p \in free /\ \A q \in free : p <= q
                        /\ free # {} => \E p \in free : Fits(usedMemory, p, len)
  BY DEF FirstFit
<1> DEFINE free == {p \in 0..MemorySize - 1 : FreeRange(usedMemory, p, len)}
<1>1. MemorySize \in Nat /\ len \in Nat
  BY PoolAssumption
<1>2. len <= MemorySize => Places(usedMemory, len) \subseteq free
  BY PlaceIsFree DEF BlocksDisjoint
<1>3. \A q \in free : \E r \in Places(usedMemory, len) : r <= q
  BY FreeHasPlace
<1>4. free # {} => len <= MemorySize
  BY <1>1 DEF FreeRange
<1>5. free \subseteq Nat
  BY <1>1
<1>6. ASSUME NEW p \in 0..MemorySize - 1, Fits(usedMemory, p, len)
      PROVE  p \in free /\ \A q \in free : p <= q
  <2>1. p \in free
    BY <1>2, <1>6 DEF Fits
  <2>2. ASSUME NEW q \in free
        PROVE  p <= q
    <3>1. PICK r \in Places(usedMemory, len) : r <= q
      BY <1>3
    <3>2. p <= r /\ r \in free
      BY <1>2, <1>6 DEF Fits
    <3>3. QED
      BY <1>5, <2>1, <3>1, <3>2
  <2>3. QED
    BY <2>1, <2>2
<1>7. ASSUME NEW p \in free, \A q \in free : p <= q
      PROVE  Fits(usedMemory, p, len)
  <2>1. len <= MemorySize
    BY <1>4
  <2>2. PICK r \in Places(usedMemory, len) : r <= p
    BY <1>3
  <2>3. r \in free /\ p <= r
    BY <1>2, <1>7, <2>1
  <2>4. r = p
    BY <1>5, <2>2, <2>3
  <2>5. QED
    BY <1>2, <1>7, <2>1, <2>2, <2>4 DEF Fits
<1>8. free # {} => \E p \in free : \A q \in free : p <= q
  BY <1>5, LeastNumber
<1>9. QED
  BY <1>6, <1>7, <1>8

\* findFit is first fit, in every state of the pool.
THEOREM PoolFirstFit == Spec => []FirstFit
<1>1. PoolInv => FirstFit
  BY DisjointFirstFit DEF PoolInv, TypeOK
<1>2. QED
  BY <1>1, PoolInvariant, PTL

\* What deletePacket refuses is the block at the end of the pool, and no other block can be
\* there beside it.
LEMMA DeleteLosesLast ==
  ASSUME BlocksDisjoint, usedMemory \subseteq Blocks, OnlyLastBlockLost,
         NEW b \in usedMemory, DeletePacket(b)
  PROVE  OnlyLastBlockLost'
<1> DEFINE lost == usedMemory \ held
<1>1. MemorySize \in Nat
  BY PoolAssumption
<1>2. \A c \in usedMemory : End(c) \in Nat /\ c.start \in Nat /\ End(c) > c.start
                              /\ End(c) <= MemorySize
  BY BlockNumbers DEF BlocksDisjoint, Separate
<1>3. \A c \in lost : End(c) = MemorySize /\ \A d \in lost : c = d
  BY DEF OnlyLastBlockLost
<1>4. CASE End(b) < MemorySize
  <2>1. usedMemory' = {u \in usedMemory : u.start # b.start} /\ held' = held \ {b}
    BY <1>4 DEF DeletePacket
  <2>2. usedMemory' \ held' \subseteq lost
    BY <2>1
  <2>3. QED
    BY <1>3, <2>2 DEF OnlyLastBlockLost
<1>5. CASE ~(End(b) < MemorySize)
  <2>1. usedMemory' = usedMemory /\ held' = held \ {b}
    BY <1>5 DEF DeletePacket
  <2>2. End(b) = MemorySize
    BY <1>1, <1>2, <1>5
  <2>3. ASSUME NEW c \in usedMemory, End(c) = MemorySize
        PROVE  c = b
    <3>1. ~Disjoint(b, c)
      BY <1>1, <1>2, <2>2, <2>3 DEF Disjoint
    <3>2. QED
      BY <3>1 DEF BlocksDisjoint, Separate
  <2>4. usedMemory' \ held' \subseteq lost \cup {b}
    BY <2>1
  <2>5. \A c \in usedMemory' \ held' : End(c) = MemorySize /\ c = b
    BY <1>3, <2>2, <2>3, <2>4
  <2>6. QED
    BY <2>5 DEF OnlyLastBlockLost
<1>6. QED
  BY <1>4, <1>5

\* However long the pool is used, at most the one block at its end is lost.
THEOREM PoolOnlyLastBlockLost == Spec => []OnlyLastBlockLost
<1>1. Init => OnlyLastBlockLost
  BY DEF Init, OnlyLastBlockLost
<1>2. PoolInv /\ OnlyLastBlockLost /\ [Next]_vars => OnlyLastBlockLost'
  <2> SUFFICES ASSUME PoolInv, OnlyLastBlockLost, [Next]_vars
               PROVE  OnlyLastBlockLost'
    OBVIOUS
  <2>1. ASSUME NEW len \in Lengths, AllocatePacket(len)
        PROVE  OnlyLastBlockLost'
    <3>1. usedMemory' \ held' \subseteq usedMemory \ held
      BY <2>1 DEF AllocatePacket
    <3>2. QED
      BY <3>1 DEF OnlyLastBlockLost
  <2>2. ASSUME NEW b \in held, DeletePacket(b)
        PROVE  OnlyLastBlockLost'
    BY <2>2, DeleteLosesLast DEF PoolInv, TypeOK
  <2>3. CASE UNCHANGED vars
    BY <2>3 DEF vars, OnlyLastBlockLost
  <2>4. QED
    BY <2>1, <2>2, <2>3 DEF Next
<1>3. QED
  BY <1>1, <1>2, PoolInvariant, PTL DEF Spec
=============================================================================
