-------------------------- MODULE TransmissionProofs --------------------------
(***************************************************************************)
(* Theorems about the two sending chains, for every number of channels,    *)
(* size of the pool and capacity of the lists.                             *)
(***************************************************************************)
EXTENDS TmTransmission, TcTransmission, PoolProofs

----------------------------------------------------------------------------
(* Arithmetic.                                                             *)

\* A multiple of m that is nearer to 0 than m is 0.
LEMMA SmallMultiple ==
  ASSUME NEW m \in Nat, m > 0, NEW k \in Int, m * k < m, - m < m * k
  PROVE  k = 0
<1>1. k >= 1 => m * k >= m
  OBVIOUS
<1>2. k <= -1 => m * k <= - m
  OBVIOUS
<1>3. k >= 1 \/ k <= -1 \/ k = 0
  OBVIOUS
<1>4. m * k \in Int
  OBVIOUS
<1>5. QED
  BY <1>1, <1>2, <1>3, <1>4

\* A number is a multiple of m and its remainder.
LEMMA Remainder ==
  ASSUME NEW a \in Int, NEW m \in Nat, m > 0
  PROVE  a = m * (a \div m) + (a % m) /\ a \div m \in Int /\ a % m \in 0..m - 1
OBVIOUS

\* Two numbers in one residue class have the same remainder.
LEMMA SameRemainder ==
  ASSUME NEW a \in Int, NEW b \in Int, NEW k \in Int, NEW m \in Nat, m > 0, a = b + m * k
  PROVE  a % m = b % m
<1> DEFINE p == a \div m
           q == b \div m
           r == a % m
           t == b % m
<1>1. a = m * p + r /\ p \in Int /\ r \in 0..m - 1
  BY Remainder
<1>2. b = m * q + t /\ q \in Int /\ t \in 0..m - 1
  BY Remainder
<1> HIDE DEF p, q, r, t
<1>3. m * p + r = m * q + t + m * k
  BY <1>1, <1>2
<1>4. m * (p - q - k) = t - r
  BY <1>1, <1>2, <1>3
<1>5. p - q - k = 0
  BY <1>1, <1>2, <1>4, SmallMultiple
<1>6. r = t
  BY <1>1, <1>2, <1>4, <1>5
<1>7. QED
  BY <1>6 DEF r, t

\* It is the same to count back from a number and from its remainder.
LEMMA CountBack ==
  ASSUME NEW a \in Int, NEW b \in Int, NEW m \in Nat, m > 0
  PROVE  ((a % m) - b) % m = (a - b) % m
<1>1. a = m * (a \div m) + (a % m) /\ a \div m \in Int /\ a % m \in Int
  BY Remainder
<1>2. a - b = ((a % m) - b) + m * (a \div m)
  BY <1>1
<1>3. QED
  BY <1>1, <1>2, SameRemainder

\* A packet of so many octets takes that many fields, the last one not empty.
LEMMA FieldsNeeded ==
  ASSUME NEW l \in Nat, NEW d \in Nat, d > 0
  PROVE  /\ (l + d - 1) \div d \in Nat
         /\ ((l + d - 1) \div d) * d >= l
         /\ (((l + d - 1) \div d) - 1) * d < l
<1> DEFINE n == (l + d - 1) \div d
           r == (l + d - 1) % d
<1>1. l + d - 1 = d * n + r /\ n \in Int /\ r \in 0..d - 1
  BY Remainder
<1> HIDE DEF n, r
<1>2. n * d = d * n /\ (n - 1) * d = d * n - d /\ d * n \in Int
  BY <1>1
<1>3. n * d >= l /\ (n - 1) * d < l
  BY <1>1, <1>2
<1>4. n >= 0
  <2>1. n <= -1 => d * n <= - d
    BY <1>1
  <2>2. d * n > - d
    BY <1>1, <1>2
  <2>3. QED
    BY <1>1, <1>2, <2>1, <2>2
<1>5. QED
  BY <1>1, <1>3, <1>4 DEF n

----------------------------------------------------------------------------
(* The octets of a packet.                                                 *)

\* The sum of a number taken several times is the product.
LEMMA ConstantSum ==
  ASSUME NEW k \in Nat, NEW d \in Nat
  PROVE  SumFunction([i \in 1..k |-> d]) = k * d
<1> DEFINE s == [i \in 1..k |-> d]
<1>1. s \in Seq(Nat)
  OBVIOUS
<1>2. Units(s, DOMAIN s) = (1..k) \X (1..d)
  BY DEF Units
<1>3. /\ IsFiniteSet(1..k) /\ Cardinality(1..k) = k
      /\ IsFiniteSet(1..d) /\ Cardinality(1..d) = d
  BY FS_Interval
<1>4. Cardinality((1..k) \X (1..d)) = Cardinality(1..k) * Cardinality(1..d)
  BY <1>3, FS_Product
<1>5. SumFunction(s) = Cardinality((1..k) \X (1..d))
  BY <1>1, <1>2, SumOfSequence
<1>6. QED
  BY <1>3, <1>4, <1>5

\* The octets of the segments of a packet of l octets: full fields, and what is left.
Segments(l, d, n) == [i \in 1..n |-> IF i < n THEN d ELSE l - (n - 1) * d]

\* They are as many as the packet's.
LEMMA SegmentsSum ==
  ASSUME NEW l \in Nat, NEW d \in Nat, NEW n \in Nat \ {0}, (n - 1) * d <= l
  PROVE  /\ Segments(l, d, n) \in Seq(Nat)
         /\ SumFunction(Segments(l, d, n)) = l
<1> DEFINE full == [i \in 1..n - 1 |-> d]
           rest == l - (n - 1) * d
<1>1. n - 1 \in Nat /\ (n - 1) * d \in Nat
  OBVIOUS
<1>2. rest \in Nat
  BY <1>1
<1> HIDE DEF rest
<1>3. full \in Seq(Nat) /\ Len(full) = n - 1
  BY <1>1
<1>4. Segments(l, d, n) = [i \in 1..n |-> IF i < n THEN d ELSE rest]
  BY DEF Segments, rest
<1>5. [i \in 1..n |-> IF i < n THEN d ELSE rest] = Append(full, rest)
  <2> DEFINE a == [i \in 1..n |-> IF i < n THEN d ELSE rest]
  <2>1. a \in Seq(Nat) /\ Len(a) = n /\ \A i \in 1..n : a[i] = IF i < n THEN d ELSE rest
    BY <1>2
  <2>2. /\ Append(full, rest) \in Seq(Nat) /\ Len(Append(full, rest)) = n
        /\ \A i \in 1..n : Append(full, rest)[i] = IF i < n THEN full[i] ELSE rest
    <3>1. /\ Append(full, rest) \in Seq(Nat) /\ Len(Append(full, rest)) = Len(full) + 1
          /\ \A i \in 1..Len(full) : Append(full, rest)[i] = full[i]
          /\ Append(full, rest)[Len(full) + 1] = rest
      BY <1>2, <1>3, AppendProperties
    <3> HIDE DEF full
    <3>2. QED
      BY <1>1, <1>3, <3>1
  <2>3. \A i \in 1..n : i < n => full[i] = d
    OBVIOUS
  <2> HIDE DEF a, full
  <2>4. \A i \in 1..n : a[i] = Append(full, rest)[i]
    BY <2>1, <2>2, <2>3
  <2>5. a = Append(full, rest)
    BY <2>1, <2>2, <2>4, SeqEqual
  <2>6. QED
    BY <2>5 DEF a
<1>6. Append(full, rest) \in Seq(Nat) /\ SumFunction(Append(full, rest)) = SumFunction(full) + rest
  BY <1>2, <1>3, SumAppend
<1>7. SumFunction(full) = (n - 1) * d
  BY <1>1, ConstantSum
<1>8. (n - 1) * d + rest = l
  BY <1>1 DEF rest
<1> HIDE DEF full
<1>9. QED
  BY <1>4, <1>5, <1>6, <1>7, <1>8

\* A prefix and the rest hold members of the sequence.
LEMMA SplitTyped ==
  ASSUME NEW S, NEW s \in Seq(S), NEW k \in 0..Len(s)
  PROVE  SubSeq(s, 1, k) \in Seq(S) /\ SubSeq(s, k + 1, Len(s)) \in Seq(S)
OBVIOUS

\* A prefix has no more octets than the whole.
LEMMA PrefixSum ==
  ASSUME NEW s \in Seq(Nat), NEW k \in 0..Len(s)
  PROVE  SumFunction(SubSeq(s, 1, k)) \in 0..SumFunction(s)
<1>1. SubSeq(s, 1, k) \in Seq(Nat) /\ SubSeq(s, k + 1, Len(s)) \in Seq(Nat)
  OBVIOUS
<1>2. /\ SumFunction(SubSeq(s, 1, k)) \in Nat
      /\ SumFunction(SubSeq(s, k + 1, Len(s))) \in Nat
      /\ SumFunction(s) \in Nat
  BY <1>1, SumOfSequence
<1>3. QED
  BY <1>2, SumSplit

----------------------------------------------------------------------------
(* Sequences without repetition.                                           *)

Distinct(s) == \A i, j \in 1..Len(s) : s[i] = s[j] => i = j

\* Such a sequence has as many members as places.
LEMMA DistinctCount ==
  ASSUME NEW S, NEW s \in Seq(S), Distinct(s)
  PROVE  IsFiniteSet(ToSet(s)) /\ Cardinality(ToSet(s)) = Len(s)
<1>1. s \in [1..Len(s) -> S] /\ DOMAIN s = 1..Len(s) /\ Len(s) \in Nat
  OBVIOUS
<1>2. ToSet(s) = {s[i] : i \in 1..Len(s)}
  BY <1>1 DEF ToSet
<1>3. s \in [1..Len(s) -> ToSet(s)]
  BY <1>1, <1>2
<1>4. \A t \in ToSet(s) : \E i \in 1..Len(s) : s[i] = t
  BY <1>2
<1>5. s \in Bijection(1..Len(s), ToSet(s))
  BY <1>3, <1>4, Fun_IsBij DEF Distinct
<1>6. ExistsBijection(1..Len(s), ToSet(s))
  BY <1>5 DEF ExistsBijection
<1>7. IsFiniteSet(1..Len(s)) /\ Cardinality(1..Len(s)) = Len(s)
  <2>1. \A n \in Nat : IsFiniteSet(1..n) /\ Cardinality(1..n) = n
    BY FS_Interval
  <2>2. QED
    BY <1>1, <2>1
<1>8. QED
  BY <1>6, <1>7, FS_Bijection

\* The members of two sequences one after the other.
LEMMA ConcatMembers ==
  ASSUME NEW S, NEW s \in Seq(S), NEW t \in Seq(S)
  PROVE  ToSet(s \o t) = ToSet(s) \cup ToSet(t)
<1> DEFINE c == s \o t
<1>1. /\ c \in Seq(S) /\ Len(c) = Len(s) + Len(t) /\ Len(s) \in Nat /\ Len(t) \in Nat
      /\ \A i \in 1..Len(s) : c[i] = s[i]
      /\ \A i \in 1..Len(t) : c[i + Len(s)] = t[i]
  OBVIOUS
<1>2. DOMAIN c = 1..Len(c) /\ DOMAIN s = 1..Len(s) /\ DOMAIN t = 1..Len(t)
  OBVIOUS
<1> HIDE DEF c
<1>3. \A i \in 1..Len(s) : i \in 1..Len(c)
  BY <1>1
<1>4. \A i \in 1..Len(t) : i + Len(s) \in 1..Len(c)
  BY <1>1
<1>5. \A i \in 1..Len(c) : i \in 1..Len(s) \/ (i - Len(s) \in 1..Len(t) /\ (i - Len(s)) + Len(s) = i)
  BY <1>1
<1>6. ToSet(c) = ToSet(s) \cup ToSet(t)
  <2>1. ASSUME NEW x \in ToSet(c)
        PROVE  x \in ToSet(s) \cup ToSet(t)
    <3>1. PICK i \in 1..Len(c) : x = c[i]
      BY <1>2 DEF ToSet
    <3>2. CASE i \in 1..Len(s)
      BY <1>1, <1>2, <3>1, <3>2 DEF ToSet
    <3>3. CASE i - Len(s) \in 1..Len(t) /\ (i - Len(s)) + Len(s) = i
      <4>1. x = t[i - Len(s)]
        BY <1>1, <3>1, <3>3
      <4>2. QED
        BY <1>2, <3>3, <4>1 DEF ToSet
    <3>4. QED
      BY <1>5, <3>2, <3>3
  <2>2. ASSUME NEW x \in ToSet(s)
        PROVE  x \in ToSet(c)
    BY <1>1, <1>2, <1>3 DEF ToSet
  <2>3. ASSUME NEW x \in ToSet(t)
        PROVE  x \in ToSet(c)
    BY <1>1, <1>2, <1>4 DEF ToSet
  <2>4. QED
    BY <2>1, <2>2, <2>3
<1>7. QED
  BY <1>6 DEF c

\* The members of a sequence behind its first, when nothing is repeated.
LEMMA TailMembers ==
  ASSUME NEW S, NEW s \in Seq(S), s # << >>, Distinct(s)
  PROVE  ToSet(Tail(s)) = ToSet(s) \ {Head(s)} /\ Distinct(Tail(s)) /\ Head(s) \in ToSet(s)
<1>1. /\ Tail(s) \in Seq(S) /\ Len(Tail(s)) = Len(s) - 1 /\ Len(s) \in Nat /\ Len(s) > 0
      /\ \A i \in 1..Len(Tail(s)) : Tail(s)[i] = s[i + 1]
      /\ Head(s) = s[1]
  OBVIOUS
<1>2. DOMAIN s = 1..Len(s) /\ DOMAIN Tail(s) = 1..Len(Tail(s))
  OBVIOUS
<1>3. \A i \in 1..Len(Tail(s)) : i + 1 \in 1..Len(s) /\ i + 1 # 1
  BY <1>1
<1>4. \A i \in 1..Len(s) : i = 1 \/ (i - 1 \in 1..Len(Tail(s)) /\ (i - 1) + 1 = i)
  BY <1>1
<1>5. 1 \in 1..Len(s)
  BY <1>1
<1>6. ASSUME NEW x \in ToSet(Tail(s))
      PROVE  x \in ToSet(s) \ {Head(s)}
  BY <1>1, <1>2, <1>3, <1>5 DEF ToSet, Distinct
<1>7. ASSUME NEW x \in ToSet(s) \ {Head(s)}
      PROVE  x \in ToSet(Tail(s))
  <2>1. PICK i \in 1..Len(s) : x = s[i]
    BY <1>2 DEF ToSet
  <2>2. i - 1 \in 1..Len(Tail(s)) /\ (i - 1) + 1 = i
    BY <1>1, <1>4, <2>1
  <2>3. x = Tail(s)[i - 1]
    BY <1>1, <2>1, <2>2
  <2>4. QED
    BY <1>2, <2>2, <2>3 DEF ToSet
<1>8. Distinct(Tail(s))
  <2>1. ASSUME NEW i \in 1..Len(Tail(s)), NEW j \in 1..Len(Tail(s)), Tail(s)[i] = Tail(s)[j]
        PROVE  i = j
    <3>1. i + 1 = j + 1
      BY <1>1, <1>3, <2>1 DEF Distinct
    <3>2. QED
      BY <3>1
  <2>2. QED
    BY <2>1 DEF Distinct
<1>9. Head(s) \in ToSet(s)
  BY <1>1, <1>2, <1>5 DEF ToSet
<1>10. QED
  BY <1>6, <1>7, <1>8, <1>9

\* The places of two sequences one after the other.
LEMMA ConcatPlaces ==
  ASSUME NEW S, NEW s \in Seq(S), NEW t \in Seq(S)
  PROVE  /\ s \o t \in Seq(S) /\ DOMAIN (s \o t) = 1..Len(s) + Len(t)
         /\ Len(s \o t) = Len(s) + Len(t)
         /\ DOMAIN s = 1..Len(s) /\ DOMAIN t = 1..Len(t)
         /\ Len(s) \in Nat /\ Len(t) \in Nat
         /\ \A i \in 1..Len(s) : (s \o t)[i] = s[i] /\ i \in 1..Len(s) + Len(t)
         /\ \A i \in 1..Len(t) : /\ (s \o t)[Len(s) + i] = t[i]
                                 /\ Len(s) + i \in 1..Len(s) + Len(t)
         /\ \A i \in 1..Len(s) + Len(t) :
              i \in 1..Len(s) \/ \E k \in 1..Len(t) : i = Len(s) + k
<1>1. /\ s \o t \in Seq(S) /\ Len(s \o t) = Len(s) + Len(t) /\ Len(s) \in Nat /\ Len(t) \in Nat
      /\ DOMAIN s = 1..Len(s) /\ DOMAIN t = 1..Len(t)
      /\ \A i \in 1..Len(s) : (s \o t)[i] = s[i]
      /\ \A i \in 1..Len(t) : (s \o t)[Len(s) + i] = t[i]
  OBVIOUS
<1>2. DOMAIN (s \o t) = 1..Len(s) + Len(t)
  BY <1>1
<1>3. ASSUME NEW i \in 1..Len(s) + Len(t), i \notin 1..Len(s)
      PROVE  \E k \in 1..Len(t) : i = Len(s) + k
  <2>1. i - Len(s) \in 1..Len(t) /\ i = Len(s) + (i - Len(s))
    BY <1>1, <1>3
  <2>2. QED
    BY <2>1
<1>4. \A i \in 1..Len(s) : i \in 1..Len(s) + Len(t)
  BY <1>1
<1>5. \A i \in 1..Len(t) : Len(s) + i \in 1..Len(s) + Len(t)
  BY <1>1
<1>6. QED
  BY <1>1, <1>2, <1>3, <1>4, <1>5

\* The places of a sequence behind its first.
LEMMA TailPlaces ==
  ASSUME NEW S, NEW s \in Seq(S), s # << >>
  PROVE  /\ Tail(s) \in Seq(S) /\ Len(Tail(s)) \in Nat /\ Len(s) = Len(Tail(s)) + 1
         /\ DOMAIN s = 1..Len(Tail(s)) + 1 /\ DOMAIN Tail(s) = 1..Len(Tail(s))
         /\ \A i \in 1..Len(Tail(s)) : Tail(s)[i] = s[i + 1] /\ i + 1 \in 1..Len(Tail(s)) + 1
         /\ Head(s) = s[1] /\ Head(s) \in S
<1>1. /\ Tail(s) \in Seq(S) /\ Len(Tail(s)) = Len(s) - 1 /\ Len(s) \in Nat /\ Len(s) > 0
      /\ \A i \in 1..Len(Tail(s)) : Tail(s)[i] = s[i + 1]
      /\ Head(s) = s[1] /\ Head(s) \in S
      /\ DOMAIN s = 1..Len(s) /\ DOMAIN Tail(s) = 1..Len(Tail(s))
  OBVIOUS
<1>2. Len(s) = Len(Tail(s)) + 1 /\ Len(Tail(s)) \in Nat
  BY <1>1
<1>3. \A i \in 1..Len(Tail(s)) : i + 1 \in 1..Len(Tail(s)) + 1
  BY <1>2
<1>4. QED
  BY <1>1, <1>2, <1>3

----------------------------------------------------------------------------
(* The counts of the frames of a list.                                     *)

\* The places behind place i that frames of its channel take.
Laters(w, i) == {j \in DOMAIN w : j > i /\ w[j].vc = w[i].vc}

\* Every frame's count is that of its channel less the frames of the channel behind it.
Counted(w, fc) ==
  \A i \in DOMAIN w : w[i].count = (fc[w[i].vc] - Cardinality(Laters(w, i))) % CountMod

LEMMA LatersFinite ==
  ASSUME NEW S, NEW w \in Seq(S), NEW i \in DOMAIN w
  PROVE  IsFiniteSet(Laters(w, i)) /\ Cardinality(Laters(w, i)) \in Nat
<1>1. DOMAIN w = 1..Len(w) /\ Len(w) \in Nat
  OBVIOUS
<1>2. IsFiniteSet(DOMAIN w)
  BY <1>1, FS_Interval
<1>3. Laters(w, i) \subseteq DOMAIN w
  BY DEF Laters
<1>4. QED
  BY <1>2, <1>3, FS_Subset, FS_CardinalityType

\* The first frame can leave the list.
LEMMA TailCounted ==
  ASSUME NEW S, NEW w \in Seq(S), w # << >>, NEW fc, Counted(w, fc)
  PROVE  Counted(Tail(w), fc)
<1>1. /\ Tail(w) \in Seq(S) /\ Len(Tail(w)) \in Nat /\ Len(w) = Len(Tail(w)) + 1
      /\ DOMAIN w = 1..Len(Tail(w)) + 1 /\ DOMAIN Tail(w) = 1..Len(Tail(w))
      /\ \A i \in 1..Len(Tail(w)) : Tail(w)[i] = w[i + 1] /\ i + 1 \in 1..Len(Tail(w)) + 1
  BY TailPlaces
<1> DEFINE n == Len(Tail(w))
<1> HIDE DEF n
<1>2. ASSUME NEW i \in 1..n
      PROVE  Cardinality(Laters(Tail(w), i)) = Cardinality(Laters(w, i + 1))
  <2> DEFINE A == Laters(Tail(w), i)
             B == Laters(w, i + 1)
             move == [j \in A |-> j + 1]
  <2>1. A = {j \in 1..n : j > i /\ w[j + 1].vc = w[i + 1].vc}
    BY <1>1, <1>2 DEF Laters, n
  <2>2. B = {j \in 1..n + 1 : j > i + 1 /\ w[j].vc = w[i + 1].vc}
    BY <1>1, <1>2 DEF Laters, n
  <2>3. n \in Nat
    BY <1>1 DEF n
  <2> HIDE DEF A, B
  <2>4. \A j \in A : j + 1 \in B /\ j \in Int
    BY <2>1, <2>2, <2>3
  <2>5. ASSUME NEW j \in B
        PROVE  j - 1 \in A /\ (j - 1) + 1 = j
    BY <2>1, <2>2, <2>3
  <2>6. move \in [A -> B] /\ \A j, k \in A : move[j] = move[k] => j = k
    BY <2>4
  <2>7. \A j \in B : \E k \in A : move[k] = j
    BY <2>5
  <2>8. move \in Bijection(A, B)
    <3> HIDE DEF move
    <3>1. QED
      BY <2>6, <2>7, Fun_IsBij
  <2>9. ExistsBijection(A, B)
    BY <2>8 DEF ExistsBijection
  <2>10. IsFiniteSet(A)
    BY <1>1, <1>2, LatersFinite DEF A, n
  <2>11. QED
    BY <2>9, <2>10, FS_Bijection DEF A, B
<1>3. ASSUME NEW i \in DOMAIN Tail(w)
      PROVE  Tail(w)[i].count = (fc[Tail(w)[i].vc] - Cardinality(Laters(Tail(w), i))) % CountMod
  <2>1. i \in 1..n /\ i + 1 \in DOMAIN w /\ Tail(w)[i] = w[i + 1]
    BY <1>1 DEF n
  <2>2. w[i + 1].count = (fc[w[i + 1].vc] - Cardinality(Laters(w, i + 1))) % CountMod
    BY <2>1 DEF Counted
  <2>3. QED
    BY <1>2, <2>1, <2>2
<1>4. QED
  BY <1>3 DEF Counted

\* Frames of one channel with the next counts can enter behind.
LEMMA ConcatCounted ==
  ASSUME NEW w \in Seq(Frames), NEW f \in Seq(Frames), NEW fc \in [Vcs -> Nat], Counted(w, fc),
         NEW v \in Vcs,
         \A k \in 1..Len(f) : f[k].vc = v /\ f[k].count = (fc[v] + k) % CountMod
  PROVE  Counted(w \o f, [fc EXCEPT ![v] = (fc[v] + Len(f)) % CountMod])
<1> DEFINE c == w \o f
           n == Len(w)
           m == Len(f)
           gc == [fc EXCEPT ![v] = (fc[v] + m) % CountMod]
<1>1. /\ c \in Seq(Frames) /\ DOMAIN c = 1..n + m
      /\ DOMAIN w = 1..n /\ DOMAIN f = 1..m /\ n \in Nat /\ m \in Nat
      /\ \A i \in 1..n : c[i] = w[i] /\ i \in 1..n + m
      /\ \A k \in 1..m : c[n + k] = f[k] /\ n + k \in 1..n + m
      /\ \A i \in 1..n + m : i \in 1..n \/ \E k \in 1..m : i = n + k
  BY ConcatPlaces
<1>2. CountMod \in Nat /\ CountMod > 0 /\ fc[v] \in Nat
  BY TmAssumption
<1>3. gc[v] = (fc[v] + m) % CountMod /\ \A u \in Vcs \ {v} : gc[u] = fc[u]
  OBVIOUS
<1>4. \A i \in 1..n : w[i].vc \in Vcs
  <2>1. \A i \in 1..n : w[i] \in Frames
    BY <1>1
  <2>2. QED
    BY <2>1 DEF Frames
<1>5. \A k \in 1..m : f[k].vc = v /\ f[k].count = (fc[v] + k) % CountMod
  OBVIOUS
<1> HIDE DEF c, n, m, gc
<1>6. ASSUME NEW i \in 1..n
      PROVE  c[i].count = (gc[c[i].vc] - Cardinality(Laters(c, i))) % CountMod
  <2> DEFINE old == Laters(w, i)
             new == {n + k : k \in 1..m}
  <2>1. IsFiniteSet(old) /\ Cardinality(old) \in Nat
    BY <1>1, LatersFinite
  <2>2. w[i].count = (fc[w[i].vc] - Cardinality(old)) % CountMod
    BY <1>1 DEF Counted
  <2>3. old = {j \in 1..n : j > i /\ w[j].vc = w[i].vc}
    BY <1>1 DEF Laters
  <2>4. Laters(c, i) = {j \in 1..n + m : j > i /\ c[j].vc = w[i].vc}
    BY <1>1 DEF Laters
  <2> HIDE DEF old
  <2>5. CASE w[i].vc # v
    <3>1. Laters(c, i) = old
      <4>1. ASSUME NEW j \in 1..n + m, j > i, c[j].vc = w[i].vc
            PROVE  j \in old
        <5>1. j \in 1..n
          <6>1. ASSUME NEW k \in 1..m, j = n + k
                PROVE  FALSE
            <7>1. c[j] = f[k] /\ f[k].vc = v
              BY <1>1, <1>5, <6>1
            <7>2. QED
              BY <2>5, <4>1, <7>1
          <6>2. QED
            BY <1>1, <6>1
        <5>2. QED
          BY <1>1, <2>3, <4>1, <5>1
      <4>2. ASSUME NEW j \in old
            PROVE  j \in 1..n + m /\ j > i /\ c[j].vc = w[i].vc
        BY <1>1, <2>3
      <4>3. QED
        BY <2>4, <4>1, <4>2
    <3>2. gc[w[i].vc] = fc[w[i].vc]
      BY <1>3, <1>4, <2>5
    <3>3. QED
      BY <1>1, <2>2, <3>1, <3>2
  <2>6. CASE w[i].vc = v
    <3>1. new = n + 1..n + m
      <4>1. \A j \in n + 1..n + m : j - n \in 1..m /\ n + (j - n) = j
        BY <1>1
      <4>2. \A k \in 1..m : n + k \in n + 1..n + m
        BY <1>1
      <4>3. QED
        BY <4>1, <4>2
    <3>2. Laters(c, i) = old \cup new
      <4>1. ASSUME NEW j \in 1..n + m, j > i, c[j].vc = w[i].vc
            PROVE  j \in old \cup new
        <5>1. CASE j \in 1..n
          BY <1>1, <2>3, <4>1, <5>1
        <5>2. CASE j \in new
          BY <5>2
        <5>3. QED
          BY <1>1, <5>1, <5>2
      <4>2. ASSUME NEW j \in old
            PROVE  j \in 1..n + m /\ j > i /\ c[j].vc = w[i].vc
        BY <1>1, <2>3
      <4>3. ASSUME NEW k \in 1..m
            PROVE  n + k \in 1..n + m /\ n + k > i /\ c[n + k].vc = w[i].vc
        <5>1. c[n + k] = f[k] /\ f[k].vc = v
          BY <1>1, <1>5
        <5>2. n + k \in 1..n + m /\ n + k > i
          BY <1>1
        <5>3. QED
          BY <2>6, <5>1, <5>2
      <4>4. QED
        BY <2>4, <4>1, <4>2, <4>3
    <3>3. IsFiniteSet(new) /\ Cardinality(new) = m
      <4>1. n + 1 \in Int /\ n + m \in Int
        BY <1>1
      <4>2. IsFiniteSet(n + 1..n + m)
        BY <4>1, FS_Interval
      <4>3. Cardinality(n + 1..n + m) = IF n + 1 > n + m THEN 0 ELSE (n + m) - (n + 1) + 1
        BY <4>1, FS_Interval
      <4>4. Cardinality(n + 1..n + m) = m
        BY <1>1, <4>3
      <4> HIDE DEF new
      <4>5. QED
        BY <3>1, <4>2, <4>4
    <3>4. Cardinality(old \cap new) = 0
      <4>1. old \cap new = {}
        BY <1>1, <2>3, <3>1
      <4>2. QED
        BY <4>1, FS_EmptySet
    <3>5. Cardinality(old \cup new) = Cardinality(old) + Cardinality(new) - Cardinality(old \cap new)
      BY <2>1, <3>3, FS_Union
    <3> DEFINE l == Cardinality(old)
    <3>6. Cardinality(Laters(c, i)) = l + m
      BY <1>1, <2>1, <3>2, <3>3, <3>4, <3>5
    <3>7. l \in Nat
      BY <2>1
    <3> HIDE DEF l
    <3>8. (((fc[v] + m) % CountMod) - (l + m)) % CountMod = ((fc[v] + m) - (l + m)) % CountMod
      <4>1. fc[v] + m \in Int /\ l + m \in Int
        BY <1>1, <1>2, <3>7
      <4>2. QED
        BY <1>2, <4>1, CountBack
    <3>9. (fc[v] + m) - (l + m) = fc[v] - l
      BY <1>1, <1>2, <3>7
    <3>10. (gc[v] - Cardinality(Laters(c, i))) % CountMod = (fc[v] - l) % CountMod
      BY <1>3, <3>6, <3>8, <3>9
    <3>11. c[i].count = (fc[v] - l) % CountMod /\ c[i].vc = v
      BY <1>1, <2>2, <2>6 DEF l
    <3>12. QED
      BY <3>10, <3>11
  <2>7. QED
    BY <2>5, <2>6
<1>7. ASSUME NEW k \in 1..m
      PROVE  c[n + k].count = (gc[c[n + k].vc] - Cardinality(Laters(c, n + k))) % CountMod
  <2>1. Laters(c, n + k) = n + k + 1..n + m
    <3>1. Laters(c, n + k) = {j \in 1..n + m : j > n + k /\ c[j].vc = v}
      BY <1>1, <1>5 DEF Laters
    <3>2. ASSUME NEW j \in n + k + 1..n + m
          PROVE  j \in 1..n + m /\ j > n + k /\ c[j].vc = v
      <4>1. j - n \in 1..m /\ j = n + (j - n)
        BY <1>1
      <4>2. c[j].vc = v
        <5>1. c[n + (j - n)] = f[j - n] /\ f[j - n].vc = v
          BY <1>1, <1>5, <4>1
        <5>2. QED
          BY <4>1, <5>1
      <4>3. QED
        BY <1>1, <4>2
    <3>3. \A j \in 1..n + m : j > n + k => j \in n + k + 1..n + m
      BY <1>1
    <3>4. QED
      BY <3>1, <3>2, <3>3
  <2>2. Cardinality(n + k + 1..n + m) = m - k
    <3>1. Cardinality(n + k + 1..n + m) =
            IF n + k + 1 > n + m THEN 0 ELSE (n + m) - (n + k + 1) + 1
      BY <1>1, FS_Interval
    <3>2. QED
      BY <1>1, <3>1
  <2>3. (((fc[v] + m) % CountMod) - (m - k)) % CountMod = ((fc[v] + m) - (m - k)) % CountMod
    <3>1. fc[v] + m \in Int /\ m - k \in Int
      BY <1>1, <1>2
    <3>2. QED
      BY <1>2, <3>1, CountBack
  <2>4. (fc[v] + m) - (m - k) = fc[v] + k
    BY <1>1, <1>2
  <2>5. (gc[v] - Cardinality(Laters(c, n + k))) % CountMod = (fc[v] + k) % CountMod
    BY <1>3, <2>1, <2>2, <2>3, <2>4
  <2>6. c[n + k].count = (fc[v] + k) % CountMod /\ c[n + k].vc = v
    BY <1>1, <1>5
  <2>7. QED
    BY <2>5, <2>6
<1>8. ASSUME NEW i \in DOMAIN c
      PROVE  c[i].count = (gc[c[i].vc] - Cardinality(Laters(c, i))) % CountMod
  <2>1. CASE i \in 1..n
    BY <1>6, <2>1
  <2>2. ASSUME NEW k \in 1..m, i = n + k
        PROVE  c[i].count = (gc[c[i].vc] - Cardinality(Laters(c, i))) % CountMod
    BY <1>7, <2>2
  <2>3. QED
    BY <1>1, <2>1, <2>2
<1>9. QED
  BY <1>8 DEF Counted, c, gc, m

----------------------------------------------------------------------------
(* The segments of a list.                                                 *)

\* NextOf, SegmentsComplete for the list w and the channels r.
Next2(w, i, j) ==
  /\ i < j /\ w[j].vc = w[i].vc
  /\ \A k \in i + 1..j - 1 : w[k].vc # w[i].vc

Continued(w, i) ==
  \E j \in DOMAIN w : Next2(w, i, j) /\ w[j].segment \in {"middle", "end"}

Complete(w, r) ==
  \A i \in DOMAIN w : w[i].vc \notin r /\ w[i].segment \in {"start", "middle"} => Continued(w, i)

\* The first frame can leave the list.
LEMMA TailComplete ==
  ASSUME NEW S, NEW w \in Seq(S), w # << >>, NEW r, Complete(w, r)
  PROVE  Complete(Tail(w), r)
<1> DEFINE n == Len(Tail(w))
<1>1. /\ n \in Nat /\ DOMAIN w = 1..n + 1 /\ DOMAIN Tail(w) = 1..n
      /\ \A i \in 1..n : Tail(w)[i] = w[i + 1] /\ i + 1 \in 1..n + 1
  BY TailPlaces
<1> HIDE DEF n
<1>2. ASSUME NEW i \in 1..n, w[i + 1].vc \notin r, w[i + 1].segment \in {"start", "middle"}
      PROVE  Continued(Tail(w), i)
  <2>1. PICK j \in 1..n + 1 : Next2(w, i + 1, j) /\ w[j].segment \in {"middle", "end"}
    BY <1>1, <1>2 DEF Complete, Continued
  <2>2. j - 1 \in 1..n /\ (j - 1) + 1 = j /\ i < j - 1
    BY <1>1, <2>1 DEF Next2
  <2>3. Tail(w)[j - 1] = w[j] /\ Tail(w)[i] = w[i + 1]
    BY <1>1, <2>2
  <2>4. ASSUME NEW k \in i + 1..(j - 1) - 1
        PROVE  Tail(w)[k].vc # Tail(w)[i].vc
    <3>1. k \in 1..n /\ k + 1 \in i + 1 + 1..j - 1
      BY <1>1, <2>2
    <3>2. Tail(w)[k] = w[k + 1]
      BY <1>1, <3>1
    <3>3. QED
      BY <2>1, <2>3, <3>1, <3>2 DEF Next2
  <2>5. w[j].vc = w[i + 1].vc
    BY <2>1 DEF Next2
  <2>6. Next2(Tail(w), i, j - 1)
    BY <2>2, <2>3, <2>4, <2>5 DEF Next2
  <2>7. QED
    BY <1>1, <2>1, <2>2, <2>3, <2>6 DEF Continued
<1>3. QED
  BY <1>1, <1>2 DEF Complete

\* The frames of a channel v can enter behind, if each of them that has to be continued is
\* followed by one that does so, or the channel counts no longer.
LEMMA ConcatComplete ==
  ASSUME NEW S, NEW w \in Seq(S), NEW f \in Seq(S), NEW r, NEW q, r \subseteq q, NEW v,
         Complete(w, r),
         \A k \in 1..Len(f) : f[k].vc = v,
         \/ v \in q
         \/ \A k \in 1..Len(f) :
              f[k].segment \in {"start", "middle"} =>
                k < Len(f) /\ f[k + 1].segment \in {"middle", "end"}
  PROVE  Complete(w \o f, q)
<1> DEFINE c == w \o f
           n == Len(w)
           m == Len(f)
<1>1. /\ c \in Seq(S) /\ DOMAIN c = 1..n + m
      /\ DOMAIN w = 1..n /\ DOMAIN f = 1..m /\ n \in Nat /\ m \in Nat
      /\ \A i \in 1..n : c[i] = w[i] /\ i \in 1..n + m
      /\ \A k \in 1..m : c[n + k] = f[k] /\ n + k \in 1..n + m
      /\ \A i \in 1..n + m : i \in 1..n \/ \E k \in 1..m : i = n + k
  BY ConcatPlaces
<1>2. \A k \in 1..m : f[k].vc = v
  OBVIOUS
<1>3. \/ v \in q
      \/ \A k \in 1..m : f[k].segment \in {"start", "middle"} =>
                           k < m /\ f[k + 1].segment \in {"middle", "end"}
  OBVIOUS
<1> HIDE DEF c, n, m
<1>4. ASSUME NEW i \in 1..n, c[i].vc \notin q, c[i].segment \in {"start", "middle"}
      PROVE  Continued(c, i)
  <2>1. w[i].vc \notin r /\ w[i].segment \in {"start", "middle"} /\ c[i] = w[i]
    BY <1>1, <1>4
  <2>2. PICK j \in 1..n : Next2(w, i, j) /\ w[j].segment \in {"middle", "end"}
    BY <1>1, <2>1 DEF Complete, Continued
  <2>3. c[j] = w[j] /\ j \in 1..n + m
    BY <1>1
  <2>4. ASSUME NEW k \in i + 1..j - 1
        PROVE  c[k].vc # c[i].vc
    <3>1. k \in 1..n
      BY <1>1
    <3>2. c[k] = w[k]
      BY <1>1, <3>1
    <3>3. QED
      BY <2>1, <2>2, <3>2 DEF Next2
  <2>5. Next2(c, i, j)
    BY <2>1, <2>2, <2>3, <2>4 DEF Next2
  <2>6. QED
    BY <1>1, <2>2, <2>3, <2>5 DEF Continued
<1>5. ASSUME NEW k \in 1..m, c[n + k].vc \notin q, c[n + k].segment \in {"start", "middle"}
      PROVE  Continued(c, n + k)
  <2>1. c[n + k] = f[k] /\ f[k].vc = v
    BY <1>1, <1>2
  <2>2. k < m /\ f[k + 1].segment \in {"middle", "end"}
    BY <1>3, <1>5, <2>1
  <2>3. k + 1 \in 1..m /\ n + (k + 1) = n + k + 1
    BY <1>1, <2>2
  <2>4. c[n + k + 1] = f[k + 1] /\ f[k + 1].vc = v /\ n + k + 1 \in 1..n + m
    BY <1>1, <1>2, <2>3
  <2>5. n + k < n + k + 1 /\ n + k + 1..n + k + 1 - 1 = {}
    BY <1>1
  <2>6. Next2(c, n + k, n + k + 1)
    BY <2>1, <2>4, <2>5 DEF Next2
  <2>7. QED
    BY <1>1, <2>2, <2>4, <2>6 DEF Continued
<1>6. ASSUME NEW i \in 1..n + m, c[i].vc \notin q, c[i].segment \in {"start", "middle"}
      PROVE  Continued(c, i)
  <2>1. CASE i \in 1..n
    BY <1>4, <1>6, <2>1
  <2>2. ASSUME NEW k \in 1..m, i = n + k
        PROVE  Continued(c, i)
    BY <1>5, <1>6, <2>2
  <2>3. QED
    BY <1>1, <2>1, <2>2
<1>7. QED
  BY <1>1, <1>6 DEF Complete, c

----------------------------------------------------------------------------
(* How many packets a frame takes.                                         *)

\* The packets in front of a queue that fill a field of d octets: one, or as many
\* as fit.
LEMMA FillingExists ==
  ASSUME NEW q \in Seq(Nat), q # << >>, NEW d \in Nat, NEW B, NEW v
  PROVE  \E k \in 1..Len(q) :
           /\ k > 1 => v \in B /\ SumFunction(SubSeq(q, 1, k)) <= d
           /\ v \in B /\ k < Len(q) => SumFunction(SubSeq(q, 1, k + 1)) > d
<1> DEFINE Prefix2(k) == SumFunction(SubSeq(q, 1, k))
           T == {k \in 1..Len(q) : k < Len(q) => Prefix2(k + 1) > d}
<1>1. Len(q) \in Nat /\ Len(q) >= 1
  OBVIOUS
<1>2. \A k \in 0..Len(q) : Prefix2(k) \in Nat
  <2>1. \A k \in 0..Len(q) : SubSeq(q, 1, k) \in Seq(Nat)
    OBVIOUS
  <2>2. QED
    BY <2>1, SumOfSequence
<1> HIDE DEF Prefix2
<1>3. CASE v \notin B
  <2>1. 1 \in 1..Len(q) /\ ~ (1 > 1)
    BY <1>1
  <2>2. QED
    BY <1>3, <2>1
<1>4. CASE v \in B
  <2>1. Len(q) \in T /\ T \subseteq Nat
    BY <1>1
  <2>2. PICK k \in T : \A l \in T : k <= l
    BY <2>1, LeastNumber
  <2>3. k \in 1..Len(q) /\ (k < Len(q) => Prefix2(k + 1) > d)
    OBVIOUS
  <2>4. ASSUME k > 1
        PROVE  Prefix2(k) <= d
    <3>1. k - 1 \in 1..Len(q) /\ k - 1 < Len(q) /\ (k - 1) + 1 = k /\ k - 1 < k
      BY <1>1, <2>3, <2>4
    <3>2. k - 1 \notin T
      BY <1>1, <2>2, <2>3, <3>1
    <3>3. ~ (Prefix2(k) > d)
      BY <3>1, <3>2
    <3>4. Prefix2(k) \in Nat
      BY <1>2, <2>3
    <3>5. QED
      BY <3>3, <3>4
  <2>5. QED
    BY <1>4, <2>3, <2>4 DEF Prefix2
<1>5. QED
  BY <1>3, <1>4

----------------------------------------------------------------------------
(* The TM chain.                                                           *)

\* The frames f are new, with the counts that follow, each with a block of its own apart
\* from those in use.
Made(v, data, segments, f) ==
  /\ f \in Seq(Frames) /\ Len(f) <= Len(data)
  /\ \A k \in 1..Len(f) : /\ f[k].vc = v
                          /\ f[k].count = (frameCount[v] + k) % CountMod
                          /\ f[k].segment = segments[k]
                          /\ f[k].block \in Blocks
                          /\ f[k].block \notin usedMemory
  /\ \A j, k \in 1..Len(f) : f[j].block = f[k].block => j = k
  /\ Separate(usedMemory \cup {f[k].block : k \in 1..Len(f)})

\* Such are the frames that FramesFor makes.
LEMMA FramesMade ==
  ASSUME usedMemory \subseteq Blocks, Separate(usedMemory),
         NEW v \in Vcs, frameCount[v] \in Nat, NEW data \in Seq(Nat),
         NEW segments \in [1..Len(data) -> {"none", "start", "middle", "end"}],
         NEW f, f = FramesFor(v, data, segments)
  PROVE  Made(v, data, segments, f)
<1> DEFINE lens == [i \in DOMAIN data |-> data[i] + Overhead]
           b == BlocksFor(usedMemory, lens)
           g == [i \in DOMAIN b |-> [vc |-> v, count |-> (frameCount[v] + i) % CountMod,
                                     block |-> b[i], segment |-> segments[i]]]
<1>1. f = g
  BY DEF FramesFor
<1>2. Len(lens) = Len(data) /\ Len(data) \in Nat
  <2>1. Overhead \in Nat
    BY TmAssumption DEF Overhead
  <2>2. /\ DOMAIN data = 1..Len(data) /\ Len(data) \in Nat
        /\ \A i \in 1..Len(data) : data[i] + Overhead \in Nat
    BY <2>1
  <2>3. lens \in [1..Len(data) -> Nat]
    BY <2>2
  <2> HIDE DEF lens
  <2>4. QED
    BY <2>2, <2>3
<1> HIDE DEF lens
<1>3. Placed(usedMemory, lens, b) /\ Len(b) <= Len(data)
  BY <1>2, BlocksForPlaced
<1> HIDE DEF b
<1>4. /\ b \in Seq(Blocks) /\ DOMAIN b = 1..Len(b) /\ Len(b) \in Nat
      /\ \A k \in 1..Len(b) : b[k] \in Blocks /\ b[k] \notin usedMemory
      /\ \A j, k \in 1..Len(b) : b[j] = b[k] => j = k
      /\ Separate(usedMemory \cup {b[k] : k \in 1..Len(b)})
  <2>1. b \in Seq(Blocks) /\ DOMAIN b = 1..Len(b) /\ Len(b) \in Nat
    BY <1>3 DEF Placed
  <2>2. ToSet(b) = {b[k] : k \in 1..Len(b)}
    BY <2>1 DEF ToSet
  <2>3. QED
    BY <1>3, <2>1, <2>2 DEF Placed
<1>5. CountMod \in Nat /\ CountMod > 0
  BY TmAssumption
<1>6. ASSUME NEW k \in 1..Len(b)
      PROVE  g[k] \in Frames /\ g[k].vc = v /\ g[k].count = (frameCount[v] + k) % CountMod
             /\ g[k].segment = segments[k] /\ g[k].block = b[k]
  <2>1. (frameCount[v] + k) % CountMod \in 0..CountMod - 1
    <3>1. frameCount[v] + k \in Int
      BY <1>4
    <3>2. QED
      BY <1>5, <3>1, Remainder
  <2>2. segments[k] \in {"none", "start", "middle", "end"}
    BY <1>2, <1>3, <1>4
  <2>3. g[k] = [vc |-> v, count |-> (frameCount[v] + k) % CountMod,
                block |-> b[k], segment |-> segments[k]]
    BY <1>4
  <2> HIDE DEF g
  <2>4. QED
    BY <1>4, <2>1, <2>2, <2>3 DEF Frames
<1>7. g \in Seq(Frames) /\ Len(g) = Len(b)
  <2>1. g \in [1..Len(b) -> Frames]
    <3>1. g = [k \in 1..Len(b) |-> g[k]]
      BY <1>4
    <3> HIDE DEF g
    <3>2. QED
      BY <1>6, <3>1
  <2>2. DOMAIN g = 1..Len(b)
    BY <1>4
  <2> HIDE DEF g
  <2>3. QED
    BY <1>4, <2>1, <2>2
<1> HIDE DEF g
<1>8. {g[k].block : k \in 1..Len(g)} = {b[k] : k \in 1..Len(b)}
  BY <1>6, <1>7
<1>9. \A j, k \in 1..Len(g) : g[j].block = g[k].block => j = k
  BY <1>4, <1>6, <1>7
<1>10. Separate(usedMemory \cup {g[k].block : k \in 1..Len(g)})
  BY <1>4, <1>8
<1>11. \A k \in 1..Len(g) : /\ g[k].vc = v
                            /\ g[k].count = (frameCount[v] + k) % CountMod
                            /\ g[k].segment = segments[k]
                            /\ g[k].block \in Blocks
                            /\ g[k].block \notin usedMemory
  BY <1>4, <1>6, <1>7
<1>12. QED
  BY <1>1, <1>3, <1>7, <1>9, <1>10, <1>11 DEF Made

\* They are a sequence.
LEMMA MadeLength ==
  ASSUME NEW v, NEW data \in Seq(Nat), NEW segments, NEW f, Made(v, data, segments, f)
  PROVE  Len(f) \in 0..Len(data)
BY DEF Made

\* The invariant.  No two frames that wait have one block: without that a deletion could
\* take the octets of another frame, and the number of copies would not be that of the
\* places.
TmTypes ==
  /\ lengths \in [Vcs -> Seq(PacketLengths)]
  /\ octets \in [Vcs -> 0..PacketBufferCap]
  /\ frameCount \in [Vcs -> 0..CountMod - 1]
  /\ afterVc \in Seq(Frames) /\ afterMc \in Seq(Frames)
  /\ Len(afterVc) <= AfterVcCap /\ Len(afterMc) <= AfterMcCap
  /\ refused \subseteq Vcs /\ spoiled \subseteq masterCopy

OwnBlocks(w) == \A i, j \in 1..Len(w) : w[i].block = w[j].block => i = j

WaitingPlaced ==
  /\ masterCopy = ToSet(Waiting)
  /\ OwnBlocks(Waiting)
  /\ Len(Waiting) <= MasterCap

PoolOwned ==
  /\ usedMemory \subseteq Blocks
  /\ Separate(usedMemory)
  /\ held \subseteq usedMemory
  /\ held = {f.block : f \in masterCopy}

ListsInOrder == Counted(Waiting, frameCount) /\ Complete(Waiting, refused)

TmInv == TmTypes /\ WaitingPlaced /\ PoolOwned /\ ListsInOrder /\ OctetsMatchLengths

\* What the invariant says of the variables.
LEMMA TmFacts ==
  ASSUME TmTypes
  PROVE  /\ Waiting \in Seq(Frames) /\ Len(Waiting) \in Nat /\ DOMAIN Waiting = 1..Len(Waiting)
         /\ Len(Waiting) = Len(afterMc) + Len(afterVc)
         /\ frameCount \in [Vcs -> Nat]
         /\ \A v \in Vcs : lengths[v] \in Seq(PacketLengths) /\ lengths[v] \in Seq(Nat)
         /\ \A v \in Vcs : octets[v] \in 0..PacketBufferCap
<1>1. afterVc \in Seq(Frames) /\ afterMc \in Seq(Frames)
  BY DEF TmTypes
<1>2. Waiting \in Seq(Frames) /\ Len(Waiting) \in Nat /\ DOMAIN Waiting = 1..Len(Waiting)
      /\ Len(Waiting) = Len(afterMc) + Len(afterVc)
  BY <1>1 DEF Waiting
<1>3. frameCount \in [Vcs -> Nat]
  <2>1. \A v \in Vcs : frameCount[v] \in 0..CountMod - 1
    BY DEF TmTypes
  <2>2. \A v \in Vcs : frameCount[v] \in Nat
    BY <2>1, TmAssumption
  <2>3. QED
    BY <2>2 DEF TmTypes
<1>4. ASSUME NEW v \in Vcs
      PROVE  lengths[v] \in Seq(PacketLengths) /\ lengths[v] \in Seq(Nat)
  <2>1. lengths[v] \in Seq(PacketLengths)
    BY DEF TmTypes
  <2>2. PacketLengths \subseteq Nat
    BY TmAssumption
  <2>3. QED
    BY <2>1, <2>2, SeqMonotonic
<1>5. \A v \in Vcs : octets[v] \in 0..PacketBufferCap
  BY DEF TmTypes
<1>6. QED
  BY <1>1, <1>2, <1>3, <1>4, <1>5

\* Frames that own their blocks are different frames.
LEMMA OwnBlocksDistinct ==
  ASSUME NEW w, OwnBlocks(w)
  PROVE  Distinct(w)
BY DEF OwnBlocks, Distinct

\* Frames that FramesFor makes enter the lists and the pool.
LEMMA EnterKeeps ==
  ASSUME TmTypes, WaitingPlaced, PoolOwned, ListsInOrder,
         NEW v \in Vcs, NEW data \in Seq(Nat),
         NEW segments \in [1..Len(data) -> {"none", "start", "middle", "end"}],
         NEW f, f = FramesFor(v, data, segments), NEW wanted,
         Enter(v, f, wanted), RoomFor(Len(f)), UNCHANGED <<afterMc, spoiled>>,
         refused \subseteq refused',
         \/ v \in refused'
         \/ \A k \in 1..Len(f) :
              segments[k] \in {"start", "middle"} =>
                k < Len(f) /\ segments[k + 1] \in {"middle", "end"}
  PROVE  /\ frameCount' \in [Vcs -> 0..CountMod - 1]
         /\ afterVc' \in Seq(Frames) /\ Len(afterVc') <= AfterVcCap
         /\ spoiled' \subseteq masterCopy'
         /\ WaitingPlaced' /\ PoolOwned' /\ ListsInOrder'
<1> DEFINE blocks == {f[k].block : k \in 1..Len(f)}
<1>1. /\ Waiting \in Seq(Frames) /\ Len(Waiting) \in Nat /\ DOMAIN Waiting = 1..Len(Waiting)
      /\ Len(Waiting) = Len(afterMc) + Len(afterVc)
      /\ frameCount \in [Vcs -> Nat]
      /\ afterVc \in Seq(Frames) /\ afterMc \in Seq(Frames)
  BY TmFacts DEF TmTypes
<1>2. /\ f \in Seq(Frames) /\ Len(f) <= Len(data)
      /\ \A k \in 1..Len(f) : /\ f[k].vc = v
                              /\ f[k].count = (frameCount[v] + k) % CountMod
                              /\ f[k].segment = segments[k]
                              /\ f[k].block \in Blocks
                              /\ f[k].block \notin usedMemory
      /\ \A j, k \in 1..Len(f) : f[j].block = f[k].block => j = k
      /\ Separate(usedMemory \cup blocks)
  <2>1. usedMemory \subseteq Blocks /\ Separate(usedMemory) /\ frameCount[v] \in Nat
    BY <1>1 DEF PoolOwned
  <2>2. f = FramesFor(v, data, segments)
    OBVIOUS
  <2>3. Made(v, data, segments, f)
    BY <2>1, <2>2, FramesMade
  <2>4. QED
    BY <2>3 DEF Made
<1>3. Len(f) \in Nat /\ DOMAIN f = 1..Len(f) /\ Len(data) \in Nat
  BY <1>2
<1>4. /\ usedMemory' = usedMemory \cup blocks
      /\ held' = held \cup blocks
      /\ masterCopy' = masterCopy \cup ToSet(f)
      /\ afterVc' = afterVc \o f
      /\ frameCount' = [frameCount EXCEPT ![v] = (frameCount[v] + Len(f)) % CountMod]
  BY <1>3 DEF Enter, CountAfter
<1>5. Waiting' = Waiting \o f
  <2>1. (afterMc \o afterVc) \o f = afterMc \o (afterVc \o f)
    <3>1. /\ afterMc \in Seq(Frames) /\ afterVc \in Seq(Frames) /\ f \in Seq(Frames)
      BY <1>1, <1>2
    <3>2. QED
      BY ONLY <3>1, ConcatAssociative
  <2>2. Waiting' = afterMc \o (afterVc \o f)
    BY <1>4 DEF Waiting
  <2>3. QED
    BY <2>1, <2>2 DEF Waiting
<1>6. (frameCount[v] + Len(f)) % CountMod \in 0..CountMod - 1
  <2>1. frameCount[v] + Len(f) \in Int /\ CountMod \in Nat /\ CountMod > 0
    BY <1>1, <1>3, TmAssumption
  <2>2. QED
    BY <2>1, Remainder
<1>7. ToSet(f) = {f[k] : k \in 1..Len(f)}
  BY <1>3 DEF ToSet
<1>8. \A k \in 1..Len(f) : f[k].block \notin held
  BY <1>2 DEF PoolOwned
<1> HIDE DEF blocks
<1>9. ToSet(Waiting) = masterCopy /\ OwnBlocks(Waiting)
  BY DEF WaitingPlaced
<1>10. \A i \in 1..Len(Waiting) : Waiting[i] \in masterCopy /\ Waiting[i].block \in held
  BY <1>1, <1>9 DEF ToSet, PoolOwned
<1>11. ToSet(Waiting') = masterCopy'
  BY <1>1, <1>2, <1>4, <1>5, <1>9, ConcatMembers
<1>12. /\ Len(Waiting') = Len(Waiting) + Len(f)
       /\ \A i \in 1..Len(Waiting) : Waiting'[i] = Waiting[i]
       /\ \A k \in 1..Len(f) : Waiting'[Len(Waiting) + k] = f[k]
       /\ \A i \in 1..Len(Waiting) + Len(f) :
            i \in 1..Len(Waiting) \/ \E k \in 1..Len(f) : i = Len(Waiting) + k
  <2> DEFINE w == Waiting
  <2>1. w \in Seq(Frames) /\ f \in Seq(Frames)
    BY <1>1, <1>2
  <2> HIDE DEF w
  <2>2. /\ Len(w \o f) = Len(w) + Len(f)
        /\ \A i \in 1..Len(w) : (w \o f)[i] = w[i]
        /\ \A k \in 1..Len(f) : (w \o f)[Len(w) + k] = f[k]
        /\ \A i \in 1..Len(w) + Len(f) :
             i \in 1..Len(w) \/ \E k \in 1..Len(f) : i = Len(w) + k
    BY ONLY <2>1, ConcatPlaces
  <2>3. QED
    BY <1>5, <2>2 DEF w
<1>13. OwnBlocks(Waiting')
  <2>1. ASSUME NEW i \in 1..Len(Waiting'), NEW j \in 1..Len(Waiting'),
               Waiting'[i].block = Waiting'[j].block
        PROVE  i = j
    <3>1. CASE i \in 1..Len(Waiting) /\ j \in 1..Len(Waiting)
      BY <1>9, <1>12, <2>1, <3>1 DEF OwnBlocks
    <3>2. ASSUME NEW k \in 1..Len(f), i = Len(Waiting) + k, j \in 1..Len(Waiting)
          PROVE  FALSE
      BY <1>8, <1>10, <1>12, <2>1, <3>2
    <3>3. ASSUME NEW k \in 1..Len(f), j = Len(Waiting) + k, i \in 1..Len(Waiting)
          PROVE  FALSE
      BY <1>8, <1>10, <1>12, <2>1, <3>3
    <3>4. ASSUME NEW k \in 1..Len(f), NEW l \in 1..Len(f),
                 i = Len(Waiting) + k, j = Len(Waiting) + l
          PROVE  i = j
      <4>1. f[k].block = f[l].block
        BY <1>12, <2>1, <3>4
      <4>2. k = l
        BY <1>2, <4>1
      <4>3. QED
        BY <3>4, <4>2
    <3>5. QED
      BY <1>12, <3>1, <3>2, <3>3, <3>4
  <2>2. QED
    BY <2>1 DEF OwnBlocks
<1>14. Len(Waiting') <= MasterCap /\ Len(afterVc') <= AfterVcCap /\ afterVc' \in Seq(Frames)
  <2>1. Distinct(Waiting)
    BY <1>9, OwnBlocksDistinct
  <2>2. Cardinality(masterCopy) = Len(Waiting)
    BY <1>1, <1>9, <2>1, DistinctCount
  <2>3. Cardinality(masterCopy) + Len(f) <= MasterCap /\ Len(afterVc) + Len(f) <= AfterVcCap
    BY DEF RoomFor
  <2>4. Len(afterVc') = Len(afterVc) + Len(f) /\ afterVc' \in Seq(Frames) /\ Len(afterVc) \in Nat
    BY <1>1, <1>2, <1>4
  <2>5. MasterCap \in Nat /\ AfterVcCap \in Nat
    BY TmAssumption
  <2>6. QED
    BY <1>1, <1>2, <1>3, <1>12, <2>2, <2>3, <2>4, <2>5
<1>15. WaitingPlaced'
  BY <1>11, <1>13, <1>14 DEF WaitingPlaced
<1>16. PoolOwned'
  <2>1. blocks \subseteq Blocks /\ blocks = {g.block : g \in ToSet(f)}
    BY <1>2, <1>7 DEF blocks
  <2>2. held' = {g.block : g \in masterCopy'}
    BY <1>4, <2>1 DEF PoolOwned
  <2>3. usedMemory' \subseteq Blocks /\ Separate(usedMemory') /\ held' \subseteq usedMemory'
    BY <1>2, <1>4, <2>1 DEF PoolOwned
  <2>4. QED
    BY <2>2, <2>3 DEF PoolOwned
<1>17. ListsInOrder'
  <2>1. Counted(Waiting, frameCount) /\ Complete(Waiting, refused)
    BY DEF ListsInOrder
  <2>2. Counted(Waiting', frameCount')
    BY <1>1, <1>2, <1>4, <1>5, <2>1, ConcatCounted
  <2>3. Complete(Waiting \o f, refused')
    <3>1. \/ v \in refused'
          \/ \A k \in 1..Len(f) : f[k].segment \in {"start", "middle"} =>
               k < Len(f) /\ f[k + 1].segment \in {"middle", "end"}
      <4>1. SUFFICES ASSUME v \notin refused', NEW k \in 1..Len(f),
                            f[k].segment \in {"start", "middle"}
                     PROVE  k < Len(f) /\ f[k + 1].segment \in {"middle", "end"}
        OBVIOUS
      <4>2. k < Len(f) /\ segments[k + 1] \in {"middle", "end"}
        BY <1>2, <4>1
      <4>3. k + 1 \in 1..Len(f)
        BY <1>3, <4>2
      <4>4. QED
        BY <1>2, <4>2, <4>3
    <3>2. \A k \in 1..Len(f) : f[k].vc = v
      BY <1>2
    <3>3. Waiting \in Seq(Frames) /\ f \in Seq(Frames) /\ Complete(Waiting, refused)
          /\ refused \subseteq refused'
      BY <1>1, <1>2, <2>1
    <3>4. QED
      BY ONLY <3>1, <3>2, <3>3, ConcatComplete
  <2>4. QED
    BY <1>5, <2>2, <2>3 DEF ListsInOrder
<1>18. frameCount' \in [Vcs -> 0..CountMod - 1]
  BY <1>4, <1>6 DEF TmTypes
<1>19. spoiled' \subseteq masterCopy'
  BY <1>4 DEF TmTypes
<1>20. QED
  BY <1>14, <1>15, <1>16, <1>17, <1>18, <1>19

\* The number of packets that blockingTM takes exists.
LEMMA TakenExists ==
  ASSUME NEW v, lengths[v] \in Seq(Nat), lengths[v] # << >>, NEW d \in Nat
  PROVE  Taken(v, d) \in 1..Len(lengths[v])
<1> DEFINE q == lengths[v]
<1>1. \E k \in 1..Len(q) :
        /\ k > 1 => v \in Blocking /\ SumFunction(SubSeq(q, 1, k)) <= d
        /\ v \in Blocking /\ k < Len(q) => SumFunction(SubSeq(q, 1, k + 1)) > d
  <2> HIDE DEF q
  <2>1. q \in Seq(Nat) /\ q # << >>
    BY DEF q
  <2>2. QED
    BY <2>1, FillingExists
<1>2. QED
  BY <1>1 DEF Taken

\* A container that throws leaves all else as it was.
LEMMA ThrowTMKeeps ==
  ASSUME TmInv, UNCHANGED <<vars, packetsTM, framesTM, historyTM>>
  PROVE  TmInv'
<1>1. UNCHANGED <<usedMemory, held, lengths, octets, frameCount, masterCopy, afterVc,
                  afterMc, refused, spoiled>>
  BY DEF vars, packetsTM, framesTM, historyTM
<1>2. Waiting' = Waiting
  BY <1>1 DEF Waiting
<1>3. TmTypes'
  BY <1>1 DEF TmInv, TmTypes
<1>4. WaitingPlaced' /\ PoolOwned' /\ ListsInOrder' /\ OctetsMatchLengths'
  BY <1>1, <1>2 DEF TmInv, WaitingPlaced, PoolOwned, ListsInOrder, OctetsMatchLengths
<1>5. QED
  BY <1>3, <1>4 DEF TmInv

\* Where there is room for n frames there is room for fewer.
LEMMA RoomForFewer ==
  ASSUME TmTypes, WaitingPlaced, NEW n \in Nat, RoomFor(n), NEW m \in 0..n
  PROVE  RoomFor(m)
<1>1. Waiting \in Seq(Frames) /\ ToSet(Waiting) = masterCopy /\ Distinct(Waiting)
  BY TmFacts, OwnBlocksDistinct DEF WaitingPlaced
<1>2. Cardinality(masterCopy) \in Nat
  BY <1>1, DistinctCount, FS_CardinalityType
<1>3. Len(afterVc) \in Nat
  BY DEF TmTypes
<1>4. MasterCap \in Nat /\ AfterVcCap \in Nat
  BY TmAssumption
<1>5. QED
  BY <1>2, <1>3, <1>4 DEF RoomFor

\* storePacketTxTM adds to both queues alike.
LEMMA StoreKeeps ==
  ASSUME TmInv, NEW v \in Vcs, NEW n \in PacketLengths, StorePacketTxTM(v, n), ~ ThrowTM
  PROVE  TmInv'
<1>1. /\ lengths' = [lengths EXCEPT ![v] = Append(lengths[v], n)]
      /\ octets' = [octets EXCEPT ![v] = octets[v] + n]
      /\ octets[v] + n <= PacketBufferCap
      /\ UNCHANGED <<usedMemory, held, frameCount, masterCopy, afterVc, afterMc, refused, spoiled>>
  <2>1. lengths' = [lengths EXCEPT ![v] = Append(lengths[v], n)]
    BY DEF StorePacketTxTM
  <2>2. octets' = [octets EXCEPT ![v] = octets[v] + n]
    BY DEF StorePacketTxTM
  <2>3. QED
    BY <2>1, <2>2 DEF StorePacketTxTM, vars, framesTM, historyTM
<1>2. /\ lengths[v] \in Seq(PacketLengths) /\ lengths[v] \in Seq(Nat)
      /\ octets[v] \in 0..PacketBufferCap
  BY TmFacts DEF TmInv
<1>3. n \in Nat /\ PacketBufferCap \in Nat
  BY TmAssumption
<1>4. TmTypes'
  <2>1. Append(lengths[v], n) \in Seq(PacketLengths)
    BY <1>2
  <2>2. octets[v] + n \in 0..PacketBufferCap
    BY <1>1, <1>2, <1>3
  <2>3. lengths' \in [Vcs -> Seq(PacketLengths)]
    BY <1>1, <2>1 DEF TmInv, TmTypes
  <2>4. octets' \in [Vcs -> 0..PacketBufferCap]
    BY <1>1, <2>2 DEF TmInv, TmTypes
  <2>5. QED
    BY <1>1, <2>3, <2>4 DEF TmInv, TmTypes
<1>5. Waiting' = Waiting
  BY <1>1 DEF Waiting
<1>6. WaitingPlaced' /\ PoolOwned' /\ ListsInOrder'
  BY <1>1, <1>5 DEF TmInv, WaitingPlaced, PoolOwned, ListsInOrder
<1>7. OctetsMatchLengths'
  <2>1. SumFunction(Append(lengths[v], n)) = SumFunction(lengths[v]) + n
    BY <1>2, <1>3, SumAppend
  <2>2. ASSUME NEW u \in Vcs \ refused
        PROVE  octets'[u] = SumFunction(lengths'[u])
    <3>1. octets[u] = SumFunction(lengths[u])
      BY DEF TmInv, OctetsMatchLengths
    <3>2. CASE u = v
      <4>1. lengths'[u] = Append(lengths[v], n) /\ octets'[u] = octets[v] + n
        BY <1>1, <3>2 DEF TmInv, TmTypes
      <4>2. QED
        BY <2>1, <3>1, <3>2, <4>1
    <3>3. CASE u # v
      <4>1. lengths'[u] = lengths[u] /\ octets'[u] = octets[u]
        BY <1>1, <3>3 DEF TmInv, TmTypes
      <4>2. QED
        BY <3>1, <4>1
    <3>4. QED
      BY <3>2, <3>3
  <2>3. QED
    BY <1>1, <2>2 DEF OctetsMatchLengths
<1>8. QED
  BY <1>4, <1>6, <1>7 DEF TmInv

\* blockingTM makes one frame or none, and the packets are gone in both cases.
LEMMA BlockingKeeps ==
  ASSUME TmInv, NEW v \in Vcs, NEW d \in FieldLengths, lengths[v] # << >>,
         NEW n, n = (Head(lengths[v]) + d - 1) \div d, n <= 1, RoomFor(n),
         BlockingTM(v, d), ~ ThrowTM, UNCHANGED <<afterMc, spoiled>>
  PROVE  TmInv'
<1>1. /\ lengths[v] \in Seq(PacketLengths) /\ lengths[v] \in Seq(Nat)
      /\ octets[v] \in 0..PacketBufferCap /\ Len(lengths[v]) \in Nat
  BY TmFacts DEF TmInv
<1>2. d \in Nat /\ PacketBufferCap \in Nat
  BY TmAssumption
<1>3. PICK k : k = Taken(v, d)
  OBVIOUS
<1>4. k \in 1..Len(lengths[v])
  BY <1>1, <1>2, <1>3, TakenExists
<1>5. PICK size : size = SumFunction(SubSeq(lengths[v], 1, k))
  OBVIOUS
<1>6. PICK rest : rest = SubSeq(lengths[v], k + 1, Len(lengths[v]))
  OBVIOUS
<1>7. size \in Nat /\ rest \in Seq(PacketLengths) /\ SumFunction(rest) \in Nat
      /\ SumFunction(lengths[v]) = size + SumFunction(rest)
  <2>1. k \in 0..Len(lengths[v]) /\ k + 1 \in 1..Len(lengths[v]) + 1
    BY <1>1, <1>4
  <2>2. SubSeq(lengths[v], 1, k) \in Seq(Nat) /\ rest \in Seq(Nat) /\ rest \in Seq(PacketLengths)
    BY <1>1, <1>6, <2>1, SplitTyped
  <2>3. SumFunction(lengths[v]) =
          SumFunction(SubSeq(lengths[v], 1, k)) + SumFunction(SubSeq(lengths[v], k + 1, Len(lengths[v])))
    BY <1>1, <2>1, SumSplit
  <2>4. QED
    BY <1>5, <1>6, <2>2, <2>3, SumOfSequence
<1>8. PICK f : f = FramesFor(v, <<size>>, <<"none">>)
  OBVIOUS
<1>9. /\ size <= octets[v]
      /\ lengths' = [lengths EXCEPT ![v] = rest]
      /\ octets' = [octets EXCEPT ![v] = octets[v] - size]
      /\ Enter(v, f, 1)
      /\ refused' = refused
      /\ Head(lengths[v]) > 0 \/ RoomFor(Len(f))
  BY <1>3, <1>5, <1>6, <1>8 DEF BlockingTM
<1>10. /\ frameCount' \in [Vcs -> 0..CountMod - 1]
       /\ afterVc' \in Seq(Frames) /\ Len(afterVc') <= AfterVcCap
       /\ spoiled' \subseteq masterCopy'
       /\ WaitingPlaced' /\ PoolOwned' /\ ListsInOrder'
  <2>1. <<size>> \in Seq(Nat) /\ Len(<<size>>) = 1
    BY <1>7
  <2>2. <<"none">> \in [1..Len(<<size>>) -> {"none", "start", "middle", "end"}]
    BY <2>1
  <2>7. Len(f) \in 0..1
    <3>1. usedMemory \subseteq Blocks /\ Separate(usedMemory) /\ frameCount[v] \in Nat
      BY TmFacts DEF TmInv, PoolOwned
    <3>2. Made(v, <<size>>, <<"none">>, f)
      BY <1>8, <2>1, <2>2, <3>1, FramesMade
    <3>3. QED
      BY <2>1, <3>2, MadeLength
  <2>3. \A j \in 1..Len(f) : <<"none">>[j] \notin {"start", "middle"}
    <3>4. \A m \in 0..1 : \A j \in 1..m : j = 1
      OBVIOUS
    <3>5. \A j \in 1..Len(f) : j = 1
      BY <2>7, <3>4
    <3>6. QED
      BY <3>5
  <2>4. TmTypes /\ WaitingPlaced /\ PoolOwned /\ ListsInOrder
    BY DEF TmInv
  <2>5. RoomFor(Len(f))
    <3>1. CASE RoomFor(Len(f))
      BY <3>1
    <3>2. CASE Head(lengths[v]) > 0
      <4>1. PICK l : l = Head(lengths[v])
        OBVIOUS
      <4>2. l \in Nat /\ l > 0
        BY <1>1, <3>2, <4>1
      <4>3. n = (l + d - 1) \div d
        BY <4>1
      <4>4. d \in Nat \ {0}
        BY TmAssumption
      <4>5. n \in Nat /\ n * d >= l
        BY <4>2, <4>3, <4>4, FieldsNeeded
      <4>6. n = 1
        BY <4>2, <4>4, <4>5
      <4>7. QED
        BY <2>4, <2>7, <4>6, RoomForFewer
    <3>3. QED
      BY <1>9, <3>1, <3>2
  <2>6. QED
    BY <1>8, <1>9, <2>1, <2>2, <2>3, <2>4, <2>5, EnterKeeps
<1>11. TmTypes'
  <2>1. octets[v] - size \in 0..PacketBufferCap
    <3>1. PICK o : o = octets[v]
      OBVIOUS
    <3>2. o \in 0..PacketBufferCap /\ size <= o /\ size \in Nat /\ PacketBufferCap \in Nat
      BY <1>1, <1>2, <1>7, <1>9, <3>1
    <3>3. o - size \in 0..PacketBufferCap
      BY ONLY <3>2
    <3>4. QED
      BY <3>1, <3>3
  <2>2. lengths' \in [Vcs -> Seq(PacketLengths)]
    BY <1>7, <1>9 DEF TmInv, TmTypes
  <2>3. octets' \in [Vcs -> 0..PacketBufferCap]
    BY <1>9, <2>1 DEF TmInv, TmTypes
  <2>4. afterMc' \in Seq(Frames) /\ Len(afterMc') <= AfterMcCap /\ refused' \subseteq Vcs
    BY <1>9 DEF TmInv, TmTypes
  <2>5. QED
    BY <1>10, <2>2, <2>3, <2>4 DEF TmTypes
<1>12. OctetsMatchLengths'
  <2>1. ASSUME NEW u \in Vcs \ refused
        PROVE  octets'[u] = SumFunction(lengths'[u])
    <3>1. octets[u] = SumFunction(lengths[u])
      BY DEF TmInv, OctetsMatchLengths
    <3>2. CASE u = v
      <4>1. lengths'[u] = rest /\ octets'[u] = octets[v] - size
        BY <1>9, <3>2 DEF TmInv, TmTypes
      <4>2. QED
        BY <1>1, <1>7, <3>1, <3>2, <4>1
    <3>3. CASE u # v
      <4>1. lengths'[u] = lengths[u] /\ octets'[u] = octets[u]
        BY <1>9, <3>3 DEF TmInv, TmTypes
      <4>2. QED
        BY <3>1, <4>1
    <3>4. QED
      BY <3>2, <3>3
  <2>2. QED
    BY <1>9, <2>1 DEF OctetsMatchLengths
<1>13. QED
  BY <1>10, <1>11, <1>12 DEF TmInv

\* segmentationTM makes all frames of the packet or those for which the pool has room.
LEMMA SegmentationKeeps ==
  ASSUME TmInv, NEW v \in Vcs, NEW d \in FieldLengths, lengths[v] # << >>,
         NEW n, n = (Head(lengths[v]) + d - 1) \div d, n > 1,
         RoomFor(n), SegmentationTM(v, d, n), ~ ThrowTM, UNCHANGED <<afterMc, spoiled>>
  PROVE  TmInv'
<1>1. /\ lengths[v] \in Seq(PacketLengths) /\ lengths[v] \in Seq(Nat)
      /\ octets[v] \in 0..PacketBufferCap
  BY TmFacts DEF TmInv
<1>2. d \in Nat /\ d > 0 /\ PacketBufferCap \in Nat
  <2>1. d \in Nat /\ d # 0 /\ PacketBufferCap \in Nat
    BY TmAssumption
  <2>2. QED
    BY <2>1
<1>3. PICK l : l = Head(lengths[v])
  OBVIOUS
<1>4. l \in Nat /\ Tail(lengths[v]) \in Seq(PacketLengths)
      /\ Tail(lengths[v]) \in Seq(Nat)
  <2>1. l \in Nat /\ Tail(lengths[v]) \in Seq(Nat)
    BY <1>1, <1>3
  <2>2. Tail(lengths[v]) \in Seq(PacketLengths)
    BY <1>1
  <2>3. QED
    BY <1>3, <2>1, <2>2
<1>5. n \in Nat \ {0} /\ (n - 1) * d <= l
  <2>1. n = (l + d - 1) \div d
    BY <1>3
  <2>2. n \in Nat /\ (n - 1) * d < l
    BY <1>2, <1>4, <2>1, FieldsNeeded
  <2>3. (n - 1) * d \in Int
    BY <1>2, <2>2
  <2>4. QED
    BY <1>4, <2>2, <2>3
<1>6. PICK data : data = Segments(l, d, n)
  OBVIOUS
<1>7. data \in Seq(Nat) /\ SumFunction(data) = l /\ Len(data) = n
  <2>1. data \in Seq(Nat) /\ SumFunction(data) = l
    BY <1>2, <1>4, <1>5, <1>6, SegmentsSum
  <2>2. Len(data) = n
    <3>1. DOMAIN data = 1..n
      BY <1>6 DEF Segments
    <3>2. QED
      BY <1>5, <2>1, <3>1
  <2>3. QED
    BY <2>1, <2>2
<1>8. PICK segments : segments = [i \in 1..n |-> SegmentOf(i, n)]
  OBVIOUS
<1>9. /\ segments \in [1..Len(data) -> {"none", "start", "middle", "end"}]
      /\ \A k \in 1..n : segments[k] = SegmentOf(k, n)
  BY <1>7, <1>8 DEF SegmentOf
<1>10. PICK f : f = FramesFor(v, data, segments)
  OBVIOUS
<1>11. Len(f) \in 0..n
  <2>1. usedMemory \subseteq Blocks /\ Separate(usedMemory) /\ frameCount[v] \in Nat
    BY TmFacts DEF TmInv, PoolOwned
  <2>2. Made(v, data, segments, f)
    BY <1>7, <1>9, <1>10, <2>1, FramesMade
  <2>3. QED
    BY <1>7, <2>2, MadeLength
<1>17. PICK size : size = SumFunction(SubSeq(data, 1, IF Len(f) = n THEN n ELSE Len(f) + 1))
  OBVIOUS
<1>18. size \in 0..l /\ (Len(f) = n => size = l)
  <2>1. CASE Len(f) = n
    <3>1. SubSeq(data, 1, n) = data
      BY <1>7
    <3>2. size = SumFunction(data)
      BY <1>17, <2>1, <3>1
    <3>3. QED
      BY <1>4, <1>7, <3>2
  <2>2. CASE Len(f) # n
    <3>1. Len(f) + 1 \in 0..Len(data)
      BY <1>5, <1>7, <1>11, <2>2
    <3>2. QED
      BY <1>7, <1>17, <2>2, <3>1, PrefixSum
  <2>3. QED
    BY <2>1, <2>2
<1>12. /\ Enter(v, f, n) /\ size <= octets[v]
       /\ octets' = [octets EXCEPT ![v] = octets[v] - size]
       /\ \/ /\ Len(f) = n
             /\ lengths' = [lengths EXCEPT ![v] = Tail(lengths[v])]
             /\ refused' = refused
          \/ /\ Len(f) # n
             /\ refused' = refused \cup {v}
             /\ lengths' = lengths
  BY <1>3, <1>6, <1>8, <1>10, <1>17 DEF SegmentationTM, Segments
<1>13. /\ frameCount' \in [Vcs -> 0..CountMod - 1]
       /\ afterVc' \in Seq(Frames) /\ Len(afterVc') <= AfterVcCap
       /\ spoiled' \subseteq masterCopy'
       /\ WaitingPlaced' /\ PoolOwned' /\ ListsInOrder'
  <2>1. \/ v \in refused'
        \/ \A k \in 1..Len(f) : segments[k] \in {"start", "middle"} =>
             k < Len(f) /\ segments[k + 1] \in {"middle", "end"}
    <3>1. CASE Len(f) < n
      <4>1. refused' = refused \cup {v}
        BY <1>11, <1>12, <3>1
      <4>2. QED
        BY <4>1
    <3>2. CASE Len(f) = n
      <4>1. ASSUME NEW k \in 1..n, segments[k] \in {"start", "middle"}
            PROVE  k < n /\ segments[k + 1] \in {"middle", "end"}
        <5>1. k # n
          BY <1>5, <1>9, <4>1 DEF SegmentOf
        <5>2. k + 1 \in 1..n /\ k < n
          BY <1>5, <5>1
        <5>3. segments[k + 1] = SegmentOf(k + 1, n)
          BY <1>9, <5>2
        <5>4. SegmentOf(k + 1, n) \in {"middle", "end"}
          <6>1. k + 1 # 1
            BY <1>5
          <6>2. QED
            BY <6>1 DEF SegmentOf
        <5>5. QED
          BY <5>2, <5>3, <5>4
      <4>2. QED
        BY <3>2, <4>1
    <3>3. QED
      BY <1>5, <1>11, <3>1, <3>2
  <2>2. refused \subseteq refused'
    BY <1>12
  <2>3. TmTypes /\ WaitingPlaced /\ PoolOwned /\ ListsInOrder
    BY DEF TmInv
  <2>4. Enter(v, f, n) /\ RoomFor(Len(f))
    <3>1. n \in Nat
      BY <1>5
    <3>2. QED
      BY <1>11, <1>12, <2>3, <3>1, RoomForFewer
  <2>5. QED
    BY <1>7, <1>9, <1>10, <2>1, <2>2, <2>3, <2>4, EnterKeeps
<1>14. CASE Len(f) = n
  <2>1. /\ lengths' = [lengths EXCEPT ![v] = Tail(lengths[v])]
        /\ octets' = [octets EXCEPT ![v] = octets[v] - l]
        /\ refused' = refused
    BY <1>5, <1>12, <1>14, <1>18
  <2>2. octets[v] - l \in 0..PacketBufferCap
    BY <1>1, <1>2, <1>4, <1>12, <1>14, <1>18
  <2>3. lengths' \in [Vcs -> Seq(PacketLengths)]
    BY <1>4, <2>1 DEF TmInv, TmTypes
  <2>4. octets' \in [Vcs -> 0..PacketBufferCap]
    BY <2>1, <2>2 DEF TmInv, TmTypes
  <2>5. afterMc' \in Seq(Frames) /\ Len(afterMc') <= AfterMcCap /\ refused' \subseteq Vcs
    BY <2>1 DEF TmInv, TmTypes
  <2>6. TmTypes'
    BY <1>13, <2>3, <2>4, <2>5 DEF TmTypes
  <2>7. SumFunction(lengths[v]) = l + SumFunction(Tail(lengths[v]))
        /\ SumFunction(Tail(lengths[v])) \in Nat
    BY <1>1, <1>3, <1>4, SumHeadTail, SumOfSequence
  <2>8. ASSUME NEW u \in Vcs \ refused
        PROVE  octets'[u] = SumFunction(lengths'[u])
    <3>1. octets[u] = SumFunction(lengths[u])
      BY DEF TmInv, OctetsMatchLengths
    <3>2. CASE u = v
      <4>1. lengths'[u] = Tail(lengths[v]) /\ octets'[u] = octets[v] - l
        BY <2>1, <3>2 DEF TmInv, TmTypes
      <4>2. QED
        BY <1>1, <1>4, <2>7, <3>1, <3>2, <4>1
    <3>3. CASE u # v
      <4>1. lengths'[u] = lengths[u] /\ octets'[u] = octets[u]
        BY <2>1, <3>3 DEF TmInv, TmTypes
      <4>2. QED
        BY <3>1, <4>1
    <3>4. QED
      BY <3>2, <3>3
  <2>9. OctetsMatchLengths'
    BY <2>1, <2>8 DEF OctetsMatchLengths
  <2>10. QED
    BY <1>13, <2>6, <2>9 DEF TmInv
<1>15. CASE Len(f) < n
  <2>1. /\ octets' = [octets EXCEPT ![v] = octets[v] - size]
        /\ refused' = refused \cup {v}
        /\ lengths' = lengths
    BY <1>5, <1>11, <1>12, <1>15
  <2>3. octets[v] - size \in 0..PacketBufferCap
    BY <1>1, <1>2, <1>4, <1>12, <1>18
  <2>4. octets' \in [Vcs -> 0..PacketBufferCap]
    BY <2>1, <2>3 DEF TmInv, TmTypes
  <2>5. lengths' \in [Vcs -> Seq(PacketLengths)]
        /\ afterMc' \in Seq(Frames) /\ Len(afterMc') <= AfterMcCap /\ refused' \subseteq Vcs
    BY <2>1 DEF TmInv, TmTypes
  <2>6. TmTypes'
    BY <1>13, <2>4, <2>5 DEF TmTypes
  <2>7. ASSUME NEW u \in Vcs \ refused'
        PROVE  octets'[u] = SumFunction(lengths'[u])
    <3>1. u # v /\ u \in Vcs \ refused
      BY <2>1
    <3>2. octets[u] = SumFunction(lengths[u])
      BY <3>1 DEF TmInv, OctetsMatchLengths
    <3>3. lengths'[u] = lengths[u] /\ octets'[u] = octets[u]
      BY <2>1, <3>1 DEF TmInv, TmTypes
    <3>4. QED
      BY <3>2, <3>3
  <2>8. OctetsMatchLengths'
    BY <2>7 DEF OctetsMatchLengths
  <2>9. QED
    BY <1>13, <2>6, <2>8 DEF TmInv
<1>16. QED
  BY <1>5, <1>11, <1>14, <1>15

\* vcGenerationServiceTxTM
LEMMA GenerationKeeps ==
  ASSUME TmInv, NEW v \in Vcs, NEW d \in FieldLengths, VcGenerationServiceTxTM(v, d)
  PROVE  TmInv'
<1>1. PICK n : n = (Head(lengths[v]) + d - 1) \div d
  OBVIOUS
<1>2. /\ lengths[v] # << >>
      /\ RoomFor(n) /\ UNCHANGED <<afterMc, spoiled>>
      /\ \/ n <= 1 /\ BlockingTM(v, d)
         \/ n > 1 /\ SegmentationTM(v, d, n)
  BY <1>1 DEF VcGenerationServiceTxTM
<1>3. CASE ThrowTM
  BY <1>3, ThrowTMKeeps DEF ThrowTM
<1>4. CASE n <= 1 /\ BlockingTM(v, d) /\ ~ ThrowTM
  BY <1>1, <1>2, <1>4, BlockingKeeps
<1>5. CASE n > 1 /\ SegmentationTM(v, d, n) /\ ~ ThrowTM
  BY <1>1, <1>2, <1>5, SegmentationKeeps
<1>6. QED
  BY <1>2, <1>3, <1>4, <1>5

\* mcGenerationRequestTxTM: the frame behind the last of one list becomes the last.
LEMMA McKeeps ==
  ASSUME TmInv, McGenerationRequestTxTM
  PROVE  TmInv'
<1>1. /\ afterVc # << >> /\ Len(afterMc) < AfterMcCap
      /\ afterMc' = Append(afterMc, Head(afterVc)) /\ afterVc' = Tail(afterVc)
      /\ UNCHANGED <<usedMemory, held, lengths, octets, frameCount, masterCopy, refused, spoiled>>
  BY DEF McGenerationRequestTxTM, vars, packetsTM, historyTM
<1>2. afterVc \in Seq(Frames) /\ afterMc \in Seq(Frames)
  BY DEF TmInv, TmTypes
<1>3. Waiting' = Waiting
  <2>1. afterVc = <<Head(afterVc)>> \o Tail(afterVc)
        /\ <<Head(afterVc)>> \in Seq(Frames) /\ Tail(afterVc) \in Seq(Frames)
    BY <1>1, <1>2
  <2>2. Append(afterMc, Head(afterVc)) = afterMc \o <<Head(afterVc)>>
    BY <1>1, <1>2
  <2>3. (afterMc \o <<Head(afterVc)>>) \o Tail(afterVc) =
          afterMc \o (<<Head(afterVc)>> \o Tail(afterVc))
    BY <1>2, <2>1, ConcatAssociative
  <2>4. Waiting' = (afterMc \o <<Head(afterVc)>>) \o Tail(afterVc)
    BY <1>1, <2>2 DEF Waiting
  <2>5. QED
    BY <2>1, <2>3, <2>4 DEF Waiting
<1>4. TmTypes'
  <2>1. Head(afterVc) \in Frames /\ Tail(afterVc) \in Seq(Frames) /\ Len(Tail(afterVc)) = Len(afterVc) - 1
    BY <1>1, <1>2
  <2>2. afterMc' \in Seq(Frames) /\ Len(afterMc') = Len(afterMc) + 1
    BY <1>1, <1>2, <2>1
  <2>3. Len(afterVc) \in Nat /\ Len(afterMc) \in Nat /\ AfterVcCap \in Nat /\ AfterMcCap \in Nat
        /\ Len(afterVc) <= AfterVcCap
    BY <1>2, TmAssumption DEF TmInv, TmTypes
  <2>4. Len(afterVc') <= AfterVcCap /\ Len(afterMc') <= AfterMcCap
    BY <1>1, <2>1, <2>2, <2>3
  <2>5. QED
    BY <1>1, <2>1, <2>2, <2>4 DEF TmInv, TmTypes
<1>5. WaitingPlaced' /\ PoolOwned' /\ ListsInOrder' /\ OctetsMatchLengths'
  BY <1>1, <1>3 DEF TmInv, WaitingPlaced, PoolOwned, ListsInOrder, OctetsMatchLengths
<1>6. QED
  BY <1>4, <1>5 DEF TmInv

\* allFramesGenerationRequestTxTM gives back the octets of the first frame and no others.
LEMMA AllFramesKeeps ==
  ASSUME TmInv, NEW target, AllFramesGenerationRequestTxTM(target)
  PROVE  TmInv'
<1>1. PICK f : f = Head(afterMc)
  OBVIOUS
<1>2. /\ afterMc # << >>
      /\ UNCHANGED <<lengths, octets, frameCount, afterVc, refused>>
      /\ \/ /\ spoiled' = spoiled \cup SpoiledBy(f)
            /\ UNCHANGED <<usedMemory, held, masterCopy, afterMc>>
         \/ /\ afterMc' = Tail(afterMc)
            /\ masterCopy' = masterCopy \ {f}
            /\ DeletePacket(f.block)
            /\ spoiled' = (spoiled \cup SpoiledBy(f)) \ {f}
  BY <1>1 DEF AllFramesGenerationRequestTxTM, vars, packetsTM
<1>3. SpoiledBy(f) \subseteq masterCopy
  BY DEF SpoiledBy
<1>4. afterVc \in Seq(Frames) /\ afterMc \in Seq(Frames) /\ spoiled \subseteq masterCopy
      /\ Waiting \in Seq(Frames) /\ DOMAIN Waiting = 1..Len(Waiting)
  BY TmFacts DEF TmInv, TmTypes
<1>5. OctetsMatchLengths'
  BY <1>2 DEF TmInv, OctetsMatchLengths
<1>6. CASE /\ spoiled' = spoiled \cup SpoiledBy(f)
           /\ UNCHANGED <<usedMemory, held, masterCopy, afterMc>>
  <2>1. TmTypes'
    BY <1>2, <1>3, <1>6 DEF TmInv, TmTypes
  <2>2. Waiting' = Waiting
    BY <1>2, <1>6 DEF Waiting
  <2>3. WaitingPlaced' /\ PoolOwned' /\ ListsInOrder'
    BY <1>2, <1>6, <2>2 DEF TmInv, WaitingPlaced, PoolOwned, ListsInOrder
  <2>4. QED
    BY <1>5, <2>1, <2>3 DEF TmInv
<1>7. CASE /\ afterMc' = Tail(afterMc)
           /\ masterCopy' = masterCopy \ {f}
           /\ DeletePacket(f.block)
           /\ spoiled' = (spoiled \cup SpoiledBy(f)) \ {f}
  <2>1. Waiting # << >> /\ Head(Waiting) = f /\ Waiting' = Tail(Waiting)
    <3>1. afterMc = <<f>> \o Tail(afterMc) /\ f \in Frames /\ Tail(afterMc) \in Seq(Frames)
      BY <1>1, <1>2, <1>4
    <3>2. PICK m : m = Tail(afterMc)
      OBVIOUS
    <3>3. m \in Seq(Frames) /\ <<f>> \in Seq(Frames)
      BY <3>1, <3>2
    <3>4. (<<f>> \o m) \o afterVc = <<f>> \o (m \o afterVc) /\ m \o afterVc \in Seq(Frames)
      BY <1>4, <3>3, ConcatAssociative
    <3>5. PICK w : w = m \o afterVc
      OBVIOUS
    <3>6. Waiting = <<f>> \o w /\ w \in Seq(Frames)
      BY <3>1, <3>2, <3>4, <3>5 DEF Waiting
    <3>7. Waiting' = w
      BY <1>2, <1>7, <3>2, <3>5 DEF Waiting
    <3>8. <<f>> \o w # << >> /\ Head(<<f>> \o w) = f /\ Tail(<<f>> \o w) = w
      BY <3>1, <3>6
    <3>9. QED
      BY <3>6, <3>7, <3>8
  <2>2. ToSet(Waiting) = masterCopy /\ OwnBlocks(Waiting) /\ Len(Waiting) <= MasterCap
    BY DEF TmInv, WaitingPlaced
  <2>3. ToSet(Tail(Waiting)) = masterCopy \ {f} /\ f \in masterCopy
    <3>1. Distinct(Waiting)
      BY <2>2, OwnBlocksDistinct
    <3>2. QED
      BY <1>4, <2>1, <2>2, <3>1, TailMembers
  <2>4. /\ Len(Tail(Waiting)) \in Nat /\ Len(Waiting) = Len(Tail(Waiting)) + 1
        /\ \A i \in 1..Len(Tail(Waiting)) :
             Tail(Waiting)[i] = Waiting[i + 1] /\ i + 1 \in 1..Len(Waiting)
    <3>1. PICK w : w = Waiting
      OBVIOUS
    <3>2. w \in Seq(Frames) /\ w # << >>
      BY <1>4, <2>1, <3>1
    <3>3. /\ Len(Tail(w)) \in Nat /\ Len(w) = Len(Tail(w)) + 1
          /\ \A i \in 1..Len(Tail(w)) : Tail(w)[i] = w[i + 1] /\ i + 1 \in 1..Len(Tail(w)) + 1
      BY <3>2, TailPlaces
    <3>4. QED
      BY <3>1, <3>3
  <2>5. OwnBlocks(Waiting')
    <3>1. ASSUME NEW i \in 1..Len(Tail(Waiting)), NEW j \in 1..Len(Tail(Waiting)),
                 Tail(Waiting)[i].block = Tail(Waiting)[j].block
          PROVE  i = j
      <4>1. i + 1 = j + 1
        BY <2>2, <2>4, <3>1 DEF OwnBlocks
      <4>2. QED
        BY <4>1
    <3>2. QED
      BY <2>1, <3>1 DEF OwnBlocks
  <2>6. Len(Waiting') <= MasterCap
    <3>1. MasterCap \in Nat
      BY TmAssumption
    <3>2. QED
      BY <2>1, <2>2, <2>4, <3>1
  <2>7. WaitingPlaced'
    BY <1>7, <2>1, <2>3, <2>5, <2>6 DEF WaitingPlaced
  <2>8. \A g, h \in masterCopy : g.block = h.block => g = h
    <3>1. \A g \in masterCopy : \E i \in 1..Len(Waiting) : g = Waiting[i]
      BY <1>4, <2>2 DEF ToSet
    <3>2. QED
      BY <2>2, <3>1 DEF OwnBlocks
  <2>9. /\ usedMemory \subseteq Blocks /\ Separate(usedMemory) /\ held \subseteq usedMemory
        /\ held = {g.block : g \in masterCopy}
    BY DEF TmInv, PoolOwned
  <2>10. /\ usedMemory' = IF End(f.block) < MemorySize
                          THEN {u \in usedMemory : u.start # f.block.start} ELSE usedMemory
         /\ held' = held \ {f.block}
    BY <1>7 DEF DeletePacket
  <2>11. held' = {g.block : g \in masterCopy'}
    BY <1>7, <2>3, <2>8, <2>9, <2>10
  <2>12. held' \subseteq usedMemory'
    <3>1. ASSUME NEW b \in held'
          PROVE  b \in usedMemory'
      <4>1. b \in usedMemory /\ b # f.block /\ f.block \in usedMemory
        BY <2>3, <2>9, <2>10
      <4>2. b.start # f.block.start
        BY <2>9, <4>1, SameStart
      <4>3. QED
        BY <2>10, <4>1, <4>2
    <3>2. QED
      BY <3>1
  <2>13. usedMemory' \subseteq usedMemory
    BY <2>10
  <2>14. Separate(usedMemory')
    BY <2>9, <2>13 DEF Separate
  <2>15. PoolOwned'
    BY <2>9, <2>11, <2>12, <2>13, <2>14 DEF PoolOwned
  <2>16. ListsInOrder'
    <3>1. Counted(Waiting, frameCount) /\ Complete(Waiting, refused)
      BY DEF TmInv, ListsInOrder
    <3>2. Counted(Tail(Waiting), frameCount)
      BY <1>4, <2>1, <3>1, TailCounted
    <3>3. Complete(Tail(Waiting), refused)
      BY <1>4, <2>1, <3>1, TailComplete
    <3>4. QED
      BY <1>2, <2>1, <3>2, <3>3 DEF ListsInOrder
  <2>17. TmTypes'
    <3>1. afterMc' \in Seq(Frames) /\ Len(afterMc') <= AfterMcCap
      <4>1. Len(Tail(afterMc)) = Len(afterMc) - 1 /\ Tail(afterMc) \in Seq(Frames)
            /\ Len(afterMc) \in Nat
        BY <1>2, <1>4
      <4>2. Len(afterMc) <= AfterMcCap /\ AfterMcCap \in Nat
        BY TmAssumption DEF TmInv, TmTypes
      <4>3. QED
        BY <1>7, <4>1, <4>2
    <3>2. spoiled' \subseteq masterCopy'
      BY <1>3, <1>4, <1>7
    <3>3. QED
      BY <1>2, <3>1, <3>2 DEF TmInv, TmTypes
  <2>18. QED
    BY <1>5, <2>7, <2>15, <2>16, <2>17 DEF TmInv
<1>8. QED
  BY <1>2, <1>6, <1>7

LEMMA TmInvariant == TmSpec => []TmInv
<1>1. TmInit => TmInv
  <2> SUFFICES ASSUME TmInit
               PROVE  TmInv
    OBVIOUS
  <2>1. /\ usedMemory = {} /\ held = {} /\ masterCopy = {} /\ afterVc = << >> /\ afterMc = << >>
        /\ lengths = [v \in Vcs |-> << >>] /\ octets = [v \in Vcs |-> 0]
        /\ frameCount = [v \in Vcs |-> 0] /\ refused = {} /\ spoiled = {}
    BY DEF TmInit, Init
  <2>2. {CountMod, PacketBufferCap, AfterVcCap, AfterMcCap, MasterCap} \subseteq Nat /\ CountMod > 0
    BY TmAssumption
  <2>3. Waiting = << >>
    BY <2>1 DEF Waiting
  <2>4. TmTypes
    <3>1. << >> \in Seq(PacketLengths) /\ << >> \in Seq(Frames) /\ Len(<< >>) = 0
      OBVIOUS
    <3>2. 0 \in 0..PacketBufferCap /\ 0 \in 0..CountMod - 1
      BY <2>2
    <3>3. 0 <= AfterVcCap /\ 0 <= AfterMcCap
      BY <2>2
    <3>4. QED
      BY <2>1, <3>1, <3>2, <3>3 DEF TmTypes
  <2>5. WaitingPlaced
    <3>1. ToSet(<< >>) = {} /\ Len(<< >>) = 0 /\ 1..0 = {} /\ 0 <= MasterCap
      BY <2>2 DEF ToSet
    <3>2. QED
      BY <2>1, <2>3, <3>1 DEF WaitingPlaced, OwnBlocks
  <2>6. PoolOwned
    BY <2>1 DEF PoolOwned, Separate
  <2>7. ListsInOrder
    BY <2>3 DEF ListsInOrder, Counted, Complete
  <2>8. OctetsMatchLengths
    BY <2>1, SumSmall DEF OctetsMatchLengths
  <2>9. QED
    BY <2>4, <2>5, <2>6, <2>7, <2>8 DEF TmInv
<1>2. TmInv /\ [TmNext]_tmVars => TmInv'
  <2> SUFFICES ASSUME TmInv, [TmNext]_tmVars
               PROVE  TmInv'
    OBVIOUS
  <2>1. ASSUME NEW v \in Vcs, NEW n \in PacketLengths, StorePacketTxTM(v, n)
        PROVE  TmInv'
    <3>1. CASE ThrowTM
      BY <3>1, ThrowTMKeeps DEF ThrowTM
    <3>2. CASE ~ ThrowTM
      BY <2>1, <3>2, StoreKeeps
    <3>3. QED
      BY <3>1, <3>2
  <2>2. ASSUME NEW v \in Vcs, NEW d \in FieldLengths, VcGenerationServiceTxTM(v, d)
        PROVE  TmInv'
    BY <2>2, GenerationKeeps
  <2>3. CASE McGenerationRequestTxTM
    BY <2>3, McKeeps
  <2>4. ASSUME NEW target \in TargetLengths, AllFramesGenerationRequestTxTM(target)
        PROVE  TmInv'
    BY <2>4, AllFramesKeeps
  <2>5. CASE UNCHANGED tmVars
    BY <2>5, ThrowTMKeeps DEF tmVars
  <2>6. QED
    BY <2>1, <2>2, <2>3, <2>4, <2>5 DEF TmNext
<1>3. QED
  BY <1>1, <1>2, PTL DEF TmSpec

\* In every state every master copy waits in one place, and every place holds one.
LEMMA PlacedOnce ==
  ASSUME TmInv
  PROVE  FramesPlaced
<1>1. Waiting \in Seq(Frames) /\ ToSet(Waiting) = masterCopy /\ Distinct(Waiting)
  BY TmFacts, OwnBlocksDistinct DEF TmInv, WaitingPlaced
<1>2. Len(Waiting) = Cardinality(masterCopy)
  BY <1>1, DistinctCount
<1>3. QED
  BY <1>1, <1>2 DEF FramesPlaced

\* The variables of the TM chain have their types and no list outgrows its capacity.
THEOREM TmTypesCorrect == TmSpec => []TmTypeOK
<1>1. TmInv /\ thrown \in BOOLEAN => TmTypeOK
  <2> SUFFICES ASSUME TmInv, thrown \in BOOLEAN
               PROVE  TmTypeOK
    OBVIOUS
  <2>1. Len(Waiting) = Cardinality(masterCopy) /\ Len(Waiting) <= MasterCap
    BY PlacedOnce DEF FramesPlaced, TmInv, WaitingPlaced
  <2>2. masterCopy \subseteq Frames
    <3>1. Waiting \in Seq(Frames) /\ ToSet(Waiting) = masterCopy
          /\ DOMAIN Waiting = 1..Len(Waiting)
      BY TmFacts DEF TmInv, WaitingPlaced
    <3>2. QED
      BY <3>1 DEF ToSet
  <2>3. QED
    BY <2>1, <2>2 DEF TmInv, TmTypes, TmTypeOK
<1> DEFINE ThrownType == thrown \in BOOLEAN
<1>2. TmSpec => []ThrownType
  <2>1. TmInit => ThrownType
    BY DEF TmInit
  <2>2. ThrownType /\ [TmNext]_tmVars => ThrownType'
    <3> SUFFICES ASSUME thrown \in BOOLEAN, [TmNext]_tmVars
                 PROVE  thrown' \in BOOLEAN
      OBVIOUS
    <3>1. ThrowTM => thrown' \in BOOLEAN
      BY DEF ThrowTM
    <3>2. ASSUME NEW v \in Vcs, NEW n \in PacketLengths, StorePacketTxTM(v, n)
          PROVE  thrown' \in BOOLEAN
      <4>1. ThrowTM \/ thrown' = thrown
        BY <3>2 DEF StorePacketTxTM
      <4>2. QED
        BY <3>1, <4>1
    <3>3. ASSUME NEW v \in Vcs, NEW d \in FieldLengths, VcGenerationServiceTxTM(v, d)
          PROVE  thrown' \in BOOLEAN
      <4>1. PICK n : BlockingTM(v, d) \/ SegmentationTM(v, d, n)
        BY <3>3 DEF VcGenerationServiceTxTM
      <4>2. BlockingTM(v, d) => ThrowTM \/ thrown' = thrown
        BY DEF BlockingTM, Enter
      <4>3. SegmentationTM(v, d, n) => ThrowTM \/ thrown' = thrown
        BY DEF SegmentationTM, Enter
      <4>4. QED
        BY <3>1, <4>1, <4>2, <4>3
    <3>4. McGenerationRequestTxTM => thrown' = thrown
      BY DEF McGenerationRequestTxTM
    <3>5. ASSUME NEW target \in TargetLengths, AllFramesGenerationRequestTxTM(target)
          PROVE  thrown' = thrown
      BY <3>5 DEF AllFramesGenerationRequestTxTM
    <3>6. UNCHANGED tmVars => thrown' = thrown
      BY DEF tmVars
    <3>7. QED
      BY <3>2, <3>3, <3>4, <3>5, <3>6 DEF TmNext
  <2> HIDE DEF ThrownType
  <2>3. QED
    BY <2>1, <2>2, PTL DEF TmSpec
<1>3. QED
  BY <1>1, <1>2, TmInvariant, PTL

\* No TM frame leaks, is sent twice or is used after it is erased.
THEOREM TmFramesPlaced == TmSpec => []FramesPlaced
<1>1. TmInv => FramesPlaced
  BY PlacedOnce
<1>2. QED
  BY <1>1, TmInvariant, PTL

\* The octets of every TM frame on its way are held in the pool, apart from all others, and
\* no block is held for a frame that is gone.
THEOREM TmMemoryOwned == TmSpec => []MemoryOwned
<1>1. TmInv => MemoryOwned
  BY DEF TmInv, PoolOwned, MemoryOwned, BlocksDisjoint
<1>2. QED
  BY <1>1, TmInvariant, PTL

\* The counts of the frames of a channel that wait have no gap up to its counter.
THEOREM TmCountsConsecutive == TmSpec => []CountsConsecutive
<1>1. TmInv => CountsConsecutive
  BY DEF TmInv, ListsInOrder, Counted, Laters, CountsConsecutive
<1>2. QED
  BY <1>1, TmInvariant, PTL

\* The segments of a packet follow each other, from the first to the last, on a channel for
\* which the pool was never full in the middle of a packet.
THEOREM TmSegmentsComplete == TmSpec => []SegmentsComplete
<1>1. TmInv => SegmentsComplete
  BY DEF TmInv, ListsInOrder, Complete, Continued, Next2, NextOf, SegmentsComplete
<1>2. QED
  BY <1>1, TmInvariant, PTL

\* The octets in a channel's buffer are those of the packets whose lengths are queued, on
\* such a channel.
THEOREM TmOctetsMatchLengths == TmSpec => []OctetsMatchLengths
<1>1. TmInv => OctetsMatchLengths
  BY DEF TmInv
<1>2. QED
  BY <1>1, TmInvariant, PTL

\* The pool stays first fit in use: whatever frames the chain stores and erases, a frame is
\* put at the lowest free range, and is refused exactly when there is none.
THEOREM TmPoolFirstFit == TmSpec => []FirstFit
<1>1. TmInv => FirstFit
  BY DisjointFirstFit DEF TmInv, PoolOwned, BlocksDisjoint
<1>2. QED
  BY <1>1, TmInvariant, PTL

\* However many frames the chain sends, it loses at most the one block at the pool's end: it
\* gives back no block but those of its frames, with their own lengths.
THEOREM TmOnlyLastBlockLost == TmSpec => []OnlyLastBlockLost
<1>1. TmInit => OnlyLastBlockLost
  BY DEF TmInit, Init, OnlyLastBlockLost
<1>2. TmInv /\ OnlyLastBlockLost /\ [TmNext]_tmVars => OnlyLastBlockLost'
  <2> SUFFICES ASSUME TmInv, OnlyLastBlockLost, [TmNext]_tmVars
               PROVE  OnlyLastBlockLost'
    OBVIOUS
  <2>1. CASE UNCHANGED vars
    BY <2>1 DEF vars, OnlyLastBlockLost
  <2>2. ASSUME NEW v \in Vcs, NEW frames, NEW wanted, Enter(v, frames, wanted)
        PROVE  OnlyLastBlockLost'
    <3>1. usedMemory' \ held' \subseteq usedMemory \ held
      BY <2>2 DEF Enter
    <3>2. QED
      BY <3>1 DEF OnlyLastBlockLost
  <2>3. ASSUME NEW v \in Vcs, NEW n \in PacketLengths, StorePacketTxTM(v, n)
        PROVE  OnlyLastBlockLost'
    BY <2>1, <2>3 DEF StorePacketTxTM, ThrowTM
  <2>4. ASSUME NEW v \in Vcs, NEW d \in FieldLengths, VcGenerationServiceTxTM(v, d)
        PROVE  OnlyLastBlockLost'
    <3>1. PICK n : \/ BlockingTM(v, d)
                   \/ SegmentationTM(v, d, n)
      BY <2>4 DEF VcGenerationServiceTxTM
    <3>2. \/ \E frames, wanted : Enter(v, frames, wanted)
          \/ ThrowTM
      BY <3>1 DEF BlockingTM, SegmentationTM
    <3>3. QED
      BY <2>1, <2>2, <3>2 DEF ThrowTM
  <2>5. CASE McGenerationRequestTxTM
    BY <2>1, <2>5 DEF McGenerationRequestTxTM
  <2>6. ASSUME NEW target \in TargetLengths, AllFramesGenerationRequestTxTM(target)
        PROVE  OnlyLastBlockLost'
    <3>1. CASE DeletePacket(Head(afterMc).block)
      <4>1. Head(afterMc).block \in usedMemory
        <5>1. afterMc # << >>
          BY <2>6 DEF AllFramesGenerationRequestTxTM
        <5>2. Head(afterMc) \in masterCopy
          <6>1. afterMc \in Seq(Frames) /\ afterVc \in Seq(Frames)
                /\ masterCopy = ToSet(afterMc \o afterVc)
            BY DEF TmInv, TmTypes, WaitingPlaced, Waiting
          <6>2. QED
            BY <5>1, <6>1 DEF ToSet
        <5>3. QED
          BY <5>2 DEF TmInv, PoolOwned
      <4>2. QED
        BY <3>1, <4>1, DeleteLosesLast DEF TmInv, PoolOwned, BlocksDisjoint
    <3>2. QED
      BY <2>1, <2>6, <3>1 DEF AllFramesGenerationRequestTxTM
  <2>7. CASE UNCHANGED tmVars
    BY <2>1, <2>7 DEF tmVars
  <2>8. QED
    BY <2>3, <2>4, <2>5, <2>6, <2>7 DEF TmNext
<1>3. QED
  BY <1>1, <1>2, TmInvariant, PTL DEF TmSpec

----------------------------------------------------------------------------
(* The TC chain.                                                           *)

\* The invariant.  Two frames never have one block, so that there are as many blocks as
\* frames and a deletion by start takes none but the frame's own.
TcTypes ==
  /\ lengthsTC \in [Services -> Seq(TcPacketLengths)]
  /\ octetsTC \in [Services -> 0..TcPacketBufferCap]
  /\ masterCopyTxTC \subseteq TcFrames /\ IsFiniteSet(masterCopyTxTC)
  /\ Cardinality(masterCopyTxTC) <= TcMasterCap
  /\ unprocessed \in 0..UnprocessedCap
  /\ irregular \subseteq Services /\ thrownTC \in BOOLEAN

PoolOwnedTC ==
  /\ usedMemoryTC \subseteq Blocks
  /\ Separate(usedMemoryTC)
  /\ heldTC \subseteq usedMemoryTC
  /\ heldTC = {f.block : f \in masterCopyTxTC}
  /\ \A f, g \in masterCopyTxTC : f.block = g.block => f = g

\* The packets whose lengths are q are empty or of the largest length.
Regular(q) == \A i \in 1..Len(q) : q[i] \in {0, MaxPacketLength}

LengthsRegular == \A s \in Services \ irregular : Regular(lengthsTC[s])

TcInv == TcTypes /\ PoolOwnedTC /\ QueuesInStep /\ LengthsRegular

\* What the invariant says of the queues.
LEMMA TcFacts ==
  ASSUME TcTypes, NEW s \in Services
  PROVE  /\ lengthsTC[s] \in Seq(TcPacketLengths) /\ lengthsTC[s] \in Seq(Nat)
         /\ octetsTC[s] \in 0..TcPacketBufferCap /\ TcPacketBufferCap \in Nat
<1>1. lengthsTC[s] \in Seq(TcPacketLengths) /\ octetsTC[s] \in 0..TcPacketBufferCap
  BY DEF TcTypes
<1>2. TcPacketLengths \subseteq Nat /\ TcPacketBufferCap \in Nat
  BY TcAssumption
<1>3. QED
  BY <1>1, <1>2, SeqMonotonic

\* The blocks b are new and apart.
TcMade(data, b) ==
  /\ b \in Seq(Blocks) /\ Len(b) \in 0..Len(data)
  /\ \A k \in 1..Len(b) : b[k] \notin usedMemoryTC
  /\ \A j, k \in 1..Len(b) : b[j] = b[k] => j = k
  /\ Separate(usedMemoryTC \cup ToSet(b))

\* Such are the blocks for the frames of one packet.
LEMMA TcBlocksMade ==
  ASSUME PoolOwnedTC, NEW data \in Seq(Nat), NEW b, b = TcBlocksFor(data)
  PROVE  TcMade(data, b)
<1> DEFINE lens == [i \in DOMAIN data |-> data[i] + TcOverhead]
<1>1. Len(lens) = Len(data) /\ Len(data) \in Nat
  <2>1. TcOverhead \in Nat
    BY TcAssumption
  <2>2. /\ DOMAIN data = 1..Len(data) /\ Len(data) \in Nat
        /\ \A i \in 1..Len(data) : data[i] + TcOverhead \in Nat
    BY <2>1
  <2>3. lens \in [1..Len(data) -> Nat]
    BY <2>2
  <2> HIDE DEF lens
  <2>4. QED
    BY <2>2, <2>3
<1>2. b = BlocksFor(usedMemoryTC, lens)
  BY DEF TcBlocksFor
<1> HIDE DEF lens
<1>3. usedMemoryTC \subseteq Blocks /\ Separate(usedMemoryTC)
  BY DEF PoolOwnedTC
<1>4. Placed(usedMemoryTC, lens, b) /\ Len(b) <= Len(data)
  BY <1>1, <1>2, <1>3, BlocksForPlaced
<1>5. b \in Seq(Blocks)
  BY <1>4 DEF Placed
<1>6. Len(b) \in 0..Len(data)
  BY <1>1, <1>4, <1>5
<1>7. QED
  BY <1>4, <1>5, <1>6 DEF Placed, TcMade

\* Frames on such blocks enter the lists and the pool.
LEMMA TcEnterKeeps ==
  ASSUME TcTypes, PoolOwnedTC, NEW s \in Services, NEW data \in Seq(Nat),
         NEW b, b = TcBlocksFor(data), TcEnter(s, b)
  PROVE  /\ masterCopyTxTC' \subseteq TcFrames /\ IsFiniteSet(masterCopyTxTC')
         /\ Cardinality(masterCopyTxTC') <= TcMasterCap
         /\ unprocessed' \in 0..UnprocessedCap
         /\ PoolOwnedTC'
<1> DEFINE made == [i \in DOMAIN b |-> [service |-> s, block |-> b[i]]]
<1>1. /\ b \in Seq(Blocks) /\ Len(b) \in 0..Len(data)
      /\ \A k \in 1..Len(b) : b[k] \notin usedMemoryTC
      /\ \A j, k \in 1..Len(b) : b[j] = b[k] => j = k
      /\ Separate(usedMemoryTC \cup ToSet(b))
  <2>1. TcMade(data, b)
    BY TcBlocksMade
  <2>2. QED
    BY <2>1 DEF TcMade
<1>2. /\ TcRoomFor(Len(b))
      /\ usedMemoryTC' = usedMemoryTC \cup ToSet(b)
      /\ heldTC' = heldTC \cup ToSet(b)
      /\ masterCopyTxTC' = masterCopyTxTC \cup {[service |-> s, block |-> c] : c \in ToSet(b)}
      /\ unprocessed' = unprocessed + Len(b)
  BY DEF TcEnter
<1>3. DOMAIN b = 1..Len(b) /\ Len(b) \in Nat /\ \A k \in 1..Len(b) : b[k] \in Blocks
  BY <1>1
<1>4. ToSet(b) = {b[k] : k \in 1..Len(b)}
  BY <1>3 DEF ToSet
<1>5. \A k \in 1..Len(b) : made[k] \in TcFrames /\ made[k].block = b[k]
  BY <1>3 DEF TcFrames
<1>15. \A k \in 1..Len(b) : made[k] = [service |-> s, block |-> b[k]]
  BY <1>3
<1>6. made \in Seq(TcFrames) /\ Len(made) = Len(b)
  <2>1. made \in [1..Len(b) -> TcFrames]
    BY <1>3 DEF TcFrames
  <2> HIDE DEF made
  <2>2. QED
    BY <1>3, <2>1
<1> HIDE DEF made
<1>7. ToSet(made) = {made[k] : k \in 1..Len(b)} /\ ToSet(made) \subseteq TcFrames
  <2>1. DOMAIN made = 1..Len(b)
    BY <1>6
  <2>2. QED
    BY <1>5, <2>1 DEF ToSet
<1>16. masterCopyTxTC' = masterCopyTxTC \cup ToSet(made)
  <2>1. ToSet(made) = {[service |-> s, block |-> c] : c \in ToSet(b)}
    <3>1. ASSUME NEW f \in ToSet(made)
          PROVE  \E c \in ToSet(b) : f = [service |-> s, block |-> c]
      <4>1. PICK k \in 1..Len(b) : f = made[k]
        BY <1>7, <3>1
      <4>2. b[k] \in ToSet(b)
        BY <1>4
      <4>3. QED
        BY <1>15, <4>1, <4>2
    <3>2. ASSUME NEW c \in ToSet(b)
          PROVE  [service |-> s, block |-> c] \in ToSet(made)
      <4>1. PICK k \in 1..Len(b) : c = b[k]
        BY <1>4, <3>2
      <4>2. made[k] = [service |-> s, block |-> c]
        BY <1>15, <4>1
      <4>3. QED
        BY <1>7, <4>2
    <3>3. QED
      BY <3>1, <3>2
  <2>2. QED
    BY <1>2, <2>1
<1>8. Distinct(made)
  <2>1. ASSUME NEW i \in 1..Len(b), NEW j \in 1..Len(b), made[i] = made[j]
        PROVE  i = j
    BY <1>1, <1>5, <2>1
  <2>2. QED
    BY <1>6, <2>1 DEF Distinct
<1>9. IsFiniteSet(ToSet(made)) /\ Cardinality(ToSet(made)) = Len(b)
  BY <1>6, <1>8, DistinctCount
<1>10. IsFiniteSet(masterCopyTxTC') /\ Cardinality(masterCopyTxTC') <= TcMasterCap
  <2>1. IsFiniteSet(masterCopyTxTC)
    BY DEF TcTypes
  <2>2. /\ IsFiniteSet(masterCopyTxTC \cup ToSet(made))
        /\ Cardinality(masterCopyTxTC \cup ToSet(made)) =
             Cardinality(masterCopyTxTC) + Cardinality(ToSet(made))
               - Cardinality(masterCopyTxTC \cap ToSet(made))
    BY <1>9, <2>1, FS_Union
  <2>3. IsFiniteSet(masterCopyTxTC \cap ToSet(made))
    BY <2>1, FS_Intersection
  <2>4. Cardinality(masterCopyTxTC \cap ToSet(made)) \in Nat /\ Cardinality(masterCopyTxTC) \in Nat
    BY <2>1, <2>3, FS_CardinalityType
  <2>5. Cardinality(masterCopyTxTC) + Len(b) <= TcMasterCap /\ TcMasterCap \in Nat
    BY <1>2, TcAssumption DEF TcRoomFor
  <2>6. Cardinality(masterCopyTxTC \cup ToSet(made)) <= TcMasterCap
    BY <1>3, <1>9, <2>2, <2>4, <2>5
  <2>7. QED
    BY <1>16, <2>2, <2>6
<1>11. unprocessed' \in 0..UnprocessedCap
  <2>1. unprocessed \in 0..UnprocessedCap /\ unprocessed + Len(b) <= UnprocessedCap
    BY <1>2 DEF TcTypes, TcRoomFor
  <2>2. UnprocessedCap \in Nat
    BY TcAssumption
  <2>3. QED
    BY <1>2, <1>3, <2>1, <2>2
<1>12. masterCopyTxTC' \subseteq TcFrames
  BY <1>7, <1>16 DEF TcTypes
<1>13. PoolOwnedTC'
  <2>1. /\ usedMemoryTC \subseteq Blocks /\ heldTC \subseteq usedMemoryTC
        /\ heldTC = {f.block : f \in masterCopyTxTC}
        /\ \A f, g \in masterCopyTxTC : f.block = g.block => f = g
    BY DEF PoolOwnedTC
  <2>2. ToSet(b) = {f.block : f \in ToSet(made)}
    BY <1>4, <1>5, <1>7
  <2>3. heldTC' = {f.block : f \in masterCopyTxTC'}
    BY <1>2, <1>16, <2>1, <2>2
  <2>4. usedMemoryTC' \subseteq Blocks /\ heldTC' \subseteq usedMemoryTC' /\ Separate(usedMemoryTC')
    BY <1>1, <1>2, <1>3, <1>4, <2>1
  <2>5. \A f, g \in ToSet(made) : f.block = g.block => f = g
    BY <1>1, <1>5, <1>7
  <2>6. \A f \in masterCopyTxTC, g \in ToSet(made) : f.block # g.block
    BY <1>1, <1>5, <1>7, <2>1
  <2>7. \A f, g \in masterCopyTxTC' : f.block = g.block => f = g
    BY <1>16, <2>1, <2>5, <2>6
  <2>8. QED
    BY <2>3, <2>4, <2>7 DEF PoolOwnedTC
<1>14. QED
  BY <1>10, <1>11, <1>12, <1>13

\* What segmentationTC puts into a frame is a number of octets.
LEMMA FrameData ==
  ASSUME NEW d \in Nat, NEW i \in Nat
  PROVE  DataOfFrame(d, i) \in Nat
<1>1. MaxPacketLength \in Int /\ UInt16 \in Nat /\ UInt16 > 0
  BY TcAssumption
<1>2. (i - 1) * d \in Int
  OBVIOUS
<1>3. PICK a : a = MaxPacketLength - (i - 1) * d
  OBVIOUS
<1>4. a \in Int
  BY <1>1, <1>2, <1>3
<1>5. a % UInt16 \in Nat
  <2>1. a % UInt16 \in 0..UInt16 - 1
    BY <1>1, <1>4, Remainder
  <2>2. QED
    BY <1>1, <2>1
<1>6. QED
  BY <1>3, <1>5 DEF DataOfFrame

\* A packet of the largest length has its own octets in its frames.
LEMMA WholePacket ==
  ASSUME NEW d \in Nat, d > 0, NEW l \in {0, MaxPacketLength},
         NEW n, n = (l + d - 1) \div d, n > 0
  PROVE  /\ l = MaxPacketLength /\ n \in Nat \ {0} /\ (n - 1) * d <= l
         /\ [i \in 1..n |-> DataOfFrame(d, i)] = Segments(l, d, n)
<1>1. MaxPacketLength \in 0..UInt16 - 1 /\ UInt16 \in Nat /\ MaxPacketLength \in Nat
  <2>1. MaxPacketLength \in 0..UInt16 - 1 /\ UInt16 \in Nat
    BY TcAssumption
  <2>2. QED
    BY <2>1
<1>2. l \in Nat
  BY <1>1
<1>3. n \in Nat /\ n * d >= l /\ (n - 1) * d < l
  BY <1>2, FieldsNeeded
<1>4. l = MaxPacketLength
  <2>1. (n - 1) * d \in Nat
    BY <1>3
  <2>2. l # 0
    BY <1>2, <1>3, <2>1
  <2>3. QED
    BY <2>2
<1>5. ASSUME NEW i \in 1..n
      PROVE  DataOfFrame(d, i) = IF i < n THEN d ELSE l - (n - 1) * d
  <2>1. i \in Nat /\ i <= n /\ i > 0
    BY <1>3
  <2>2. PICK a : a = MaxPacketLength - (i - 1) * d
    OBVIOUS
  <2>3. (i - 1) * d >= 0 /\ (i - 1) * d <= (n - 1) * d /\ (i - 1) * d \in Int
        /\ (n - 1) * d \in Int
    <3>1. PICK j, k : j = i - 1 /\ k = n - i
      OBVIOUS
    <3>2. j \in Nat /\ k \in Nat /\ n - 1 = j + k
      BY <1>3, <2>1, <3>1
    <3>3. j * d \in Nat /\ k * d \in Nat /\ (j + k) * d = j * d + k * d
      BY <3>2
    <3>4. QED
      BY <3>1, <3>2, <3>3
  <2>4. a \in 0..UInt16 - 1
    BY <1>1, <1>3, <1>4, <2>2, <2>3
  <2>5. a % UInt16 = a
    <3>1. a = UInt16 * (a \div UInt16) + (a % UInt16) /\ a \div UInt16 \in Int
          /\ a % UInt16 \in 0..UInt16 - 1
      <4>1. UInt16 > 0 /\ a \in Int
        BY <1>1, <2>4
      <4>2. QED
        BY <1>1, <4>1, Remainder
    <3>2. a - (a % UInt16) = UInt16 * (a \div UInt16)
          /\ a - (a % UInt16) \in -(UInt16 - 1)..UInt16 - 1
      BY <1>1, <2>4, <3>1
    <3>3. QED
      BY <1>1, <2>4, <3>1, <3>2
  <2>6. DataOfFrame(d, i) = IF a > d THEN d ELSE a
    BY <2>2, <2>5 DEF DataOfFrame
  <2>7. CASE i = n
    <3>1. (n - 1) * d = n * d - d /\ n * d \in Int
      BY <1>3
    <3>2. a <= d /\ a = l - (n - 1) * d /\ a \in Int
      BY <1>3, <1>4, <2>2, <2>4, <2>7, <3>1
    <3>3. QED
      BY <2>6, <2>7, <3>2
  <2>8. CASE i < n
    <3>1. i * d <= (n - 1) * d
      <4>1. PICK k : k = n - 1 - i
        OBVIOUS
      <4>2. k \in Nat /\ n - 1 = i + k
        BY <1>3, <2>1, <2>8, <4>1
      <4>3. k * d \in Nat /\ (i + k) * d = i * d + k * d /\ i * d \in Nat
        BY <2>1, <4>2
      <4>4. QED
        BY <4>2, <4>3
    <3>2. (i - 1) * d = i * d - d /\ i * d \in Int
      BY <2>1
    <3>3. a > d
      BY <1>1, <1>3, <1>4, <2>2, <2>3, <3>1, <3>2
    <3>4. QED
      BY <2>6, <2>8, <3>3
  <2>9. QED
    BY <1>3, <2>1, <2>7, <2>8
<1>6. [i \in 1..n |-> DataOfFrame(d, i)] = Segments(l, d, n)
  BY <1>5 DEF Segments
<1>7. (n - 1) * d <= l
  <2>1. (n - 1) * d \in Int
    BY <1>3
  <2>2. QED
    BY <1>2, <1>3, <2>1
<1>8. QED
  BY <1>3, <1>4, <1>6, <1>7

\* The number of packets that blockingTC takes exists.
LEMMA TcTakenExists ==
  ASSUME NEW q \in Seq(Nat), NEW d \in Nat
  PROVE  TcTaken(q, d) \in 0..Len(q)
<1> DEFINE Fills(k) == /\ k = 0 <=> q = << >>
                       /\ k > 1 => TcBlocking /\ SumFunction(Prefix(q, k)) <= d
                       /\ TcBlocking /\ k < Len(q) => SumFunction(Prefix(q, k + 1)) > d
<1>1. \E k \in 0..Len(q) : Fills(k)
  <2>1. CASE q = << >>
    <3>1. Len(q) = 0 /\ 0 \in 0..Len(q) /\ ~ (0 > 1) /\ ~ (0 < Len(q))
      BY <2>1
    <3>2. QED
      BY <2>1, <3>1
  <2>2. CASE q # << >>
    <3>1. PICK k \in 1..Len(q) :
            /\ k > 1 => TcBlocking \in {TRUE} /\ SumFunction(SubSeq(q, 1, k)) <= d
            /\ TcBlocking \in {TRUE} /\ k < Len(q) => SumFunction(SubSeq(q, 1, k + 1)) > d
      BY <2>2, FillingExists
    <3>2. TcBlocking \in {TRUE} <=> TcBlocking
      BY TcAssumption
    <3>3. k \in 0..Len(q) /\ k # 0
      OBVIOUS
    <3>4. QED
      BY <2>2, <3>1, <3>2, <3>3 DEF Prefix
  <2>3. QED
    BY <2>1, <2>2
<1>2. TcTaken(q, d) = CHOOSE k \in 0..Len(q) : Fills(k)
  BY DEF TcTaken
<1> HIDE DEF Fills
<1>3. QED
  BY <1>1, <1>2

\* The octets of both queues change alike.
LEMMA QueuesKeepStep ==
  ASSUME TcTypes, QueuesInStep, LengthsRegular, NEW s \in Services, NEW q \in Seq(TcPacketLengths), NEW o,
         lengthsTC' = [lengthsTC EXCEPT ![s] = q], octetsTC' = [octetsTC EXCEPT ![s] = o],
         irregular \subseteq irregular',
         \/ s \in irregular'
         \/ octetsTC[s] = SumFunction(lengthsTC[s]) /\ Regular(lengthsTC[s]) =>
              o = SumFunction(q) /\ Regular(q)
  PROVE  QueuesInStep' /\ LengthsRegular'
<1>1. ASSUME NEW u \in Services \ irregular'
      PROVE  octetsTC'[u] = SumFunction(lengthsTC'[u]) /\ Regular(lengthsTC'[u])
  <2>1. octetsTC[u] = SumFunction(lengthsTC[u]) /\ Regular(lengthsTC[u])
    BY DEF QueuesInStep, LengthsRegular
  <2>2. CASE u = s
    <3>1. lengthsTC'[u] = q /\ octetsTC'[u] = o
      BY <2>2 DEF TcTypes
    <3>2. QED
      BY <2>1, <2>2, <3>1
  <2>3. CASE u # s
    <3>1. lengthsTC'[u] = lengthsTC[u] /\ octetsTC'[u] = octetsTC[u]
      BY <2>3 DEF TcTypes
    <3>2. QED
      BY <2>1, <3>1
  <2>4. QED
    BY <2>2, <2>3
<1>2. \A q2 : Regular(q2)' <=> Regular(q2)
  BY DEF Regular
<1>3. QED
  BY <1>1 DEF QueuesInStep, LengthsRegular, Regular

\* A container that throws leaves everything as it was.
LEMMA ThrowTCKeeps ==
  ASSUME TcInv, ThrowTC
  PROVE  TcInv'
<1>1. /\ thrownTC' = TRUE
      /\ UNCHANGED <<usedMemoryTC, heldTC, lengthsTC, octetsTC, masterCopyTxTC, unprocessed, irregular>>
  BY DEF ThrowTC, poolTC, framesTC, packetsTC
<1>2. TcTypes' /\ PoolOwnedTC' /\ QueuesInStep' /\ LengthsRegular'
  BY <1>1 DEF TcInv, TcTypes, PoolOwnedTC, QueuesInStep, LengthsRegular, Regular
<1>3. QED
  BY <1>2 DEF TcInv

\* storePacketTxTC
LEMMA TcStoreKeeps ==
  ASSUME TcInv, NEW s \in Services, NEW n \in TcPacketLengths, StorePacketTxTC(s, n), ~ ThrowTC
  PROVE  TcInv'
<1>1. /\ lengthsTC' = [lengthsTC EXCEPT ![s] = Append(lengthsTC[s], n)]
      /\ octetsTC' = [octetsTC EXCEPT ![s] = octetsTC[s] + n]
      /\ octetsTC[s] + n <= TcPacketBufferCap
      /\ irregular' = IF n \in {0, MaxPacketLength} THEN irregular ELSE irregular \cup {s}
      /\ UNCHANGED <<usedMemoryTC, heldTC, masterCopyTxTC, unprocessed, thrownTC>>
  BY DEF StorePacketTxTC, poolTC, framesTC
<1>2. /\ lengthsTC[s] \in Seq(TcPacketLengths) /\ lengthsTC[s] \in Seq(Nat)
      /\ octetsTC[s] \in 0..TcPacketBufferCap /\ TcPacketBufferCap \in Nat
  BY TcFacts DEF TcInv
<1>3. n \in Nat
  BY TcAssumption
<1>4. Append(lengthsTC[s], n) \in Seq(TcPacketLengths)
  BY <1>2
<1>5. octetsTC[s] + n \in 0..TcPacketBufferCap
  BY <1>1, <1>2, <1>3
<1>6. TcTypes'
  <2>1. lengthsTC' \in [Services -> Seq(TcPacketLengths)]
    BY <1>1, <1>4 DEF TcInv, TcTypes
  <2>2. octetsTC' \in [Services -> 0..TcPacketBufferCap]
    BY <1>1, <1>5 DEF TcInv, TcTypes
  <2>3. irregular' \subseteq Services
    BY <1>1 DEF TcInv, TcTypes
  <2>4. QED
    BY <1>1, <2>1, <2>2, <2>3 DEF TcInv, TcTypes
<1>7. PoolOwnedTC'
  BY <1>1 DEF TcInv, PoolOwnedTC
<1>8. QueuesInStep' /\ LengthsRegular'
  <2>1. SumFunction(Append(lengthsTC[s], n)) = SumFunction(lengthsTC[s]) + n
    BY <1>2, <1>3, SumAppend
  <2>2. ASSUME n \in {0, MaxPacketLength}, Regular(lengthsTC[s])
        PROVE  Regular(Append(lengthsTC[s], n))
    <3>1. PICK q : q = lengthsTC[s]
      OBVIOUS
    <3>2. q \in Seq(Nat) /\ \A i \in 1..Len(q) : q[i] \in {0, MaxPacketLength}
      BY <1>2, <2>2, <3>1 DEF Regular
    <3>3. \A i \in 1..Len(Append(q, n)) : Append(q, n)[i] \in {0, MaxPacketLength}
      BY <1>3, <2>2, <3>2
    <3>4. QED
      BY <3>1, <3>3 DEF Regular
  <2>3. irregular \subseteq irregular' /\ (s \in irregular' \/ n \in {0, MaxPacketLength})
    BY <1>1
  <2>4. QED
    BY <1>1, <1>4, <2>1, <2>2, <2>3, QueuesKeepStep DEF TcInv
<1>9. QED
  BY <1>6, <1>7, <1>8 DEF TcInv

\* Octets that a packet takes leave their queue within its bounds.
LEMMA OctetsLeave ==
  ASSUME TcTypes, NEW s \in Services, NEW size \in Nat, size <= octetsTC[s],
         octetsTC' = [octetsTC EXCEPT ![s] = octetsTC[s] - size]
  PROVE  octetsTC' \in [Services -> 0..TcPacketBufferCap]
<1>1. octetsTC[s] \in 0..TcPacketBufferCap /\ TcPacketBufferCap \in Nat
  BY TcFacts
<1>2. octetsTC[s] - size \in 0..TcPacketBufferCap
  BY <1>1
<1>3. QED
  BY <1>2 DEF TcTypes

\* segmentationTC
LEMMA TcSegmentationKeeps ==
  ASSUME TcInv, NEW s \in Services, NEW d \in TcFieldLengths, NEW length \in Nat,
         lengthsTC[s] # << >> => length = Head(lengthsTC[s]),
         NEW asked, asked = (length + d - 1) \div d, asked > 0, SegmentationTC(s, d, asked)
  PROVE  TcInv'
<1>1. /\ lengthsTC[s] \in Seq(TcPacketLengths) /\ lengthsTC[s] \in Seq(Nat)
      /\ octetsTC[s] \in 0..TcPacketBufferCap /\ TcPacketBufferCap \in Nat
      /\ TcTypes /\ PoolOwnedTC /\ QueuesInStep /\ LengthsRegular
  BY TcFacts DEF TcInv
<1>2. d \in Nat /\ d > 0
  <2>1. d \in Nat /\ d # 0
    BY TcAssumption
  <2>2. QED
    BY <2>1
<1>15. UInt8 \in Nat /\ UInt8 > 0
  <2>1. UInt8 \in Nat \ {0}
    BY TcAssumption
  <2>2. QED
    BY <2>1
<1>16. asked \in Nat
  BY <1>2, FieldsNeeded
<1>17. PICK n : n = asked % UInt8
  OBVIOUS
<1>18. n \in Nat /\ (asked < UInt8 => n = asked)
  <2>1. asked = UInt8 * (asked \div UInt8) + n /\ asked \div UInt8 \in Int /\ n \in 0..UInt8 - 1
    <3>1. asked \in Int
      BY <1>16
    <3>2. asked = UInt8 * (asked \div UInt8) + (asked % UInt8) /\ asked \div UInt8 \in Int
          /\ asked % UInt8 \in 0..UInt8 - 1
      BY ONLY <1>15, <3>1, Remainder
    <3>3. QED
      BY ONLY <1>17, <3>2
  <2>2. n \in Nat
    BY <1>15, <2>1
  <2>3. ASSUME asked < UInt8
        PROVE  n = asked
    <3>1. PICK e : e = asked \div UInt8
      OBVIOUS
    <3>2. e \in Int /\ asked = UInt8 * e + n
      BY <2>1, <3>1
    <3>3. e >= 1 => UInt8 * e >= UInt8
      BY <1>15, <3>2
    <3>4. e <= -1 => UInt8 * e <= -UInt8
      BY <1>15, <3>2
    <3>5. UInt8 * e \in Int /\ (e = 0 => UInt8 * e = 0)
      BY <1>15, <3>2
    <3>8. PICK p : p = UInt8 * e
      OBVIOUS
    <3>9. /\ p \in Int /\ asked = p + n /\ (e >= 1 => p >= UInt8) /\ (e <= -1 => p <= -UInt8)
          /\ n \in 0..UInt8 - 1
      BY <2>1, <3>2, <3>3, <3>4, <3>5, <3>8
    <3>6. ~ (e >= 1) /\ ~ (e <= -1)
      BY ONLY <1>15, <1>16, <2>3, <3>9
    <3>7. e = 0
      BY ONLY <3>2, <3>6
    <3>10. QED
      BY <2>2, <3>2, <3>5, <3>7
  <2>4. QED
    BY <2>2, <2>3
<1>3. PICK data : data = [i \in 1..n |-> DataOfFrame(d, i)]
  OBVIOUS
<1>4. data \in Seq(Nat) /\ Len(data) = n
  <2>1. \A i \in 1..n : DataOfFrame(d, i) \in Nat
    <3>1. \A i \in 1..n : i \in Nat
      OBVIOUS
    <3>2. QED
      BY <1>2, <3>1, FrameData
  <2>2. data \in [1..n -> Nat]
    BY <1>3, <2>1
  <2>3. QED
    BY <1>18, <2>2
<1>5. PICK b : b = TcBlocksFor(data)
  OBVIOUS
<1>6. Len(b) \in 0..n
  BY <1>1, <1>4, <1>5, TcBlocksMade DEF TcMade
<1>7. PICK m : m = (IF Len(b) = n THEN n ELSE Len(b) + 1)
  OBVIOUS
<1>8. m \in 0..n
  BY <1>6, <1>7, <1>18
<1>9. PICK size : size = SumFunction(Prefix(data, m))
  OBVIOUS
<1>10. size \in Nat
  <2>1. SubSeq(data, 1, m) \in Seq(Nat)
    BY <1>4, <1>8, SplitTyped
  <2>2. QED
    BY <1>9, <2>1, SumOfSequence DEF Prefix
<1>11. PICK popped : popped = (IF Len(b) = n THEN 1 ELSE 0)
  OBVIOUS
<1>12. \/ /\ size <= octetsTC[s] /\ popped <= Len(lengthsTC[s])
          /\ TcEnter(s, b)
          /\ octetsTC' = [octetsTC EXCEPT ![s] = octetsTC[s] - size]
          /\ \/ Len(b) = n /\ lengthsTC' = [lengthsTC EXCEPT ![s] = Tail(lengthsTC[s])]
             \/ Len(b) # n /\ UNCHANGED lengthsTC
          /\ irregular' = IF Len(b) = n /\ asked < UInt8 THEN irregular ELSE irregular \cup {s}
       \/ ThrowTC
  BY <1>3, <1>5, <1>7, <1>9, <1>11, <1>17 DEF SegmentationTC, Throw
<1>13. ASSUME size <= octetsTC[s], popped <= Len(lengthsTC[s]), TcEnter(s, b),
              octetsTC' = [octetsTC EXCEPT ![s] = octetsTC[s] - size],
              \/ Len(b) = n /\ lengthsTC' = [lengthsTC EXCEPT ![s] = Tail(lengthsTC[s])]
              \/ Len(b) # n /\ UNCHANGED lengthsTC,
              irregular' = IF Len(b) = n /\ asked < UInt8 THEN irregular ELSE irregular \cup {s}
       PROVE  TcInv'
  <2>1. /\ masterCopyTxTC' \subseteq TcFrames /\ IsFiniteSet(masterCopyTxTC')
        /\ Cardinality(masterCopyTxTC') <= TcMasterCap
        /\ unprocessed' \in 0..UnprocessedCap
        /\ PoolOwnedTC'
    BY <1>1, <1>4, <1>5, <1>13, TcEnterKeeps
  <2>2. octetsTC' \in [Services -> 0..TcPacketBufferCap]
    BY <1>1, <1>10, <1>13, OctetsLeave
  <2>3. irregular \subseteq irregular' /\ irregular' \subseteq Services
    BY <1>13 DEF TcInv, TcTypes
  <2>4. thrownTC' \in BOOLEAN
    BY <1>13 DEF TcEnter, TcInv, TcTypes
  <2>5. CASE Len(b) = n
    <3>1. lengthsTC[s] # << >>
      <4>1. popped = 1
        BY <1>11, <2>5
      <4>2. QED
        BY <1>1, <1>13, <4>1
    <3>2. Tail(lengthsTC[s]) \in Seq(TcPacketLengths) /\ Tail(lengthsTC[s]) \in Seq(Nat)
      BY <1>1, <3>1
    <3>3. lengthsTC' = [lengthsTC EXCEPT ![s] = Tail(lengthsTC[s])]
      BY <1>13, <2>5
    <3>4. lengthsTC' \in [Services -> Seq(TcPacketLengths)]
      BY <3>2, <3>3 DEF TcInv, TcTypes
    <3>5. QueuesInStep' /\ LengthsRegular'
      <4>1. SumFunction(lengthsTC[s]) = Head(lengthsTC[s]) + SumFunction(Tail(lengthsTC[s]))
        BY <1>1, <3>1, SumHeadTail
      <4>2. Head(lengthsTC[s]) \in Nat /\ SumFunction(Tail(lengthsTC[s])) \in Nat
        <5>1. Head(lengthsTC[s]) \in Nat
          BY <1>1, <3>1
        <5>2. QED
          BY <3>2, <5>1, SumOfSequence
      <4>7. PICK q : q = lengthsTC[s]
        OBVIOUS
      <4>8. q \in Seq(Nat) /\ q # << >>
        BY <1>1, <3>1, <4>7
      <4>3. ASSUME s \notin irregular', Regular(lengthsTC[s])
            PROVE  size = Head(lengthsTC[s]) /\ Regular(Tail(lengthsTC[s]))
        <5>1. \A i \in 1..Len(q) : q[i] \in {0, MaxPacketLength}
          BY <4>3, <4>7 DEF Regular
        <5>2. Head(q) \in {0, MaxPacketLength}
              /\ \A i \in 1..Len(Tail(q)) : Tail(q)[i] \in {0, MaxPacketLength}
          BY <4>8, <5>1
        <5>3. length = Head(q) /\ n = asked
          BY <1>13, <1>18, <2>5, <3>1, <4>3, <4>7
        <5>4. length \in {0, MaxPacketLength}
          BY <5>2, <5>3
        <5>5. n \in Nat \ {0} /\ (n - 1) * d <= length
              /\ [i \in 1..n |-> DataOfFrame(d, i)] = Segments(length, d, n)
          BY <1>2, <5>3, <5>4, WholePacket
        <5>6. SumFunction(data) = length
          <6>1. SumFunction(Segments(length, d, n)) = length
            BY <1>2, <5>5, SegmentsSum
          <6>2. QED
            BY <1>3, <5>5, <6>1
        <5>7. SubSeq(data, 1, n) = data
          BY <1>4
        <5>8. size = length
          BY <1>7, <1>9, <2>5, <5>6, <5>7 DEF Prefix
        <5>9. QED
          BY <4>7, <5>2, <5>3, <5>8 DEF Regular
      <4>4. \/ s \in irregular'
            \/ octetsTC[s] = SumFunction(lengthsTC[s]) /\ Regular(lengthsTC[s]) =>
                 octetsTC[s] - size = SumFunction(Tail(lengthsTC[s])) /\ Regular(Tail(lengthsTC[s]))
        <5>1. size = Head(lengthsTC[s]) /\ octetsTC[s] = SumFunction(lengthsTC[s]) =>
                octetsTC[s] - size = SumFunction(Tail(lengthsTC[s]))
          BY <1>10, <4>1, <4>2
        <5>2. QED
          BY <4>3, <5>1
      <4>5. octetsTC' = [octetsTC EXCEPT ![s] = octetsTC[s] - size]
        BY <1>13
      <4>6. QED
        BY <1>1, <2>3, <3>2, <3>3, <4>4, <4>5, QueuesKeepStep
    <3>6. TcTypes'
      BY <2>1, <2>2, <2>3, <2>4, <3>4 DEF TcTypes
    <3>7. QED
      BY <2>1, <3>5, <3>6 DEF TcInv
  <2>6. CASE Len(b) # n
    <3>1. lengthsTC' = lengthsTC /\ irregular' = irregular \cup {s}
      BY <1>13, <2>6
    <3>2. lengthsTC' = [lengthsTC EXCEPT ![s] = lengthsTC[s]]
      BY <3>1 DEF TcInv, TcTypes
    <3>3. octetsTC' = [octetsTC EXCEPT ![s] = octetsTC[s] - size] /\ s \in irregular'
      BY <1>13, <3>1
    <3>4. QueuesInStep' /\ LengthsRegular'
      BY <1>1, <2>3, <3>2, <3>3, QueuesKeepStep
    <3>5. TcTypes'
      BY <2>1, <2>2, <2>3, <2>4, <3>1 DEF TcInv, TcTypes
    <3>6. QED
      BY <2>1, <3>4, <3>5 DEF TcInv
  <2>7. QED
    BY <2>5, <2>6
<1>14. QED
  BY <1>12, <1>13, ThrowTCKeeps

\* blockingTC
LEMMA TcBlockingKeeps ==
  ASSUME TcInv, NEW s \in Services, NEW d \in TcFieldLengths, BlockingTC(s, d)
  PROVE  TcInv'
<1>1. /\ lengthsTC[s] \in Seq(TcPacketLengths) /\ lengthsTC[s] \in Seq(Nat)
      /\ octetsTC[s] \in 0..TcPacketBufferCap /\ TcPacketBufferCap \in Nat
      /\ TcTypes /\ PoolOwnedTC /\ QueuesInStep /\ LengthsRegular
  BY TcFacts DEF TcInv
<1>2. d \in Nat
  BY TcAssumption
<1>3. PICK k : k = TcTaken(lengthsTC[s], d)
  OBVIOUS
<1>4. k \in 0..Len(lengthsTC[s])
  BY <1>1, <1>2, <1>3, TcTakenExists
<1>5. PICK size : size = SumFunction(Prefix(lengthsTC[s], k))
  OBVIOUS
<1>6. PICK rest : rest = SubSeq(lengthsTC[s], k + 1, Len(lengthsTC[s]))
  OBVIOUS
<1>7. size \in Nat /\ rest \in Seq(TcPacketLengths) /\ SumFunction(rest) \in Nat
      /\ SumFunction(lengthsTC[s]) = size + SumFunction(rest)
  <2>1. SubSeq(lengthsTC[s], 1, k) \in Seq(Nat) /\ rest \in Seq(Nat) /\ rest \in Seq(TcPacketLengths)
    BY <1>1, <1>4, <1>6, SplitTyped
  <2>2. SumFunction(lengthsTC[s]) =
          SumFunction(SubSeq(lengthsTC[s], 1, k)) + SumFunction(SubSeq(lengthsTC[s], k + 1, Len(lengthsTC[s])))
    BY <1>1, <1>4, SumSplit
  <2>3. QED
    BY <1>5, <1>6, <2>1, <2>2, SumOfSequence DEF Prefix
<1>8. PICK b : b = TcBlocksFor(<<size>>)
  OBVIOUS
<1>9. \/ /\ size <= octetsTC[s]
         /\ TcEnter(s, b)
         /\ octetsTC' = [octetsTC EXCEPT ![s] = octetsTC[s] - size]
         /\ lengthsTC' = [lengthsTC EXCEPT ![s] = rest]
         /\ irregular' = irregular
      \/ ThrowTC
  BY <1>3, <1>5, <1>6, <1>8 DEF BlockingTC, Throw
<1>10. ASSUME size <= octetsTC[s], TcEnter(s, b),
              octetsTC' = [octetsTC EXCEPT ![s] = octetsTC[s] - size],
              lengthsTC' = [lengthsTC EXCEPT ![s] = rest], irregular' = irregular
       PROVE  TcInv'
  <2>1. /\ masterCopyTxTC' \subseteq TcFrames /\ IsFiniteSet(masterCopyTxTC')
        /\ Cardinality(masterCopyTxTC') <= TcMasterCap
        /\ unprocessed' \in 0..UnprocessedCap
        /\ PoolOwnedTC'
    <3>1. <<size>> \in Seq(Nat)
      BY <1>7
    <3>2. QED
      BY <1>1, <1>8, <1>10, <3>1, TcEnterKeeps
  <2>2. octetsTC' \in [Services -> 0..TcPacketBufferCap]
    BY <1>1, <1>7, <1>10, OctetsLeave
  <2>3. thrownTC' \in BOOLEAN
    BY <1>10 DEF TcEnter, TcInv, TcTypes
  <2>4. lengthsTC' \in [Services -> Seq(TcPacketLengths)] /\ irregular' \subseteq Services
    BY <1>7, <1>10 DEF TcInv, TcTypes
  <2>5. TcTypes'
    BY <2>1, <2>2, <2>3, <2>4 DEF TcTypes
  <2>6. QueuesInStep' /\ LengthsRegular'
    <3>1. octetsTC[s] = SumFunction(lengthsTC[s]) => octetsTC[s] - size = SumFunction(rest)
      BY <1>7
    <3>2. irregular \subseteq irregular'
      BY <1>10
    <3>3. ASSUME Regular(lengthsTC[s])
          PROVE  Regular(rest)
      <4>1. PICK q : q = lengthsTC[s]
        OBVIOUS
      <4>2. /\ q \in Seq(Nat) /\ k \in 0..Len(q) /\ rest = SubSeq(q, k + 1, Len(q))
            /\ \A i \in 1..Len(q) : q[i] \in {0, MaxPacketLength}
        BY <1>1, <1>4, <1>6, <3>3, <4>1 DEF Regular
      <4>3. \A i \in 1..Len(rest) : k + i \in 1..Len(q) /\ rest[i] = q[k + i]
        BY <4>2
      <4>4. QED
        BY <4>2, <4>3 DEF Regular
    <3>4. QED
      BY <1>1, <1>7, <1>10, <3>1, <3>2, <3>3, QueuesKeepStep
  <2>7. QED
    BY <2>1, <2>5, <2>6 DEF TcInv
<1>11. QED
  BY <1>9, <1>10, ThrowTCKeeps

\* mappRequestTxTC, also where the queue it reads is empty.
LEMMA MappKeeps ==
  ASSUME TcInv, NEW s \in Services, NEW d \in TcFieldLengths, MappRequestTxTC(s, d)
  PROVE  TcInv'
<1>1. PICK length \in IF lengthsTC[s] = << >> THEN TcPacketLengths ELSE {Head(lengthsTC[s])} :
        \/ (length + d - 1) \div d > 0 /\ SegmentationTC(s, d, (length + d - 1) \div d)
        \/ (length + d - 1) \div d = 0 /\ BlockingTC(s, d)
  BY DEF MappRequestTxTC
<1>2. length \in Nat
  <2>1. TcPacketLengths \subseteq Nat
    BY TcAssumption
  <2>2. CASE lengthsTC[s] = << >>
    BY <1>1, <2>1, <2>2
  <2>3. CASE lengthsTC[s] # << >>
    <3>1. lengthsTC[s] \in Seq(Nat)
      BY TcFacts DEF TcInv
    <3>2. Head(lengthsTC[s]) \in Nat
      BY <2>3, <3>1
    <3>3. QED
      BY <1>1, <2>3, <3>2
  <2>4. QED
    BY <2>2, <2>3
<1>3. d \in Nat /\ d > 0
  <2>1. d \in Nat /\ d # 0
    BY TcAssumption
  <2>2. QED
    BY <2>1
<1>4. PICK n : n = (length + d - 1) \div d
  OBVIOUS
<1>5. n \in Nat
  BY <1>2, <1>3, <1>4, FieldsNeeded
<1>6. \/ n > 0 /\ SegmentationTC(s, d, n)
      \/ n = 0 /\ BlockingTC(s, d)
  BY <1>1, <1>4
<1>7. lengthsTC[s] # << >> => length = Head(lengthsTC[s])
  BY <1>1
<1>8. QED
  BY <1>2, <1>4, <1>6, <1>7, TcSegmentationKeeps, TcBlockingKeeps

\* The front frame can leave the unprocessed list.
LEMMA VcRequestKeeps ==
  ASSUME TcInv, VcGenerationRequestTxTC
  PROVE  TcInv'
<1>1. /\ unprocessed > 0 /\ unprocessed' = unprocessed - 1
      /\ UNCHANGED <<usedMemoryTC, heldTC, lengthsTC, octetsTC, masterCopyTxTC, irregular, thrownTC>>
  BY DEF VcGenerationRequestTxTC, poolTC, packetsTC
<1>2. unprocessed \in 0..UnprocessedCap /\ UnprocessedCap \in Nat
  BY TcAssumption DEF TcInv, TcTypes
<1>3. unprocessed' \in 0..UnprocessedCap
  BY <1>1, <1>2
<1>4. TcTypes'
  BY <1>1, <1>3 DEF TcInv, TcTypes
<1>5. PoolOwnedTC' /\ QueuesInStep' /\ LengthsRegular'
  BY <1>1 DEF TcInv, PoolOwnedTC, QueuesInStep, LengthsRegular, Regular
<1>6. QED
  BY <1>4, <1>5 DEF TcInv

\* A frame is erased with its own block, or with none where the length that the pool is
\* told reaches beyond it.
LEMMA RemoveKeeps ==
  ASSUME TcInv, NEW f \in masterCopyTxTC, RemoveAcknowledgedFrame(f)
  PROVE  TcInv'
<1>1. /\ masterCopyTxTC' = masterCopyTxTC \ {f}
      /\ heldTC' = heldTC \ {f.block}
      /\ usedMemoryTC' = IF f.block.start + HeaderLength(f.block.len) < MemorySize
                         THEN {u \in usedMemoryTC : u.start # f.block.start} ELSE usedMemoryTC
      /\ UNCHANGED <<lengthsTC, octetsTC, unprocessed, irregular, thrownTC>>
  BY DEF RemoveAcknowledgedFrame, packetsTC
<1>2. /\ usedMemoryTC \subseteq Blocks /\ Separate(usedMemoryTC) /\ heldTC \subseteq usedMemoryTC
      /\ heldTC = {g.block : g \in masterCopyTxTC}
      /\ \A g, h \in masterCopyTxTC : g.block = h.block => g = h
  BY DEF TcInv, PoolOwnedTC
<1>3. /\ masterCopyTxTC' \subseteq TcFrames /\ IsFiniteSet(masterCopyTxTC')
      /\ Cardinality(masterCopyTxTC') <= TcMasterCap
  <2>1. /\ masterCopyTxTC \subseteq TcFrames /\ IsFiniteSet(masterCopyTxTC)
        /\ Cardinality(masterCopyTxTC) <= TcMasterCap /\ TcMasterCap \in Nat
    BY TcAssumption DEF TcInv, TcTypes
  <2>2. IsFiniteSet(masterCopyTxTC') /\ Cardinality(masterCopyTxTC') <= Cardinality(masterCopyTxTC)
    BY <1>1, <2>1, FS_Subset
  <2>3. Cardinality(masterCopyTxTC') \in Nat /\ Cardinality(masterCopyTxTC) \in Nat
    BY <2>1, <2>2, FS_CardinalityType
  <2>4. Cardinality(masterCopyTxTC') <= TcMasterCap
    BY <2>1, <2>2, <2>3
  <2>5. QED
    BY <1>1, <2>1, <2>2, <2>4
<1>4. TcTypes'
  BY <1>1, <1>3 DEF TcInv, TcTypes
<1>5. usedMemoryTC' \subseteq usedMemoryTC
  BY <1>1
<1>6. Separate(usedMemoryTC')
  BY <1>2, <1>5 DEF Separate
<1>7. heldTC' = {g.block : g \in masterCopyTxTC'}
  BY <1>1, <1>2
<1>8. heldTC' \subseteq usedMemoryTC'
  <2>1. ASSUME NEW b \in heldTC'
        PROVE  b \in usedMemoryTC'
    <3>1. b \in usedMemoryTC /\ b # f.block /\ f.block \in usedMemoryTC
      BY <1>1, <1>2
    <3>2. b.start # f.block.start
      BY <1>2, <3>1, SameStart
    <3>3. QED
      BY <1>1, <3>1, <3>2
  <2>2. QED
    BY <2>1
<1>9. PoolOwnedTC'
  BY <1>1, <1>2, <1>5, <1>6, <1>7, <1>8 DEF PoolOwnedTC
<1>10. QueuesInStep' /\ LengthsRegular'
  BY <1>1 DEF TcInv, QueuesInStep, LengthsRegular, Regular
<1>11. QED
  BY <1>4, <1>9, <1>10 DEF TcInv

LEMMA TcInvariant == TcSpec => []TcInv
<1>1. TcInit => TcInv
  <2> SUFFICES ASSUME TcInit
               PROVE  TcInv
    OBVIOUS
  <2>1. {TcPacketBufferCap, TcMasterCap, UnprocessedCap} \subseteq Nat
    BY TcAssumption
  <2>2. IsFiniteSet({}) /\ Cardinality({}) = 0
    BY FS_EmptySet
  <2>3. << >> \in Seq(TcPacketLengths) /\ Len(<< >>) = 0
    OBVIOUS
  <2>4. 0 \in 0..TcPacketBufferCap /\ 0 <= TcMasterCap /\ 0 \in 0..UnprocessedCap
    BY <2>1
  <2>5. TcTypes
    BY <2>2, <2>3, <2>4 DEF TcInit, TcTypes
  <2>6. PoolOwnedTC
    BY DEF TcInit, PoolOwnedTC, Separate
  <2>7. QueuesInStep /\ LengthsRegular
    <3>1. \A s \in Services : lengthsTC[s] = << >> /\ octetsTC[s] = 0
      BY DEF TcInit
    <3>2. Regular(<< >>)
      BY DEF Regular
    <3>3. QED
      BY <3>1, <3>2, SumSmall DEF QueuesInStep, LengthsRegular
  <2>8. QED
    BY <2>5, <2>6, <2>7 DEF TcInv
<1>2. TcInv /\ [TcNext]_tcVars => TcInv'
  <2> SUFFICES ASSUME TcInv, [TcNext]_tcVars
               PROVE  TcInv'
    OBVIOUS
  <2>1. ASSUME NEW s \in Services, NEW n \in TcPacketLengths, StorePacketTxTC(s, n)
        PROVE  TcInv'
    <3>1. CASE ThrowTC
      BY <3>1, ThrowTCKeeps
    <3>2. CASE ~ ThrowTC
      BY <2>1, <3>2, TcStoreKeeps
    <3>3. QED
      BY <3>1, <3>2
  <2>2. ASSUME NEW s \in Services, NEW d \in TcFieldLengths, MappRequestTxTC(s, d)
        PROVE  TcInv'
    BY <2>2, MappKeeps
  <2>3. CASE VcGenerationRequestTxTC
    BY <2>3, VcRequestKeeps
  <2>4. ASSUME NEW f \in masterCopyTxTC, RemoveAcknowledgedFrame(f)
        PROVE  TcInv'
    BY <2>4, RemoveKeeps
  <2>5. CASE UNCHANGED tcVars
    <3>1. UNCHANGED <<usedMemoryTC, heldTC, lengthsTC, octetsTC, masterCopyTxTC, unprocessed,
                      irregular, thrownTC>>
      BY <2>5 DEF tcVars, poolTC, framesTC, packetsTC
    <3>2. TcTypes' /\ PoolOwnedTC' /\ QueuesInStep' /\ LengthsRegular'
      BY <3>1 DEF TcInv, TcTypes, PoolOwnedTC, QueuesInStep, LengthsRegular, Regular
    <3>3. QED
      BY <3>2 DEF TcInv
  <2>6. QED
    BY <2>1, <2>2, <2>3, <2>4, <2>5 DEF TcNext
<1>3. QED
  BY <1>1, <1>2, PTL DEF TcSpec

\* The variables of the TC chain have their types and no list outgrows its capacity.
THEOREM TcTypesCorrect == TcSpec => []TcTypeOK
<1>1. TcInv => TcTypeOK
  BY DEF TcInv, TcTypes, TcTypeOK
<1>2. QED
  BY <1>1, TcInvariant, PTL

\* Every TC frame's octets are a block of its own, in use until the frame is erased, whatever
\* length the pool is told then.
THEOREM TcFramesOwnOctets == TcSpec => []FramesOwnOctets
<1>1. TcInv => FramesOwnOctets
  <2> SUFFICES ASSUME TcInv
               PROVE  FramesOwnOctets
    OBVIOUS
  <2> DEFINE give == [f \in masterCopyTxTC |-> f.block]
  <2>1. /\ Separate(usedMemoryTC) /\ heldTC \subseteq usedMemoryTC
        /\ heldTC = {f.block : f \in masterCopyTxTC}
        /\ \A f, g \in masterCopyTxTC : f.block = g.block => f = g
        /\ IsFiniteSet(masterCopyTxTC)
    BY DEF TcInv, PoolOwnedTC, TcTypes
  <2>2. give \in [masterCopyTxTC -> heldTC]
    BY <2>1
  <2>3. \A f, g \in masterCopyTxTC : give[f] = give[g] => f = g
    BY <2>1
  <2>4. \A b \in heldTC : \E f \in masterCopyTxTC : give[f] = b
    BY <2>1
  <2> HIDE DEF give
  <2>5. give \in Bijection(masterCopyTxTC, heldTC)
    BY <2>2, <2>3, <2>4, Fun_IsBij
  <2>6. ExistsBijection(masterCopyTxTC, heldTC)
    BY <2>5 DEF ExistsBijection
  <2>7. Cardinality(heldTC) = Cardinality(masterCopyTxTC)
    BY <2>1, <2>6, FS_Bijection
  <2>8. QED
    BY <2>1, <2>7 DEF FramesOwnOctets
<1>2. QED
  BY <1>1, TcInvariant, PTL

\* The octets in a TC queue are those of the packets whose lengths are queued, as long as its
\* packets are empty or of the largest length, their frames fit a uint8_t and the pool is
\* never full.
THEOREM TcQueuesInStep == TcSpec => []QueuesInStep
<1>1. TcInv => QueuesInStep
  BY DEF TcInv
<1>2. QED
  BY <1>1, TcInvariant, PTL
=============================================================================
