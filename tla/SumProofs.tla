------------------------------ MODULE SumProofs ------------------------------
(***************************************************************************)
(* Induction over numbers, and what the sums and the counts of the models  *)
(* are.  A sum of numbers f[x] is the number of its units: the pairs of an *)
(* x and a number from 1 to f[x].  Facts about sums are facts about        *)
(* cardinalities therefore.                                                *)
(***************************************************************************)
EXTENDS Integers, SequencesExt, FiniteSetTheorems, FunctionTheorems, SequenceTheorems,
        WellFoundedInduction, TLAPS

----------------------------------------------------------------------------
(* Induction.                                                              *)

\* A nonempty set of numbers has a least one.
LEMMA LeastNumber ==
  ASSUME NEW T, T \subseteq Nat, T # {}
  PROVE  \E m \in T : \A n \in T : m <= n
<1>1. PICK m \in T : \A n \in T : ~ (<<n, m>> \in OpToRel(<, Nat))
  BY NatLessThanWellFounded, WFMin
<1>2. \A n \in T : ~ (n < m)
  BY <1>1 DEF OpToRel
<1>3. QED
  BY <1>2

\* A set of numbers with 0 and with every successor of a member holds all numbers.
LEMMA NumberInduction ==
  ASSUME NEW T, 0 \in T, \A n \in Nat : n \in T => n + 1 \in T
  PROVE  Nat \subseteq T
<1> SUFFICES ASSUME Nat \ T # {}
             PROVE  FALSE
  OBVIOUS
<1>1. PICK m \in Nat \ T : \A n \in Nat \ T : m <= n
  BY LeastNumber
<1>2. m - 1 \in Nat /\ m - 1 \in T
  BY <1>1
<1>3. QED
  BY <1>1, <1>2

----------------------------------------------------------------------------
(* Sums over sets.                                                         *)

Units(f, S) == UNION {{x} \X (1..f[x]) : x \in S}

\* One more summand brings its own units.
LEMMA UnitsAdd ==
  ASSUME NEW f, NEW S, NEW x, x \notin S, f[x] \in Nat, IsFiniteSet(Units(f, S))
  PROVE  /\ IsFiniteSet(Units(f, S \cup {x}))
         /\ Cardinality(Units(f, S \cup {x})) = f[x] + Cardinality(Units(f, S))
<1> DEFINE new == {x} \X (1..f[x])
<1>1. Units(f, S \cup {x}) = Units(f, S) \cup new
  BY DEF Units
<1>2. Units(f, S) \cap new = {}
  BY DEF Units
<1>3. IsFiniteSet(1..f[x]) /\ Cardinality(1..f[x]) = f[x]
  BY FS_Interval
<1>4. IsFiniteSet({x}) /\ Cardinality({x}) = 1
  BY FS_Singleton
<1>5. IsFiniteSet(new) /\ Cardinality(new) = f[x]
  <2>1. IsFiniteSet(new) /\ Cardinality(new) = Cardinality({x}) * Cardinality(1..f[x])
    BY <1>3, <1>4, FS_Product
  <2>2. Cardinality(new) = 1 * f[x]
    BY <1>3, <1>4, <2>1
  <2>3. QED
    BY <2>1, <2>2
<1>6. Cardinality(Units(f, S) \cap new) = 0
  BY <1>2, FS_EmptySet
<1>7. Cardinality(Units(f, S)) \in Nat
  BY FS_CardinalityType
<1>8. /\ IsFiniteSet(Units(f, S) \cup new)
      /\ Cardinality(Units(f, S) \cup new) =
           Cardinality(Units(f, S)) + Cardinality(new) - Cardinality(Units(f, S) \cap new)
  BY <1>5, FS_Union
<1> HIDE DEF new
<1>9. Cardinality(Units(f, S) \cup new) = f[x] + Cardinality(Units(f, S))
  BY <1>5, <1>6, <1>7, <1>8
<1>10. QED
  BY <1>1, <1>8, <1>9

\* The units of finitely many numbers are finitely many.
LEMMA UnitsFinite ==
  ASSUME NEW S, IsFiniteSet(S), NEW f, \A x \in S : f[x] \in Nat
  PROVE  \A U \in SUBSET S : IsFiniteSet(Units(f, U)) /\ Cardinality(Units(f, U)) \in Nat
<1> DEFINE T == {n \in Nat : \A U \in SUBSET S : Cardinality(U) = n => IsFiniteSet(Units(f, U))}
<1>1. 0 \in T
  <2>1. ASSUME NEW U \in SUBSET S, Cardinality(U) = 0
        PROVE  IsFiniteSet(Units(f, U))
    <3>1. U = {}
      BY <2>1, FS_Subset, FS_EmptySet
    <3>2. Units(f, U) = {}
      BY <3>1 DEF Units
    <3>3. QED
      BY <3>2, FS_EmptySet
  <2>2. QED
    BY <2>1
<1>2. ASSUME NEW n \in Nat, n \in T
      PROVE  n + 1 \in T
  <2>1. ASSUME NEW U \in SUBSET S, Cardinality(U) = n + 1
        PROVE  IsFiniteSet(Units(f, U))
    <3>1. IsFiniteSet(U)
      BY FS_Subset
    <3>2. PICK x \in U : TRUE
      BY <2>1, FS_EmptySet
    <3>3. Cardinality(U \ {x}) = n
      <4>1. Cardinality(U \ {x}) = Cardinality(U) - 1
        BY <3>1, <3>2, FS_RemoveElement
      <4>2. QED
        BY <2>1, <4>1
    <3>4. IsFiniteSet(Units(f, U \ {x}))
      BY <1>2, <3>3
    <3>5. (U \ {x}) \cup {x} = U
      OBVIOUS
    <3>6. QED
      BY <3>4, <3>5, UnitsAdd
  <2>2. QED
    BY <2>1
<1>3. Nat \subseteq T
  BY <1>1, <1>2, NumberInduction
<1>4. ASSUME NEW U \in SUBSET S
      PROVE  IsFiniteSet(Units(f, U)) /\ Cardinality(Units(f, U)) \in Nat
  <2>1. Cardinality(U) \in Nat
    BY FS_Subset, FS_CardinalityType
  <2>2. IsFiniteSet(Units(f, U))
    BY <1>3, <2>1
  <2>3. QED
    BY <2>2, FS_CardinalityType
<1>5. QED
  BY <1>4

\* Nothing has no units.
LEMMA NoUnits ==
  ASSUME NEW f
  PROVE  Cardinality(Units(f, {})) = 0
<1>1. Units(f, {}) = {}
  BY DEF Units
<1>2. QED
  BY <1>1, FS_EmptySet

\* The units of one x and of the others.
LEMMA UnitsSplit ==
  ASSUME NEW S, IsFiniteSet(S), NEW f, \A x \in S : f[x] \in Nat,
         NEW t \in SUBSET S, NEW x \in t
  PROVE  Cardinality(Units(f, t)) = f[x] + Cardinality(Units(f, t \ {x}))
<1>1. (t \ {x}) \cup {x} = t /\ t \ {x} \in SUBSET S
  OBVIOUS
<1>2. IsFiniteSet(Units(f, t \ {x}))
  BY <1>1, UnitsFinite
<1>3. QED
  BY <1>1, <1>2, UnitsAdd

\* What the folds of the community modules ask of the function that adds.
Adds(iter, f, S) ==
  iter = [t \in SUBSET S |->
            IF t = {} THEN 0
            ELSE f[CHOOSE x \in t : TRUE] + iter[t \ {CHOOSE x \in t : TRUE}]]

\* The function that counts units does so.
LEMMA CountAdds ==
  ASSUME NEW S, IsFiniteSet(S), NEW f, \A x \in S : f[x] \in Nat
  PROVE  Adds([t \in SUBSET S |-> Cardinality(Units(f, t))], f, S)
<1> DEFINE count == [t \in SUBSET S |-> Cardinality(Units(f, t))]
<1>1. Cardinality(Units(f, {})) = 0
  BY NoUnits
<1>2. ASSUME NEW t \in SUBSET S, NEW x \in t
      PROVE  Cardinality(Units(f, t)) = f[x] + Cardinality(Units(f, t \ {x}))
  BY UnitsSplit
<1>3. ASSUME NEW t \in SUBSET S
      PROVE  count[t] = IF t = {} THEN 0
                        ELSE f[CHOOSE x \in t : TRUE] + count[t \ {CHOOSE x \in t : TRUE}]
  <2>1. CASE t = {}
    BY <1>1, <2>1
  <2>2. CASE t # {}
    <3>1. (CHOOSE x \in t : TRUE) \in t
      BY <2>2
    <3>2. QED
      BY <1>2, <2>2, <3>1
  <2>3. QED
    BY <2>1, <2>2
<1>4. QED
  BY <1>3 DEF Adds

\* So does no other function: what adds counts units.
LEMMA AdderCounts ==
  ASSUME NEW S, IsFiniteSet(S), NEW f, \A x \in S : f[x] \in Nat,
         NEW iter, Adds(iter, f, S)
  PROVE  \A U \in SUBSET S : iter[U] = Cardinality(Units(f, U))
<1> DEFINE T == {n \in Nat : \A U \in SUBSET S : Cardinality(U) = n =>
                               iter[U] = Cardinality(Units(f, U))}
<1>1. /\ Cardinality(Units(f, {})) = 0
      /\ \A t \in SUBSET S : \A x \in t :
           Cardinality(Units(f, t)) = f[x] + Cardinality(Units(f, t \ {x}))
  BY NoUnits, UnitsSplit
<1>2. 0 \in T
  <2>1. ASSUME NEW U \in SUBSET S, Cardinality(U) = 0
        PROVE  iter[U] = Cardinality(Units(f, U))
    <3>1. U = {}
      BY <2>1, FS_Subset, FS_EmptySet
    <3>2. QED
      BY <1>1, <3>1 DEF Adds
  <2>2. QED
    BY <2>1
<1>3. ASSUME NEW n \in Nat, n \in T
      PROVE  n + 1 \in T
  <2>1. ASSUME NEW U \in SUBSET S, Cardinality(U) = n + 1
        PROVE  iter[U] = Cardinality(Units(f, U))
    <3> DEFINE x == CHOOSE x \in U : TRUE
    <3>1. IsFiniteSet(U) /\ U # {}
      BY <2>1, FS_Subset, FS_EmptySet
    <3>2. x \in U
      BY <3>1
    <3>3. iter[U] = f[x] + iter[U \ {x}]
      BY <3>1 DEF Adds
    <3> HIDE DEF x
    <3>4. Cardinality(U \ {x}) = n
      <4>1. Cardinality(U \ {x}) = Cardinality(U) - 1
        BY <3>1, <3>2, FS_RemoveElement
      <4>2. QED
        BY <2>1, <4>1
    <3>5. iter[U \ {x}] = Cardinality(Units(f, U \ {x}))
      BY <1>3, <3>4
    <3>6. QED
      BY <1>1, <3>1, <3>2, <3>3, <3>5
  <2>2. QED
    BY <2>1
<1>4. Nat \subseteq T
  <2> HIDE DEF T
  <2>1. QED
    BY <1>2, <1>3, NumberInduction
<1>5. \A U \in SUBSET S : Cardinality(U) \in Nat
  BY FS_Subset, FS_CardinalityType
<1>6. QED
  BY <1>4, <1>5

\* The sum of a function is the number of its units.
LEMMA SumCounts ==
  ASSUME NEW f, IsFiniteSet(DOMAIN f), \A x \in DOMAIN f : f[x] \in Nat
  PROVE  SumFunction(f) = Cardinality(Units(f, DOMAIN f)) /\ SumFunction(f) \in Nat
<1> DEFINE iter == CHOOSE it : Adds(it, f, DOMAIN f)
<1>1. SumFunction(f) = iter[DOMAIN f]
  BY DEF SumFunction, SumFunctionOnSet, FoldFunctionOnSet, MapThenFoldSet, Adds
<1>2. DOMAIN f \in SUBSET DOMAIN f
  OBVIOUS
<1>3. iter[DOMAIN f] = Cardinality(Units(f, DOMAIN f))
  <2>1. Adds(iter, f, DOMAIN f)
    BY CountAdds
  <2> HIDE DEF iter
  <2>2. QED
    BY <1>2, <2>1, AdderCounts
<1>4. Cardinality(Units(f, DOMAIN f)) \in Nat
  BY <1>2, UnitsFinite
<1>5. QED
  BY <1>1, <1>3, <1>4

----------------------------------------------------------------------------
(* The lengths of a family of sequences.                                   *)

\* The number of elements that the sequences g[x] have together.
LengthSum(g, S) == MapThenSumSet(LAMBDA x : Len(g[x]), S)

\* It is the number of the units of their lengths.
LEMMA LengthsCount ==
  ASSUME NEW S, IsFiniteSet(S), NEW g, \A x \in S : Len(g[x]) \in Nat
  PROVE  LengthSum(g, S) = Cardinality(Units([x \in S |-> Len(g[x])], S))
<1> DEFINE f == [x \in S |-> Len(g[x])]
           IsIter(iter) ==
             iter = [t \in SUBSET S |->
                       IF t = {} THEN 0
                       ELSE Len(g[CHOOSE x \in t : TRUE]) + iter[t \ {CHOOSE x \in t : TRUE}]]
           it == CHOOSE iter : IsIter(iter)
<1>1. LengthSum(g, S) = it[S]
  BY DEF LengthSum, MapThenSumSet, MapThenFoldSet
<1>2. ASSUME NEW iter
      PROVE  Adds(iter, f, S) <=> IsIter(iter)
  <2>1. ASSUME NEW t \in SUBSET S
        PROVE  (IF t = {} THEN 0 ELSE f[CHOOSE x \in t : TRUE] + iter[t \ {CHOOSE x \in t : TRUE}])
             = (IF t = {} THEN 0 ELSE Len(g[CHOOSE x \in t : TRUE]) + iter[t \ {CHOOSE x \in t : TRUE}])
    <3>1. CASE t = {}
      BY <3>1
    <3>2. CASE t # {}
      <4>1. (CHOOSE x \in t : TRUE) \in S
        BY <3>2
      <4>2. f[CHOOSE x \in t : TRUE] = Len(g[CHOOSE x \in t : TRUE])
        BY <4>1
      <4> HIDE DEF f
      <4>3. QED
        BY <3>2, <4>2
    <3>3. QED
      BY <3>1, <3>2
  <2> HIDE DEF f
  <2>2. QED
    BY <2>1 DEF Adds
<1>3. \A x \in S : f[x] \in Nat
  OBVIOUS
<1> HIDE DEF f
<1>4. \E iter : IsIter(iter)
  BY <1>2, <1>3, CountAdds
<1>5. Adds(it, f, S)
  <2> HIDE DEF IsIter
  <2>1. IsIter(it)
    BY <1>4
  <2>2. QED
    BY <1>2, <2>1
<1> HIDE DEF it
<1>6. S \in SUBSET S
  OBVIOUS
<1>7. it[S] = Cardinality(Units(f, S))
  BY <1>3, <1>5, <1>6, AdderCounts
<1>8. QED
  BY <1>1, <1>7 DEF f

\* One sequence of the family and the others.
LEMMA LengthsSplit ==
  ASSUME NEW S, IsFiniteSet(S), NEW g, \A x \in S : Len(g[x]) \in Nat, NEW v \in S
  PROVE  /\ LengthSum(g, S) = Len(g[v]) + LengthSum(g, S \ {v})
         /\ LengthSum(g, S) \in Nat /\ LengthSum(g, S \ {v}) \in Nat
<1> DEFINE f == [x \in S |-> Len(g[x])]
           h == [x \in S \ {v} |-> Len(g[x])]
<1>1. S \in SUBSET S /\ S \ {v} \in SUBSET S /\ IsFiniteSet(S \ {v})
  BY FS_Subset
<1>2. (\A x \in S : f[x] \in Nat) /\ f[v] = Len(g[v])
  OBVIOUS
<1>3. Units(h, S \ {v}) = Units(f, S \ {v})
  BY DEF Units
<1>4. LengthSum(g, S) = Cardinality(Units(f, S))
  BY LengthsCount
<1>5. LengthSum(g, S \ {v}) = Cardinality(Units(h, S \ {v}))
  BY <1>1, LengthsCount
<1> HIDE DEF f, h
<1>6. Cardinality(Units(f, S)) = f[v] + Cardinality(Units(f, S \ {v}))
  BY <1>1, <1>2, UnitsSplit
<1>7. Cardinality(Units(f, S)) \in Nat /\ Cardinality(Units(f, S \ {v})) \in Nat
  BY <1>1, <1>2, UnitsFinite
<1>8. QED
  BY <1>2, <1>3, <1>4, <1>5, <1>6, <1>7

\* Equal lengths make equal sums.
LEMMA LengthsEqual ==
  ASSUME NEW S, IsFiniteSet(S), NEW g, NEW h,
         \A x \in S : Len(g[x]) \in Nat /\ Len(h[x]) = Len(g[x])
  PROVE  LengthSum(h, S) = LengthSum(g, S)
<1>1. [x \in S |-> Len(h[x])] = [x \in S |-> Len(g[x])]
  OBVIOUS
<1>2. QED
  BY <1>1, LengthsCount

\* What a change of one sequence does to the sum.
LEMMA LengthsChange ==
  ASSUME NEW S, IsFiniteSet(S), NEW g, NEW h, NEW v \in S, Len(h[v]) \in Nat,
         \A x \in S : Len(g[x]) \in Nat,
         \A x \in S \ {v} : Len(h[x]) = Len(g[x])
  PROVE  /\ LengthSum(g, S) \in Nat /\ LengthSum(g, S) >= Len(g[v])
         /\ LengthSum(h, S) = LengthSum(g, S) - Len(g[v]) + Len(h[v])
<1>1. \A x \in S : Len(h[x]) \in Nat
  OBVIOUS
<1>2. LengthSum(h, S) = Len(h[v]) + LengthSum(h, S \ {v})
  BY <1>1, LengthsSplit
<1>3. /\ LengthSum(g, S) = Len(g[v]) + LengthSum(g, S \ {v})
      /\ LengthSum(g, S) \in Nat /\ LengthSum(g, S \ {v}) \in Nat
  BY LengthsSplit
<1>4. LengthSum(h, S \ {v}) = LengthSum(g, S \ {v})
  <2>1. IsFiniteSet(S \ {v})
    BY FS_Subset
  <2>2. QED
    BY <2>1, LengthsEqual
<1>5. QED
  BY <1>2, <1>3, <1>4

\* Empty sequences have no elements.
LEMMA LengthsZero ==
  ASSUME NEW S, IsFiniteSet(S), NEW g, \A x \in S : Len(g[x]) = 0
  PROVE  LengthSum(g, S) = 0
<1> DEFINE f == [x \in S |-> Len(g[x])]
<1>1. Units(f, S) = {}
  BY DEF Units
<1>2. LengthSum(g, S) = Cardinality(Units(f, S))
  BY LengthsCount
<1> HIDE DEF f
<1>3. QED
  BY <1>1, <1>2, FS_EmptySet

----------------------------------------------------------------------------
(* Sums of sequences of numbers.                                           *)

\* The sum of a sequence is a number.
LEMMA SumOfSequence ==
  ASSUME NEW s \in Seq(Nat)
  PROVE  /\ SumFunction(s) \in Nat
         /\ IsFiniteSet(Units(s, DOMAIN s))
         /\ SumFunction(s) = Cardinality(Units(s, DOMAIN s))
<1>1. DOMAIN s = 1..Len(s) /\ Len(s) \in Nat /\ \A x \in DOMAIN s : s[x] \in Nat
  OBVIOUS
<1>2. IsFiniteSet(1..Len(s))
  BY <1>1, FS_Interval
<1>3. IsFiniteSet(DOMAIN s) /\ DOMAIN s \in SUBSET DOMAIN s
  BY <1>1, <1>2
<1>4. QED
  BY <1>1, <1>3, SumCounts, UnitsFinite

\* The sum of two sequences one after the other is the sum of their sums.
LEMMA SumConcat ==
  ASSUME NEW s \in Seq(Nat), NEW t \in Seq(Nat)
  PROVE  SumFunction(s \o t) = SumFunction(s) + SumFunction(t)
<1> DEFINE c == s \o t
           front == Units(s, DOMAIN s)
           back == Units(t, DOMAIN t)
           moved == {<<u[1] + Len(s), u[2]>> : u \in back}
           move == [u \in back |-> <<u[1] + Len(s), u[2]>>]
<1>1. /\ c \in Seq(Nat) /\ Len(c) = Len(s) + Len(t)
      /\ DOMAIN s = 1..Len(s) /\ DOMAIN t = 1..Len(t) /\ DOMAIN c = 1..Len(c)
      /\ Len(s) \in Nat /\ Len(t) \in Nat
      /\ \A i \in 1..Len(s) : c[i] = s[i]
      /\ \A i \in 1..Len(t) : c[i + Len(s)] = t[i]
  OBVIOUS
<1> HIDE DEF c
<1>2. Units(c, DOMAIN c) = front \cup moved
  <2>1. ASSUME NEW u \in front
        PROVE  u \in Units(c, DOMAIN c)
    BY <1>1 DEF Units
  <2>2. ASSUME NEW u \in back
        PROVE  <<u[1] + Len(s), u[2]>> \in Units(c, DOMAIN c)
    <3>1. PICK i \in 1..Len(t) : u \in {i} \X (1..t[i])
      BY <1>1 DEF Units
    <3>2. u[1] = i /\ u[2] \in 1..c[i + Len(s)] /\ i + Len(s) \in DOMAIN c
      BY <1>1, <3>1
    <3>3. QED
      BY <3>2 DEF Units
  <2>3. ASSUME NEW u \in Units(c, DOMAIN c)
        PROVE  u \in front \cup moved
    <3>1. PICK i \in 1..Len(c) : u \in {i} \X (1..c[i])
      BY <1>1 DEF Units
    <3>2. CASE i <= Len(s)
      <4>1. i \in 1..Len(s) /\ u \in {i} \X (1..s[i])
        BY <1>1, <3>1, <3>2
      <4>2. QED
        BY <1>1, <4>1 DEF Units
    <3>3. CASE i > Len(s)
      <4> DEFINE w == <<i - Len(s), u[2]>>
      <4>1. i - Len(s) \in 1..Len(t) /\ (i - Len(s)) + Len(s) = i
        BY <1>1, <3>3
      <4>2. w \in {i - Len(s)} \X (1..t[i - Len(s)])
        BY <1>1, <3>1, <4>1
      <4>3. w \in back
        BY <1>1, <4>1, <4>2 DEF Units
      <4>4. u = <<w[1] + Len(s), w[2]>>
        BY <3>1, <4>1
      <4>5. QED
        BY <4>3, <4>4
    <3>4. QED
      BY <1>1, <3>2, <3>3
  <2>4. QED
    BY <2>1, <2>2, <2>3
<1>3. front \cap moved = {}
  <2>1. \A u \in front : u[1] \in 1..Len(s)
    BY <1>1 DEF Units
  <2>2. \A u \in back : u[1] \in 1..Len(t)
    BY <1>1 DEF Units
  <2>3. QED
    BY <1>1, <2>1, <2>2
<1>4. move \in Bijection(back, moved)
  <2>1. \A u \in back : u = <<u[1], u[2]>> /\ u[1] \in 1..Len(t)
    BY <1>1 DEF Units
  <2>2. move \in [back -> moved]
    OBVIOUS
  <2>3. \A u, w \in back : move[u] = move[w] => u = w
    <3>1. SUFFICES ASSUME NEW u \in back, NEW w \in back, move[u] = move[w]
                   PROVE  u = w
      OBVIOUS
    <3>2. u[1] + Len(s) = w[1] + Len(s) /\ u[2] = w[2]
      BY <3>1
    <3>3. u[1] = w[1]
      BY <1>1, <2>1, <3>2
    <3>4. QED
      BY <2>1, <3>2, <3>3
  <2>4. \A m \in moved : \E u \in back : move[u] = m
    OBVIOUS
  <2>5. QED
    BY <2>2, <2>3, <2>4, Fun_IsBij
<1>5. IsFiniteSet(back) /\ IsFiniteSet(front)
  BY SumOfSequence
<1>6. IsFiniteSet(moved) /\ Cardinality(moved) = Cardinality(back)
  <2>1. ExistsBijection(back, moved)
    BY <1>4 DEF ExistsBijection
  <2> HIDE DEF back, moved
  <2>2. QED
    BY <1>5, <2>1, FS_Bijection
<1> HIDE DEF front, back, moved, move
<1>7. Cardinality(front \cap moved) = 0
  BY <1>3, FS_EmptySet
<1>8. Cardinality(front \cup moved) =
        Cardinality(front) + Cardinality(moved) - Cardinality(front \cap moved)
  BY <1>5, <1>6, FS_Union
<1>9. /\ SumFunction(c) = Cardinality(Units(c, DOMAIN c))
      /\ SumFunction(s) = Cardinality(front) /\ SumFunction(s) \in Nat
      /\ SumFunction(t) = Cardinality(back) /\ SumFunction(t) \in Nat
  BY <1>1, SumOfSequence DEF front, back
<1>10. Cardinality(front \cup moved) = SumFunction(s) + SumFunction(t)
  BY <1>6, <1>7, <1>8, <1>9
<1>11. SumFunction(c) = SumFunction(s) + SumFunction(t)
  BY <1>2, <1>9, <1>10
<1>12. QED
  BY <1>11 DEF c

\* The sum of no number is 0, that of one number is the number.
LEMMA SumSmall ==
  /\ SumFunction(<< >>) = 0
  /\ \A n \in Nat : SumFunction(<<n>>) = n
<1>1. SumFunction(<< >>) = 0
  <2>1. << >> \in Seq(Nat) /\ Units(<< >>, DOMAIN << >>) = {}
    BY DEF Units
  <2>2. QED
    BY <2>1, SumOfSequence, FS_EmptySet
<1>2. ASSUME NEW n \in Nat
      PROVE  SumFunction(<<n>>) = n
  <2>1. <<n>> \in Seq(Nat) /\ DOMAIN <<n>> = {} \cup {1} /\ <<n>>[1] = n
    OBVIOUS
  <2>2. Units(<<n>>, {}) = {}
    BY DEF Units
  <2>3. IsFiniteSet(Units(<<n>>, {})) /\ Cardinality(Units(<<n>>, {})) = 0
    BY <2>2, FS_EmptySet
  <2>4. Cardinality(Units(<<n>>, {} \cup {1})) = n + 0
    BY <2>1, <2>3, UnitsAdd
  <2>5. SumFunction(<<n>>) = Cardinality(Units(<<n>>, {} \cup {1}))
    BY <2>1, SumOfSequence
  <2>6. QED
    BY <2>4, <2>5
<1>3. QED
  BY <1>1, <1>2

\* A number behind a sequence is added to its sum.
LEMMA SumAppend ==
  ASSUME NEW s \in Seq(Nat), NEW n \in Nat
  PROVE  SumFunction(Append(s, n)) = SumFunction(s) + n
<1>1. Append(s, n) = s \o <<n>> /\ <<n>> \in Seq(Nat)
  OBVIOUS
<1>2. QED
  BY <1>1, SumConcat, SumSmall

\* What a prefix leaves of the sum is the sum of the rest.
LEMMA SumSplit ==
  ASSUME NEW s \in Seq(Nat), NEW k \in 0..Len(s)
  PROVE  SumFunction(s) = SumFunction(SubSeq(s, 1, k)) + SumFunction(SubSeq(s, k + 1, Len(s)))
<1>1. SubSeq(s, 1, k) \in Seq(Nat) /\ SubSeq(s, k + 1, Len(s)) \in Seq(Nat)
  OBVIOUS
<1>2. s = SubSeq(s, 1, k) \o SubSeq(s, k + 1, Len(s))
  <2>1. SubSeq(s, 1, k) \o SubSeq(s, k + 1, Len(s)) = SubSeq(s, 1, Len(s))
    <3>1. 1 \in 1..Len(s) + 1 /\ k \in 1 - 1..Len(s) /\ Len(s) \in k..Len(s)
      OBVIOUS
    <3>2. QED
      BY <3>1, ConcatAdjacentSubSeq
  <2>2. QED
    BY <2>1, SubSeqFull
<1>3. QED
  BY <1>1, <1>2, SumConcat

\* The sum of a sequence that is not empty is its first number and the sum of the others.
LEMMA SumHeadTail ==
  ASSUME NEW s \in Seq(Nat), s # << >>
  PROVE  SumFunction(s) = Head(s) + SumFunction(Tail(s))
<1>1. s = <<Head(s)>> \o Tail(s) /\ Head(s) \in Nat /\ Tail(s) \in Seq(Nat)
  OBVIOUS
<1>2. <<Head(s)>> \in Seq(Nat)
  BY <1>1
<1>3. QED
  BY <1>1, <1>2, SumConcat, SumSmall
=============================================================================
