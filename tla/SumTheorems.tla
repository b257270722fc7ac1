----------------------------- MODULE SumTheorems -----------------------------
(***************************************************************************)
(* What the proofs of the components need to know of sums over finite      *)
(* sets: the byte budgets of the executors, lanes and groups are such      *)
(* sums.  The library defines the sum by choosing one element after the    *)
(* other; the lemmas say that the order does not matter.  Each is proved   *)
(* from a smallest set for which it would fail.                            *)
(***************************************************************************)
EXTENDS Integers, Sequences, FiniteSets, Functions, FiniteSetTheorems, TLAPS

\* The element the library's fold takes first.
First(s) == CHOOSE x \in s : TRUE

\* g is the fold over the subsets of S.
IsFold(g, f, S) == g = [s \in SUBSET S |-> IF s = {} THEN 0 ELSE f[First(s)] + g[s \ {First(s)}]]

\* A nonempty collection of subsets of a finite set has a smallest member.
LEMMA SmallestSubset ==
  ASSUME NEW S, IsFiniteSet(S), NEW C, C \subseteq SUBSET S, C # {}
  PROVE  \E s \in C : \A t \in C : t \subseteq s => t = s
<1>1. IsWellFoundedOn(StrictSubsetOrdering(S), SUBSET S)
  BY FS_StrictSubsetOrderingWellFounded, FS_FiniteSubsetsOfFinite
<1>2. PICK s \in C : \A t \in C : ~(<<t, s>> \in StrictSubsetOrdering(S))
  BY <1>1, WFMin
<1>3. \A t \in C : t \subseteq s => t = s
  BY <1>2 DEF StrictSubsetOrdering
<1> QED
  BY <1>3

\* The first element of a nonempty set is one of its elements.
LEMMA FirstIsIn == ASSUME NEW s, s # {} PROVE First(s) \in s
BY DEF First

\* Two folds agree where both are defined.
LEMMA FoldsAgree ==
  ASSUME NEW f, NEW S, NEW T, IsFiniteSet(S), T \subseteq S, NEW g, NEW h, IsFold(g, f, S), IsFold(h, f, T)
  PROVE  \A s \in SUBSET T : g[s] = h[s]
<1> DEFINE C == {s \in SUBSET T : g[s] # h[s]}
<1> SUFFICES ASSUME C # {} PROVE FALSE
  OBVIOUS
<1>1. PICK s \in C : \A t \in C : t \subseteq s => t = s
  <2>1. C \subseteq SUBSET S
    OBVIOUS
  <2> HIDE DEF C
  <2> QED
    BY <2>1, SmallestSubset
<1>2. s # {}
  <2>1. {} \in SUBSET S /\ {} \in SUBSET T
    OBVIOUS
  <2>2. g[{}] = 0 /\ h[{}] = 0
    BY <2>1 DEF IsFold
  <2> QED
    BY <2>2
<1>3. First(s) \in s
  BY <1>2, FirstIsIn
<1>4. s \ {First(s)} \in SUBSET T /\ s \ {First(s)} # s
  BY <1>3
<1>5. g[s \ {First(s)}] = h[s \ {First(s)}]
  BY <1>1, <1>4
<1>6. g[s] = f[First(s)] + g[s \ {First(s)}]
  BY <1>2 DEF IsFold
<1>7. h[s] = f[First(s)] + h[s \ {First(s)}]
  BY <1>2 DEF IsFold
<1> QED
  BY <1>5, <1>6, <1>7

\* The recursion of the fold has a solution.
LEMMA FoldExists ==
  ASSUME NEW f, NEW S, IsFiniteSet(S)
  PROVE  \E g : IsFold(g, f, S)
<1> DEFINE C == {s \in SUBSET S : ~ \E g : IsFold(g, f, s)}
<1> SUFFICES ASSUME C # {} PROVE FALSE
  OBVIOUS
<1>1. PICK s \in C : \A t \in C : t \subseteq s => t = s
  <2>1. C \subseteq SUBSET S
    OBVIOUS
  <2> HIDE DEF C
  <2> QED
    BY <2>1, SmallestSubset
<1> DEFINE part(t) == CHOOSE g : IsFold(g, f, t)
<1>2. \A t \in SUBSET s : t # s => IsFold(part(t), f, t)
  BY <1>1
<1>3. s \in SUBSET S /\ IsFiniteSet(s)
  BY FS_Subset
<1> DEFINE below(t) == IF t = {} THEN 0 ELSE f[First(t)] + part(t \ {First(t)})[t \ {First(t)}]
           g == [t \in SUBSET s |-> below(t)]
<1>4. ASSUME NEW t \in SUBSET s, t # {}
      PROVE  g[t] = f[First(t)] + g[t \ {First(t)}]
  <2> DEFINE r == t \ {First(t)}
  <2>1. First(t) \in t
    BY <1>4, FirstIsIn
  <2>2. r \in SUBSET s /\ r # s
    BY <2>1
  <2>3. IsFold(part(r), f, r)
    BY <1>2, <2>2
  <2>4. part(r)[r] = below(r)
    <3>1. CASE r = {}
      BY <2>3, <3>1 DEF IsFold
    <3>2. CASE r # {}
      <4> DEFINE q == r \ {First(r)}
      <4>1. First(r) \in r
        BY <3>2, FirstIsIn
      <4>2. q \in SUBSET r /\ q # s /\ q \in SUBSET s
        BY <4>1, <2>2
      <4>3. IsFold(part(q), f, q)
        BY <1>2, <4>2
      <4>4. part(r)[q] = part(q)[q]
        <5>1. IsFiniteSet(r)
          BY <1>3, <2>2, FS_Subset
        <5>2. q \in SUBSET q
          OBVIOUS
        <5> HIDE DEF q, part, r
        <5> QED
          BY <5>1, <5>2, <2>3, <4>2, <4>3, FoldsAgree
      <4>5. part(r)[r] = f[First(r)] + part(r)[q]
        BY <2>3, <3>2 DEF IsFold
      <4> QED
        BY <4>4, <4>5, <3>2
    <3> QED
      BY <3>1, <3>2
  <2>5. g[t] = f[First(t)] + part(r)[r]
    BY <1>4
  <2>6. g[r] = below(r)
    BY <2>2
  <2> QED
    BY <2>4, <2>5, <2>6
<1>5. g = [t \in SUBSET s |-> IF t = {} THEN 0 ELSE f[First(t)] + g[t \ {First(t)}]]
  <2> DEFINE e(t) == IF t = {} THEN 0 ELSE f[First(t)] + g[t \ {First(t)}]
  <2>1. \A t \in SUBSET s : below(t) = e(t)
    <3>1. \A t \in SUBSET s : g[t] = below(t)
      OBVIOUS
    <3> HIDE DEF g
    <3> QED
      BY <3>1, <1>4
  <2> HIDE DEF below, e
  <2>2. [t \in SUBSET s |-> below(t)] = [t \in SUBSET s |-> e(t)]
    BY <2>1
  <2> QED
    BY <2>2 DEF e
<1>6. IsFold(g, f, s)
  <2> HIDE DEF g
  <2> QED
    BY <1>5 DEF IsFold
<1> QED
  BY <1>6

-----------------------------------------------------------------------------
(* The sum f[x] over the x in S is the library's SumFunctionOnSet(f, S).   *)

\* The sum is the value of such a fold.
LEMMA SumIsFold ==
  ASSUME NEW f, NEW S, IsFiniteSet(S)
  PROVE  \E g : IsFold(g, f, S) /\ SumFunctionOnSet(f, S) = g[S]
<1> DEFINE iter == CHOOSE g : IsFold(g, f, S)
<1>1. IsFold(iter, f, S)
  BY FoldExists
<1>2. SumFunctionOnSet(f, S) = iter[S]
  BY DEF IsFold, First, SumFunctionOnSet, FoldFunctionOnSet, MapThenFoldSet
<1> QED
  BY <1>1, <1>2

\* The sum over a set of which some element is taken first.
LEMMA SumUnfolds ==
  ASSUME NEW f, NEW S, IsFiniteSet(S)
  PROVE  SumFunctionOnSet(f, S) =
           IF S = {} THEN 0 ELSE f[First(S)] + SumFunctionOnSet(f, S \ {First(S)})
<1>1. PICK g : IsFold(g, f, S) /\ SumFunctionOnSet(f, S) = g[S]
  BY SumIsFold
<1>2. CASE S = {}
  BY <1>1, <1>2 DEF IsFold
<1>3. CASE S # {}
  <2> DEFINE r == S \ {First(S)}
  <2>1. IsFiniteSet(r) /\ r \subseteq S
    BY FS_RemoveElement
  <2>2. PICK h : IsFold(h, f, r) /\ SumFunctionOnSet(f, r) = h[r]
    BY <2>1, SumIsFold
  <2>3. g[r] = h[r]
    <3> HIDE DEF r
    <3> QED
      BY <1>1, <2>1, <2>2, FoldsAgree
  <2>4. g[S] = f[First(S)] + g[r]
    BY <1>1, <1>3 DEF IsFold
  <2> QED
    BY <1>1, <1>3, <2>2, <2>3, <2>4
<1> QED
  BY <1>2, <1>3

LEMMA SumOfNone == ASSUME NEW f PROVE SumFunctionOnSet(f, {}) = 0
BY FS_EmptySet, SumUnfolds

\* A sum of integers is an integer, one of naturals a natural.
LEMMA SumIsInteger ==
  ASSUME NEW f, NEW S, IsFiniteSet(S), \A x \in S : f[x] \in Int
  PROVE  SumFunctionOnSet(f, S) \in Int
<1> DEFINE C == {s \in SUBSET S : SumFunctionOnSet(f, s) \notin Int}
<1> SUFFICES ASSUME C # {} PROVE FALSE
  OBVIOUS
<1>1. PICK s \in C : \A t \in C : t \subseteq s => t = s
  <2>1. C \subseteq SUBSET S
    OBVIOUS
  <2> HIDE DEF C
  <2> QED
    BY <2>1, SmallestSubset
<1>2. IsFiniteSet(s)
  BY FS_Subset
<1>3. s # {}
  BY SumOfNone
<1>4. First(s) \in s
  BY <1>3, FirstIsIn
<1>5. SumFunctionOnSet(f, s \ {First(s)}) \in Int
  BY <1>1, <1>4
<1> QED
  BY <1>2, <1>3, <1>4, <1>5, SumUnfolds

LEMMA SumIsNatural ==
  ASSUME NEW f, NEW S, IsFiniteSet(S), \A x \in S : f[x] \in Nat
  PROVE  SumFunctionOnSet(f, S) \in Nat
<1> DEFINE C == {s \in SUBSET S : SumFunctionOnSet(f, s) \notin Nat}
<1> SUFFICES ASSUME C # {} PROVE FALSE
  OBVIOUS
<1>1. PICK s \in C : \A t \in C : t \subseteq s => t = s
  <2>1. C \subseteq SUBSET S
    OBVIOUS
  <2> HIDE DEF C
  <2> QED
    BY <2>1, SmallestSubset
<1>2. IsFiniteSet(s)
  BY FS_Subset
<1>3. s # {}
  BY SumOfNone
<1>4. First(s) \in s
  BY <1>3, FirstIsIn
<1>5. SumFunctionOnSet(f, s \ {First(s)}) \in Nat
  BY <1>1, <1>4
<1> QED
  BY <1>2, <1>3, <1>4, <1>5, SumUnfolds

\* A sum of zeros is zero.
LEMMA SumOfZeros ==
  ASSUME NEW f, NEW S, IsFiniteSet(S), \A x \in S : f[x] = 0
  PROVE  SumFunctionOnSet(f, S) = 0
<1> DEFINE C == {s \in SUBSET S : SumFunctionOnSet(f, s) # 0}
<1> SUFFICES ASSUME C # {} PROVE FALSE
  OBVIOUS
<1>1. PICK s \in C : \A t \in C : t \subseteq s => t = s
  <2>1. C \subseteq SUBSET S
    OBVIOUS
  <2> HIDE DEF C
  <2> QED
    BY <2>1, SmallestSubset
<1>2. IsFiniteSet(s)
  BY FS_Subset
<1>3. s # {}
  BY SumOfNone
<1>4. First(s) \in s
  BY <1>3, FirstIsIn
<1>5. SumFunctionOnSet(f, s \ {First(s)}) = 0
  BY <1>1, <1>4
<1> QED
  BY <1>2, <1>3, <1>4, <1>5, SumUnfolds

\* Any element may be taken first.
LEMMA SumRemoves ==
  ASSUME NEW f, NEW S, IsFiniteSet(S), \A x \in S : f[x] \in Int, NEW x \in S
  PROVE  SumFunctionOnSet(f, S) = f[x] + SumFunctionOnSet(f, S \ {x})
<1> DEFINE C == {s \in SUBSET S : \E y \in s : SumFunctionOnSet(f, s) # f[y] + SumFunctionOnSet(f, s \ {y})}
<1> SUFFICES ASSUME C # {} PROVE FALSE
  OBVIOUS
<1>1. PICK s \in C : \A t \in C : t \subseteq s => t = s
  <2>1. C \subseteq SUBSET S
    OBVIOUS
  <2> HIDE DEF C
  <2> QED
    BY <2>1, SmallestSubset
<1>2. PICK y \in s : SumFunctionOnSet(f, s) # f[y] + SumFunctionOnSet(f, s \ {y})
  BY <1>1
<1> DEFINE z == First(s)  r == (s \ {z}) \ {y}
<1>3. IsFiniteSet(s) /\ s \subseteq S
  BY FS_Subset
<1>4. z \in s
  BY <1>2, FirstIsIn
<1>5. SumFunctionOnSet(f, s) = f[z] + SumFunctionOnSet(f, s \ {z})
  BY <1>2, <1>3, SumUnfolds
<1>6. y # z
  BY <1>2, <1>5
<1>7. s \ {z} \notin C /\ s \ {y} \notin C
  BY <1>1, <1>2, <1>4
<1>8. SumFunctionOnSet(f, s \ {z}) = f[y] + SumFunctionOnSet(f, r)
  BY <1>7, <1>6, <1>2, <1>3
<1>9. SumFunctionOnSet(f, s \ {y}) = f[z] + SumFunctionOnSet(f, r)
  <2>1. (s \ {y}) \ {z} = r
    OBVIOUS
  <2> QED
    BY <1>7, <1>6, <1>4, <1>3, <2>1
<1>10. SumFunctionOnSet(f, r) \in Int /\ f[y] \in Int /\ f[z] \in Int
  <2>1. IsFiniteSet(r)
    BY <1>3, FS_RemoveElement
  <2> QED
    BY <2>1, <1>3, <1>4, <1>2, SumIsInteger
<1> QED
  BY <1>2, <1>5, <1>8, <1>9, <1>10

\* A new element adds its value.
LEMMA SumAdds ==
  ASSUME NEW f, NEW S, IsFiniteSet(S), NEW x, x \notin S, \A y \in S \cup {x} : f[y] \in Int
  PROVE  SumFunctionOnSet(f, S \cup {x}) = SumFunctionOnSet(f, S) + f[x]
<1> DEFINE T == S \cup {x}
<1>1. IsFiniteSet(T) /\ x \in T /\ T \ {x} = S
  BY FS_AddElement
<1>2. SumFunctionOnSet(f, T) = f[x] + SumFunctionOnSet(f, T \ {x})
  <2> HIDE DEF T
  <2>1. \A y \in T : f[y] \in Int
    BY DEF T
  <2> QED
    BY <1>1, <2>1, SumRemoves
<1>3. SumFunctionOnSet(f, S) \in Int /\ f[x] \in Int
  BY SumIsInteger
<1>4. SumFunctionOnSet(f, T) = f[x] + SumFunctionOnSet(f, S)
  BY <1>1, <1>2, Zenon
<1> QED
  BY <1>3, <1>4

\* The sum depends only on the values of its elements.
LEMMA SumSame ==
  ASSUME NEW f, NEW g, NEW S, IsFiniteSet(S), \A x \in S : f[x] = g[x]
  PROVE  SumFunctionOnSet(f, S) = SumFunctionOnSet(g, S)
<1> DEFINE C == {s \in SUBSET S : SumFunctionOnSet(f, s) # SumFunctionOnSet(g, s)}
<1> SUFFICES ASSUME C # {} PROVE FALSE
  OBVIOUS
<1>1. PICK s \in C : \A t \in C : t \subseteq s => t = s
  <2>1. C \subseteq SUBSET S
    OBVIOUS
  <2> HIDE DEF C
  <2> QED
    BY <2>1, SmallestSubset
<1>2. IsFiniteSet(s)
  BY FS_Subset
<1>3. s # {}
  BY SumOfNone
<1>4. First(s) \in s
  BY <1>3, FirstIsIn
<1>5. SumFunctionOnSet(f, s \ {First(s)}) = SumFunctionOnSet(g, s \ {First(s)})
  BY <1>1, <1>4
<1> QED
  BY <1>2, <1>3, <1>4, <1>5, SumUnfolds

\* Changing one value changes the sum by the difference.
LEMMA SumChanges ==
  ASSUME NEW f, NEW g, NEW S, IsFiniteSet(S), NEW x \in S,
         \A y \in S : f[y] \in Int /\ g[y] \in Int, \A y \in S \ {x} : f[y] = g[y]
  PROVE  SumFunctionOnSet(g, S) = SumFunctionOnSet(f, S) - f[x] + g[x]
<1>1. IsFiniteSet(S \ {x})
  BY FS_RemoveElement
<1>2. SumFunctionOnSet(f, S \ {x}) = SumFunctionOnSet(g, S \ {x})
  BY <1>1, SumSame
<1>3. SumFunctionOnSet(f, S) = f[x] + SumFunctionOnSet(f, S \ {x})
  BY SumRemoves
<1>4. SumFunctionOnSet(g, S) = g[x] + SumFunctionOnSet(g, S \ {x})
  BY SumRemoves
<1>5. SumFunctionOnSet(f, S \ {x}) \in Int /\ SumFunctionOnSet(g, S \ {x}) \in Int
  BY <1>1, SumIsInteger
<1> QED
  BY <1>2, <1>3, <1>4, <1>5

\* A sum is made of the sums over two parts.
LEMMA SumSplits ==
  ASSUME NEW f, NEW S, IsFiniteSet(S), \A x \in S : f[x] \in Int, NEW T, T \subseteq S
  PROVE  SumFunctionOnSet(f, S) = SumFunctionOnSet(f, T) + SumFunctionOnSet(f, S \ T)
<1> DEFINE C == {t \in SUBSET S : SumFunctionOnSet(f, S) # SumFunctionOnSet(f, t) + SumFunctionOnSet(f, S \ t)}
<1> SUFFICES ASSUME C # {} PROVE FALSE
  OBVIOUS
<1>1. PICK t \in C : \A u \in C : u \subseteq t => u = t
  <2>1. C \subseteq SUBSET S
    OBVIOUS
  <2> HIDE DEF C
  <2> QED
    BY <2>1, SmallestSubset
<1>2. t \subseteq S /\ SumFunctionOnSet(f, S) # SumFunctionOnSet(f, t) + SumFunctionOnSet(f, S \ t)
  OBVIOUS
<1>3. IsFiniteSet(t) /\ IsFiniteSet(S \ t)
  BY <1>2, FS_Subset
<1>4. CASE t = {}
  <2>1. SumFunctionOnSet(f, S) \in Int
    BY SumIsInteger
  <2>2. S \ t = S
    BY <1>4
  <2>3. SumFunctionOnSet(f, t) = 0 /\ SumFunctionOnSet(f, S \ t) = SumFunctionOnSet(f, S)
    BY <1>4, <2>2, SumOfNone, Zenon
  <2> QED
    BY <1>2, <2>1, <2>3
<1>5. CASE t # {}
  <2>1. PICK x \in t : TRUE
    BY <1>5
  <2>2. SumFunctionOnSet(f, S) = SumFunctionOnSet(f, t \ {x}) + SumFunctionOnSet(f, S \ (t \ {x}))
    BY <1>1, <1>2, <2>1
  <2>3. S \ (t \ {x}) = (S \ t) \cup {x} /\ x \notin S \ t /\ x \in S
    BY <1>2, <2>1
  <2>4. SumFunctionOnSet(f, S \ (t \ {x})) = SumFunctionOnSet(f, S \ t) + f[x]
    <3>1. \A y \in (S \ t) \cup {x} : f[y] \in Int
      BY <2>3
    <3>2. SumFunctionOnSet(f, (S \ t) \cup {x}) = SumFunctionOnSet(f, S \ t) + f[x]
      BY <1>3, <2>3, <3>1, SumAdds
    <3> QED
      BY <2>3, <3>2, Zenon
  <2>5. SumFunctionOnSet(f, t) = f[x] + SumFunctionOnSet(f, t \ {x})
    BY <1>2, <1>3, <2>1, SumRemoves
  <2>6. SumFunctionOnSet(f, t \ {x}) \in Int /\ SumFunctionOnSet(f, S \ t) \in Int /\ f[x] \in Int
    <3>1. IsFiniteSet(t \ {x}) /\ t \ {x} \subseteq S
      BY <1>2, <1>3, FS_RemoveElement
    <3> QED
      BY <1>3, <2>3, <3>1, SumIsInteger
  <2> QED
    BY <1>2, <2>2, <2>4, <2>5, <2>6
<1> QED
  BY <1>4, <1>5

\* A part of a sum of naturals is at most the sum.
LEMMA SumOfPart ==
  ASSUME NEW f, NEW S, IsFiniteSet(S), \A x \in S : f[x] \in Nat, NEW T, T \subseteq S
  PROVE  SumFunctionOnSet(f, T) <= SumFunctionOnSet(f, S)
<1>1. IsFiniteSet(T) /\ IsFiniteSet(S \ T) /\ \A x \in S : f[x] \in Int
  BY FS_Subset
<1>2. SumFunctionOnSet(f, T) \in Nat /\ SumFunctionOnSet(f, S \ T) \in Nat
  BY <1>1, SumIsNatural
<1>3. SumFunctionOnSet(f, S) = SumFunctionOnSet(f, T) + SumFunctionOnSet(f, S \ T)
  BY <1>1, SumSplits
<1> QED
  BY <1>2, <1>3

\* The least of a set of naturals.
LEMMA LeastOfSet ==
  ASSUME NEW S, S \subseteq Nat, S # {}
  PROVE  \E x \in S : \A y \in S : x <= y
<1> DEFINE Before == OpToRel(<, Nat)
<1>1. \E x \in S : \A y \in S : ~(<<y, x>> \in Before)
  BY NatLessThanWellFounded, WFMin
<1>2. \A x, y \in Nat : y < x => <<y, x>> \in Before
  BY DEF OpToRel
<1> QED
  <2> HIDE DEF Before
  <2>1. PICK x \in S : \A y \in S : ~(<<y, x>> \in Before)
    BY <1>1
  <2>2. \A y \in S : ~(y < x)
    BY <1>2, <2>1
  <2> QED BY <2>2

\* A sum up to m + 1 is that up to m and one more.
LEMMA SumUpTo ==
  ASSUME NEW m \in Nat, NEW f, \A i \in 1..(m + 1) : f[i] \in Nat
  PROVE  /\ SumFunctionOnSet(f, 1..m) \in Nat
         /\ SumFunctionOnSet(f, 1..(m + 1)) = SumFunctionOnSet(f, 1..m) + f[m + 1]
<1>1. 1..(m + 1) = 1..m \cup {m + 1}
  OBVIOUS
<1>2. m + 1 \notin 1..m /\ (\A i \in 1..m : f[i] \in Nat) /\ \A i \in 1..m \cup {m + 1} : f[i] \in Int
  OBVIOUS
<1>3. IsFiniteSet(1..m)
  BY FS_Interval
<1>4. SumFunctionOnSet(f, 1..m) \in Nat
  BY <1>2, <1>3, SumIsNatural
<1>5. SumFunctionOnSet(f, 1..m \cup {m + 1}) = SumFunctionOnSet(f, 1..m) + f[m + 1]
  <2> DEFINE S == 1..m
             x == m + 1
  <2> HIDE DEF S, x
  <2>1. IsFiniteSet(S) /\ x \notin S /\ \A y \in S \cup {x} : f[y] \in Int
    BY <1>2, <1>3 DEF S, x
  <2>2. SumFunctionOnSet(f, S \cup {x}) = SumFunctionOnSet(f, S) + f[x]
    BY <2>1, SumAdds
  <2> QED BY <2>2 DEF S, x
<1> QED BY <1>1, <1>4, <1>5, Zenon

\* The sum of a sequence grows by what is appended.
LEMMA SumAppended ==
  ASSUME NEW q \in Seq(Nat), NEW b \in Nat
  PROVE  /\ SumFunctionOnSet(q, DOMAIN q) \in Nat
         /\ SumFunctionOnSet(Append(q, b), DOMAIN Append(q, b)) = SumFunctionOnSet(q, DOMAIN q) + b
<1> DEFINE n == Len(q)
           r == Append(q, b)
<1>1. n \in Nat /\ DOMAIN q = 1..n /\ DOMAIN r = 1..(n + 1)
  OBVIOUS
<1>2. (\A i \in 1..n : q[i] \in Nat /\ r[i] = q[i]) /\ r[n + 1] = b
  OBVIOUS
<1>3. \A i \in 1..(n + 1) : r[i] \in Nat
  OBVIOUS
<1> HIDE DEF r, n
<1>4. SumFunctionOnSet(r, 1..n) \in Nat /\ SumFunctionOnSet(r, 1..(n + 1)) = SumFunctionOnSet(r, 1..n) + r[n + 1]
  BY <1>1, <1>3, SumUpTo
<1>5. IsFiniteSet(1..n)
  BY <1>1, FS_Interval
<1>6. SumFunctionOnSet(r, 1..n) = SumFunctionOnSet(q, 1..n)
  BY <1>2, <1>5, SumSame
<1>7. SumFunctionOnSet(r, DOMAIN r) = SumFunctionOnSet(q, DOMAIN q) + b
  BY <1>1, <1>2, <1>4, <1>6, Zenon
<1>8. SumFunctionOnSet(q, DOMAIN q) \in Nat
  BY <1>1, <1>4, <1>6, Zenon
<1> QED BY <1>7, <1>8 DEF r

\* It shrinks by the head that is taken off.
LEMMA SumOfTail ==
  ASSUME NEW q \in Seq(Nat), q # <<>>
  PROVE  SumFunctionOnSet(q, DOMAIN q) = Head(q) + SumFunctionOnSet(Tail(q), DOMAIN Tail(q))
<1> DEFINE n == Len(q) - 1
           r == Tail(q)
<1>1. n \in Nat /\ DOMAIN q = 1..(n + 1) /\ DOMAIN r = 1..n /\ q[1] = Head(q)
  OBVIOUS
<1>2. (\A i \in 1..(n + 1) : q[i] \in Nat) /\ (\A i \in 1..n : r[i] \in Nat /\ r[i] = q[i + 1])
  OBVIOUS
<1> HIDE DEF n, r
<1> DEFINE Wrong == {m \in Nat : m <= n /\ SumFunctionOnSet(q, 1..(m + 1)) # q[1] + SumFunctionOnSet(r, 1..m)}
<1>3. Wrong = {}
  <2> SUFFICES ASSUME Wrong # {} PROVE FALSE
    OBVIOUS
  <2>1. PICK m \in Wrong : \A x \in Wrong : m <= x
    <3>1. Wrong \subseteq Nat
      OBVIOUS
    <3> HIDE DEF Wrong
    <3> QED BY <3>1, LeastOfSet
  <2>2. m \in Nat /\ m <= n /\ SumFunctionOnSet(q, 1..(m + 1)) # q[1] + SumFunctionOnSet(r, 1..m)
    BY <2>1
  <2>3. \A x \in Nat : x <= n /\ x < m => SumFunctionOnSet(q, 1..(x + 1)) = q[1] + SumFunctionOnSet(r, 1..x)
    BY <2>1
  <2> HIDE DEF Wrong
  <2>4. SumFunctionOnSet(q, 1..m) \in Nat /\ SumFunctionOnSet(q, 1..(m + 1)) = SumFunctionOnSet(q, 1..m) + q[m + 1]
    <3>1. \A i \in 1..(m + 1) : q[i] \in Nat
      BY <1>1, <1>2, <2>2
    <3> QED BY <2>2, <3>1, SumUpTo
  <2>5. CASE m = 0
    <3>1. 1..m = {}
      BY <2>5
    <3>2. SumFunctionOnSet(q, 1..m) = 0 /\ SumFunctionOnSet(r, 1..m) = 0
      BY <3>1, SumOfNone, Zenon
    <3>3. q[m + 1] = q[1] /\ q[1] \in Nat
      BY <1>1, <1>2, <2>5
    <3> QED BY <2>2, <2>4, <3>2, <3>3
  <2>6. CASE m # 0
    <3> DEFINE p == m - 1
    <3>1. p \in Nat /\ p <= n /\ p < m /\ m = p + 1
      BY <1>1, <2>2, <2>6
    <3> HIDE DEF p
    <3>2. SumFunctionOnSet(q, 1..m) = q[1] + SumFunctionOnSet(r, 1..p)
      BY <2>3, <3>1
    <3>3. SumFunctionOnSet(r, 1..p) \in Nat /\ SumFunctionOnSet(r, 1..m) = SumFunctionOnSet(r, 1..p) + r[m]
      <4>1. \A i \in 1..(p + 1) : r[i] \in Nat
        BY <1>1, <1>2, <2>2, <3>1
      <4> QED BY <3>1, <4>1, SumUpTo
    <3>4. r[m] = q[m + 1] /\ q[1] \in Nat /\ q[m + 1] \in Nat
      BY <1>1, <1>2, <2>2, <2>6
    <3> DEFINE a == SumFunctionOnSet(q, 1..m)
               b == SumFunctionOnSet(r, 1..p)
    <3>5. a + q[m + 1] = q[1] + (b + r[m])
      BY <3>2, <3>3, <3>4
    <3> QED BY <2>2, <2>4, <3>3, <3>5, Zenon
  <2> QED BY <2>5, <2>6
<1>4. SumFunctionOnSet(q, 1..(n + 1)) = q[1] + SumFunctionOnSet(r, 1..n)
  BY <1>1, <1>3
<1> QED BY <1>1, <1>4, Zenon DEF r

=============================================================================
