------------------------------- MODULE Totals -------------------------------
(***************************************************************************)
(* Lemmas about SumFunctionOnSet(f, S), for every finite set S: what it is *)
(* when S is empty, that the order of the summands does not matter, and    *)
(* what a change of one summand does to it.  The ledgers of the other      *)
(* modules are such sums.                                                  *)
(*                                                                         *)
(* Each induction is on the size of a subset: the set Bad of the sizes at  *)
(* which the claim fails would have a least element.                       *)
(***************************************************************************)
EXTENDS Integers, FiniteSets, Functions, FiniteSetTheorems, WellFoundedInduction, TLAPS

\* The element a sum takes first.
First(S) == CHOOSE x \in S : TRUE

\* The partial sums of f over the subsets of S; the sum is the last of them.
Partial(g, f, S) ==
    g = [s \in SUBSET S |-> IF s = {} THEN 0 ELSE f[First(s)] + g[s \ {First(s)}]]

\* First chooses an element.
LEMMA FirstIn == ASSUME NEW S, S # {} PROVE First(S) \in S
  BY DEF First

\* A sum is the last of its partial sums.
LEMMA SumIs ==
    ASSUME NEW f, NEW S
    PROVE  SumFunctionOnSet(f, S) = (CHOOSE g : Partial(g, f, S))[S]
  BY Zenon DEF SumFunctionOnSet, FoldFunctionOnSet, MapThenFoldSet, Partial, First

\* A set of natural numbers has a least one.
LEMMA Least == ASSUME NEW T \in SUBSET Nat, T # {} PROVE \E n \in T : \A m \in T : n <= m
<1> DEFINE R == OpToRel(<, Nat)
<1>1. \E n \in T : \A m \in T : <<m, n>> \notin R
  BY WFMin, NatLessThanWellFounded
<1>2. \A m, n \in Nat : <<m, n>> \in R <=> m < n
  BY DEF OpToRel
<1> HIDE DEF R
<1>3. PICK n \in T : \A m \in T : <<m, n>> \notin R
  BY <1>1
<1>4. \A m \in T : ~(m < n)
  BY <1>2, <1>3
<1>5. \A m \in T : n <= m
  BY <1>4
<1> QED  BY <1>5

\* Sizes of the subsets of a finite set.
LEMMA Sizes ==
    ASSUME NEW S, IsFiniteSet(S), NEW s \in SUBSET S
    PROVE  /\ IsFiniteSet(s) /\ Cardinality(s) \in Nat /\ Cardinality(s) <= Cardinality(S)
           /\ s = {} <=> Cardinality(s) = 0
           /\ \A x \in s : s \ {x} \in SUBSET S /\ Cardinality(s \ {x}) = Cardinality(s) - 1
<1>1. IsFiniteSet(s) /\ Cardinality(s) \in Nat /\ Cardinality(s) <= Cardinality(S)
  BY FS_Subset, FS_CardinalityType
<1>2. s = {} <=> Cardinality(s) = 0
  BY <1>1, FS_EmptySet
<1>3. \A x \in s : Cardinality(s \ {x}) = Cardinality(s) - 1
  BY <1>1, FS_RemoveElement
<1> QED  BY <1>1, <1>2, <1>3

\* The partial sums of a finite set exist.
LEMMA PartialExists ==
    ASSUME NEW f, NEW S, IsFiniteSet(S)
    PROVE  \E g : Partial(g, f, S)
<1> DEFINE Rec(g, s) == IF s = {} THEN 0 ELSE f[First(s)] + g[s \ {First(s)}]
           Upto(g, n) == \A s \in SUBSET S : Cardinality(s) <= n => g[s] = Rec(g, s)
           Bad == {n \in Nat : ~ \E g : Upto(g, n)}
<1>0. \A s \in SUBSET S :
          /\ Cardinality(s) \in Nat /\ Cardinality(s) <= Cardinality(S)
          /\ s # {} => /\ s \ {First(s)} \in SUBSET S
                       /\ Cardinality(s \ {First(s)}) = Cardinality(s) - 1
  BY Sizes, FirstIn
<1>1. Bad = {}
  <2> SUFFICES ASSUME Bad # {} PROVE FALSE
    OBVIOUS
  <2>1. PICK n \in Bad : \A m \in Bad : n <= m
    BY Least
  <2>2. CASE n = 0
    <3> DEFINE z == [s \in SUBSET S |-> 0]
    <3>1. Upto(z, 0)
      BY Sizes
    <3> QED  BY <2>1, <2>2, <3>1
  <2>3. CASE n # 0
    <3>0. n \in Nat
      BY <2>1
    <3>1. n - 1 \in Nat /\ n - 1 \notin Bad /\ n \in Nat
      <4> HIDE DEF Bad
      <4> QED  BY <2>1, <2>3, <3>0
    <3>2. PICK g : Upto(g, n - 1)
      BY <3>1
    <3> DEFINE h == [s \in SUBSET S |-> IF Cardinality(s) <= n - 1 THEN g[s] ELSE Rec(g, s)]
    <3>3. ASSUME NEW s \in SUBSET S, Cardinality(s) <= n PROVE h[s] = Rec(h, s)
      <4>1. h[s] = Rec(g, s)
        BY <3>2
      <4>2. CASE s = {}
        BY <4>1, <4>2
      <4>3. CASE s # {}
        <5> DEFINE r == s \ {First(s)}
        <5>1. r \in SUBSET S /\ Cardinality(r) <= n - 1
          BY <1>0, <3>1, <3>3, <4>3
        <5>2. h[r] = g[r]
          BY <5>1
        <5> QED  BY <4>1, <4>3, <5>2
      <4> QED  BY <4>2, <4>3
    <3> HIDE DEF h
    <3>4. Upto(h, n)
      BY <3>3
    <3> QED  BY <2>1, <3>4
  <2> QED  BY <2>2, <2>3
<1>2. PICK g : Upto(g, Cardinality(S))
  BY <1>1, FS_CardinalityType
<1> DEFINE h == [s \in SUBSET S |-> g[s]]
<1>3. \A s \in SUBSET S : h[s] = Rec(h, s)
  BY <1>0, <1>2
<1>4. h = [s \in SUBSET S |-> Rec(h, s)]
  BY <1>3
<1> QED  BY <1>4 DEF Partial

\* The partial sums are those of the summands, whatever the set they are taken in.
LEMMA PartialAgree ==
    ASSUME NEW f, NEW e, NEW S, NEW T, IsFiniteSet(S), IsFiniteSet(T), NEW g, NEW h,
           Partial(g, f, S), Partial(h, e, T), NEW U \in SUBSET S, U \in SUBSET T,
           \A x \in U : f[x] = e[x]
    PROVE  g[U] = h[U]
<1> DEFINE Bad == {n \in Nat : \E s \in SUBSET U : Cardinality(s) = n /\ g[s] # h[s]}
<1>0. IsFiniteSet(U)
  BY FS_Subset
<1>1. Bad = {}
  <2> SUFFICES ASSUME Bad # {} PROVE FALSE
    OBVIOUS
  <2>1. PICK n \in Bad : \A m \in Bad : n <= m
    BY Least
  <2>2. PICK s \in SUBSET U : Cardinality(s) = n /\ g[s] # h[s]
    BY <2>1
  <2>3. /\ s \in SUBSET S /\ s \in SUBSET T
        /\ g[s] = IF s = {} THEN 0 ELSE f[First(s)] + g[s \ {First(s)}]
        /\ h[s] = IF s = {} THEN 0 ELSE e[First(s)] + h[s \ {First(s)}]
    BY DEF Partial
  <2>4. s # {}
    BY <2>2, <2>3
  <2>5. First(s) \in s /\ f[First(s)] = e[First(s)]
    BY <2>4, FirstIn
  <2> DEFINE r == s \ {First(s)}
  <2>6. r \in SUBSET U /\ Cardinality(r) \in Nat /\ Cardinality(r) = n - 1 /\ n \in Nat
    BY <1>0, <2>2, <2>5, Sizes
  <2>7. g[r] # h[r]
    BY <2>2, <2>3, <2>4, <2>5
  <2>8. Cardinality(r) \in Bad
    BY <2>6, <2>7
  <2> HIDE DEF Bad, r
  <2> QED  BY <2>1, <2>6, <2>8
<1>2. Cardinality(U) \in Nat
  BY <1>0, FS_CardinalityType
<1> QED  BY <1>1, <1>2

\* The sum of no summands; the sum of some, first of all the one chosen first.
LEMMA SumRec ==
    ASSUME NEW f, NEW S, IsFiniteSet(S)
    PROVE  /\ S = {} => SumFunctionOnSet(f, S) = 0
           /\ S # {} => SumFunctionOnSet(f, S) = f[First(S)] + SumFunctionOnSet(f, S \ {First(S)})
<1> DEFINE r == S \ {First(S)}
           g == CHOOSE i : Partial(i, f, S)
           h == CHOOSE i : Partial(i, f, r)
<1>1. IsFiniteSet(r)
  BY FS_Subset
<1>2. Partial(g, f, S) /\ Partial(h, f, r)
  BY <1>1, PartialExists
<1>3. SumFunctionOnSet(f, S) = g[S] /\ SumFunctionOnSet(f, r) = h[r]
  BY SumIs
<1> HIDE DEF g, h
<1>4. g[S] = IF S = {} THEN 0 ELSE f[First(S)] + g[r]
  BY <1>2 DEF Partial
<1>5. g[r] = h[r]
  BY <1>1, <1>2, PartialAgree
<1> QED  BY <1>3, <1>4, <1>5

\* Equal summands have equal sums.
LEMMA SumSame ==
    ASSUME NEW f, NEW e, NEW S, IsFiniteSet(S), \A x \in S : f[x] = e[x]
    PROVE  SumFunctionOnSet(f, S) = SumFunctionOnSet(e, S)
<1> DEFINE g == CHOOSE i : Partial(i, f, S)
           h == CHOOSE i : Partial(i, e, S)
<1>1. Partial(g, f, S) /\ Partial(h, e, S)
  BY PartialExists
<1>2. SumFunctionOnSet(f, S) = g[S] /\ SumFunctionOnSet(e, S) = h[S]
  BY SumIs
<1> HIDE DEF g, h
<1> QED  BY <1>1, <1>2, PartialAgree

\* Summands that are all 0 have the sum 0: the partial sums that are 0 are the partial sums.
LEMMA SumZero ==
    ASSUME NEW f, NEW S, IsFiniteSet(S), \A x \in S : f[x] = 0
    PROVE  SumFunctionOnSet(f, S) = 0
<1> DEFINE g == [s \in SUBSET S |-> 0]
           h == CHOOSE i : Partial(i, f, S)
<1>1. \A s \in SUBSET S : s # {} => First(s) \in S /\ s \ {First(s)} \in SUBSET S
  BY FirstIn
<1>2. \A s \in SUBSET S : g[s] = IF s = {} THEN 0 ELSE f[First(s)] + g[s \ {First(s)}]
  BY <1>1
<1>3. g = [s \in SUBSET S |-> IF s = {} THEN 0 ELSE f[First(s)] + g[s \ {First(s)}]]
  BY <1>2
<1>4. Partial(g, f, S) /\ Partial(h, f, S)
  BY <1>3, PartialExists DEF Partial
<1>5. SumFunctionOnSet(f, S) = h[S] /\ g[S] = 0
  BY SumIs
<1> HIDE DEF g, h
<1>6. g[S] = h[S]
  BY <1>4, PartialAgree
<1> QED  BY <1>5, <1>6

\* What every summand is, and sums of two are, the sum is.
LEMMA SumIn ==
    ASSUME NEW T, 0 \in T, \A m, n \in T : m + n \in T,
           NEW f, NEW S, IsFiniteSet(S), \A x \in S : f[x] \in T
    PROVE  SumFunctionOnSet(f, S) \in T
<1> DEFINE Bad == {n \in Nat : \E s \in SUBSET S :
                       Cardinality(s) = n /\ SumFunctionOnSet(f, s) \notin T}
<1>1. Bad = {}
  <2> SUFFICES ASSUME Bad # {} PROVE FALSE
    OBVIOUS
  <2>1. PICK n \in Bad : \A m \in Bad : n <= m
    BY Least
  <2>2. PICK s \in SUBSET S : Cardinality(s) = n /\ SumFunctionOnSet(f, s) \notin T
    BY <2>1
  <2>3. IsFiniteSet(s) /\ s # {}
    <3>1. IsFiniteSet(s) /\ (s = {} => SumFunctionOnSet(f, s) = 0)
      BY Sizes, SumRec
    <3> QED  BY <2>2, <3>1
  <2> DEFINE r == s \ {First(s)}
  <2>4. /\ r \in SUBSET S /\ Cardinality(r) \in Nat /\ Cardinality(r) = n - 1 /\ n \in Nat
        /\ f[First(s)] \in T
    BY <2>2, <2>3, Sizes, FirstIn
  <2>5. SumFunctionOnSet(f, r) \notin T
    BY <2>2, <2>3, <2>4, SumRec
  <2>6. Cardinality(r) \in Bad
    BY <2>4, <2>5
  <2> HIDE DEF Bad, r
  <2> QED  BY <2>1, <2>4, <2>6
<1> QED  BY <1>1, FS_CardinalityType

\* A sum of integers is an integer.
LEMMA SumInt ==
    ASSUME NEW f, NEW S, IsFiniteSet(S), \A x \in S : f[x] \in Int
    PROVE  SumFunctionOnSet(f, S) \in Int
<1>1. 0 \in Int /\ \A m, n \in Int : m + n \in Int
  OBVIOUS
<1> QED  BY <1>1, SumIn

\* A sum of natural numbers is one.
LEMMA SumNat ==
    ASSUME NEW f, NEW S, IsFiniteSet(S), \A x \in S : f[x] \in Nat
    PROVE  SumFunctionOnSet(f, S) \in Nat
<1>1. 0 \in Nat /\ \A m, n \in Nat : m + n \in Nat
  OBVIOUS
<1> QED  BY <1>1, SumIn

\* Any summand can be taken out of a sum.
LEMMA SumWithout ==
    ASSUME NEW f, NEW S, IsFiniteSet(S), \A x \in S : f[x] \in Int, NEW x \in S
    PROVE  SumFunctionOnSet(f, S) = f[x] + SumFunctionOnSet(f, S \ {x})
<1> DEFINE Wrong(s, y) == SumFunctionOnSet(f, s) # f[y] + SumFunctionOnSet(f, s \ {y})
           Bad == {n \in Nat : \E s \in SUBSET S : Cardinality(s) = n /\ \E y \in s : Wrong(s, y)}
<1>1. Bad = {}
  <2> SUFFICES ASSUME Bad # {} PROVE FALSE
    OBVIOUS
  <2>1. PICK n \in Bad : \A m \in Bad : n <= m
    BY Least
  <2>2. PICK s \in SUBSET S : Cardinality(s) = n /\ \E y \in s : Wrong(s, y)
    BY <2>1
  <2>3. PICK y \in s : Wrong(s, y)
    BY <2>2
  <2> DEFINE c == First(s)
             r == s \ {c}
             q == s \ {y}
  <2>4. IsFiniteSet(s) /\ c \in s
    BY <2>3, Sizes, FirstIn
  <2>5. SumFunctionOnSet(f, s) = f[c] + SumFunctionOnSet(f, r)
    BY <2>3, <2>4, SumRec
  <2>6. c # y
    BY <2>3, <2>5
  <2>7. /\ r \in SUBSET S /\ Cardinality(r) = n - 1 /\ Cardinality(r) \in Nat
        /\ q \in SUBSET S /\ Cardinality(q) = n - 1 /\ Cardinality(q) \in Nat /\ n \in Nat
    BY <2>2, <2>4, Sizes
  <2>8. n - 1 \notin Bad /\ n - 1 \in Nat
    BY <2>1, <2>7
  <2>9. SumFunctionOnSet(f, r) = f[y] + SumFunctionOnSet(f, r \ {y})
    BY <2>6, <2>7, <2>8
  <2>10. SumFunctionOnSet(f, q) = f[c] + SumFunctionOnSet(f, q \ {c})
    BY <2>4, <2>6, <2>7, <2>8
  <2>11. r \ {y} = q \ {c} /\ r \ {y} \in SUBSET S /\ IsFiniteSet(r \ {y})
    BY <2>7, Sizes
  <2>12. SumFunctionOnSet(f, r \ {y}) \in Int /\ f[c] \in Int /\ f[y] \in Int
    BY <2>4, <2>11, SumInt
  <2> QED  BY <2>3, <2>5, <2>9, <2>10, <2>11, <2>12
<1> QED  BY <1>1, FS_CardinalityType

\* A change of one summand changes the sum by as much.
THEOREM SumChange ==
    ASSUME NEW S, IsFiniteSet(S), NEW f, NEW e, NEW x \in S,
           \A y \in S : f[y] \in Int, e[x] \in Int, \A y \in S \ {x} : e[y] = f[y]
    PROVE  SumFunctionOnSet(e, S) = SumFunctionOnSet(f, S) - f[x] + e[x]
<1>1. IsFiniteSet(S \ {x})
  BY FS_Subset
<1>2. /\ SumFunctionOnSet(f, S) = f[x] + SumFunctionOnSet(f, S \ {x})
      /\ SumFunctionOnSet(e, S) = e[x] + SumFunctionOnSet(e, S \ {x})
  BY SumWithout
<1>3. SumFunctionOnSet(f, S \ {x}) = SumFunctionOnSet(e, S \ {x})
  BY <1>1, SumSame
<1>4. SumFunctionOnSet(f, S \ {x}) \in Int
  BY <1>1, SumInt
<1> QED  BY <1>2, <1>3, <1>4

\* One summand more.
LEMMA SumMore ==
    ASSUME NEW S, IsFiniteSet(S), NEW x, x \notin S, NEW f, NEW e,
           \A y \in S : f[y] \in Int /\ e[y] = f[y], e[x] \in Int
    PROVE  SumFunctionOnSet(e, S \cup {x}) = SumFunctionOnSet(f, S) + e[x]
<1>1. IsFiniteSet(S \cup {x}) /\ (S \cup {x}) \ {x} = S
  BY FS_AddElement
<1>2. SumFunctionOnSet(e, S \cup {x}) = e[x] + SumFunctionOnSet(e, S)
  BY <1>1, SumWithout
<1>3. SumFunctionOnSet(e, S) = SumFunctionOnSet(f, S) /\ SumFunctionOnSet(f, S) \in Int
  BY SumSame, SumInt
<1> QED  BY <1>2, <1>3
=============================================================================
