------------------------------ MODULE FiniteSums ------------------------------
(***************************************************************************)
(* What the sum of a function over a finite set of its arguments is        *)
(* (SumFunctionOnSet of module Functions): the resources that leases take  *)
(* up and the calls that a campaign is charged are such sums.              *)
(*                                                                         *)
(* The sum is a recursive function on the subsets.  That it exists, and    *)
(* each fact about it, is an induction on the cardinality, done by taking  *)
(* a least counterexample (LeastNumber).                                   *)
(***************************************************************************)
EXTENDS Functions, FiniteSetTheorems, TLAPS

\* A set of numbers that is not empty has a least one.
LEMMA LeastNumber ==
  ASSUME NEW T, T \subseteq Nat, T # {}
  PROVE  \E n \in T : \A m \in T : n <= m
<1> DEFINE Less == {ss \in Nat \X Nat : ss[1] < ss[2]}
<1>1. PICK n \in T : \A m \in T : ~ (<<m, n>> \in Less)
  <2>1. IsWellFoundedOn(Less, Nat)
    BY NatLessThanWellFounded DEF OpToRel
  <2>2. QED
    BY <2>1, WFMin
<1>2. \A m \in T : n <= m
  <2> SUFFICES ASSUME NEW m \in T PROVE ~ (m < n)
    OBVIOUS
  <2>1. m < n => <<m, n>> \in Less
    OBVIOUS
  <2>2. QED
    BY <1>1, <2>1
<1>3. QED
  BY <1>2

\* The element that the sum takes out of a set first.
Pick(s) == CHOOSE x \in s : TRUE

\* g adds up v over the sets in D.
IsSum(g, v, D) ==
  g = [s \in D |-> IF s = {} THEN 0 ELSE v[Pick(s)] + g[s \ {Pick(s)}]]

LEMMA PickIn == ASSUME NEW s, s # {} PROVE Pick(s) \in s
BY DEF Pick

\* The subsets of S that have at most n elements.
Small(S, n) == {s \in SUBSET S : Cardinality(s) <= n}

LEMMA SumExists ==
  ASSUME NEW S, IsFiniteSet(S), NEW v
  PROVE  \E g : IsSum(g, v, SUBSET S)
<1> DEFINE Bad == {n \in Nat : ~ \E g : IsSum(g, v, Small(S, n))}
<1>1. Bad = {}
  <2> SUFFICES ASSUME Bad # {} PROVE FALSE
    OBVIOUS
  <2>1. PICK n \in Bad : \A m \in Bad : n <= m
    BY LeastNumber
  <2>2. CASE n = 0
    <3> DEFINE g == [s \in Small(S, 0) |-> 0]
    <3>1. \A s \in Small(S, 0) : s = {}
      BY FS_EmptySet, FS_Subset, FS_CardinalityType DEF Small
    <3>2. IsSum(g, v, Small(S, 0))
      BY <3>1 DEF IsSum
    <3>3. QED
      BY <2>2, <3>2
  <2>3. CASE n # 0
    <3>1. n - 1 \in Nat /\ n - 1 \notin Bad
      BY <2>1, <2>3
    <3>2. PICK h : IsSum(h, v, Small(S, n - 1))
      BY <3>1
    <3> DEFINE G(k, s) == IF s = {} THEN 0 ELSE v[Pick(s)] + k[s \ {Pick(s)}]
    <3> DEFINE g == [s \in Small(S, n) |-> G(h, s)]
    <3>3. \A s \in Small(S, n - 1) : s \in Small(S, n) /\ h[s] = G(h, s)
      <4> SUFFICES ASSUME NEW s \in Small(S, n - 1)
                   PROVE  s \in Small(S, n) /\ h[s] = G(h, s)
        OBVIOUS
      <4>1. s \in SUBSET S /\ Cardinality(s) <= n - 1
        BY DEF Small
      <4>2. Cardinality(s) \in Nat
        BY <4>1, FS_Subset, FS_CardinalityType
      <4>3. s \in Small(S, n)
        BY <4>1, <4>2 DEF Small
      <4>4. h[s] = G(h, s)
        BY <3>2 DEF IsSum
      <4>5. QED
        BY <4>3, <4>4
    <3>4. \A s \in Small(S, n - 1) : g[s] = h[s]
      BY <3>3
    <3>5. \A s \in Small(S, n) : s # {} => s \ {Pick(s)} \in Small(S, n - 1)
      <4> SUFFICES ASSUME NEW s \in Small(S, n), s # {}
                   PROVE  s \ {Pick(s)} \in Small(S, n - 1)
        OBVIOUS
      <4>1. IsFiniteSet(s) /\ Cardinality(s) <= n /\ s \in SUBSET S
        BY FS_Subset DEF Small
      <4>2. Cardinality(s) \in Nat
        BY <4>1, FS_CardinalityType
      <4>3. Cardinality(s \ {Pick(s)}) = Cardinality(s) - 1
        BY <4>1, PickIn, FS_RemoveElement
      <4>4. QED
        BY <4>1, <4>2, <4>3 DEF Small
    <3>6. \A s \in Small(S, n) : G(h, s) = G(g, s)
      BY <3>4, <3>5
    <3>7. g = [s \in Small(S, n) |-> G(g, s)]
      BY <3>6
    <3>8. IsSum(g, v, Small(S, n))
      BY <3>7 DEF IsSum
    <3>9. QED
      BY <2>1, <3>8
  <2>4. QED
    BY <2>2, <2>3
<1>2. Small(S, Cardinality(S)) = SUBSET S
  BY FS_Subset DEF Small
<1>3. Cardinality(S) \in Nat
  BY FS_CardinalityType
<1>4. \E g : IsSum(g, v, Small(S, Cardinality(S)))
  BY <1>1, <1>3
<1>5. QED
  BY <1>2, <1>4

\* Two of them agree where both are defined.
LEMMA SumUnique ==
  ASSUME NEW S, NEW T, NEW v, NEW w, NEW g, NEW h,
         IsSum(g, v, SUBSET S), IsSum(h, w, SUBSET T),
         NEW s, s \subseteq S, s \subseteq T, IsFiniteSet(s), \A x \in s : v[x] = w[x]
  PROVE  g[s] = h[s]
<1> DEFINE Bad == {n \in Nat : \E r \in SUBSET s : Cardinality(r) = n /\ g[r] # h[r]}
<1>1. Bad = {}
  <2> SUFFICES ASSUME Bad # {} PROVE FALSE
    OBVIOUS
  <2>1. PICK n \in Bad : \A m \in Bad : n <= m
    BY LeastNumber
  <2>2. PICK r \in SUBSET s : Cardinality(r) = n /\ g[r] # h[r]
    OBVIOUS
  <2> DEFINE x == Pick(r)
  <2>3. /\ g[r] = IF r = {} THEN 0 ELSE v[x] + g[r \ {x}]
        /\ h[r] = IF r = {} THEN 0 ELSE w[x] + h[r \ {x}]
    BY DEF IsSum
  <2>4. r # {}
    BY <2>2, <2>3
  <2>5. x \in r
    BY <2>4, PickIn
  <2>6. IsFiniteSet(r) /\ n \in Nat
    BY <2>1, FS_Subset
  <2>7. Cardinality(r \ {x}) = n - 1 /\ Cardinality(r \ {x}) \in Nat
    BY <2>2, <2>5, <2>6, FS_RemoveElement, FS_CardinalityType
  <2>8. n - 1 \notin Bad
    BY <2>1, <2>6
  <2>9. g[r \ {x}] = h[r \ {x}]
    BY <2>7, <2>8
  <2>10. QED
    BY <2>2, <2>3, <2>5, <2>9
<1>2. Cardinality(s) \in Nat
  BY FS_CardinalityType
<1>3. QED
  BY <1>1, <1>2

\* The sum over a set is what any such function tells.
LEMMA SumIs ==
  ASSUME NEW S, IsFiniteSet(S), NEW v, NEW g, IsSum(g, v, SUBSET S)
  PROVE  SumFunctionOnSet(v, S) = g[S]
<1> DEFINE iter == CHOOSE h : IsSum(h, v, SUBSET S)
<1>1. SumFunctionOnSet(v, S) = iter[S]
  BY DEF SumFunctionOnSet, FoldFunctionOnSet, MapThenFoldSet, IsSum, Pick
<1>2. IsSum(iter, v, SUBSET S)
  BY SumExists
<1>3. QED
  BY <1>1, <1>2, SumUnique

-----------------------------------------------------------------------------
(* The facts. *)

\* Nothing adds up to zero.
THEOREM SumEmpty == ASSUME NEW v PROVE SumFunctionOnSet(v, {}) = 0
<1>1. PICK g : IsSum(g, v, SUBSET {})
  BY SumExists, FS_EmptySet
<1>2. g[{}] = 0
  BY <1>1 DEF IsSum
<1>3. QED
  BY <1>1, <1>2, SumIs, FS_EmptySet

\* The sum over a set is the value of the element taken out first, and the rest.
LEMMA SumUnfold ==
  ASSUME NEW S, IsFiniteSet(S), S # {}, NEW v
  PROVE  SumFunctionOnSet(v, S) = v[Pick(S)] + SumFunctionOnSet(v, S \ {Pick(S)})
<1> DEFINE x == Pick(S)
<1> DEFINE R == S \ {x}
<1>1. IsFiniteSet(R)
  BY FS_RemoveElement
<1>2. PICK g : IsSum(g, v, SUBSET S)
  BY SumExists
<1>3. PICK h : IsSum(h, v, SUBSET R)
  BY <1>1, SumExists
<1>4. g[R] = h[R]
  <2>1. R \subseteq S
    OBVIOUS
  <2> HIDE DEF R
  <2>2. QED
    BY <1>1, <1>2, <1>3, <2>1, SumUnique
<1>5. g[S] = v[x] + g[R]
  BY <1>2 DEF IsSum
<1>6. SumFunctionOnSet(v, S) = g[S]
  BY <1>2, SumIs
<1>7. SumFunctionOnSet(v, R) = h[R]
  BY <1>1, <1>3, SumIs
<1>8. QED
  BY <1>4, <1>5, <1>6, <1>7

\* Functions that agree on a set have the same sum over it.
THEOREM SumAgree ==
  ASSUME NEW S, IsFiniteSet(S), NEW v, NEW w, \A x \in S : v[x] = w[x]
  PROVE  SumFunctionOnSet(v, S) = SumFunctionOnSet(w, S)
<1>1. PICK g : IsSum(g, v, SUBSET S)
  BY SumExists
<1>2. PICK h : IsSum(h, w, SUBSET S)
  BY SumExists
<1>3. g[S] = h[S]
  BY <1>1, <1>2, SumUnique
<1>4. QED
  BY <1>1, <1>2, <1>3, SumIs

\* A sum of natural numbers is one, and an element more adds its value.
THEOREM SumAdd ==
  ASSUME NEW S, IsFiniteSet(S), NEW v, \A x \in S : v[x] \in Nat
  PROVE  /\ SumFunctionOnSet(v, S) \in Nat
         /\ \A y \in S : SumFunctionOnSet(v, S) = v[y] + SumFunctionOnSet(v, S \ {y})
<1> DEFINE Sum(s) == SumFunctionOnSet(v, s)
<1> DEFINE Good(s) == Sum(s) \in Nat /\ \A y \in s : Sum(s) = v[y] + Sum(s \ {y})
<1> DEFINE Bad == {n \in Nat : \E s \in SUBSET S : Cardinality(s) = n /\ ~ Good(s)}
<1>1. Bad = {}
  <2> SUFFICES ASSUME Bad # {} PROVE FALSE
    OBVIOUS
  <2>1. PICK n \in Bad : \A m \in Bad : n <= m
    BY LeastNumber
  <2>2. PICK s \in SUBSET S : Cardinality(s) = n /\ ~ Good(s)
    OBVIOUS
  <2>3. n \in Nat /\ IsFiniteSet(s)
    BY <2>1, FS_Subset
  <2>4. s # {}
    BY <2>2, SumEmpty
  <2> DEFINE x == Pick(s)
  <2>5. x \in s /\ v[x] \in Nat
    BY <2>4, PickIn
  <2>6. ASSUME NEW r \in SUBSET s, NEW z \in s, z \notin r PROVE Good(r)
    <3>1. r # s
      BY <2>6
    <3>2. IsFiniteSet(r) /\ Cardinality(r) \in Nat /\ Cardinality(r) <= n /\ Cardinality(r) # n
      BY <2>2, <2>3, <3>1, FS_Subset, FS_CardinalityType
    <3>3. Cardinality(r) \notin Bad
      BY <2>1, <2>3, <3>2
    <3>4. QED
      BY <3>2, <3>3
  <2>7. Sum(s) = v[x] + Sum(s \ {x})
    BY <2>3, <2>4, SumUnfold
  <2>8. Sum(s \ {x}) \in Nat
    BY <2>5, <2>6
  <2>9. ASSUME NEW y \in s, y # x PROVE Sum(s) = v[y] + Sum(s \ {y})
    <3> DEFINE r == s \ {x}
    <3>1. Sum(r) = v[y] + Sum(r \ {y})
      BY <2>5, <2>6, <2>9
    <3>2. Sum(s \ {y}) = v[x] + Sum((s \ {y}) \ {x})
      <4>1. Good(s \ {y})
        BY <2>6, <2>9
      <4>2. x \in s \ {y}
        BY <2>5, <2>9
      <4>3. QED
        BY <4>1, <4>2
    <3>3. (s \ {y}) \ {x} = r \ {y}
      OBVIOUS
    <3>4. Sum(r \ {y}) \in Nat /\ v[y] \in Nat
      BY <2>5, <2>6, <2>9
    <3>5. Sum(s) = v[x] + Sum(r)
      BY <2>7
    <3>6. Sum(s \ {y}) = v[x] + Sum(r \ {y})
      BY <3>2, <3>3
    <3> HIDE DEF Sum, r, x
    <3>7. QED
      BY <2>5, <3>1, <3>4, <3>5, <3>6
  <2>10. \A y \in s : Sum(s) = v[y] + Sum(s \ {y})
    <3> SUFFICES ASSUME NEW y \in s PROVE Sum(s) = v[y] + Sum(s \ {y})
      OBVIOUS
    <3>1. CASE y = x
      BY <2>7, <3>1
    <3>2. CASE y # x
      BY <2>9, <3>2
    <3>3. QED
      BY <3>1, <3>2
  <2>11. Sum(s) \in Nat
    BY <2>5, <2>7, <2>8
  <2>12. QED
    BY <2>2, <2>10, <2>11
<1>2. Cardinality(S) \in Nat
  BY FS_CardinalityType
<1>3. Good(S)
  BY <1>1, <1>2
<1>4. QED
  BY <1>3

\* A subset adds up to no more.
THEOREM SumMonotone ==
  ASSUME NEW S, IsFiniteSet(S), NEW v, \A x \in S : v[x] \in Nat, NEW R \in SUBSET S
  PROVE  SumFunctionOnSet(v, R) <= SumFunctionOnSet(v, S)
<1> DEFINE Sum(s) == SumFunctionOnSet(v, s)
<1>0. ASSUME NEW s \in SUBSET S
      PROVE  IsFiniteSet(s) /\ Cardinality(s) \in Nat /\ Sum(s) \in Nat
  <2>1. IsFiniteSet(s) /\ Cardinality(s) \in Nat
    BY FS_Subset, FS_CardinalityType
  <2>2. QED
    BY <2>1, SumAdd
<1> DEFINE Bad == {n \in Nat : \E s \in SUBSET S : /\ R \subseteq s /\ Cardinality(s) = n
                                                   /\ ~ Sum(R) <= Sum(s)}
<1>1. Bad = {}
  <2> SUFFICES ASSUME Bad # {} PROVE FALSE
    OBVIOUS
  <2>1. PICK n \in Bad : \A m \in Bad : n <= m
    BY LeastNumber
  <2>2. PICK s \in SUBSET S : R \subseteq s /\ Cardinality(s) = n /\ ~ Sum(R) <= Sum(s)
    OBVIOUS
  <2>3. s # R
    BY <1>0, <2>2
  <2>4. PICK y \in s : y \notin R
    BY <2>2, <2>3
  <2> DEFINE r == s \ {y}
  <2>5. r \in SUBSET S /\ R \subseteq r
    BY <2>2, <2>4
  <2>6. Cardinality(r) = n - 1 /\ Cardinality(r) \in Nat /\ n \in Nat
    BY <1>0, <2>2, <2>4, <2>5, FS_RemoveElement
  <2>7. Sum(R) <= Sum(r)
    BY <2>1, <2>5, <2>6
  <2>8. Sum(s) = v[y] + Sum(r) /\ v[y] \in Nat
    BY <1>0, <2>4, SumAdd
  <2>9. Sum(R) \in Nat /\ Sum(r) \in Nat
    BY <1>0, <2>5
  <2> HIDE DEF Sum, r
  <2>10. QED
    BY <2>2, <2>7, <2>8, <2>9
<1>2. QED
  BY <1>0, <1>1

\* Zeros add up to zero.
THEOREM SumOfZeros ==
  ASSUME NEW S, IsFiniteSet(S), NEW v, \A x \in S : v[x] = 0
  PROVE  SumFunctionOnSet(v, S) = 0
<1> DEFINE g == [s \in SUBSET S |-> 0]
<1>1. ASSUME NEW s \in SUBSET S
      PROVE  g[s] = IF s = {} THEN 0 ELSE v[Pick(s)] + g[s \ {Pick(s)}]
  BY PickIn
<1>2. IsSum(g, v, SUBSET S)
  BY <1>1 DEF IsSum
<1>3. g[S] = 0
  OBVIOUS
<1>4. QED
  BY <1>2, <1>3, SumIs

\* When one value moves, the sum moves with it.
THEOREM SumMoves ==
  ASSUME NEW S, IsFiniteSet(S), NEW v, NEW w, \A x \in S : v[x] \in Nat,
         \A x \in S : w[x] \in Nat, NEW y \in S, \A x \in S \ {y} : w[x] = v[x]
  PROVE  /\ SumFunctionOnSet(v, S) \in Nat /\ SumFunctionOnSet(w, S) \in Nat
         /\ SumFunctionOnSet(w, S) - w[y] = SumFunctionOnSet(v, S) - v[y]
<1> DEFINE R == S \ {y}
<1>1. IsFiniteSet(R)
  BY FS_RemoveElement
<1>2. SumFunctionOnSet(w, R) = SumFunctionOnSet(v, R)
  BY <1>1, SumAgree
<1>3. /\ SumFunctionOnSet(v, S) \in Nat /\ SumFunctionOnSet(v, R) \in Nat
      /\ SumFunctionOnSet(v, S) = v[y] + SumFunctionOnSet(v, R)
  BY <1>1, SumAdd
<1>4. /\ SumFunctionOnSet(w, S) \in Nat
      /\ SumFunctionOnSet(w, S) = w[y] + SumFunctionOnSet(w, R)
  BY SumAdd
<1> HIDE DEF R
<1> QED BY <1>2, <1>3, <1>4
=============================================================================
