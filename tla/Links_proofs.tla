----------------------------- MODULE Links_proofs ------------------------------
(***************************************************************************)
(* Theorems about Links, for any link the decoders can deliver.            *)
(*                                                                         *)
(*   Counting    a list filtered (Picked) or sorted is described by        *)
(*               counting what is below an element (ListUnique,            *)
(*               PickedPositions).                                         *)
(*   Least       a set of numbers has a least element; the inductions over *)
(*               the loop of parse_query look at the least failure.        *)
(*   Dictionary  what the loop has made of the pairs read so far.          *)
(*   SameQuery   what a node keeps of two queries is the same: the middle  *)
(*               term between equal keys (KeysAlike) and equal meanings    *)
(*               (SaysAlike, MeaningsAlike).                               *)
(***************************************************************************)
EXTENDS Links, FiniteSetTheorems, TLAPS

-----------------------------------------------------------------------------
(* Counting.  In a finite set with a strict total order, an element is known *)
(* by the number of elements below it.                                       *)

Below(S, R, x) == {y \in S : <<y, x>> \in R}

TotalOn(S, R) ==
    /\ \A x \in S : <<x, x>> \notin R
    /\ \A x, y, z \in S : <<x, y>> \in R /\ <<y, z>> \in R => <<x, z>> \in R
    /\ \A x, y \in S : x # y => <<x, y>> \in R \/ <<y, x>> \in R

\* How many are below grows along the order and stays below their number.
LEMMA BelowGrows ==
    ASSUME NEW S, IsFiniteSet(S), NEW R, TotalOn(S, R)
    PROVE  /\ Cardinality(S) \in Nat
           /\ \A x \in S : Cardinality(Below(S, R, x)) \in 0..(Cardinality(S) - 1)
           /\ \A x, y \in S : <<x, y>> \in R =>
                 Cardinality(Below(S, R, x)) < Cardinality(Below(S, R, y))
<1>1. \A A, B : A \subseteq B /\ IsFiniteSet(B) =>
         /\ IsFiniteSet(A)
         /\ Cardinality(A) \in Nat
         /\ Cardinality(B) \in Nat
         /\ A # B => Cardinality(A) < Cardinality(B)
  <2> SUFFICES ASSUME NEW A, NEW B, A \subseteq B, IsFiniteSet(B)
               PROVE  /\ IsFiniteSet(A)
                      /\ Cardinality(A) \in Nat
                      /\ Cardinality(B) \in Nat
                      /\ A # B => Cardinality(A) < Cardinality(B)
    OBVIOUS
  <2>1. /\ IsFiniteSet(A)
        /\ Cardinality(A) <= Cardinality(B)
        /\ Cardinality(A) = Cardinality(B) => A = B
    BY FS_Subset
  <2>2. Cardinality(A) \in Nat /\ Cardinality(B) \in Nat
    BY <2>1, FS_CardinalityType
  <2> QED
    BY <2>1, <2>2
<1>2. ASSUME NEW x \in S
      PROVE  /\ IsFiniteSet(Below(S, R, x))
             /\ Below(S, R, x) \subseteq S
             /\ x \notin Below(S, R, x)
  BY <1>1 DEF Below, TotalOn
<1>3. ASSUME NEW x \in S, NEW y \in S, <<x, y>> \in R
      PROVE  /\ Below(S, R, x) \subseteq Below(S, R, y)
             /\ x \in Below(S, R, y)
  BY <1>3 DEF Below, TotalOn
<1>4. \A x \in S : Cardinality(Below(S, R, x)) < Cardinality(S)
  BY <1>1, <1>2
<1>5. \A x \in S : Cardinality(Below(S, R, x)) \in Nat
  BY <1>1, <1>2
<1>6. Cardinality(S) \in Nat
  BY FS_CardinalityType
<1>7. ASSUME NEW x \in S, NEW y \in S, <<x, y>> \in R
      PROVE  Cardinality(Below(S, R, x)) < Cardinality(Below(S, R, y))
  <2>1. Below(S, R, x) # Below(S, R, y)
    BY <1>2, <1>3, <1>7
  <2>2. Below(S, R, x) \subseteq Below(S, R, y) /\ IsFiniteSet(Below(S, R, y))
    BY <1>2, <1>3, <1>7
  <2> QED
    BY <1>1, <2>1, <2>2
<1>8. \A x \in S : Cardinality(Below(S, R, x)) \in 0..(Cardinality(S) - 1)
  BY <1>4, <1>5, <1>6
<1> QED
  BY <1>6, <1>7, <1>8

\* So no two elements have the same count.
LEMMA BelowApart ==
    ASSUME NEW S, IsFiniteSet(S), NEW R, TotalOn(S, R), NEW x \in S, NEW y \in S,
           Cardinality(Below(S, R, x)) = Cardinality(Below(S, R, y))
    PROVE  x = y
<1>1. <<x, y>> \notin R /\ <<y, x>> \notin R
  <2>1. Cardinality(Below(S, R, x)) \in Nat
    BY BelowGrows
  <2>2. \A u, v \in S : <<u, v>> \in R =>
           Cardinality(Below(S, R, u)) < Cardinality(Below(S, R, v))
    BY BelowGrows
  <2> QED
    BY <2>1, <2>2
<1> QED
  BY <1>1 DEF TotalOn

\* And every number below their number is a count.
LEMMA BelowCounts ==
    ASSUME NEW S, IsFiniteSet(S), NEW R, TotalOn(S, R)
    PROVE  \A k \in 0..(Cardinality(S) - 1) :
              \E x \in S : Cardinality(Below(S, R, x)) = k
<1> DEFINE n == Cardinality(S)
<1> DEFINE f == [x \in S |-> Cardinality(Below(S, R, x))]
<1>1. n \in Nat /\ \A x \in S : f[x] \in 0..(n - 1)
  BY BelowGrows
<1>2. ASSUME NEW x \in S, NEW y \in S, f[x] = f[y] PROVE x = y
  <2>1. Cardinality(Below(S, R, x)) = Cardinality(Below(S, R, y))
    BY <1>2
  <2> QED
    BY <2>1, BelowApart
<1>3. CASE n = 0
  <2>1. S = {}
    BY <1>3, FS_EmptySet
  <2> QED
    BY <1>3, <2>1
<1>4. CASE n # 0
  <2>1. IsFiniteSet(0..(n - 1)) /\ Cardinality(0..(n - 1)) = n
    BY <1>1, <1>4, FS_Interval
  <2>2. f \in Injection(S, 0..(n - 1))
    BY <1>1, <1>2 DEF Injection, IsInjective
  <2>3. f \in Surjection(S, 0..(n - 1))
    BY <2>1, <2>2, FS_Injection
  <2>4. \A k \in 0..(n - 1) : \E x \in S : f[x] = k
    BY <2>3 DEF Surjection
  <2> QED
    BY <1>2, <2>4
<1> QED
  BY <1>3, <1>4

\* f, of length n, lists the elements of V, each once, in the order B.
Lists(f, n, V, B) ==
    /\ f \in [1..n -> V]
    /\ \A v \in V : \E p \in 1..n : f[p] = v
    /\ \A p, q \in 1..n : p < q => <<f[p], f[q]>> \in B

\* A function whose value number p has p - 1 elements below it lists the set.
LEMMA Listing ==
    ASSUME NEW I, IsFiniteSet(I), NEW R, TotalOn(I, R), NEW m, m = Cardinality(I),
           NEW at \in [1..m -> I],
           \A p \in 1..m : Cardinality(Below(I, R, at[p])) = p - 1
    PROVE  Lists(at, m, I, R)
<1>1. m \in Nat
  BY FS_CardinalityType
<1>4. \A p \in 1..m : at[p] \in I /\ Cardinality(Below(I, R, at[p])) = p - 1
  OBVIOUS
<1>5. ASSUME NEW p \in 1..m, NEW q \in 1..m, p < q PROVE <<at[p], at[q]>> \in R
  <2>1. at[p] # at[q]
    BY <1>1, <1>4, <1>5
  <2>2. <<at[q], at[p]>> \notin R
    <3>1. SUFFICES ASSUME <<at[q], at[p]>> \in R PROVE FALSE
      OBVIOUS
    <3>2. Cardinality(Below(I, R, at[q])) < Cardinality(Below(I, R, at[p]))
      BY <1>4, <3>1, BelowGrows
    <3> QED
      BY <1>1, <1>4, <1>5, <3>2
  <2> QED
    BY <1>4, <2>1, <2>2 DEF TotalOn
<1>6. ASSUME NEW i \in I PROVE \E p \in 1..m : at[p] = i
  <2>1. Cardinality(Below(I, R, i)) \in 0..(m - 1)
    BY BelowGrows
  <2> DEFINE k == Cardinality(Below(I, R, i))
  <2>2. \E p \in 1..m : k = p - 1
    <3>1. k \in 0..(m - 1)
      BY <2>1
    <3> HIDE DEF k
    <3>2. k + 1 \in 1..m /\ k = (k + 1) - 1
      BY <1>1, <3>1
    <3> QED
      BY <3>2
  <2>4. PICK p \in 1..m : k = p - 1
    BY <2>2
  <2>3. at[p] \in I /\ Cardinality(Below(I, R, at[p])) = Cardinality(Below(I, R, i))
    BY <1>4, <2>4
  <2> QED
    BY <2>3, BelowApart
<1> QED
  BY <1>5, <1>6 DEF Lists

\* A comprehension has as many elements as positions were chosen.
LEMMA PickedLength ==
    ASSUME NEW s, NEW n \in Nat, NEW I \in SUBSET (1..n)
    PROVE  /\ IsFiniteSet(I)
           /\ Cardinality(I) \in Nat
           /\ Len(Picked(s, I)) = Cardinality(I)
           /\ DOMAIN Picked(s, I) = 1..Cardinality(I)
<1>1. IsFiniteSet(1..n)
  BY FS_Interval
<1>2. IsFiniteSet(I) /\ Cardinality(I) \in Nat
  BY <1>1, FS_Subset, FS_CardinalityType
<1> DEFINE m == Cardinality(I)
<1>3. m \in Nat
  BY <1>2
<1> HIDE DEF m
<1>4. Len(Picked(s, I)) = m /\ DOMAIN Picked(s, I) = 1..m
  BY <1>3 DEF Picked, m
<1> QED
  BY <1>2, <1>4 DEF m

\* at gives the position in s of each element of the comprehension.
Places(at, s, I) ==
    /\ at \in [1..Cardinality(I) -> I]
    /\ \A p \in 1..Cardinality(I) : Picked(s, I)[p] = s[at[p]]
    /\ \A p, q \in 1..Cardinality(I) : p < q => at[p] < at[q]
    /\ \A i \in I : \E p \in 1..Cardinality(I) : at[p] = i

\* It keeps the elements at the chosen positions, each once and in their order.
LEMMA PickedPositions ==
    ASSUME NEW s, NEW n \in Nat, NEW I \in SUBSET (1..n)
    PROVE  \E at : Places(at, s, I)
<1> DEFINE R == {ij \in I \X I : ij[1] < ij[2]}
           m == Cardinality(I)
           at == [p \in 1..m |-> CHOOSE i \in I : Cardinality({j \in I : j < i}) = p - 1]
<1>1. IsFiniteSet(I)
  <2>1. IsFiniteSet(1..n)
    BY FS_Interval
  <2> QED
    BY <2>1, FS_Subset
<1>2. TotalOn(I, R)
  BY DEF TotalOn
<1>3. \A i \in I : Below(I, R, i) = {j \in I : j < i}
  BY DEF Below
<1>4. \A i, j \in I : <<i, j>> \in R => i < j
  OBVIOUS
<1>5. Picked(s, I) = [p \in 1..m |-> s[at[p]]]
  BY DEF Picked
<1> HIDE DEF R
<1>6. m \in Nat
  BY <1>1, FS_CardinalityType
<1>7. \A p \in 1..m : at[p] \in I /\ Cardinality({j \in I : j < at[p]}) = p - 1
  <2>1. \A k \in 0..(m - 1) : \E i \in I : Cardinality(Below(I, R, i)) = k
    BY <1>1, <1>2, BelowCounts
  <2>2. \A p \in 1..m : \E i \in I : Cardinality({j \in I : j < i}) = p - 1
    <3> TAKE p \in 1..m
    <3>1. p - 1 \in 0..(m - 1)
      BY <1>6
    <3> QED
      BY <1>3, <2>1, <3>1
  <2> QED
    BY <2>2
<1>8. Lists(at, m, I, R)
  <2>1. \A p \in 1..m : at[p] \in I /\ Cardinality(Below(I, R, at[p])) = p - 1
    BY <1>3, <1>7
  <2>2. at \in [1..m -> I]
    BY <1>7
  <2> HIDE DEF at, m
  <2>3. m = Cardinality(I)
    BY DEF m
  <2> QED
    BY <1>1, <1>2, <2>1, <2>2, <2>3, Listing
<1> HIDE DEF at
<1>9. \A p, q \in 1..m : p < q => at[p] < at[q]
  BY <1>4, <1>8 DEF Lists
<1>10. \A p \in 1..m : Picked(s, I)[p] = s[at[p]]
  BY <1>5
<1>11. /\ at \in [1..m -> I]
       /\ \A i \in I : \E p \in 1..m : at[p] = i
  BY <1>8 DEF Lists
<1> QED
  BY <1>9, <1>10, <1>11 DEF Places, m

\* A list has its element number p where p - 1 elements are below it.
LEMMA ListCounts ==
    ASSUME NEW V, IsFiniteSet(V), NEW B, TotalOn(V, B), NEW n \in Nat,
           NEW f, Lists(f, n, V, B), NEW p \in 1..n
    PROVE  Cardinality(Below(V, B, f[p])) = p - 1
<1>1. /\ f \in [1..n -> V]
      /\ \A v \in V : \E q \in 1..n : f[q] = v
      /\ \A q, r \in 1..n : q < r => <<f[q], f[r]>> \in B
  BY DEF Lists
<1>2. ASSUME NEW q \in 1..n, NEW r \in 1..n, <<f[q], f[r]>> \in B PROVE q < r
  <2>1. q # r
    BY <1>1, <1>2 DEF TotalOn
  <2>2. ~(r < q)
    <3>1. SUFFICES ASSUME r < q PROVE FALSE
      OBVIOUS
    <3>2. <<f[r], f[q]>> \in B
      BY <1>1, <3>1
    <3>3. f[r] \in V /\ f[q] \in V
      BY <1>1
    <3> QED
      BY <1>2, <3>2, <3>3 DEF TotalOn
  <2> QED
    BY <2>1, <2>2
<1>4. Below(V, B, f[p]) = {f[q] : q \in 1..(p - 1)}
  <2>1. \A q \in 1..(p - 1) : q \in 1..n /\ q < p
    OBVIOUS
  <2>2. \A q \in 1..n : q < p => q \in 1..(p - 1)
    OBVIOUS
  <2> QED
    BY <1>1, <1>2, <2>1, <2>2 DEF Below
<1> DEFINE g == [q \in 1..(p - 1) |-> f[q]]
<1>5. \A q, r \in 1..(p - 1) : f[q] = f[r] => q = r
  <2>1. \A q \in 1..(p - 1) : q \in 1..n
    OBVIOUS
  <2>2. \A q, r \in 1..n : q # r => q < r \/ r < q
    OBVIOUS
  <2> QED
    BY <1>1, <2>1, <2>2 DEF TotalOn
<1>6. g \in Bijection(1..(p - 1), Below(V, B, f[p]))
  BY <1>4, <1>5 DEF Bijection, Injection, Surjection, IsInjective
<1>7. ExistsBijection(1..(p - 1), Below(V, B, f[p]))
  BY <1>6 DEF ExistsBijection
<1>8. p - 1 \in Nat
  OBVIOUS
<1> QED
  BY <1>7, <1>8, FS_CountingElements

\* So there is one list of a set in a given order.
LEMMA ListUnique ==
    ASSUME NEW V, IsFiniteSet(V), NEW B, TotalOn(V, B), NEW n \in Nat, NEW k \in Nat,
           NEW f, Lists(f, n, V, B), NEW g, Lists(g, k, V, B)
    PROVE  f = g /\ n = k
<1>0. f \in [1..n -> V] /\ g \in [1..k -> V]
  BY DEF Lists
<1>1. ASSUME NEW p \in 1..n PROVE p \in 1..k /\ f[p] = g[p]
  <2>1. Cardinality(Below(V, B, f[p])) = p - 1
    BY ListCounts
  <2>2. PICK q \in 1..k : g[q] = f[p]
    BY <1>0 DEF Lists
  <2>3. Cardinality(Below(V, B, g[q])) = q - 1
    BY ListCounts
  <2> QED
    BY <2>1, <2>2, <2>3
<1>2. ASSUME NEW q \in 1..k PROVE q \in 1..n
  <2>1. Cardinality(Below(V, B, g[q])) = q - 1
    BY ListCounts
  <2>2. PICK p \in 1..n : f[p] = g[q]
    BY <1>0 DEF Lists
  <2>3. Cardinality(Below(V, B, f[p])) = p - 1
    BY ListCounts
  <2> QED
    BY <2>1, <2>2, <2>3
<1>3. 1..n = 1..k
  BY <1>1, <1>2
<1>4. n = k
  <2>1. n = 0 \/ n \in 1..k
    BY <1>3
  <2>2. k = 0 \/ k \in 1..n
    BY <1>3
  <2> QED
    BY <2>1, <2>2
<1>5. \A p \in 1..n : f[p] = g[p]
  BY <1>1
<1> QED
  BY <1>0, <1>3, <1>4, <1>5

\* What comes ahead of the element at i in the stable sort of s by the order B.
Ahead(s, n, B, i) ==
    {j \in 1..n : <<s[j], s[i]>> \in B \/ (j < i /\ <<s[i], s[j]>> \notin B)}

\* In a sequence without repetitions under a strict total order, that is what is
\* below it in the order.
LEMMA AheadIsBelow ==
    ASSUME NEW n \in Nat, NEW s, NEW V, \A i \in 1..n : s[i] \in V,
           \A i, j \in 1..n : s[i] = s[j] => i = j,
           NEW B, TotalOn(V, B), NEW A,
           \A i, j \in 1..n : <<i, j>> \in A <=> <<s[i], s[j]>> \in B
    PROVE  /\ TotalOn(1..n, A)
           /\ \A i \in 1..n : Ahead(s, n, B, i) = Below(1..n, A, i)
<1>1. TotalOn(1..n, A)
  <2>3. \A i \in 1..n : <<i, i>> \notin A
    BY DEF TotalOn
  <2>4. \A i, j, k \in 1..n : <<i, j>> \in A /\ <<j, k>> \in A => <<i, k>> \in A
    <3> TAKE i, j, k \in 1..n
    <3>1. s[i] \in V /\ s[j] \in V /\ s[k] \in V
      OBVIOUS
    <3> QED
      BY <3>1 DEF TotalOn
  <2>5. \A i, j \in 1..n : i # j => <<i, j>> \in A \/ <<j, i>> \in A
    BY DEF TotalOn
  <2> QED
    BY <2>3, <2>4, <2>5 DEF TotalOn
<1>2. ASSUME NEW i \in 1..n, NEW j \in 1..n, j < i, <<s[i], s[j]>> \notin B
      PROVE  <<s[j], s[i]>> \in B
  <2>1. s[i] # s[j] /\ s[i] \in V /\ s[j] \in V
    BY <1>2
  <2> QED
    BY <1>2, <2>1 DEF TotalOn
<1>3. ASSUME NEW i \in 1..n PROVE Ahead(s, n, B, i) = Below(1..n, A, i)
  BY <1>2 DEF Ahead, Below
<1> QED
  BY <1>1, <1>3

\* So every place of the sorted sequence is taken.
LEMMA AheadCounts ==
    ASSUME NEW n \in Nat, NEW s, NEW V, \A i \in 1..n : s[i] \in V,
           \A i, j \in 1..n : s[i] = s[j] => i = j,
           NEW B, TotalOn(V, B)
    PROVE  \A p \in 1..n : \E i \in 1..n : 1 + Cardinality(Ahead(s, n, B, i)) = p
<1> DEFINE A == {ij \in (1..n) \X (1..n) : <<s[ij[1]], s[ij[2]]>> \in B}
<1>1. \A i, j \in 1..n : <<i, j>> \in A <=> <<s[i], s[j]>> \in B
  OBVIOUS
<1> HIDE DEF A
<1>2. TotalOn(1..n, A) /\ \A i \in 1..n : Ahead(s, n, B, i) = Below(1..n, A, i)
  BY <1>1, AheadIsBelow, SMTT(40)
<1>3. IsFiniteSet(1..n) /\ n = Cardinality(1..n)
  BY FS_Interval
<1>4. \A k \in 0..(n - 1) : \E i \in 1..n : Cardinality(Below(1..n, A, i)) = k
  BY <1>2, <1>3, BelowCounts
<1> TAKE p \in 1..n
<1>5. p - 1 \in 0..(n - 1)
  OBVIOUS
<1>6. PICK i \in 1..n : Cardinality(Below(1..n, A, i)) = p - 1
  BY <1>4, <1>5
<1>7. 1 + Cardinality(Ahead(s, n, B, i)) = p
  BY <1>2, <1>6
<1> QED
  BY <1>7

\* s holds the elements of V, each once.
Holds(s, n, V) ==
    /\ \A i \in 1..n : s[i] \in V
    /\ \A v \in V : \E i \in 1..n : s[i] = v
    /\ \A i, j \in 1..n : s[i] = s[j] => i = j

\* t is the sequence s, sorted by the order B; at says where an element was.
Sorts(t, at, s, n, B) ==
    /\ at \in [1..n -> 1..n]
    /\ \A p \in 1..n : 1 + Cardinality(Ahead(s, n, B, at[p])) = p
    /\ t = [p \in 1..n |-> s[at[p]]]

\* And the sorted sequence lists the elements in the order.
LEMMA SortLists ==
    ASSUME NEW n \in Nat, NEW s, NEW V, Holds(s, n, V), NEW B, TotalOn(V, B),
           NEW t, NEW at, Sorts(t, at, s, n, B)
    PROVE  Lists(t, n, V, B)
<1> DEFINE A == {ij \in (1..n) \X (1..n) : <<s[ij[1]], s[ij[2]]>> \in B}
<1>a. /\ \A i \in 1..n : s[i] \in V
      /\ \A v \in V : \E i \in 1..n : s[i] = v
      /\ \A i, j \in 1..n : s[i] = s[j] => i = j
  BY DEF Holds
<1>b. /\ at \in [1..n -> 1..n]
      /\ \A p \in 1..n : 1 + Cardinality(Ahead(s, n, B, at[p])) = p
      /\ t = [p \in 1..n |-> s[at[p]]]
  BY DEF Sorts
<1>1. \A i, j \in 1..n : <<i, j>> \in A <=> <<s[i], s[j]>> \in B
  OBVIOUS
<1> HIDE DEF A
<1>2. TotalOn(1..n, A) /\ \A i \in 1..n : Ahead(s, n, B, i) = Below(1..n, A, i)
  <2>1. /\ n \in Nat /\ TotalOn(V, B)
        /\ \A i \in 1..n : s[i] \in V
        /\ \A i, j \in 1..n : s[i] = s[j] => i = j
    BY <1>a
  <2>2. TotalOn(1..n, A)
    BY ONLY <1>1, <2>1, AheadIsBelow
  <2>3. \A i \in 1..n : Ahead(s, n, B, i) = Below(1..n, A, i)
    BY ONLY <1>1, <2>1, AheadIsBelow
  <2> QED
    BY <2>2, <2>3
<1>3. IsFiniteSet(1..n) /\ n = Cardinality(1..n)
  BY FS_Interval
<1>4. \A p \in 1..n : Cardinality(Below(1..n, A, at[p])) = p - 1
  <2> TAKE p \in 1..n
  <2>1. at[p] \in 1..n /\ 1 + Cardinality(Below(1..n, A, at[p])) = p
    BY <1>2, <1>b
  <2>2. Cardinality(Below(1..n, A, at[p])) \in Nat
    <3>1. Cardinality(Below(1..n, A, at[p])) \in 0..(Cardinality(1..n) - 1)
      BY <1>2, <1>3, <2>1, BelowGrows
    <3> QED
      BY <1>3, <3>1
  <2> DEFINE k == Cardinality(Below(1..n, A, at[p]))
  <2>3. k \in Nat /\ 1 + k = p
    BY <2>1, <2>2
  <2> HIDE DEF k
  <2>4. k = p - 1
    BY <2>3
  <2> QED
    BY <2>4 DEF k
<1>5. Lists(at, n, 1..n, A)
  BY <1>2, <1>3, <1>4, <1>b, Listing
<1>6. /\ \A i \in 1..n : \E p \in 1..n : at[p] = i
      /\ \A p, q \in 1..n : p < q => <<at[p], at[q]>> \in A
  BY <1>5 DEF Lists
<1>7. t \in [1..n -> V]
  BY <1>a, <1>b
<1>8. ASSUME NEW v \in V PROVE \E p \in 1..n : t[p] = v
  <2>1. PICK i \in 1..n : s[i] = v
    BY <1>a
  <2>2. PICK p \in 1..n : at[p] = i
    BY <1>6
  <2> QED
    BY <1>b, <2>1, <2>2
<1>9. \A p, q \in 1..n : p < q => <<t[p], t[q]>> \in B
  <2> TAKE p, q \in 1..n
  <2>1. at[p] \in 1..n /\ at[q] \in 1..n /\ t[p] = s[at[p]] /\ t[q] = s[at[q]]
    BY <1>b
  <2> QED
    BY <1>1, <1>6, <2>1
<1> QED
  BY <1>7, <1>8, <1>9 DEF Lists

-----------------------------------------------------------------------------
(* Sequences and comprehensions *)

Elements(s) == {s[i] : i \in 1..Len(s)}
IsSequence(s) == Len(s) \in Nat /\ s \in [1..Len(s) -> Elements(s)]

\* A comprehension is a sequence of the elements at the chosen positions, all of
\* them and no other.
LEMMA PickedElements ==
    ASSUME NEW s, NEW n \in Nat, NEW I \in SUBSET (1..n)
    PROVE  /\ IsSequence(Picked(s, I))
           /\ Len(Picked(s, I)) = Cardinality(I)
           /\ Elements(Picked(s, I)) = {s[i] : i \in I}
<1> DEFINE m == Cardinality(I)
           P == Picked(s, I)
<1>0. PICK at : Places(at, s, I)
  BY PickedPositions
<1>1. /\ at \in [1..m -> I]
      /\ \A p \in 1..m : P[p] = s[at[p]]
      /\ \A p, q \in 1..m : p < q => at[p] < at[q]
      /\ \A i \in I : \E p \in 1..m : at[p] = i
  BY <1>0 DEF Places
<1>2. m \in Nat /\ Len(P) = m /\ DOMAIN P = 1..m
  BY PickedLength
<1>3. P = [p \in 1..m |-> P[p]]
  BY <1>2 DEF Picked
<1> HIDE DEF P, m
<1>4. P \in [1..m -> {P[i] : i \in 1..m}]
  BY <1>3
<1>5. ASSUME NEW i \in I PROVE \E p \in 1..m : P[p] = s[i]
  <2>1. PICK p \in 1..m : at[p] = i
    BY <1>1
  <2> QED
    BY <1>1, <2>1
<1>6. \A p \in 1..m : at[p] \in I /\ P[p] = s[at[p]]
  BY <1>1
<1>7. {P[i] : i \in 1..m} = {s[i] : i \in I}
  <2>1. ASSUME NEW x \in {P[i] : i \in 1..m} PROVE x \in {s[i] : i \in I}
    <3>1. PICK p \in 1..m : x = P[p]
      OBVIOUS
    <3>2. at[p] \in I /\ x = s[at[p]]
      BY <1>6, <3>1
    <3> QED
      BY <3>2
  <2>2. {s[i] : i \in I} \subseteq {P[i] : i \in 1..m}
    BY <1>5
  <2> QED
    BY <2>1, <2>2
<1> QED
  BY <1>2, <1>4, <1>7 DEF IsSequence, Elements, P, m

\* When s has no repetitions, neither has the comprehension.
LEMMA PickedApart ==
    ASSUME NEW s, NEW n \in Nat, NEW I \in SUBSET (1..n),
           \A i, j \in I : s[i] = s[j] => i = j,
           NEW p \in 1..Len(Picked(s, I)), NEW q \in 1..Len(Picked(s, I)),
           Picked(s, I)[p] = Picked(s, I)[q]
    PROVE  p = q
<1> DEFINE m == Cardinality(I)
           P == Picked(s, I)
<1>0. PICK at : Places(at, s, I)
  BY PickedPositions
<1>1. /\ at \in [1..m -> I]
      /\ \A k \in 1..m : P[k] = s[at[k]]
      /\ \A k, l \in 1..m : k < l => at[k] < at[l]
      /\ \A i \in I : \E k \in 1..m : at[k] = i
  BY <1>0 DEF Places
<1>2. m \in Nat /\ Len(P) = m
  BY PickedLength
<1> HIDE DEF P, m
<1>3. at[p] = at[q] /\ p \in 1..m /\ q \in 1..m
  <2>1. p \in 1..m /\ q \in 1..m
    BY <1>2 DEF P
  <2>2. P[p] = P[q] /\ at[p] \in I /\ at[q] \in I
    BY <1>1, <2>1 DEF P
  <2>3. s[at[p]] = s[at[q]]
    BY <1>1, <2>1, <2>2
  <2> QED
    BY <2>1, <2>2, <2>3
<1>4. at[p] \in 1..n /\ at[q] \in 1..n
  BY <1>1, <1>3
<1> QED
  BY <1>1, <1>2, <1>3, <1>4

\* A comprehension without a condition is the sequence itself.
LEMMA PickedAll ==
    ASSUME NEW s, IsSequence(s)
    PROVE  Picked(s, 1..Len(s)) = s
<1> DEFINE n == Len(s)
           I == 1..n
           R == {ij \in I \X I : ij[1] < ij[2]}
           P == Picked(s, I)
           self == [i \in I |-> i]
<1>1. n \in Nat /\ IsFiniteSet(I) /\ Cardinality(I) = n
  BY FS_Interval DEF IsSequence
<1>2. TotalOn(I, R)
  BY <1>1 DEF TotalOn
<1>0. PICK at : Places(at, s, I)
  BY <1>1, PickedPositions
<1>3. /\ at \in [1..n -> I]
      /\ \A p \in 1..n : P[p] = s[at[p]]
      /\ \A p, q \in 1..n : p < q => at[p] < at[q]
      /\ \A i \in I : \E p \in 1..n : at[p] = i
  BY <1>0, <1>1 DEF Places
<1>4. Lists(at, n, I, R)
  BY <1>1, <1>3 DEF Lists
<1>5. Lists(self, n, I, R)
  BY <1>1 DEF Lists
<1>6. at = self
  <2> HIDE DEF self, R, I, n
  <2> QED
    BY <1>1, <1>2, <1>4, <1>5, ListUnique
<1>7. \A p \in 1..n : P[p] = s[p]
  BY <1>1, <1>3, <1>6
<1>8. Len(P) = n /\ DOMAIN P = 1..n
  BY <1>1, PickedLength
<1>9. P = [p \in 1..n |-> P[p]]
  BY <1>8 DEF Picked
<1>10. s \in [1..n -> Elements(s)]
  BY DEF IsSequence
<1> HIDE DEF P, n
<1> QED
  BY <1>7, <1>9, <1>10 DEF P, n

-----------------------------------------------------------------------------
(* Induction.  A set of natural numbers has a least element, so a statement   *)
(* about the rounds of a loop that fails somewhere fails somewhere first.     *)

\* A set of natural numbers has a least element.
LEMMA Least ==
    ASSUME NEW T, T \subseteq Nat, T # {}
    PROVE  \E x \in T : \A y \in T : x <= y
<1> DEFINE R == {ss \in Nat \X Nat : ss[1] < ss[2]}
<1>1. IsWellFoundedOn(R, Nat)
  BY NatLessThanWellFounded DEF OpToRel
<1>2. \E x \in T : \A y \in T : ~ (<<y, x>> \in R)
  <2> HIDE DEF R
  <2> QED
    BY <1>1, WFMin
<1>3. PICK x \in T : \A y \in T : ~ (<<y, x>> \in R)
  BY <1>2
<1>4. ASSUME NEW y \in T PROVE x <= y
  <2>1. x \in Nat /\ y \in Nat
    OBVIOUS
  <2>2. y < x => <<y, x>> \in R
    BY <2>1
  <2> HIDE DEF R
  <2> QED
    BY <1>3, <2>1, <2>2
<1> QED
  BY <1>4

\* A set that holds 0 and with a number below n also the next one holds all
\* numbers up to n.
LEMMA UpTo ==
    ASSUME NEW n \in Nat, NEW S, 0 \in S, \A m \in 0..(n - 1) : m \in S => m + 1 \in S
    PROVE  0..n \subseteq S
<1> DEFINE T == 0..n \ S
<1> SUFFICES ASSUME T # {} PROVE FALSE
  OBVIOUS
<1>1. T \subseteq Nat
  OBVIOUS
<1>2. PICK x \in T : \A y \in T : x <= y
  <2> HIDE DEF T
  <2> QED
    BY <1>1, Least
<1>3. x \in 1..n /\ x - 1 \in 0..(n - 1) /\ x - 1 \notin T /\ (x - 1) + 1 = x
  BY <1>2
<1> QED
  BY <1>3

-----------------------------------------------------------------------------
(* The loop of parse_query *)

\* A round of it.
Round(link, out, pair) ==
    IF link.scheme = "vmess" THEN AddMember(out, pair) ELSE AddPair(out, pair)

\* g[i] is what the loop has made of the first i pairs.
Rounds(link, g, n) ==
    g = [i \in 0..n |-> IF i = 0 THEN <<>> ELSE Round(link, g[i - 1], link.query[i])]

\* There are such rounds for a query of any length.
LEMMA LoopRuns ==
    ASSUME NEW link, NEW n \in Nat
    PROVE  \E g : Rounds(link, g, n)
<1> DEFINE S == {m \in 0..n : \E g : Rounds(link, g, m)}
<1>1. 0 \in S
  <2> DEFINE g == [i \in 0..0 |-> <<>>]
  <2>1. Rounds(link, g, 0)
    BY DEF Rounds
  <2> QED
    BY <2>1
<1>2. ASSUME NEW m \in 0..(n - 1), m \in S PROVE m + 1 \in S
  <2>1. PICK g : Rounds(link, g, m)
    BY <1>2
  <2> DEFINE next == Round(link, g[m], link.query[m + 1])
             h == [i \in 0..(m + 1) |-> IF i <= m THEN g[i] ELSE next]
  <2>2. g = [i \in 0..m |-> IF i = 0 THEN <<>> ELSE Round(link, g[i - 1], link.query[i])]
    BY <2>1 DEF Rounds
  <2>3. ASSUME NEW i \in 0..(m + 1)
        PROVE  h[i] = IF i = 0 THEN <<>> ELSE Round(link, h[i - 1], link.query[i])
    <3>1. CASE i = 0
      BY <3>1, <2>2
    <3>2. CASE i \in 1..m
      <4>1. h[i] = g[i] /\ h[i - 1] = g[i - 1]
        BY <3>2
      <4>2. g[i] = Round(link, g[i - 1], link.query[i])
        <5>1. i \in 0..m /\ i # 0
          BY <3>2
        <5> HIDE DEF h, next
        <5> QED
          BY <5>1, <2>2
      <4> HIDE DEF h
      <4> QED
        BY <3>2, <4>1, <4>2
    <3>3. CASE i = m + 1
      <4>1. h[i] = next /\ h[i - 1] = g[m]
        BY <3>3
      <4> HIDE DEF h
      <4> QED
        BY <3>3, <4>1
    <3> QED
      BY <3>1, <3>2, <3>3
  <2>4. Rounds(link, h, m + 1)
    <3>1. h = [i \in 0..(m + 1) |-> h[i]]
      OBVIOUS
    <3> HIDE DEF h
    <3> QED
      BY <2>3, <3>1 DEF Rounds
  <2> HIDE DEF h
  <2> QED
    BY <2>4
<1>3. 0..n \subseteq S
  <2> HIDE DEF S
  <2> QED
    BY <1>1, <1>2, UpTo
<1> QED
  BY <1>3

\* What parse_query returns is what its last round leaves.
LEMMA QueryIsLast ==
    ASSUME NEW link, Len(link.query) \in Nat
    PROVE  \E g : Rounds(link, g, Len(link.query)) /\ Query(link) = g[Len(link.query)]
<1> DEFINE n == Len(link.query)
           g == CHOOSE f : Rounds(link, f, n)
<1>1. Rounds(link, g, n)
  <2> HIDE DEF n
  <2>1. \E f : Rounds(link, f, n)
    BY LoopRuns DEF n
  <2> QED
    BY <2>1, Zenon
<1>2. Query(link) = g[n]
  BY Zenon DEF Query, Rounds, Round
<1> HIDE DEF g
<1> QED
  BY <1>1, <1>2

\* A round keeps what it finds, but for the key it is given; the first time that
\* key comes again, its old value goes to the marked key.
LEMMA RoundKeeps ==
    ASSUME NEW out, NEW pair, Marked(pair[1]) # pair[1]
    PROVE  LET k == pair[1]
               new == AddPair(out, pair)
           IN /\ DOMAIN new = DOMAIN out \cup {k}
                                \cup (IF k \in DOMAIN out THEN {Marked(k)} ELSE {})
              /\ new[k] = pair[2]
              /\ \A x \in DOMAIN out : x # k => new[x] = out[x]
              /\ k \in DOMAIN out /\ Marked(k) \notin DOMAIN out => new[Marked(k)] = out[k]
<1> DEFINE k == pair[1]
           v == pair[2]
           new == AddPair(out, pair)
           kept == Put(out, Marked(k), out[k])
<1>1. \A f : /\ DOMAIN Put(f, k, v) = DOMAIN f \cup {k}
             /\ Put(f, k, v)[k] = v
             /\ \A x \in DOMAIN f : x # k => Put(f, k, v)[x] = f[x]
  BY DEF Put
<1>2. /\ DOMAIN kept = DOMAIN out \cup {Marked(k)}
      /\ kept[Marked(k)] = out[k]
      /\ \A x \in DOMAIN out : x # Marked(k) => kept[x] = out[x]
  BY DEF Put
<1>3. CASE k \notin DOMAIN out \/ Marked(k) \in DOMAIN out
  <2>1. new = Put(out, k, v)
    BY <1>3 DEF AddPair
  <2> HIDE DEF new, k, v, kept
  <2> QED
    BY <1>1, <1>3, <2>1 DEF new, k, v
<1>4. CASE k \in DOMAIN out /\ Marked(k) \notin DOMAIN out
  <2>1. new = Put(kept, k, v)
    BY <1>4 DEF AddPair
  <2> HIDE DEF new, k, v, kept
  <2>2. /\ DOMAIN new = DOMAIN kept \cup {k}
        /\ new[k] = v
        /\ \A x \in DOMAIN kept : x # k => new[x] = kept[x]
    BY <1>1, <2>1
  <2>3. Marked(k) # k
    BY DEF k
  <2> QED
    BY <1>2, <1>4, <2>2, <2>3 DEF new, k, v
<1> QED
  BY <1>3, <1>4

\* The names of the query bear no mark.
Unmarked(link) ==
    \A i \in 1..Len(link.query) : link.query[i][1] = Key(link.query[i][1][1])

\* What the dictionary q knows of the first n pairs: the last value of every key
\* and, of those given more than once, also the first.
Dictionary(link, q, n) ==
    LET K(i) == link.query[i][1]
        Twice(i, j) == i < j /\ K(i) = K(j)
    IN /\ \A k \in DOMAIN q : \/ \E i \in 1..n : k = K(i)
                              \/ \E i, j \in 1..n : Twice(i, j) /\ k = Marked(K(i))
       /\ \A i \in 1..n :
             /\ K(i) \in DOMAIN q
             /\ (\A j \in (i + 1)..n : K(j) # K(i)) => q[K(i)] = link.query[i][2]
       /\ \A i, j \in 1..n : Twice(i, j) =>
             /\ Marked(K(i)) \in DOMAIN q
             /\ (\A h \in 1..(i - 1) : K(h) # K(i)) => q[Marked(K(i))] = link.query[i][2]

\* A round adds its pair to what the dictionary knows.
LEMMA RoundRemembers ==
    ASSUME NEW link, NEW n \in Nat, n + 1 <= Len(link.query), Len(link.query) \in Nat,
           Unmarked(link), NEW q, Dictionary(link, q, n)
    PROVE  Dictionary(link, AddPair(q, link.query[n + 1]), n + 1)
<1> DEFINE K(i) == link.query[i][1]
           V(i) == link.query[i][2]
           Twice(i, j) == i < j /\ K(i) = K(j)
           k == K(n + 1)
           new == AddPair(q, link.query[n + 1])
<1>1. /\ \A x \in DOMAIN q : \/ \E i \in 1..n : x = K(i)
                             \/ \E i, j \in 1..n : Twice(i, j) /\ x = Marked(K(i))
      /\ \A i \in 1..n :
            /\ K(i) \in DOMAIN q
            /\ (\A j \in (i + 1)..n : K(j) # K(i)) => q[K(i)] = V(i)
      /\ \A i, j \in 1..n : Twice(i, j) =>
            /\ Marked(K(i)) \in DOMAIN q
            /\ (\A h \in 1..(i - 1) : K(h) # K(i)) => q[Marked(K(i))] = V(i)
  BY DEF Dictionary
<1>2. /\ \A i \in 1..(n + 1) : K(i) # Marked(k) /\ Marked(K(i)) # k
      /\ \A i \in 1..(n + 1) : Marked(K(i)) = Marked(k) => K(i) = k
  <2>1. \A i \in 1..(n + 1) : K(i) = <<K(i)[1], 0>> /\ Marked(K(i)) = <<K(i)[1], 1>>
    <3>1. ASSUME NEW i \in 1..(n + 1) PROVE K(i) = <<K(i)[1], 0>>
      BY DEF Unmarked, Key
    <3>2. ASSUME NEW i \in 1..(n + 1) PROVE Marked(K(i)) = <<K(i)[1], 1>>
      <4>1. K(i)[2] = 0
        BY <3>1
      <4> QED
        BY <4>1 DEF Marked
    <3> QED
      BY <3>1, <3>2
  <2> HIDE DEF K
  <2>2. n + 1 \in 1..(n + 1)
    OBVIOUS
  <2> QED
    BY <2>1, <2>2
<1>3. /\ DOMAIN new = DOMAIN q \cup {k} \cup (IF k \in DOMAIN q THEN {Marked(k)} ELSE {})
      /\ new[k] = V(n + 1)
      /\ \A x \in DOMAIN q : x # k => new[x] = q[x]
      /\ k \in DOMAIN q /\ Marked(k) \notin DOMAIN q => new[Marked(k)] = q[k]
  <2>1. Marked(link.query[n + 1][1]) # link.query[n + 1][1]
    BY <1>2
  <2> QED
    BY <2>1, RoundKeeps
<1> HIDE DEF K, V, k, new
<1>4. k = K(n + 1) /\ n + 1 \in 1..(n + 1)
  BY DEF k
<1>5. k \in DOMAIN q <=> \E i \in 1..n : K(i) = k
  <2>1. ASSUME NEW i \in 1..n PROVE k # Marked(K(i))
    <3>1. i \in 1..(n + 1)
      OBVIOUS
    <3> QED
      BY <1>2, <3>1
  <2> QED
    BY <1>1, <2>1
<1>6. ASSUME NEW x \in DOMAIN new
      PROVE  \/ \E i \in 1..(n + 1) : x = K(i)
             \/ \E i, j \in 1..(n + 1) : Twice(i, j) /\ x = Marked(K(i))
  <2>1. CASE x \in DOMAIN q
    <3>1. 1..n \subseteq 1..(n + 1)
      OBVIOUS
    <3> QED
      BY <1>1, <2>1, <3>1
  <2>2. CASE x = k
    BY <1>4, <2>2
  <2>3. CASE k \in DOMAIN q /\ x = Marked(k)
    <3>1. PICK i \in 1..n : K(i) = k
      BY <1>5, <2>3
    <3>2. i \in 1..(n + 1) /\ Twice(i, n + 1) /\ x = Marked(K(i))
      BY <1>4, <2>3, <3>1
    <3> QED
      BY <1>4, <3>2
  <2> QED
    BY <1>3, <2>1, <2>2, <2>3
<1>7. ASSUME NEW i \in 1..(n + 1)
      PROVE  /\ K(i) \in DOMAIN new
             /\ (\A j \in (i + 1)..(n + 1) : K(j) # K(i)) => new[K(i)] = V(i)
  <2>1. CASE i = n + 1
    BY <1>3, <1>4, <2>1
  <2>2. CASE i \in 1..n
    <3>1. K(i) \in DOMAIN q
      BY <1>1, <2>2
    <3>2. ASSUME \A j \in (i + 1)..(n + 1) : K(j) # K(i) PROVE new[K(i)] = V(i)
      <4>1. K(i) # k /\ \A j \in (i + 1)..n : K(j) # K(i)
        BY <1>4, <2>2, <3>2
      <4> QED
        BY <1>1, <1>3, <2>2, <3>1, <4>1
    <3> QED
      BY <1>3, <3>1, <3>2
  <2> QED
    BY <2>1, <2>2
<1>8. ASSUME NEW i \in 1..(n + 1), NEW j \in 1..(n + 1), Twice(i, j)
      PROVE  /\ Marked(K(i)) \in DOMAIN new
             /\ (\A h \in 1..(i - 1) : K(h) # K(i)) => new[Marked(K(i))] = V(i)
  <2>1. i \in 1..n /\ Marked(K(i)) # k
    <3>1. Marked(K(i)) # k
      BY <1>2
    <3> QED
      BY <1>4, <1>8, <3>1
  <2>2. CASE j \in 1..n
    BY <1>1, <1>3, <1>8, <2>1, <2>2
  <2>3. CASE j = n + 1
    <3>1. K(i) = k /\ k \in DOMAIN q
      BY <1>4, <1>5, <1>8, <2>1, <2>3
    <3>2. CASE Marked(k) \in DOMAIN q
      <4>1. PICK a \in 1..n, b \in 1..n : Twice(a, b) /\ Marked(k) = Marked(K(a))
        <5>1. \A a \in 1..n : Marked(k) # K(a)
          BY <1>2, <1>4
        <5> QED
          BY <1>1, <3>2, <5>1
      <4>2. K(a) = k
        BY <1>2, <1>4, <4>1
      <4>3. ASSUME \A h \in 1..(i - 1) : K(h) # K(i) PROVE new[Marked(K(i))] = V(i)
        <5>1. a >= i /\ b > i
          BY <2>1, <3>1, <4>1, <4>2, <4>3
        <5>2. Twice(i, b)
          BY <3>1, <4>1, <4>2, <5>1
        <5>3. q[Marked(K(i))] = V(i)
          BY <1>1, <2>1, <4>3, <5>2
        <5> QED
          BY <1>3, <2>1, <3>1, <3>2, <5>3
      <4> QED
        BY <1>3, <3>1, <4>3
    <3>3. CASE Marked(k) \notin DOMAIN q
      <4>1. \A a, b \in 1..n : Twice(a, b) => K(a) # k
        BY <1>1, <3>3
      <4>2. \A b \in (i + 1)..n : K(b) # K(i)
        BY <2>1, <3>1, <4>1
      <4>3. q[K(i)] = V(i)
        BY <1>1, <2>1, <4>2
      <4> QED
        BY <1>3, <3>1, <3>3, <4>3
    <3> QED
      BY <3>2, <3>3
  <2> QED
    BY <2>2, <2>3
<1> QED
  BY <1>6, <1>7, <1>8 DEF Dictionary, K, V, new

\* The dictionary a query is parsed into knows all its pairs.
LEMMA QueryIsDictionary ==
    ASSUME NEW link, Len(link.query) \in Nat, link.scheme # "vmess", Unmarked(link)
    PROVE  Dictionary(link, Query(link), Len(link.query))
<1> DEFINE n == Len(link.query)
<1>1. PICK g : Rounds(link, g, n) /\ Query(link) = g[n]
  BY QueryIsLast
<1> DEFINE S == {m \in 0..n : Dictionary(link, g[m], m)}
<1>2. g[0] = <<>> /\ \A m \in 0..(n - 1) : g[m + 1] = AddPair(g[m], link.query[m + 1])
  <2>1. g = [i \in 0..n |-> IF i = 0 THEN <<>> ELSE Round(link, g[i - 1], link.query[i])]
    BY <1>1 DEF Rounds
  <2> HIDE DEF n
  <2>2. n \in Nat
    BY DEF n
  <2>3. g[0] = <<>>
    BY <2>1, <2>2
  <2>4. ASSUME NEW m \in 0..(n - 1) PROVE g[m + 1] = AddPair(g[m], link.query[m + 1])
    <3>1. m + 1 \in 0..n /\ m + 1 # 0 /\ (m + 1) - 1 = m
      BY <2>2
    <3>2. g[m + 1] = Round(link, g[(m + 1) - 1], link.query[m + 1])
      BY <2>1, <3>1
    <3> QED
      BY <3>1, <3>2 DEF Round
  <2> QED
    BY <2>3, <2>4
<1>3. 0 \in S
  BY <1>2 DEF Dictionary
<1>4. ASSUME NEW m \in 0..(n - 1), m \in S PROVE m + 1 \in S
  <2>1. Dictionary(link, g[m], m) /\ m \in Nat /\ m + 1 <= n
    BY <1>4
  <2>2. Dictionary(link, AddPair(g[m], link.query[m + 1]), m + 1)
    BY <2>1, RoundRemembers
  <2> QED
    BY <1>2, <2>1, <2>2
<1>5. 0..n \subseteq S
  <2> HIDE DEF S
  <2> QED
    BY <1>3, <1>4, UpTo
<1> QED
  BY <1>1, <1>5

\* The values of a key: none when it is not given, otherwise the last value given
\* stands last and the first one first.
ValuesInOrder(link, key) ==
    LET n == Len(link.query)
        v == Values(link, key)
        K(i) == link.query[i][1]
    IN /\ Len(v) \in Nat /\ v = [i \in 1..Len(v) |-> v[i]]
       /\ Len(v) > 0 <=> \E i \in 1..n : K(i) = key
       /\ Len(v) > 1 <=> \E i, j \in 1..n : i < j /\ K(i) = key /\ K(j) = key
       /\ Len(v) > 0 => \E i \in 1..n : /\ K(i) = key /\ v[Len(v)] = link.query[i][2]
                                        /\ \A j \in (i + 1)..n : K(j) # key
       /\ Len(v) > 0 => \E i \in 1..n : /\ K(i) = key /\ v[1] = link.query[i][2]
                                        /\ \A j \in 1..(i - 1) : K(j) # key

\* What the reference picks out of the query is that.
LEMMA ValuesAre ==
    ASSUME NEW link, Len(link.query) \in Nat, DOMAIN link.query = 1..Len(link.query), NEW key
    PROVE  ValuesInOrder(link, key)
<1> DEFINE n == Len(link.query)
           s == link.query
           I == {i \in 1..n : s[i][1] = key}
           m == Cardinality(I)
           v == Values(link, key)
<1>1. PICK at : Places(at, s, I)
  BY PickedPositions
<1>2. /\ m \in Nat /\ Len(Picked(s, I)) = m /\ DOMAIN Picked(s, I) = 1..m
  BY PickedLength
<1>3. v = [p \in 1..m |-> Picked(s, I)[p][2]]
  BY <1>2 DEF Values
<1>4. /\ at \in [1..m -> I]
      /\ \A p \in 1..m : Picked(s, I)[p] = s[at[p]]
      /\ \A p, q \in 1..m : p < q => at[p] < at[q]
      /\ \A i \in I : \E p \in 1..m : at[p] = i
  BY <1>1 DEF Places
<1>5. /\ \A i \in I : i \in 1..n /\ s[i][1] = key
      /\ \A i \in 1..n : s[i][1] = key => i \in I
      /\ n \in Nat
  OBVIOUS
<1> HIDE DEF I, m, v
<1>6. Len(v) = m /\ v = [p \in 1..m |-> v[p]] /\ \A p \in 1..m : v[p] = s[at[p]][2]
  BY <1>2, <1>3, <1>4
<1>7. \A p \in 1..m : at[p] \in I
  BY <1>4
<1> HIDE DEF n, s
<1>8. m > 0 <=> \E i \in 1..n : s[i][1] = key
  <2>1. ASSUME m > 0 PROVE \E i \in 1..n : s[i][1] = key
    <3>1. at[1] \in I
      BY <1>2, <1>7, <2>1
    <3> QED
      BY <1>5, <3>1
  <2>2. ASSUME NEW i \in 1..n, s[i][1] = key PROVE m > 0
    BY <1>2, <1>4, <1>5, <2>2
  <2> QED
    BY <2>1, <2>2
<1>9. m > 1 <=> \E i, j \in 1..n : i < j /\ s[i][1] = key /\ s[j][1] = key
  <2>1. ASSUME m > 1 PROVE \E i, j \in 1..n : i < j /\ s[i][1] = key /\ s[j][1] = key
    <3>1. 1 \in 1..m /\ 2 \in 1..m
      BY <1>2, <2>1
    <3>2. at[1] \in I /\ at[2] \in I /\ at[1] < at[2]
      BY <1>4, <1>7, <3>1
    <3> QED
      BY <1>5, <3>2
  <2>2. ASSUME NEW i \in 1..n, NEW j \in 1..n, i < j, s[i][1] = key, s[j][1] = key
        PROVE  m > 1
    <3>1. i \in I /\ j \in I /\ i # j
      BY <1>5, <2>2
    <3>2. PICK p \in 1..m, q \in 1..m : at[p] = i /\ at[q] = j
      BY <1>4, <3>1
    <3> QED
      BY <1>2, <3>1, <3>2
  <2> QED
    BY <2>1, <2>2
<1>10. ASSUME m > 0
       PROVE  \E i \in 1..n : /\ s[i][1] = key /\ v[m] = s[i][2]
                              /\ \A j \in (i + 1)..n : s[j][1] # key
  <2>1. m \in 1..m
    BY <1>2, <1>10
  <2>2. at[m] \in 1..n /\ s[at[m]][1] = key /\ v[m] = s[at[m]][2]
    BY <1>5, <1>6, <1>7, <2>1
  <2>3. ASSUME NEW j \in (at[m] + 1)..n PROVE s[j][1] # key
    <3>1. j \in 1..n /\ at[m] < j
      BY <1>5, <2>2
    <3>2. SUFFICES ASSUME j \in I PROVE FALSE
      BY <1>5, <3>1
    <3>3. PICK p \in 1..m : at[p] = j
      BY <1>4, <3>2
    <3>4. p = m \/ p < m
      BY <1>2, <3>3
    <3>5. at[p] <= at[m]
      BY <1>4, <2>1, <2>2, <3>1, <3>3, <3>4
    <3> QED
      BY <2>2, <3>1, <3>3, <3>5
  <2> QED
    BY <2>2, <2>3
<1>11. ASSUME m > 0
       PROVE  \E i \in 1..n : /\ s[i][1] = key /\ v[1] = s[i][2]
                              /\ \A j \in 1..(i - 1) : s[j][1] # key
  <2>1. 1 \in 1..m
    BY <1>2, <1>11
  <2>2. at[1] \in 1..n /\ s[at[1]][1] = key /\ v[1] = s[at[1]][2]
    BY <1>5, <1>6, <1>7, <2>1
  <2>3. ASSUME NEW j \in 1..(at[1] - 1) PROVE s[j][1] # key
    <3>1. j \in 1..n /\ j < at[1]
      BY <1>5, <2>2
    <3>2. SUFFICES ASSUME j \in I PROVE FALSE
      BY <1>5, <3>1
    <3>3. PICK p \in 1..m : at[p] = j
      BY <1>4, <3>2
    <3>4. p = 1 \/ 1 < p
      BY <1>2, <3>3
    <3>5. at[1] <= at[p]
      BY <1>4, <2>1, <2>2, <3>1, <3>3, <3>4
    <3> QED
      BY <2>2, <3>1, <3>3, <3>5
  <2> QED
    BY <2>2, <2>3
<1> QED
  BY <1>2, <1>6, <1>8, <1>9, <1>10, <1>11 DEF n, s, v, ValuesInOrder

\* Two names without a mark are told apart by their marked keys, and no marked key
\* is the key of such a name.
LEMMA MarksApart ==
    ASSUME NEW link, Unmarked(link), Len(link.query) \in Nat, DOMAIN link.query = 1..Len(link.query)
    PROVE  /\ \A k \in Keys(link) : k = Key(k[1])
           /\ \A k, l \in Keys(link) : Marked(k) # l /\ (Marked(k) = Marked(l) => k = l)
<1>1. ASSUME NEW k \in Keys(link) PROVE k = Key(k[1])
  BY DEF Keys, Unmarked
<1>2. ASSUME NEW k \in Keys(link), NEW l \in Keys(link)
      PROVE  Marked(k) # l /\ (Marked(k) = Marked(l) => k = l)
  <2>1. k = <<k[1], 0>> /\ l = <<l[1], 0>>
    BY <1>1 DEF Key
  <2>2. k[2] = 0 /\ l[2] = 0
    BY <2>1
  <2>3. Marked(k) = <<k[1], 1>> /\ Marked(l) = <<l[1], 1>>
    BY <2>2 DEF Marked
  <2> QED
    BY <2>1, <2>3
<1> QED
  BY <1>1, <1>2

\* parse_query loses nothing but what lies between the first and the last value:
\* the dictionary has the last value of every name and, under the marked key, the
\* first value of every name that is given more than once, and it has no more.
THEOREM QueryRemembers ==
    ASSUME NEW link, IsLink(link), link.scheme # "vmess", Unmarked(link)
    PROVE  LET q == Query(link)
               Last(k) == Values(link, k)[Len(Values(link, k))]
               Repeated == {k \in Keys(link) : Len(Values(link, k)) > 1}
           IN /\ DOMAIN q = Keys(link) \cup {Marked(k) : k \in Repeated}
              /\ \A k \in Keys(link) : q[k] = Last(k)
              /\ \A k \in Repeated : q[Marked(k)] = Values(link, k)[1]
<1> DEFINE n == Len(link.query)
           q == Query(link)
           K(i) == link.query[i][1]
           v(k) == Values(link, k)
           Repeated == {k \in Keys(link) : Len(v(k)) > 1}
<1>1. n \in Nat /\ DOMAIN link.query = 1..n
  BY DEF IsLink
<1>2. Keys(link) = {K(i) : i \in 1..n}
  BY <1>1 DEF Keys
<1>3. /\ \A k \in DOMAIN q : \/ \E i \in 1..n : k = K(i)
                            \/ \E i, j \in 1..n : i < j /\ K(i) = K(j) /\ k = Marked(K(i))
      /\ \A i \in 1..n : /\ K(i) \in DOMAIN q
                         /\ (\A j \in (i + 1)..n : K(j) # K(i)) => q[K(i)] = link.query[i][2]
      /\ \A i, j \in 1..n : i < j /\ K(i) = K(j) =>
            /\ Marked(K(i)) \in DOMAIN q
            /\ (\A h \in 1..(i - 1) : K(h) # K(i)) => q[Marked(K(i))] = link.query[i][2]
  BY <1>1, QueryIsDictionary DEF Dictionary
<1>4. ASSUME NEW k
      PROVE  /\ Len(v(k)) \in Nat
             /\ Len(v(k)) > 0 <=> \E i \in 1..n : K(i) = k
             /\ Len(v(k)) > 1 <=> \E i, j \in 1..n : i < j /\ K(i) = k /\ K(j) = k
             /\ Len(v(k)) > 0 => \E i \in 1..n : /\ K(i) = k /\ v(k)[Len(v(k))] = link.query[i][2]
                                                 /\ \A j \in (i + 1)..n : K(j) # k
             /\ Len(v(k)) > 0 => \E i \in 1..n : /\ K(i) = k /\ v(k)[1] = link.query[i][2]
                                                 /\ \A j \in 1..(i - 1) : K(j) # k
  <2>1. ValuesInOrder(link, k)
    BY <1>1, ValuesAre
  <2> QED
    BY <2>1 DEF ValuesInOrder
<1> HIDE DEF n, q, K, v
<1>5. \A k \in Keys(link) : Len(v(k)) > 0
  BY <1>2, <1>4
<1>6. ASSUME NEW k \in Keys(link)
      PROVE  k \in DOMAIN q /\ q[k] = v(k)[Len(v(k))]
  <2>1. PICK i \in 1..n : /\ K(i) = k /\ v(k)[Len(v(k))] = link.query[i][2]
                          /\ \A j \in (i + 1)..n : K(j) # k
    BY <1>4, <1>5
  <2> QED
    BY <1>3, <2>1
<1>7. ASSUME NEW k \in Repeated
      PROVE  Marked(k) \in DOMAIN q /\ q[Marked(k)] = v(k)[1]
  <2>1. Len(v(k)) > 0 /\ Len(v(k)) > 1
    BY <1>4
  <2>2. PICK i \in 1..n : /\ K(i) = k /\ v(k)[1] = link.query[i][2]
                          /\ \A j \in 1..(i - 1) : K(j) # k
    BY <1>4, <2>1
  <2>3. PICK a \in 1..n, b \in 1..n : a < b /\ K(a) = k /\ K(b) = k
    BY <1>4, <2>1
  <2>4. i < b
    BY <1>1, <2>2, <2>3
  <2> QED
    BY <1>3, <2>2, <2>3, <2>4
<1>8. ASSUME NEW k \in DOMAIN q
      PROVE  k \in Keys(link) \/ \E l \in Repeated : k = Marked(l)
  <2>1. CASE \E i \in 1..n : k = K(i)
    BY <1>2, <2>1
  <2>2. CASE \E i, j \in 1..n : i < j /\ K(i) = K(j) /\ k = Marked(K(i))
    <3>1. PICK i \in 1..n, j \in 1..n : i < j /\ K(i) = K(j) /\ k = Marked(K(i))
      BY <2>2
    <3>2. K(i) \in Keys(link)
      BY <1>2
    <3>3. Len(v(K(i))) > 1
      BY <1>4, <3>1
    <3> QED
      BY <3>1, <3>2, <3>3
  <2> QED
    BY <1>3, <2>1, <2>2
<1>9. DOMAIN q = Keys(link) \cup {Marked(k) : k \in Repeated}
  <2> HIDE DEF Repeated
  <2> QED
    BY <1>6, <1>7, <1>8
<1> QED
  BY <1>6, <1>7, <1>9 DEF q, v

-----------------------------------------------------------------------------
(* Careful links *)

\* A name of a careful link is not given, or given once, or given twice.
GivenUpTo2(link, q, name) ==
    LET k == Key(name)
        v == Values(link, k)
    IN \/ v = <<>> /\ k \notin DOMAIN q /\ Marked(k) \notin DOMAIN q
       \/ k \in DOMAIN q /\ Marked(k) \notin DOMAIN q /\ v = <<q[k]>>
       \/ k \in DOMAIN q /\ Marked(k) \in DOMAIN q /\ v = <<q[Marked(k)], q[k]>>

\* The dictionary of a careful link holds all the values of its names.
LEMMA CarefulQuery ==
    ASSUME NEW link, IsLink(link), Careful(link)
    PROVE  LET q == Query(link)
           IN /\ \A name : GivenUpTo2(link, q, name)
              /\ \A name : Key(name) \in DOMAIN q <=> Key(name) \in Keys(link)
              /\ \A k \in Keys(link) : k = Key(k[1])
              /\ \A x \in DOMAIN q : \E name : x = Key(name) \/ x = Marked(Key(name))
<1> DEFINE q == Query(link)
           Repeated == {k \in Keys(link) : Len(Values(link, k)) > 1}
<1>1. /\ Len(link.query) \in Nat /\ DOMAIN link.query = 1..Len(link.query)
      /\ link.scheme # "vmess"
  BY DEF IsLink, Careful
<1>2. Unmarked(link)
  <2>1. ASSUME NEW k \in Keys(link) PROVE k = Key(k[1])
    <3>1. k = <<k[1], k[2]>> /\ k[2] = 0
      BY DEF IsLink, Careful
    <3> QED
      BY <3>1 DEF Key
  <2>2. \A i \in 1..Len(link.query) : link.query[i][1] \in Keys(link)
    BY <1>1 DEF Keys
  <2> QED
    BY <2>1, <2>2 DEF Unmarked
<1>3. /\ DOMAIN q = Keys(link) \cup {Marked(k) : k \in Repeated}
      /\ \A k \in Keys(link) : q[k] = Values(link, k)[Len(Values(link, k))]
      /\ \A k \in Repeated : q[Marked(k)] = Values(link, k)[1]
  BY <1>1, <1>2, QueryRemembers
<1>4. /\ \A k \in Keys(link) : k = Key(k[1])
      /\ \A k, l \in Keys(link) : Marked(k) # l /\ (Marked(k) = Marked(l) => k = l)
  BY <1>1, <1>2, MarksApart
<1> HIDE DEF q
<1>5. ASSUME NEW name
      PROVE  /\ GivenUpTo2(link, q, name)
             /\ Key(name) \in DOMAIN q <=> Key(name) \in Keys(link)
  <2> DEFINE k == Key(name)
             v == Values(link, k)
  <2>1. /\ Len(v) \in Nat /\ v = [i \in 1..Len(v) |-> v[i]]
        /\ Len(v) > 0 <=> k \in Keys(link)
    <3>1. ValuesInOrder(link, k)
      BY <1>1, ValuesAre
    <3>2. k \in Keys(link) <=> \E i \in 1..Len(link.query) : link.query[i][1] = k
      BY <1>1 DEF Keys
    <3> QED
      BY <3>1, <3>2 DEF ValuesInOrder
  <2>2. k[1] = name /\ k = <<k[1], 0>> /\ Marked(k) = <<k[1], 1>>
    BY DEF Key, Marked
  <2>3. \A l \in Keys(link) : l = <<l[1], 0>> /\ Marked(l) = <<l[1], 1>>
    <3>1. ASSUME NEW l \in Keys(link) PROVE l = <<l[1], 0>>
      BY <1>4 DEF Key
    <3>2. ASSUME NEW l \in Keys(link) PROVE Marked(l) = <<l[1], 1>>
      BY <3>1 DEF Marked
    <3> QED
      BY <3>1, <3>2
  <2> HIDE DEF k, v
  <2>4. k \in DOMAIN q <=> k \in Keys(link)
    <3>1. \A l \in Keys(link) : k # Marked(l)
      BY <2>2, <2>3
    <3> QED
      BY <1>3, <3>1
  <2>5. Marked(k) \in DOMAIN q <=> k \in Repeated
    <3>1. \A l \in Keys(link) : Marked(k) # l /\ (Marked(k) = Marked(l) => k = l)
      BY <2>2, <2>3
    <3> QED
      BY <1>3, <3>1
  <2>6. CASE k \notin Keys(link)
    <3>1. v = <<>>
      BY <2>1, <2>6
    <3> QED
      BY <2>4, <2>5, <2>6, <3>1 DEF GivenUpTo2, k, v
  <2>7. CASE k \in Keys(link)
    <3>1. Len(v) <= 2 /\ (k \in Repeated <=> Len(v) > 1) /\ q[k] = v[Len(v)]
      BY <1>3, <2>7 DEF Careful, v
    <3>2. CASE Len(v) = 1
      <4>1. v = <<q[k]>>
        BY <2>1, <3>1, <3>2
      <4> QED
        BY <2>4, <2>5, <2>7, <3>1, <3>2, <4>1 DEF GivenUpTo2, k, v
    <3>3. CASE Len(v) = 2
      <4>1. q[Marked(k)] = v[1]
        BY <1>3, <3>1, <3>3 DEF v
      <4>2. v = <<q[Marked(k)], q[k]>>
        BY <2>1, <3>1, <3>3, <4>1
      <4> QED
        BY <2>4, <2>5, <2>7, <3>1, <3>3, <4>2 DEF GivenUpTo2, k, v
    <3> QED
      BY <2>1, <2>4, <2>7, <3>1, <3>2, <3>3 DEF k
  <2> QED
    BY <2>4, <2>6, <2>7 DEF k
<1>6. ASSUME NEW x \in DOMAIN q
      PROVE  \E name : x = Key(name) \/ x = Marked(Key(name))
  <2>1. CASE x \in Keys(link)
    BY <1>4, <2>1
  <2>2. CASE \E k \in Repeated : x = Marked(k)
    <3>1. PICK k \in Keys(link) : x = Marked(k)
      BY <2>2
    <3>2. x = Marked(Key(k[1]))
      BY <1>4, <3>1
    <3> QED
      BY <3>2
  <2> QED
    BY <1>3, <2>1, <2>2
<1> QED
  BY <1>4, <1>5, <1>6 DEF q

\* A name in the dictionary of a careful link, as a sequence: its first value if it
\* is given twice, and x for its last one.
Form(q, name, x, given) ==
    IF Marked(Key(name)) \in DOMAIN q THEN <<q[Marked(Key(name))], x>>
    ELSE IF given THEN <<x>> ELSE <<>>

\* The transport of a known label, any other label itself.
Label(v) == IF TransportOf(v) = "unknown" THEN v ELSE TransportOf(v)

\* The names a careful link does not have.
Shunned == {"allowinsecure", "insecure", "net", "fingerprint"}

\* A key tells its name, and whether it is marked.
LEMMA KeysApart ==
    ASSUME NEW m, NEW n
    PROVE  /\ Key(m) = Key(n) <=> m = n
           /\ Marked(Key(m)) = Marked(Key(n)) <=> m = n
           /\ Marked(Key(m)) # Key(n)
<1>1. Key(m) = <<m, 0>> /\ Key(n) = <<n, 0>>
  BY DEF Key
<1>2. Marked(Key(m)) = <<m, 1>> /\ Marked(Key(n)) = <<n, 1>>
  BY <1>1 DEF Marked
<1> QED
  BY <1>1, <1>2

\* What a careful link says under a name is read off its dictionary.
LEMMA SaysIs ==
    ASSUME NEW link, IsLink(link), Careful(link), NEW name
    PROVE  LET q == Query(link)
               s == Says(link, Key(name))
               known == Dropped \cup Named(link.scheme)
           IN /\ name = "security" => s = Form(q, name, SecurityOf(q), SecurityOf(q) # "unknown")
              /\ name = "type" => s = Form(q, name, Label(Get(q, name)), Given(q, name))
              /\ name \in known \ {"security", "type"} =>
                    s = Form(q, name, Get(q, name), Given(q, name))
              /\ name \notin known =>
                    s = Form(q, name, Get(q, name), Key(name) \in DOMAIN q)
<1> DEFINE q == Query(link)
           k == Key(name)
           v == Values(link, k)
           s == Says(link, k)
           known == Dropped \cup Named(link.scheme)
           empty == v = <<"">> /\ name \in known
           Same(i) == name = "type" /\ i = Len(v) /\ TransportOf(v[i]) # "unknown"
           said == [i \in 1..Len(v) |-> IF Same(i) THEN TransportOf(v[i]) ELSE v[i]]
<1>1. s = IF empty THEN <<>>
          ELSE IF name = "security" /\ v = <<>> /\ Keyed(link) THEN <<"reality">>
          ELSE said
  <2>1. k \in {Key(n) : n \in known} <=> name \in known
    BY KeysApart
  <2>2. /\ k = Key("type") <=> name = "type"
        /\ k = Key("security") <=> name = "security"
    BY KeysApart
  <2> QED
    BY <2>1, <2>2 DEF Says
<1>2. /\ v = <<>> => said = <<>>
      /\ \A a : v = <<a>> => said = IF name = "type" THEN <<Label(a)>> ELSE <<a>>
      /\ \A a, b : v = <<a, b>> => said = IF name = "type" THEN <<a, Label(b)>> ELSE <<a, b>>
  <2>1. v = <<>> => said = <<>>
    OBVIOUS
  <2>2. ASSUME NEW a, v = <<a>>
        PROVE  said = IF name = "type" THEN <<Label(a)>> ELSE <<a>>
    BY <2>2 DEF Label
  <2>3. ASSUME NEW a, NEW b, v = <<a, b>>
        PROVE  said = IF name = "type" THEN <<a, Label(b)>> ELSE <<a, b>>
    BY <2>3 DEF Label
  <2> QED
    BY <2>1, <2>2, <2>3
<1>3. \/ v = <<>> /\ k \notin DOMAIN q /\ Marked(k) \notin DOMAIN q
      \/ k \in DOMAIN q /\ Marked(k) \notin DOMAIN q /\ v = <<q[k]>>
      \/ k \in DOMAIN q /\ Marked(k) \in DOMAIN q /\ v = <<q[Marked(k)], q[k]>>
  BY CarefulQuery DEF GivenUpTo2
<1>4. Get(q, name) = (IF k \in DOMAIN q THEN q[k] ELSE "") /\ (Given(q, name) <=> Get(q, name) # "")
  BY DEF Get, Given
<1>5. \A x, b : Form(q, name, x, b) = IF Marked(k) \in DOMAIN q THEN <<q[Marked(k)], x>>
                                    ELSE IF b THEN <<x>> ELSE <<>>
  BY DEF Form
<1>e. /\ v = <<>> => ~empty
      /\ \A a : v = <<a>> => (empty <=> a = "" /\ name \in known)
      /\ \A a, b : v = <<a, b>> => ~empty
  <2> HIDE DEF v
  <2>1. v = <<>> => v # <<"">>
    OBVIOUS
  <2>2. ASSUME NEW a, v = <<a>> PROVE v = <<"">> <=> a = ""
    BY <2>2
  <2>3. ASSUME NEW a, NEW b, v = <<a, b>> PROVE v # <<"">>
    BY <2>3
  <2> QED
    BY <2>1, <2>2, <2>3
<1> HIDE DEF q, k, v, s, said, known, empty
<1>6. name = "security" => s = Form(q, name, SecurityOf(q), SecurityOf(q) # "unknown")
  <2> SUFFICES ASSUME name = "security" PROVE s = Form(q, name, SecurityOf(q), SecurityOf(q) # "unknown")
    OBVIOUS
  <2>1. \A i \in DOMAIN v : v[i] \in {"tls", "reality", "none"}
    BY DEF Careful, v, k
  <2>2. name \in known /\ name # "type"
    BY DEF Dropped, known
  <2>3. Keyed(link) <=> Given(q, "pbk") \/ Given(q, "sid")
    <3>1. ASSUME NEW n PROVE Tells(link, Key(n)) <=> Given(q, n)
      <4>1. GivenUpTo2(link, q, n)
        BY CarefulQuery DEF q
      <4> DEFINE x == Key(n)
                 w == Values(link, x)
      <4>t. /\ Tells(link, x) <=> w # <<>> /\ w[Len(w)] # ""
            /\ Given(q, n) <=> (IF x \in DOMAIN q THEN q[x] ELSE "") # ""
        BY DEF Tells, Given, Get
      <4> HIDE DEF x, w
      <4>2. CASE w = <<>> /\ x \notin DOMAIN q
        BY <4>2, <4>t DEF x
      <4>3. CASE w = <<q[x]>> /\ x \in DOMAIN q
        <5>1. Len(w) = 1 /\ w[1] = q[x] /\ w # <<>>
          BY <4>3
        <5> QED
          BY <4>3, <4>t, <5>1 DEF x
      <4>4. CASE w = <<q[Marked(x)], q[x]>> /\ x \in DOMAIN q
        <5>1. Len(w) = 2 /\ w[2] = q[x] /\ w # <<>>
          BY <4>4
        <5> QED
          BY <4>4, <4>t, <5>1 DEF x
      <4> QED
        BY <4>1, <4>2, <4>3, <4>4 DEF GivenUpTo2, x, w
    <3> QED
      BY <3>1 DEF Keyed
  <2>4. CASE k \in DOMAIN q
    <3>1. q[k] \in {"tls", "reality", "none"}
      <4>1. CASE v = <<q[k]>>
        BY <2>1, <4>1
      <4>2. CASE v = <<q[Marked(k)], q[k]>>
        BY <2>1, <4>2
      <4> QED
        BY <1>3, <2>4, <4>1, <4>2
    <3>2. SecurityOf(q) = q[k]
      BY <2>4, <3>1, <1>4 DEF SecurityOf, Given, Get, k
    <3>3. ~empty /\ v # <<>>
      <4>1. CASE v = <<q[k]>>
        BY <3>1, <4>1, <1>e
      <4>2. CASE v = <<q[Marked(k)], q[k]>>
        BY <4>2, <1>e
      <4> QED
        BY <1>3, <2>4, <4>1, <4>2
    <3> QED
      BY <1>1, <1>2, <1>3, <1>5, <2>2, <2>4, <3>1, <3>2, <3>3
  <2>5. CASE k \notin DOMAIN q
    <3>1. v = <<>> /\ Marked(k) \notin DOMAIN q /\ ~empty
      BY <1>3, <1>e, <2>5
    <3>2. ~Given(q, "security")
      BY <1>4, <2>5
    <3>3. SecurityOf(q) = IF Keyed(link) THEN "reality" ELSE "unknown"
      BY <2>3, <3>2 DEF SecurityOf
    <3> QED
      BY <1>1, <1>2, <1>5, <3>1, <3>3
  <2> QED
    BY <2>4, <2>5
<1>7. name = "type" => s = Form(q, name, Label(Get(q, name)), Given(q, name))
  <2> SUFFICES ASSUME name = "type" PROVE s = Form(q, name, Label(Get(q, name)), Given(q, name))
    OBVIOUS
  <2>1. name \in known /\ name # "security"
    BY DEF Dropped, known
  <2>2. ~empty => s = said
    BY <1>1, <2>1
  <2>3. CASE v = <<>>
    BY <1>1, <1>2, <1>3, <1>4, <1>5, <1>e, <2>1, <2>3
  <2>4. CASE v = <<q[k]>> /\ k \in DOMAIN q /\ Marked(k) \notin DOMAIN q
    BY <1>1, <1>2, <1>4, <1>5, <1>e, <2>1, <2>4
  <2>5. CASE v = <<q[Marked(k)], q[k]>> /\ k \in DOMAIN q /\ Marked(k) \in DOMAIN q
    <3>1. s = said /\ said = <<q[Marked(k)], Label(q[k])>>
      BY <1>2, <1>e, <2>2, <2>5
    <3>2. Get(q, name) = q[k]
      BY <1>4, <2>5
    <3> QED
      BY <1>5, <2>5, <3>1, <3>2
  <2> QED
    BY <1>3, <2>3, <2>4, <2>5
<1>8. name \in known \ {"security", "type"} => s = Form(q, name, Get(q, name), Given(q, name))
  <2> SUFFICES ASSUME name \in known, name # "security", name # "type"
               PROVE  s = Form(q, name, Get(q, name), Given(q, name))
    OBVIOUS
  <2>3. CASE v = <<>>
    BY <1>1, <1>2, <1>3, <1>4, <1>5, <1>e, <2>3
  <2>4. CASE v = <<q[k]>> /\ k \in DOMAIN q /\ Marked(k) \notin DOMAIN q
    BY <1>1, <1>2, <1>4, <1>5, <1>e, <2>4
  <2>5. CASE v = <<q[Marked(k)], q[k]>> /\ k \in DOMAIN q /\ Marked(k) \in DOMAIN q
    BY <1>1, <1>2, <1>4, <1>5, <1>e, <2>5
  <2> QED
    BY <1>3, <2>3, <2>4, <2>5
<1>9. name \notin known => s = Form(q, name, Get(q, name), Key(name) \in DOMAIN q)
  <2> SUFFICES ASSUME name \notin known
               PROVE  s = Form(q, name, Get(q, name), k \in DOMAIN q)
    BY DEF k
  <2>1. name # "security" /\ name # "type"
    BY DEF Dropped, known
  <2>3. CASE v = <<>>
    BY <1>1, <1>2, <1>3, <1>4, <1>5, <1>e, <2>1, <2>3
  <2>4. CASE v = <<q[k]>> /\ k \in DOMAIN q /\ Marked(k) \notin DOMAIN q
    BY <1>1, <1>2, <1>4, <1>5, <1>e, <2>1, <2>4
  <2>5. CASE v = <<q[Marked(k)], q[k]>> /\ k \in DOMAIN q /\ Marked(k) \in DOMAIN q
    BY <1>1, <1>2, <1>4, <1>5, <1>e, <2>1, <2>5
  <2> QED
    BY <1>3, <2>3, <2>4, <2>5
<1> QED
  BY <1>6, <1>7, <1>8, <1>9 DEF q, k, s, known

-----------------------------------------------------------------------------
(* Two careful links of one protocol *)

\* A name is given twice in both or in neither, with the same first value.
SameFirst(q, r, name) ==
    LET k == Marked(Key(name))
    IN (k \in DOMAIN q <=> k \in DOMAIN r) /\ (k \in DOMAIN q => q[k] = r[k])

\* A name has the same last value in both, or is in neither.
SameLast(q, r, name) ==
    LET k == Key(name)
    IN (k \in DOMAIN q <=> k \in DOMAIN r) /\ (k \in DOMAIN q => q[k] = r[k])

\* What a node keeps of a query is the same.
SameQuery(scheme, q, r) ==
    LET known == Dropped \cup Named(scheme)
    IN /\ \A name : SameFirst(q, r, name)
       /\ \A name : name \notin known => SameLast(q, r, name)
       /\ SecurityOf(q) = SecurityOf(r)
       /\ Label(Get(q, "type")) = Label(Get(r, "type"))
       /\ \A name \in known \ {"security", "type"} : Get(q, name) = Get(r, name)

\* Two names read as sequences are the same if their parts are.
LEMMA SameForm ==
    ASSUME NEW q, NEW r, NEW name, NEW x, NEW y, NEW g \in BOOLEAN, NEW h \in BOOLEAN
    PROVE  Form(q, name, x, g) = Form(r, name, y, h) <=>
              /\ SameFirst(q, r, name)
              /\ IF Marked(Key(name)) \in DOMAIN q THEN x = y ELSE (g <=> h) /\ (g => x = y)
<1> DEFINE k == Marked(Key(name))
<1>1. /\ Form(q, name, x, g) = IF k \in DOMAIN q THEN <<q[k], x>> ELSE IF g THEN <<x>> ELSE <<>>
      /\ Form(r, name, y, h) = IF k \in DOMAIN r THEN <<r[k], y>> ELSE IF h THEN <<y>> ELSE <<>>
  BY DEF Form
<1>2. SameFirst(q, r, name) <=>
         (k \in DOMAIN q <=> k \in DOMAIN r) /\ (k \in DOMAIN q => q[k] = r[k])
  BY DEF SameFirst
<1>3. \A a, b, c, d : /\ <<a, b>> = <<c, d>> <=> a = c /\ b = d
                      /\ <<a>> = <<c>> <=> a = c
                      /\ <<a, b>> # <<c>> /\ <<a, b>> # <<>> /\ <<a>> # <<>>
  OBVIOUS
<1> HIDE DEF k
<1>4. CASE k \in DOMAIN q /\ k \in DOMAIN r
  BY <1>1, <1>2, <1>3, <1>4 DEF k
<1>5. CASE k \in DOMAIN q /\ k \notin DOMAIN r
  BY <1>1, <1>2, <1>3, <1>5 DEF k
<1>6. CASE k \notin DOMAIN q /\ k \in DOMAIN r
  BY <1>1, <1>2, <1>3, <1>6 DEF k
<1>7. CASE k \notin DOMAIN q /\ k \notin DOMAIN r
  BY <1>1, <1>2, <1>3, <1>7 DEF k
<1> QED
  BY <1>4, <1>5, <1>6, <1>7

\* The label of a transport says which one it is and, if that is unknown, what was
\* written; an empty label is one of its own.
LEMMA Labels ==
    ASSUME NEW v, NEW w
    PROVE  /\ Label(v) = "" <=> v = ""
           /\ Label(v) = Label(w) <=>
                 /\ TransportOf(v) = TransportOf(w)
                 /\ TransportOf(v) = "unknown" => v = w
<1>1. \A u : /\ TransportOf(u) \in {"tcp", "ws", "grpc", "xhttp", "h2", "quic", "unknown"}
             /\ u \in {"tcp", "ws", "grpc", "xhttp", "h2", "quic"} => TransportOf(u) = u
             /\ u = "" => TransportOf(u) = "unknown"
  BY DEF TransportOf
<1> QED
  BY <1>1 DEF Label

\* Two careful links say the same under every name if and only if what a node
\* keeps of their queries is the same.
LEMMA SaysAlike ==
    ASSUME NEW a, IsLink(a), Careful(a), NEW b, IsLink(b), Careful(b), a.scheme = b.scheme
    PROVE  (\A name : Says(a, Key(name)) = Says(b, Key(name)))
              <=> SameQuery(a.scheme, Query(a), Query(b))
<1> DEFINE q == Query(a)
           r == Query(b)
           known == Dropped \cup Named(a.scheme)
           Twice(name) == Marked(Key(name)) \in DOMAIN q
           Alike(name) == Says(a, Key(name)) = Says(b, Key(name))
<1>1. \A name : /\ Marked(Key(name)) \in DOMAIN q => Key(name) \in DOMAIN q
                /\ Marked(Key(name)) \in DOMAIN r => Key(name) \in DOMAIN r
  BY CarefulQuery DEF GivenUpTo2
<1>2. ASSUME NEW name
      PROVE  /\ name = "security" =>
                  /\ Says(a, Key(name)) = Form(q, name, SecurityOf(q), SecurityOf(q) # "unknown")
                  /\ Says(b, Key(name)) = Form(r, name, SecurityOf(r), SecurityOf(r) # "unknown")
             /\ name = "type" =>
                  /\ Says(a, Key(name)) = Form(q, name, Label(Get(q, name)), Given(q, name))
                  /\ Says(b, Key(name)) = Form(r, name, Label(Get(r, name)), Given(r, name))
             /\ name \in known \ {"security", "type"} =>
                  /\ Says(a, Key(name)) = Form(q, name, Get(q, name), Given(q, name))
                  /\ Says(b, Key(name)) = Form(r, name, Get(r, name), Given(r, name))
             /\ name \notin known =>
                  /\ Says(a, Key(name)) = Form(q, name, Get(q, name), Key(name) \in DOMAIN q)
                  /\ Says(b, Key(name)) = Form(r, name, Get(r, name), Key(name) \in DOMAIN r)
  <2>1. /\ name = "security" => Says(a, Key(name)) = Form(q, name, SecurityOf(q), SecurityOf(q) # "unknown")
        /\ name = "type" => Says(a, Key(name)) = Form(q, name, Label(Get(q, name)), Given(q, name))
        /\ name \in known \ {"security", "type"} => Says(a, Key(name)) = Form(q, name, Get(q, name), Given(q, name))
        /\ name \notin known => Says(a, Key(name)) = Form(q, name, Get(q, name), Key(name) \in DOMAIN q)
    BY SaysIs
  <2>2. /\ name = "security" => Says(b, Key(name)) = Form(r, name, SecurityOf(r), SecurityOf(r) # "unknown")
        /\ name = "type" => Says(b, Key(name)) = Form(r, name, Label(Get(r, name)), Given(r, name))
        /\ name \in known \ {"security", "type"} => Says(b, Key(name)) = Form(r, name, Get(r, name), Given(r, name))
        /\ name \notin known => Says(b, Key(name)) = Form(r, name, Get(r, name), Key(name) \in DOMAIN r)
    BY SaysIs
  <2> QED
    BY <2>1, <2>2
<1>3. \A name : /\ Given(q, name) <=> Get(q, name) # ""
                /\ Given(r, name) <=> Get(r, name) # ""
                /\ Get(q, name) = IF Key(name) \in DOMAIN q THEN q[Key(name)] ELSE ""
                /\ Get(r, name) = IF Key(name) \in DOMAIN r THEN r[Key(name)] ELSE ""
  BY DEF Given, Get
<1>d. \A name : SameFirst(q, r, name) <=>
                  /\ Twice(name) <=> Marked(Key(name)) \in DOMAIN r
                  /\ Twice(name) => q[Marked(Key(name))] = r[Marked(Key(name))]
  BY DEF SameFirst
<1> HIDE DEF q, r, known
<1>4. Alike("security") <=> SameFirst(q, r, "security") /\ SecurityOf(q) = SecurityOf(r)
  <2>1. \A g, h \in BOOLEAN :
          Form(q, "security", SecurityOf(q), g) = Form(r, "security", SecurityOf(r), h) <=>
            /\ SameFirst(q, r, "security")
            /\ IF Twice("security") THEN SecurityOf(q) = SecurityOf(r)
               ELSE (g <=> h) /\ (g => SecurityOf(q) = SecurityOf(r))
    BY SameForm
  <2> QED
    BY <2>1, <1>2
<1>5. Alike("type") <=> SameFirst(q, r, "type") /\ Label(Get(q, "type")) = Label(Get(r, "type"))
  <2>1. /\ Given(q, "type") <=> Label(Get(q, "type")) # ""
        /\ Given(r, "type") <=> Label(Get(r, "type")) # ""
    BY <1>3, Labels
  <2> DEFINE x == Label(Get(q, "type"))
             y == Label(Get(r, "type"))
  <2>2. \A g, h \in BOOLEAN :
          Form(q, "type", x, g) = Form(r, "type", y, h) <=>
            /\ SameFirst(q, r, "type")
            /\ IF Twice("type") THEN x = y ELSE (g <=> h) /\ (g => x = y)
    BY SameForm
  <2>3. /\ Alike("type") <=> Form(q, "type", x, Given(q, "type")) = Form(r, "type", y, Given(r, "type"))
        /\ Given(q, "type") \in BOOLEAN /\ Given(r, "type") \in BOOLEAN
    BY <1>2 DEF Given
  <2> HIDE DEF x, y
  <2> QED
    BY <2>1, <2>2, <2>3 DEF x, y
<1>6. ASSUME NEW name \in known \ {"security", "type"}
      PROVE  Alike(name) <=> SameFirst(q, r, name) /\ Get(q, name) = Get(r, name)
  <2>1. \A g, h \in BOOLEAN :
          Form(q, name, Get(q, name), g) = Form(r, name, Get(r, name), h) <=>
            /\ SameFirst(q, r, name)
            /\ IF Twice(name) THEN Get(q, name) = Get(r, name)
               ELSE (g <=> h) /\ (g => Get(q, name) = Get(r, name))
    BY SameForm
  <2>2. /\ Alike(name) <=> Form(q, name, Get(q, name), Given(q, name)) = Form(r, name, Get(r, name), Given(r, name))
        /\ Given(q, name) \in BOOLEAN /\ Given(r, name) \in BOOLEAN
    BY <1>2 DEF Given
  <2> QED
    BY <2>1, <2>2, <1>3
<1>7. ASSUME NEW name, name \notin known
      PROVE  Alike(name) <=> SameFirst(q, r, name) /\ SameLast(q, r, name)
  <2> DEFINE x == Get(q, name)
             y == Get(r, name)
             g == Key(name) \in DOMAIN q
             h == Key(name) \in DOMAIN r
  <2>1. g \in BOOLEAN /\ h \in BOOLEAN
    OBVIOUS
  <2>2. Alike(name) <=> Form(q, name, x, g) = Form(r, name, y, h)
    BY <1>2, <1>7
  <2>3. /\ SameLast(q, r, name) <=> (g <=> h) /\ (g => q[Key(name)] = r[Key(name)])
        /\ g => x = q[Key(name)]
        /\ h => y = r[Key(name)]
        /\ Twice(name) => g
        /\ SameFirst(q, r, name) /\ Twice(name) => h
    BY <1>1, <1>3, <1>d DEF SameLast
  <2> HIDE DEF g, h, x, y, Twice
  <2>4. Form(q, name, x, g) = Form(r, name, y, h) <=>
            /\ SameFirst(q, r, name)
            /\ IF Twice(name) THEN x = y ELSE (g <=> h) /\ (g => x = y)
    BY <2>1, SameForm DEF Twice
  <2>5. CASE Twice(name)
    BY <2>2, <2>3, <2>4, <2>5
  <2>6. CASE ~Twice(name)
    BY <2>2, <2>3, <2>4, <2>6
  <2> QED
    BY <2>5, <2>6
<1>8. SameQuery(a.scheme, q, r) <=>
         /\ \A name : SameFirst(q, r, name)
         /\ \A name : name \notin known => SameLast(q, r, name)
         /\ SecurityOf(q) = SecurityOf(r)
         /\ Label(Get(q, "type")) = Label(Get(r, "type"))
         /\ \A name \in known \ {"security", "type"} : Get(q, name) = Get(r, name)
  BY DEF SameQuery, known
<1>9. {"security", "type"} \subseteq known
  BY DEF known, Dropped
<1> HIDE DEF Alike
<1>10. (\A name : Alike(name)) <=> SameQuery(a.scheme, q, r)
  <2>1. ASSUME \A name : Alike(name) PROVE SameQuery(a.scheme, q, r)
    <3>1. ASSUME NEW name PROVE SameFirst(q, r, name)
      BY <2>1, <1>4, <1>5, <1>6, <1>7
    <3> QED
      BY <2>1, <3>1, <1>4, <1>5, <1>6, <1>7, <1>8
  <2>2. ASSUME SameQuery(a.scheme, q, r), NEW name PROVE Alike(name)
    BY <2>2, <1>4, <1>5, <1>6, <1>7, <1>8
  <2> QED
    BY <2>1, <2>2
<1> QED
  BY <1>10 DEF Alike, q, r

\* What the identity of an accepted careful link is made of.
CarefulKey(link, q) ==
    [protocol |-> link.scheme, host |-> [name |-> link.host.name, dot |-> FALSE],
     port |-> PortOf(link), secrets |-> <<link.user, link.pwd>>,
     stream |-> [transport |-> TransportOf(Get(q, "type")),
                 raw |-> IF TransportOf(Get(q, "type")) = "unknown" THEN Get(q, "type") ELSE "",
                 security |-> SecurityOf(q)],
     shared |-> [sni |-> Get(q, "sni"), alpn |-> Get(q, "alpn"), flow |-> Get(q, "flow"),
                 fingerprint |-> Get(q, "fp"), insecure |-> Insecure(q)],
     place |-> [path |-> Get(q, "path"), header |-> Get(q, "host"),
                service |-> Get(q, "servicename")],
     extras |-> [n \in {m \in Named(link.scheme) : Given(q, m)} |-> Get(q, n)],
     rest |-> [k \in DOMAIN q \ {Key(n) : n \in Dropped \cup Named(link.scheme)} |-> q[k]],
     fragment |-> "", name |-> ""]

\* A name that a careful link avoids has no value.
LEMMA ShunnedSilent ==
    ASSUME NEW link, IsLink(link), Careful(link), NEW name \in Shunned
    PROVE  Key(name) \notin DOMAIN Query(link) /\ Get(Query(link), name) = ""
<1>1. Key(name) \notin Keys(link)
  BY DEF Careful, Shunned
<1>2. Key(name) \in DOMAIN Query(link) <=> Key(name) \in Keys(link)
  BY CarefulQuery
<1> QED
  BY <1>1, <1>2 DEF Get

\* A host without its final dot is known by its name.
LEMMA HostParts ==
    /\ \A r, x, d : r = [name |-> x, dot |-> d]
                     => [r EXCEPT !.dot = FALSE] = [name |-> x, dot |-> FALSE]
    /\ \A x, y : [name |-> x, dot |-> FALSE] = [name |-> y, dot |-> FALSE] <=> x = y
<1>1. PICK e : e = FALSE
  OBVIOUS
<1>2. ASSUME NEW r, NEW x, NEW d, r = [name |-> x, dot |-> d]
      PROVE  [r EXCEPT !.dot = FALSE] = [name |-> x, dot |-> FALSE]
  <2>1. [r EXCEPT !.dot = FALSE] = [r EXCEPT !.dot = e]
    BY <1>1
  <2>2. [name |-> x, dot |-> FALSE] = [name |-> x, dot |-> e]
    BY <1>1
  <2> HIDE <1>1
  <2>3. [r EXCEPT !.dot = e] = [name |-> x, dot |-> e]
    BY <1>2
  <2> QED
    BY <2>1, <2>2, <2>3
<1>3. \A x, y : [name |-> x, dot |-> e] = [name |-> y, dot |-> e] <=> x = y
  OBVIOUS
<1>4. \A x : [name |-> x, dot |-> FALSE] = [name |-> x, dot |-> e]
  BY <1>1
<1>5. \A x, y : [name |-> x, dot |-> FALSE] = [name |-> y, dot |-> FALSE] <=> x = y
  BY <1>3, <1>4
<1> QED
  BY <1>2, <1>5

\* A node with another name and with another host.
LEMMA NewParts ==
    ASSUME NEW protocol, NEW host, NEW port, NEW secrets, NEW stream, NEW shared, NEW place,
           NEW extras, NEW rest, NEW fragment, NEW name, NEW new
    PROVE  LET Node(h, n) ==
                 [protocol |-> protocol, host |-> h, port |-> port, secrets |-> secrets,
                  stream |-> stream, shared |-> shared, place |-> place, extras |-> extras,
                  rest |-> rest, fragment |-> fragment, name |-> n]
           IN /\ [Node(host, name) EXCEPT !.name = new] = Node(host, new)
              /\ [Node(host, name) EXCEPT !.host = new] = Node(new, name)
OBVIOUS

\* The identity of a node is the node without its name and the final dot.
LEMMA KeyOfNode ==
    ASSUME NEW node,
           node = [protocol |-> node.protocol, host |-> node.host, port |-> node.port,
                   secrets |-> node.secrets, stream |-> node.stream, shared |-> node.shared,
                   place |-> node.place, extras |-> node.extras, rest |-> node.rest,
                   fragment |-> node.fragment, name |-> node.name]
    PROVE  DedupKey(node)
           = [protocol |-> node.protocol, host |-> [node.host EXCEPT !.dot = FALSE],
              port |-> node.port, secrets |-> node.secrets, stream |-> node.stream,
              shared |-> node.shared, place |-> node.place, extras |-> node.extras,
              rest |-> node.rest, fragment |-> node.fragment, name |-> ""]
<1> DEFINE protocol == node.protocol
           host == node.host
           port == node.port
           secrets == node.secrets
           stream == node.stream
           shared == node.shared
           place == node.place
           extras == node.extras
           rest == node.rest
           fragment == node.fragment
           name == node.name
           Node(h, n) ==
             [protocol |-> protocol, host |-> h, port |-> port, secrets |-> secrets,
              stream |-> stream, shared |-> shared, place |-> place, extras |-> extras,
              rest |-> rest, fragment |-> fragment, name |-> n]
           bare == [node EXCEPT !.name = ""]
           h == [node.host EXCEPT !.dot = FALSE]
<1>0. node = Node(host, name)
  OBVIOUS
<1>1. DedupKey(node) = [bare EXCEPT !.host = h]
  BY DEF DedupKey
<1>h. h = [host EXCEPT !.dot = FALSE]
  OBVIOUS
<1> HIDE DEF protocol, host, port, secrets, stream, shared, place, extras, rest, fragment, name, h
<1>2. \A x : [Node(host, name) EXCEPT !.name = x] = Node(host, x)
  BY NewParts
<1>3. \A x, n : [Node(host, n) EXCEPT !.host = x] = Node(x, n)
  BY NewParts
<1> HIDE DEF Node
<1>4. bare = Node(host, "")
  BY <1>0, <1>2
<1> HIDE DEF bare
<1>5. DedupKey(node) = Node(h, "")
  BY <1>1, <1>3, <1>4
<1> QED
  BY <1>5, <1>h DEF Node, protocol, host, port, secrets, stream, shared, place, extras, rest, fragment, name

\* A careful link keeps user and password as they are.
LEMMA SecretsKept ==
    ASSUME NEW link, link.scheme \in {"vless", "trojan"}
    PROVE  Secrets(link) = <<link.user, link.pwd>>
<1>1. /\ link.scheme # "vmess" /\ link.scheme # "ss"
      /\ link.scheme \notin {"socks", "socks5"} /\ link.scheme \notin {"hysteria2", "hy2"}
  OBVIOUS
<1>2. CASE link.user # ""
  BY <1>1, <1>2 DEF Secrets
<1>3. CASE link.user = ""
  <2>1. Secrets(link) = <<"", link.pwd>>
    BY <1>1, <1>3 DEF Secrets
  <2> QED
    BY <1>3, <2>1
<1> QED
  BY <1>2, <1>3

\* The identity of an accepted careful link.
LEMMA KeyOfCareful ==
    ASSUME NEW link, IsLink(link), Careful(link), Accepted(link)
    PROVE  DedupKey(Parse(link)) = CarefulKey(link, Query(link))
<1> DEFINE q == Query(link)
<1>1. link.scheme \in {"vless", "trojan"} /\ ~link.legacy
  <2>1. link.scheme \in {"vless", "trojan"}
    BY DEF Careful
  <2>2. link.legacy => link.scheme = "ss"
    BY DEF IsLink
  <2> QED
    BY <2>1, <2>2
<1>2. /\ ProtocolOf[link.scheme] = link.scheme
      /\ Secrets(link) = <<link.user, link.pwd>>
      /\ Renamed(link.scheme, q) = q
  <2>1. ProtocolOf["vless"] = "vless" /\ ProtocolOf["trojan"] = "trojan"
    BY DEF ProtocolOf
  <2>2. Secrets(link) = <<link.user, link.pwd>>
    BY <1>1, SecretsKept
  <2>3. Renamed(link.scheme, q) = q
    BY <1>1 DEF Renamed
  <2> QED
    BY <1>1, <2>1, <2>2, <2>3
<1>3. [link.host EXCEPT !.dot = FALSE] = [name |-> link.host.name, dot |-> FALSE]
  <2>1. link.host = [name |-> link.host.name, dot |-> link.host.dot]
    <3>1. link.host # None
      BY DEF Accepted
    <3>2. link.host # None => link.host = [name |-> link.host.name, dot |-> link.host.dot]
      BY DEF IsLink
    <3> QED
      BY <3>1, <3>2
  <2> QED
    BY <2>1, HostParts
<1>4. /\ Get(q, "net") = "" /\ Get(q, "fingerprint") = ""
      /\ Key("allowinsecure") \notin DOMAIN q /\ Get(q, "insecure") = ""
  BY ShunnedSilent DEF Shunned
<1>5. \A name : ~Given(q, name) => Get(q, name) = ""
  BY DEF Given
<1>6. Stream(q) = [transport |-> TransportOf(Get(q, "type")),
                   raw |-> IF TransportOf(Get(q, "type")) = "unknown" THEN Get(q, "type") ELSE "",
                   security |-> SecurityOf(q)]
  <2>1. Either(q, "type", "net") = Get(q, "type")
    BY <1>4, <1>5 DEF Either
  <2> QED
    BY <2>1 DEF Stream
<1>7. Shared(q) = [sni |-> Get(q, "sni"), alpn |-> Get(q, "alpn"), flow |-> Get(q, "flow"),
                   fingerprint |-> Get(q, "fp"), insecure |-> Insecure(q)]
  <2>1. Either(q, "fp", "fingerprint") = Get(q, "fp")
    BY <1>4, <1>5 DEF Either
  <2> QED
    BY <2>1 DEF Shared
<1>8. Place(link.scheme, link.legacy, q) = [path |-> Get(q, "path"), header |-> Get(q, "host"),
                                            service |-> Get(q, "servicename")]
  BY <1>1 DEF Place
<1>9. Extras(link.scheme, q) = [n \in {m \in Named(link.scheme) : Given(q, m)} |-> Get(q, n)]
  <2>1. "scy" \notin Named(link.scheme) /\ "obfs-password" \notin Named(link.scheme)
    BY <1>1 DEF Named
  <2> QED
    BY <2>1 DEF Extras
<1>10. Rest(link.scheme, q) = [k \in DOMAIN q \ {Key(n) : n \in Dropped \cup Named(link.scheme)} |-> q[k]]
  BY <1>1 DEF Rest
<1>11. Parse(link) = [protocol |-> ProtocolOf[link.scheme],
        host |-> link.host, port |-> PortOf(link), secrets |-> Secrets(link),
        stream |-> Stream(q), shared |-> Shared(q), place |-> Place(link.scheme, link.legacy, q),
        extras |-> Extras(link.scheme, q), rest |-> Rest(link.scheme, q),
        fragment |-> "", name |-> link.name]
  BY <1>1, <1>2 DEF Parse
<1>12. DedupKey(Parse(link)) = [protocol |-> ProtocolOf[link.scheme],
        host |-> [link.host EXCEPT !.dot = FALSE], port |-> PortOf(link), secrets |-> Secrets(link),
        stream |-> Stream(q), shared |-> Shared(q), place |-> Place(link.scheme, link.legacy, q),
        extras |-> Extras(link.scheme, q), rest |-> Rest(link.scheme, q),
        fragment |-> "", name |-> ""]
  <2> DEFINE node == Parse(link)
  <2> HIDE DEF node
  <2>1. /\ node = [protocol |-> node.protocol, host |-> node.host, port |-> node.port,
                   secrets |-> node.secrets, stream |-> node.stream, shared |-> node.shared,
                   place |-> node.place, extras |-> node.extras, rest |-> node.rest,
                   fragment |-> node.fragment, name |-> node.name]
        /\ node.protocol = ProtocolOf[link.scheme] /\ node.host = link.host
        /\ node.port = PortOf(link) /\ node.secrets = Secrets(link) /\ node.stream = Stream(q)
        /\ node.shared = Shared(q) /\ node.place = Place(link.scheme, link.legacy, q)
        /\ node.extras = Extras(link.scheme, q) /\ node.rest = Rest(link.scheme, q)
        /\ node.fragment = ""
    <3> DEFINE s == Secrets(link)
               p == Place(link.scheme, link.legacy, q)
               e == Extras(link.scheme, q)
               t == Rest(link.scheme, q)
               u == ProtocolOf[link.scheme]
               v == Stream(q)
               w == Shared(q)
               x == PortOf(link)
               h == link.host
               m == link.name
    <3>1. node = [protocol |-> u, host |-> h, port |-> x, secrets |-> s, stream |-> v,
                  shared |-> w, place |-> p, extras |-> e, rest |-> t, fragment |-> "",
                  name |-> m]
      BY <1>11 DEF node
    <3> HIDE DEF s, p, e, t, u, v, w, x, h, m
    <3>2. /\ node.protocol = u /\ node.host = h /\ node.port = x /\ node.secrets = s
          /\ node.stream = v /\ node.shared = w /\ node.place = p /\ node.extras = e
          /\ node.rest = t /\ node.fragment = "" /\ node.name = m
      BY <3>1
    <3>3. node = [protocol |-> node.protocol, host |-> node.host, port |-> node.port,
                   secrets |-> node.secrets, stream |-> node.stream, shared |-> node.shared,
                   place |-> node.place, extras |-> node.extras, rest |-> node.rest,
                   fragment |-> node.fragment, name |-> node.name]
      BY <3>1, <3>2
    <3> QED
      BY <3>2, <3>3 DEF s, p, e, t, u, v, w, x, h, m
  <2>2. DedupKey(node)
           = [protocol |-> node.protocol, host |-> [node.host EXCEPT !.dot = FALSE],
              port |-> node.port, secrets |-> node.secrets, stream |-> node.stream,
              shared |-> node.shared, place |-> node.place, extras |-> node.extras,
              rest |-> node.rest, fragment |-> node.fragment, name |-> ""]
    BY <2>1, KeyOfNode
  <2> QED
    BY <2>1, <2>2 DEF node
<1> HIDE DEF q
<1> QED
  BY <1>2, <1>3, <1>6, <1>7, <1>8, <1>9, <1>10, <1>12 DEF CarefulKey, q

\* What a node keeps under its own keys: the same if and only if the first values of
\* all names and the last ones of the names the protocol does not know are.
LEMMA RestAlike ==
    ASSUME NEW a, IsLink(a), Careful(a), NEW b, IsLink(b), Careful(b), NEW known
    PROVE  LET q == Query(a)
               r == Query(b)
               K == {Key(n) : n \in known}
           IN [k \in DOMAIN q \ K |-> q[k]] = [k \in DOMAIN r \ K |-> r[k]] <=>
                 /\ \A name : SameFirst(q, r, name)
                 /\ \A name : name \notin known => SameLast(q, r, name)
<1> DEFINE q == Query(a)
           r == Query(b)
           K == {Key(n) : n \in known}
           f == [k \in DOMAIN q \ K |-> q[k]]
           g == [k \in DOMAIN r \ K |-> r[k]]
<1>1. /\ \A x \in DOMAIN q : \E name : x = Key(name) \/ x = Marked(Key(name))
      /\ \A x \in DOMAIN r : \E name : x = Key(name) \/ x = Marked(Key(name))
  BY CarefulQuery
<1>2. \A name : Marked(Key(name)) \notin K /\ (Key(name) \in K <=> name \in known)
  BY KeysApart
<1>3. \A name : SameFirst(q, r, name) <=>
                  LET k == Marked(Key(name))
                  IN (k \in DOMAIN q <=> k \in DOMAIN r) /\ (k \in DOMAIN q => q[k] = r[k])
  BY DEF SameFirst
<1>4. \A name : SameLast(q, r, name) <=>
                  LET k == Key(name)
                  IN (k \in DOMAIN q <=> k \in DOMAIN r) /\ (k \in DOMAIN q => q[k] = r[k])
  BY DEF SameLast
<1> HIDE DEF q, r, K
<1> DEFINE At(k) == (k \in DOMAIN q <=> k \in DOMAIN r) /\ (k \in DOMAIN q => q[k] = r[k])
<1>s. \A name : /\ SameFirst(q, r, name) <=> At(Marked(Key(name)))
                /\ SameLast(q, r, name) <=> At(Key(name))
  BY <1>3, <1>4
<1>5. f = g <=> \A k : k \notin K => At(k)
  <2>1. ASSUME f = g, NEW k, k \notin K
        PROVE  (k \in DOMAIN q <=> k \in DOMAIN r) /\ (k \in DOMAIN q => q[k] = r[k])
    <3>1. DOMAIN f = DOMAIN q \ K /\ DOMAIN g = DOMAIN r \ K
      OBVIOUS
    <3>2. k \in DOMAIN q => f[k] = q[k]
      BY <2>1
    <3>3. k \in DOMAIN r => g[k] = r[k]
      BY <2>1
    <3> HIDE DEF f, g
    <3> QED
      BY <2>1, <3>1, <3>2, <3>3
  <2>2. ASSUME \A k : k \notin K => At(k)
        PROVE  f = g
    <3>1. DOMAIN q \ K = DOMAIN r \ K
      BY <2>2
    <3>2. \A k \in DOMAIN q \ K : q[k] = r[k]
      BY <2>2
    <3> QED
      BY <3>1, <3>2
  <2> HIDE DEF f, g
  <2>3. f = g => \A k : k \notin K => At(k)
    BY <2>1
  <2> QED
    BY <2>2, <2>3
<1>6. ASSUME f = g
      PROVE  /\ \A name : SameFirst(q, r, name)
             /\ \A name : name \notin known => SameLast(q, r, name)
  <2> HIDE DEF f, g, At
  <2>1. \A k : k \notin K => At(k)
    BY <1>5, <1>6
  <2> QED
    BY <1>2, <1>s, <2>1
<1>7. ASSUME \A name : SameFirst(q, r, name),
             \A name : name \notin known => SameLast(q, r, name)
      PROVE  f = g
  <2>1. ASSUME NEW k, k \notin K, k \in DOMAIN q \/ k \in DOMAIN r
        PROVE  k \in DOMAIN q /\ k \in DOMAIN r /\ q[k] = r[k]
    <3>1. PICK name : k = Key(name) \/ k = Marked(Key(name))
      BY <1>1, <2>1
    <3>2. CASE k = Key(name)
      <4>1. SameLast(q, r, name)
        BY <1>2, <1>7, <2>1, <3>2
      <4> QED
        BY <1>4, <2>1, <3>2, <4>1
    <3>3. CASE k = Marked(Key(name))
      BY <1>3, <1>7, <2>1, <3>3
    <3> QED
      BY <3>1, <3>2, <3>3
  <2> HIDE DEF f, g
  <2> QED
    BY <1>5, <2>1
<1> HIDE DEF f, g
<1>8. f = g <=> /\ \A name : SameFirst(q, r, name)
                /\ \A name : name \notin known => SameLast(q, r, name)
  BY <1>6, <1>7
<1> QED
  BY <1>8 DEF f, g, q, r, K

\* The fields with a value: the same if and only if every name has the same value.
LEMMA ExtrasAlike ==
    ASSUME NEW q, NEW r, NEW N
    PROVE  [n \in {m \in N : Given(q, m)} |-> Get(q, n)] = [n \in {m \in N : Given(r, m)} |-> Get(r, n)]
              <=> \A n \in N : Get(q, n) = Get(r, n)
<1> DEFINE f == [n \in {m \in N : Given(q, m)} |-> Get(q, n)]
           g == [n \in {m \in N : Given(r, m)} |-> Get(r, n)]
<1>1. \A n : (Given(q, n) <=> Get(q, n) # "") /\ (Given(r, n) <=> Get(r, n) # "")
  BY DEF Given
<1>2. ASSUME f = g, NEW n \in N PROVE Get(q, n) = Get(r, n)
  <2>1. /\ n \in DOMAIN f <=> Given(q, n)
        /\ n \in DOMAIN g <=> Given(r, n)
    OBVIOUS
  <2>2. /\ Given(q, n) => f[n] = Get(q, n)
        /\ Given(r, n) => g[n] = Get(r, n)
    OBVIOUS
  <2> HIDE DEF f, g
  <2> QED
    BY <1>1, <1>2, <2>1, <2>2
<1>3. ASSUME \A n \in N : Get(q, n) = Get(r, n) PROVE f = g
  <2>1. {m \in N : Given(q, m)} = {m \in N : Given(r, m)}
    BY <1>1, <1>3
  <2> QED
    BY <1>3, <2>1
<1> QED
  BY <1>2, <1>3

\* Accounts are the same if their parts are.
LEMMA AccountsAlike ==
    ASSUME NEW a, NEW b
    PROVE  Account(a) = Account(b) <=>
              /\ ProtocolOf[a.scheme] = ProtocolOf[b.scheme]
              /\ a.host.name = b.host.name /\ PortOf(a) = PortOf(b)
              /\ a.user = b.user /\ a.pwd = b.pwd
<1> DEFINE pa == ProtocolOf[a.scheme]
           pb == ProtocolOf[b.scheme]
           oa == PortOf(a)
           ob == PortOf(b)
           Rec(p, h, o, u, w) == [protocol |-> p, host |-> h, port |-> o, secrets |-> <<u, w>>]
<1>1. /\ Account(a) = Rec(pa, a.host.name, oa, a.user, a.pwd)
      /\ Account(b) = Rec(pb, b.host.name, ob, b.user, b.pwd)
  BY DEF Account
<1>2. \A p, h, o, u, w : /\ Rec(p, h, o, u, w).protocol = p /\ Rec(p, h, o, u, w).host = h
                         /\ Rec(p, h, o, u, w).port = o
                         /\ Rec(p, h, o, u, w).secrets[1] = u /\ Rec(p, h, o, u, w).secrets[2] = w
  OBVIOUS
<1> HIDE DEF pa, pb, oa, ob, Rec
<1>3. Account(a) = Account(b) <=> /\ pa = pb /\ a.host.name = b.host.name /\ oa = ob
                                  /\ a.user = b.user /\ a.pwd = b.pwd
  BY <1>1, <1>2
<1> QED
  BY <1>3 DEF pa, pb, oa, ob

\* The names of a careful link's protocol.
LEMMA ProtocolNames ==
    ASSUME NEW a, Careful(a)
    PROVE  /\ ProtocolOf[a.scheme] = a.scheme
           /\ Dropped \cup Named(a.scheme)
                = {"security", "type", "sni", "alpn", "fp", "flow", "path", "host", "servicename"}
                    \cup {"fingerprint", "allowinsecure", "insecure"} \cup Named(a.scheme)
           /\ "security" \notin Named(a.scheme) /\ "type" \notin Named(a.scheme)
<1>1. a.scheme \in {"vless", "trojan"}
  BY DEF Careful
<1>2. ProtocolOf["vless"] = "vless" /\ ProtocolOf["trojan"] = "trojan"
  BY DEF ProtocolOf
<1>3. Named("vless") = {"pbk", "sid", "spx"} /\ Named("trojan") = {}
  BY DEF Named
<1>4. "security" \notin Named(a.scheme) /\ "type" \notin Named(a.scheme)
  BY <1>1, <1>3
<1>5. Dropped = {"security", "type", "sni", "alpn", "fp", "flow", "path", "host", "servicename"}
                    \cup {"fingerprint", "allowinsecure", "insecure"}
  BY DEF Dropped
<1> QED
  BY <1>1, <1>2, <1>4, <1>5

\* Two records of an identity are the same if their parts are.
LEMMA CarefulKeysAlike ==
    ASSUME NEW a, NEW b, NEW q, NEW r,
           CarefulKey(a, q) = CarefulKey(b, r)
    PROVE  /\ a.scheme = b.scheme /\ a.host.name = b.host.name /\ PortOf(a) = PortOf(b)
           /\ a.user = b.user /\ a.pwd = b.pwd
           /\ TransportOf(Get(q, "type")) = TransportOf(Get(r, "type"))
           /\ TransportOf(Get(q, "type")) = "unknown" => Get(q, "type") = Get(r, "type")
           /\ SecurityOf(q) = SecurityOf(r)
           /\ \A n \in {"sni", "alpn", "fp", "flow", "path", "host", "servicename"} :
                 Get(q, n) = Get(r, n)
           /\ CarefulKey(a, q).extras = CarefulKey(b, r).extras
           /\ CarefulKey(a, q).rest = CarefulKey(b, r).rest
<1> DEFINE x == CarefulKey(a, q)
           y == CarefulKey(b, r)
<1>1. /\ x.protocol = a.scheme /\ x.host.name = a.host.name /\ x.port = PortOf(a)
      /\ x.secrets[1] = a.user /\ x.secrets[2] = a.pwd
      /\ x.stream.transport = TransportOf(Get(q, "type"))
      /\ TransportOf(Get(q, "type")) = "unknown" => x.stream.raw = Get(q, "type")
      /\ x.stream.security = SecurityOf(q)
      /\ x.shared.sni = Get(q, "sni") /\ x.shared.alpn = Get(q, "alpn")
      /\ x.shared.flow = Get(q, "flow") /\ x.shared.fingerprint = Get(q, "fp")
      /\ x.place.path = Get(q, "path") /\ x.place.header = Get(q, "host")
      /\ x.place.service = Get(q, "servicename")
  BY DEF CarefulKey
<1>2. /\ y.protocol = b.scheme /\ y.host.name = b.host.name /\ y.port = PortOf(b)
      /\ y.secrets[1] = b.user /\ y.secrets[2] = b.pwd
      /\ y.stream.transport = TransportOf(Get(r, "type"))
      /\ TransportOf(Get(r, "type")) = "unknown" => y.stream.raw = Get(r, "type")
      /\ y.stream.security = SecurityOf(r)
      /\ y.shared.sni = Get(r, "sni") /\ y.shared.alpn = Get(r, "alpn")
      /\ y.shared.flow = Get(r, "flow") /\ y.shared.fingerprint = Get(r, "fp")
      /\ y.place.path = Get(r, "path") /\ y.place.header = Get(r, "host")
      /\ y.place.service = Get(r, "servicename")
  BY DEF CarefulKey
<1>3. x = y
  OBVIOUS
<1> HIDE DEF x, y
<1>4. /\ Get(q, "sni") = Get(r, "sni") /\ Get(q, "alpn") = Get(r, "alpn")
      /\ Get(q, "flow") = Get(r, "flow") /\ Get(q, "fp") = Get(r, "fp")
      /\ Get(q, "path") = Get(r, "path") /\ Get(q, "host") = Get(r, "host")
      /\ Get(q, "servicename") = Get(r, "servicename")
  BY <1>1, <1>2, <1>3
<1>5. /\ TransportOf(Get(q, "type")) = TransportOf(Get(r, "type"))
      /\ SecurityOf(q) = SecurityOf(r)
  BY <1>1, <1>2, <1>3
<1>6. TransportOf(Get(q, "type")) = "unknown" => Get(q, "type") = Get(r, "type")
  BY <1>1, <1>2, <1>3, <1>5
<1>7. /\ a.scheme = b.scheme /\ a.host.name = b.host.name /\ PortOf(a) = PortOf(b)
      /\ a.user = b.user /\ a.pwd = b.pwd
  BY <1>1, <1>2, <1>3
<1>8. x.extras = y.extras /\ x.rest = y.rest
  BY <1>3
<1> QED
  BY <1>4, <1>5, <1>6, <1>7, <1>8 DEF x, y

\* Two accepted careful links have one identity if and only if they are of one account
\* and what a node keeps of their queries is the same.
LEMMA KeysAlike ==
    ASSUME NEW a, IsLink(a), Careful(a), Accepted(a), NEW b, IsLink(b), Careful(b), Accepted(b)
    PROVE  DedupKey(Parse(a)) = DedupKey(Parse(b)) <=>
              Account(a) = Account(b) /\ SameQuery(a.scheme, Query(a), Query(b))
<1> DEFINE q == Query(a)
           r == Query(b)
           N == Named(a.scheme)
           known == Dropped \cup N
           fields == {"sni", "alpn", "fp", "flow", "path", "host", "servicename"}
           K == {Key(n) : n \in known}
<1>1. DedupKey(Parse(a)) = CarefulKey(a, q) /\ DedupKey(Parse(b)) = CarefulKey(b, r)
  BY KeyOfCareful
<1>2. Account(a) = Account(b) <=>
         /\ a.scheme = b.scheme /\ a.host.name = b.host.name /\ PortOf(a) = PortOf(b)
         /\ a.user = b.user /\ a.pwd = b.pwd
  BY AccountsAlike, ProtocolNames
<1>3. \A name \in {"fingerprint", "allowinsecure", "insecure"} : Get(q, name) = "" /\ Get(r, name) = ""
  BY ShunnedSilent DEF Shunned
<1>4. (\A name \in known \ {"security", "type"} : Get(q, name) = Get(r, name)) <=>
         (\A name \in fields : Get(q, name) = Get(r, name)) /\ (\A name \in N : Get(q, name) = Get(r, name))
  <2>1. known \ {"security", "type"} = fields \cup {"fingerprint", "allowinsecure", "insecure"} \cup N
    <3>1. /\ known = {"security", "type", "sni", "alpn", "fp", "flow", "path", "host", "servicename"}
                    \cup {"fingerprint", "allowinsecure", "insecure"} \cup N
          /\ "security" \notin N /\ "type" \notin N
      BY ProtocolNames
    <3> HIDE DEF known, N
    <3> QED
      BY <3>1
  <2> HIDE DEF known, N, fields, q, r
  <2> QED
    BY <2>1, <1>3
<1>5. Label(Get(q, "type")) = Label(Get(r, "type")) <=>
         /\ TransportOf(Get(q, "type")) = TransportOf(Get(r, "type"))
         /\ TransportOf(Get(q, "type")) = "unknown" => Get(q, "type") = Get(r, "type")
  BY Labels
<1>6. [k \in DOMAIN q \ K |-> q[k]] = [k \in DOMAIN r \ K |-> r[k]] <=>
         /\ \A name : SameFirst(q, r, name)
         /\ \A name : name \notin known => SameLast(q, r, name)
  BY RestAlike
<1>7. [n \in {m \in N : Given(q, m)} |-> Get(q, n)] = [n \in {m \in N : Given(r, m)} |-> Get(r, n)]
         <=> \A n \in N : Get(q, n) = Get(r, n)
  BY ExtrasAlike
<1>8. SameQuery(a.scheme, q, r) <=>
       /\ \A name : SameFirst(q, r, name)
       /\ \A name : name \notin known => SameLast(q, r, name)
       /\ SecurityOf(q) = SecurityOf(r)
       /\ Label(Get(q, "type")) = Label(Get(r, "type"))
       /\ \A name \in known \ {"security", "type"} : Get(q, name) = Get(r, name)
  BY DEF SameQuery
<1> HIDE DEF q, r
<1>9. ASSUME CarefulKey(a, q) = CarefulKey(b, r)
      PROVE  Account(a) = Account(b) /\ SameQuery(a.scheme, q, r)
  <2>1. /\ a.scheme = b.scheme /\ a.host.name = b.host.name /\ PortOf(a) = PortOf(b)
        /\ a.user = b.user /\ a.pwd = b.pwd
        /\ TransportOf(Get(q, "type")) = TransportOf(Get(r, "type"))
        /\ TransportOf(Get(q, "type")) = "unknown" => Get(q, "type") = Get(r, "type")
        /\ SecurityOf(q) = SecurityOf(r)
        /\ \A n \in fields : Get(q, n) = Get(r, n)
        /\ CarefulKey(a, q).extras = CarefulKey(b, r).extras
        /\ CarefulKey(a, q).rest = CarefulKey(b, r).rest
    BY <1>9, CarefulKeysAlike
  <2>2. /\ CarefulKey(a, q).extras = [n \in {m \in N : Given(q, m)} |-> Get(q, n)]
        /\ CarefulKey(a, q).rest = [k \in DOMAIN q \ K |-> q[k]]
    BY DEF CarefulKey
  <2>3. /\ CarefulKey(b, r).extras = [n \in {m \in Named(b.scheme) : Given(r, m)} |-> Get(r, n)]
        /\ CarefulKey(b, r).rest = [k \in DOMAIN r \ {Key(n) : n \in Dropped \cup Named(b.scheme)} |-> r[k]]
    BY DEF CarefulKey
  <2>4. /\ CarefulKey(b, r).extras = [n \in {m \in N : Given(r, m)} |-> Get(r, n)]
        /\ CarefulKey(b, r).rest = [k \in DOMAIN r \ K |-> r[k]]
    BY <2>1, <2>3
  <2> HIDE DEF N, known, K, fields
  <2> QED
    BY <2>1, <2>2, <2>4, <1>2, <1>4, <1>5, <1>6, <1>7, <1>8
<1>10. ASSUME Account(a) = Account(b), SameQuery(a.scheme, q, r)
       PROVE  CarefulKey(a, q) = CarefulKey(b, r)
  <2>1. /\ a.scheme = b.scheme /\ a.host.name = b.host.name /\ PortOf(a) = PortOf(b)
        /\ a.user = b.user /\ a.pwd = b.pwd
    BY <1>2, <1>10
  <2>2. /\ SecurityOf(q) = SecurityOf(r)
        /\ TransportOf(Get(q, "type")) = TransportOf(Get(r, "type"))
        /\ TransportOf(Get(q, "type")) = "unknown" => Get(q, "type") = Get(r, "type")
    BY <1>5, <1>8, <1>10
  <2>3. \A n \in fields : Get(q, n) = Get(r, n)
    BY <1>4, <1>8, <1>10
  <2>4. [n \in {m \in N : Given(q, m)} |-> Get(q, n)] = [n \in {m \in N : Given(r, m)} |-> Get(r, n)]
    BY <1>4, <1>7, <1>8, <1>10
  <2>5. [k \in DOMAIN q \ K |-> q[k]] = [k \in DOMAIN r \ K |-> r[k]]
    BY <1>6, <1>8, <1>10
  <2>6. Insecure(q) = Insecure(r)
    BY ShunnedSilent DEF Insecure, Shunned, q, r
  <2>7. /\ Get(q, "sni") = Get(r, "sni") /\ Get(q, "alpn") = Get(r, "alpn")
        /\ Get(q, "flow") = Get(r, "flow") /\ Get(q, "fp") = Get(r, "fp")
        /\ Get(q, "path") = Get(r, "path") /\ Get(q, "host") = Get(r, "host")
        /\ Get(q, "servicename") = Get(r, "servicename")
    BY <2>3
  <2> QED
    BY <2>1, <2>2, <2>4, <2>5, <2>6, <2>7 DEF CarefulKey
<1> QED
  BY <1>1, <1>9, <1>10 DEF q, r

\* Two careful links mean the same if and only if they are of one account and say
\* the same under every name.
LEMMA MeaningsAlike ==
    ASSUME NEW a, IsLink(a), Careful(a), NEW b, IsLink(b), Careful(b)
    PROVE  Meaning(a) = Meaning(b) <=>
              Account(a) = Account(b) /\ \A name : Says(a, Key(name)) = Says(b, Key(name))
<1> DEFINE S(l) == {k \in Keys(l) \cup {Key("security")} : Says(l, k) # <<>>}
           f(l) == [k \in S(l) |-> Says(l, k)]
<1>1. ASSUME NEW l, IsLink(l), Careful(l)
      PROVE  /\ \A k \in S(l) : k = Key(k[1])
             /\ \A name : Key(name) \in S(l) <=> Says(l, Key(name)) # <<>>
  <2>1. \A k \in S(l) : k = Key(k[1])
    <3>1. \A k \in Keys(l) : k = Key(k[1])
      BY <1>1, CarefulQuery
    <3>2. Key("security") = Key(Key("security")[1])
      BY DEF Key
    <3> QED
      BY <3>1, <3>2
  <2>2. ASSUME NEW name, Key(name) \notin Keys(l), name # "security"
        PROVE  Says(l, Key(name)) = <<>>
    <3> DEFINE q == Query(l)
               known == Dropped \cup Named(l.scheme)
    <3>1. Key(name) \notin DOMAIN q /\ Marked(Key(name)) \notin DOMAIN q
      BY <1>1, <2>2, CarefulQuery DEF GivenUpTo2
    <3>2. ~Given(q, name)
      BY <3>1 DEF Given, Get
    <3>4. /\ name = "type" => Says(l, Key(name)) = Form(q, name, Label(Get(q, name)), Given(q, name))
          /\ name \in known \ {"security", "type"} => Says(l, Key(name)) = Form(q, name, Get(q, name), Given(q, name))
          /\ name \notin known => Says(l, Key(name)) = Form(q, name, Get(q, name), Key(name) \in DOMAIN q)
      BY <1>1, SaysIs
    <3>5. /\ \A x : Form(q, name, x, Given(q, name)) = <<>>
          /\ \A x : Form(q, name, x, Key(name) \in DOMAIN q) = <<>>
      BY <3>1, <3>2 DEF Form
    <3> HIDE DEF q, known
    <3> QED
      BY <2>2, <3>4, <3>5
  <2>3. ASSUME NEW name
        PROVE  Key(name) \in S(l) <=> Says(l, Key(name)) # <<>>
    <3>1. CASE Key(name) \in Keys(l) \/ name = "security"
      BY <3>1
    <3>2. CASE Key(name) \notin Keys(l) /\ name # "security"
      BY <2>2, <3>2
    <3> QED
      BY <3>1, <3>2
  <2> QED
    BY <2>1, <2>3
<1>2. /\ Meaning(a) = [account |-> Account(a), says |-> f(a)]
      /\ Meaning(b) = [account |-> Account(b), says |-> f(b)]
  BY DEF Meaning
<1>3. /\ \A k \in S(a) : k = Key(k[1])
      /\ \A k \in S(b) : k = Key(k[1])
      /\ \A name : Key(name) \in S(a) <=> Says(a, Key(name)) # <<>>
      /\ \A name : Key(name) \in S(b) <=> Says(b, Key(name)) # <<>>
  BY <1>1
<1>4. f(a) = f(b) <=> \A name : Says(a, Key(name)) = Says(b, Key(name))
  <2>1. /\ DOMAIN f(a) = S(a) /\ \A k \in S(a) : f(a)[k] = Says(a, k)
        /\ DOMAIN f(b) = S(b) /\ \A k \in S(b) : f(b)[k] = Says(b, k)
    OBVIOUS
  <2>2. S(a) = S(b) /\ (\A k \in S(a) : Says(a, k) = Says(b, k)) => f(a) = f(b)
    <3> HIDE DEF S
    <3> QED
      OBVIOUS
  <2> HIDE DEF f, S
  <2>3. ASSUME f(a) = f(b), NEW name
        PROVE  Says(a, Key(name)) = Says(b, Key(name))
    BY <2>1, <2>3, <1>3
  <2>4. ASSUME \A name : Says(a, Key(name)) = Says(b, Key(name))
        PROVE  f(a) = f(b)
    <3>1. S(a) = S(b)
      BY <1>3, <2>4
    <3>2. \A k \in S(a) : Says(a, k) = Says(b, k)
      BY <1>3, <2>4
    <3> QED
      BY <2>2, <3>1, <3>2
  <2> QED
    BY <2>3, <2>4
<1> HIDE DEF f
<1>5. Meaning(a) = Meaning(b) <=> Account(a) = Account(b) /\ f(a) = f(b)
  BY <1>2
<1> QED
  BY <1>4, <1>5

\* The account of an accepted link of the two protocols is in its identity.
LEMMA KeyHasAccount ==
    ASSUME NEW a, IsLink(a), Accepted(a), a.scheme \in {"vless", "trojan"},
           NEW b, IsLink(b), Accepted(b),
           DedupKey(Parse(a)) = DedupKey(Parse(b))
    PROVE  Account(a) = Account(b)
<1>1. ASSUME NEW l, IsLink(l), Accepted(l)
      PROVE  /\ DedupKey(Parse(l)).protocol = ProtocolOf[l.scheme]
             /\ DedupKey(Parse(l)).host.name = l.host.name
             /\ DedupKey(Parse(l)).port = PortOf(l)
             /\ DedupKey(Parse(l)).secrets = Secrets(l)
  <2> DEFINE node == Parse(l)
             q == Query(l)
             r == Renamed(l.scheme, q)
             s == Secrets(l)
             p == Place(l.scheme, l.legacy, r)
             e == Extras(l.scheme, q)
             t == Rest(l.scheme, q)
             u == ProtocolOf[l.scheme]
             v == Stream(r)
             w == Shared(r)
             x == PortOf(l)
             h == l.host
             m == l.name
             g == IF l.legacy THEN l.name ELSE ""
  <2>1. node = [protocol |-> u, host |-> h, port |-> x, secrets |-> s, stream |-> v,
                shared |-> w, place |-> p, extras |-> e, rest |-> t, fragment |-> g, name |-> m]
    BY DEF Parse
  <2> HIDE DEF node, q, r, s, p, e, t, u, v, w, x, h, m, g
  <2>2. /\ node.protocol = u /\ node.host = h /\ node.port = x /\ node.secrets = s
        /\ node.stream = v /\ node.shared = w /\ node.place = p /\ node.extras = e
        /\ node.rest = t /\ node.fragment = g /\ node.name = m
    BY <2>1
  <2>3. node = [protocol |-> node.protocol, host |-> node.host, port |-> node.port,
                secrets |-> node.secrets, stream |-> node.stream, shared |-> node.shared,
                place |-> node.place, extras |-> node.extras, rest |-> node.rest,
                fragment |-> node.fragment, name |-> node.name]
    BY <2>1, <2>2
  <2> DEFINE k == [node.host EXCEPT !.dot = FALSE]
  <2>4. DedupKey(node)
           = [protocol |-> node.protocol, host |-> k,
              port |-> node.port, secrets |-> node.secrets, stream |-> node.stream,
              shared |-> node.shared, place |-> node.place, extras |-> node.extras,
              rest |-> node.rest, fragment |-> node.fragment, name |-> ""]
    BY <2>3, KeyOfNode
  <2>5. k.name = l.host.name
    <3>1. l.host # None
      BY <1>1 DEF Accepted
    <3>2. l.host # None => l.host = [name |-> l.host.name, dot |-> l.host.dot]
      BY <1>1 DEF IsLink
    <3>3. node.host = [name |-> l.host.name, dot |-> l.host.dot]
      BY <2>2, <3>1, <3>2 DEF h
    <3>4. k = [name |-> l.host.name, dot |-> FALSE]
      BY <3>3, HostParts
    <3> QED
      BY <3>4
  <2> HIDE DEF k
  <2>6. /\ DedupKey(node).protocol = u /\ DedupKey(node).host = k
        /\ DedupKey(node).port = x /\ DedupKey(node).secrets = s
    <3> DEFINE d == DedupKey(node)
    <3>1. d = [protocol |-> node.protocol, host |-> k,
               port |-> node.port, secrets |-> node.secrets, stream |-> node.stream,
               shared |-> node.shared, place |-> node.place, extras |-> node.extras,
               rest |-> node.rest, fragment |-> node.fragment, name |-> ""]
      BY <2>4
    <3> HIDE DEF d
    <3>2. d.protocol = node.protocol /\ d.host = k /\ d.port = node.port /\ d.secrets = node.secrets
      BY <3>1
    <3> QED
      BY <2>2, <3>2 DEF d
  <2> QED
    BY <2>5, <2>6 DEF node, u, x, s
<1>2. /\ ProtocolOf[a.scheme] = ProtocolOf[b.scheme] /\ a.host.name = b.host.name
      /\ PortOf(a) = PortOf(b) /\ Secrets(a) = Secrets(b)
  <2>1. /\ DedupKey(Parse(a)).protocol = ProtocolOf[a.scheme]
        /\ DedupKey(Parse(a)).host.name = a.host.name
        /\ DedupKey(Parse(a)).port = PortOf(a)
        /\ DedupKey(Parse(a)).secrets = Secrets(a)
    BY <1>1
  <2>2. /\ DedupKey(Parse(b)).protocol = ProtocolOf[b.scheme]
        /\ DedupKey(Parse(b)).host.name = b.host.name
        /\ DedupKey(Parse(b)).port = PortOf(b)
        /\ DedupKey(Parse(b)).secrets = Secrets(b)
    BY <1>1
  <2> QED
    BY <2>1, <2>2
<1>3. b.scheme \in {"vless", "trojan"}
  <2>1. b.scheme \in {"vless", "vmess", "ss", "trojan", "hysteria2", "hy2", "socks", "socks5"}
    BY DEF Accepted, ProtocolOf
  <2> QED
    BY <2>1, <1>2 DEF ProtocolOf
<1>4. Secrets(a) = <<a.user, a.pwd>> /\ Secrets(b) = <<b.user, b.pwd>>
  <2>1. a.scheme \in {"vless", "trojan"}
    BY <1>2, <1>3
  <2> QED
    BY <1>3, <2>1, SecretsKept
<1>5. a.user = b.user /\ a.pwd = b.pwd
  <2>1. <<a.user, a.pwd>> = <<b.user, b.pwd>>
    BY <1>2, <1>4
  <2> QED
    BY <2>1
<1> QED
  BY <1>2, <1>5, AccountsAlike

\* Two accepted careful links have one identity if and only if they mean the same:
\* the key of identity.py:30 is the full identity of such a configuration, and of
\* a configuration that is not careful it is at least the account.
THEOREM KeyMeans ==
    ASSUME NEW a, IsLink(a), Careful(a), Accepted(a), NEW b, IsLink(b), Accepted(b)
    PROVE  /\ Careful(b) => (DedupKey(Parse(a)) = DedupKey(Parse(b)) <=> Meaning(a) = Meaning(b))
           /\ DedupKey(Parse(a)) = DedupKey(Parse(b)) => Account(a) = Account(b)
<1>1. DedupKey(Parse(a)) = DedupKey(Parse(b)) => Account(a) = Account(b)
  BY KeyHasAccount DEF Careful
<1>2. ASSUME Careful(b)
      PROVE  DedupKey(Parse(a)) = DedupKey(Parse(b)) <=> Meaning(a) = Meaning(b)
  <2>1. Account(a) = Account(b) => a.scheme = b.scheme
    BY <1>2, AccountsAlike, ProtocolNames
  <2>2. DedupKey(Parse(a)) = DedupKey(Parse(b)) <=>
           Account(a) = Account(b) /\ SameQuery(a.scheme, Query(a), Query(b))
    BY <1>2, KeysAlike
  <2>3. a.scheme = b.scheme =>
           ((\A name : Says(a, Key(name)) = Says(b, Key(name)))
              <=> SameQuery(a.scheme, Query(a), Query(b)))
    BY <1>2, SaysAlike
  <2>4. Meaning(a) = Meaning(b) <=>
           Account(a) = Account(b) /\ \A name : Says(a, Key(name)) = Says(b, Key(name))
    BY <1>2, MeaningsAlike
  <2> QED
    BY <2>1, <2>2, <2>3, <2>4
<1> QED
  BY <1>1, <1>2
===============================================================================
