----------------------------- MODULE SumTheorems -----------------------------
(* Sums over finite sets, as MapThenSumSet of the community modules defines     *)
(* them: a sum may be taken one element at a time, in any order, and depends on *)
(* the values of the elements only.  The proofs go over the smallest subset for *)
(* which a statement would be wrong.                                            *)
EXTENDS Sums, Sorting, FiniteSetTheorems, WellFoundedInduction, TLAPS

Pick(s) == CHOOSE x \in s : TRUE

\* g is the running sum of q over the subsets of S, as the fold computes it.
Sums(q, S, g) ==
  g = [s \in SUBSET S |-> IF s = {} THEN 0 ELSE q[Pick(s)] + g[s \ {Pick(s)}]]

LEMMA TotalSums ==
  ASSUME NEW q, NEW S
  PROVE  Total(q, S) = (CHOOSE g : Sums(q, S, g))[S]
BY DEF Total, MapThenSumSet, MapThenFoldSet, Pick, Sums

----------------------------------------------------------------------------
(* The running sum exists and is unique.                                   *)

LEMMA LeastNat ==
  ASSUME NEW T, T \subseteq Nat, T # {}
  PROVE  \E n \in T : \A m \in T : n <= m
<1>1. PICK n \in T : \A m \in T : ~ (<<m, n>> \in OpToRel(<, Nat))
  BY NatLessThanWellFounded, WFMin
<1>2. ASSUME NEW m \in T PROVE n <= m
  <2>0. m \in Nat /\ n \in Nat
    OBVIOUS
  <2>1. m < n => <<m, n>> \in OpToRel(<, Nat)
    BY <2>0 DEF OpToRel
  <2>2. ~(m < n)
    BY <1>1, <2>1
  <2> QED
    BY <2>0, <2>2
<1> QED
  BY <1>2

LEMMA PickIn == \A s : s # {} => Pick(s) \in s
BY DEF Pick

LEMMA Smaller ==
  ASSUME NEW S, IsFiniteSet(S), NEW x \in S
  PROVE  /\ IsFiniteSet(S \ {x}) /\ Cardinality(S) \in Nat /\ Cardinality(S \ {x}) \in Nat
         /\ Cardinality(S \ {x}) < Cardinality(S)
<1>1. IsFiniteSet(S \ {x}) /\ Cardinality(S \ {x}) = Cardinality(S) - 1
  BY FS_RemoveElement, Zenon
<1>2. Cardinality(S) \in Nat
  BY FS_CardinalityType, Zenon
<1>3. Cardinality(S \ {x}) \in Nat
  BY <1>1, FS_CardinalityType, Zenon
<1> QED
  BY <1>1, <1>2, <1>3

LEMMA SumsAgree ==
  ASSUME NEW S, NEW R, NEW q, NEW p, NEW g, NEW h, Sums(q, S, g), Sums(p, R, h),
         NEW u, IsFiniteSet(u), u \subseteq S, u \subseteq R, \A x \in u : q[x] = p[x]
  PROVE  g[u] = h[u]
<1> SUFFICES ASSUME g[u] # h[u] PROVE FALSE
  OBVIOUS
<1> DEFINE Bad == {s \in SUBSET u : g[s] # h[s]}
           Sizes == {Cardinality(s) : s \in Bad}
<1>1. \A s \in SUBSET u : IsFiniteSet(s) /\ Cardinality(s) \in Nat
  BY FS_Subset, FS_CardinalityType
<1>2. Sizes \subseteq Nat /\ Sizes # {}
  BY <1>1
<1>3. PICK n \in Sizes : \A m \in Sizes : n <= m
  <2> HIDE DEF Sizes
  <2> QED BY <1>2, LeastNat
<1>4. PICK s \in Bad : \A r \in Bad : Cardinality(s) <= Cardinality(r)
  BY <1>3
<1>5. /\ g[s] = IF s = {} THEN 0 ELSE q[Pick(s)] + g[s \ {Pick(s)}]
      /\ h[s] = IF s = {} THEN 0 ELSE p[Pick(s)] + h[s \ {Pick(s)}]
  BY DEF Sums
<1>6. s # {}
  BY <1>5
<1>7. Pick(s) \in s /\ s \in SUBSET u
  BY <1>6, PickIn
<1>8. s \ {Pick(s)} \notin Bad
  BY <1>1, <1>4, <1>7, Smaller
<1>9. g[s \ {Pick(s)}] = h[s \ {Pick(s)}]
  BY <1>7, <1>8
<1> QED
  BY <1>5, <1>6, <1>7, <1>9

LEMMA SumsExist ==
  ASSUME NEW S, IsFiniteSet(S), NEW q
  PROVE  \E g : Sums(q, S, g)
<1> SUFFICES ASSUME ~ \E g : Sums(q, S, g) PROVE FALSE
  OBVIOUS
<1> DEFINE Bad == {s \in SUBSET S : ~ \E g : Sums(q, s, g)}
           Sizes == {Cardinality(s) : s \in Bad}
<1>1. \A s \in SUBSET S : IsFiniteSet(s) /\ Cardinality(s) \in Nat
  BY FS_Subset, FS_CardinalityType
<1>2. Sizes \subseteq Nat /\ Sizes # {}
  BY <1>1
<1>3. PICK n \in Sizes : \A m \in Sizes : n <= m
  <2> HIDE DEF Sizes
  <2> QED BY <1>2, LeastNat
<1>4. PICK u \in Bad : \A r \in Bad : Cardinality(u) <= Cardinality(r)
  BY <1>3
<1> DEFINE of == [s \in SUBSET u |-> CHOOSE g : Sums(q, s, g)]
           g == [s \in SUBSET u |-> IF s = {} THEN 0
                   ELSE q[Pick(s)] + of[s \ {Pick(s)}][s \ {Pick(s)}]]
<1>5. ASSUME NEW s \in SUBSET u, s # u PROVE Sums(q, s, of[s])
  <2>1. \E x \in u : s \subseteq u \ {x}
    BY <1>5
  <2>2. Cardinality(s) < Cardinality(u)
    <3>1. PICK x \in u : s \subseteq u \ {x}
      BY <2>1
    <3>2. IsFiniteSet(u)
      BY <1>1, <1>4
    <3>3. /\ IsFiniteSet(u \ {x}) /\ Cardinality(u) \in Nat /\ Cardinality(u \ {x}) \in Nat
          /\ Cardinality(u \ {x}) < Cardinality(u)
      BY <3>1, <3>2, Smaller, Zenon
    <3>4. Cardinality(s) <= Cardinality(u \ {x})
      BY <3>1, <3>3, FS_Subset, Zenon
    <3>5. Cardinality(s) \in Nat
      BY <1>1, <1>4
    <3> QED
      BY <3>3, <3>4, <3>5
  <2>3. s \notin Bad
    BY <1>1, <1>4, <1>5, <2>2
  <2> HIDE DEF Sums
  <2> QED
    BY <1>4, <2>3
<1>6. ASSUME NEW s \in SUBSET u, s # {} PROVE g[s \ {Pick(s)}] = of[s \ {Pick(s)}][s \ {Pick(s)}]
  <2> DEFINE r == s \ {Pick(s)}
  <2>1. Pick(s) \in s /\ r \in SUBSET u /\ r # u
    BY <1>6, PickIn
  <2>2. of[r][r] = IF r = {} THEN 0 ELSE q[Pick(r)] + of[r][r \ {Pick(r)}]
    <3>1. Sums(q, r, of[r])
      BY <1>5, <2>1
    <3> HIDE DEF of, r
    <3> QED
      BY <3>1 DEF Sums
  <2>3. g[r] = IF r = {} THEN 0 ELSE q[Pick(r)] + of[r \ {Pick(r)}][r \ {Pick(r)}]
    BY <2>1
  <2>4. ASSUME r # {} PROVE of[r][r \ {Pick(r)}] = of[r \ {Pick(r)}][r \ {Pick(r)}]
    <3> DEFINE v == r \ {Pick(r)}
    <3>1. Pick(r) \in r /\ v \in SUBSET u /\ v # u /\ v \subseteq r
      BY <2>1, <2>4, PickIn
    <3>2. Sums(q, r, of[r]) /\ Sums(q, v, of[v]) /\ IsFiniteSet(v)
      BY <1>1, <1>4, <1>5, <2>1, <3>1
    <3> HIDE DEF v, r, of
    <3>3. of[r][v] = of[v][v]
      BY <3>1, <3>2, SumsAgree
    <3> QED BY <3>3 DEF v
  <2> HIDE DEF g, of, r
  <2>5. g[r] = of[r][r]
    BY <2>2, <2>3, <2>4
  <2> QED BY <2>5 DEF r
<1>7. Sums(q, u, g)
  <2>1. ASSUME NEW s \in SUBSET u
        PROVE  g[s] = IF s = {} THEN 0 ELSE q[Pick(s)] + g[s \ {Pick(s)}]
    <3>1. g[s] = IF s = {} THEN 0 ELSE q[Pick(s)] + of[s \ {Pick(s)}][s \ {Pick(s)}]
      OBVIOUS
    <3>2. s # {} => g[s \ {Pick(s)}] = of[s \ {Pick(s)}][s \ {Pick(s)}]
      BY <1>6
    <3> HIDE DEF g, of
    <3> QED
      BY <3>1, <3>2
  <2>2. g = [s \in SUBSET u |-> g[s]]
    OBVIOUS
  <2> HIDE DEF g
  <2>3. g = [s \in SUBSET u |-> IF s = {} THEN 0 ELSE q[Pick(s)] + g[s \ {Pick(s)}]]
    BY <2>1, <2>2
  <2> QED BY <2>3 DEF Sums
<1> QED
  BY <1>4, <1>7

----------------------------------------------------------------------------
(* Totals.                                                                 *)

\* A sum is that of one element and the rest.
LEMMA TotalRec ==
  ASSUME NEW S, IsFiniteSet(S), NEW q
  PROVE  Total(q, S) = IF S = {} THEN 0 ELSE q[Pick(S)] + Total(q, S \ {Pick(S)})
<1> DEFINE R == S \ {Pick(S)}
           g == CHOOSE f : Sums(q, S, f)
           h == CHOOSE f : Sums(q, R, f)
<1>1. IsFiniteSet(R) /\ R \subseteq S
  BY FS_Subset
<1>2. Sums(q, S, g)
  BY SumsExist
<1>3. Sums(q, R, h)
  <2> HIDE DEF R
  <2> QED
    BY <1>1, SumsExist
<1> HIDE DEF R
<1>4. Total(q, S) = g[S] /\ Total(q, R) = h[R]
  BY TotalSums
<1> HIDE DEF g, h
<1>5. g[R] = h[R]
  BY <1>1, <1>2, <1>3, SumsAgree
<1>6. g[S] = IF S = {} THEN 0 ELSE q[Pick(S)] + g[R]
  BY <1>2 DEF Sums, R
<1> QED
  BY <1>4, <1>5, <1>6 DEF R

\* The sum depends on the values of the set's elements only.
LEMMA TotalAgrees ==
  ASSUME NEW S, IsFiniteSet(S), NEW q, NEW p, \A x \in S : q[x] = p[x]
  PROVE  Total(q, S) = Total(p, S)
<1>1. \E g : Sums(q, S, g)
  BY SumsExist
<1>2. \E g : Sums(p, S, g)
  BY SumsExist
<1> DEFINE g == CHOOSE f : Sums(q, S, f)
           h == CHOOSE f : Sums(p, S, f)
<1>3. Sums(q, S, g) /\ Sums(p, S, h)
  BY <1>1, <1>2
<1>4. Total(q, S) = g[S] /\ Total(p, S) = h[S]
  BY TotalSums
<1> HIDE DEF g, h
<1> QED
  BY <1>3, <1>4, SumsAgree

\* Sums of integers are integers, whatever the order.
LEMMA TotalType ==
  ASSUME NEW S, IsFiniteSet(S), NEW q, \A x \in S : q[x] \in Int
  PROVE  Total(q, S) \in Int
<1> SUFFICES ASSUME Total(q, S) \notin Int PROVE FALSE
  OBVIOUS
<1> DEFINE Bad == {s \in SUBSET S : Total(q, s) \notin Int}
           Sizes == {Cardinality(s) : s \in Bad}
<1>1. \A s \in SUBSET S : IsFiniteSet(s) /\ Cardinality(s) \in Nat
  BY FS_Subset, FS_CardinalityType
<1>2. Sizes \subseteq Nat /\ Sizes # {}
  BY <1>1
<1>3. PICK n \in Sizes : \A m \in Sizes : n <= m
  <2> HIDE DEF Sizes
  <2> QED BY <1>2, LeastNat
<1>4. PICK s \in Bad : \A r \in Bad : Cardinality(s) <= Cardinality(r)
  BY <1>3
<1>5. s # {}
  BY <1>1, <1>4, TotalRec
<1>6. Pick(s) \in s /\ s \in SUBSET S
  BY <1>5, PickIn
<1>7. s \ {Pick(s)} \notin Bad
  BY <1>1, <1>4, <1>6, Smaller
<1>8. Total(q, s \ {Pick(s)}) \in Int
  BY <1>6, <1>7
<1>9. Total(q, s) = q[Pick(s)] + Total(q, s \ {Pick(s)})
  BY <1>1, <1>5, <1>6, TotalRec
<1> QED
  BY <1>4, <1>6, <1>8, <1>9

\* The sum does not depend on the order in which its elements are taken.
LEMMA TotalWithout ==
  ASSUME NEW S, IsFiniteSet(S), NEW q, \A x \in S : q[x] \in Int, NEW y \in S
  PROVE  Total(q, S) = q[y] + Total(q, S \ {y})
<1> DEFINE Right(s) == \A x \in s : Total(q, s) = q[x] + Total(q, s \ {x})
<1> SUFFICES ASSUME ~Right(S) PROVE FALSE
  OBVIOUS
<1> DEFINE Bad == {s \in SUBSET S : ~Right(s)}
           Sizes == {Cardinality(s) : s \in Bad}
<1>1. \A s \in SUBSET S : IsFiniteSet(s) /\ Cardinality(s) \in Nat /\ Total(q, s) \in Int
  BY FS_Subset, FS_CardinalityType, TotalType
<1> HIDE DEF Right
<1>2. Sizes \subseteq Nat /\ Sizes # {}
  BY <1>1
<1>3. PICK n \in Sizes : \A m \in Sizes : n <= m
  <2> HIDE DEF Sizes
  <2> QED BY <1>2, LeastNat
<1>4. PICK s \in Bad : \A r \in Bad : Cardinality(s) <= Cardinality(r)
  BY <1>3
<1>5. PICK x \in s : Total(q, s) # q[x] + Total(q, s \ {x})
  BY <1>4 DEF Right
<1> DEFINE z == Pick(s)
<1>6. z \in s /\ s \in SUBSET S
  BY <1>4, <1>5, PickIn
<1>7. Total(q, s) = q[z] + Total(q, s \ {z})
  BY <1>1, <1>5, <1>6, TotalRec
<1>8. x # z
  BY <1>5, <1>7
<1> HIDE DEF z, Sizes
<1>9. Right(s \ {z}) /\ Right(s \ {x})
  BY <1>1, <1>4, <1>5, <1>6, Smaller
<1> HIDE DEF Bad
<1>10. /\ Total(q, s \ {z}) = q[x] + Total(q, (s \ {z}) \ {x})
       /\ Total(q, s \ {x}) = q[z] + Total(q, (s \ {x}) \ {z})
  BY <1>5, <1>6, <1>8, <1>9 DEF Right
<1>11. (s \ {z}) \ {x} = (s \ {x}) \ {z}
  OBVIOUS
<1>12. q[x] \in Int /\ q[z] \in Int /\ Total(q, (s \ {x}) \ {z}) \in Int
  BY <1>1, <1>5, <1>6
<1>13. Total(q, s \ {x}) = q[z] + Total(q, (s \ {z}) \ {x})
  BY <1>10, <1>11
<1>14. \A a, b, c \in Int : a + (b + c) = b + (a + c)
  OBVIOUS
<1>15. q[z] + (q[x] + Total(q, (s \ {z}) \ {x})) = q[x] + (q[z] + Total(q, (s \ {z}) \ {x}))
  <2> DEFINE a == q[z]
             b == q[x]
             c == Total(q, (s \ {z}) \ {x})
  <2>1. a \in Int /\ b \in Int /\ c \in Int
    BY <1>11, <1>12, Zenon
  <2> HIDE DEF a, b, c
  <2>2. a + (b + c) = b + (a + c)
    BY <2>1
  <2> QED
    BY <2>2 DEF a, b, c
<1>16. Total(q, s) = q[x] + Total(q, s \ {x})
  BY <1>7, <1>10, <1>13, <1>15, Zenon
<1> QED
  BY <1>5, <1>16

\* A sum of natural numbers grows with its set.
LEMMA TotalGrows ==
  ASSUME NEW S, IsFiniteSet(S), NEW q, \A x \in S : q[x] \in Nat, NEW R \in SUBSET S
  PROVE  Total(q, R) <= Total(q, S)
<1> SUFFICES ASSUME ~(Total(q, R) <= Total(q, S)) PROVE FALSE
  OBVIOUS
<1> DEFINE Bad == {s \in SUBSET S : R \subseteq s /\ ~(Total(q, R) <= Total(q, s))}
           Sizes == {Cardinality(s) : s \in Bad}
<1>1. \A s \in SUBSET S : IsFiniteSet(s) /\ Cardinality(s) \in Nat /\ Total(q, s) \in Int
  BY FS_Subset, FS_CardinalityType, TotalType
<1>2. Sizes \subseteq Nat /\ Sizes # {}
  BY <1>1
<1>3. PICK n \in Sizes : \A m \in Sizes : n <= m
  <2> HIDE DEF Sizes
  <2> QED BY <1>2, LeastNat
<1>4. PICK s \in Bad : \A r \in Bad : Cardinality(s) <= Cardinality(r)
  BY <1>3
<1>5. PICK x \in s : x \notin R
  <2>1. s # R
    BY <1>1, <1>4
  <2> QED
    BY <1>4, <2>1
<1>6. s \ {x} \notin Bad
  BY <1>1, <1>4, <1>5, Smaller
<1>7. Total(q, R) <= Total(q, s \ {x})
  BY <1>4, <1>5, <1>6
<1>8. Total(q, s) = q[x] + Total(q, s \ {x})
  BY <1>1, <1>4, <1>5, TotalWithout
<1>9. /\ q[x] \in Nat /\ Total(q, s \ {x}) \in Int /\ Total(q, R) \in Int /\ Total(q, s) \in Int
  BY <1>1, <1>4, <1>5
<1> QED
  BY <1>4, <1>7, <1>8, <1>9

\* A sum with one more element.
LEMMA TotalWith ==
  ASSUME NEW S, IsFiniteSet(S), NEW y, y \notin S, NEW q, \A x \in S \cup {y} : q[x] \in Int
  PROVE  Total(q, S \cup {y}) = q[y] + Total(q, S)
<1>1. IsFiniteSet(S \cup {y}) /\ (S \cup {y}) \ {y} = S
  BY FS_AddElement
<1> QED
  BY <1>1, TotalWithout

LEMMA TotalEmpty ==
  ASSUME NEW q
  PROVE  Total(q, {}) = 0
BY TotalRec, FS_EmptySet

----------------------------------------------------------------------------
(* A finite set can be sorted by every order that leaves no ties.          *)

StrictOrder(R, S) ==
  /\ \A x \in S : <<x, x>> \notin R
  /\ \A x, y \in S : x # y => <<x, y>> \in R \/ <<y, x>> \in R
  /\ \A x, y, z \in S : <<x, y>> \in R /\ <<y, z>> \in R => <<x, z>> \in R

LEMMA FirstExists ==
  ASSUME NEW S, IsFiniteSet(S), S # {}, NEW R, StrictOrder(R, S)
  PROVE  \E m \in S : \A x \in S \ {m} : <<m, x>> \in R
<1> DEFINE HasFirst(s) == \E m \in s : \A x \in s \ {m} : <<m, x>> \in R
           Bad == {s \in SUBSET S : s # {} /\ ~HasFirst(s)}
           Sizes == {Cardinality(s) : s \in Bad}
<1> SUFFICES ASSUME ~HasFirst(S) PROVE FALSE
  OBVIOUS
<1>1. \A s \in SUBSET S : IsFiniteSet(s) /\ Cardinality(s) \in Nat
  BY FS_Subset, FS_CardinalityType
<1>2. Sizes \subseteq Nat /\ Sizes # {}
  BY <1>1
<1>3. PICK n \in Sizes : \A m \in Sizes : n <= m
  <2> HIDE DEF Sizes
  <2> QED BY <1>2, LeastNat
<1>4. PICK s \in Bad : \A r \in Bad : Cardinality(s) <= Cardinality(r)
  BY <1>3
<1>5. PICK y \in s : TRUE
  BY <1>4
<1>6. s \ {y} \notin Bad
  <2>1. Cardinality(s \ {y}) < Cardinality(s)
    BY <1>1, <1>4, <1>5, Smaller
  <2>2. s \ {y} \in SUBSET S /\ s \in SUBSET S
    BY <1>4
  <2>3. Cardinality(s) \in Nat /\ Cardinality(s \ {y}) \in Nat
    BY <1>1, <2>2
  <2>4. ~(Cardinality(s) <= Cardinality(s \ {y}))
    BY <2>1, <2>3
  <2> HIDE DEF Bad
  <2> QED BY <1>4, <2>4
<1>7. CASE s = {y}
  BY <1>4, <1>7
<1>8. CASE s # {y}
  <2>1. PICK m \in s \ {y} : \A x \in (s \ {y}) \ {m} : <<m, x>> \in R
    BY <1>4, <1>6, <1>8
  <2>2. m \in S /\ y \in S /\ m # y /\ s \subseteq S
    BY <1>4, <2>1
  <2>3. CASE <<m, y>> \in R
    <3>1. \A x \in s \ {m} : <<m, x>> \in R
      BY <2>1, <2>3
    <3> QED BY <1>4, <2>1, <3>1
  <2>4. CASE <<y, m>> \in R
    <3>1. \A x \in s \ {y} : <<y, x>> \in R
      <4> SUFFICES ASSUME NEW x \in s \ {y} PROVE <<y, x>> \in R
        OBVIOUS
      <4>1. CASE x = m
        BY <2>4, <4>1
      <4>2. CASE x # m
        <5>1. <<m, x>> \in R /\ x \in S
          BY <2>1, <2>2, <4>2
        <5> QED BY <2>2, <2>4, <5>1 DEF StrictOrder
      <4> QED BY <4>1, <4>2
    <3> QED BY <1>4, <1>5, <3>1
  <2> QED BY <2>2, <2>3, <2>4 DEF StrictOrder
<1> QED BY <1>7, <1>8

LEMMA SortingExists ==
  ASSUME NEW S, IsFiniteSet(S), NEW R, StrictOrder(R, S)
  PROVE  \E q \in [1..Cardinality(S) -> S] : SortedBy(q, S, R)
<1> DEFINE Sortable(s) == \E q \in [1..Cardinality(s) -> s] : SortedBy(q, s, R)
           Bad == {s \in SUBSET S : ~Sortable(s)}
           Sizes == {Cardinality(s) : s \in Bad}
<1> SUFFICES ASSUME ~Sortable(S) PROVE FALSE
  OBVIOUS
<1>1. \A s \in SUBSET S : IsFiniteSet(s) /\ Cardinality(s) \in Nat
  BY FS_Subset, FS_CardinalityType
<1> HIDE DEF Sortable
<1>2. Sizes \subseteq Nat /\ Sizes # {}
  BY <1>1
<1>3. PICK n \in Sizes : \A m \in Sizes : n <= m
  <2> HIDE DEF Sizes
  <2> QED BY <1>2, LeastNat
<1>4. PICK s \in Bad : \A r \in Bad : Cardinality(s) <= Cardinality(r)
  BY <1>3
<1>5. CASE s = {}
  <2>1. Cardinality(s) = 0
    BY <1>5, FS_EmptySet
  <2>2. [i \in 1..0 |-> 0] \in [1..0 -> {}] /\ SortedBy([i \in 1..0 |-> 0], {}, R)
    BY DEF SortedBy
  <2>3. Sortable(s)
    BY <1>5, <2>1, <2>2 DEF Sortable
  <2> QED BY <1>4, <2>3
<1>6. CASE s # {}
  <2>1. PICK m \in s : \A x \in s \ {m} : <<m, x>> \in R
    <3>1. StrictOrder(R, s) /\ IsFiniteSet(s)
      BY <1>1, <1>4 DEF StrictOrder
    <3> QED BY <1>6, <3>1, FirstExists
  <2> DEFINE r == s \ {m}
             k == Cardinality(r)
  <2>2. IsFiniteSet(r) /\ k \in Nat /\ Cardinality(s) = k + 1
    <3>1. IsFiniteSet(s) /\ Cardinality(s) \in Nat
      BY <1>1, <1>4
    <3>2. IsFiniteSet(r) /\ Cardinality(r) = Cardinality(s) - 1
      BY <2>1, <3>1, FS_RemoveElement
    <3> QED BY <3>1, <3>2, FS_CardinalityType
  <2>3. Sortable(r)
    <3>1. r \in SUBSET S
      BY <1>4
    <3>2. Cardinality(s) \in Nat /\ ~(Cardinality(s) <= Cardinality(r))
      BY <1>1, <1>4, <2>2
    <3> QED BY <1>4, <3>1, <3>2
  <2>4. PICK p \in [1..k -> r] : SortedBy(p, r, R)
    BY <2>3 DEF Sortable
  <2> HIDE DEF k
  <2> DEFINE q == [i \in 1..(k + 1) |-> IF i = 1 THEN m ELSE p[i - 1]]
  <2>5. ASSUME NEW i \in 1..(k + 1), i # 1
        PROVE  i - 1 \in 1..k /\ q[i] = p[i - 1] /\ q[i] \in r
    BY <2>2, <2>5
  <2>6. q[1] = m /\ 1 \in 1..(k + 1)
    BY <2>2
  <2>7. ASSUME NEW x \in s PROVE \E i \in 1..(k + 1) : q[i] = x
    <3>1. CASE x = m
      BY <2>6, <3>1
    <3>2. CASE x # m
      <4>1. PICK j \in 1..k : p[j] = x
        BY <2>4, <3>2 DEF SortedBy
      <4>2. j + 1 \in 1..(k + 1) /\ j + 1 # 1 /\ (j + 1) - 1 = j
        BY <2>2
      <4> QED BY <4>1, <4>2
    <3> QED BY <3>1, <3>2
  <2>8. ASSUME NEW i \in 1..(k + 1), NEW j \in 1..(k + 1), i < j PROVE <<q[i], q[j]>> \in R
    <3>1. j # 1 /\ q[j] = p[j - 1] /\ q[j] \in r /\ j - 1 \in 1..k
      BY <2>2, <2>5, <2>8
    <3>2. CASE i = 1
      BY <2>1, <2>6, <3>1, <3>2
    <3>3. CASE i # 1
      <4>1. q[i] = p[i - 1] /\ i - 1 \in 1..k
        BY <2>5, <3>3
      <4>2. i - 1 < j - 1
        BY <2>2, <2>8
      <4>3. <<p[i - 1], p[j - 1]>> \in R
        BY <2>4, <3>1, <4>1, <4>2 DEF SortedBy
      <4> QED BY <3>1, <4>1, <4>3
    <3> QED BY <3>2, <3>3
  <2>9. q \in [1..(k + 1) -> s]
    BY <2>1, <2>5, <2>6
  <2>10. DOMAIN q = 1..(k + 1)
    OBVIOUS
  <2> HIDE DEF q, r
  <2>11. SortedBy(q, s, R)
    BY <2>7, <2>8, <2>10 DEF SortedBy
  <2>12. Sortable(s)
    BY <2>2, <2>9, <2>11 DEF Sortable, k
  <2> QED BY <1>4, <2>12
<1> QED BY <1>5, <1>6

LEMMA SortedIsSorted ==
  ASSUME NEW S, IsFiniteSet(S), NEW R, StrictOrder(R, S)
  PROVE  /\ Sorted(S, R) \in [1..Cardinality(S) -> S]
         /\ \A x \in S : \E i \in 1..Cardinality(S) : Sorted(S, R)[i] = x
         /\ \A i, j \in 1..Cardinality(S) : i < j => <<Sorted(S, R)[i], Sorted(S, R)[j]>> \in R
<1>1. \E q \in [1..Cardinality(S) -> S] : SortedBy(q, S, R)
  BY SortingExists
<1> DEFINE Good(q) == q \in [1..Cardinality(S) -> S] /\ SortedBy(q, S, R)
<1>2. \E q : Good(q)
  BY <1>1
<1>3. Sorted(S, R) = CHOOSE q : Good(q)
  BY DEF Sorted
<1> HIDE DEF Good
<1>4. Good(Sorted(S, R))
  BY <1>2, <1>3
<1> QED BY <1>4 DEF Good, SortedBy

\* Of finitely many integers one is the largest.
LEMMA LargestExists ==
  ASSUME NEW S, IsFiniteSet(S), S # {}, NEW q, \A x \in S : q[x] \in Int
  PROVE  \E m \in S : \A x \in S : q[m] >= q[x]
<1> DEFINE HasLargest(s) == \E m \in s : \A x \in s : q[m] >= q[x]
           Bad == {s \in SUBSET S : s # {} /\ ~HasLargest(s)}
           Sizes == {Cardinality(s) : s \in Bad}
<1> SUFFICES ASSUME ~HasLargest(S) PROVE FALSE
  OBVIOUS
<1>1. \A s \in SUBSET S : IsFiniteSet(s) /\ Cardinality(s) \in Nat
  BY FS_Subset, FS_CardinalityType
<1>2. Sizes \subseteq Nat /\ Sizes # {}
  BY <1>1
<1>3. PICK n \in Sizes : \A m \in Sizes : n <= m
  <2> HIDE DEF Sizes
  <2> QED BY <1>2, LeastNat
<1>4. PICK s \in Bad : \A r \in Bad : Cardinality(s) <= Cardinality(r)
  BY <1>3
<1>5. PICK y \in s : TRUE
  BY <1>4
<1>6. s \ {y} \notin Bad
  <2>1. Cardinality(s \ {y}) < Cardinality(s)
    BY <1>1, <1>4, <1>5, Smaller
  <2>2. s \ {y} \in SUBSET S /\ s \in SUBSET S
    BY <1>4
  <2>3. Cardinality(s) \in Nat /\ Cardinality(s \ {y}) \in Nat
    BY <1>1, <2>2
  <2>4. ~(Cardinality(s) <= Cardinality(s \ {y}))
    BY <2>1, <2>3
  <2> HIDE DEF Bad
  <2> QED BY <1>4, <2>4
<1>7. CASE s = {y}
  BY <1>4, <1>7
<1>8. CASE s # {y}
  <2>1. PICK m \in s \ {y} : \A x \in s \ {y} : q[m] >= q[x]
    BY <1>4, <1>6, <1>8
  <2>2. m \in s /\ \A x \in s : q[x] \in Int /\ (x = y \/ q[m] >= q[x])
    BY <1>4, <2>1
  <2>3. HasLargest(s)
    BY <1>5, <2>2
  <2> QED BY <1>4, <2>3
<1> QED BY <1>7, <1>8

\* So a finite set of integers that are values of a function has a Max and a Min.
LEMMA MaxOfValues ==
  ASSUME NEW S, IsFiniteSet(S), S # {}, NEW q, \A x \in S : q[x] \in Int
  PROVE  Max({q[x] : x \in S}) \in Int /\ \A y \in S : Max({q[x] : x \in S}) >= q[y]
<1>1. PICK m \in S : \A x \in S : q[m] >= q[x]
  BY LargestExists
<1> DEFINE V == {q[x] : x \in S}
<1>2. q[m] \in V /\ \A v \in V : q[m] >= v
  BY <1>1
<1>3. Max(V) \in V /\ \A v \in V : Max(V) >= v
  BY <1>2 DEF Max
<1> QED BY <1>3

LEMMA MinOfValues ==
  ASSUME NEW S, IsFiniteSet(S), S # {}, NEW q, \A x \in S : q[x] \in Int
  PROVE  Min({q[x] : x \in S}) \in Int /\ \A y \in S : Min({q[x] : x \in S}) <= q[y]
<1> DEFINE p == [x \in S |-> -q[x]]
<1>1. \A x \in S : p[x] = -q[x] /\ p[x] \in Int
  OBVIOUS
<1> HIDE DEF p
<1>2. PICK m \in S : \A x \in S : p[m] >= p[x]
  BY <1>1, LargestExists
<1>3. \A x \in S : q[m] <= q[x]
  BY <1>1, <1>2
<1> DEFINE V == {q[x] : x \in S}
<1>4. q[m] \in V /\ \A v \in V : q[m] <= v
  BY <1>3
<1>5. Min(V) \in V /\ \A v \in V : Min(V) <= v
  BY <1>4 DEF Min
<1> QED BY <1>5

\* A sum of integers grows with its summands.
LEMMA TotalMonotone ==
  ASSUME NEW S, IsFiniteSet(S), NEW q, NEW p, \A x \in S : q[x] \in Int /\ p[x] \in Int,
         \A x \in S : q[x] <= p[x]
  PROVE  Total(q, S) <= Total(p, S)
<1> DEFINE Right(s) == Total(q, s) <= Total(p, s)
<1> SUFFICES ASSUME ~Right(S) PROVE FALSE
  OBVIOUS
<1> DEFINE Bad == {s \in SUBSET S : ~Right(s)}
           Sizes == {Cardinality(s) : s \in Bad}
<1>1. \A s \in SUBSET S : /\ IsFiniteSet(s) /\ Cardinality(s) \in Nat
                           /\ Total(q, s) \in Int /\ Total(p, s) \in Int
  BY FS_Subset, FS_CardinalityType, TotalType
<1> HIDE DEF Right
<1>2. Sizes \subseteq Nat /\ Sizes # {}
  BY <1>1
<1>3. PICK n \in Sizes : \A m \in Sizes : n <= m
  <2> HIDE DEF Sizes
  <2> QED BY <1>2, LeastNat
<1>4. PICK s \in Bad : \A r \in Bad : Cardinality(s) <= Cardinality(r)
  BY <1>3
<1>5. s # {}
  BY <1>4, TotalEmpty DEF Right
<1>6. PICK y \in s : TRUE
  BY <1>5
<1>7. s \ {y} \notin Bad
  BY <1>1, <1>4, <1>6, Smaller
<1>8. Total(q, s \ {y}) <= Total(p, s \ {y})
  BY <1>4, <1>7 DEF Right
<1>9. Total(q, s) = q[y] + Total(q, s \ {y}) /\ Total(p, s) = p[y] + Total(p, s \ {y})
  BY <1>1, <1>4, <1>6, TotalWithout
<1>10. /\ q[y] \in Int /\ p[y] \in Int /\ q[y] <= p[y]
       /\ Total(q, s \ {y}) \in Int /\ Total(p, s \ {y}) \in Int
  BY <1>1, <1>4, <1>6
<1>11. Total(q, s) <= Total(p, s)
  BY <1>8, <1>9, <1>10
<1> QED BY <1>4, <1>11 DEF Right

LEMMA TotalStrictlyMonotone ==
  ASSUME NEW S, IsFiniteSet(S), NEW q, NEW p, \A x \in S : q[x] \in Int /\ p[x] \in Int,
         \A x \in S : q[x] <= p[x], NEW y \in S, q[y] < p[y]
  PROVE  Total(q, S) < Total(p, S)
<1>1. Total(q, S) = q[y] + Total(q, S \ {y}) /\ Total(p, S) = p[y] + Total(p, S \ {y})
  BY TotalWithout
<1>2. IsFiniteSet(S \ {y})
  BY FS_Subset
<1>3. /\ Total(q, S \ {y}) \in Int /\ Total(p, S \ {y}) \in Int
      /\ Total(q, S \ {y}) <= Total(p, S \ {y})
  BY <1>2, TotalType, TotalMonotone
<1> QED BY <1>1, <1>3

----------------------------------------------------------------------------
(* Sums of parts, of groups and of differences.                            *)

\* A family of subsets of a finite set has a smallest one: what is wrong of some
\* subset is wrong of one whose own subsets are all right.
LEMMA SmallestBad ==
  ASSUME NEW S, IsFiniteSet(S), NEW B, B \subseteq SUBSET S, B # {}
  PROVE  \E s \in B : \A x \in s : s \ {x} \notin B
<1> DEFINE Sizes == {Cardinality(s) : s \in B}
<1>1. \A s \in B : IsFiniteSet(s) /\ Cardinality(s) \in Nat
  BY FS_Subset, FS_CardinalityType
<1>2. Sizes \subseteq Nat /\ Sizes # {}
  BY <1>1
<1>3. PICK n \in Sizes : \A m \in Sizes : n <= m
  <2> HIDE DEF Sizes
  <2> QED BY <1>2, LeastNat
<1>4. PICK s \in B : \A r \in B : Cardinality(s) <= Cardinality(r)
  BY <1>3
<1>5. ASSUME NEW x \in s PROVE s \ {x} \notin B
  <2>1. /\ Cardinality(s) \in Nat /\ Cardinality(s \ {x}) \in Nat
        /\ Cardinality(s \ {x}) < Cardinality(s)
    BY <1>1, <1>4, <1>5, Smaller
  <2> QED BY <1>4, <2>1
<1> QED BY <1>4, <1>5

\* A sum splits into that of a part and that of the rest.
LEMMA TotalSplit ==
  ASSUME NEW S, IsFiniteSet(S), NEW q, \A x \in S : q[x] \in Int, NEW R, R \subseteq S
  PROVE  Total(q, S) = Total(q, R) + Total(q, S \ R)
<1> DEFINE B == {r \in SUBSET S : Total(q, S) # Total(q, r) + Total(q, S \ r)}
<1> SUFFICES ASSUME R \in B PROVE FALSE
  OBVIOUS
<1>1. PICK r \in B : \A x \in r : r \ {x} \notin B
  <2>1. B \subseteq SUBSET S /\ B # {}
    OBVIOUS
  <2> HIDE DEF B
  <2> QED BY <2>1, SmallestBad
<1>2. \A s \in SUBSET S : IsFiniteSet(s) /\ Total(q, s) \in Int
  BY FS_Subset, TotalType
<1>3. r # {}
  <2>1. S \ {} = S /\ Total(q, {}) = 0 /\ Total(q, S) \in Int
    BY <1>2, TotalEmpty
  <2>2. Total(q, S) = Total(q, {}) + Total(q, S \ {})
    BY <2>1
  <2> QED BY <1>1, <2>2
<1>4. PICK x \in r : x \in S
  BY <1>1, <1>3
<1> DEFINE t == r \ {x}
<1>5. t \in SUBSET S /\ S \ t = (S \ r) \cup {x} /\ x \notin S \ r
  BY <1>1, <1>4
<1>6. Total(q, S) = Total(q, t) + Total(q, S \ t)
  BY <1>1, <1>4, <1>5
<1>7. Total(q, r) = q[x] + Total(q, t)
  BY <1>1, <1>2, <1>4, TotalWithout
<1>8. Total(q, S \ t) = q[x] + Total(q, S \ r)
  <2>1. IsFiniteSet(S \ r) /\ \A y \in (S \ r) \cup {x} : q[y] \in Int
    BY <1>2, <1>4
  <2> HIDE DEF t, B
  <2>2. Total(q, (S \ r) \cup {x}) = q[x] + Total(q, S \ r)
    BY <1>5, <2>1, TotalWith
  <2> QED BY <1>5, <2>2
<1>9. q[x] \in Int /\ Total(q, t) \in Int /\ Total(q, S \ r) \in Int /\ Total(q, r) \in Int
  BY <1>1, <1>2, <1>4, <1>5
<1>10. Total(q, S) # Total(q, r) + Total(q, S \ r)
  BY <1>1
<1> HIDE DEF t, B
<1> QED BY <1>6, <1>7, <1>8, <1>9, <1>10

LEMMA TotalConstant ==
  ASSUME NEW S, IsFiniteSet(S), NEW q, NEW k \in Int, \A x \in S : q[x] = k
  PROVE  Total(q, S) = k * Cardinality(S)
<1> DEFINE B == {r \in SUBSET S : Total(q, r) # k * Cardinality(r)}
<1> SUFFICES ASSUME S \in B PROVE FALSE
  OBVIOUS
<1>1. PICK r \in B : \A x \in r : r \ {x} \notin B
  <2>1. B \subseteq SUBSET S /\ B # {}
    OBVIOUS
  <2> HIDE DEF B
  <2> QED BY <2>1, SmallestBad
<1>2. IsFiniteSet(r) /\ \A x \in r : q[x] \in Int
  BY <1>1, FS_Subset
<1>3. r # {}
  BY <1>1, TotalEmpty, FS_EmptySet
<1>4. PICK x \in r : TRUE
  BY <1>3
<1>5. Total(q, r \ {x}) = k * Cardinality(r \ {x})
  BY <1>1, <1>4
<1>6. Total(q, r) = k + Total(q, r \ {x})
  BY <1>1, <1>2, <1>4, TotalWithout
<1>7. Cardinality(r) \in Nat /\ Cardinality(r \ {x}) = Cardinality(r) - 1
  BY <1>2, <1>4, FS_RemoveElement, FS_CardinalityType
<1>8. \A n \in Nat : k + k * (n - 1) = k * n
  OBVIOUS
<1> QED BY <1>1, <1>5, <1>6, <1>7, <1>8

\* A sum can be taken group by group.
LEMMA TotalOfGroups ==
  ASSUME NEW S, IsFiniteSet(S), NEW q, \A x \in S : q[x] \in Int,
         NEW K, IsFiniteSet(K), NEW G, NEW p,
         \A k \in K : G[k] \subseteq S /\ p[k] = Total(q, G[k]),
         \A x \in S : \E k \in K : x \in G[k],
         \A k, l \in K : k # l => G[k] \cap G[l] = {}
  PROVE  Total(p, K) = Total(q, S)
<1> DEFINE In(J) == UNION {G[k] : k \in J}
           B == {J \in SUBSET K : Total(p, J) # Total(q, In(J))}
<1>0. In(K) = S
  OBVIOUS
<1> SUFFICES ASSUME K \in B PROVE FALSE
  BY <1>0
<1>1. PICK J \in B : \A x \in J : J \ {x} \notin B
  <2>1. B \subseteq SUBSET K /\ B # {}
    OBVIOUS
  <2> HIDE DEF B
  <2> QED BY <2>1, SmallestBad
<1>2. /\ \A s \in SUBSET S : IsFiniteSet(s) /\ Total(q, s) \in Int
      /\ \A k \in K : p[k] \in Int
      /\ IsFiniteSet(J) /\ J \subseteq K
  <2>1. \A s \in SUBSET S : IsFiniteSet(s) /\ Total(q, s) \in Int
    BY FS_Subset, TotalType
  <2>2. J \subseteq K
    BY <1>1
  <2>3. \A k \in K : p[k] \in Int
    BY <2>1
  <2> QED BY <2>1, <2>2, <2>3, FS_Subset
<1>3. J # {}
  <2>1. In({}) = {}
    OBVIOUS
  <2> QED BY <1>1, <2>1, TotalEmpty
<1>4. PICK k \in J : k \in K
  BY <1>1, <1>3
<1> DEFINE I == J \ {k}
<1>5. Total(p, I) = Total(q, In(I))
  BY <1>1, <1>2, <1>4
<1>6. Total(p, J) = p[k] + Total(p, I)
  BY <1>2, <1>4, TotalWithout
<1>7. In(J) \subseteq S /\ G[k] \subseteq In(J) /\ In(J) \ G[k] = In(I) /\ In(I) \subseteq S
  BY <1>2, <1>4
<1>8. Total(q, In(J)) = Total(q, G[k]) + Total(q, In(I))
  <2>1. IsFiniteSet(In(J)) /\ \A x \in In(J) : q[x] \in Int
    BY <1>2, <1>7
  <2> HIDE DEF In, I, B
  <2>2. Total(q, In(J)) = Total(q, G[k]) + Total(q, In(J) \ G[k])
    BY <1>7, <2>1, TotalSplit
  <2> QED BY <1>7, <2>2
<1>9. Total(p, J) # Total(q, In(J))
  BY <1>1
<1> HIDE DEF In, I, B
<1> QED BY <1>4, <1>5, <1>6, <1>8, <1>9

\* A sum of other things, one for one.
LEMMA TotalRenamed ==
  ASSUME NEW S, IsFiniteSet(S), NEW T, IsFiniteSet(T), NEW q, NEW p, NEW b,
         \A x \in S : b[x] \in T /\ p[b[x]] = q[x] /\ q[x] \in Int,
         \A x, y \in S : b[x] = b[y] => x = y,
         \A t \in T : \E x \in S : b[x] = t
  PROVE  Total(p, T) = Total(q, S)
<1> DEFINE Im(s) == {b[x] : x \in s}
           B == {s \in SUBSET S : Total(p, Im(s)) # Total(q, s)}
<1>0. Im(S) = T
  OBVIOUS
<1> SUFFICES ASSUME S \in B PROVE FALSE
  BY <1>0
<1>1. PICK s \in B : \A x \in s : s \ {x} \notin B
  <2>1. B \subseteq SUBSET S /\ B # {}
    OBVIOUS
  <2> HIDE DEF B
  <2> QED BY <2>1, SmallestBad
<1>2. IsFiniteSet(s) /\ s \subseteq S /\ Im(s) \subseteq T /\ IsFiniteSet(Im(s))
  <2>1. s \subseteq S /\ Im(s) \subseteq T
    BY <1>1
  <2> HIDE DEF Im, B
  <2> QED BY <2>1, FS_Subset
<1>3. s # {}
  <2>1. Im({}) = {}
    OBVIOUS
  <2> QED BY <1>1, <2>1, TotalEmpty
<1>4. PICK x \in s : x \in S
  BY <1>2, <1>3
<1>5. Total(p, Im(s \ {x})) = Total(q, s \ {x})
  BY <1>1, <1>2, <1>4
<1>6. Total(q, s) = q[x] + Total(q, s \ {x})
  BY <1>2, <1>4, TotalWithout
<1>7. b[x] \in Im(s) /\ Im(s) \ {b[x]} = Im(s \ {x}) /\ \A t \in Im(s) : p[t] \in Int
  BY <1>2, <1>4
<1>8. Total(p, Im(s)) = p[b[x]] + Total(p, Im(s \ {x}))
  <2> HIDE DEF Im
  <2>1. Total(p, Im(s)) = p[b[x]] + Total(p, Im(s) \ {b[x]})
    BY <1>2, <1>7, TotalWithout
  <2> QED BY <1>7, <2>1
<1>9. Total(p, Im(s)) # Total(q, s)
  BY <1>1
<1> HIDE DEF Im, B
<1> QED BY <1>4, <1>5, <1>6, <1>8, <1>9

\* The difference of two sums is the sum of the differences.
LEMMA TotalDifference ==
  ASSUME NEW S, IsFiniteSet(S), NEW q, NEW p, NEW d,
         \A x \in S : q[x] \in Int /\ p[x] \in Int /\ d[x] = q[x] - p[x]
  PROVE  Total(d, S) = Total(q, S) - Total(p, S)
<1> DEFINE B == {r \in SUBSET S : Total(d, r) # Total(q, r) - Total(p, r)}
<1> SUFFICES ASSUME S \in B PROVE FALSE
  OBVIOUS
<1>1. PICK r \in B : \A x \in r : r \ {x} \notin B
  <2>1. B \subseteq SUBSET S /\ B # {}
    OBVIOUS
  <2> HIDE DEF B
  <2> QED BY <2>1, SmallestBad
<1>2. IsFiniteSet(r) /\ \A x \in r : q[x] \in Int /\ p[x] \in Int /\ d[x] \in Int
  BY <1>1, FS_Subset
<1>3. r # {}
  BY <1>1, TotalEmpty
<1>4. PICK x \in r : TRUE
  BY <1>3
<1>5. Total(d, r \ {x}) = Total(q, r \ {x}) - Total(p, r \ {x})
  BY <1>1, <1>4
<1>6. Total(d, r) = d[x] + Total(d, r \ {x})
  BY <1>2, <1>4, TotalWithout
<1>7. Total(q, r) = q[x] + Total(q, r \ {x})
  BY <1>2, <1>4, TotalWithout
<1>8. Total(p, r) = p[x] + Total(p, r \ {x})
  BY <1>2, <1>4, TotalWithout
<1>9. /\ Total(q, r \ {x}) \in Int /\ Total(p, r \ {x}) \in Int
      /\ q[x] \in Int /\ p[x] \in Int /\ d[x] = q[x] - p[x]
  <2>1. IsFiniteSet(r \ {x})
    BY <1>2, FS_Subset
  <2> QED BY <1>1, <1>2, <1>4, <2>1, TotalType
<1>10. Total(d, r) # Total(q, r) - Total(p, r)
  BY <1>1
<1> HIDE DEF B
<1> QED BY <1>5, <1>6, <1>7, <1>8, <1>9, <1>10

----------------------------------------------------------------------------
(* How many elements of a set come before one, in a given order.           *)

Firsts(q, r) == {q[i] : i \in 1..r}
Preceding(S, R, x) == {y \in S : <<y, x>> \in R}

\* What a function that repeats nothing lists first is as many as it lists.
LEMMA FirstMany ==
  ASSUME NEW n \in Nat, NEW q, \A i, j \in 1..n : q[i] = q[j] => i = j, NEW r \in 0..n
  PROVE  Cardinality(Firsts(q, r)) = r
<1> DEFINE T == {q[i] : i \in 1..r}
           f == [i \in 1..r |-> q[i]]
<1>1. f \in Injection(1..r, T)
  BY DEF Injection, IsInjective
<1>2. f \in Surjection(1..r, T)
  BY DEF Surjection
<1>3. ExistsBijection(1..r, T)
  BY <1>1, <1>2 DEF ExistsBijection, Bijection
<1>4. IsFiniteSet(1..r) /\ Cardinality(1..r) = r
  BY FS_Interval
<1> QED BY <1>3, <1>4, FS_Bijection DEF Firsts

\* In a sorted set, what comes before an element are those listed before it.
LEMMA BeforeSorted ==
  ASSUME NEW S, IsFiniteSet(S), NEW R, StrictOrder(R, S), NEW q,
         q \in [1..Cardinality(S) -> S], SortedBy(q, S, R), NEW k \in 1..Cardinality(S)
  PROVE  Cardinality(Preceding(S, R, q[k])) = k - 1
<1> DEFINE n == Cardinality(S)
<1>1. n \in Nat
  BY FS_CardinalityType
<1>2. DOMAIN q = 1..n
  OBVIOUS
<1> HIDE DEF n
<1>3. \A i \in 1..n : q[i] \in S
  BY DEF n
<1>4. k \in 1..n
  BY DEF n
<1>5. /\ \A x \in S : \E i \in 1..n : q[i] = x
      /\ \A i, j \in 1..n : i < j => <<q[i], q[j]>> \in R
  BY <1>2 DEF SortedBy
<1>6. \A i \in 1..n : <<q[i], q[k]>> \in R <=> i < k
  <2> SUFFICES ASSUME NEW i \in 1..n PROVE <<q[i], q[k]>> \in R <=> i < k
    OBVIOUS
  <2>1. CASE i < k
    BY <1>4, <1>5, <2>1
  <2>2. CASE i = k
    BY <1>3, <2>2 DEF StrictOrder
  <2>3. CASE k < i
    <3>1. <<q[k], q[i]>> \in R
      BY <1>4, <1>5, <2>3
    <3>2. <<q[i], q[k]>> \in R => <<q[k], q[k]>> \in R
      BY <1>3, <1>4, <3>1 DEF StrictOrder
    <3>3. <<q[k], q[k]>> \notin R
      BY <1>3, <1>4 DEF StrictOrder
    <3> QED BY <1>1, <1>4, <2>3, <3>2, <3>3
  <2> QED BY <1>1, <1>4, <2>1, <2>2, <2>3
<1>7. {y \in S : <<y, q[k]>> \in R} = {q[i] : i \in 1..(k - 1)}
  <2>1. \A i \in 1..n : i < k <=> i \in 1..(k - 1)
    BY <1>1, <1>4
  <2>2. 1..(k - 1) \subseteq 1..n
    BY <1>1, <1>4
  <2> QED BY <1>3, <1>5, <1>6, <2>1, <2>2
<1>8. \A i, j \in 1..n : q[i] = q[j] => i = j
  <2> SUFFICES ASSUME NEW i \in 1..n, NEW j \in 1..n, q[i] = q[j], i < j PROVE FALSE
    BY <1>1
  <2>1. <<q[i], q[j]>> \in R
    BY <1>5
  <2> QED BY <1>3, <2>1 DEF StrictOrder
<1>9. k - 1 \in 0..n
  BY <1>1, <1>4
<1>10. Cardinality(Firsts(q, k - 1)) = k - 1
  BY <1>1, <1>8, <1>9, FirstMany
<1> QED BY <1>7, <1>10 DEF Firsts, Preceding

\* Of a finite set in any order without ties, r have less than r before them.
LEMMA RanksCount ==
  ASSUME NEW S, IsFiniteSet(S), NEW R, StrictOrder(R, S), NEW r \in 0..Cardinality(S)
  PROVE  Cardinality({x \in S : Cardinality(Preceding(S, R, x)) < r}) = r
<1> DEFINE n == Cardinality(S)
           Rank(x) == Cardinality(Preceding(S, R, x))
<1>1. PICK q \in [1..n -> S] : SortedBy(q, S, R)
  BY SortingExists
<1>2. n \in Nat
  BY FS_CardinalityType
<1>3. \A k \in 1..n : Rank(q[k]) = k - 1
  <2> TAKE k \in 1..n
  <2> HIDE DEF Rank
  <2>1. Cardinality(Preceding(S, R, q[k])) = k - 1
    BY <1>1, BeforeSorted
  <2> QED BY <2>1 DEF Rank
<1>4. DOMAIN q = 1..n /\ \A k \in 1..n : q[k] \in S
  OBVIOUS
<1>5. \A x \in S : \E i \in 1..n : q[i] = x
  BY <1>1, <1>4 DEF SortedBy
<1>6. r \in 0..n
  OBVIOUS
<1> HIDE DEF n, Rank
<1>7. \A i, j \in 1..n : q[i] = q[j] => i = j
  BY <1>2, <1>3
<1>8. {x \in S : Rank(x) < r} = {q[i] : i \in 1..r}
  <2>1. \A i \in 1..n : Rank(q[i]) < r <=> i \in 1..r
    BY <1>2, <1>3, <1>6
  <2>2. 1..r \subseteq 1..n
    BY <1>2, <1>6
  <2> QED BY <1>4, <1>5, <2>1, <2>2
<1>9. Cardinality(Firsts(q, r)) = r
  BY <1>2, <1>6, <1>7, FirstMany
<1> QED BY <1>8, <1>9 DEF Rank, Firsts

----------------------------------------------------------------------------
(* The largest elements of a set.                                          *)

Leads(A, D, v) == \A k \in A, l \in D \ A : v[k] >= v[l]

\* A finite set has as many largest elements as one asks for.
LEMMA LeadersExist ==
  ASSUME NEW D, IsFiniteSet(D), NEW v, \A k \in D : v[k] \in Int, NEW n \in 0..Cardinality(D)
  PROVE  \E A \in SUBSET D : Cardinality(A) = n /\ Leads(A, D, v)
<1> DEFINE Found(m) == \E A \in SUBSET D : Cardinality(A) = m /\ Leads(A, D, v)
           Missed == {m \in 0..Cardinality(D) : ~Found(m)}
<1> SUFFICES ASSUME n \in Missed PROVE FALSE
  OBVIOUS
<1>1. Cardinality(D) \in Nat
  BY FS_CardinalityType
<1>2. Found(0)
  <2>1. {} \in SUBSET D /\ Cardinality({}) = 0 /\ Leads({}, D, v)
    BY FS_EmptySet DEF Leads
  <2> QED BY <2>1
<1>3. PICK m \in Missed : \A k \in Missed : m <= k
  <2>1. Missed \subseteq Nat /\ Missed # {}
    BY <1>1
  <2> HIDE DEF Missed
  <2> QED BY <2>1, LeastNat
<1>4. m \in 1..Cardinality(D) /\ m - 1 \in 0..Cardinality(D) /\ m - 1 < m
  BY <1>1, <1>2, <1>3
<1>5. m - 1 \notin Missed
  <2> HIDE DEF Missed
  <2> QED BY <1>1, <1>3, <1>4
<1>6. PICK A \in SUBSET D : Cardinality(A) = m - 1 /\ Leads(A, D, v)
  BY <1>4, <1>5
<1>7. PICK R : R = D \ A
  OBVIOUS
<1>8. IsFiniteSet(A) /\ IsFiniteSet(R) /\ R # {}
  <2>1. A # D
    BY <1>1, <1>4, <1>6
  <2> QED BY <1>7, <2>1, FS_Subset
<1>9. PICK x \in R : \A y \in R : v[x] >= v[y]
  <2>1. \A y \in R : v[y] \in Int
    BY <1>7
  <2> QED BY ONLY <1>8, <2>1, LargestExists
<1>10. PICK B : B = A \cup {x}
  OBVIOUS
<1>11. Cardinality(B) = m
  <2>1. x \notin A
    BY <1>7
  <2>2. Cardinality(B) = Cardinality(A) + 1
    BY <1>8, <1>10, <2>1, FS_AddElement
  <2> QED BY <1>1, <1>4, <1>6, <2>2
<1>12. B \in SUBSET D /\ Leads(B, D, v)
  <2>1. B \in SUBSET D /\ D \ B \subseteq R
    BY <1>7, <1>10
  <2>2. ASSUME NEW k \in B, NEW l \in D \ B PROVE v[k] >= v[l]
    BY <1>6, <1>7, <1>9, <1>10, <2>1, <2>2 DEF Leads
  <2> QED BY <2>1, <2>2 DEF Leads
<1> QED BY <1>3, <1>11, <1>12

\* The largest elements of a set sum up to no less than any others, one for one.
LEMMA LeadersSumMost ==
  ASSUME NEW D, IsFiniteSet(D), NEW v, \A k \in D : v[k] \in Int,
         NEW A \in SUBSET D, NEW B \in SUBSET D, Cardinality(A) = Cardinality(B), Leads(A, D, v)
  PROVE  Total(v, B) <= Total(v, A)
<1>1. PICK C : C = A \cap B
  OBVIOUS
<1>2. PICK P : P = A \ C
  OBVIOUS
<1>3. PICK Q : Q = B \ C
  OBVIOUS
<1>4. C \subseteq A /\ C \subseteq B /\ P \subseteq D /\ Q \subseteq D /\ Q \subseteq D \ A /\ P \subseteq A
  BY <1>1, <1>2, <1>3
<1>5. IsFiniteSet(A) /\ IsFiniteSet(B) /\ IsFiniteSet(C) /\ IsFiniteSet(P) /\ IsFiniteSet(Q)
  BY <1>4, FS_Subset
<1>6. Cardinality(P) = Cardinality(Q) /\ Cardinality(P) \in Nat
  <2>1. Cardinality(P) = Cardinality(A) - Cardinality(A \cap C)
    BY <1>2, <1>5, FS_Difference
  <2>2. Cardinality(Q) = Cardinality(B) - Cardinality(B \cap C)
    BY <1>3, <1>5, FS_Difference
  <2>3. A \cap C = C /\ B \cap C = C
    BY <1>4
  <2>4. Cardinality(P) \in Nat
    BY <1>5, FS_CardinalityType
  <2> QED BY <2>1, <2>2, <2>3, <2>4
<1>7. /\ \A x \in A : v[x] \in Int
      /\ \A x \in B : v[x] \in Int
      /\ \A x \in P : v[x] \in Int
      /\ \A x \in Q : v[x] \in Int
      /\ \A x \in C : v[x] \in Int
  BY <1>4
<1>8. Total(v, A) = Total(v, C) + Total(v, P)
  BY ONLY <1>2, <1>4, <1>5, <1>7, TotalSplit
<1>9. Total(v, B) = Total(v, C) + Total(v, Q)
  BY ONLY <1>3, <1>4, <1>5, <1>7, TotalSplit
<1>10. Total(v, C) \in Int /\ Total(v, P) \in Int /\ Total(v, Q) \in Int
  BY <1>5, <1>7, TotalType
<1>11. Total(v, Q) <= Total(v, P)
  <2>1. CASE Q = {}
    <3>1. Cardinality(P) = 0
      BY <1>6, <2>1, FS_EmptySet
    <3>2. P = {}
      BY <1>5, <3>1, FS_EmptySet
    <3> QED BY <2>1, <3>2, <1>10
  <2>2. CASE Q # {}
    <3>1. PICK q \in Q : \A x \in Q : v[q] >= v[x]
      BY ONLY <1>5, <1>7, <2>2, LargestExists
    <3>2. PICK c \in Int : c = v[q]
      BY <1>7
    <3>3. PICK flat : flat = [x \in D |-> c]
      OBVIOUS
    <3>4. /\ \A x \in P : flat[x] = c /\ flat[x] \in Int
          /\ \A x \in Q : flat[x] = c /\ flat[x] \in Int
      BY <1>4, <3>3
    <3>5. Total(flat, P) = c * Cardinality(P) /\ Total(flat, Q) = c * Cardinality(Q)
      <4>1. c \in Int
        OBVIOUS
      <4> QED BY ONLY <1>5, <3>4, <4>1, TotalConstant
    <3>6. \A x \in Q : v[x] <= flat[x]
      BY <1>7, <3>1, <3>2, <3>4
    <3>7. \A x \in P : flat[x] <= v[x]
      <4>1. \A x \in P : v[x] >= v[q]
        BY <1>4 DEF Leads
      <4> QED BY <1>7, <3>2, <3>4, <4>1
    <3>8. Total(v, Q) <= Total(flat, Q)
      BY ONLY <1>5, <1>7, <3>4, <3>6, TotalMonotone
    <3>9. Total(flat, P) <= Total(v, P)
      BY ONLY <1>5, <1>7, <3>4, <3>7, TotalMonotone
    <3>10. PICK t : t = Total(flat, P)
      OBVIOUS
    <3>11. t = Total(flat, Q) /\ t \in Int
      BY <1>5, <1>6, <3>4, <3>5, <3>10, TotalType
    <3> QED BY <1>10, <3>8, <3>9, <3>10, <3>11
  <2> QED BY <2>1, <2>2
<1> QED BY <1>8, <1>9, <1>10, <1>11

----------------------------------------------------------------------------
(* What passes a filter.                                                   *)

LEMMA Places ==
  ASSUME NEW I, IsFiniteSet(I), I \subseteq Int
  PROVE  /\ Cardinality(I) \in Nat
         /\ \A k \in 1..Cardinality(I) : NthOf(I, k) \in I
         /\ \A k, l \in 1..Cardinality(I) : k < l => NthOf(I, k) < NthOf(I, l)
         /\ \A i \in I : \E k \in 1..Cardinality(I) : NthOf(I, k) = i
<1> DEFINE R == {p \in I \X I : p[1] < p[2]}
           n == Cardinality(I)
<1>1. \A x, y \in I : <<x, y>> \in R <=> x < y
  OBVIOUS
<1>2. StrictOrder(R, I)
  <2> HIDE DEF R
  <2> QED BY <1>1 DEF StrictOrder
<1>3. PICK q \in [1..n -> I] : SortedBy(q, I, R)
  BY <1>2, SortingExists
<1>4. n \in Nat
  BY FS_CardinalityType
<1>5. ASSUME NEW k \in 1..n PROVE Cardinality({j \in I : j < q[k]}) = k - 1
  <2>1. q[k] \in I
    OBVIOUS
  <2>2. {j \in I : j < q[k]} = Preceding(I, R, q[k])
    BY <1>1, <2>1 DEF Preceding
  <2> HIDE DEF R
  <2>3. Cardinality(Preceding(I, R, q[k])) = k - 1
    BY <1>2, <1>3, BeforeSorted
  <2> QED BY <2>2, <2>3
<1>6. DOMAIN q = 1..n /\ \A k \in 1..n : q[k] \in I
  OBVIOUS
<1>7. /\ \A x \in I : \E i \in 1..n : q[i] = x
      /\ \A i, j \in 1..n : i < j => q[i] < q[j]
  BY <1>1, <1>3, <1>6 DEF SortedBy
<1> HIDE DEF n, R
<1>8. ASSUME NEW k \in 1..n PROVE NthOf(I, k) = q[k]
  <2>1. \A i \in I : Cardinality({j \in I : j < i}) = k - 1 => i = q[k]
    <3> SUFFICES ASSUME NEW i \in I, Cardinality({j \in I : j < i}) = k - 1 PROVE i = q[k]
      OBVIOUS
    <3>1. PICK l \in 1..n : q[l] = i
      BY <1>7
    <3>2. l - 1 = k - 1
      BY <1>5, <3>1
    <3> QED BY <1>4, <3>1, <3>2
  <2> QED BY <1>5, <1>6, <2>1 DEF NthOf
<1> QED BY <1>4, <1>6, <1>7, <1>8 DEF n

\* A filter keeps what is at the places, each once, in order.
Filters(s, I) ==
  /\ Cardinality(I) \in Nat
  /\ DOMAIN AtPlaces(s, I) = 1..Cardinality(I)
  /\ \A k \in 1..Cardinality(I) : NthOf(I, k) \in I /\ AtPlaces(s, I)[k] = s[NthOf(I, k)]
  /\ \A k, l \in 1..Cardinality(I) : k < l => NthOf(I, k) < NthOf(I, l)
  /\ \A i \in I : \E k \in 1..Cardinality(I) : NthOf(I, k) = i

LEMMA FilterKeeps ==
  ASSUME NEW s, NEW m \in Nat, DOMAIN s = 1..m, NEW I, I \subseteq 1..m
  PROVE  Filters(s, I)
<1>1. IsFiniteSet(I) /\ I \subseteq Int
  <2>1. IsFiniteSet(1..m)
    BY FS_Interval
  <2>2. I \subseteq Int
    OBVIOUS
  <2> QED BY <2>1, <2>2, FS_Subset
<1> QED BY <1>1, Places DEF AtPlaces, Filters
=============================================================================
