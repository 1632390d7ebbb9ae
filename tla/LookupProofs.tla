---------------------------- MODULE LookupProofs ----------------------------
(***************************************************************************)
(* For every prime, number of rows, table, column and pair of challenges,  *)
(* and every order of the rows' threads: calculateH1H2 sorts f and t along *)
(* t, and therefore the grand product closes.                              *)
(***************************************************************************)
EXTENDS Lookup, PrimeFieldProofs

\* The places of h1 and h2, read alternately.
Slots == 0..(2 * N - 1)
\* The values of f are those of a row of t.
Given == /\ t \in [Row -> Values] /\ f \in [Row -> Values]
         /\ \A i \in Row : f[i] \in Range(t)

LEMMA NIsNat == N \in Nat \ {0} /\ Values \subseteq Fr /\ Challenges \subseteq Fr
BY LookupAssumption

\* idx_t finds the last row of a value.
LEMMA LastRow ==
  ASSUME Given, NEW v \in Range(t)
  PROVE  idx_t(v) \in Row /\ t[idx_t(v)] = v
<1> DEFINE T == {d \in Nat : \E i \in Row : t[i] = v /\ d = N - 1 - i}
<1>1. T # {}
  <2>1. PICK i \in Row : t[i] = v
    BY DEF Given, Range
  <2>2. N - 1 - i \in Nat
    BY NIsNat DEF Row
  <2> QED
    BY <2>1, <2>2
<1>2. PICK d \in T : \A y \in T : d <= y
  <2> HIDE DEF T
  <2>1. T \subseteq Nat
    BY DEF T
  <2> QED
    BY <1>1, <2>1, Least
<1>3. PICK i \in Row : t[i] = v /\ d = N - 1 - i
  BY <1>2
<1>4. ASSUME NEW j \in Row, t[j] = v
      PROVE  j <= i
  <2>1. N - 1 - j \in Nat
    BY NIsNat DEF Row
  <2>2. d <= N - 1 - j
    BY <1>2, <1>4, <2>1
  <2> QED
    BY <1>3, <2>2, NIsNat DEF Row
<1> QED
  BY <1>3, <1>4 DEF idx_t

-----------------------------------------------------------------------------
\* The rows that are looked up in row i of t, and before it.
LookedUp(i) == {x \in Row : idx_t(f[x]) = i}
Before(i) == {x \in Row : idx_t(f[x]) < i}

LEMMA Finite ==
  /\ IsFiniteSet(Row) /\ Cardinality(Row) = N
  /\ \A S \in SUBSET Row : IsFiniteSet(S) /\ Cardinality(S) \in Nat
<1>1. IsFiniteSet(Row) /\ Cardinality(Row) = N
  BY NIsNat, FS_Interval DEF Row
<1>2. \A S \in SUBSET Row : IsFiniteSet(S) /\ Cardinality(S) \in Nat
  BY <1>1, FS_Subset, FS_CardinalityType
<1> QED
  BY <1>1, <1>2

\* A row's part of s: its own value, behind those that are looked up there.
LEMMA Places ==
  ASSUME Given
  PROVE  /\ \A i \in 0..N : place(i) \in Nat
         /\ place(0) = 0 /\ place(N) = 2 * N
         /\ \A i \in Row : place(i + 1) = place(i) + Cardinality(LookedUp(i)) + 1
         /\ \A i, j \in 0..N : i < j => place(i) < place(j)
<1>1. \A x \in Row : idx_t(f[x]) \in Row
  BY LastRow DEF Given
<1>2. \A i \in 0..N : place(i) = i + Cardinality(Before(i)) /\ Cardinality(Before(i)) \in Nat
  BY Finite DEF place, Before
<1>3. place(0) = 0
  <2>1. Before(0) = {}
    BY <1>1, NIsNat DEF Before, Row
  <2>2. Cardinality(Before(0)) = 0
    BY <2>1, FS_EmptySet
  <2> QED
    BY <1>2, <2>2, NIsNat
<1>4. place(N) = 2 * N
  <2>1. Before(N) = Row
    BY <1>1, NIsNat DEF Before, Row
  <2> QED
    BY <1>2, <2>1, Finite, NIsNat
<1>5. ASSUME NEW i \in Row
      PROVE  place(i + 1) = place(i) + Cardinality(LookedUp(i)) + 1
  <2>1. Before(i + 1) = Before(i) \cup LookedUp(i) /\ Before(i) \cap LookedUp(i) = {}
    BY <1>1, NIsNat DEF Before, LookedUp, Row
  <2>2. Before(i) \in SUBSET Row /\ LookedUp(i) \in SUBSET Row
    BY DEF Before, LookedUp
  <2>3. IsFiniteSet(Before(i)) /\ IsFiniteSet(LookedUp(i)) /\ Cardinality(LookedUp(i)) \in Nat
    BY <2>2, Finite
  <2>4. Cardinality(Before(i + 1)) = Cardinality(Before(i)) + Cardinality(LookedUp(i))
    <3>1. Cardinality(Before(i) \cup LookedUp(i))
            = Cardinality(Before(i)) + Cardinality(LookedUp(i)) - Cardinality(Before(i) \cap LookedUp(i))
      BY <2>3, FS_Union
    <3>2. Cardinality(Before(i)) \in Nat /\ Cardinality({}) = 0
      BY <2>2, Finite, FS_EmptySet
    <3>3. Cardinality(Before(i) \cap LookedUp(i)) = 0
      BY <2>1, <3>2, Zenon
    <3>4. Cardinality(Before(i + 1)) = Cardinality(Before(i) \cup LookedUp(i))
      BY <2>1, Zenon
    <3> QED
      BY <2>3, <3>1, <3>2, <3>3, <3>4
  <2>5. i \in 0..N /\ i + 1 \in 0..N
    BY NIsNat DEF Row
  <2> QED
    BY <1>2, <2>3, <2>4, <2>5
<1>6. ASSUME NEW i \in 0..N, NEW j \in 0..N, i < j
      PROVE  place(i) < place(j)
  <2>1. Before(i) \subseteq Before(j) /\ Before(j) \in SUBSET Row
    BY <1>1, <1>6, NIsNat DEF Before, Row
  <2>2. Cardinality(Before(i)) <= Cardinality(Before(j))
    BY <2>1, Finite, FS_Subset
  <2> QED
    BY <1>2, <1>6, <2>2, NIsNat
<1> QED
  BY <1>2, <1>3, <1>4, <1>5, <1>6, NIsNat

LEMMA Block ==
  ASSUME Given, NEW i \in Row, NEW k \in Slots, place(i) <= k, k < place(i + 1)
  PROVE  s_sorted[k] = t[i]
<1>1. ASSUME NEW j \in Row, place(j) <= k, k < place(j + 1)
      PROVE  j = i
  <2>1. i \in 0..N /\ i + 1 \in 0..N /\ j \in 0..N /\ j + 1 \in 0..N
    BY NIsNat DEF Row
  <2>2. \A m \in 0..N : place(m) \in Nat
    BY Places
  <2>3. place(j + 1) < place(i) \/ place(j + 1) = place(i) \/ ~(j < i)
    <3>1. j < i => j + 1 < i \/ j + 1 = i
      BY DEF Row
    <3> QED
      BY <2>1, <3>1, Places
  <2>4. place(i + 1) < place(j) \/ place(i + 1) = place(j) \/ ~(i < j)
    <3>1. i < j => i + 1 < j \/ i + 1 = j
      BY DEF Row
    <3> QED
      BY <2>1, <3>1, Places
  <2> QED
    BY <1>1, <2>1, <2>2, <2>3, <2>4 DEF Slots
<1>2. i = CHOOSE j \in Row : place(j) <= k /\ k < place(j + 1)
  BY <1>1
<1> QED
  BY <1>2 DEF s_sorted, Slots

\* Each row that is looked up has a place of its own, with another of the same
\* value behind it.
LEMMA PlacesOfF ==
  ASSUME Given
  PROVE  \E b \in [Row -> Slots] :
           /\ \A x \in Row : /\ place(idx_t(f[x])) <= b[x]
                            /\ b[x] + 1 < place(idx_t(f[x]) + 1)
           /\ \A x, y \in Row : b[x] = b[y] => x = y
<1> DEFINE Part(i) == place(i)..(place(i + 1) - 2)
           B == [i \in Row |-> CHOOSE c : c \in Bijection(LookedUp(i), Part(i))]
           b == [x \in Row |-> B[idx_t(f[x])][x]]
<1>1. \A x \in Row : idx_t(f[x]) \in Row /\ x \in LookedUp(idx_t(f[x]))
  BY LastRow DEF Given, LookedUp
<1>2. \A i \in Row : /\ i \in 0..N /\ i + 1 \in 0..N
                     /\ place(i) \in Nat /\ place(i + 1) \in Nat
  BY NIsNat, Places DEF Row
<1>3. ASSUME NEW i \in Row
      PROVE  B[i] \in Bijection(LookedUp(i), Part(i))
  <2>1. IsFiniteSet(LookedUp(i)) /\ Cardinality(LookedUp(i)) \in Nat
    <3>1. LookedUp(i) \in SUBSET Row
      BY DEF LookedUp
    <3> QED
      BY <3>1, Finite
  <2>2. IsFiniteSet(Part(i))
    BY <1>2, FS_Interval
  <2>3. Cardinality(Part(i)) = Cardinality(LookedUp(i))
    <3>1. place(i + 1) = place(i) + Cardinality(LookedUp(i)) + 1
      BY Places
    <3>2. Cardinality(Part(i)) = IF place(i) > place(i + 1) - 2 THEN 0
                                 ELSE (place(i + 1) - 2) - place(i) + 1
      <4>1. place(i) \in Int /\ place(i + 1) - 2 \in Int
        BY <1>2
      <4> QED
        BY <4>1, FS_Interval
    <3> QED
      BY <1>2, <2>1, <3>1, <3>2
  <2>4. \E c : c \in Bijection(LookedUp(i), Part(i))
    <3> HIDE DEF Part
    <3> QED
      BY <2>1, <2>2, <2>3, FS_SameCardinalityBij DEF ExistsBijection
  <2> QED
    BY <2>4
<1>4. \A i \in Row : \A x \in LookedUp(i) :
        /\ B[i][x] \in Part(i)
        /\ \A y \in LookedUp(i) : B[i][x] = B[i][y] => x = y
  <2> HIDE DEF B, Part
  <2> QED
    BY <1>3 DEF Bijection, Injection, IsInjective
<1> HIDE DEF B
<1>5. ASSUME NEW x \in Row
      PROVE  /\ b[x] \in Slots
             /\ place(idx_t(f[x])) <= b[x] /\ b[x] + 1 < place(idx_t(f[x]) + 1)
  <2>1. b[x] \in Part(idx_t(f[x]))
    <3> HIDE DEF Part
    <3> QED
      BY <1>1, <1>4
  <2>2. place(idx_t(f[x]) + 1) <= 2 * N
    <3>1. idx_t(f[x]) + 1 < N \/ idx_t(f[x]) + 1 = N
      BY <1>1, NIsNat DEF Row
    <3>2. N \in 0..N
      BY NIsNat
    <3> QED
      BY <1>1, <1>2, <3>1, <3>2, Places, NIsNat
  <2> HIDE DEF b
  <2> QED
    BY <1>1, <1>2, <2>1, <2>2, NIsNat DEF Slots
<1>6. ASSUME NEW x \in Row, NEW y \in Row, b[x] = b[y]
      PROVE  x = y
  <2> DEFINE i == idx_t(f[x])
             j == idx_t(f[y])
  <2>1. i \in Row /\ j \in Row /\ x \in LookedUp(i) /\ y \in LookedUp(j)
    BY <1>1
  <2>2. place(i) <= b[x] /\ b[x] < place(i + 1) /\ place(j) <= b[x] /\ b[x] < place(j + 1)
          /\ b[x] \in Slots
    <3>1. /\ b[x] \in Slots /\ place(i) <= b[x] /\ b[x] + 1 < place(i + 1)
          /\ place(j) <= b[y] /\ b[y] + 1 < place(j + 1)
      BY <1>5
    <3> HIDE DEF b, i, j
    <3> QED
      BY <1>2, <1>6, <2>1, <3>1, NIsNat DEF Slots
  <2> HIDE DEF i, j
  <2>3. i = j
    <3>1. ~(j < i)
      <4>1. j < i => j + 1 < i \/ j + 1 = i
        BY <2>1 DEF Row
      <4>2. j < i => place(j + 1) <= place(i)
        BY <1>2, <2>1, <4>1, Places
      <4> QED
        BY <1>2, <2>1, <2>2, <4>2, NIsNat DEF Slots
    <3>2. ~(i < j)
      <4>1. i < j => i + 1 < j \/ i + 1 = j
        BY <2>1 DEF Row
      <4>2. i < j => place(i + 1) <= place(j)
        BY <1>2, <2>1, <4>1, Places
      <4> QED
        BY <1>2, <2>1, <2>2, <4>2, NIsNat DEF Slots
    <3> QED
      BY <2>1, <3>1, <3>2 DEF Row
  <2>4. b[x] = B[i][x] /\ b[y] = B[j][y]
    BY DEF i, j
  <2> QED
    BY <1>4, <1>6, <2>1, <2>3, <2>4
<1>7. b \in [Row -> Slots]
  BY <1>5
<1> HIDE DEF b
<1> QED
  BY <1>5, <1>6, <1>7

\* So s holds f and t, each value of f before the same value, and each of t, at
\* the end of its row's part, before the next one: p maps the even slots to the
\* places of f and the odd ones to those of t.
IsOrder(p) ==
  /\ p \in Bijection(Slots, Slots)
  /\ \A i \in Row : /\ s_sorted[p[2 * i]] = f[i]
                    /\ s_sorted[(p[2 * i] + 1) % (2 * N)] = f[i]
                    /\ s_sorted[p[2 * i + 1]] = t[i]
                    /\ s_sorted[(p[2 * i + 1] + 1) % (2 * N)] = t[next(i)]

LEMMA SlotsOfRows ==
  /\ IsFiniteSet(Slots) /\ Cardinality(Slots) = 2 * N
  /\ \A i \in Row : 2 * i \in Slots /\ 2 * i + 1 \in Slots /\ next(i) \in Row
  /\ \A k \in Slots : (k + 1) % (2 * N) \in Slots
  /\ \A k \in Slots : k < 2 * N - 1 => (k + 1) % (2 * N) = k + 1
  /\ (2 * N) % (2 * N) = 0
  /\ \A k \in Slots : k \div 2 \in Row /\ k % 2 \in {0, 1} /\ k = 2 * (k \div 2) + (k % 2)
<1>1. IsFiniteSet(Slots) /\ Cardinality(Slots) = 2 * N
  <2>1. 0 \in Int /\ 2 * N - 1 \in Int /\ ~(0 > 2 * N - 1) /\ (2 * N - 1) - 0 + 1 = 2 * N
    BY NIsNat
  <2> QED
    BY <2>1, FS_Interval DEF Slots
<1>2. \A i \in Row : 2 * i \in Slots /\ 2 * i + 1 \in Slots /\ next(i) \in Row
  BY NIsNat DEF Slots, Row, next
<1>3. \A k \in Slots : (k + 1) % (2 * N) \in Slots
  BY NIsNat DEF Slots
<1>4. \A k \in Slots : k < 2 * N - 1 => (k + 1) % (2 * N) = k + 1
  BY NIsNat DEF Slots
<1>5. (2 * N) % (2 * N) = 0
  BY NIsNat
<1>6. \A k \in Slots : k \div 2 \in Row /\ k % 2 \in {0, 1} /\ k = 2 * (k \div 2) + (k % 2)
  <2> SUFFICES ASSUME NEW k \in Slots
               PROVE  k \div 2 \in Row /\ k % 2 \in {0, 1} /\ k = 2 * (k \div 2) + (k % 2)
    OBVIOUS
  <2>1. k \in Nat /\ k <= 2 * N - 1
    BY NIsNat DEF Slots
  <2>2. k \div 2 \in Int /\ k % 2 \in 0..1 /\ k = 2 * (k \div 2) + (k % 2)
    BY <2>1
  <2>3. k % 2 \in {0, 1}
    BY <2>2
  <2> QED
    BY <2>1, <2>2, <2>3, NIsNat DEF Row
<1> QED
  BY <1>1, <1>2, <1>3, <1>4, <1>5, <1>6

LEMMA Order ==
  ASSUME Given
  PROVE  \E p : IsOrder(p)
<1>1. PICK b \in [Row -> Slots] :
           /\ \A x \in Row : /\ place(idx_t(f[x])) <= b[x]
                            /\ b[x] + 1 < place(idx_t(f[x]) + 1)
           /\ \A x, y \in Row : b[x] = b[y] => x = y
  BY PlacesOfF
<1> DEFINE p == [k \in Slots |-> IF k % 2 = 0 THEN b[k \div 2] ELSE place(k \div 2 + 1) - 1]
<1>2. \A x \in Row : idx_t(f[x]) \in Row /\ t[idx_t(f[x])] = f[x]
  BY LastRow DEF Given
<1>3. /\ \A i \in Row : /\ i \in 0..N /\ i + 1 \in 0..N
                        /\ place(i) \in Nat /\ place(i + 1) \in Nat
                        /\ place(i) < place(i + 1) /\ place(i + 1) <= 2 * N
      /\ \A i, j \in Row : i < j => place(i + 1) < place(j + 1)
      /\ \A i, j \in Row : i < j => place(i + 1) <= place(j)
  <2>1. \A i \in Row : i \in 0..N /\ i + 1 \in 0..N
    BY NIsNat DEF Row
  <2>2. \A i \in 0..N : place(i) \in Nat
    BY Places
  <2>3. \A i, j \in 0..N : i < j => place(i) < place(j)
    BY Places
  <2>4. \A i \in Row : place(i) < place(i + 1)
    BY <2>1, <2>3 DEF Row
  <2>5. \A i \in Row : place(i + 1) <= 2 * N
    <3>1. place(N) = 2 * N /\ N \in 0..N
      BY Places, NIsNat
    <3>2. \A i \in Row : i + 1 < N \/ i + 1 = N
      BY NIsNat DEF Row
    <3> QED
      BY <2>1, <2>2, <2>3, <3>1, <3>2, NIsNat
  <2>6. \A i, j \in Row : i < j => place(i + 1) < place(j + 1)
    BY <2>1, <2>3 DEF Row
  <2>7. \A i, j \in Row : i < j => place(i + 1) <= place(j)
    <3>1. \A i, j \in Row : i < j => i + 1 < j \/ i + 1 = j
      BY DEF Row
    <3> QED
      BY <2>1, <2>2, <2>3, <3>1
  <2> QED
    BY <2>1, <2>2, <2>4, <2>5, <2>6, <2>7
<1>4. ASSUME NEW i \in Row
      PROVE  p[2 * i] = b[i] /\ p[2 * i + 1] = place(i + 1) - 1 /\ place(i + 1) - 1 \in Slots
  <2>1. (2 * i) % 2 = 0 /\ (2 * i) \div 2 = i /\ (2 * i + 1) % 2 = 1 /\ (2 * i + 1) \div 2 = i
    <3>1. i \in Int
      BY DEF Row
    <3> QED
      BY <3>1
  <2>2. p[2 * i] = b[i] /\ p[2 * i + 1] = place(i + 1) - 1
    BY <2>1, SlotsOfRows
  <2>3. place(i + 1) - 1 \in Slots
    BY <1>3, NIsNat DEF Slots
  <2> QED
    BY <2>2, <2>3
<1>5. \A k \in Slots : \/ \E i \in Row : k = 2 * i
                       \/ \E i \in Row : k = 2 * i + 1
  <2> SUFFICES ASSUME NEW k \in Slots
               PROVE  \E i \in Row : k = 2 * i \/ k = 2 * i + 1
    OBVIOUS
  <2>1. k \div 2 \in Row /\ k % 2 \in {0, 1} /\ k = 2 * (k \div 2) + (k % 2)
    BY SlotsOfRows
  <2>2. k = 2 * (k \div 2) \/ k = 2 * (k \div 2) + 1
    BY <2>1 DEF Row
  <2> QED
    BY <2>1, <2>2
<1>6. p \in [Slots -> Slots]
  <2>1. \A k \in Slots : p[k] \in Slots
    <3> HIDE DEF p
    <3> QED
      BY <1>1, <1>4, <1>5
  <2>2. p = [k \in Slots |-> p[k]]
    OBVIOUS
  <2> HIDE DEF p
  <2> QED
    BY <2>1, <2>2
<1>7. \A i, j \in Row : p[2 * i] # p[2 * j + 1]
  <2> SUFFICES ASSUME NEW i \in Row, NEW j \in Row, b[i] = place(j + 1) - 1
               PROVE  FALSE
    BY <1>4
  <2> DEFINE d == idx_t(f[i])
  <2>1. d \in Row /\ place(d) <= b[i] /\ b[i] + 1 < place(d + 1) /\ b[i] \in Slots
    BY <1>1, <1>2
  <2> HIDE DEF d
  <2>2. d < j \/ d = j \/ j < d
    BY <2>1 DEF Row
  <2>3. CASE d < j
    BY <1>3, <2>1, <2>3, NIsNat DEF Slots
  <2>4. CASE d = j
    BY <1>3, <2>1, <2>4, NIsNat DEF Slots
  <2>5. CASE j < d
    BY <1>3, <2>1, <2>5, NIsNat DEF Slots
  <2> QED
    BY <2>2, <2>3, <2>4, <2>5
<1>8. \A i, j \in Row : p[2 * i] = p[2 * j] => i = j
  <2> HIDE DEF p
  <2> QED
    BY <1>1, <1>4
<1>9. \A i, j \in Row : p[2 * i + 1] = p[2 * j + 1] => i = j
  <2> SUFFICES ASSUME NEW i \in Row, NEW j \in Row, place(i + 1) - 1 = place(j + 1) - 1
               PROVE  i = j
    BY <1>4
  <2>1. place(i + 1) = place(j + 1)
    BY <1>3
  <2>2. i < j \/ i = j \/ j < i
    BY DEF Row
  <2> QED
    BY <1>3, <2>1, <2>2
<1>10. p \in Bijection(Slots, Slots)
  <2> HIDE DEF p
  <2>1. \A x, y \in Slots : p[x] = p[y] => x = y
    BY <1>5, <1>7, <1>8, <1>9
  <2>2. p \in Injection(Slots, Slots)
    BY <1>6, <2>1 DEF Injection, IsInjective
  <2>3. p \in Surjection(Slots, Slots)
    BY <2>2, SlotsOfRows, FS_Injection
  <2> QED
    BY <2>2, <2>3 DEF Bijection
<1>11. ASSUME NEW i \in Row
       PROVE  /\ s_sorted[p[2 * i]] = f[i]
              /\ s_sorted[(p[2 * i] + 1) % (2 * N)] = f[i]
  <2> DEFINE d == idx_t(f[i])
             k == b[i]
  <2>1. d \in Row /\ t[d] = f[i] /\ k \in Slots /\ place(d) <= k /\ k + 1 < place(d + 1)
    BY <1>1, <1>2
  <2> HIDE DEF d, k
  <2>2. k < place(d + 1) /\ k + 1 \in Slots /\ place(d) <= k + 1 /\ k < 2 * N - 1
    BY <1>3, <2>1, NIsNat DEF Slots
  <2>3. s_sorted[k] = f[i] /\ s_sorted[k + 1] = f[i]
    BY <2>1, <2>2, Block
  <2>4. (k + 1) % (2 * N) = k + 1
    BY <2>1, <2>2, SlotsOfRows
  <2>5. p[2 * i] = k
    BY <1>4 DEF k
  <2> QED
    BY <2>3, <2>4, <2>5
<1>12. ASSUME NEW i \in Row
       PROVE  /\ s_sorted[p[2 * i + 1]] = t[i]
              /\ s_sorted[(p[2 * i + 1] + 1) % (2 * N)] = t[next(i)]
  <2> DEFINE k == place(i + 1) - 1
  <2>1. k \in Slots /\ place(i) <= k /\ k < place(i + 1) /\ k + 1 = place(i + 1) /\ p[2 * i + 1] = k
    BY <1>3, <1>4
  <2> HIDE DEF k
  <2>2. s_sorted[k] = t[i]
    BY <2>1, Block
  <2>3. s_sorted[(k + 1) % (2 * N)] = t[next(i)]
    <3>1. CASE i = N - 1
      <4>1. k + 1 = 2 * N /\ next(i) = 0 /\ 0 \in Row /\ 0 \in Slots
        BY <2>1, <3>1, Places, NIsNat DEF Row, Slots, next
      <4>2. place(0) <= 0 /\ 0 < place(0 + 1)
        BY <1>3, <4>1, Places
      <4>3. s_sorted[0] = t[0]
        BY <4>1, <4>2, Block
      <4> QED
        BY <4>1, <4>3, SlotsOfRows
    <3>2. CASE i # N - 1
      <4>1. next(i) = i + 1 /\ i + 1 \in Row
        BY <3>2, NIsNat DEF Row, next
      <4>2. k + 1 < place((i + 1) + 1) /\ place(i + 1) <= k + 1
        BY <1>3, <2>1, <4>1
      <4>3. k + 1 \in Slots /\ k < 2 * N - 1
        <5>1. (i + 1) + 1 \in 0..N /\ N \in 0..N
          BY <4>1, NIsNat DEF Row
        <5>2. place(N) = 2 * N /\ place((i + 1) + 1) \in Nat
                /\ ((i + 1) + 1 < N => place((i + 1) + 1) < place(N))
          BY <5>1, Places
        <5>3. place((i + 1) + 1) <= 2 * N
          BY <5>1, <5>2, NIsNat
        <5> QED
          BY <2>1, <4>2, <5>2, <5>3, NIsNat DEF Slots
      <4>4. s_sorted[k + 1] = t[i + 1]
        BY <4>1, <4>2, <4>3, Block
      <4> QED
        BY <2>1, <4>1, <4>3, <4>4, SlotsOfRows
    <3> QED
      BY <3>1, <3>2
  <2> QED
    BY <2>1, <2>2, <2>3
<1> HIDE DEF p
<1> QED
  BY <1>10, <1>11, <1>12 DEF IsOrder

-----------------------------------------------------------------------------
\* h1 and h2 are filled with s.
Filled == h1 = [i \in Row |-> s_sorted[2 * i]] /\ h2 = [i \in Row |-> s_sorted[2 * i + 1]]

LEMMA TypeOfS ==
  ASSUME Given
  PROVE  s_sorted \in [Slots -> Fr]
<1>1. PICK p : IsOrder(p)
  BY Order
<1>2. \A k \in Slots : s_sorted[k] \in Fr
  <2> SUFFICES ASSUME NEW k \in Slots
               PROVE  s_sorted[k] \in Fr
    OBVIOUS
  <2>1. PICK m \in Slots : p[m] = k
    BY <1>1 DEF IsOrder, Bijection, Surjection
  <2>2. m \div 2 \in Row /\ m % 2 \in {0, 1} /\ m = 2 * (m \div 2) + (m % 2)
    BY SlotsOfRows
  <2>3. m = 2 * (m \div 2) \/ m = 2 * (m \div 2) + 1
    BY <2>2 DEF Row
  <2>4. s_sorted[k] = f[m \div 2] \/ s_sorted[k] = t[m \div 2]
    BY <1>1, <2>1, <2>2, <2>3 DEF IsOrder
  <2> QED
    BY <2>2, <2>4, NIsNat DEF Given
<1> QED
  BY <1>2 DEF s_sorted, Slots

\* Read alternately, they are s, and what follows each in s.
LEMMA Alternating ==
  ASSUME Given, Filled
  PROVE  /\ Alternately = s_sorted
         /\ \A i \in Row : /\ h1[i] = s_sorted[2 * i] /\ h2[i] = s_sorted[2 * i + 1]
                           /\ (2 * i + 1) % (2 * N) = 2 * i + 1
                           /\ h1[next(i)] = s_sorted[((2 * i + 1) + 1) % (2 * N)]
<1>1. \A i \in Row : h1[i] = s_sorted[2 * i] /\ h2[i] = s_sorted[2 * i + 1]
  BY DEF Filled
<1>2. Alternately = s_sorted
  <2>1. \A k \in Slots : Alternately[k] = s_sorted[k]
    <3> SUFFICES ASSUME NEW k \in Slots
                 PROVE  Alternately[k] = s_sorted[k]
      OBVIOUS
    <3>1. k \div 2 \in Row /\ k % 2 \in {0, 1} /\ k = 2 * (k \div 2) + (k % 2)
      BY SlotsOfRows
    <3>2. Alternately[k] = IF k % 2 = 0 THEN h1[k \div 2] ELSE h2[k \div 2]
      BY DEF Alternately, Slots
    <3>3. CASE k % 2 = 0
      <4>1. k = 2 * (k \div 2)
        BY <3>1, <3>3 DEF Row
      <4> QED
        BY <1>1, <3>1, <3>2, <3>3, <4>1
    <3>4. CASE k % 2 = 1
      <4>1. k = 2 * (k \div 2) + 1
        BY <3>1, <3>4 DEF Row
      <4> QED
        BY <1>1, <3>1, <3>2, <3>4, <4>1
    <3> QED
      BY <3>1, <3>3, <3>4
  <2>2. s_sorted = [k \in Slots |-> s_sorted[k]]
    BY DEF s_sorted, Slots
  <2>3. Alternately = [k \in Slots |-> Alternately[k]]
    BY DEF Alternately, Slots
  <2> QED
    BY <2>1, <2>2, <2>3
<1>3. ASSUME NEW i \in Row
      PROVE  /\ (2 * i + 1) % (2 * N) = 2 * i + 1
             /\ h1[next(i)] = s_sorted[((2 * i + 1) + 1) % (2 * N)]
  <2>1. (2 * i + 1) % (2 * N) = 2 * i + 1
    <3>1. 2 * i + 1 \in 0..(2 * N - 1) /\ 2 * N \in Nat \ {0}
      BY NIsNat DEF Row
    <3> QED
      BY <3>1
  <2>2. 2 * next(i) = ((2 * i + 1) + 1) % (2 * N)
    <3>1. CASE i = N - 1
      <4>1. next(i) = 0 /\ (2 * i + 1) + 1 = 2 * N
        BY <3>1, NIsNat DEF next
      <4> QED
        BY <4>1, SlotsOfRows
    <3>2. CASE i # N - 1
      <4>1. next(i) = i + 1 /\ 2 * i + 1 < 2 * N - 1 /\ 2 * i + 1 \in Slots
        <5>1. i + 1 \in 0..(N - 1)
          BY <3>2, NIsNat DEF Row
        <5>2. next(i) = i + 1
          BY <5>1, NIsNat DEF next
        <5> QED
          BY <5>1, <5>2, NIsNat, SlotsOfRows DEF Row
      <4>2. ((2 * i + 1) + 1) % (2 * N) = (2 * i + 1) + 1
        BY <4>1, SlotsOfRows
      <4> QED
        BY <4>1, <4>2 DEF Row
    <3> QED
      BY <3>1, <3>2
  <2>3. h1[next(i)] = s_sorted[2 * next(i)]
    BY <1>1, SlotsOfRows
  <2> QED
    BY <2>1, <2>2, <2>3
<1> QED
  BY <1>1, <1>2, <1>3

\* Two values follow each other in s as often as in t, or as one that is looked up.
LEMMA Counted ==
  ASSUME Given, NEW u, NEW v
  PROVE  Cardinality({k \in Slots : s_sorted[k] = u /\ s_sorted[(k + 1) % (2 * N)] = v})
         = Cardinality({i \in Row : t[i] = u /\ t[next(i)] = v})
             + Cardinality({i \in Row : f[i] = u /\ f[i] = v})
<1>1. PICK p : IsOrder(p)
  BY Order
<1> DEFINE InS == {k \in Slots : s_sorted[k] = u /\ s_sorted[(k + 1) % (2 * N)] = v}
           InT == {i \in Row : t[i] = u /\ t[next(i)] = v}
           InF == {i \in Row : f[i] = u /\ f[i] = v}
           ofT == [i \in InT |-> p[2 * i + 1]]
           ofF == [i \in InF |-> p[2 * i]]
           AtT == {p[2 * i + 1] : i \in InT}
           AtF == {p[2 * i] : i \in InF}
<1>2. /\ \A k \in Slots : p[k] \in Slots
      /\ \A k, m \in Slots : p[k] = p[m] => k = m
      /\ \A k \in Slots : \E m \in Slots : p[m] = k
  BY <1>1 DEF IsOrder, Bijection, Injection, Surjection, IsInjective
<1>3. \A i, j \in Row : /\ p[2 * i] = p[2 * j] => i = j
                        /\ p[2 * i + 1] = p[2 * j + 1] => i = j
                        /\ p[2 * i] # p[2 * j + 1]
  <2>1. \A i, j \in Row : /\ 2 * i = 2 * j => i = j
                          /\ 2 * i + 1 = 2 * j + 1 => i = j
                          /\ 2 * i # 2 * j + 1
    BY DEF Row
  <2> QED
    BY <1>2, <2>1, SlotsOfRows
<1>4. InS = AtT \cup AtF
  <2>1. ASSUME NEW k \in InS
        PROVE  k \in AtT \cup AtF
    <3>1. PICK m \in Slots : p[m] = k
      BY <1>2
    <3>2. m \div 2 \in Row /\ m % 2 \in {0, 1} /\ m = 2 * (m \div 2) + (m % 2)
      BY SlotsOfRows
    <3>3. m = 2 * (m \div 2) \/ m = 2 * (m \div 2) + 1
      BY <3>2 DEF Row
    <3>4. CASE m = 2 * (m \div 2)
      <4>1. m \div 2 \in InF
        BY <1>1, <3>1, <3>2, <3>4 DEF IsOrder
      <4> QED
        BY <3>1, <3>4, <4>1
    <3>5. CASE m = 2 * (m \div 2) + 1
      <4>1. m \div 2 \in InT
        BY <1>1, <3>1, <3>2, <3>5 DEF IsOrder
      <4> QED
        BY <3>1, <3>5, <4>1
    <3> QED
      BY <3>3, <3>4, <3>5
  <2>2. \A i \in InT : p[2 * i + 1] \in InS
    BY <1>1, <1>2, SlotsOfRows DEF IsOrder
  <2>3. \A i \in InF : p[2 * i] \in InS
    BY <1>1, <1>2, SlotsOfRows DEF IsOrder
  <2> QED
    BY <2>1, <2>2, <2>3
<1>5. AtT \cap AtF = {}
  BY <1>3
<1>6. IsFiniteSet(InT) /\ IsFiniteSet(InF)
  <2>1. InT \in SUBSET Row /\ InF \in SUBSET Row
    OBVIOUS
  <2> HIDE DEF InT, InF
  <2> QED
    BY <2>1, Finite
<1>7. IsFiniteSet(AtT) /\ Cardinality(AtT) = Cardinality(InT)
  <2>1. ofT \in Bijection(InT, AtT)
    BY <1>3 DEF Bijection, Injection, Surjection, IsInjective
  <2> HIDE DEF InT, AtT, ofT
  <2> QED
    BY <1>6, <2>1, FS_Bijection DEF ExistsBijection
<1>8. IsFiniteSet(AtF) /\ Cardinality(AtF) = Cardinality(InF)
  <2>1. ofF \in Bijection(InF, AtF)
    BY <1>3 DEF Bijection, Injection, Surjection, IsInjective
  <2> HIDE DEF InF, AtF, ofF
  <2> QED
    BY <1>6, <2>1, FS_Bijection DEF ExistsBijection
<1> HIDE DEF InS, InT, InF, AtT, AtF
<1>9. Cardinality(InS) = Cardinality(AtT) + Cardinality(AtF)
  <2>1. Cardinality(AtT \cup AtF)
          = Cardinality(AtT) + Cardinality(AtF) - Cardinality(AtT \cap AtF)
    BY <1>7, <1>8, FS_Union
  <2>2. Cardinality(AtT \cap AtF) = 0
    BY <1>5, FS_EmptySet, Zenon
  <2>3. Cardinality(InS) = Cardinality(AtT \cup AtF)
    BY <1>4, Zenon
  <2>4. Cardinality(AtT) \in Nat /\ Cardinality(AtF) \in Nat
    BY <1>7, <1>8, FS_CardinalityType
  <2> QED
    BY <2>1, <2>2, <2>3, <2>4
<1> QED
  BY <1>7, <1>8, <1>9 DEF InS, InT, InF

-----------------------------------------------------------------------------
\* A product over the slots is one over the rows, of two slots each,
LEMMA Pairs ==
  ASSUME NEW g \in [Slots -> Fr]
  PROVE  product([i \in Row |-> mul(g[2 * i], g[2 * i + 1])]) = product(g)
<1> DEFINE e == [i \in Row |-> 2 * i]
           o == [i \in Row |-> 2 * i + 1]
           Evens == {e[i] : i \in Row}
           Odds == {o[i] : i \in Row}
           ge == [i \in Row |-> g[e[i]]]
           go == [i \in Row |-> g[o[i]]]
<1>1. \A i, j \in Row : /\ 2 * i = 2 * j => i = j
                        /\ 2 * i + 1 = 2 * j + 1 => i = j
                        /\ 2 * i # 2 * j + 1
  BY DEF Row
<1>2. e \in Injection(Row, Slots) /\ o \in Injection(Row, Slots)
  BY <1>1, SlotsOfRows DEF Injection, IsInjective
<1>3. Evens \subseteq Slots /\ Slots \ Evens = Odds
  <2>1. \A k \in Slots : \E i \in Row : k = 2 * i \/ k = 2 * i + 1
    <3> SUFFICES ASSUME NEW k \in Slots
                 PROVE  \E i \in Row : k = 2 * i \/ k = 2 * i + 1
      OBVIOUS
    <3>1. k \div 2 \in Row /\ k % 2 \in {0, 1} /\ k = 2 * (k \div 2) + (k % 2)
      BY SlotsOfRows
    <3>2. k = 2 * (k \div 2) \/ k = 2 * (k \div 2) + 1
      BY <3>1 DEF Row
    <3> QED
      BY <3>1, <3>2
  <2>2. /\ \A k : k \in Evens <=> \E i \in Row : k = 2 * i
        /\ \A k : k \in Odds <=> \E i \in Row : k = 2 * i + 1
    OBVIOUS
  <2> HIDE DEF Evens, Odds
  <2>3. \A k \in Evens : k \in Slots /\ k \notin Odds
    BY <1>1, <2>2, SlotsOfRows
  <2>4. \A k \in Odds : k \in Slots
    BY <2>2, SlotsOfRows
  <2>5. \A k \in Slots : k \in Evens \/ k \in Odds
    BY <2>1, <2>2
  <2> QED
    BY <2>3, <2>4, <2>5
<1>4. ge \in [Row -> Fr] /\ go \in [Row -> Fr]
  BY SlotsOfRows
<1>5. [i \in Row |-> mul(g[2 * i], g[2 * i + 1])] = [i \in Row |-> mul(ge[i], go[i])]
  OBVIOUS
<1> HIDE DEF e, o
<1>6. product(ge) = product(Restrict(g, Evens)) /\ product(go) = product(Restrict(g, Odds))
  BY <1>2, Finite, SlotsOfRows, ProductRenamed
<1> HIDE DEF ge, go, Evens, Odds
<1>7. product([i \in Row |-> mul(ge[i], go[i])]) = mul(product(ge), product(go))
  BY <1>4, Finite, ProductOfBoth
<1>8. product(g) = mul(product(Restrict(g, Evens)), product(Restrict(g, Odds)))
  <2>1. product(g) = mul(product(Restrict(g, Evens)), product(Restrict(g, Slots \ Evens)))
    BY <1>3, SlotsOfRows, ProductOfParts
  <2> QED
    BY <1>3, <2>1
<1> QED
  BY <1>5, <1>6, <1>7, <1>8

\* and does not change with their order.
LEMMA PairsInOrder ==
  ASSUME NEW g \in [Slots -> Fr], NEW p \in Bijection(Slots, Slots)
  PROVE  product([i \in Row |-> mul(g[p[2 * i]], g[p[2 * i + 1]])])
         = product([i \in Row |-> mul(g[2 * i], g[2 * i + 1])])
<1> DEFINE gp == [k \in Slots |-> g[p[k]]]
<1>1. /\ p \in Injection(Slots, Slots) /\ \A k \in Slots : p[k] \in Slots
      /\ {p[k] : k \in Slots} = Slots
  BY DEF Bijection, Injection, Surjection
<1>2. gp \in [Slots -> Fr] /\ Restrict(g, Slots) = g
  BY <1>1 DEF Restrict
<1>3. product(gp) = product(Restrict(g, {p[k] : k \in Slots}))
  BY <1>1, SlotsOfRows, ProductRenamed
<1>4. [i \in Row |-> mul(g[p[2 * i]], g[p[2 * i + 1]])]
        = [i \in Row |-> mul(gp[2 * i], gp[2 * i + 1])]
  BY SlotsOfRows
<1> HIDE DEF gp
<1>5. product([i \in Row |-> mul(gp[2 * i], gp[2 * i + 1])]) = product(gp)
  BY <1>2, Pairs
<1>6. product([i \in Row |-> mul(g[2 * i], g[2 * i + 1])]) = product(g)
  BY Pairs
<1> QED
  BY <1>1, <1>2, <1>3, <1>4, <1>5, <1>6

\* With the one inverse of the product of all, each denominator is inverted.
LEMMA BatchInverse ==
  ASSUME den \in [Row -> Fr \ {0}], NEW i \in Row
  PROVE  batchInverse[i] \in Fr /\ mul(batchInverse[i], den[i]) = 1
<1> DEFINE D == product(den)
           S == Row \ {i}
           others == Restrict(den, S)
           B == 0..(i - 1)
           A == (i + 1)..(N - 1)
<1>1. den \in [Row -> Fr] /\ IsFiniteSet(Row) /\ IsFiniteSet(S) /\ others \in [S -> Fr]
  BY Finite DEF Restrict
<1>2. D \in Fr \ {0}
  BY <1>1, ProductLaws, ProductNotZero
<1>3. B \in SUBSET S /\ S \ B = A /\ S \in SUBSET Row /\ 0..(N - 1) = Row
  BY NIsNat DEF Row
<1>4. before(N) = D
  <2>1. [x \in 0..(N - 1) |-> den[x]] = den
    BY <1>1, <1>3
  <2> QED
    BY <2>1 DEF before
<1>5. before(i) = product(Restrict(others, B)) /\ after(i) = product(Restrict(others, S \ B))
  <2>1. Restrict(others, B) = [x \in B |-> den[x]]
    BY <1>3 DEF Restrict
  <2>2. Restrict(others, S \ B) = [x \in A |-> den[x]]
    BY <1>3 DEF Restrict
  <2> QED
    BY <2>1, <2>2 DEF before, after
<1>6. product(others) = mul(before(i), after(i))
  <2> HIDE DEF S, others, B, A
  <2> QED
    BY <1>1, <1>3, <1>5, ProductOfParts
<1>7. D = mul(den[i], product(others)) /\ product(others) \in Fr
  <2>1. product(den) = mul(den[i], product(Restrict(den, Row \ {i})))
    BY <1>1, ProductLaws
  <2>2. product(others) \in Fr
    <3> HIDE DEF S, others
    <3> QED
      BY <1>1, ProductLaws
  <2> QED
    BY <2>1, <2>2
<1> HIDE DEF S, others, B, A, D
<1>8. batchInverse[i] = mul(inv(D), product(others))
  BY <1>4, <1>6 DEF batchInverse
<1>9. inv(D) \in Fr /\ mul(D, inv(D)) = 1
  BY <1>2, HasInverse
<1>10. batchInverse[i] \in Fr /\ den[i] \in Fr
  BY <1>1, <1>7, <1>8, <1>9, Operations
<1>11. mul(batchInverse[i], den[i]) = mul(inv(D), mul(product(others), den[i]))
  BY <1>7, <1>8, <1>9, <1>10, MulLaws
<1>12. mul(product(others), den[i]) = mul(den[i], product(others))
  BY <1>7, <1>10, MulLaws
<1>13. mul(inv(D), D) = mul(D, inv(D))
  BY <1>2, <1>9, MulLaws
<1> QED
  BY <1>7, <1>9, <1>10, <1>11, <1>12, <1>13

\* The products of the first elements go from 1 to the product of all.
LEMMA Accumulated ==
  ASSUME NEW r \in [Row -> Fr], NEW i \in Row
  PROVE  LET to(j) == product([x \in 0..(j - 1) |-> r[x]])
         IN  to(0) = 1 /\ to(i) \in Fr /\ to(i + 1) = mul(r[i], to(i)) /\ to(N) = product(r)
<1> DEFINE to(j) == product([x \in 0..(j - 1) |-> r[x]])
           upTo(j) == [x \in 0..(j - 1) |-> r[x]]
<1>1. \A j \in 0..N : upTo(j) \in [0..(j - 1) -> Fr] /\ IsFiniteSet(0..(j - 1))
  <2> SUFFICES ASSUME NEW j \in 0..N
               PROVE  upTo(j) \in [0..(j - 1) -> Fr] /\ IsFiniteSet(0..(j - 1))
    OBVIOUS
  <2>1. 0..(j - 1) \subseteq Row
    BY NIsNat DEF Row
  <2>2. 0 \in Int /\ j - 1 \in Int
    BY NIsNat
  <2> QED
    BY <2>1, <2>2, FS_Interval
<1>2. 0 \in 0..N /\ N \in 0..N /\ i \in 0..N /\ i + 1 \in 0..N
  BY NIsNat DEF Row
<1>3. to(0) = 1
  <2>1. 0..(0 - 1) = {}
    BY NIsNat
  <2> HIDE DEF upTo
  <2>2. product(upTo(0)) = 1
    BY <1>1, <1>2, <2>1, ProductLaws
  <2> QED
    BY <2>2 DEF upTo
<1>4. to(i) \in Fr
  <2> HIDE DEF upTo
  <2>1. product(upTo(i)) \in Fr
    BY <1>1, <1>2, ProductLaws
  <2> QED
    BY <2>1 DEF upTo
<1>5. to(i + 1) = mul(r[i], to(i))
  <2>1. i \in 0..((i + 1) - 1) /\ (0..((i + 1) - 1)) \ {i} = 0..(i - 1)
    BY DEF Row
  <2>2. Restrict(upTo(i + 1), 0..(i - 1)) = upTo(i) /\ upTo(i + 1)[i] = r[i]
    BY <2>1 DEF Restrict
  <2> HIDE DEF upTo
  <2>3. product(upTo(i + 1))
          = mul(upTo(i + 1)[i], product(Restrict(upTo(i + 1), (0..((i + 1) - 1)) \ {i})))
    BY <1>1, <1>2, <2>1, ProductLaws
  <2>4. product(upTo(i + 1)) = mul(r[i], product(upTo(i)))
    BY <2>1, <2>2, <2>3
  <2> QED
    BY <2>4 DEF upTo
<1>6. to(N) = product(r)
  <2>1. upTo(N) = r
    BY DEF Row
  <2> QED
    BY <2>1
<1> QED
  BY <1>3, <1>4, <1>5, <1>6

\* Two equal products, of which one is without zero: the products of the ratios
\* close.
LEMMA RatiosClose ==
  ASSUME num \in [Row -> Fr], den \in [Row -> Fr \ {0}], product(num) = product(den)
  PROVE  /\ \A i \in Row : Ratio(i) \in Fr /\ mul(Ratio(i), den[i]) = num[i]
         /\ product([i \in Row |-> Ratio(i)]) = 1
<1> DEFINE r == [i \in Row |-> Ratio(i)]
<1>1. ASSUME NEW i \in Row
      PROVE  Ratio(i) \in Fr /\ mul(Ratio(i), den[i]) = num[i]
  <2>1. batchInverse[i] \in Fr /\ mul(batchInverse[i], den[i]) = 1
    BY BatchInverse
  <2>2. num[i] \in Fr /\ den[i] \in Fr
    OBVIOUS
  <2>3. Ratio(i) \in Fr
    BY <2>1, <2>2, Operations DEF Ratio
  <2>4. mul(mul(num[i], batchInverse[i]), den[i]) = mul(num[i], mul(batchInverse[i], den[i]))
    BY <2>1, <2>2, MulLaws
  <2>5. mul(num[i], 1) = mul(1, num[i]) /\ mul(1, num[i]) = num[i]
    BY <2>2, PIsNat, MulLaws
  <2> QED
    BY <2>1, <2>3, <2>4, <2>5 DEF Ratio
<1>2. r \in [Row -> Fr] /\ den \in [Row -> Fr] /\ num = [i \in Row |-> mul(r[i], den[i])]
  BY <1>1
<1> HIDE DEF r
<1>3. product(num) = mul(product(r), product(den))
  BY <1>2, Finite, ProductOfBoth
<1>4. product(r) \in Fr /\ product(den) \in Fr \ {0}
  BY <1>2, Finite, ProductLaws, ProductNotZero
<1>5. mul(product(den), product(r)) = mul(product(den), 1)
  <2>1. mul(product(den), product(r)) = mul(product(r), product(den))
    BY <1>4, MulLaws
  <2>2. mul(product(den), 1) = mul(1, product(den)) /\ mul(1, product(den)) = product(den)
    BY <1>4, PIsNat, MulLaws
  <2> QED
    BY <1>3, <2>1, <2>2
<1>6. product(r) = 1
  BY <1>4, <1>5, PIsNat, Cancel
<1> QED
  BY <1>1, <1>6 DEF r

-----------------------------------------------------------------------------
\* Each factor of a numerator is that of a pair that follows in s.
LEMMA Terms ==
  ASSUME challenge \in [gamma : Challenges, delta : Challenges],
         NEW a \in Fr, NEW b \in Fr
  PROVE  /\ Term(a, b) \in Fr
         /\ mul(mul(add(a, challenge.gamma), b), 1 + challenge.delta) = mul(Term(a, a), b)
<1> DEFINE g == challenge.gamma
           d == challenge.delta
           S == add(a, g)
           T == Term(a, a)
           L == mul(mul(S, b), 1 + d)
           R == mul(T, b)
<1>1. g \in Fr /\ d \in Fr
  BY NIsNat
<1>2. g \in Int /\ d \in Int /\ a \in Int /\ b \in Int /\ 1 + d \in Int
  BY <1>1, PIsNat
<1> HIDE DEF g, d
<1>3. Term(a, b) \in Fr
  <2>1. g * (1 + d) + a + d * b \in Int
    BY <1>2
  <2> QED
    BY <2>1, CongMod DEF Term, g, d
<1>4. S \in Fr /\ Cong(S, a + g)
  BY <1>1, Operations
<1>5. mul(S, b) \in Fr /\ Cong(mul(S, b), S * b)
  BY <1>4, Operations
<1>6. T \in Fr /\ Cong(T, (a + g) * (1 + d))
  <2>1. g * (1 + d) + a + d * a \in Int /\ g * (1 + d) + a + d * a = (a + g) * (1 + d)
    BY <1>2
  <2> QED
    BY <2>1, CongMod DEF Term, g, d
<1> HIDE DEF S, T
<1>7. S \in Int /\ T \in Int /\ mul(S, b) \in Int
  <2>1. \A x \in Fr : x \in Int
    BY PIsNat
  <2> QED
    BY <1>4, <1>5, <1>6, <2>1, Zenon
<1>8. /\ S * b \in Int /\ (a + g) * b \in Int /\ a + g \in Int /\ (a + g) * (1 + d) \in Int
      /\ mul(S, b) * (1 + d) \in Int /\ T * b \in Int
      /\ ((a + g) * b) * (1 + d) \in Int /\ ((a + g) * (1 + d)) * b \in Int
      /\ ((a + g) * b) * (1 + d) = ((a + g) * (1 + d)) * b
  BY <1>2, <1>7
<1>9. L \in Fr /\ Cong(L, mul(S, b) * (1 + d))
  BY <1>8, CongMod DEF mul
<1>10. R \in Fr /\ Cong(R, T * b)
  BY <1>6, Operations
<1> HIDE DEF L, R
<1>11. L \in Int /\ R \in Int
  <2>1. \A x \in Fr : x \in Int
    BY PIsNat
  <2> QED
    BY <1>9, <1>10, <2>1, Zenon
<1>12. Cong(mul(S, b), (a + g) * b)
  <2>1. Cong(S * b, (a + g) * b)
    BY <1>2, <1>4, <1>7, <1>8, CongMul, CongRefl
  <2> QED
    BY <1>5, <1>7, <1>8, <2>1, CongTransitive
<1>13. Cong(mul(S, b) * (1 + d), ((a + g) * b) * (1 + d))
  BY <1>2, <1>7, <1>8, <1>12, CongMul, CongRefl
<1>14. Cong(L, ((a + g) * b) * (1 + d))
  BY <1>8, <1>9, <1>11, <1>13, CongTransitive
<1>15. Cong(R, ((a + g) * (1 + d)) * b)
  <2>1. Cong(T * b, ((a + g) * (1 + d)) * b)
    BY <1>2, <1>6, <1>7, <1>8, CongMul, CongRefl
  <2> QED
    BY <1>8, <1>10, <1>11, <2>1, CongTransitive
<1>16. L = R
  <2>1. Cong(L, R)
    <3>1. Cong(((a + g) * b) * (1 + d), R)
      BY <1>8, <1>11, <1>15, CongSymmetric
    <3> QED
      BY <1>8, <1>11, <1>14, <3>1, CongTransitive
  <2> QED
    BY <1>9, <1>10, <2>1, CongEqual
<1> QED
  BY <1>3, <1>16 DEF L, R, S, T, g, d

\* So the numerators and the denominators have the same product.
LEMMA SameProducts ==
  ASSUME Given, Filled, tExp = t, challenge \in [gamma : Challenges, delta : Challenges],
         num = [i \in Row |-> Numerator(i)], den = [i \in Row |-> Denominator(i)]
  PROVE  num \in [Row -> Fr] /\ den \in [Row -> Fr] /\ product(num) = product(den)
<1>1. PICK p : IsOrder(p)
  BY Order
<1> DEFINE g == [k \in Slots |-> Term(s_sorted[k], s_sorted[(k + 1) % (2 * N)])]
<1>2. p \in Bijection(Slots, Slots) /\ \A k \in Slots : p[k] \in Slots
  BY <1>1 DEF IsOrder, Bijection, Injection
<1>3. g \in [Slots -> Fr]
  BY TypeOfS, Terms, SlotsOfRows
<1>4. \A i \in Row : /\ t[i] \in Fr /\ t[next(i)] \in Fr /\ f[i] \in Fr
                    /\ g[2 * i] \in Fr /\ g[2 * i + 1] \in Fr
                    /\ g[p[2 * i]] \in Fr /\ g[p[2 * i + 1]] \in Fr
  BY <1>2, <1>3, NIsNat, SlotsOfRows DEF Given
<1>5. ASSUME NEW i \in Row
      PROVE  num[i] = mul(g[p[2 * i]], g[p[2 * i + 1]])
  <2>1. /\ g[p[2 * i]] = Term(f[i], f[i])
        /\ g[p[2 * i + 1]] = Term(t[i], t[next(i)])
    BY <1>1, <1>2, SlotsOfRows DEF IsOrder
  <2>2. num[i] = mul(mul(add(f[i], challenge.gamma), Term(t[i], t[next(i)])), 1 + challenge.delta)
    BY DEF Numerator
  <2>3. Term(t[i], t[next(i)]) \in Fr
    BY <1>4, Terms
  <2> QED
    BY <1>4, <2>1, <2>2, <2>3, Terms
<1>6. ASSUME NEW i \in Row
      PROVE  den[i] = mul(g[2 * i], g[2 * i + 1])
  <2>1. /\ h1[i] = s_sorted[2 * i] /\ h2[i] = s_sorted[2 * i + 1]
        /\ (2 * i + 1) % (2 * N) = 2 * i + 1
        /\ h1[next(i)] = s_sorted[((2 * i + 1) + 1) % (2 * N)]
    BY Alternating
  <2>2. g[2 * i] = Term(h1[i], h2[i]) /\ g[2 * i + 1] = Term(h2[i], h1[next(i)])
    BY <2>1, SlotsOfRows
  <2>3. den[i] = mul(Term(h1[i], h2[i]), Term(h2[i], h1[next(i)]))
    BY DEF Denominator
  <2> QED
    BY <2>2, <2>3
<1> HIDE DEF g
<1>7. num = [i \in Row |-> mul(g[p[2 * i]], g[p[2 * i + 1]])]
  BY <1>5
<1>8. den = [i \in Row |-> mul(g[2 * i], g[2 * i + 1])]
  BY <1>6
<1>9. num \in [Row -> Fr] /\ den \in [Row -> Fr]
  <2>1. \A i \in Row : num[i] \in Fr /\ den[i] \in Fr
    BY <1>4, <1>5, <1>6, Operations
  <2> QED
    BY <2>1
<1> QED
  BY <1>2, <1>3, <1>7, <1>8, <1>9, PairsInOrder

-----------------------------------------------------------------------------
\* The inductive invariant: tExp never differs from t, an ended row has what the
\* formulas give, and z what the ratios give.
Typed ==
  /\ t \in [Row -> Values] /\ f \in [Row -> Values]
  /\ challenge \in [gamma : Challenges, delta : Challenges]
  /\ tExp = t
  /\ row \in [Row -> {"first", "second", "products", "ended"}]
  /\ pc \in {"h1h2", "rows", "done", "exited"}
  /\ num = [i \in Row |-> num[i]] /\ den = [i \in Row |-> den[i]]
Sorted == pc \in {"rows", "done"} => Given /\ Filled
Computed ==
  \A i \in Row : row[i] = "ended" =>
    pc \in {"rows", "done"} /\ num[i] = Numerator(i) /\ den[i] = Denominator(i)
Multiplied ==
  pc = "done" => /\ \A i \in Row : row[i] = "ended"
                 /\ z = [i \in Row |-> product([x \in 0..(i - 1) |-> Ratio(x)])]
LookupInv == Typed /\ Sorted /\ Computed /\ Multiplied

LEMMA InitInv == Init => LookupInv
<1> SUFFICES ASSUME Init PROVE LookupInv
  OBVIOUS
<1>1. Typed
  BY DEF Init, Typed
<1>2. Sorted /\ Multiplied
  BY DEF Init, Sorted, Multiplied
<1>3. Computed
  BY DEF Init, Computed
<1> QED
  BY <1>1, <1>2, <1>3 DEF LookupInv

\* The next row is a row.
LEMMA NextRow == \A i \in Row : next(i) \in Row
BY SlotsOfRows

\* What the steps of the rows leave alone.
LEMMA Unchanged ==
  ASSUME UNCHANGED <<t, f, challenge, h1, h2, tExp>>
  PROVE  /\ Given => Given'
         /\ Filled => Filled'
         /\ \A i \in Row : Numerator(i)' = Numerator(i) /\ Denominator(i)' = Denominator(i)
<1>1. Given => Given'
  BY DEF Given
<1>2. Filled => Filled'
  <2>1. \A v : idx_t(v)' = idx_t(v)
    BY DEF idx_t
  <2>2. \A i : place(i)' = place(i)
    BY DEF place, idx_t
  <2>3. s_sorted' = s_sorted
    BY DEF s_sorted, place, idx_t
  <2> QED
    BY <2>3 DEF Filled
<1>3. \A i \in Row : Numerator(i)' = Numerator(i) /\ Denominator(i)' = Denominator(i)
  BY DEF Numerator, Denominator, Term
<1> QED
  BY <1>1, <1>2, <1>3

LEMMA NextInv == LookupInv /\ [Next]_vars => LookupInv'
<1> SUFFICES ASSUME LookupInv, [Next]_vars
             PROVE  LookupInv'
  OBVIOUS
<1> USE DEF LookupInv
<1>1. CASE CalculateH1H2
  <2>1. Typed' /\ UNCHANGED <<t, f, challenge, tExp, num, den, row>>
    BY <1>1 DEF CalculateH1H2, Typed
  <2>2. s_sorted' = s_sorted /\ (Given <=> Given')
    BY <2>1 DEF s_sorted, place, idx_t, Given
  <2>3. Sorted'
    <3>1. pc' \in {"rows", "done"} =>
            /\ \A i \in Row : f[i] \in Range(t)
            /\ h1' = [i \in Row |-> s_sorted[2 * i]] /\ h2' = [i \in Row |-> s_sorted[2 * i + 1]]
      BY <1>1 DEF CalculateH1H2
    <3>2. pc' \in {"rows", "done"} => Given
      BY <3>1 DEF Typed, Given
    <3> QED
      BY <2>2, <3>1, <3>2 DEF Sorted, Filled
  <2>4. \A i \in Row : row[i] # "ended"
    BY <1>1 DEF CalculateH1H2, Computed
  <2>5. Computed'
    BY <2>1, <2>4 DEF Computed
  <2>6. Multiplied'
    BY <1>1 DEF CalculateH1H2, Multiplied
  <2> QED
    BY <2>1, <2>3, <2>5, <2>6
<1>2. CASE \E i \in Row : FirstWrite(i) \/ SecondWrite(i)
  <2>1. PICK i \in Row : FirstWrite(i) \/ SecondWrite(i)
    BY <1>2
  <2>2. tExp' = tExp
    BY <2>1, NextRow DEF FirstWrite, SecondWrite, Typed
  <2>3. /\ UNCHANGED <<t, f, challenge, h1, h2, num, den, z, pc>> /\ pc = "rows"
        /\ row' \in [Row -> {"first", "second", "products", "ended"}]
        /\ \A j \in Row : row'[j] = "ended" => row[j] = "ended"
    BY <2>1 DEF FirstWrite, SecondWrite, Typed
  <2>4. Typed'
    BY <2>2, <2>3 DEF Typed
  <2>5. Sorted'
    BY <2>2, <2>3, Unchanged DEF Sorted
  <2>6. Computed'
    BY <2>2, <2>3, Unchanged DEF Computed
  <2>7. Multiplied'
    BY <2>3 DEF Multiplied
  <2> QED
    BY <2>4, <2>5, <2>6, <2>7
<1>3. CASE \E i \in Row : Products(i)
  <2>1. PICK i \in Row : Products(i)
    BY <1>3
  <2>2. UNCHANGED <<t, f, challenge, h1, h2, tExp, z, pc>> /\ pc = "rows"
    BY <2>1 DEF Products
  <2>3. /\ Typed'
        /\ \A j \in Row \ {i} : num'[j] = num[j] /\ den'[j] = den[j] /\ row'[j] = row[j]
        /\ num'[i] = Numerator(i) /\ den'[i] = Denominator(i)
    <3>1. /\ num' = [num EXCEPT ![i] = Numerator(i)]
          /\ den' = [den EXCEPT ![i] = Denominator(i)]
          /\ row' = [row EXCEPT ![i] = "ended"]
      BY <2>1 DEF Products
    <3>2. Typed'
      BY <2>2, <3>1 DEF Typed
    <3> QED
      BY <3>1, <3>2 DEF Typed
  <2>4. Sorted'
    BY <2>2, Unchanged DEF Sorted
  <2>5. Computed'
    BY <2>2, <2>3, Unchanged DEF Computed
  <2>6. Multiplied'
    BY <2>2 DEF Multiplied
  <2> QED
    BY <2>3, <2>4, <2>5, <2>6
<1>4. CASE CalculateZ
  <2>1. /\ UNCHANGED <<t, f, challenge, h1, h2, tExp, num, den, row>>
        /\ pc = "rows" /\ pc' = "done" /\ \A i \in Row : row[i] = "ended"
        /\ z' = [i \in Row |-> product([x \in 0..(i - 1) |-> Ratio(x)])]
    BY <1>4 DEF CalculateZ
  <2>2. Typed'
    BY <2>1 DEF Typed
  <2>3. Sorted' /\ Computed'
    BY <2>1, Unchanged DEF Sorted, Computed
  <2>4. Multiplied'
    <3>1. \A x : Ratio(x)' = Ratio(x)
      BY <2>1 DEF Ratio, batchInverse, before, after
    <3> QED
      BY <2>1, <3>1 DEF Multiplied
  <2> QED
    BY <2>2, <2>3, <2>4
<1>5. CASE UNCHANGED vars
  <2>1. UNCHANGED <<t, f, challenge, h1, h2, tExp, num, den, z, row, pc>>
    BY <1>5 DEF vars
  <2>2. Typed'
    BY <2>1 DEF Typed
  <2>3. Sorted' /\ Computed'
    BY <2>1, Unchanged DEF Sorted, Computed
  <2>4. Multiplied'
    <3>1. \A x : Ratio(x)' = Ratio(x)
      BY <2>1 DEF Ratio, batchInverse, before, after
    <3> QED
      BY <2>1, <3>1 DEF Multiplied
  <2> QED
    BY <2>2, <2>3, <2>4
<1> QED
  BY <1>1, <1>2, <1>3, <1>4, <1>5 DEF Next, Ended

\* What each step of the lookup keeps, for the two theorems that follow.
THEOREM Invariant == Spec => []LookupInv
<1>1. LookupInv /\ [Next]_vars => LookupInv'
  BY NextInv
<1> QED
  BY InitInv, <1>1, PTL DEF Spec

\* calculateH1H2 leaves f and t in h1 and h2, read alternately, in the order of
\* t: for every table and column of any length.
THEOREM Sorting == Spec => []SortedAlongTheTable
<1>1. LookupInv => SortedAlongTheTable
  <2> SUFFICES ASSUME LookupInv, pc \in {"rows", "done"}, NEW u \in Fr, NEW v \in Fr
               PROVE  Cardinality({k \in 0..(2 * N - 1) : Alternately[k] = u /\ Alternately[(k + 1) % (2 * N)] = v})
                      = Cardinality({i \in Row : t[i] = u /\ t[next(i)] = v})
                          + Cardinality({i \in Row : f[i] = u /\ f[i] = v})
    BY DEF SortedAlongTheTable
  <2>1. Given /\ Filled
    BY DEF LookupInv, Sorted
  <2>2. Alternately = s_sorted
    BY <2>1, Alternating
  <2>3. {k \in 0..(2 * N - 1) : Alternately[k] = u /\ Alternately[(k + 1) % (2 * N)] = v}
          = {k \in Slots : s_sorted[k] = u /\ s_sorted[(k + 1) % (2 * N)] = v}
    BY <2>2 DEF Slots
  <2>4. Cardinality({k \in Slots : s_sorted[k] = u /\ s_sorted[(k + 1) % (2 * N)] = v})
        = Cardinality({i \in Row : t[i] = u /\ t[next(i)] = v})
            + Cardinality({i \in Row : f[i] = u /\ f[i] = v})
    BY <2>1, Counted
  <2> QED
    BY <2>3, <2>4, Zenon
<1> QED
  BY Invariant, <1>1, PTL

\* The grand product closes for every prime, every number of rows, every
\* challenge, and every interleaving of the rows' threads.
THEOREM GrandProduct == Spec => []GrandProductCloses
<1>1. LookupInv => GrandProductCloses
  <2> SUFFICES ASSUME LookupInv, pc = "done", \A i \in Row : den[i] # 0
               PROVE  /\ z[0] = 1
                      /\ \A i \in Row : mul(z[i], num[i]) = mul(z[next(i)], den[i])
    BY DEF GrandProductCloses
  <2>1. /\ Given /\ Filled /\ tExp = t /\ challenge \in [gamma : Challenges, delta : Challenges]
        /\ num = [i \in Row |-> Numerator(i)] /\ den = [i \in Row |-> Denominator(i)]
        /\ z = [i \in Row |-> product([x \in 0..(i - 1) |-> Ratio(x)])]
    <3>1. \A i \in Row : num[i] = Numerator(i) /\ den[i] = Denominator(i)
      BY DEF LookupInv, Multiplied, Computed
    <3>2. num = [i \in Row |-> num[i]] /\ den = [i \in Row |-> den[i]]
      BY DEF LookupInv, Typed
    <3> QED
      BY <3>1, <3>2 DEF LookupInv, Typed, Sorted, Multiplied
  <2>2. num \in [Row -> Fr] /\ den \in [Row -> Fr] /\ product(num) = product(den)
    BY <2>1, SameProducts
  <2>3. den \in [Row -> Fr \ {0}]
    BY <2>2
  <2>4. /\ \A i \in Row : Ratio(i) \in Fr /\ mul(Ratio(i), den[i]) = num[i]
        /\ product([i \in Row |-> Ratio(i)]) = 1
    BY <2>2, <2>3, RatiosClose
  <2> DEFINE r == [i \in Row |-> Ratio(i)]
             to(j) == product([x \in 0..(j - 1) |-> r[x]])
  <2>5. r \in [Row -> Fr] /\ product(r) = 1
    BY <2>4
  <2>6. \A j \in 0..N : [x \in 0..(j - 1) |-> Ratio(x)] = [x \in 0..(j - 1) |-> r[x]]
    <3>1. \A j \in 0..N : 0..(j - 1) \subseteq Row
      BY NIsNat DEF Row
    <3> QED
      BY <3>1
  <2>7. \A i \in Row : z[i] = to(i)
    <3>1. \A i \in Row : i \in 0..N
      BY NIsNat DEF Row
    <3> QED
      BY <2>1, <2>6, <3>1
  <2>8. \A i \in Row : r[i] = Ratio(i)
    OBVIOUS
  <2> HIDE DEF r
  <2>9. \A i \in Row : to(0) = 1 /\ to(i) \in Fr /\ to(i + 1) = mul(r[i], to(i)) /\ to(N) = 1
    BY <2>5, Accumulated
  <2>10. 0 \in Row
    BY NIsNat DEF Row
  <2> HIDE DEF to
  <2>11. z[0] = 1
    BY <2>7, <2>9, <2>10
  <2>12. ASSUME NEW i \in Row
         PROVE  z[next(i)] = mul(r[i], z[i])
    <3>1. CASE i = N - 1
      <4>1. next(i) = 0 /\ i + 1 = N
        BY <3>1, NIsNat DEF next
      <4> QED
        BY <2>7, <2>9, <2>11, <4>1
    <3>2. CASE i # N - 1
      <4>1. i + 1 \in 0..(N - 1)
        BY <3>2, NIsNat DEF Row
      <4>2. next(i) = i + 1 /\ i + 1 \in Row
        BY <4>1, NIsNat DEF next, Row
      <4> QED
        BY <2>7, <2>9, <4>2
    <3> QED
      BY <3>1, <3>2
  <2>13. ASSUME NEW i \in Row
         PROVE  mul(z[i], num[i]) = mul(z[next(i)], den[i])
    <3>1. r[i] \in Fr /\ den[i] \in Fr /\ z[i] \in Fr /\ num[i] = mul(r[i], den[i])
      BY <2>2, <2>4, <2>7, <2>8, <2>9
    <3>2. mul(z[i], mul(r[i], den[i])) = mul(mul(z[i], r[i]), den[i])
      BY <3>1, MulLaws
    <3>3. mul(z[i], r[i]) = mul(r[i], z[i])
      BY <3>1, MulLaws
    <3> QED
      BY <2>12, <3>1, <3>2, <3>3
  <2> QED
    BY <2>11, <2>13
<1> QED
  BY Invariant, <1>1, PTL
=============================================================================
