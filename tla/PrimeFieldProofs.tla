-------------------------- MODULE PrimeFieldProofs --------------------------
(***************************************************************************)
(* The arithmetic that the other proofs rest on: induction in terms of     *)
(* sets, the field's laws for every prime P, its sums and products over    *)
(* finite sets, in whatever order the definition takes the elements, the   *)
(* roots of polynomials, the roots of unity, and what the operations of    *)
(* Polynomials compute, by the values of their results.                    *)
(***************************************************************************)
EXTENDS Polynomials, FiniteSetTheorems, TLAPS

\* A set with 0 that has the successor of each of its numbers has all of them:
\* otherwise x + 1 would map a finite part of it one to one into one without 0.
LEMMA Induction ==
  ASSUME NEW S, 0 \in S, \A n \in Nat : n \in S => n + 1 \in S
  PROVE  \A n \in Nat : n \in S
<1> SUFFICES ASSUME NEW m \in Nat, m \notin S
             PROVE  FALSE
  OBVIOUS
<1> DEFINE T == {n \in 0..m : n \in S}
           U == T \ {0}
           g == [n \in T |-> n + 1]
<1>1. IsFiniteSet(T)
  <2>1. IsFiniteSet(0..m)
    BY FS_Interval
  <2> QED
    BY <2>1, FS_Subset
<1>2. g \in Injection(T, U)
  <2>1. \A n \in T : n + 1 \in U
    OBVIOUS
  <2>2. g \in [T -> U]
    BY <2>1
  <2>3. \A x, y \in T : g[x] = g[y] => x = y
    OBVIOUS
  <2> QED
    BY <2>2, <2>3 DEF Injection, IsInjective
<1>3. 0 \in T
  OBVIOUS
<1> HIDE DEF T, g
<1>4. IsFiniteSet(U) /\ Cardinality(U) = Cardinality(T) - 1
  BY <1>1, <1>3, FS_RemoveElement
<1>5. Cardinality(T) <= Cardinality(U)
  BY <1>2, <1>4, FS_Injection
<1>6. Cardinality(T) \in Nat
  BY <1>1, FS_CardinalityType
<1> QED
  BY <1>4, <1>5, <1>6

\* A set of numbers has a least one.
LEMMA Least ==
  ASSUME NEW T, T \subseteq Nat, T # {}
  PROVE  \E x \in T : \A y \in T : x <= y
<1> SUFFICES ASSUME \A x \in T : \E y \in T : ~(x <= y)
             PROVE  FALSE
  OBVIOUS
<1> DEFINE S == {n \in Nat : \A k \in 0..n : k \notin T}
<1>1. 0 \in S
  OBVIOUS
<1>2. ASSUME NEW n \in Nat, n \in S
      PROVE  n + 1 \in S
  <2>1. \A k \in 0..(n + 1) : k \in 0..n \/ k = n + 1
    OBVIOUS
  <2>2. n + 1 \notin T
    <3>1. ASSUME n + 1 \in T
          PROVE  FALSE
      <4>1. PICK y \in T : ~(n + 1 <= y)
        BY <3>1
      <4>2. y \in 0..n
        BY <4>1
      <4> QED
        BY <1>2, <4>2
    <3> QED
      BY <3>1
  <2> QED
    BY <1>2, <2>1, <2>2
<1>3. \A n \in Nat : n \in S
  <2> HIDE DEF S
  <2> QED
    BY <1>1, <1>2, Induction
<1>4. \A n \in Nat : n \notin T
  BY <1>3
<1> QED
  BY <1>4

-----------------------------------------------------------------------------
\* The operations as functions: they are commutative monoids.
IsMonoid(A, h, e) ==
  /\ h \in [A \X A -> A] /\ e \in A
  /\ \A x \in A : h[<<e, x>>] = x
  /\ \A x, y \in A : h[<<x, y>>] = h[<<y, x>>]
  /\ \A x, y, z \in A : h[<<x, h[<<y, z>>]>>] = h[<<h[<<x, y>>], z>>]

\* What FoldFunction computes: the folds of the subsets, one element after the
\* other.
first(s) == CHOOSE x \in s : TRUE
IsFold(g, S, h, e, f) ==
  g = [s \in SUBSET S |-> IF s = {} THEN e ELSE h[<<f[first(s)], g[s \ {first(s)}]>>]]
fold(h, e, f) == (CHOOSE g : IsFold(g, DOMAIN f, h, e, f))[DOMAIN f]

\* A set of sets that has the empty one, and a set when it has those with an
\* element less, has every finite set.
LEMMA SetInduction ==
  ASSUME NEW S, IsFiniteSet(S), NEW Q,
         {} \in Q,
         \A T \in SUBSET S : T # {} /\ (\A x \in T : T \ {x} \in Q) => T \in Q
  PROVE  S \in Q
<1> DEFINE K == {n \in Nat : \A T \in SUBSET S : Cardinality(T) = n => T \in Q}
<1>1. \A T \in SUBSET S : IsFiniteSet(T) /\ Cardinality(T) \in Nat
  BY FS_Subset, FS_CardinalityType
<1>2. 0 \in K
  <2>1. \A T \in SUBSET S : Cardinality(T) = 0 => T = {}
    BY <1>1, FS_EmptySet
  <2> QED
    BY <2>1
<1>3. ASSUME NEW n \in Nat, n \in K
      PROVE  n + 1 \in K
  <2> SUFFICES ASSUME NEW T \in SUBSET S, Cardinality(T) = n + 1
               PROVE  T \in Q
    OBVIOUS
  <2>1. T # {}
    <3>1. Cardinality({}) = 0 /\ 0 # n + 1
      BY FS_EmptySet
    <3> QED
      BY <3>1, Zenon
  <2>2. ASSUME NEW x \in T
        PROVE  T \ {x} \in Q
    <3>1. Cardinality(T \ {x}) = n
      BY <1>1, FS_RemoveElement
    <3> QED
      BY <1>3, <3>1
  <2> QED
    BY <2>1, <2>2
<1>4. \A n \in Nat : n \in K
  <2> HIDE DEF K
  <2> QED
    BY <1>2, <1>3, Induction
<1> QED
  BY <1>1, <1>4

\* There is such a function,
LEMMA FoldExists ==
  ASSUME NEW S, IsFiniteSet(S), NEW A, NEW h, NEW e, IsMonoid(A, h, e), NEW f \in [S -> A]
  PROVE  \E g \in [SUBSET S -> A] : IsFold(g, S, h, e, f)
<1> DEFINE L(n) == {s \in SUBSET S : Cardinality(s) <= n}
           folded(g, s) == IF s = {} THEN e ELSE h[<<f[first(s)], g[s \ {first(s)}]>>]
           K == {n \in Nat : \E g \in [L(n) -> A] : \A s \in L(n) : g[s] = folded(g, s)}
<1>1. \A s \in SUBSET S : IsFiniteSet(s) /\ Cardinality(s) \in Nat
  BY FS_Subset, FS_CardinalityType
<1>2. \A s \in SUBSET S : s # {} =>
        /\ first(s) \in s /\ f[first(s)] \in A
        /\ s \ {first(s)} \in SUBSET S /\ Cardinality(s \ {first(s)}) = Cardinality(s) - 1
  <2> SUFFICES ASSUME NEW s \in SUBSET S, s # {}
               PROVE  /\ first(s) \in s /\ f[first(s)] \in A
                      /\ s \ {first(s)} \in SUBSET S
                      /\ Cardinality(s \ {first(s)}) = Cardinality(s) - 1
    OBVIOUS
  <2>1. first(s) \in s
    BY DEF first
  <2>2. Cardinality(s \ {first(s)}) = Cardinality(s) - 1
    BY <1>1, <2>1, FS_RemoveElement
  <2> QED
    BY <2>1, <2>2
<1>3. 0 \in K
  <2>1. \A s \in L(0) : s = {}
    BY <1>1, FS_EmptySet
  <2> DEFINE g == [s \in L(0) |-> e]
  <2>2. g \in [L(0) -> A] /\ \A s \in L(0) : g[s] = folded(g, s)
    BY <2>1 DEF IsMonoid
  <2> QED
    BY <2>2
<1>4. ASSUME NEW n \in Nat, n \in K
      PROVE  n + 1 \in K
  <2>1. PICK g \in [L(n) -> A] : \A s \in L(n) : g[s] = folded(g, s)
    BY <1>4
  <2> DEFINE g1 == [s \in L(n + 1) |-> folded(g, s)]
  <2>2. \A s \in L(n + 1) : s # {} => s \ {first(s)} \in L(n)
    BY <1>1, <1>2
  <2>3. g1 \in [L(n + 1) -> A]
    BY <1>2, <2>2 DEF IsMonoid
  <2>4. \A s \in L(n) : s \in L(n + 1) /\ g1[s] = g[s]
    BY <1>1, <2>1
  <2>5. \A s \in L(n + 1) : g1[s] = folded(g1, s)
    BY <2>2, <2>4
  <2> HIDE DEF g1, L, folded
  <2>6. \E u \in [L(n + 1) -> A] : \A s \in L(n + 1) : u[s] = folded(u, s)
    BY <2>3, <2>5
  <2> QED
    BY <2>6
<1>5. Cardinality(S) \in K
  <2>1. \A n \in Nat : n \in K
    <3> HIDE DEF K
    <3> QED
      BY <1>3, <1>4, Induction
  <2> QED
    BY <1>1, <2>1
<1>6. L(Cardinality(S)) = SUBSET S
  BY FS_Subset
<1> QED
  BY <1>5, <1>6 DEF IsFold

\* and only one.
LEMMA FoldUnique ==
  ASSUME NEW S, IsFiniteSet(S), NEW h, NEW e, NEW f, NEW g,
         NEW S1, NEW f1, NEW g1, S \subseteq S1, \A x \in S : f[x] = f1[x],
         IsFold(g, S, h, e, f), IsFold(g1, S1, h, e, f1)
  PROVE  g[S] = g1[S]
<1> DEFINE K == {n \in Nat : \A s \in SUBSET S : Cardinality(s) = n => g[s] = g1[s]}
<1>1. \A s \in SUBSET S : IsFiniteSet(s) /\ Cardinality(s) \in Nat
  BY FS_Subset, FS_CardinalityType
<1>2. 0 \in K
  <2>1. \A s \in SUBSET S : Cardinality(s) = 0 => s = {}
    BY <1>1, FS_EmptySet
  <2>2. g[{}] = e /\ g1[{}] = e
    BY DEF IsFold
  <2> QED
    BY <2>1, <2>2
<1>3. ASSUME NEW n \in Nat, n \in K
      PROVE  n + 1 \in K
  <2> SUFFICES ASSUME NEW s \in SUBSET S, Cardinality(s) = n + 1
               PROVE  g[s] = g1[s]
    OBVIOUS
  <2>1. s # {}
    <3>1. Cardinality({}) = 0 /\ 0 # n + 1
      BY FS_EmptySet
    <3> QED
      BY <3>1, Zenon
  <2>2. first(s) \in s
    BY <2>1 DEF first
  <2>3. Cardinality(s \ {first(s)}) = n
    <3> HIDE DEF first
    <3>1. IsFiniteSet(s) /\ Cardinality(s) = n + 1
      BY <1>1
    <3>2. Cardinality(s \ {first(s)}) = Cardinality(s) - 1
      BY <2>2, <3>1, FS_RemoveElement
    <3> QED
      BY <3>1, <3>2
  <2>4. g[s \ {first(s)}] = g1[s \ {first(s)}]
    BY <1>3, <2>3
  <2>5. g[s] = h[<<f[first(s)], g[s \ {first(s)}]>>]
    BY <2>1 DEF IsFold
  <2>6. g1[s] = h[<<f1[first(s)], g1[s \ {first(s)}]>>]
    BY <2>1 DEF IsFold
  <2> QED
    BY <2>2, <2>4, <2>5, <2>6
<1>4. \A n \in Nat : n \in K
  <2> HIDE DEF K
  <2> QED
    BY <1>2, <1>3, Induction
<1> QED
  BY <1>1, <1>4

\* The fold of a part of a function is what one function of folds has there.
LEMMA FoldIs ==
  ASSUME NEW S, IsFiniteSet(S), NEW A, NEW h, NEW e, IsMonoid(A, h, e), NEW f \in [S -> A],
         NEW g, IsFold(g, S, h, e, f), NEW T \in SUBSET S
  PROVE  fold(h, e, Restrict(f, T)) = g[T]
<1>1. IsFiniteSet(T) /\ Restrict(f, T) \in [T -> A]
  BY FS_Subset DEF Restrict
<1>2. \E u : IsFold(u, T, h, e, Restrict(f, T))
  BY <1>1, FoldExists
<1> DEFINE u == CHOOSE u : IsFold(u, T, h, e, Restrict(f, T))
<1>3. IsFold(u, T, h, e, Restrict(f, T))
  BY <1>2
<1>4. fold(h, e, Restrict(f, T)) = u[T]
  BY DEF fold, Restrict
<1>5. \A x \in T : Restrict(f, T)[x] = f[x]
  BY DEF Restrict
<1> HIDE DEF u
<1>6. u[T] = g[T]
  BY <1>1, <1>3, <1>5, FoldUnique
<1> QED
  BY <1>4, <1>6

\* A fold is of the monoid; it is the neutral element, or any element's value
\* with the fold of the others.
LEMMA FoldStep ==
  ASSUME NEW S, IsFiniteSet(S), NEW A, NEW h, NEW e, IsMonoid(A, h, e), NEW f \in [S -> A]
  PROVE  /\ \A T \in SUBSET S : fold(h, e, Restrict(f, T)) \in A
         /\ fold(h, e, Restrict(f, {})) = e
         /\ \A T \in SUBSET S : \A x \in T :
              fold(h, e, Restrict(f, T)) = h[<<f[x], fold(h, e, Restrict(f, T \ {x}))>>]
<1>1. PICK g \in [SUBSET S -> A] : IsFold(g, S, h, e, f)
  BY FoldExists
<1>2. \A T \in SUBSET S : fold(h, e, Restrict(f, T)) = g[T]
  BY <1>1, FoldIs
<1> DEFINE Q == {T \in SUBSET S : \A x \in T : g[T] = h[<<f[x], g[T \ {x}]>>]}
<1>3. {} \in Q
  OBVIOUS
<1>4. ASSUME NEW T \in SUBSET S, T # {}, \A x \in T : T \ {x} \in Q
      PROVE  T \in Q
  <2> SUFFICES ASSUME NEW x \in T
               PROVE  g[T] = h[<<f[x], g[T \ {x}]>>]
    OBVIOUS
  <2> DEFINE y == first(T)
  <2>1. y \in T
    BY <1>4 DEF first
  <2>2. g[T] = h[<<f[y], g[T \ {y}]>>]
    BY <1>1, <1>4 DEF IsFold
  <2> HIDE DEF y
  <2>3. CASE x = y
    BY <2>2, <2>3
  <2>4. CASE x # y
    <3> DEFINE U == (T \ {x}) \ {y}
    <3>1. U = (T \ {y}) \ {x} /\ U \in SUBSET S
      OBVIOUS
    <3>2. g[T \ {y}] = h[<<f[x], g[U]>>]
      BY <1>4, <2>1, <2>4, <3>1
    <3>3. g[T \ {x}] = h[<<f[y], g[U]>>]
      BY <1>4, <2>1, <2>4
    <3>4. f[x] \in A /\ f[y] \in A /\ g[U] \in A
      BY <1>1, <2>1, <3>1
    <3> HIDE DEF U
    <3>5. h[<<f[y], h[<<f[x], g[U]>>]>>] = h[<<h[<<f[y], f[x]>>], g[U]>>]
      BY <3>4 DEF IsMonoid
    <3>6. h[<<f[x], h[<<f[y], g[U]>>]>>] = h[<<h[<<f[x], f[y]>>], g[U]>>]
      BY <3>4 DEF IsMonoid
    <3>7. h[<<f[y], f[x]>>] = h[<<f[x], f[y]>>]
      BY <3>4 DEF IsMonoid
    <3> QED
      BY <2>2, <3>2, <3>3, <3>5, <3>6, <3>7
  <2> QED
    BY <2>3, <2>4
<1>5. ASSUME NEW T \in SUBSET S
      PROVE  T \in Q
  <2> HIDE DEF Q
  <2>1. IsFiniteSet(T)
    BY FS_Subset
  <2>2. \A U \in SUBSET T : U # {} /\ (\A x \in U : U \ {x} \in Q) => U \in Q
    BY <1>4
  <2> QED
    BY <1>3, <2>1, <2>2, SetInduction
<1>6. g[{}] = e
  BY <1>1 DEF IsFold
<1>7. \A T \in SUBSET S : \A x \in T : g[T] = h[<<f[x], g[T \ {x}]>>]
  BY <1>5
<1> QED
  BY <1>1, <1>2, <1>6, <1>7

\* A fold does not change when the elements are renamed one to one.
LEMMA FoldRenamed ==
  ASSUME NEW S, IsFiniteSet(S), NEW T, IsFiniteSet(T), NEW p \in Injection(S, T),
         NEW A, NEW h, NEW e, IsMonoid(A, h, e), NEW f \in [T -> A]
  PROVE  fold(h, e, [x \in S |-> f[p[x]]]) = fold(h, e, Restrict(f, {p[x] : x \in S}))
<1> DEFINE fp == [x \in S |-> f[p[x]]]
           Image(U) == {p[x] : x \in U}
           Q == {U \in SUBSET S : fold(h, e, Restrict(fp, U)) = fold(h, e, Restrict(f, Image(U)))}
<1>1. p \in [S -> T] /\ \A x, y \in S : p[x] = p[y] => x = y
  BY DEF Injection, IsInjective
<1>2. fp \in [S -> A]
  BY <1>1
<1>3. \A U \in SUBSET S : Image(U) \in SUBSET T
  BY <1>1
<1>4. {} \in Q
  <2>1. Image({}) = {}
    OBVIOUS
  <2>2. fold(h, e, Restrict(fp, {})) = e /\ fold(h, e, Restrict(f, {})) = e
    <3> HIDE DEF fp
    <3> QED
      BY <1>2, FoldStep
  <2> QED
    BY <2>1, <2>2
<1>5. ASSUME NEW U \in SUBSET S, U # {}, \A x \in U : U \ {x} \in Q
      PROVE  U \in Q
  <2>1. PICK x \in U : TRUE
    BY <1>5
  <2>2. Image(U) \ {p[x]} = Image(U \ {x})
    BY <1>1
  <2>3. fold(h, e, Restrict(fp, U)) = h[<<fp[x], fold(h, e, Restrict(fp, U \ {x}))>>]
    <3> HIDE DEF fp
    <3> QED
      BY <1>2, FoldStep
  <2>4. p[x] \in Image(U) /\ Image(U) \in SUBSET T
    BY <1>3
  <2>5. fold(h, e, Restrict(f, Image(U))) = h[<<f[p[x]], fold(h, e, Restrict(f, Image(U) \ {p[x]}))>>]
    <3> HIDE DEF Image
    <3> QED
      BY <2>4, FoldStep
  <2>6. fp[x] = f[p[x]]
    OBVIOUS
  <2>7. fold(h, e, Restrict(fp, U \ {x})) = fold(h, e, Restrict(f, Image(U \ {x})))
    BY <1>5
  <2> HIDE DEF fp, Image
  <2> QED
    BY <2>2, <2>3, <2>5, <2>6, <2>7
<1>6. S \in Q
  <2> HIDE DEF Q
  <2> QED
    BY <1>4, <1>5, SetInduction
<1>7. Restrict(fp, S) = fp
  BY DEF Restrict
<1> QED
  BY <1>6, <1>7

\* The fold of two functions element by element is that of both.
LEMMA FoldOfBoth ==
  ASSUME NEW S, IsFiniteSet(S), NEW A, NEW h, NEW e, IsMonoid(A, h, e),
         NEW f \in [S -> A], NEW g \in [S -> A]
  PROVE  fold(h, e, [x \in S |-> h[<<f[x], g[x]>>]]) = h[<<fold(h, e, f), fold(h, e, g)>>]
<1> DEFINE b == [x \in S |-> h[<<f[x], g[x]>>]]
           F(u, T) == fold(h, e, Restrict(u, T))
           Q == {T \in SUBSET S : F(b, T) = h[<<F(f, T), F(g, T)>>]}
<1>1. b \in [S -> A]
  BY DEF IsMonoid
<1>2. \A u \in [S -> A] : /\ \A T \in SUBSET S : F(u, T) \in A
                          /\ F(u, {}) = e
                          /\ \A T \in SUBSET S : \A x \in T : F(u, T) = h[<<u[x], F(u, T \ {x})>>]
  BY FoldStep
<1> HIDE DEF F
<1>3. {} \in Q
  BY <1>1, <1>2 DEF IsMonoid
<1>4. ASSUME NEW T \in SUBSET S, T # {}, \A x \in T : T \ {x} \in Q
      PROVE  T \in Q
  <2>1. PICK x \in T : TRUE
    BY <1>4
  <2> DEFINE U == T \ {x}
  <2>2. F(b, T) = h[<<b[x], F(b, U)>>] /\ F(f, T) = h[<<f[x], F(f, U)>>]
          /\ F(g, T) = h[<<g[x], F(g, U)>>]
    <3> HIDE DEF b, U
    <3>1. \A u \in [S -> A] : F(u, T) = h[<<u[x], F(u, U)>>]
      BY <1>2 DEF U
    <3> QED
      BY <1>1, <3>1
  <2>3. b[x] = h[<<f[x], g[x]>>]
    OBVIOUS
  <2>4. F(b, U) = h[<<F(f, U), F(g, U)>>]
    BY <1>4
  <2>5. f[x] \in A /\ g[x] \in A /\ F(f, U) \in A /\ F(g, U) \in A
    BY <1>2
  <2> HIDE DEF U, b
  <2>6. \A s, t, u, v \in A : h[<<h[<<s, t>>], h[<<u, v>>]>>] = h[<<h[<<s, u>>], h[<<t, v>>]>>]
    <3> SUFFICES ASSUME NEW s \in A, NEW t \in A, NEW u \in A, NEW v \in A
                 PROVE  h[<<h[<<s, t>>], h[<<u, v>>]>>] = h[<<h[<<s, u>>], h[<<t, v>>]>>]
      OBVIOUS
    <3>1. h[<<u, v>>] \in A /\ h[<<t, v>>] \in A /\ h[<<t, u>>] = h[<<u, t>>]
      BY DEF IsMonoid
    <3>2. h[<<h[<<s, t>>], h[<<u, v>>]>>] = h[<<s, h[<<t, h[<<u, v>>]>>]>>]
      BY <3>1 DEF IsMonoid
    <3>3. h[<<t, h[<<u, v>>]>>] = h[<<h[<<t, u>>], v>>] /\ h[<<u, h[<<t, v>>]>>] = h[<<h[<<u, t>>], v>>]
      BY DEF IsMonoid
    <3>4. h[<<h[<<s, u>>], h[<<t, v>>]>>] = h[<<s, h[<<u, h[<<t, v>>]>>]>>]
      BY <3>1 DEF IsMonoid
    <3> QED
      BY <3>1, <3>2, <3>3, <3>4
  <2>7. F(b, T) = h[<<h[<<f[x], g[x]>>], h[<<F(f, U), F(g, U)>>]>>]
    BY <2>2, <2>3, <2>4
  <2>8. h[<<F(f, T), F(g, T)>>] = h[<<h[<<f[x], F(f, U)>>], h[<<g[x], F(g, U)>>]>>]
    BY <2>2
  <2>9. F(b, T) = h[<<F(f, T), F(g, T)>>]
    BY <2>5, <2>6, <2>7, <2>8
  <2> QED
    BY <2>9
<1>5. S \in Q
  <2> HIDE DEF Q
  <2> QED
    BY <1>3, <1>4, SetInduction
<1>6. Restrict(f, S) = f /\ Restrict(g, S) = g /\ Restrict(b, S) = b
  BY DEF Restrict
<1> QED
  BY <1>5, <1>6 DEF F

\* The fold of the whole is that of a part with that of the rest.
LEMMA FoldOfParts ==
  ASSUME NEW S, IsFiniteSet(S), NEW A, NEW h, NEW e, IsMonoid(A, h, e), NEW f \in [S -> A],
         NEW T \in SUBSET S
  PROVE  fold(h, e, f) = h[<<fold(h, e, Restrict(f, T)), fold(h, e, Restrict(f, S \ T))>>]
<1> DEFINE F(U) == fold(h, e, Restrict(f, U))
           Q == {U \in SUBSET S : F(S) = h[<<F(U), F(S \ U)>>]}
<1>1. /\ \A U \in SUBSET S : F(U) \in A
      /\ F({}) = e
      /\ \A U \in SUBSET S : \A x \in U : F(U) = h[<<f[x], F(U \ {x})>>]
  BY FoldStep
<1> HIDE DEF F
<1>2. {} \in Q
  <2>1. S \ {} = S
    OBVIOUS
  <2> QED
    BY <1>1, <2>1 DEF IsMonoid
<1>3. ASSUME NEW U \in SUBSET T, U # {}, \A x \in U : U \ {x} \in Q
      PROVE  U \in Q
  <2>1. PICK x \in U : TRUE
    BY <1>3
  <2> DEFINE V == U \ {x}
  <2>2. F(S) = h[<<F(V), F(S \ V)>>]
    BY <1>3
  <2>3. x \in S \ V /\ (S \ V) \ {x} = S \ U /\ S \ V \in SUBSET S
    OBVIOUS
  <2>4. F(S \ V) = h[<<f[x], F(S \ U)>>]
    <3> DEFINE W == S \ V
    <3> HIDE DEF V, W
    <3>1. W \in SUBSET S /\ x \in W /\ W \ {x} = S \ U
      BY <2>3 DEF W
    <3>2. F(W) = h[<<f[x], F(W \ {x})>>]
      BY <1>1, <3>1
    <3> QED
      BY <3>1, <3>2 DEF W
  <2>5. F(U) = h[<<f[x], F(V)>>]
    BY <1>1
  <2>6. f[x] \in A /\ F(V) \in A /\ F(S \ U) \in A
    <3>1. f[x] \in A /\ V \in SUBSET S /\ S \ U \in SUBSET S
      OBVIOUS
    <3> HIDE DEF V
    <3> QED
      BY <1>1, <3>1
  <2> HIDE DEF V
  <2>7. h[<<F(V), h[<<f[x], F(S \ U)>>]>>] = h[<<h[<<F(V), f[x]>>], F(S \ U)>>]
          /\ h[<<F(V), f[x]>>] = h[<<f[x], F(V)>>]
    <3>1. \A a, b, c \in A : /\ h[<<a, h[<<b, c>>]>>] = h[<<h[<<a, b>>], c>>]
                             /\ h[<<a, b>>] = h[<<b, a>>]
      BY DEF IsMonoid
    <3> QED
      BY <2>6, <3>1
  <2>8. F(S) = h[<<F(U), F(S \ U)>>]
    BY <2>2, <2>4, <2>5, <2>7
  <2> QED
    BY <2>8
<1>4. T \in Q
  <2> HIDE DEF Q
  <2>1. IsFiniteSet(T)
    BY FS_Subset
  <2> QED
    BY <1>2, <1>3, <2>1, SetInduction
<1>5. Restrict(f, S) = f
  BY DEF Restrict
<1> QED
  BY <1>4, <1>5 DEF F

-----------------------------------------------------------------------------
\* Two integers that differ by a multiple of P.
Cong(a, b) == \E k \in Int : a = b + k * P

\* The order of the field, and its elements, are integers.
LEMMA PIsNat == P \in Nat \ {0, 1} /\ P \in Int /\ 0 \in Fr /\ 1 \in Fr /\ \A x \in Fr : x \in Int /\ x \in Nat
<1>1. P \in Nat \ {0, 1}
  BY PrimeAssumption
<1> QED
  BY <1>1 DEF Fr

\* An integer is congruent to its rest, which is an element.
LEMMA CongMod ==
  ASSUME NEW a \in Int
  PROVE  a % P \in Fr /\ Cong(a % P, a)
<1>1. P \in Nat \ {0}
  BY PIsNat
<1>2. a \div P \in Int /\ a % P \in 0..(P - 1) /\ a = P * (a \div P) + (a % P)
  BY <1>1
<1>3. -(a \div P) \in Int
  BY <1>2
<1>4. (-(a \div P)) * P = -(P * (a \div P)) /\ P * (a \div P) \in Int
  BY <1>1, <1>2
<1>5. a % P = a + (-(a \div P)) * P
  <2> DEFINE q == P * (a \div P)
  <2>1. q \in Int /\ a = q + (a % P) /\ a % P \in Int
    BY <1>2, <1>4
  <2>2. (-(a \div P)) * P = -q
    BY <1>4
  <2> HIDE DEF q
  <2> QED
    BY <2>1, <2>2
<1> QED
  BY <1>2, <1>3, <1>5 DEF Fr, Cong

\* Elements that are congruent are equal.
LEMMA CongEqual ==
  ASSUME NEW a \in Fr, NEW b \in Fr, Cong(a, b)
  PROVE  a = b
<1>1. P \in Nat \ {0}
  BY PIsNat
<1>2. PICK k \in Int : a = b + k * P
  BY DEF Cong
<1>3. k * P \in Int
  BY <1>1
<1>4. CASE k >= 1
  <2>1. k * P >= 1 * P
    BY <1>1, <1>4
  <2> QED
    BY <1>1, <1>2, <1>3, <2>1 DEF Fr
<1>5. CASE k <= -1
  <2>1. k * P <= (-1) * P
    BY <1>1, <1>5
  <2> QED
    BY <1>1, <1>2, <1>3, <2>1 DEF Fr
<1>6. CASE k = 0
  BY <1>1, <1>2, <1>6 DEF Fr
<1> QED
  BY <1>4, <1>5, <1>6

\* Congruence modulo P is symmetric,
LEMMA CongSymmetric ==
  ASSUME NEW a \in Int, NEW b \in Int, Cong(a, b)
  PROVE  Cong(b, a)
<1>1. P \in Int
  BY PIsNat
<1>2. PICK k \in Int : a = b + k * P
  BY DEF Cong
<1>3. b = a + (-k) * P /\ -k \in Int
  BY <1>1, <1>2
<1> QED
  BY <1>3 DEF Cong

\* and transitive,
LEMMA CongTransitive ==
  ASSUME NEW a \in Int, NEW b \in Int, NEW c \in Int, Cong(a, b), Cong(b, c)
  PROVE  Cong(a, c)
<1>1. P \in Int
  BY PIsNat
<1>2. PICK k \in Int : a = b + k * P
  BY DEF Cong
<1>3. PICK l \in Int : b = c + l * P
  BY DEF Cong
<1>4. a = c + (k + l) * P /\ k + l \in Int
  BY <1>1, <1>2, <1>3
<1> QED
  BY <1>4 DEF Cong

\* kept by differences,
LEMMA CongSub ==
  ASSUME NEW a \in Int, NEW b \in Int, NEW c \in Int, NEW d \in Int, Cong(a, b), Cong(c, d)
  PROVE  Cong(a - c, b - d)
<1>1. P \in Int
  BY PIsNat
<1>2. PICK k \in Int : a = b + k * P
  BY DEF Cong
<1>3. PICK l \in Int : c = d + l * P
  BY DEF Cong
<1>4. a - c = (b - d) + (k - l) * P /\ k - l \in Int
  BY <1>1, <1>2, <1>3
<1> QED
  BY <1>4 DEF Cong

\* and by products.
LEMMA CongMul ==
  ASSUME NEW a \in Int, NEW b \in Int, NEW c \in Int, NEW d \in Int, Cong(a, b), Cong(c, d)
  PROVE  Cong(a * c, b * d)
<1>1. P \in Int
  BY PIsNat
<1>2. PICK k \in Int : a = b + k * P
  BY DEF Cong
<1>3. PICK l \in Int : c = d + l * P
  BY DEF Cong
<1>4. (b + k * P) * (d + l * P) = b * d + (b * l + k * d + k * (l * P)) * P
  BY <1>1
<1>5. b * l + k * d + k * (l * P) \in Int
  BY <1>1
<1> QED
  BY <1>2, <1>3, <1>4, <1>5 DEF Cong

\* It is reflexive too.
LEMMA CongRefl == ASSUME NEW a \in Int PROVE Cong(a, a)
<1>1. P \in Int
  BY PIsNat
<1>2. a = a + 0 * P
  BY <1>1
<1> QED
  BY <1>2 DEF Cong

\* kept by sums
LEMMA CongAdd ==
  ASSUME NEW a \in Int, NEW b \in Int, NEW c \in Int, NEW d \in Int, Cong(a, b), Cong(c, d)
  PROVE  Cong(a + c, b + d)
<1>1. PICK k \in Int : a = b + k * P
  BY DEF Cong
<1>2. PICK l \in Int : c = d + l * P
  BY DEF Cong
<1>3. a + c = (b + d) + (k + l) * P /\ k + l \in Int
  BY <1>1, <1>2, PIsNat
<1> QED
  BY <1>3 DEF Cong

\* The operations are those of the integers modulo P.
LEMMA Operations ==
  ASSUME NEW a \in Fr, NEW b \in Fr
  PROVE  /\ add(a, b) \in Fr /\ Cong(add(a, b), a + b)
         /\ sub(a, b) \in Fr /\ Cong(sub(a, b), a - b)
         /\ mul(a, b) \in Fr /\ Cong(mul(a, b), a * b)
<1>1. a \in Int /\ b \in Int
  BY PIsNat
<1>2. a + b \in Int /\ a - b \in Int /\ a * b \in Int
  BY <1>1
<1> QED
  BY <1>2, CongMod DEF add, sub, mul

\* The laws of a ring.
LEMMA AddLaws ==
  ASSUME NEW a \in Fr, NEW b \in Fr, NEW c \in Fr
  PROVE  /\ add(a, b) = add(b, a) /\ add(0, a) = a
         /\ add(a, add(b, c)) = add(add(a, b), c)
<1>1. a \in Int /\ b \in Int /\ c \in Int /\ a \in 0..(P - 1)
  BY PIsNat DEF Fr
<1>2. add(a, b) = add(b, a)
  BY <1>1 DEF add
<1>3. add(0, a) = a
  BY <1>1, PIsNat DEF add
<1>4. /\ add(b, c) \in Fr /\ Cong(add(b, c), b + c)
      /\ add(a, b) \in Fr /\ Cong(add(a, b), a + b)
  BY Operations
<1>5. /\ add(a, add(b, c)) \in Fr /\ Cong(add(a, add(b, c)), a + add(b, c))
      /\ add(add(a, b), c) \in Fr /\ Cong(add(add(a, b), c), add(a, b) + c)
  BY <1>4, Operations
<1>6. add(b, c) \in Int /\ add(a, b) \in Int /\ add(a, add(b, c)) \in Int
        /\ add(add(a, b), c) \in Int
  BY <1>4, <1>5, PIsNat
<1>7. Cong(a + add(b, c), a + (b + c))
  BY <1>1, <1>4, <1>6, CongAdd, CongRefl
<1>8. Cong(add(a, b) + c, (a + b) + c)
  BY <1>1, <1>4, <1>6, CongAdd, CongRefl
<1>9. a + (b + c) = (a + b) + c /\ a + add(b, c) \in Int /\ add(a, b) + c \in Int /\ (a + b) + c \in Int
  BY <1>1, <1>6
<1>10. Cong(add(a, add(b, c)), (a + b) + c)
  BY <1>5, <1>6, <1>7, <1>9, CongTransitive
<1>11. Cong((a + b) + c, add(add(a, b), c))
  <2>1. Cong(add(add(a, b), c), (a + b) + c)
    BY <1>5, <1>6, <1>8, <1>9, CongTransitive
  <2> QED
    BY <1>6, <1>9, <2>1, CongSymmetric
<1>12. Cong(add(a, add(b, c)), add(add(a, b), c))
  BY <1>6, <1>9, <1>10, <1>11, CongTransitive
<1> QED
  BY <1>2, <1>3, <1>5, <1>12, CongEqual

\* Multiplication is commutative and associative, with 1 and 0 as they should be.
LEMMA MulLaws ==
  ASSUME NEW a \in Fr, NEW b \in Fr, NEW c \in Fr
  PROVE  /\ mul(a, b) = mul(b, a) /\ mul(1, a) = a /\ mul(0, a) = 0
         /\ mul(a, mul(b, c)) = mul(mul(a, b), c)
<1>1. a \in Int /\ b \in Int /\ c \in Int /\ a \in 0..(P - 1)
  BY PIsNat DEF Fr
<1>2. mul(a, b) = mul(b, a)
  <2>1. a * b = b * a
    BY <1>1
  <2> QED
    BY <2>1 DEF mul
<1>3. mul(1, a) = a /\ mul(0, a) = 0
  BY <1>1, PIsNat DEF mul
<1>4. /\ mul(b, c) \in Fr /\ Cong(mul(b, c), b * c)
      /\ mul(a, b) \in Fr /\ Cong(mul(a, b), a * b)
  BY Operations
<1>5. /\ mul(a, mul(b, c)) \in Fr /\ Cong(mul(a, mul(b, c)), a * mul(b, c))
      /\ mul(mul(a, b), c) \in Fr /\ Cong(mul(mul(a, b), c), mul(a, b) * c)
  BY <1>4, Operations
<1>6. mul(b, c) \in Int /\ mul(a, b) \in Int /\ mul(a, mul(b, c)) \in Int
        /\ mul(mul(a, b), c) \in Int /\ b * c \in Int /\ a * b \in Int
  <2>1. b * c \in Int /\ a * b \in Int
    BY <1>1
  <2>2. \A x \in Fr : x \in Int
    BY PIsNat
  <2> QED
    BY <1>4, <1>5, <2>1, <2>2, Zenon
<1>7. Cong(a * mul(b, c), a * (b * c))
  BY <1>1, <1>4, <1>6, CongMul, CongRefl
<1>8. Cong(mul(a, b) * c, (a * b) * c)
  BY <1>1, <1>4, <1>6, CongMul, CongRefl
<1>9. a * (b * c) = (a * b) * c /\ a * mul(b, c) \in Int /\ mul(a, b) * c \in Int /\ (a * b) * c \in Int
  BY <1>1, <1>6
<1>10. Cong(mul(a, mul(b, c)), (a * b) * c)
  BY <1>5, <1>6, <1>7, <1>9, CongTransitive
<1>11. Cong((a * b) * c, mul(mul(a, b), c))
  <2>1. Cong(mul(mul(a, b), c), (a * b) * c)
    BY <1>5, <1>6, <1>8, <1>9, CongTransitive
  <2> QED
    BY <1>6, <1>9, <2>1, CongSymmetric
<1>12. Cong(mul(a, mul(b, c)), mul(mul(a, b), c))
  BY <1>6, <1>9, <1>10, <1>11, CongTransitive
<1> QED
  BY <1>2, <1>3, <1>5, <1>12, CongEqual

\* P being prime, an element that is not zero has an inverse: the least number
\* that is a multiple of it modulo P divides P.
LEMMA HasInverse ==
  ASSUME NEW a \in Fr \ {0}
  PROVE  inv(a) \in Fr /\ mul(a, inv(a)) = 1
<1>1. a \in Nat \ {0} /\ a < P /\ P \in Nat
  BY PIsNat DEF Fr
<1> DEFINE T == {d \in Nat \ {0} : \E x \in Int : Cong(a * x, d)}
<1>2. a \in T
  <2>1. a * 1 = a
    BY <1>1
  <2>2. Cong(a * 1, a)
    BY <1>1, <2>1, CongRefl
  <2> QED
    BY <1>1, <2>2
<1>3. PICK d \in T : \A y \in T : d <= y
  <2>1. T \subseteq Nat /\ T # {}
    BY <1>2
  <2> HIDE DEF T
  <2> QED
    BY <2>1, Least
<1>4. d \in Nat \ {0} /\ d <= a
  BY <1>2, <1>3
<1>5. PICK x \in Int : Cong(a * x, d)
  OBVIOUS
<1>6. P % d = 0
  <2> DEFINE q == P \div d
             r == P % d
  <2>1. q \in Int /\ r \in 0..(d - 1) /\ P = d * q + r
    BY <1>1, <1>4
  <2>2. PICK k \in Int : a * x = d + k * P
    BY <1>5 DEF Cong
  <2> HIDE DEF q, r
  <2>3. a * (-(x * q)) = r + (-(1 + k * q)) * P
    <3>1. a * (-(x * q)) = -((a * x) * q)
      BY <1>1, <2>1
    <3>2. (a * x) * q = d * q + (k * q) * P
      BY <1>1, <1>4, <2>1, <2>2
    <3>3. (-(1 + k * q)) * P = -(P + (k * q) * P)
      BY <1>1, <2>1
    <3>4. d * q \in Int /\ (k * q) * P \in Int
      BY <1>1, <1>4, <2>1
    <3> QED
      BY <1>1, <2>1, <3>1, <3>2, <3>3, <3>4
  <2>4. -(x * q) \in Int /\ -(1 + k * q) \in Int
    BY <2>1
  <2>5. Cong(a * (-(x * q)), r)
    BY <2>3, <2>4 DEF Cong
  <2>6. r # 0 => r \in T
    BY <1>4, <2>1, <2>4, <2>5
  <2>7. r = 0
    BY <1>3, <1>4, <2>1, <2>6
  <2> QED
    BY <2>7 DEF r
<1>7. d = 1
  <2>1. d \notin 2..(P - 1)
    BY <1>6, PrimeAssumption
  <2> QED
    BY <1>1, <1>4, <2>1
<1> DEFINE b == x % P
<1>8. b \in Fr /\ Cong(b, x) /\ b \in Int
  BY CongMod, PIsNat
<1> HIDE DEF b
<1>9. Cong(a * b, a * x)
  BY <1>1, <1>8, CongMul, CongRefl
<1>10. mul(a, b) \in Fr /\ Cong(mul(a, b), a * b)
  BY <1>8, Operations
<1>11. Cong(mul(a, b), 1)
  <2>1. a * b \in Int /\ a * x \in Int /\ mul(a, b) \in Int /\ a \in Int
    <3>1. a * b \in Int /\ a * x \in Int /\ a \in Int
      BY <1>1, <1>8
    <3>2. \A y \in Fr : y \in Int
      BY PIsNat
    <3> QED
      BY <1>10, <3>1, <3>2, Zenon
  <2>2. Cong(a * b, 1)
    BY <1>5, <1>7, <1>9, <2>1, CongTransitive
  <2> QED
    BY <1>10, <2>1, <2>2, CongTransitive
<1>12. mul(a, b) = 1
  BY <1>10, <1>11, PIsNat, CongEqual
<1> QED
  BY <1>8, <1>12 DEF inv

\* Multiplication distributes over addition.
LEMMA Distributive ==
  ASSUME NEW a \in Fr, NEW b \in Fr, NEW c \in Fr
  PROVE  mul(a, add(b, c)) = add(mul(a, b), mul(a, c))
<1>1. a \in Int /\ b \in Int /\ c \in Int
  BY PIsNat
<1>2. /\ add(b, c) \in Fr /\ Cong(add(b, c), b + c)
      /\ mul(a, b) \in Fr /\ Cong(mul(a, b), a * b)
      /\ mul(a, c) \in Fr /\ Cong(mul(a, c), a * c)
  BY Operations
<1> DEFINE x == mul(a, add(b, c))
           y == add(mul(a, b), mul(a, c))
<1>3. /\ x \in Fr /\ Cong(x, a * add(b, c))
      /\ y \in Fr /\ Cong(y, mul(a, b) + mul(a, c))
  BY <1>2, Operations
<1> HIDE DEF x, y
<1>4. add(b, c) \in Int /\ mul(a, b) \in Int /\ mul(a, c) \in Int /\ x \in Int /\ y \in Int
  <2>1. \A z \in Fr : z \in Int
    BY PIsNat
  <2> QED
    BY <1>2, <1>3, <2>1, Zenon
<1>5. /\ a * add(b, c) \in Int /\ mul(a, b) + mul(a, c) \in Int /\ b + c \in Int
      /\ a * (b + c) \in Int /\ a * b \in Int /\ a * c \in Int /\ a * b + a * c \in Int
  BY <1>1, <1>4
<1>6. Cong(a * add(b, c), a * (b + c))
  BY <1>1, <1>2, <1>4, <1>5, CongMul, CongRefl
<1>7. Cong(mul(a, b) + mul(a, c), a * b + a * c)
  BY <1>2, <1>4, <1>5, CongAdd
<1>8. a * (b + c) = a * b + a * c
  BY <1>1
<1>9. Cong(x, a * b + a * c)
  BY <1>3, <1>4, <1>5, <1>6, <1>8, CongTransitive
<1>10. Cong(a * b + a * c, y)
  <2>1. Cong(y, a * b + a * c)
    BY <1>3, <1>4, <1>5, <1>7, CongTransitive
  <2> QED
    BY <1>4, <1>5, <2>1, CongSymmetric
<1>11. Cong(x, y)
  BY <1>4, <1>5, <1>9, <1>10, CongTransitive
<1>12. x = y
  BY <1>3, <1>11, CongEqual
<1> QED
  BY <1>12 DEF x, y

\* There are no divisors of zero, and what is not zero can be cancelled.
LEMMA Cancel ==
  ASSUME NEW a \in Fr \ {0}, NEW b \in Fr, NEW c \in Fr
  PROVE  /\ mul(a, b) = mul(a, c) => b = c
         /\ mul(a, b) = 0 => b = 0
<1>1. inv(a) \in Fr /\ mul(a, inv(a)) = 1
  BY HasInverse
<1>2. \A x \in Fr : mul(inv(a), mul(a, x)) = x
  <2> SUFFICES ASSUME NEW x \in Fr
               PROVE  mul(inv(a), mul(a, x)) = x
    OBVIOUS
  <2>1. mul(inv(a), mul(a, x)) = mul(mul(inv(a), a), x)
    BY <1>1, MulLaws
  <2>2. mul(inv(a), a) = 1 /\ mul(1, x) = x
    BY <1>1, MulLaws
  <2> QED
    BY <2>1, <2>2
<1>3. mul(inv(a), 0) = 0
  <2>1. mul(inv(a), 0) = mul(0, inv(a)) /\ mul(0, inv(a)) = 0
    BY <1>1, PIsNat, MulLaws
  <2> QED
    BY <2>1
<1> QED
  BY <1>2, <1>3

-----------------------------------------------------------------------------
\* product and sum are such folds.
times == [p \in Fr \X Fr |-> mul(p[1], p[2])]
plusOf == [p \in Fr \X Fr |-> add(p[1], p[2])]

\* The elements with multiplication are a commutative monoid,
LEMMA TimesIsMonoid == IsMonoid(Fr, times, 1)
<1>1. \A a, b \in Fr : times[<<a, b>>] = mul(a, b) /\ mul(a, b) \in Fr
  BY Operations DEF times
<1>2. times \in [Fr \X Fr -> Fr]
  BY Operations DEF times
<1>3. 1 \in Fr
  BY PIsNat
<1>4. \A x \in Fr : times[<<1, x>>] = x
  <2>1. \A x \in Fr : mul(1, x) = x
    BY MulLaws
  <2> QED
    BY <1>1, <1>3, <2>1
<1>5. \A x, y \in Fr : times[<<x, y>>] = times[<<y, x>>]
  <2> SUFFICES ASSUME NEW x \in Fr, NEW y \in Fr
               PROVE  times[<<x, y>>] = times[<<y, x>>]
    OBVIOUS
  <2>1. times[<<x, y>>] = mul(x, y) /\ times[<<y, x>>] = mul(y, x)
    BY <1>1
  <2>2. mul(x, y) = mul(y, x)
    BY MulLaws
  <2> QED
    BY <2>1, <2>2
<1>6. \A x, y, z \in Fr : times[<<x, times[<<y, z>>]>>] = times[<<times[<<x, y>>], z>>]
  BY <1>1, MulLaws
<1> QED
  BY <1>2, <1>3, <1>4, <1>5, <1>6 DEF IsMonoid

\* and with addition another one.
LEMMA PlusIsMonoid == IsMonoid(Fr, plusOf, 0)
<1>1. \A a, b \in Fr : plusOf[<<a, b>>] = add(a, b) /\ add(a, b) \in Fr
  BY Operations DEF plusOf
<1>2. plusOf \in [Fr \X Fr -> Fr]
  BY Operations DEF plusOf
<1>3. 0 \in Fr
  BY PIsNat
<1>4. \A x \in Fr : plusOf[<<0, x>>] = x
  <2>1. \A x \in Fr : add(0, x) = x
    BY AddLaws
  <2> QED
    BY <1>1, <1>3, <2>1
<1>5. \A x, y \in Fr : plusOf[<<x, y>>] = plusOf[<<y, x>>]
  <2> SUFFICES ASSUME NEW x \in Fr, NEW y \in Fr
               PROVE  plusOf[<<x, y>>] = plusOf[<<y, x>>]
    OBVIOUS
  <2>1. plusOf[<<x, y>>] = add(x, y) /\ plusOf[<<y, x>>] = add(y, x)
    BY <1>1
  <2>2. add(x, y) = add(y, x)
    BY AddLaws
  <2> QED
    BY <2>1, <2>2
<1>6. \A x, y, z \in Fr : plusOf[<<x, plusOf[<<y, z>>]>>] = plusOf[<<plusOf[<<x, y>>], z>>]
  BY <1>1, AddLaws
<1> QED
  BY <1>2, <1>3, <1>4, <1>5, <1>6 DEF IsMonoid

\* The product of the values of a function is their fold with multiplication,
LEMMA ProductIsFold ==
  ASSUME NEW S, IsFiniteSet(S), NEW f \in [S -> Fr]
  PROVE  product(f) = fold(times, 1, f)
<1> DEFINE IsProduct(w) ==
             w = [s \in SUBSET S |-> IF s = {} THEN 1 ELSE mul(f[first(s)], w[s \ {first(s)}])]
<1>1. product(f) = (CHOOSE w : IsProduct(w))[S]
  BY DEF product, FoldFunction, FoldFunctionOnSet, MapThenFoldSet, first
<1>2. PICK g \in [SUBSET S -> Fr] : IsFold(g, S, times, 1, f)
  BY TimesIsMonoid, FoldExists
<1>3. \A s \in SUBSET S : s # {} => /\ first(s) \in s /\ f[first(s)] \in Fr
                                    /\ g[s \ {first(s)}] \in Fr
  BY <1>2 DEF first
<1>4. IsProduct(g)
  <2>1. \A s \in SUBSET S : g[s] = IF s = {} THEN 1 ELSE mul(f[first(s)], g[s \ {first(s)}])
    BY <1>2, <1>3 DEF IsFold, times
  <2> QED
    BY <1>2, <2>1
<1> DEFINE u == CHOOSE w : IsProduct(w)
<1>5. IsProduct(u)
  BY <1>4
<1> HIDE DEF u
<1> DEFINE Q == {T \in SUBSET S : u[T] = g[T]}
<1>6. {} \in Q
  BY <1>4, <1>5
<1>7. ASSUME NEW T \in SUBSET S, T # {}, \A x \in T : T \ {x} \in Q
      PROVE  T \in Q
  <2>1. first(T) \in T
    BY <1>3, <1>7
  <2>2. u[T \ {first(T)}] = g[T \ {first(T)}]
    BY <1>7, <2>1
  <2> QED
    BY <1>4, <1>5, <1>7, <2>2
<1>8. S \in Q
  <2> HIDE DEF Q
  <2> QED
    BY <1>6, <1>7, SetInduction
<1>9. fold(times, 1, Restrict(f, S)) = g[S]
  BY <1>2, TimesIsMonoid, FoldIs
<1>10. Restrict(f, S) = f
  BY DEF Restrict
<1> QED
  BY <1>1, <1>8, <1>9, <1>10 DEF u

\* and their sum the fold with addition.
LEMMA SumIsFold ==
  ASSUME NEW S, IsFiniteSet(S), NEW f \in [S -> Fr]
  PROVE  sum(f) = fold(plusOf, 0, f)
<1> DEFINE IsSum(w) ==
             w = [s \in SUBSET S |-> IF s = {} THEN 0 ELSE add(f[first(s)], w[s \ {first(s)}])]
<1>1. sum(f) = (CHOOSE w : IsSum(w))[S]
  BY DEF sum, FoldFunction, FoldFunctionOnSet, MapThenFoldSet, first
<1>2. PICK g \in [SUBSET S -> Fr] : IsFold(g, S, plusOf, 0, f)
  BY PlusIsMonoid, FoldExists
<1>3. \A s \in SUBSET S : s # {} => /\ first(s) \in s /\ f[first(s)] \in Fr
                                    /\ g[s \ {first(s)}] \in Fr
  BY <1>2 DEF first
<1>4. IsSum(g)
  <2>1. \A s \in SUBSET S : g[s] = IF s = {} THEN 0 ELSE add(f[first(s)], g[s \ {first(s)}])
    BY <1>2, <1>3 DEF IsFold, plusOf
  <2> QED
    BY <1>2, <2>1
<1> DEFINE u == CHOOSE w : IsSum(w)
<1>5. IsSum(u)
  BY <1>4
<1> HIDE DEF u
<1> DEFINE Q == {T \in SUBSET S : u[T] = g[T]}
<1>6. {} \in Q
  BY <1>4, <1>5
<1>7. ASSUME NEW T \in SUBSET S, T # {}, \A x \in T : T \ {x} \in Q
      PROVE  T \in Q
  <2>1. first(T) \in T
    BY <1>3, <1>7
  <2>2. u[T \ {first(T)}] = g[T \ {first(T)}]
    BY <1>7, <2>1
  <2> QED
    BY <1>4, <1>5, <1>7, <2>2
<1>8. S \in Q
  <2> HIDE DEF Q
  <2> QED
    BY <1>6, <1>7, SetInduction
<1>9. fold(plusOf, 0, Restrict(f, S)) = g[S]
  BY <1>2, PlusIsMonoid, FoldIs
<1>10. Restrict(f, S) = f
  BY DEF Restrict
<1> QED
  BY <1>1, <1>8, <1>9, <1>10 DEF u

\* So a product over a finite set is an element of the field, 1 if the set is
\* empty, and any element's factor times the product of the others.
LEMMA ProductLaws ==
  ASSUME NEW S, IsFiniteSet(S), NEW f \in [S -> Fr]
  PROVE  /\ product(f) \in Fr
         /\ S = {} => product(f) = 1
         /\ \A x \in S : product(f) = mul(f[x], product(Restrict(f, S \ {x})))
<1>1. \A T \in SUBSET S : IsFiniteSet(T) /\ Restrict(f, T) \in [T -> Fr]
  BY FS_Subset DEF Restrict
<1>2. \A T \in SUBSET S : product(Restrict(f, T)) = fold(times, 1, Restrict(f, T))
  BY <1>1, ProductIsFold
<1>3. Restrict(f, S) = f
  BY DEF Restrict
<1>4. /\ \A T \in SUBSET S : fold(times, 1, Restrict(f, T)) \in Fr
      /\ fold(times, 1, Restrict(f, {})) = 1
      /\ \A T \in SUBSET S : \A x \in T :
           fold(times, 1, Restrict(f, T)) = times[<<f[x], fold(times, 1, Restrict(f, T \ {x}))>>]
  BY TimesIsMonoid, FoldStep
<1>5. \A x \in S : product(f) = mul(f[x], product(Restrict(f, S \ {x})))
  <2> SUFFICES ASSUME NEW x \in S
               PROVE  product(f) = mul(f[x], product(Restrict(f, S \ {x})))
    OBVIOUS
  <2>1. S \ {x} \in SUBSET S /\ f[x] \in Fr
    OBVIOUS
  <2>2. fold(times, 1, Restrict(f, S)) = times[<<f[x], fold(times, 1, Restrict(f, S \ {x}))>>]
    BY <1>4
  <2>3. fold(times, 1, Restrict(f, S \ {x})) \in Fr
    BY <1>4, <2>1
  <2>4. fold(times, 1, Restrict(f, S)) = mul(f[x], fold(times, 1, Restrict(f, S \ {x})))
    BY <2>1, <2>2, <2>3 DEF times
  <2> QED
    BY <1>2, <1>3, <2>1, <2>4
<1> QED
  BY <1>2, <1>3, <1>4, <1>5

\* It does not change when the elements are renamed one to one,
LEMMA ProductRenamed ==
  ASSUME NEW S, IsFiniteSet(S), NEW T, IsFiniteSet(T), NEW p \in Injection(S, T),
         NEW f \in [T -> Fr]
  PROVE  product([x \in S |-> f[p[x]]]) = product(Restrict(f, {p[x] : x \in S}))
<1> DEFINE U == {p[x] : x \in S}
           fp == [x \in S |-> f[p[x]]]
<1>1. p \in [S -> T] /\ U \subseteq T
  BY DEF Injection
<1>2. IsFiniteSet(U) /\ Restrict(f, U) \in [U -> Fr] /\ fp \in [S -> Fr]
  BY <1>1, FS_Subset DEF Restrict
<1>3. fold(times, 1, fp) = fold(times, 1, Restrict(f, U))
  BY TimesIsMonoid, FoldRenamed
<1> HIDE DEF U, fp
<1>4. product(fp) = product(Restrict(f, U))
  BY <1>2, <1>3, ProductIsFold
<1> QED
  BY <1>4 DEF U, fp

\* the product of two functions is that of their products,
LEMMA ProductOfBoth ==
  ASSUME NEW S, IsFiniteSet(S), NEW f \in [S -> Fr], NEW g \in [S -> Fr]
  PROVE  product([x \in S |-> mul(f[x], g[x])]) = mul(product(f), product(g))
<1> DEFINE b == [x \in S |-> mul(f[x], g[x])]
<1>1. b \in [S -> Fr] /\ b = [x \in S |-> times[<<f[x], g[x]>>]]
  BY Operations DEF times
<1>2. fold(times, 1, b) = times[<<fold(times, 1, f), fold(times, 1, g)>>]
  BY <1>1, TimesIsMonoid, FoldOfBoth
<1> HIDE DEF b
<1>3. /\ product(b) = fold(times, 1, b)
      /\ product(f) = fold(times, 1, f) /\ product(f) \in Fr
      /\ product(g) = fold(times, 1, g) /\ product(g) \in Fr
  BY <1>1, ProductIsFold, ProductLaws
<1>4. product(b) = mul(product(f), product(g))
  BY <1>2, <1>3 DEF times
<1> QED
  BY <1>4 DEF b

\* and the product is that of a part and of the rest.
LEMMA ProductOfParts ==
  ASSUME NEW S, IsFiniteSet(S), NEW f \in [S -> Fr], NEW T \in SUBSET S
  PROVE  product(f) = mul(product(Restrict(f, T)), product(Restrict(f, S \ T)))
<1>1. /\ IsFiniteSet(T) /\ Restrict(f, T) \in [T -> Fr]
      /\ IsFiniteSet(S \ T) /\ Restrict(f, S \ T) \in [S \ T -> Fr]
  BY FS_Subset DEF Restrict
<1>2. fold(times, 1, f) = times[<<fold(times, 1, Restrict(f, T)), fold(times, 1, Restrict(f, S \ T))>>]
  BY TimesIsMonoid, FoldOfParts
<1>3. /\ product(f) = fold(times, 1, f)
      /\ product(Restrict(f, T)) = fold(times, 1, Restrict(f, T)) /\ product(Restrict(f, T)) \in Fr
      /\ product(Restrict(f, S \ T)) = fold(times, 1, Restrict(f, S \ T)) /\ product(Restrict(f, S \ T)) \in Fr
  BY <1>1, ProductIsFold, ProductLaws
<1> QED
  BY <1>2, <1>3 DEF times

\* A product is zero only if a factor is.
LEMMA ProductNotZero ==
  ASSUME NEW S, IsFiniteSet(S), NEW f \in [S -> Fr \ {0}]
  PROVE  product(f) # 0
<1> DEFINE Q == {T \in SUBSET S : product(Restrict(f, T)) # 0}
<1>1. \A T \in SUBSET S : IsFiniteSet(T) /\ Restrict(f, T) \in [T -> Fr]
  BY FS_Subset DEF Restrict
<1>2. {} \in Q
  <2>1. product(Restrict(f, {})) = 1
    BY <1>1, ProductLaws
  <2> QED
    BY <2>1
<1>3. ASSUME NEW T \in SUBSET S, T # {}, \A x \in T : T \ {x} \in Q
      PROVE  T \in Q
  <2>1. PICK x \in T : TRUE
    BY <1>3
  <2>2. Restrict(Restrict(f, T), T \ {x}) = Restrict(f, T \ {x}) /\ Restrict(f, T)[x] = f[x]
    BY DEF Restrict
  <2>3. product(Restrict(f, T)) = mul(f[x], product(Restrict(f, T \ {x})))
    BY <1>1, <2>2, ProductLaws
  <2>4. product(Restrict(f, T \ {x})) \in Fr /\ product(Restrict(f, T \ {x})) # 0 /\ f[x] \in Fr \ {0}
    <3>1. T \ {x} \in SUBSET S
      OBVIOUS
    <3> QED
      BY <1>1, <1>3, <3>1, ProductLaws
  <2>5. product(Restrict(f, T)) # 0
    BY <2>3, <2>4, PIsNat, Cancel
  <2> QED
    BY <2>5
<1>4. S \in Q
  <2> HIDE DEF Q
  <2> QED
    BY <1>2, <1>3, SetInduction
<1>5. Restrict(f, S) = f
  BY DEF Restrict
<1> QED
  BY <1>4, <1>5

-----------------------------------------------------------------------------
\* Powers, polynomials and their roots.

\* The subsets of 1..n+1 are those of 1..n, and as many that have n + 1.
LEMMA PowersOfTwo ==
  ASSUME NEW n \in Nat
  PROVE  2^n \in Nat \ {0} /\ 2^(n + 1) = 2 * 2^n /\ 2^0 = 1
<1> DEFINE A == SUBSET (1..n)
           B == {T \cup {n + 1} : T \in A}
           g == [T \in A |-> T \cup {n + 1}]
<1>1. \A k \in Nat : /\ IsFiniteSet(SUBSET (1..k)) /\ Cardinality(SUBSET (1..k)) = 2^k
                     /\ Cardinality(SUBSET (1..k)) \in Nat /\ Cardinality(SUBSET (1..k)) # 0
  <2> SUFFICES ASSUME NEW k \in Nat
               PROVE  /\ IsFiniteSet(SUBSET (1..k)) /\ Cardinality(SUBSET (1..k)) = 2^k
                      /\ Cardinality(SUBSET (1..k)) \in Nat /\ Cardinality(SUBSET (1..k)) # 0
    OBVIOUS
  <2>1. 1 \in Int /\ k \in Int
    OBVIOUS
  <2>2. IsFiniteSet(1..k) /\ Cardinality(1..k) = k
    BY <2>1, FS_Interval
  <2>3. IsFiniteSet(SUBSET (1..k)) /\ Cardinality(SUBSET (1..k)) = 2^k
    BY <2>2, FS_SUBSET
  <2>4. {} \in SUBSET (1..k)
    OBVIOUS
  <2>5. SUBSET (1..k) # {}
    BY <2>4
  <2>6. Cardinality(SUBSET (1..k)) # 0
    <3> DEFINE U == SUBSET (1..k)
    <3>1. IsFiniteSet(U) /\ U # {}
      BY <2>3, <2>5
    <3> HIDE DEF U
    <3>2. Cardinality(U) # 0
      BY <3>1, FS_EmptySet
    <3> QED
      BY <3>2 DEF U
  <2>7. Cardinality(SUBSET (1..k)) \in Nat
    BY <2>3, FS_CardinalityType
  <2> QED
    BY <2>3, <2>6, <2>7, Zenon
<1>2. IsFiniteSet(A) /\ n + 1 \in Nat
  <2>1. IsFiniteSet(A)
    BY <1>1, Zenon
  <2>2. n + 1 \in Nat
    OBVIOUS
  <2> QED
    BY <2>1, <2>2, Zenon
<1>3. SUBSET (1..(n + 1)) = A \cup B
  <2>1. 1..(n + 1) = (1..n) \cup {n + 1}
    OBVIOUS
  <2>2. ASSUME NEW T \in SUBSET (1..(n + 1)) PROVE T \in A \cup B
    <3>1. CASE n + 1 \in T
      <4>1. T \ {n + 1} \in A /\ T = (T \ {n + 1}) \cup {n + 1}
        BY <2>1, <3>1
      <4>2. T \in B
        BY <4>1
      <4> QED
        BY <4>2
    <3>2. CASE n + 1 \notin T
      BY <2>1, <3>2
    <3> QED
      BY <3>1, <3>2
  <2>3. A \cup B \subseteq SUBSET (1..(n + 1))
    BY <2>1
  <2> QED
    BY <2>2, <2>3
<1>4. A \cap B = {}
  <2>1. n + 1 \notin 1..n
    OBVIOUS
  <2> QED
    BY <2>1
<1>5. g \in Surjection(A, B) /\ g \in Injection(A, B)
  <2>1. g \in [A -> B] /\ \A t \in B : \E s \in A : g[s] = t
    OBVIOUS
  <2>2. ASSUME NEW s \in A, NEW t \in A, g[s] = g[t]
        PROVE  s = t
    <3>1. n + 1 \notin 1..n
      OBVIOUS
    <3>2. n + 1 \notin s /\ n + 1 \notin t /\ s \cup {n + 1} = t \cup {n + 1}
      BY <2>2, <3>1
    <3> QED
      BY <3>2
  <2> QED
    BY <2>1, <2>2 DEF Injection, Surjection, IsInjective
<1>6. IsFiniteSet(B) /\ Cardinality(B) = Cardinality(A)
  BY <1>2, <1>5, FS_Surjection
<1>7. Cardinality(A \cup B) = Cardinality(A) + Cardinality(B)
  <2>1. Cardinality(A \cap B) = 0
    BY <1>4, FS_EmptySet
  <2>2. Cardinality(A) \in Nat /\ Cardinality(B) \in Nat
    BY <1>2, <1>6, FS_CardinalityType
  <2>3. Cardinality(A \cup B) = Cardinality(A) + Cardinality(B) - Cardinality(A \cap B)
    BY <1>2, <1>6, FS_Union
  <2> QED
    BY <2>1, <2>2, <2>3
<1>8. Cardinality(A) = 2^n /\ Cardinality(A) \in Nat /\ Cardinality(A) # 0
  BY <1>1
<1>9. Cardinality(SUBSET (1..(n + 1))) = 2^(n + 1)
  BY <1>1, <1>2
<1>10. 2^(n + 1) = 2^n + 2^n
  <2> HIDE DEF A, B
  <2> QED
    BY <1>3, <1>6, <1>7, <1>8, <1>9
<1>11. 2^0 = 1
  OBVIOUS
<1> QED
  BY <1>8, <1>10, <1>11

\* The powers of two multiply.
LEMMA PowerOfTwoOfSum ==
  ASSUME NEW m \in Nat, NEW n \in Nat
  PROVE  2^(m + n) = 2^m * 2^n
<1> DEFINE S == {k \in Nat : 2^(m + k) = 2^m * 2^k}
<1>1. 0 \in S
  BY PowersOfTwo
<1>2. ASSUME NEW k \in Nat, k \in S
      PROVE  k + 1 \in S
  <2>1. 2^(m + k) = 2^m * 2^k /\ m + k \in Nat /\ m + (k + 1) = (m + k) + 1
    BY <1>2
  <2>2. 2^((m + k) + 1) = 2 * 2^(m + k) /\ 2^(k + 1) = 2 * 2^k
    BY <2>1, PowersOfTwo
  <2>3. 2^m \in Nat /\ 2^k \in Nat
    BY PowersOfTwo
  <2>4. \A u, v \in Nat : 2 * (u * v) = u * (2 * v)
    OBVIOUS
  <2>5. 2^(m + (k + 1)) = 2^m * 2^(k + 1)
    BY <2>1, <2>2, <2>3, <2>4
  <2> QED
    BY <2>5
<1> HIDE DEF S
<1>3. \A k \in Nat : k \in S
  BY <1>1, <1>2, Induction
<1> QED
  BY <1>3 DEF S

\* 2^n > n.
LEMMA PowerOfTwoIsLarge == ASSUME NEW n \in Nat PROVE 2^n >= n + 1
<1> DEFINE S == {k \in Nat : 2^k >= k + 1}
<1>1. 0 \in S
  BY PowersOfTwo
<1>2. ASSUME NEW k \in Nat, k \in S
      PROVE  k + 1 \in S
  <2>1. 2^k >= k + 1 /\ 2^k \in Nat /\ 2^(k + 1) = 2 * 2^k
    BY <1>2, PowersOfTwo
  <2>2. 2^(k + 1) >= (k + 1) + 1
    BY <2>1
  <2> QED
    BY <2>2
<1> HIDE DEF S
<1>3. \A k \in Nat : k \in S
  BY <1>1, <1>2, Induction
<1> QED
  BY <1>3 DEF S
-----------------------------------------------------------------------------
\* How an identity of the field is reduced to one of the integers.
LEMMA Represent ==
  ASSUME NEW a \in Fr, NEW b \in Fr, NEW A \in Int, NEW B \in Int, Cong(a, A), Cong(b, B)
  PROVE  /\ add(a, b) \in Fr /\ A + B \in Int /\ Cong(add(a, b), A + B)
         /\ sub(a, b) \in Fr /\ A - B \in Int /\ Cong(sub(a, b), A - B)
         /\ mul(a, b) \in Fr /\ A * B \in Int /\ Cong(mul(a, b), A * B)
<1>1. a \in Int /\ b \in Int
  BY PIsNat
<1>2. /\ A + B \in Int /\ A - B \in Int /\ A * B \in Int
      /\ a + b \in Int /\ a - b \in Int /\ a * b \in Int
  BY <1>1
<1>3. /\ add(a, b) \in Fr /\ Cong(add(a, b), a + b)
      /\ sub(a, b) \in Fr /\ Cong(sub(a, b), a - b)
      /\ mul(a, b) \in Fr /\ Cong(mul(a, b), a * b)
  BY Operations
<1>4. add(a, b) \in Int /\ sub(a, b) \in Int /\ mul(a, b) \in Int
  BY <1>3, PIsNat
<1>5. Cong(a + b, A + B) /\ Cong(a - b, A - B) /\ Cong(a * b, A * B)
  BY <1>1, CongAdd, CongSub, CongMul
<1>6. Cong(add(a, b), A + B)
  BY <1>2, <1>3, <1>4, <1>5, CongTransitive
<1>7. Cong(sub(a, b), A - B)
  BY <1>2, <1>3, <1>4, <1>5, CongTransitive
<1>8. Cong(mul(a, b), A * B)
  BY <1>2, <1>3, <1>4, <1>5, CongTransitive
<1> QED
  BY <1>2, <1>3, <1>6, <1>7, <1>8

\* Two elements that represent the same number are the same.
LEMMA SameRepresentative ==
  ASSUME NEW a \in Fr, NEW b \in Fr, NEW A \in Int, Cong(a, A), Cong(b, A)
  PROVE  a = b
<1>1. a \in Int /\ b \in Int
  BY PIsNat
<1>2. Cong(A, b)
  BY <1>1, CongSymmetric
<1>3. Cong(a, b)
  BY <1>1, <1>2, CongTransitive
<1> QED
  BY <1>3, CongEqual

\* What differs by zero is the same.
LEMMA SubLaws ==
  ASSUME NEW a \in Fr, NEW b \in Fr
  PROVE  /\ add(sub(a, b), b) = a /\ sub(add(a, b), b) = a
         /\ sub(a, b) = 0 <=> a = b
         /\ sub(a, 0) = a /\ sub(a, a) = 0
<1>1. /\ a \in Int /\ b \in Int /\ 0 \in Int /\ 0 \in Fr
      /\ Cong(a, a) /\ Cong(b, b) /\ Cong(0, 0)
  BY PIsNat, CongRefl
<1>2. /\ sub(a, b) \in Fr /\ a - b \in Int /\ Cong(sub(a, b), a - b)
      /\ add(a, b) \in Fr /\ a + b \in Int /\ Cong(add(a, b), a + b)
  BY <1>1, Represent
<1>3. add(sub(a, b), b) = a
  <2>1. add(sub(a, b), b) \in Fr /\ Cong(add(sub(a, b), b), (a - b) + b)
    BY <1>1, <1>2, Represent
  <2>2. (a - b) + b = a
    BY <1>1
  <2> QED
    BY <1>1, <2>1, <2>2, SameRepresentative
<1>4. sub(add(a, b), b) = a
  <2>1. sub(add(a, b), b) \in Fr /\ Cong(sub(add(a, b), b), (a + b) - b)
    BY <1>1, <1>2, Represent
  <2>2. (a + b) - b = a
    BY <1>1
  <2> QED
    BY <1>1, <2>1, <2>2, SameRepresentative
<1>5. sub(a, 0) = a
  <2>1. sub(a, 0) \in Fr /\ Cong(sub(a, 0), a - 0)
    BY <1>1, Represent
  <2>2. a - 0 = a
    BY <1>1
  <2> QED
    BY <1>1, <2>1, <2>2, SameRepresentative
<1>6. sub(a, a) = 0
  <2>1. sub(a, a) \in Fr /\ Cong(sub(a, a), a - a)
    BY <1>1, Represent
  <2>2. a - a = 0
    BY <1>1
  <2> QED
    BY <1>1, <2>1, <2>2, SameRepresentative
<1>7. ASSUME sub(a, b) = 0 PROVE a = b
  BY <1>1, <1>3, <1>7, AddLaws
<1>8. ASSUME a = b PROVE sub(a, b) = 0
  BY <1>6, <1>8
<1> QED
  BY <1>3, <1>4, <1>5, <1>6, <1>7, <1>8

-----------------------------------------------------------------------------
\* The powers: the products of so many times the same.
IsPower(b, g) == g = [k \in Nat |-> IF k = 0 THEN 1 ELSE mul(b, g[k - 1])]
\* power is the function of the exponent that its definition chooses.
LEMMA PowerStep ==
  ASSUME NEW b \in Fr, NEW e \in Nat
  PROVE  power(b, 0) = 1 /\ power(b, e + 1) = mul(b, power(b, e))
<1> DEFINE timesOf(n) == product([k \in 1..n |-> b])
           g == [n \in Nat |-> timesOf(n)]
<1>1. ASSUME NEW n \in Nat
      PROVE  timesOf(0) = 1 /\ timesOf(n + 1) = mul(b, timesOf(n))
  <2>1. 1 \in Int /\ n + 1 \in Int /\ n + 1 \in 1..(n + 1) /\ 0 \in Int
    OBVIOUS
  <2>2. IsFiniteSet(1..(n + 1)) /\ IsFiniteSet(1..0) /\ 1..0 = {}
    BY <2>1, FS_Interval
  <2>3. [k \in 1..(n + 1) |-> b] \in [1..(n + 1) -> Fr] /\ [k \in 1..0 |-> b] \in [1..0 -> Fr]
    OBVIOUS
  <2>4. timesOf(0) = 1
    BY <2>2, <2>3, ProductLaws
  <2>5. timesOf(n + 1) = mul([k \in 1..(n + 1) |-> b][n + 1],
                             product(Restrict([k \in 1..(n + 1) |-> b], (1..(n + 1)) \ {n + 1})))
    BY <2>1, <2>2, <2>3, ProductLaws
  <2>6. (1..(n + 1)) \ {n + 1} = 1..n
    OBVIOUS
  <2>7. Restrict([k \in 1..(n + 1) |-> b], (1..(n + 1)) \ {n + 1}) = [k \in 1..n |-> b]
    BY <2>6 DEF Restrict
  <2>8. [k \in 1..(n + 1) |-> b][n + 1] = b
    BY <2>1
  <2> QED
    BY <2>4, <2>5, <2>7, <2>8
<1>2. IsPower(b, g)
  <2>1. ASSUME NEW n \in Nat
        PROVE  timesOf(n) = IF n = 0 THEN 1 ELSE mul(b, g[n - 1])
    <3>1. CASE n = 0
      BY <1>1, <3>1
    <3>2. CASE n # 0
      <4>1. n - 1 \in Nat /\ (n - 1) + 1 = n
        BY <3>2
      <4>2. timesOf((n - 1) + 1) = mul(b, timesOf(n - 1))
        BY <1>1, <4>1
      <4>3. g[n - 1] = timesOf(n - 1)
        BY <4>1
      <4> HIDE DEF timesOf, g
      <4> QED
        BY <3>2, <4>1, <4>2, <4>3
    <3> QED
      BY <3>1, <3>2
  <2> HIDE DEF timesOf
  <2> QED
    BY <2>1 DEF IsPower
<1> DEFINE pow == CHOOSE u : IsPower(b, u)
<1>3. IsPower(b, pow)
  <2> HIDE DEF g
  <2> QED
    BY <1>2
<1>4. \A n \in Nat : power(b, n) = pow[n]
  BY DEF power, IsPower
<1> HIDE DEF pow
<1>5. \A n \in Nat : pow[n] = IF n = 0 THEN 1 ELSE mul(b, pow[n - 1])
  BY <1>3 DEF IsPower
<1>6. e + 1 \in Nat /\ e + 1 # 0 /\ (e + 1) - 1 = e /\ 0 \in Nat
  OBVIOUS
<1> QED
  BY <1>4, <1>5, <1>6

\* A power is an element.
LEMMA PowerType == ASSUME NEW b \in Fr, NEW n \in Nat PROVE power(b, n) \in Fr
<1> DEFINE S == {k \in Nat : power(b, k) \in Fr}
<1>1. 0 \in S
  BY PowerStep, PIsNat
<1>2. ASSUME NEW k \in Nat, k \in S
      PROVE  k + 1 \in S
  <2>1. power(b, k + 1) = mul(b, power(b, k)) /\ power(b, k) \in Fr
    BY <1>2, PowerStep
  <2>2. power(b, k + 1) \in Fr
    BY <2>1, Operations
  <2> QED
    BY <2>2
<1> HIDE DEF S
<1>3. \A k \in Nat : k \in S
  BY <1>1, <1>2, Induction
<1> QED
  BY <1>3 DEF S

\* The powers of an element multiply.
LEMMA PowerOfSum ==
  ASSUME NEW b \in Fr, NEW m \in Nat, NEW n \in Nat
  PROVE  power(b, m + n) = mul(power(b, m), power(b, n))
<1> DEFINE S == {k \in Nat : power(b, m + k) = mul(power(b, m), power(b, k))}
<1>1. 0 \in S
  <2>1. power(b, m) \in Fr /\ 1 \in Fr /\ m + 0 = m
    BY PowerType, PIsNat
  <2>2. mul(power(b, m), 1) = power(b, m)
    BY <2>1, MulLaws
  <2>3. power(b, 0) = 1
    BY PowerStep
  <2> QED
    BY <2>1, <2>2, <2>3
<1>2. ASSUME NEW k \in Nat, k \in S
      PROVE  k + 1 \in S
  <2>1. power(b, m) \in Fr /\ power(b, k) \in Fr /\ m + k \in Nat /\ m + (k + 1) = (m + k) + 1
    BY PowerType
  <2>2. power(b, (m + k) + 1) = mul(b, power(b, m + k)) /\ power(b, k + 1) = mul(b, power(b, k))
    BY <2>1, PowerStep
  <2>3. power(b, m + k) = mul(power(b, m), power(b, k))
    BY <1>2
  <2>4. mul(b, mul(power(b, m), power(b, k))) = mul(power(b, m), mul(b, power(b, k)))
    <3>1. mul(b, mul(power(b, m), power(b, k))) = mul(mul(b, power(b, m)), power(b, k))
      BY <2>1, MulLaws
    <3>2. mul(b, power(b, m)) = mul(power(b, m), b)
      BY <2>1, MulLaws
    <3>3. mul(mul(power(b, m), b), power(b, k)) = mul(power(b, m), mul(b, power(b, k)))
      BY <2>1, MulLaws
    <3> QED
      BY <3>1, <3>2, <3>3
  <2>5. power(b, m + (k + 1)) = mul(power(b, m), power(b, k + 1))
    BY <2>1, <2>2, <2>3, <2>4
  <2> QED
    BY <2>5
<1> HIDE DEF S
<1>3. \A k \in Nat : k \in S
  BY <1>1, <1>2, Induction
<1> QED
  BY <1>3 DEF S

\* The first power, the powers of 1, and those of an element that is not zero.
LEMMA PowerOfOne ==
  ASSUME NEW b \in Fr, NEW n \in Nat
  PROVE  power(b, 1) = b /\ power(1, n) = 1 /\ (b # 0 => power(b, n) # 0) /\ power(b, n) \in Fr
<1> DEFINE S == {k \in Nat : power(1, k) = 1 /\ (b # 0 => power(b, k) # 0)}
<1>1. 0 \in S
  BY PowerStep, PIsNat
<1>2. ASSUME NEW k \in Nat, k \in S
      PROVE  k + 1 \in S
  <2>1. 1 \in Fr /\ power(b, k) \in Fr /\ power(1, k) = 1 /\ (b # 0 => power(b, k) # 0)
    BY <1>2, PIsNat, PowerType
  <2>2. power(b, k + 1) = mul(b, power(b, k)) /\ power(1, k + 1) = mul(1, power(1, k))
    BY <2>1, PowerStep
  <2>3. mul(1, 1) = 1
    BY <2>1, MulLaws
  <2>4. b # 0 /\ mul(b, power(b, k)) = 0 => power(b, k) = 0
    BY <2>1, Cancel
  <2>5. power(1, k + 1) = 1 /\ (b # 0 => power(b, k + 1) # 0)
    BY <2>1, <2>2, <2>3, <2>4
  <2> QED
    BY <2>5
<1> HIDE DEF S
<1>3. \A k \in Nat : k \in S
  BY <1>1, <1>2, Induction
<1>4. power(b, 1) = b
  <2>1. power(b, 0 + 1) = mul(b, power(b, 0)) /\ power(b, 0) = 1 /\ 0 + 1 = 1
    BY PowerStep
  <2>2. mul(b, 1) = b
    BY PIsNat, MulLaws
  <2> QED
    BY <2>1, <2>2
<1> QED
  BY <1>3, <1>4, PowerType DEF S

\* The factors of a product of four may be put together in another way.
LEMMA MulSwap ==
  ASSUME NEW a \in Fr, NEW b \in Fr, NEW c \in Fr, NEW d \in Fr
  PROVE  mul(mul(a, b), mul(c, d)) = mul(mul(a, c), mul(b, d))
<1>1. mul(c, d) \in Fr /\ mul(b, d) \in Fr
  BY Operations
<1>2. mul(mul(a, b), mul(c, d)) = mul(a, mul(b, mul(c, d)))
  BY <1>1, MulLaws
<1>3. mul(b, mul(c, d)) = mul(mul(b, c), d)
  BY MulLaws
<1>4. mul(b, c) = mul(c, b)
  BY MulLaws
<1>5. mul(mul(c, b), d) = mul(c, mul(b, d))
  BY MulLaws
<1>6. mul(a, mul(c, mul(b, d))) = mul(mul(a, c), mul(b, d))
  BY <1>1, MulLaws
<1> QED
  BY <1>2, <1>3, <1>4, <1>5, <1>6

\* The power of a product.
LEMMA PowerOfProduct ==
  ASSUME NEW b \in Fr, NEW c \in Fr, NEW n \in Nat
  PROVE  power(mul(b, c), n) = mul(power(b, n), power(c, n))
<1> DEFINE S == {k \in Nat : power(mul(b, c), k) = mul(power(b, k), power(c, k))}
<1>0. mul(b, c) \in Fr /\ 1 \in Fr
  BY Operations, PIsNat
<1>1. 0 \in S
  <2>1. power(mul(b, c), 0) = 1 /\ power(b, 0) = 1 /\ power(c, 0) = 1
    BY <1>0, PowerStep
  <2>2. mul(1, 1) = 1
    BY <1>0, MulLaws
  <2> QED
    BY <2>1, <2>2
<1>2. ASSUME NEW k \in Nat, k \in S
      PROVE  k + 1 \in S
  <2>1. power(mul(b, c), k) = mul(power(b, k), power(c, k))
    BY <1>2
  <2>2. /\ power(mul(b, c), k + 1) = mul(mul(b, c), power(mul(b, c), k))
        /\ power(b, k + 1) = mul(b, power(b, k))
        /\ power(c, k + 1) = mul(c, power(c, k))
    BY <1>0, PowerStep
  <2>3. mul(mul(b, c), mul(power(b, k), power(c, k))) = mul(mul(b, power(b, k)), mul(c, power(c, k)))
    BY MulSwap, PowerType
  <2>4. power(mul(b, c), k + 1) = mul(power(b, k + 1), power(c, k + 1))
    BY <2>1, <2>2, <2>3
  <2> QED
    BY <2>4
<1> HIDE DEF S
<1>3. \A k \in Nat : k \in S
  BY <1>1, <1>2, Induction
<1> QED
  BY <1>3 DEF S

\* The power of a power.
LEMMA PowerOfPower ==
  ASSUME NEW b \in Fr, NEW m \in Nat, NEW n \in Nat
  PROVE  power(b, m * n) = power(power(b, m), n)
<1> DEFINE S == {k \in Nat : power(b, m * k) = power(power(b, m), k)}
<1>0. power(b, m) \in Fr
  BY PowerType
<1>1. 0 \in S
  <2>1. m * 0 = 0
    OBVIOUS
  <2>2. power(b, 0) = 1 /\ power(power(b, m), 0) = 1
    BY <1>0, PowerStep
  <2> QED
    BY <2>1, <2>2
<1>2. ASSUME NEW k \in Nat, k \in S
      PROVE  k + 1 \in S
  <2>1. power(b, m * k) = power(power(b, m), k)
    BY <1>2
  <2>2. m * (k + 1) = m + m * k /\ m * k \in Nat
    OBVIOUS
  <2>3. power(b, m + m * k) = mul(power(b, m), power(b, m * k))
    BY <2>2, PowerOfSum
  <2>4. power(power(b, m), k + 1) = mul(power(b, m), power(power(b, m), k))
    BY <1>0, PowerStep
  <2>5. power(b, m * (k + 1)) = power(power(b, m), k + 1)
    BY <2>1, <2>2, <2>3, <2>4
  <2> QED
    BY <2>5
<1> HIDE DEF S
<1>3. \A k \in Nat : k \in S
  BY <1>1, <1>2, Induction
<1> QED
  BY <1>3 DEF S
-----------------------------------------------------------------------------
\* A polynomial of n coefficients is evaluated from the highest one down: h[e]
\* is the value of what it has from coefficient e up, divided by x^e.
IsHorner(h, p, n, x) ==
  /\ h \in [Nat -> Fr]
  /\ \A e \in Nat : h[e] = IF e \in 0..(n - 1) THEN add(p[e], mul(x, h[e + 1])) ELSE 0

\* What holds from n up, and for e when it does for e + 1, holds for every e.
LEMMA Descending ==
  ASSUME NEW n \in Nat, NEW S, \A e \in Nat : e >= n => e \in S,
         \A e \in 0..(n - 1) : e + 1 \in S => e \in S
  PROVE  \A e \in Nat : e \in S
<1> DEFINE T == {k \in Nat : \A e \in Nat : e + k >= n => e \in S}
<1>1. 0 \in T
  <2>1. \A e \in Nat : e + 0 >= n => e \in S
    OBVIOUS
  <2> QED
    BY <2>1
<1>2. ASSUME NEW k \in Nat, k \in T
      PROVE  k + 1 \in T
  <2>1. ASSUME NEW e \in Nat, e + (k + 1) >= n
        PROVE  e \in S
    <3>1. CASE e >= n
      BY <3>1
    <3>2. CASE e < n
      <4>1. e \in 0..(n - 1) /\ e + 1 \in Nat /\ (e + 1) + k >= n
        BY <2>1, <3>2
      <4>2. e + 1 \in S
        BY <1>2, <4>1
      <4> QED
        BY <4>1, <4>2
    <3> QED
      BY <3>1, <3>2
  <2> QED
    BY <2>1
<1> HIDE DEF T
<1>3. \A k \in Nat : k \in T
  BY <1>1, <1>2, Induction
<1> QED
  BY <1>3 DEF T

\* Every polynomial is evaluated by a Horner function: that of the coefficients
\* but the lowest one, with it added.
LEMMA HornerExists ==
  ASSUME NEW n \in Nat, NEW p \in [0..(n - 1) -> Fr], NEW x \in Fr
  PROVE  \E h : IsHorner(h, p, n, x)
<1> DEFINE S == {k \in Nat : \A q \in [0..(k - 1) -> Fr] : \E h : IsHorner(h, q, k, x)}
<1>1. 0 \in S
  <2>1. ASSUME NEW q \in [0..(0 - 1) -> Fr]
        PROVE  IsHorner([e \in Nat |-> 0], q, 0, x)
    <3>1. \A e \in Nat : e \notin 0..(0 - 1)
      OBVIOUS
    <3> QED
      BY <3>1, PIsNat DEF IsHorner
  <2> QED
    BY <2>1
<1>2. ASSUME NEW k \in Nat, k \in S
      PROVE  k + 1 \in S
  <2>1. ASSUME NEW q \in [0..((k + 1) - 1) -> Fr]
        PROVE  \E h : IsHorner(h, q, k + 1, x)
    <3> DEFINE r == [e \in 0..(k - 1) |-> q[e + 1]]
    <3>1. \A e \in 0..(k - 1) : e + 1 \in 0..((k + 1) - 1)
      OBVIOUS
    <3>2. r \in [0..(k - 1) -> Fr]
      BY <3>1
    <3>3. PICK g : IsHorner(g, r, k, x)
      BY <1>2, <3>2
    <3> DEFINE h == [e \in Nat |-> IF e = 0 THEN add(q[0], mul(x, g[0])) ELSE g[e - 1]]
    <3>4. \A e \in Nat : g[e] \in Fr
      BY <3>3 DEF IsHorner
    <3>5. 0 \in 0..((k + 1) - 1) /\ q[0] \in Fr
      OBVIOUS
    <3>6. mul(x, g[0]) \in Fr
      BY <3>4, Operations
    <3>7. add(q[0], mul(x, g[0])) \in Fr
      BY <3>5, <3>6, Operations
    <3>8. \A e \in Nat : e # 0 => e - 1 \in Nat
      OBVIOUS
    <3>9. h \in [Nat -> Fr]
      BY <3>4, <3>7, <3>8
    <3>10. ASSUME NEW e \in Nat
           PROVE  h[e] = IF e \in 0..((k + 1) - 1) THEN add(q[e], mul(x, h[e + 1])) ELSE 0
      <4>1. h[e + 1] = g[e]
        <5>1. e + 1 \in Nat /\ e + 1 # 0 /\ (e + 1) - 1 = e
          OBVIOUS
        <5> QED
          BY <5>1
      <4>2. CASE e = 0
        BY <3>5, <4>1, <4>2
      <4>3. CASE e # 0
        <5>1. e - 1 \in Nat /\ (e - 1) + 1 = e /\ h[e] = g[e - 1]
          BY <4>3
        <5>2. e \in 0..((k + 1) - 1) <=> e - 1 \in 0..(k - 1)
          BY <4>3
        <5>3. g[e - 1] = IF e - 1 \in 0..(k - 1) THEN add(r[e - 1], mul(x, g[(e - 1) + 1])) ELSE 0
          BY <3>3, <5>1 DEF IsHorner
        <5>4. e - 1 \in 0..(k - 1) => r[e - 1] = q[e]
          BY <5>1
        <5> HIDE DEF h, r
        <5> QED
          BY <4>1, <5>1, <5>2, <5>3, <5>4
      <4> HIDE DEF h
      <4> QED
        BY <4>2, <4>3
    <3> HIDE DEF h
    <3> QED
      BY <3>9, <3>10 DEF IsHorner
  <2> QED
    BY <2>1
<1> HIDE DEF S
<1>3. \A k \in Nat : k \in S
  BY <1>1, <1>2, Induction
<1> QED
  BY <1>3 DEF S

\* The identity of the division by x - s, in one coefficient.
LEMMA DivisionIdentity ==
  ASSUME NEW p \in Fr, NEW s \in Fr, NEW x \in Fr, NEW u \in Fr, NEW q \in Fr
  PROVE  add(p, mul(x, add(u, mul(sub(x, s), q))))
           = add(add(p, mul(s, u)), mul(sub(x, s), add(u, mul(x, q))))
<1> DEFINE a1 == sub(x, s)
           a2 == mul(a1, q)
           a3 == add(u, a2)
           a4 == mul(x, a3)
           a5 == add(p, a4)
           a6 == mul(s, u)
           a7 == add(p, a6)
           a8 == mul(x, q)
           a9 == add(u, a8)
           a10 == mul(a1, a9)
           a11 == add(a7, a10)
           A1 == x - s
           A2 == A1 * q
           A3 == u + A2
           A4 == x * A3
           A5 == p + A4
           A6 == s * u
           A7 == p + A6
           A8 == x * q
           A9 == u + A8
           A10 == A1 * A9
           A11 == A7 + A10
<1>0. p \in Fr /\ p \in Int /\ s \in Fr /\ s \in Int /\ x \in Fr /\ x \in Int /\ u \in Fr /\ u \in Int /\ q \in Fr /\ q \in Int
  BY PIsNat
<1>1. Cong(p, p) /\ Cong(s, s) /\ Cong(x, x) /\ Cong(u, u) /\ Cong(q, q)
  BY <1>0, CongRefl
<1> HIDE DEF a1, A1, a2, A2, a3, A3, a4, A4, a5, A5, a6, A6, a7, A7, a8, A8, a9, A9, a10, A10, a11, A11
<1>2. a1 \in Fr /\ A1 \in Int /\ Cong(a1, A1)
  BY <1>0, <1>1, Represent DEF a1, A1
<1>3. a2 \in Fr /\ A2 \in Int /\ Cong(a2, A2)
  BY <1>2, <1>0, <1>1, Represent DEF a2, A2
<1>4. a3 \in Fr /\ A3 \in Int /\ Cong(a3, A3)
  BY <1>0, <1>1, <1>3, Represent DEF a3, A3
<1>5. a4 \in Fr /\ A4 \in Int /\ Cong(a4, A4)
  BY <1>0, <1>1, <1>4, Represent DEF a4, A4
<1>6. a5 \in Fr /\ A5 \in Int /\ Cong(a5, A5)
  BY <1>0, <1>1, <1>5, Represent DEF a5, A5
<1>7. a6 \in Fr /\ A6 \in Int /\ Cong(a6, A6)
  BY <1>0, <1>1, Represent DEF a6, A6
<1>8. a7 \in Fr /\ A7 \in Int /\ Cong(a7, A7)
  BY <1>0, <1>1, <1>7, Represent DEF a7, A7
<1>9. a8 \in Fr /\ A8 \in Int /\ Cong(a8, A8)
  BY <1>0, <1>1, Represent DEF a8, A8
<1>10. a9 \in Fr /\ A9 \in Int /\ Cong(a9, A9)
  BY <1>0, <1>1, <1>9, Represent DEF a9, A9
<1>11. a10 \in Fr /\ A10 \in Int /\ Cong(a10, A10)
  BY <1>2, <1>10, Represent DEF a10, A10
<1>12. a11 \in Fr /\ A11 \in Int /\ Cong(a11, A11)
  BY <1>8, <1>11, Represent DEF a11, A11
<1>13. A5 = A11
  BY <1>0 DEF A1, A2, A3, A4, A5, A6, A7, A8, A9, A10, A11
<1>14. a5 = a11
  BY <1>6, <1>12, <1>13, SameRepresentative
<1> QED
  BY <1>14 DEF a1, a2, a3, a4, a5, a6, a7, a8, a9, a10, a11

\* Zero and one, on the right.
LEMMA ZeroLaws == ASSUME NEW x \in Fr PROVE mul(x, 0) = 0 /\ add(x, 0) = x /\ mul(x, 1) = x
<1>1. 0 \in Fr /\ 1 \in Fr
  BY PIsNat
<1>2. mul(x, 0) = mul(0, x) /\ mul(0, x) = 0
  BY <1>1, MulLaws
<1>3. add(x, 0) = add(0, x) /\ add(0, x) = x
  BY <1>1, AddLaws
<1>4. mul(x, 1) = mul(1, x) /\ mul(1, x) = x
  BY <1>1, MulLaws
<1> QED
  BY <1>2, <1>3, <1>4

\* The value of a polynomial in x is that in s, and x - s times that of the
\* polynomial whose coefficients the evaluation in s leaves.
Shifts(q, h, n) == \A e \in 0..(n - 1) : q[e] = h[e + 1]
\* Horner's coefficients at s are those of the quotient by X - s.
LEMMA HornerDivides ==
  ASSUME NEW n \in Nat, NEW p \in [0..n -> Fr], NEW s \in Fr, NEW x \in Fr,
         NEW hs, IsHorner(hs, p, n + 1, s), NEW hx, IsHorner(hx, p, n + 1, x),
         NEW q, Shifts(q, hs, n), NEW hq, IsHorner(hq, q, n, x)
  PROVE  hx[0] = add(hs[0], mul(sub(x, s), hq[0]))
<1> DEFINE S == {e \in Nat : hx[e] = add(hs[e], mul(sub(x, s), hq[e]))}
<1>1. /\ \A e \in Nat : hs[e] \in Fr /\ hx[e] \in Fr /\ hq[e] \in Fr
      /\ sub(x, s) \in Fr /\ 0 \in Fr
  BY Operations, PIsNat DEF IsHorner
<1>2. ASSUME NEW e \in Nat, e >= n + 1
      PROVE  e \in S
  <2>1. e \notin 0..((n + 1) - 1) /\ e \notin 0..(n - 1)
    BY <1>2
  <2>2. hs[e] = 0 /\ hx[e] = 0 /\ hq[e] = 0
    BY <2>1 DEF IsHorner
  <2>3. add(0, mul(sub(x, s), 0)) = 0
    BY <1>1, ZeroLaws
  <2> QED
    BY <2>2, <2>3
<1>3. ASSUME NEW e \in 0..((n + 1) - 1), e + 1 \in S
      PROVE  e \in S
  <2>1. e \in Nat /\ e + 1 \in Nat /\ e \in 0..n
    OBVIOUS
  <2>2. hs[e] = add(p[e], mul(s, hs[e + 1])) /\ hx[e] = add(p[e], mul(x, hx[e + 1]))
    BY <2>1, <1>3 DEF IsHorner
  <2>3. hq[e] = add(hs[e + 1], mul(x, hq[e + 1]))
    <3>1. CASE e \in 0..(n - 1)
      <4>1. hq[e] = add(q[e], mul(x, hq[e + 1]))
        BY <2>1, <3>1 DEF IsHorner
      <4> QED
        BY <3>1, <4>1 DEF Shifts
    <3>2. CASE e \notin 0..(n - 1)
      <4>1. e + 1 \notin 0..(n - 1) /\ e + 1 \notin 0..((n + 1) - 1)
        BY <2>1, <3>2
      <4>2. hq[e] = 0 /\ hq[e + 1] = 0 /\ hs[e + 1] = 0
        BY <2>1, <3>2, <4>1 DEF IsHorner
      <4>3. add(0, mul(x, 0)) = 0
        BY <1>1, ZeroLaws
      <4> QED
        BY <4>2, <4>3
    <3> QED
      BY <3>1, <3>2
  <2>4. hx[e + 1] = add(hs[e + 1], mul(sub(x, s), hq[e + 1]))
    BY <1>3
  <2>5. p[e] \in Fr
    BY <2>1
  <2>6. add(p[e], mul(x, add(hs[e + 1], mul(sub(x, s), hq[e + 1]))))
          = add(add(p[e], mul(s, hs[e + 1])), mul(sub(x, s), add(hs[e + 1], mul(x, hq[e + 1]))))
    <3>1. hs[e + 1] \in Fr /\ hq[e + 1] \in Fr
      BY <1>1, <2>1
    <3>2. \A a, b, c \in Fr : add(a, mul(x, add(b, mul(sub(x, s), c))))
                                 = add(add(a, mul(s, b)), mul(sub(x, s), add(b, mul(x, c))))
      BY DivisionIdentity
    <3> QED
      BY <2>5, <3>1, <3>2
  <2>7. hx[e] = add(hs[e], mul(sub(x, s), hq[e]))
    BY <2>2, <2>3, <2>4, <2>6
  <2> QED
    BY <2>1, <2>7
<1> HIDE DEF S
<1>4. \A e \in Nat : e \in S
  <2>1. n + 1 \in Nat
    OBVIOUS
  <2>2. \A e \in 0..((n + 1) - 1) : e + 1 \in S => e \in S
    BY <1>3
  <2> QED
    BY <1>2, <2>1, <2>2, Descending
<1> QED
  BY <1>4 DEF S

\* A polynomial of n coefficients that has n roots is zero.
LEMMA RootBound ==
  ASSUME NEW n \in Nat, NEW p \in [0..(n - 1) -> Fr], NEW R \in SUBSET Fr, Cardinality(R) >= n,
         \A x \in R : \E h : IsHorner(h, p, n, x) /\ h[0] = 0
  PROVE  \A e \in 0..(n - 1) : p[e] = 0
<1> DEFINE Vanishes(f, k) == \A e \in 0..(k - 1) : f[e] = 0
           Roots(f, k, X) == \A x \in X : \E h : IsHorner(h, f, k, x) /\ h[0] = 0
           S == {k \in Nat : \A f \in [0..(k - 1) -> Fr] : \A X \in SUBSET Fr :
                               Cardinality(X) >= k /\ Roots(f, k, X) => Vanishes(f, k)}
<1>1. 0 \in S
  <2>1. \A f : Vanishes(f, 0)
    OBVIOUS
  <2> QED
    BY <2>1
<1>2. ASSUME NEW k \in Nat, k \in S
      PROVE  k + 1 \in S
  <2>1. ASSUME NEW f \in [0..((k + 1) - 1) -> Fr], NEW X \in SUBSET Fr,
               Cardinality(X) >= k + 1, Roots(f, k + 1, X)
        PROVE  Vanishes(f, k + 1)
    <3>1. 0 \in Int /\ P - 1 \in Int
      BY PIsNat
    <3>2. IsFiniteSet(Fr)
      BY <3>1, FS_Interval DEF Fr
    <3>3. IsFiniteSet(X) /\ Cardinality(X) \in Nat
      BY <3>2, FS_Subset, FS_CardinalityType
    <3>4. X # {}
      <4>1. Cardinality(X) # 0
        BY <2>1, <3>3
      <4> QED
        BY <4>1, FS_EmptySet
    <3>5. PICK s \in X : TRUE
      BY <3>4
    <3>6. PICK hs : IsHorner(hs, f, k + 1, s) /\ hs[0] = 0
      BY <2>1, <3>5
    <3> DEFINE q == [e \in 0..(k - 1) |-> hs[e + 1]]
    <3>7. \A e \in Nat : hs[e] \in Fr
      BY <3>6 DEF IsHorner
    <3>8. q \in [0..(k - 1) -> Fr] /\ f \in [0..k -> Fr] /\ s \in Fr
      <4>1. (k + 1) - 1 = k /\ \A e \in 0..(k - 1) : e + 1 \in Nat
        OBVIOUS
      <4> QED
        BY <3>5, <3>7, <4>1
    <3>9. Cardinality(X \ {s}) >= k /\ X \ {s} \in SUBSET Fr
      <4>1. Cardinality(X \ {s}) = Cardinality(X) - 1
        BY <3>3, <3>5, FS_RemoveElement
      <4> QED
        BY <2>1, <3>3, <4>1
    <3>10. ASSUME NEW x \in X \ {s}
           PROVE  \E h : IsHorner(h, q, k, x) /\ h[0] = 0
      <4>1. PICK hx : IsHorner(hx, f, k + 1, x) /\ hx[0] = 0
        BY <2>1
      <4>2. x \in Fr /\ x # s
        BY <3>9
      <4>3. PICK hq : IsHorner(hq, q, k, x)
        BY <3>8, <4>2, HornerExists
      <4>4. hx[0] = add(hs[0], mul(sub(x, s), hq[0]))
        <5>1. Shifts(q, hs, k)
          BY DEF Shifts
        <5> HIDE DEF q
        <5>2. f \in [0..k -> Fr] /\ s \in Fr /\ x \in Fr
          BY <3>8, <4>2
        <5>3. IsHorner(hs, f, k + 1, s) /\ IsHorner(hx, f, k + 1, x) /\ IsHorner(hq, q, k, x)
          BY <3>6, <4>1, <4>3
        <5> QED
          BY <5>1, <5>2, <5>3, HornerDivides
      <4>5. hq[0] \in Fr /\ sub(x, s) \in Fr /\ sub(x, s) # 0
        BY <3>8, <4>2, <4>3, Operations, SubLaws DEF IsHorner
      <4>6. mul(sub(x, s), hq[0]) \in Fr
        BY <4>5, Operations
      <4>7. add(0, mul(sub(x, s), hq[0])) = mul(sub(x, s), hq[0])
        BY <4>6, PIsNat, AddLaws
      <4>8. mul(sub(x, s), hq[0]) = 0
        BY <3>6, <4>1, <4>4, <4>7
      <4>10. \A a \in Fr \ {0}, b \in Fr : mul(a, b) = 0 => b = 0
        BY Cancel
      <4>9. hq[0] = 0
        BY <4>5, <4>8, <4>10
      <4> QED
        BY <4>3, <4>9
    <3>11. Vanishes(q, k)
      <4> HIDE DEF q
      <4>1. Roots(q, k, X \ {s})
        BY <3>10
      <4> QED
        BY <1>2, <3>8, <3>9, <4>1
    <3>12. ASSUME NEW e \in 0..((k + 1) - 1)
           PROVE  f[e] = 0
      <4>1. e \in Nat /\ e + 1 \in Nat /\ f[e] \in Fr
        BY <3>8
      <4>2. hs[e] = add(f[e], mul(s, hs[e + 1]))
        BY <3>6, <4>1 DEF IsHorner
      <4>3. ASSUME NEW d \in Nat, d # 0
            PROVE  hs[d] = 0
        <5>1. CASE d \in 1..k
          <6>1. d - 1 \in 0..(k - 1) /\ (d - 1) + 1 = d
            BY <5>1
          <6>2. q[d - 1] = hs[d]
            BY <6>1
          <6> HIDE DEF q
          <6> QED
            BY <3>11, <6>1, <6>2
        <5>2. CASE d \notin 1..k
          <6>1. d \notin 0..((k + 1) - 1)
            BY <4>3, <5>2
          <6> QED
            BY <3>6, <6>1 DEF IsHorner
        <5> QED
          BY <5>1, <5>2
      <4>4. hs[e + 1] = 0
        BY <4>1, <4>3
      <4>5. hs[e] = 0
        BY <3>6, <4>1, <4>3
      <4>6. add(f[e], mul(s, 0)) = f[e]
        BY <3>8, <4>1, ZeroLaws
      <4> QED
        BY <4>2, <4>4, <4>5, <4>6
    <3> QED
      BY <3>12
  <2> HIDE DEF Vanishes, Roots
  <2> QED
    BY <2>1
<1> HIDE DEF S
<1>3. \A k \in Nat : k \in S
  BY <1>1, <1>2, Induction
<1> QED
  BY <1>3 DEF S
-----------------------------------------------------------------------------
\* Fermat: to multiply all elements but 0 by x is to rename them.
LEMMA ProductOfConstant ==
  ASSUME NEW b \in Fr, NEW n \in Nat
  PROVE  product([k \in 1..n |-> b]) = power(b, n)
<1> DEFINE timesOf(m) == product([k \in 1..m |-> b])
           S == {m \in Nat : timesOf(m) = power(b, m)}
<1>1. ASSUME NEW m \in Nat
      PROVE  timesOf(0) = 1 /\ timesOf(m + 1) = mul(b, timesOf(m))
  <2>1. 1 \in Int /\ m + 1 \in Int /\ m + 1 \in 1..(m + 1) /\ 0 \in Int
    OBVIOUS
  <2>2. IsFiniteSet(1..(m + 1)) /\ IsFiniteSet(1..0) /\ 1..0 = {}
    BY <2>1, FS_Interval
  <2>3. [k \in 1..(m + 1) |-> b] \in [1..(m + 1) -> Fr] /\ [k \in 1..0 |-> b] \in [1..0 -> Fr]
    OBVIOUS
  <2>4. timesOf(0) = 1
    BY <2>2, <2>3, ProductLaws
  <2>5. timesOf(m + 1) = mul([k \in 1..(m + 1) |-> b][m + 1],
                             product(Restrict([k \in 1..(m + 1) |-> b], (1..(m + 1)) \ {m + 1})))
    BY <2>1, <2>2, <2>3, ProductLaws
  <2>6. (1..(m + 1)) \ {m + 1} = 1..m
    OBVIOUS
  <2>7. Restrict([k \in 1..(m + 1) |-> b], (1..(m + 1)) \ {m + 1}) = [k \in 1..m |-> b]
    BY <2>6 DEF Restrict
  <2>8. [k \in 1..(m + 1) |-> b][m + 1] = b
    BY <2>1
  <2> QED
    BY <2>4, <2>5, <2>7, <2>8
<1> HIDE DEF timesOf
<1>2. 0 \in S
  BY <1>1, PowerStep
<1>3. ASSUME NEW m \in Nat, m \in S
      PROVE  m + 1 \in S
  <2>1. timesOf(m + 1) = mul(b, timesOf(m)) /\ power(b, m + 1) = mul(b, power(b, m))
    BY <1>1, PowerStep
  <2>2. timesOf(m) = power(b, m)
    BY <1>3
  <2> QED
    BY <2>1, <2>2
<1> HIDE DEF S
<1>4. \A m \in Nat : m \in S
  BY <1>2, <1>3, Induction
<1> QED
  BY <1>4 DEF S, timesOf

\* Multiplying by x permutes the elements that are not zero, so the product of
\* all of them is x^(P - 1) times itself.
LEMMA Fermat ==
  ASSUME NEW x \in Fr \ {0}
  PROVE  power(x, P - 1) = 1
<1> DEFINE S == 1..(P - 1)
           idf == [y \in S |-> y]
           xf == [y \in S |-> x]
           pi == [y \in S |-> mul(x, y)]
<1>1. /\ 1 \in Int /\ P - 1 \in Int /\ P - 1 \in Nat /\ S = Fr \ {0}
      /\ idf \in [S -> Fr] /\ xf \in [S -> Fr] /\ idf \in [S -> Fr \ {0}]
  BY PIsNat DEF Fr
<1>2. IsFiniteSet(S)
  BY <1>1, FS_Interval
<1>3. pi \in Injection(S, S)
  <2>1. ASSUME NEW y \in S
        PROVE  mul(x, y) \in S
    <3>1. y \in Fr /\ y # 0 /\ x \in Fr
      BY <1>1
    <3>2. mul(x, y) \in Fr
      BY <3>1, Operations
    <3>3. mul(x, y) # 0
      BY <3>1, PIsNat, Cancel
    <3> QED
      BY <1>1, <3>2, <3>3
  <2>2. ASSUME NEW y \in S, NEW z \in S, mul(x, y) = mul(x, z)
        PROVE  y = z
    <3>1. y \in Fr /\ z \in Fr
      BY <1>1
    <3> QED
      BY <2>2, <3>1, Cancel
  <2> QED
    BY <2>1, <2>2 DEF Injection, IsInjective
<1>4. {pi[y] : y \in S} = S
  <2>1. pi \in Surjection(S, S)
    BY <1>2, <1>3, FS_Injection
  <2> HIDE DEF pi, S
  <2> QED
    BY <2>1 DEF Surjection
<1>5. product([y \in S |-> idf[pi[y]]]) = product(Restrict(idf, {pi[y] : y \in S}))
  <2> HIDE DEF pi, idf, S
  <2> QED
    BY <1>1, <1>2, <1>3, ProductRenamed
<1>6. Restrict(idf, S) = idf
  BY DEF Restrict
<1>7. product([y \in S |-> idf[pi[y]]]) = product(idf)
  <2> HIDE DEF pi, idf, S
  <2> QED
    BY <1>4, <1>5, <1>6
<1>8. \A y \in S : idf[pi[y]] = mul(xf[y], idf[y])
  BY <1>3 DEF Injection
<1>9. [y \in S |-> idf[pi[y]]] = [y \in S |-> mul(xf[y], idf[y])]
  <2> HIDE DEF pi, idf, xf, S
  <2> QED
    BY <1>8
<1>10. product([y \in S |-> mul(xf[y], idf[y])]) = mul(product(xf), product(idf))
  <2> HIDE DEF idf, xf, S
  <2> QED
    BY <1>1, <1>2, ProductOfBoth
<1>11. product(idf) \in Fr /\ product(idf) # 0 /\ product(xf) \in Fr
  <2> HIDE DEF idf, xf, S
  <2> QED
    BY <1>1, <1>2, ProductLaws, ProductNotZero
<1>12. mul(product(idf), product(xf)) = mul(product(idf), 1)
  <2>1. mul(product(xf), product(idf)) = product(idf)
    BY <1>7, <1>9, <1>10
  <2>2. mul(product(idf), product(xf)) = mul(product(xf), product(idf))
    BY <1>11, MulLaws
  <2>3. mul(product(idf), 1) = product(idf)
    BY <1>11, ZeroLaws
  <2> HIDE DEF idf, xf, S
  <2> QED
    BY <2>1, <2>2, <2>3
<1>13. product(xf) = 1
  <2> HIDE DEF idf, xf, S
  <2> QED
    BY <1>11, <1>12, PIsNat, Cancel
<1>14. product(xf) = power(x, P - 1)
  BY <1>1, ProductOfConstant
<1> QED
  BY <1>13, <1>14

\* The square of y, less one.
LEMMA SquareIdentity ==
  ASSUME NEW y \in Fr
  PROVE  mul(sub(y, 1), add(y, 1))
           = sub(mul(y, y), 1)
<1> DEFINE a1 == sub(y, 1)
           a2 == add(y, 1)
           a3 == mul(a1, a2)
           a4 == mul(y, y)
           a5 == sub(a4, 1)
           A1 == y - 1
           A2 == y + 1
           A3 == A1 * A2
           A4 == y * y
           A5 == A4 - 1
<1>0. y \in Fr /\ y \in Int /\ 1 \in Fr /\ 1 \in Int
  BY PIsNat
<1>1. Cong(y, y) /\ Cong(1, 1)
  BY <1>0, CongRefl
<1> HIDE DEF a1, A1, a2, A2, a3, A3, a4, A4, a5, A5
<1>2. a1 \in Fr /\ A1 \in Int /\ Cong(a1, A1)
  BY <1>0, <1>1, Represent DEF a1, A1
<1>3. a2 \in Fr /\ A2 \in Int /\ Cong(a2, A2)
  BY <1>0, <1>1, Represent DEF a2, A2
<1>4. a3 \in Fr /\ A3 \in Int /\ Cong(a3, A3)
  BY <1>2, <1>3, Represent DEF a3, A3
<1>5. a4 \in Fr /\ A4 \in Int /\ Cong(a4, A4)
  BY <1>0, <1>1, Represent DEF a4, A4
<1>6. a5 \in Fr /\ A5 \in Int /\ Cong(a5, A5)
  BY <1>5, <1>0, <1>1, Represent DEF a5, A5
<1>7. A3 = A5
  BY <1>0 DEF A1, A2, A3, A4, A5
<1>8. a3 = a5
  BY <1>4, <1>6, <1>7, SameRepresentative
<1> QED
  BY <1>8 DEF a1, a2, a3, a4, a5

\* The square roots of one.
LEMMA SquareRootOfOne ==
  ASSUME NEW y \in Fr, mul(y, y) = 1
  PROVE  y = 1 \/ y = P - 1
<1>1. 1 \in Fr /\ y \in Int /\ 0 <= y /\ y < P /\ P \in Nat
  BY PIsNat DEF Fr
<1>2. sub(mul(y, y), 1) = 0
  BY <1>1, SubLaws
<1>3. mul(sub(y, 1), add(y, 1)) = 0
  BY <1>2, SquareIdentity
<1>4. sub(y, 1) \in Fr /\ add(y, 1) \in Fr
  BY <1>1, Operations
<1>5. sub(y, 1) = 0 \/ add(y, 1) = 0
  BY <1>3, <1>4, PIsNat, Cancel
<1>6. CASE sub(y, 1) = 0
  BY <1>1, <1>6, SubLaws
<1>7. CASE add(y, 1) = 0
  <2>1. (y + 1) % P = 0
    BY <1>7 DEF add
  <2>2. y + 1 = P
    BY <1>1, <2>1
  <2> QED
    BY <1>1, <2>2
<1> QED
  BY <1>5, <1>6, <1>7

\* The odd powers of -1.
LEMMA MinusOne ==
  ASSUME NEW n \in Nat
  PROVE  /\ P - 1 \in Fr /\ mul(P - 1, P - 1) = 1 /\ add(P - 1, 1) = 0
         /\ power(P - 1, 2 * n + 1) = P - 1
<1>1. P - 1 \in Fr /\ P - 1 \in Int /\ P \in Int /\ 1 \in Fr /\ 0 \in Fr
  BY PIsNat DEF Fr
<1>2. Cong(P - 1, -1)
  <2>1. P - 1 = -1 + 1 * P
    BY <1>1
  <2> QED
    BY <2>1 DEF Cong
<1>3. mul(P - 1, P - 1) \in Fr /\ Cong(mul(P - 1, P - 1), (-1) * (-1))
  BY <1>1, <1>2, Represent
<1>4. mul(P - 1, P - 1) = 1
  <2>1. (-1) * (-1) = 1 /\ Cong(1, 1)
    BY CongRefl
  <2> QED
    BY <1>1, <1>3, <2>1, SameRepresentative
<1>5. add(P - 1, 1) = 0
  <2>1. (P - 1) + 1 = P /\ P \in Nat \ {0}
    BY PIsNat
  <2>2. P % P = 0
    BY <2>1
  <2> QED
    BY <2>1, <2>2 DEF add
<1>6. power(P - 1, 2) = 1
  <2>1. 1 + 1 = 2 /\ power(P - 1, 1 + 1) = mul(P - 1, power(P - 1, 1))
    BY <1>1, PowerStep
  <2>2. power(P - 1, 1) = P - 1
    BY <1>1, PowerOfOne
  <2> QED
    BY <1>4, <2>1, <2>2
<1>7. 2 * n \in Nat /\ power(P - 1, 2 * n) = 1
  <2>1. power(P - 1, 2 * n) = power(power(P - 1, 2), n)
    BY <1>1, PowerOfPower
  <2>2. power(1, n) = 1
    BY <1>1, PowerOfOne
  <2> QED
    BY <1>6, <2>1, <2>2
<1>8. power(P - 1, 2 * n + 1) = P - 1
  <2>1. power(P - 1, 2 * n + 1) = mul(P - 1, power(P - 1, 2 * n))
    BY <1>1, <1>7, PowerStep
  <2>2. mul(P - 1, 1) = P - 1
    BY <1>1, ZeroLaws
  <2> QED
    BY <1>7, <2>1, <2>2
<1> QED
  BY <1>1, <1>4, <1>5, <1>8

-----------------------------------------------------------------------------
\* The roots of unity.

\* Half of the nonzero elements at most have 1 as their power to half of P - 1:
\* those that have are roots of X^h - 1.
LEMMA HalfPowers ==
  ASSUME NEW h \in Nat \ {0}, P - 1 = 2 * h
  PROVE  \E m \in 1..(P - 1) : power(m, h) # 1
<1> DEFINE p == [e \in 0..h |-> IF e = 0 THEN P - 1 ELSE IF e = h THEN 1 ELSE 0]
           R == 1..(P - 1)
           v(x) == [e \in Nat |-> IF e = 0 \/ e > h THEN 0 ELSE power(x, h - e)]
<1> SUFFICES ASSUME \A m \in R : power(m, h) = 1
             PROVE  FALSE
  OBVIOUS
<1>1. /\ P - 1 \in Fr /\ 0 \in Fr /\ 1 \in Fr /\ R \subseteq Fr /\ 1 \in Int /\ P - 1 \in Int /\ P \in Nat
      /\ add(P - 1, 1) = 0
  BY PIsNat, MinusOne DEF Fr
<1>2. p \in [0..h -> Fr]
  BY <1>1
<1>3. ASSUME NEW x \in R
      PROVE  IsHorner(v(x), p, h + 1, x) /\ v(x)[0] = 0
  <2>1. x \in Fr
    BY <1>1
  <2>2. \A e \in Nat : power(x, e) \in Fr /\ power(x, e + 1) = mul(x, power(x, e)) /\ power(x, 0) = 1
    BY <2>1, PowerType, PowerStep
  <2>3. v(x) \in [Nat -> Fr]
    <3>1. \A e \in Nat : (IF e = 0 \/ e > h THEN 0 ELSE power(x, h - e)) \in Fr
      <4>1. \A e \in Nat : ~(e = 0 \/ e > h) => h - e \in Nat
        OBVIOUS
      <4> QED
        BY <1>1, <2>2, <4>1
    <3> QED
      BY <3>1
  <2>4. ASSUME NEW e \in 0..h
        PROVE  v(x)[e] = add(p[e], mul(x, v(x)[e + 1]))
    <3>1. e \in Nat /\ e + 1 \in Nat /\ e <= h
      OBVIOUS
    <3>2. CASE e = h
      <4>1. v(x)[e + 1] = 0 /\ p[e] = 1 /\ h - e = 0 /\ ~(e = 0 \/ e > h)
        BY <3>2
      <4>2. v(x)[e] = power(x, 0)
        BY <3>1, <4>1
      <4>3. mul(x, 0) = 0 /\ add(1, 0) = 1
        BY <1>1, <2>1, ZeroLaws
      <4> HIDE DEF v, p
      <4> QED
        BY <2>2, <4>1, <4>2, <4>3
    <3>3. CASE e = 0
      <4>1. p[e] = P - 1 /\ v(x)[e] = 0 /\ h - 1 \in Nat /\ (h - 1) + 1 = h
        BY <3>3
      <4>2. v(x)[e + 1] = power(x, h - 1)
        <5>1. e + 1 = 1 /\ ~(1 = 0 \/ 1 > h)
          BY <3>3
        <5> QED
          BY <5>1
      <4>3. power(x, h) = mul(x, power(x, h - 1))
        BY <2>2, <4>1
      <4>4. power(x, h) = 1
        OBVIOUS
      <4> HIDE DEF v, p
      <4> QED
        BY <1>1, <4>1, <4>2, <4>3, <4>4
    <3>4. CASE e # 0 /\ e # h
      <4>1. /\ p[e] = 0 /\ ~(e = 0 \/ e > h) /\ ~(e + 1 = 0 \/ e + 1 > h)
            /\ h - (e + 1) \in Nat /\ (h - (e + 1)) + 1 = h - e /\ h - e \in Nat
        BY <3>1, <3>4
      <4>2. v(x)[e] = power(x, h - e) /\ v(x)[e + 1] = power(x, h - (e + 1))
        BY <3>1, <4>1
      <4>3. power(x, h - e) = mul(x, power(x, h - (e + 1))) /\ power(x, h - e) \in Fr
        BY <2>2, <4>1
      <4>4. add(0, power(x, h - e)) = power(x, h - e)
        BY <4>3, AddLaws
      <4> HIDE DEF v, p
      <4> QED
        BY <4>1, <4>2, <4>3, <4>4
    <3> QED
      BY <3>2, <3>3, <3>4
  <2>5. \A e \in Nat : e \notin 0..h => v(x)[e] = 0
    OBVIOUS
  <2>6. v(x)[0] = 0 /\ (h + 1) - 1 = h
    OBVIOUS
  <2> HIDE DEF v, p
  <2> QED
    BY <2>3, <2>4, <2>5, <2>6 DEF IsHorner
<1>4. Cardinality(R) >= h + 1
  <2>1. Cardinality(1..(P - 1)) = (P - 1) - 1 + 1
    BY <1>1, FS_Interval
  <2> QED
    BY <1>1, <2>1
<1>5. h + 1 \in Nat /\ (h + 1) - 1 = h /\ 0 \in 0..h
  OBVIOUS
<1>6. \A x \in R : \E u : IsHorner(u, p, h + 1, x) /\ u[0] = 0
  <2> HIDE DEF v, p, R
  <2> QED
    BY <1>3
<1>7. p[0] = 0
  <2> HIDE DEF p, R
  <2> QED
    BY <1>1, <1>2, <1>4, <1>5, <1>6, RootBound
<1> QED
  BY <1>1, <1>7

\* nqr is no square: its power to half of P - 1 is -1.
LEMMA NqrPower ==
  ASSUME NEW h \in Nat \ {0}, P - 1 = 2 * h
  PROVE  nqr \in Fr \ {0} /\ power(nqr, h) = P - 1
<1> DEFINE T == {m \in 1..(P - 1) : power(m, h) # 1}
<1>2. P \in Nat \ {0, 1} /\ 1 \in Fr /\ 0 \in Fr /\ 1..(P - 1) \subseteq Fr
  BY PIsNat DEF Fr
<1>3. (P - 1) \div 2 = h
  BY <1>2
<1>4. ASSUME NEW m \in Fr \ {0}
      PROVE  power(m, h) \in {1, P - 1}
  <2>1. power(m, h) \in Fr
    BY PowerType
  <2>2. power(m, h + h) = mul(power(m, h), power(m, h))
    BY PowerOfSum
  <2>3. h + h = P - 1
    OBVIOUS
  <2>4. mul(power(m, h), power(m, h)) = 1
    BY <2>2, <2>3, Fermat
  <2> QED
    BY <2>1, <2>4, SquareRootOfOne
<1>5. T # {} /\ T \subseteq Nat 
  BY HalfPowers
<1>6. PICK n \in T : \A m \in T : n <= m
  <2> HIDE DEF T
  <2> QED
    BY <1>5, Least
<1>7. n \in Fr \ {0} /\ n \in 1..(P - 1)
  BY <1>2, <1>6
<1>8. power(n, h) = P - 1
  BY <1>4, <1>6, <1>7
<1>9. ASSUME NEW m \in 1..(n - 1)
      PROVE  power(m, h) = 1
  <2>1. m \in 1..(P - 1) /\ ~(n <= m)
    BY <1>2, <1>7
  <2> QED
    BY <1>6, <2>1
<1>10. nqr \in Fr /\ power(nqr, (P - 1) \div 2) = P - 1
  <2>1. \E x \in Fr : /\ power(x, (P - 1) \div 2) = P - 1
                      /\ \A m \in 1..(x - 1) : power(m, (P - 1) \div 2) = 1
    BY <1>3, <1>7, <1>8, <1>9
  <2> QED
    BY <2>1 DEF nqr
<1>11. nqr # 0
  <2>1. h - 1 \in Nat /\ (h - 1) + 1 = h
    OBVIOUS
  <2>2. power(0, (h - 1) + 1) = mul(0, power(0, h - 1))
    BY <1>2, <2>1, PowerStep
  <2>3. mul(0, power(0, h - 1)) = 0
    BY <1>2, <2>1, PowerType, MulLaws
  <2>4. P - 1 # 0
    BY <1>2
  <2> QED
    BY <1>3, <1>10, <2>1, <2>2, <2>3, <2>4
<1> QED
  BY <1>3, <1>10, <1>11

\* What has -1 as its power to 2^k has no smaller power that is 1 than that to
\* 2^(k + 1).
LEMMA RootOrder ==
  ASSUME NEW k \in Nat, NEW w \in Fr, power(w, 2^k) = P - 1, P > 2,
         NEW d \in 1..(2^(k + 1) - 1)
  PROVE  power(w, d) # 1
<1> DEFINE S == {m \in Nat : \A x \in Fr : power(x, 2^m) = P - 1 =>
                               \A e \in 1..(2^(m + 1) - 1) : power(x, e) # 1}
<1>1. 0 \in S
  <2>1. 2^0 = 1 /\ 2^(0 + 1) = 2
    BY PowersOfTwo
  <2>2. ASSUME NEW x \in Fr, power(x, 2^0) = P - 1, NEW e \in 1..(2^(0 + 1) - 1)
        PROVE  power(x, e) # 1
    <3>1. e = 1 /\ power(x, 1) = P - 1
      BY <2>1, <2>2
    <3> QED
      BY <3>1, PIsNat
  <2> QED
    BY <2>2
<1>2. ASSUME NEW m \in Nat, m \in S
      PROVE  m + 1 \in S
  <2> DEFINE M == 2^(m + 1)
  <2>1. M \in Nat \ {0} /\ 2^((m + 1) + 1) = 2 * M /\ M = 2 * 2^m /\ 2^m \in Nat /\ m + 1 \in Nat
    BY PowersOfTwo
  <2>2. ASSUME NEW x \in Fr, power(x, M) = P - 1, NEW e \in 1..(2 * M - 1), power(x, e) = 1
        PROVE  FALSE
    <3>1. e \in Nat /\ M \in Nat /\ P \in Nat /\ 2 \in Nat
      BY <2>1, PIsNat
    <3>2. PICK i \in Nat : e = 2 * i \/ e = 2 * i + 1
      <4>1. \A u \in Nat : u \div 2 \in Nat /\ (u = 2 * (u \div 2) \/ u = 2 * (u \div 2) + 1)
        OBVIOUS
      <4>2. \A u \in Nat : \E j \in Nat : u = 2 * j \/ u = 2 * j + 1
        BY <4>1, Zenon
      <4> QED
        BY <3>1, <4>2, Zenon
    <3>3. CASE e = 2 * i
      <4>1. \A j \in Nat : power(x, 2) \in Fr /\ power(power(x, 2), j) = power(x, 2 * j)
        BY <3>1, PowerType, PowerOfPower
      <4>2. power(power(x, 2), 2^m) = P - 1 /\ power(power(x, 2), i) = power(x, e)
        BY <2>1, <2>2, <3>3, <4>1
      <4>3. i \in 1..(M - 1)
        BY <3>1, <3>3
      <4>4. power(power(x, 2), i) # 1
        BY <1>2, <4>1, <4>2, <4>3
      <4> QED
        BY <2>2, <4>2, <4>4
    <3>4. CASE e = 2 * i + 1
      <4>1. power(power(x, M), e) = power(x, M * e) /\ power(power(x, e), M) = power(x, e * M)
        BY <3>1, PowerOfPower
      <4>2. M * e = e * M
        BY <3>1
      <4>3. power(P - 1, 2 * i + 1) = P - 1
        BY MinusOne
      <4>4. power(1, M) = 1
        BY <3>1, PIsNat, PowerOfOne
      <4>5. P - 1 = 1
        BY <2>2, <3>4, <4>1, <4>2, <4>3, <4>4
      <4> QED
        BY <3>1, <4>5
    <3> QED
      BY <3>2, <3>3, <3>4
  <2>3. \A x \in Fr : power(x, M) = P - 1 => \A e \in 1..(2 * M - 1) : power(x, e) # 1
    BY <2>2
  <2> QED
    BY <2>1, <2>3
<1> HIDE DEF S
<1>3. \A m \in Nat : m \in S
  BY <1>1, <1>2, Induction
<1> QED
  BY <1>3 DEF S

\* A multiple of a number is so many times it.
LEMMA Multiple ==
  ASSUME NEW x \in Nat, NEW D \in Nat \ {0}, x % D = 0
  PROVE  x \div D \in Nat /\ x = D * (x \div D) /\ (x > 0 => x \div D > 0)
<1>1. x = D * (x \div D) + (x % D)
  OBVIOUS
<1>2. x \div D \in Nat
  OBVIOUS
<1>3. x = D * (x \div D)
  BY <1>1, <1>2
<1>4. x \div D = 0 => x = 0
  BY <1>3
<1> QED
  BY <1>2, <1>3, <1>4

\* The root of unity of order 2^n, for the orders that the field has.
LEMMA RootOfUnity ==
  ASSUME NEW n \in Nat \ {0}, (P - 1) % 2^n = 0
  PROVE  /\ nqr \in Fr /\ rootOfUnity(2^n) \in Fr \ {0}
         /\ power(rootOfUnity(2^n), 2^n) = 1
         /\ \A d \in 1..(2^n - 1) : power(rootOfUnity(2^n), d) # 1
<1> DEFINE D == 2^n
           q == (P - 1) \div D
           w == power(nqr, q)
<1>1. n - 1 \in Nat /\ (n - 1) + 1 = n /\ n \in Nat
  OBVIOUS
<1>2. D \in Nat \ {0} /\ D = 2 * 2^(n - 1) /\ 2^(n - 1) \in Nat \ {0}
  BY <1>1, PowersOfTwo
<1>3. P - 1 \in Nat /\ P - 1 > 0 /\ P \in Nat
  BY PIsNat
<1>4. q \in Nat /\ P - 1 = D * q /\ q > 0
  BY <1>2, <1>3, Multiple
<1> DEFINE h == q * 2^(n - 1)
<1> HIDE DEF D, q, w
<1>5. h \in Nat \ {0} /\ P - 1 = 2 * h
  <2>1. \A u, v \in Nat : u > 0 /\ v # 0 => u * v \in Nat \ {0} /\ (2 * v) * u = 2 * (u * v)
    OBVIOUS
  <2> QED
    BY <1>2, <1>4, <2>1
<1> HIDE DEF h
<1>6. nqr \in Fr \ {0} /\ nqr \in Fr /\ power(nqr, h) = P - 1
  BY <1>5, NqrPower
<1>7. w \in Fr \ {0}
  BY <1>4, <1>6, PowerOfOne DEF w
<1>8. power(w, 2^(n - 1)) = P - 1
  BY <1>2, <1>4, <1>6, PowerOfPower DEF w, h
<1>9. power(w, D) = 1
  <2>1. power(w, D) = power(nqr, q * D)
    BY <1>2, <1>4, <1>6, PowerOfPower DEF w
  <2>2. q * D = P - 1
    BY <1>2, <1>4
  <2> QED
    BY <1>6, <2>1, <2>2, Fermat
<1>10. P > 2
  BY <1>3, <1>5
<1>11. \A d \in 1..(D - 1) : power(w, d) # 1
  <2>1. ASSUME NEW d \in 1..(2^((n - 1) + 1) - 1)
        PROVE  power(w, d) # 1
    BY <1>1, <1>7, <1>8, <1>10, RootOrder
  <2> QED
    BY <1>1, <2>1 DEF D
<1>12. w = rootOfUnity(D)
  BY DEF w, q, rootOfUnity
<1> QED
  BY <1>6, <1>7, <1>9, <1>11, <1>12 DEF D

\* The root of a smaller order is a power of that of a larger one.
LEMMA RootTower ==
  ASSUME NEW n \in Nat, NEW m \in Nat, m + n # 0, (P - 1) % 2^(m + n) = 0
  PROVE  /\ rootOfUnity(2^m) = power(rootOfUnity(2^(m + n)), 2^n)
         /\ (P - 1) % 2^m = 0
<1> DEFINE D == 2^m
           E == 2^n
           q == (P - 1) \div (D * E)
<1>1. D \in Nat \ {0} /\ E \in Nat \ {0} /\ 2^(m + n) = D * E
  BY PowersOfTwo, PowerOfTwoOfSum
<1>2. P - 1 \in Nat /\ P - 1 > 0
  BY PIsNat
<1>3. D * E \in Nat \ {0} /\ q \in Nat /\ P - 1 = (D * E) * q
  <2>1. \A u, v \in Nat \ {0} : u * v \in Nat \ {0}
    OBVIOUS
  <2>2. D * E \in Nat \ {0}
    BY <1>1, <2>1
  <2> QED
    BY <1>1, <1>2, <2>2, Multiple
<1> HIDE DEF D, E, q
<1>4. P - 1 = D * (q * E) /\ q * E \in Nat
  <2>1. \A u, v, x \in Nat : (u * v) * x = u * (x * v) /\ x * v \in Nat
    OBVIOUS
  <2> QED
    BY <1>1, <1>3, <2>1
<1>5. (P - 1) \div D = q * E /\ (P - 1) % D = 0
  <2>1. \A u \in Nat \ {0}, x \in Nat : (u * x) \div u = x /\ (u * x) % u = 0
    OBVIOUS
  <2> QED
    BY <1>1, <1>4, <2>1
<1>6. rootOfUnity(D) = power(nqr, q * E)
  BY <1>5 DEF rootOfUnity
<1>7. nqr \in Fr
  <2>1. m + n \in Nat \ {0}
    OBVIOUS
  <2> QED
    BY <2>1, RootOfUnity
<1>8. power(nqr, q * E) = power(power(nqr, q), E)
  BY <1>1, <1>3, <1>7, PowerOfPower
<1> QED
  BY <1>1, <1>5, <1>6, <1>8 DEF rootOfUnity, D, E, q

\* The terms of a sum of four may be put together in another way.
LEMMA AddSwap ==
  ASSUME NEW a \in Fr, NEW b \in Fr, NEW c \in Fr, NEW d \in Fr
  PROVE  add(add(a, b), add(c, d)) = add(add(a, c), add(b, d))
<1>1. add(c, d) \in Fr /\ add(b, d) \in Fr
  BY Operations
<1>2. add(add(a, b), add(c, d)) = add(a, add(b, add(c, d)))
  BY <1>1, AddLaws
<1>3. add(b, add(c, d)) = add(add(b, c), d)
  BY AddLaws
<1>4. add(add(c, b), d) = add(c, add(b, d)) /\ add(b, c) = add(c, b)
  BY AddLaws
<1>5. add(a, add(c, add(b, d))) = add(add(a, c), add(b, d))
  BY <1>1, AddLaws
<1> QED
  BY <1>2, <1>3, <1>4, <1>5

\* The step of a geometric sum, on the left.
LEMMA GeometricLeft ==
  ASSUME NEW g \in Fr, NEW x \in Fr, NEW c \in Fr, NEW h \in Fr
  PROVE  add(mul(mul(g, x), add(c, mul(x, h))), c)
           = add(c, mul(x, add(mul(mul(g, x), h), mul(g, c))))
<1> DEFINE a1 == mul(g, x)
           a2 == mul(x, h)
           a3 == add(c, a2)
           a4 == mul(a1, a3)
           a5 == add(a4, c)
           a6 == mul(a1, h)
           a7 == mul(g, c)
           a8 == add(a6, a7)
           a9 == mul(x, a8)
           a10 == add(c, a9)
           A1 == g * x
           A2 == x * h
           A3 == c + A2
           A4 == A1 * A3
           A5 == A4 + c
           A6 == A1 * h
           A7 == g * c
           A8 == A6 + A7
           A9 == x * A8
           A10 == c + A9
<1>0. g \in Fr /\ g \in Int /\ x \in Fr /\ x \in Int /\ c \in Fr /\ c \in Int /\ h \in Fr /\ h \in Int
  BY PIsNat
<1>1. Cong(g, g) /\ Cong(x, x) /\ Cong(c, c) /\ Cong(h, h)
  BY <1>0, CongRefl
<1> HIDE DEF a1, A1, a2, A2, a3, A3, a4, A4, a5, A5, a6, A6, a7, A7, a8, A8, a9, A9, a10, A10
<1>2. a1 \in Fr /\ A1 \in Int /\ Cong(a1, A1)
  BY <1>0, <1>1, Represent DEF a1, A1
<1>3. a2 \in Fr /\ A2 \in Int /\ Cong(a2, A2)
  BY <1>0, <1>1, Represent DEF a2, A2
<1>4. a3 \in Fr /\ A3 \in Int /\ Cong(a3, A3)
  BY <1>0, <1>1, <1>3, Represent DEF a3, A3
<1>5. a4 \in Fr /\ A4 \in Int /\ Cong(a4, A4)
  BY <1>2, <1>4, Represent DEF a4, A4
<1>6. a5 \in Fr /\ A5 \in Int /\ Cong(a5, A5)
  BY <1>5, <1>0, <1>1, Represent DEF a5, A5
<1>7. a6 \in Fr /\ A6 \in Int /\ Cong(a6, A6)
  BY <1>2, <1>0, <1>1, Represent DEF a6, A6
<1>8. a7 \in Fr /\ A7 \in Int /\ Cong(a7, A7)
  BY <1>0, <1>1, Represent DEF a7, A7
<1>9. a8 \in Fr /\ A8 \in Int /\ Cong(a8, A8)
  BY <1>7, <1>8, Represent DEF a8, A8
<1>10. a9 \in Fr /\ A9 \in Int /\ Cong(a9, A9)
  BY <1>0, <1>1, <1>9, Represent DEF a9, A9
<1>11. a10 \in Fr /\ A10 \in Int /\ Cong(a10, A10)
  BY <1>0, <1>1, <1>10, Represent DEF a10, A10
<1>12. A5 = A10
  BY <1>0 DEF A1, A2, A3, A4, A5, A6, A7, A8, A9, A10
<1>13. a5 = a10
  BY <1>6, <1>11, <1>12, SameRepresentative
<1> QED
  BY <1>13 DEF a1, a2, a3, a4, a5, a6, a7, a8, a9, a10

\* The step of a geometric sum, on the right.
LEMMA GeometricRight ==
  ASSUME NEW g \in Fr, NEW x \in Fr, NEW c \in Fr, NEW h \in Fr, NEW z \in Fr
  PROVE  add(c, mul(x, add(h, mul(mul(g, c), z))))
           = add(add(c, mul(x, h)), mul(c, mul(mul(g, x), z)))
<1> DEFINE a1 == mul(g, c)
           a2 == mul(a1, z)
           a3 == add(h, a2)
           a4 == mul(x, a3)
           a5 == add(c, a4)
           a6 == mul(x, h)
           a7 == add(c, a6)
           a8 == mul(g, x)
           a9 == mul(a8, z)
           a10 == mul(c, a9)
           a11 == add(a7, a10)
           A1 == g * c
           A2 == A1 * z
           A3 == h + A2
           A4 == x * A3
           A5 == c + A4
           A6 == x * h
           A7 == c + A6
           A8 == g * x
           A9 == A8 * z
           A10 == c * A9
           A11 == A7 + A10
<1>0. g \in Fr /\ g \in Int /\ x \in Fr /\ x \in Int /\ c \in Fr /\ c \in Int /\ h \in Fr /\ h \in Int /\ z \in Fr /\ z \in Int
  BY PIsNat
<1>1. Cong(g, g) /\ Cong(x, x) /\ Cong(c, c) /\ Cong(h, h) /\ Cong(z, z)
  BY <1>0, CongRefl
<1> HIDE DEF a1, A1, a2, A2, a3, A3, a4, A4, a5, A5, a6, A6, a7, A7, a8, A8, a9, A9, a10, A10, a11, A11
<1>2. a1 \in Fr /\ A1 \in Int /\ Cong(a1, A1)
  BY <1>0, <1>1, Represent DEF a1, A1
<1>3. a2 \in Fr /\ A2 \in Int /\ Cong(a2, A2)
  BY <1>2, <1>0, <1>1, Represent DEF a2, A2
<1>4. a3 \in Fr /\ A3 \in Int /\ Cong(a3, A3)
  BY <1>0, <1>1, <1>3, Represent DEF a3, A3
<1>5. a4 \in Fr /\ A4 \in Int /\ Cong(a4, A4)
  BY <1>0, <1>1, <1>4, Represent DEF a4, A4
<1>6. a5 \in Fr /\ A5 \in Int /\ Cong(a5, A5)
  BY <1>0, <1>1, <1>5, Represent DEF a5, A5
<1>7. a6 \in Fr /\ A6 \in Int /\ Cong(a6, A6)
  BY <1>0, <1>1, Represent DEF a6, A6
<1>8. a7 \in Fr /\ A7 \in Int /\ Cong(a7, A7)
  BY <1>0, <1>1, <1>7, Represent DEF a7, A7
<1>9. a8 \in Fr /\ A8 \in Int /\ Cong(a8, A8)
  BY <1>0, <1>1, Represent DEF a8, A8
<1>10. a9 \in Fr /\ A9 \in Int /\ Cong(a9, A9)
  BY <1>9, <1>0, <1>1, Represent DEF a9, A9
<1>11. a10 \in Fr /\ A10 \in Int /\ Cong(a10, A10)
  BY <1>0, <1>1, <1>10, Represent DEF a10, A10
<1>12. a11 \in Fr /\ A11 \in Int /\ Cong(a11, A11)
  BY <1>8, <1>11, Represent DEF a11, A11
<1>13. A5 = A11
  BY <1>0 DEF A1, A2, A3, A4, A5, A6, A7, A8, A9, A10, A11
<1>14. a5 = a11
  BY <1>6, <1>12, <1>13, SameRepresentative
<1> QED
  BY <1>14 DEF a1, a2, a3, a4, a5, a6, a7, a8, a9, a10, a11

\* The step of a geometric sum of ones.
LEMMA GeometricOnes ==
  ASSUME NEW g \in Fr, NEW x \in Fr, NEW c \in Fr, NEW k \in Fr
  PROVE  add(c, mul(x, mul(mul(g, c), k)))
           = add(c, mul(mul(g, x), mul(c, k)))
<1> DEFINE a1 == mul(g, c)
           a2 == mul(a1, k)
           a3 == mul(x, a2)
           a4 == add(c, a3)
           a5 == mul(g, x)
           a6 == mul(c, k)
           a7 == mul(a5, a6)
           a8 == add(c, a7)
           A1 == g * c
           A2 == A1 * k
           A3 == x * A2
           A4 == c + A3
           A5 == g * x
           A6 == c * k
           A7 == A5 * A6
           A8 == c + A7
<1>0. g \in Fr /\ g \in Int /\ x \in Fr /\ x \in Int /\ c \in Fr /\ c \in Int /\ k \in Fr /\ k \in Int
  BY PIsNat
<1>1. Cong(g, g) /\ Cong(x, x) /\ Cong(c, c) /\ Cong(k, k)
  BY <1>0, CongRefl
<1> HIDE DEF a1, A1, a2, A2, a3, A3, a4, A4, a5, A5, a6, A6, a7, A7, a8, A8
<1>2. a1 \in Fr /\ A1 \in Int /\ Cong(a1, A1)
  BY <1>0, <1>1, Represent DEF a1, A1
<1>3. a2 \in Fr /\ A2 \in Int /\ Cong(a2, A2)
  BY <1>2, <1>0, <1>1, Represent DEF a2, A2
<1>4. a3 \in Fr /\ A3 \in Int /\ Cong(a3, A3)
  BY <1>0, <1>1, <1>3, Represent DEF a3, A3
<1>5. a4 \in Fr /\ A4 \in Int /\ Cong(a4, A4)
  BY <1>0, <1>1, <1>4, Represent DEF a4, A4
<1>6. a5 \in Fr /\ A5 \in Int /\ Cong(a5, A5)
  BY <1>0, <1>1, Represent DEF a5, A5
<1>7. a6 \in Fr /\ A6 \in Int /\ Cong(a6, A6)
  BY <1>0, <1>1, Represent DEF a6, A6
<1>8. a7 \in Fr /\ A7 \in Int /\ Cong(a7, A7)
  BY <1>6, <1>7, Represent DEF a7, A7
<1>9. a8 \in Fr /\ A8 \in Int /\ Cong(a8, A8)
  BY <1>0, <1>1, <1>8, Represent DEF a8, A8
<1>10. A4 = A8
  BY <1>0 DEF A1, A2, A3, A4, A5, A6, A7, A8
<1>11. a4 = a8
  BY <1>5, <1>9, <1>10, SameRepresentative
<1> QED
  BY <1>11 DEF a1, a2, a3, a4, a5, a6, a7, a8

-----------------------------------------------------------------------------
\* The values of polynomials.

\* A Horner function is what evaluateAt computes.
LEMMA Evaluates ==
  ASSUME NEW n \in Nat, NEW p \in [0..(n - 1) -> Fr], NEW x \in Fr, NEW h, IsHorner(h, p, n, x)
  PROVE  evaluateAt(p, x) = h[0]
<1> DEFINE G(g) == g = [e \in Nat |-> IF e \notin DOMAIN p THEN 0
                                      ELSE add(p[e], mul(x, g[e + 1]))]
<1>1. \E g : G(g)
  <2>1. h = [e \in Nat |-> IF e \notin DOMAIN p THEN 0 ELSE add(p[e], mul(x, h[e + 1]))]
    BY DEF IsHorner
  <2> QED
    BY <2>1
<1> DEFINE g == CHOOSE g : G(g)
<1>2. G(g)
  BY <1>1
<1>3. evaluateAt(p, x) = g[0]
  BY DEF evaluateAt
<1> HIDE DEF g
<1>4. \A e \in Nat : g[e] = IF e \in 0..(n - 1) THEN add(p[e], mul(x, g[e + 1])) ELSE 0
  BY <1>2
<1> DEFINE S == {e \in Nat : g[e] = h[e]}
<1>5. \A e \in Nat : e >= n => e \in S
  BY <1>4 DEF IsHorner
<1>6. \A e \in 0..(n - 1) : e + 1 \in S => e \in S
  BY <1>4 DEF IsHorner
<1> HIDE DEF S
<1>7. \A e \in Nat : e \in S
  BY <1>5, <1>6, Descending
<1> QED
  BY <1>3, <1>7 DEF S

\* The value is an element, and computed by a Horner function.
LEMMA EvaluateType ==
  ASSUME NEW n \in Nat, NEW p \in [0..(n - 1) -> Fr], NEW x \in Fr
  PROVE  /\ evaluateAt(p, x) \in Fr
         /\ \E h : IsHorner(h, p, n, x) /\ evaluateAt(p, x) = h[0]
<1>1. PICK h : IsHorner(h, p, n, x)
  BY HornerExists
<1>2. evaluateAt(p, x) = h[0]
  BY <1>1, Evaluates
<1> QED
  BY <1>1, <1>2 DEF IsHorner

\* r is the sum of p and q, or a multiple of p.
IsSum(r, p, q, n) == r = [e \in 0..(n - 1) |-> add(p[e], q[e])]
IsMultiple(r, p, c, n) == r = [e \in 0..(n - 1) |-> mul(c, p[e])]

\* The value of a sum.
LEMMA EvaluateSum ==
  ASSUME NEW n \in Nat, NEW p \in [0..(n - 1) -> Fr], NEW q \in [0..(n - 1) -> Fr],
         NEW x \in Fr, NEW r, IsSum(r, p, q, n)
  PROVE  /\ r \in [0..(n - 1) -> Fr]
         /\ evaluateAt(r, x) = add(evaluateAt(p, x), evaluateAt(q, x))
<1>1. r \in [0..(n - 1) -> Fr]
  BY Operations DEF IsSum
<1>2. PICK hp : IsHorner(hp, p, n, x) /\ evaluateAt(p, x) = hp[0]
  BY EvaluateType
<1>3. PICK hq : IsHorner(hq, q, n, x) /\ evaluateAt(q, x) = hq[0]
  BY EvaluateType
<1> DEFINE h == [e \in Nat |-> add(hp[e], hq[e])]
<1>4. IsHorner(h, r, n, x)
  <2>1. \A e \in Nat : hp[e] \in Fr /\ hq[e] \in Fr
    BY <1>2, <1>3 DEF IsHorner
  <2>2. h \in [Nat -> Fr]
    BY <2>1, Operations
  <2>3. ASSUME NEW e \in 0..(n - 1)
        PROVE  h[e] = add(r[e], mul(x, h[e + 1]))
    <3>1. /\ hp[e] = add(p[e], mul(x, hp[e + 1])) /\ hq[e] = add(q[e], mul(x, hq[e + 1]))
          /\ e \in Nat /\ e + 1 \in Nat
      BY <1>2, <1>3 DEF IsHorner
    <3>2. /\ p[e] \in Fr /\ q[e] \in Fr /\ hp[e + 1] \in Fr /\ hq[e + 1] \in Fr
      BY <2>1, <3>1
    <3>3. \A s, t, u, v \in Fr : add(add(s, mul(x, t)), add(u, mul(x, v)))
                                   = add(add(s, u), mul(x, add(t, v)))
      <4>1. ASSUME NEW s \in Fr, NEW t \in Fr, NEW u \in Fr, NEW v \in Fr
            PROVE  add(add(s, mul(x, t)), add(u, mul(x, v))) = add(add(s, u), mul(x, add(t, v)))
        <5>1. mul(x, t) \in Fr /\ mul(x, v) \in Fr
          BY Operations
        <5>2. mul(x, add(t, v)) = add(mul(x, t), mul(x, v))
          BY Distributive
        <5>3. \A y, z \in Fr : add(add(s, y), add(u, z)) = add(add(s, u), add(y, z))
          BY AddSwap
        <5> QED
          BY <5>1, <5>2, <5>3
      <4> QED
        BY <4>1
    <3> HIDE DEF h
    <3>4. h[e] = add(hp[e], hq[e]) /\ h[e + 1] = add(hp[e + 1], hq[e + 1])
      BY <3>1 DEF h
    <3>5. r[e] = add(p[e], q[e])
      BY DEF IsSum
    <3> QED
      BY <3>1, <3>2, <3>3, <3>4, <3>5
  <2>4. ASSUME NEW e \in Nat, e \notin 0..(n - 1)
        PROVE  h[e] = 0
    <3>1. hp[e] = 0 /\ hq[e] = 0
      BY <1>2, <1>3, <2>4 DEF IsHorner
    <3>2. add(0, 0) = 0
      BY PIsNat, AddLaws
    <3> QED
      BY <3>1, <3>2
  <2> HIDE DEF h
  <2> QED
    BY <2>2, <2>3, <2>4 DEF IsHorner
<1>5. evaluateAt(r, x) = h[0]
  <2> HIDE DEF h
  <2> QED
    BY <1>1, <1>4, Evaluates
<1>6. h[0] = add(hp[0], hq[0])
  OBVIOUS
<1> QED
  BY <1>1, <1>2, <1>3, <1>5, <1>6

\* The value of a multiple.
LEMMA EvaluateMultiple ==
  ASSUME NEW n \in Nat, NEW p \in [0..(n - 1) -> Fr], NEW c \in Fr,
         NEW x \in Fr, NEW r, IsMultiple(r, p, c, n)
  PROVE  /\ r \in [0..(n - 1) -> Fr]
         /\ evaluateAt(r, x) = mul(c, evaluateAt(p, x))
<1>1. r \in [0..(n - 1) -> Fr]
  BY Operations DEF IsMultiple
<1>2. PICK hp : IsHorner(hp, p, n, x) /\ evaluateAt(p, x) = hp[0]
  BY EvaluateType
<1> DEFINE h == [e \in Nat |-> mul(c, hp[e])]
<1>4. IsHorner(h, r, n, x)
  <2>1. \A e \in Nat : hp[e] \in Fr
    BY <1>2 DEF IsHorner
  <2>2. h \in [Nat -> Fr]
    BY <2>1, Operations
  <2>3. ASSUME NEW e \in 0..(n - 1)
        PROVE  h[e] = add(r[e], mul(x, h[e + 1]))
    <3>1. hp[e] = add(p[e], mul(x, hp[e + 1])) /\ e \in Nat /\ e + 1 \in Nat
      BY <1>2 DEF IsHorner
    <3>2. p[e] \in Fr /\ hp[e + 1] \in Fr /\ mul(x, hp[e + 1]) \in Fr
      BY <2>1, <3>1, Operations
    <3>3. mul(c, add(p[e], mul(x, hp[e + 1]))) = add(mul(c, p[e]), mul(c, mul(x, hp[e + 1])))
      BY <3>2, Distributive
    <3>4. mul(c, mul(x, hp[e + 1])) = mul(x, mul(c, hp[e + 1]))
      <4>1. \A t \in Fr : mul(c, mul(x, t)) = mul(mul(c, x), t) /\ mul(x, mul(c, t)) = mul(mul(x, c), t)
        BY MulLaws
      <4>2. mul(c, x) = mul(x, c)
        BY MulLaws
      <4> QED
        BY <3>2, <4>1, <4>2
    <3>5. h[e] = mul(c, hp[e]) /\ h[e + 1] = mul(c, hp[e + 1]) /\ r[e] = mul(c, p[e])
      BY <3>1 DEF IsMultiple
    <3> HIDE DEF h
    <3> QED
      BY <3>1, <3>3, <3>4, <3>5
  <2>4. ASSUME NEW e \in Nat, e \notin 0..(n - 1)
        PROVE  h[e] = 0
    <3>1. hp[e] = 0
      BY <1>2, <2>4 DEF IsHorner
    <3>2. mul(c, 0) = 0
      BY ZeroLaws
    <3> QED
      BY <3>1, <3>2
  <2> HIDE DEF h
  <2> QED
    BY <2>2, <2>3, <2>4 DEF IsHorner
<1>5. evaluateAt(r, x) = h[0]
  <2> HIDE DEF h
  <2> QED
    BY <1>1, <1>4, Evaluates
<1> QED
  BY <1>1, <1>2, <1>5

\* r is p, of m coefficients, moved k places up in an array of n.
IsMoved(r, p, n, m, k) == r = [e \in 0..(n - 1) |-> IF e - k \in 0..(m - 1) THEN p[e - k] ELSE 0]

\* The value of a polynomial that is moved k places up, in a longer array.
LEMMA EvaluateShifted ==
  ASSUME NEW n \in Nat, NEW m \in Nat, NEW k \in Nat, k + m <= n, NEW p \in [0..(m - 1) -> Fr],
         NEW x \in Fr, NEW r, IsMoved(r, p, n, m, k)
  PROVE  /\ r \in [0..(n - 1) -> Fr]
         /\ evaluateAt(r, x) = mul(power(x, k), evaluateAt(p, x))
<1>1. r \in [0..(n - 1) -> Fr]
  BY PIsNat DEF IsMoved
<1>0. \A e \in 0..(n - 1) : r[e] = IF e - k \in 0..(m - 1) THEN p[e - k] ELSE 0
  BY DEF IsMoved
<1>2. PICK hp : IsHorner(hp, p, m, x) /\ evaluateAt(p, x) = hp[0]
  BY EvaluateType
<1>3. \A e \in Nat : /\ hp[e] \in Fr /\ power(x, e) \in Fr
                     /\ hp[e] = IF e \in 0..(m - 1) THEN add(p[e], mul(x, hp[e + 1])) ELSE 0
                     /\ power(x, e + 1) = mul(x, power(x, e))
  BY <1>2, PowerType, PowerStep DEF IsHorner
<1>4. power(x, 0) = 1 /\ 0 \in Fr /\ \A t \in Fr : mul(1, t) = t /\ add(0, t) = t /\ mul(x, 0) = 0
  BY PowerStep, PIsNat, ZeroLaws, MulLaws, AddLaws
<1> DEFINE h == [e \in Nat |-> IF e < k THEN mul(power(x, k - e), hp[0]) ELSE hp[e - k]]
<1>5. IsHorner(h, r, n, x)
  <2>1. h \in [Nat -> Fr]
    <3>1. \A e \in Nat : (IF e < k THEN mul(power(x, k - e), hp[0]) ELSE hp[e - k]) \in Fr
      <4>1. \A e \in Nat : IF e < k THEN k - e \in Nat ELSE e - k \in Nat
        OBVIOUS
      <4> QED
        BY <1>3, <4>1, Operations
    <3> QED
      BY <3>1
  <2>2. ASSUME NEW e \in 0..(n - 1)
        PROVE  h[e] = add(r[e], mul(x, h[e + 1]))
    <3>0. e \in Nat /\ e + 1 \in Nat
      OBVIOUS
    <3>1. CASE e < k /\ e + 1 < k
      <4>1. k - e \in Nat /\ k - (e + 1) \in Nat /\ (k - (e + 1)) + 1 = k - e /\ e - k \notin 0..(m - 1)
        BY <3>0, <3>1
      <4>2. /\ h[e] = mul(power(x, k - e), hp[0]) /\ h[e + 1] = mul(power(x, k - (e + 1)), hp[0])
            /\ r[e] = 0
        BY <1>0, <3>0, <3>1, <4>1
      <4>3. power(x, k - e) = mul(x, power(x, k - (e + 1)))
        BY <1>3, <4>1
      <4>4. mul(x, mul(power(x, k - (e + 1)), hp[0])) = mul(mul(x, power(x, k - (e + 1))), hp[0])
        <5>1. \A t, u \in Fr : mul(x, mul(t, u)) = mul(mul(x, t), u)
          BY MulLaws
        <5>2. power(x, k - (e + 1)) \in Fr /\ hp[0] \in Fr
          BY <1>3, <4>1
        <5> QED
          BY <5>1, <5>2
      <4>5. mul(power(x, k - e), hp[0]) \in Fr
        BY <1>3, <4>1, Operations
      <4> HIDE DEF h
      <4> QED
        BY <1>4, <4>2, <4>3, <4>4, <4>5
    <3>2. CASE e < k /\ e + 1 = k
      <4>1. k - e = 0 + 1 /\ (e + 1) - k = 0 /\ e - k \notin 0..(m - 1) /\ ~(e + 1 < k)
        BY <3>0, <3>2
      <4>2. h[e] = mul(power(x, 0 + 1), hp[0]) /\ h[e + 1] = hp[0] /\ r[e] = 0
        BY <1>0, <3>0, <3>2, <4>1
      <4>3. power(x, 0 + 1) = x
        BY <1>3, <1>4, ZeroLaws
      <4>4. mul(x, hp[0]) \in Fr
        BY <1>3, Operations
      <4> HIDE DEF h
      <4> QED
        BY <1>4, <4>2, <4>3, <4>4
    <3>3. CASE ~(e < k)
      <4>1. e - k \in Nat /\ (e + 1) - k = (e - k) + 1 /\ ~(e + 1 < k) /\ (e - k) + 1 \in Nat
        BY <3>0, <3>3
      <4>2. h[e] = hp[e - k] /\ h[e + 1] = hp[(e - k) + 1]
        BY <3>0, <3>3, <4>1
      <4>3. CASE e - k \in 0..(m - 1)
        <5>1. r[e] = p[e - k]
          BY <1>0, <4>3
        <5> HIDE DEF h
        <5> QED
          BY <1>3, <4>1, <4>2, <4>3, <5>1
      <4>4. CASE e - k \notin 0..(m - 1)
        <5>1. r[e] = 0 /\ (e - k) + 1 \notin 0..(m - 1)
          BY <1>0, <4>1, <4>4
        <5>2. hp[e - k] = 0 /\ hp[(e - k) + 1] = 0
          BY <1>3, <4>1, <4>4, <5>1
        <5> HIDE DEF h
        <5> QED
          BY <1>4, <4>2, <5>1, <5>2
      <4> QED
        BY <4>3, <4>4
    <3> QED
      BY <3>0, <3>1, <3>2, <3>3
  <2>3. ASSUME NEW e \in Nat, e \notin 0..(n - 1)
        PROVE  h[e] = 0
    <3>1. ~(e < k) /\ e - k \in Nat /\ e - k \notin 0..(m - 1)
      BY <2>3
    <3>2. h[e] = hp[e - k]
      BY <3>1
    <3> HIDE DEF h
    <3> QED
      BY <1>3, <3>1, <3>2
  <2> HIDE DEF h
  <2> QED
    BY <2>1, <2>2, <2>3 DEF IsHorner
<1>6. h[0] = mul(power(x, k), hp[0])
  <2>1. CASE k = 0
    <3>1. h[0] = hp[0]
      BY <2>1
    <3> HIDE DEF h
    <3> QED
      BY <1>3, <1>4, <2>1, <3>1
  <2>2. CASE k > 0
    BY <2>2
  <2>3. k = 0 \/ k > 0
    OBVIOUS
  <2> HIDE DEF h
  <2> QED
    BY <2>1, <2>2, <2>3
<1> HIDE DEF h
<1>7. evaluateAt(r, x) = h[0]
  BY <1>1, <1>5, Evaluates
<1> QED
  BY <1>1, <1>2, <1>6, <1>7

\* The value of a single coefficient.
LEMMA EvaluateMonomial ==
  ASSUME NEW n \in Nat, NEW m \in 0..(n - 1), NEW c \in Fr, NEW x \in Fr,
         NEW r, r = [e \in 0..(n - 1) |-> IF e = m THEN c ELSE 0]
  PROVE  /\ r \in [0..(n - 1) -> Fr]
         /\ evaluateAt(r, x) = mul(c, power(x, m))
<1> DEFINE p == [e \in 0..(1 - 1) |-> c]
           h == [e \in Nat |-> IF e = 0 THEN c ELSE 0]
<1>1. p \in [0..(1 - 1) -> Fr] /\ m \in Nat /\ 1 \in Nat /\ m + 1 <= n
  OBVIOUS
<1>2. IsHorner(h, p, 1, x)
  <2>1. h \in [Nat -> Fr]
    BY PIsNat
  <2>2. mul(x, 0) = 0 /\ add(c, 0) = c
    BY ZeroLaws
  <2>3. \A e \in Nat : h[e] = IF e \in 0..(1 - 1) THEN add(p[e], mul(x, h[e + 1])) ELSE 0
    <3>1. ASSUME NEW e \in Nat
          PROVE  h[e] = IF e \in 0..(1 - 1) THEN add(p[e], mul(x, h[e + 1])) ELSE 0
      <4>1. CASE e = 0
        <5>1. h[e] = c /\ h[e + 1] = 0 /\ p[e] = c /\ e \in 0..(1 - 1)
          BY <4>1
        <5> HIDE DEF h, p
        <5> QED
          BY <2>2, <5>1
      <4>2. CASE e # 0
        <5>1. h[e] = 0 /\ e \notin 0..(1 - 1)
          BY <4>2
        <5> HIDE DEF h, p
        <5> QED
          BY <5>1
      <4> QED
        BY <4>1, <4>2
    <3> QED
      BY <3>1
  <2> HIDE DEF h, p
  <2> QED
    BY <2>1, <2>3 DEF IsHorner
<1>3. evaluateAt(p, x) = c
  <2>1. h[0] = c
    OBVIOUS
  <2> HIDE DEF h, p
  <2> QED
    BY <1>1, <1>2, <2>1, Evaluates
<1>4. IsMoved(r, p, n, 1, m)
  <2>1. \A e \in 0..(n - 1) : (e - m \in 0..(1 - 1) <=> e = m) /\ (e = m => p[e - m] = c)
    OBVIOUS
  <2> DEFINE moved(e) == IF e - m \in 0..(1 - 1) THEN p[e - m] ELSE 0
  <2> HIDE DEF p
  <2>2. \A e \in 0..(n - 1) : moved(e) = IF e = m THEN c ELSE 0
    BY <2>1
  <2> HIDE DEF moved
  <2>3. r = [e \in 0..(n - 1) |-> moved(e)]
    BY <2>2
  <2> QED
    BY <2>3 DEF moved, IsMoved
<1>5. r \in [0..(n - 1) -> Fr] /\ evaluateAt(r, x) = mul(power(x, m), evaluateAt(p, x))
  <2> HIDE DEF p
  <2>1. \A t : IsMoved(t, p, n, 1, m) =>
           t \in [0..(n - 1) -> Fr] /\ evaluateAt(t, x) = mul(power(x, m), evaluateAt(p, x))
    BY <1>1, EvaluateShifted
  <2> QED
    BY <1>4, <2>1
<1>6. power(x, m) \in Fr
  BY <1>1, PowerType
<1> QED
  BY <1>3, <1>5, <1>6, MulLaws

\* A polynomial is its first coefficient and x times the others.
LEMMA EvaluateFirst ==
  ASSUME NEW n \in Nat, NEW p \in [0..((n + 1) - 1) -> Fr], NEW x \in Fr
  PROVE  /\ [e \in 0..(n - 1) |-> p[e + 1]] \in [0..(n - 1) -> Fr]
         /\ p[0] \in Fr
         /\ evaluateAt(p, x) = add(p[0], mul(x, evaluateAt([e \in 0..(n - 1) |-> p[e + 1]], x)))
<1> DEFINE s == [e \in 0..(n - 1) |-> p[e + 1]]
<1>1. p[0] \in Fr /\ s \in [0..(n - 1) -> Fr] /\ n + 1 \in Nat /\ 0 \in 0..((n + 1) - 1)
  OBVIOUS
<1>2. PICK hp : IsHorner(hp, p, n + 1, x) /\ evaluateAt(p, x) = hp[0]
  BY <1>1, EvaluateType
<1> DEFINE h == [e \in Nat |-> hp[e + 1]]
<1>3. \A e \in Nat : hp[e] = IF e \in 0..((n + 1) - 1) THEN add(p[e], mul(x, hp[e + 1])) ELSE 0
  BY <1>2 DEF IsHorner
<1>4. IsHorner(h, s, n, x)
  <2>1. h \in [Nat -> Fr]
    BY <1>2 DEF IsHorner
  <2>2. ASSUME NEW e \in Nat
        PROVE  h[e] = IF e \in 0..(n - 1) THEN add(s[e], mul(x, h[e + 1])) ELSE 0
    <3>1. e + 1 \in Nat /\ (e + 1 \in 0..((n + 1) - 1) <=> e \in 0..(n - 1))
      OBVIOUS
    <3>2. h[e] = hp[e + 1] /\ h[e + 1] = hp[(e + 1) + 1]
      BY <3>1
    <3>3. e \in 0..(n - 1) => s[e] = p[e + 1]
      OBVIOUS
    <3> HIDE DEF h, s
    <3> QED
      BY <1>3, <3>1, <3>2, <3>3
  <2> HIDE DEF h, s
  <2> QED
    BY <2>1, <2>2 DEF IsHorner
<1>5. h[0] = hp[1] /\ 0 + 1 = 1
  OBVIOUS
<1> HIDE DEF h, s
<1>6. evaluateAt(s, x) = h[0]
  BY <1>1, <1>4, Evaluates
<1>7. hp[0] = add(p[0], mul(x, hp[0 + 1]))
  BY <1>1, <1>3
<1> QED
  BY <1>1, <1>2, <1>5, <1>6, <1>7 DEF s

\* A polynomial with no coefficients is zero.
LEMMA EvaluateNone ==
  ASSUME NEW p \in [0..(0 - 1) -> Fr], NEW x \in Fr
  PROVE  evaluateAt(p, x) = 0
<1>1. PICK h : IsHorner(h, p, 0, x) /\ evaluateAt(p, x) = h[0]
  BY EvaluateType
<1>2. h[0] = 0
  BY <1>1 DEF IsHorner
<1> QED
  BY <1>1, <1>2

\* r has the coefficients of p, and zeros behind them.
IsWider(r, p, n, m) == \A e \in 0..(m - 1) : r[e] = IF e < n THEN p[e] ELSE 0

\* Zeros behind the coefficients do not change the value.
LEMMA EvaluateWider ==
  ASSUME NEW n \in Nat, NEW m \in Nat, n <= m, NEW p \in [0..(n - 1) -> Fr],
         NEW r \in [0..(m - 1) -> Fr], IsWider(r, p, n, m), NEW x \in Fr
  PROVE  evaluateAt(r, x) = evaluateAt(p, x)
<1>1. IsMoved(r, p, m, n, 0)
  <2>1. \A e \in 0..(m - 1) : e - 0 = e /\ (e < n <=> e \in 0..(n - 1))
    OBVIOUS
  <2>2. \A e \in 0..(m - 1) : r[e] = IF e - 0 \in 0..(n - 1) THEN p[e - 0] ELSE 0
    BY <2>1 DEF IsWider
  <2> QED
    BY <2>2 DEF IsMoved
<1>2. evaluateAt(r, x) = mul(power(x, 0), evaluateAt(p, x))
  <2>1. 0 \in Nat /\ 0 + n <= m
    OBVIOUS
  <2> QED
    BY <1>1, <2>1, EvaluateShifted
<1>3. power(x, 0) = 1 /\ evaluateAt(p, x) \in Fr
  BY PowerStep, EvaluateType
<1> QED
  BY <1>2, <1>3, MulLaws, PIsNat

\* The same with more coefficients.
LEMMA Wider ==
  ASSUME NEW n \in Nat, NEW m \in Nat, n <= m, NEW p \in [0..(n - 1) -> Fr]
  PROVE  \E r \in [0..(m - 1) -> Fr] : \A x \in Fr : evaluateAt(r, x) = evaluateAt(p, x)
<1> DEFINE r == [e \in 0..(m - 1) |-> IF e < n THEN p[e] ELSE 0]
<1>1. r \in [0..(m - 1) -> Fr]
  <2>1. \A e \in 0..(m - 1) : e < n => e \in 0..(n - 1)
    OBVIOUS
  <2> QED
    BY <2>1, PIsNat
<1>2. IsWider(r, p, n, m)
  BY DEF IsWider
<1> HIDE DEF r
<1>3. \A x \in Fr : evaluateAt(r, x) = evaluateAt(p, x)
  BY <1>1, <1>2, EvaluateWider
<1> QED
  BY <1>1, <1>3

\* A constant.
LEMMA Constant ==
  ASSUME NEW n \in Nat \ {0}, NEW c \in Fr
  PROVE  \E r \in [0..(n - 1) -> Fr] : \A x \in Fr : evaluateAt(r, x) = c
<1> DEFINE r == [e \in 0..(n - 1) |-> IF e = 0 THEN c ELSE 0]
<1>1. r \in [0..(n - 1) -> Fr] /\ 0 \in 0..(n - 1) /\ n \in Nat
  BY PIsNat
<1>2. \A x \in Fr : evaluateAt(r, x) = mul(c, power(x, 0))
  <2>1. \A x \in Fr : \A t : t = [e \in 0..(n - 1) |-> IF e = 0 THEN c ELSE 0]
           => evaluateAt(t, x) = mul(c, power(x, 0))
    BY <1>1, EvaluateMonomial
  <2> QED
    BY <2>1
<1> HIDE DEF r
<1>3. \A x \in Fr : power(x, 0) = 1
  BY PowerStep
<1>4. mul(c, 1) = c
  BY ZeroLaws
<1> QED
  BY <1>1, <1>2, <1>3, <1>4

\* A sum.
LEMMA SumOf ==
  ASSUME NEW k \in Nat, NEW n \in 0..k, NEW m \in 0..k,
         NEW p \in [0..(n - 1) -> Fr], NEW q \in [0..(m - 1) -> Fr]
  PROVE  \E r \in [0..(k - 1) -> Fr] :
           \A x \in Fr : evaluateAt(r, x) = add(evaluateAt(p, x), evaluateAt(q, x))
<1>0. n \in Nat /\ n <= k /\ m \in Nat /\ m <= k
  OBVIOUS
<1>1. PICK s \in [0..(k - 1) -> Fr] : \A x \in Fr : evaluateAt(s, x) = evaluateAt(p, x)
  BY <1>0, Wider
<1>2. PICK t \in [0..(k - 1) -> Fr] : \A x \in Fr : evaluateAt(t, x) = evaluateAt(q, x)
  BY <1>0, Wider
<1> DEFINE r == [e \in 0..(k - 1) |-> add(s[e], t[e])]
<1>3. IsSum(r, s, t, k)
  BY DEF IsSum
<1> HIDE DEF r
<1>4. r \in [0..(k - 1) -> Fr]
  BY <1>3, Operations DEF IsSum
<1>5. \A x \in Fr : evaluateAt(r, x) = add(evaluateAt(s, x), evaluateAt(t, x))
  BY <1>3, EvaluateSum
<1> QED
  BY <1>1, <1>2, <1>4, <1>5

\* A sum, of as many coefficients.
LEMMA SumOfBoth ==
  ASSUME NEW k \in Nat, NEW p \in [0..(k - 1) -> Fr], NEW q \in [0..(k - 1) -> Fr]
  PROVE  \E r \in [0..(k - 1) -> Fr] :
           \A x \in Fr : evaluateAt(r, x) = add(evaluateAt(p, x), evaluateAt(q, x))
<1>1. k \in 0..k
  OBVIOUS
<1> QED
  BY <1>1, SumOf

\* A multiple.
LEMMA MultipleOf ==
  ASSUME NEW n \in Nat, NEW p \in [0..(n - 1) -> Fr], NEW c \in Fr
  PROVE  \E r \in [0..(n - 1) -> Fr] :
           \A x \in Fr : evaluateAt(r, x) = mul(c, evaluateAt(p, x))
<1> DEFINE r == [e \in 0..(n - 1) |-> mul(c, p[e])]
<1>1. IsMultiple(r, p, c, n)
  BY DEF IsMultiple
<1> HIDE DEF r
<1>2. r \in [0..(n - 1) -> Fr]
  BY <1>1, Operations DEF IsMultiple
<1>3. \A x \in Fr : evaluateAt(r, x) = mul(c, evaluateAt(p, x))
  BY <1>1, EvaluateMultiple
<1> QED
  BY <1>2, <1>3

\* Times x.
LEMMA TimesX ==
  ASSUME NEW n \in Nat, NEW p \in [0..(n - 1) -> Fr]
  PROVE  \E r \in [0..((n + 1) - 1) -> Fr] :
           \A x \in Fr : evaluateAt(r, x) = mul(x, evaluateAt(p, x))
<1> DEFINE m == n + 1
           r == [e \in 0..(m - 1) |-> IF e - 1 \in 0..(n - 1) THEN p[e - 1] ELSE 0]
<1>1. IsMoved(r, p, m, n, 1)
  BY DEF IsMoved
<1>2. 1 \in Nat /\ 1 + n <= m /\ m \in Nat /\ m = n + 1
  OBVIOUS
<1>3. r \in [0..(m - 1) -> Fr]
  BY PIsNat
<1> HIDE DEF r, m
<1>4. \A x \in Fr : evaluateAt(r, x) = mul(power(x, 1), evaluateAt(p, x))
  BY <1>1, <1>2, EvaluateShifted
<1>5. \A x \in Fr : power(x, 1) = x
  BY <1>2, PowerOfOne
<1> QED
  BY <1>2, <1>3, <1>4, <1>5

\* A difference, as the sum with P - 1 times the other.
LEMMA Minus ==
  ASSUME NEW s \in Fr, NEW t \in Fr
  PROVE  sub(s, t) = add(s, mul(P - 1, t))
<1>1. P - 1 \in Fr /\ add(P - 1, 1) = 0 /\ 1 \in Fr /\ 0 \in Fr
  BY MinusOne, PIsNat
<1> DEFINE u == mul(P - 1, t)
<1>2. u \in Fr
  BY <1>1, Operations
<1>3. add(u, t) = 0
  <2>1. mul(t, add(P - 1, 1)) = add(mul(t, P - 1), mul(t, 1))
    BY <1>1, Distributive
  <2>2. mul(t, P - 1) = u /\ mul(t, 1) = t /\ mul(t, 0) = 0
    BY <1>1, MulLaws, ZeroLaws
  <2> QED
    BY <1>1, <2>1, <2>2
<1> HIDE DEF u
<1>4. add(add(s, u), t) = s
  <2>1. add(s, add(u, t)) = add(add(s, u), t)
    BY <1>2, AddLaws
  <2> QED
    BY <1>3, <2>1, ZeroLaws
<1>5. sub(add(add(s, u), t), t) = add(s, u)
  <2>1. add(s, u) \in Fr
    BY <1>2, Operations
  <2> QED
    BY <2>1, SubLaws
<1> QED
  BY <1>4, <1>5 DEF u

\* A difference.
LEMMA DifferenceOf ==
  ASSUME NEW k \in Nat, NEW n \in 0..k, NEW m \in 0..k,
         NEW p \in [0..(n - 1) -> Fr], NEW q \in [0..(m - 1) -> Fr]
  PROVE  \E r \in [0..(k - 1) -> Fr] :
           \A x \in Fr : evaluateAt(r, x) = sub(evaluateAt(p, x), evaluateAt(q, x))
<1>0. n \in Nat /\ m \in Nat /\ P - 1 \in Fr
  BY MinusOne
<1>1. PICK s \in [0..(m - 1) -> Fr] :
        \A x \in Fr : evaluateAt(s, x) = mul(P - 1, evaluateAt(q, x))
  BY <1>0, MultipleOf
<1>2. PICK r \in [0..(k - 1) -> Fr] :
        \A x \in Fr : evaluateAt(r, x) = add(evaluateAt(p, x), evaluateAt(s, x))
  BY SumOf
<1>3. \A x \in Fr : evaluateAt(p, x) \in Fr /\ evaluateAt(q, x) \in Fr
  BY <1>0, EvaluateType
<1>4. \A x \in Fr : sub(evaluateAt(p, x), evaluateAt(q, x))
                      = add(evaluateAt(p, x), mul(P - 1, evaluateAt(q, x)))
  BY <1>3, Minus
<1> QED
  BY <1>1, <1>2, <1>4

\* A product.
LEMMA ProductOf ==
  ASSUME NEW m \in Nat, NEW q \in [0..(m - 1) -> Fr], NEW n \in Nat, NEW p \in [0..(n - 1) -> Fr]
  PROVE  \E r \in [0..((n + m) - 1) -> Fr] :
           \A x \in Fr : evaluateAt(r, x) = mul(evaluateAt(p, x), evaluateAt(q, x))
<1> DEFINE IsProduct(r, s) ==
             \A x \in Fr : evaluateAt(r, x) = mul(evaluateAt(s, x), evaluateAt(q, x))
           S == {k \in Nat : \A s \in [0..(k - 1) -> Fr] :
                               \E r \in [0..((k + m) - 1) -> Fr] : IsProduct(r, s)}
<1>1. 0 \in S
  <2>1. ASSUME NEW s \in [0..(0 - 1) -> Fr]
        PROVE  \E r \in [0..((0 + m) - 1) -> Fr] : IsProduct(r, s)
    <3>1. \A x \in Fr : evaluateAt(s, x) = 0 /\ evaluateAt(q, x) \in Fr
      BY EvaluateNone, EvaluateType
    <3>2. PICK r \in [0..(m - 1) -> Fr] : \A x \in Fr : evaluateAt(r, x) = mul(0, evaluateAt(q, x))
      BY PIsNat, MultipleOf
    <3>3. 0 + m = m
      OBVIOUS
    <3> QED
      BY <3>1, <3>2, <3>3
  <2> QED
    BY <2>1
<1>2. ASSUME NEW k \in Nat, k \in S
      PROVE  k + 1 \in S
  <2>1. ASSUME NEW s \in [0..((k + 1) - 1) -> Fr]
        PROVE  \E r \in [0..(((k + 1) + m) - 1) -> Fr] : IsProduct(r, s)
    <3> DEFINE t == [e \in 0..(k - 1) |-> s[e + 1]]
               c == s[0]
               l == (k + 1) + m
    <3>1. /\ t \in [0..(k - 1) -> Fr] /\ c \in Fr
          /\ \A x \in Fr : evaluateAt(s, x) = add(c, mul(x, evaluateAt(t, x)))
      <4>1. 0 \in Fr
        BY PIsNat
      <4> QED
        BY <4>1, EvaluateFirst
    <3> HIDE DEF t, c
    <3>2. PICK u \in [0..((k + m) - 1) -> Fr] :
            \A x \in Fr : evaluateAt(u, x) = mul(evaluateAt(t, x), evaluateAt(q, x))
      BY <1>2, <3>1
    <3>3. k + m \in Nat /\ m \in 0..l /\ l \in Nat /\ (k + m) + 1 \in 0..l
      OBVIOUS
    <3>4. PICK v \in [0..(((k + m) + 1) - 1) -> Fr] :
            \A x \in Fr : evaluateAt(v, x) = mul(x, evaluateAt(u, x))
      BY <3>3, TimesX
    <3>5. PICK z \in [0..(m - 1) -> Fr] : \A x \in Fr : evaluateAt(z, x) = mul(c, evaluateAt(q, x))
      BY <3>1, MultipleOf
    <3>6. PICK r \in [0..(l - 1) -> Fr] :
            \A x \in Fr : evaluateAt(r, x) = add(evaluateAt(z, x), evaluateAt(v, x))
      <4> HIDE DEF l
      <4> QED
        BY <3>3, SumOf
    <3>7. ASSUME NEW x \in Fr
          PROVE  evaluateAt(r, x) = mul(evaluateAt(s, x), evaluateAt(q, x))
      <4> DEFINE et == evaluateAt(t, x)
                 eq == evaluateAt(q, x)
      <4>1. et \in Fr /\ eq \in Fr
        BY <3>1, EvaluateType
      <4>2. evaluateAt(r, x) = add(mul(c, eq), mul(x, mul(et, eq)))
        BY <3>2, <3>4, <3>5, <3>6
      <4>3. evaluateAt(s, x) = add(c, mul(x, et))
        BY <3>1
      <4> HIDE DEF et, eq
      <4>4. mul(x, mul(et, eq)) = mul(mul(x, et), eq) /\ mul(x, et) \in Fr
        BY <4>1, MulLaws, Operations
      <4>5. mul(add(c, mul(x, et)), eq) = add(mul(c, eq), mul(mul(x, et), eq))
        <5>1. \A f1, f2, f3 \in Fr : mul(add(f1, f2), f3) = add(mul(f1, f3), mul(f2, f3))
          <6>1. ASSUME NEW f1 \in Fr, NEW f2 \in Fr, NEW f3 \in Fr
                PROVE  mul(add(f1, f2), f3) = add(mul(f1, f3), mul(f2, f3))
            <7>1. mul(f3, add(f1, f2)) = add(mul(f3, f1), mul(f3, f2)) /\ add(f1, f2) \in Fr
              BY Distributive, Operations
            <7> QED
              BY <7>1, MulLaws
          <6> QED
            BY <6>1
        <5> QED
          BY <3>1, <4>1, <4>4, <5>1
      <4> QED
        BY <4>2, <4>3, <4>4, <4>5 DEF eq
    <3> QED
      BY <3>6, <3>7
  <2> QED
    BY <2>1
<1> HIDE DEF S
<1>3. n \in S
  BY <1>1, <1>2, Induction
<1> QED
  BY <1>3 DEF S

\* The polynomial of which x times w is taken.
LEMMA DilationOf ==
  ASSUME NEW w \in Fr, NEW n \in Nat, NEW p \in [0..(n - 1) -> Fr]
  PROVE  \E r \in [0..(n - 1) -> Fr] :
           \A x \in Fr : evaluateAt(r, x) = evaluateAt(p, mul(x, w))
<1> DEFINE IsDilated(r, s) == \A x \in Fr : evaluateAt(r, x) = evaluateAt(s, mul(x, w))
           S == {k \in Nat : \A s \in [0..(k - 1) -> Fr] :
                               \E r \in [0..(k - 1) -> Fr] : IsDilated(r, s)}
<1>0. \A x \in Fr : mul(x, w) \in Fr
  BY Operations
<1>1. 0 \in S
  <2>1. ASSUME NEW s \in [0..(0 - 1) -> Fr]
        PROVE  IsDilated(s, s)
    BY <1>0, EvaluateNone
  <2> HIDE DEF IsDilated
  <2> QED
    BY <2>1
<1>2. ASSUME NEW k \in Nat, k \in S
      PROVE  k + 1 \in S
  <2>1. ASSUME NEW s \in [0..((k + 1) - 1) -> Fr]
        PROVE  \E r \in [0..((k + 1) - 1) -> Fr] : IsDilated(r, s)
    <3> DEFINE t == [e \in 0..(k - 1) |-> s[e + 1]]
               c == s[0]
               l == k + 1
    <3>1. /\ t \in [0..(k - 1) -> Fr] /\ c \in Fr
          /\ \A x \in Fr : evaluateAt(s, x) = add(c, mul(x, evaluateAt(t, x)))
      <4>1. 0 \in Fr
        BY PIsNat
      <4> QED
        BY <4>1, EvaluateFirst
    <3> HIDE DEF t, c
    <3>2. PICK u \in [0..(k - 1) -> Fr] : \A x \in Fr : evaluateAt(u, x) = evaluateAt(t, mul(x, w))
      BY <1>2, <3>1
    <3>3. l \in Nat \ {0} /\ l \in 0..l /\ l \in Nat
      OBVIOUS
    <3>4. PICK y \in [0..(k - 1) -> Fr] : \A x \in Fr : evaluateAt(y, x) = mul(w, evaluateAt(u, x))
      BY MultipleOf
    <3>5. PICK v \in [0..(l - 1) -> Fr] : \A x \in Fr : evaluateAt(v, x) = mul(x, evaluateAt(y, x))
      BY TimesX
    <3>6. PICK z \in [0..(l - 1) -> Fr] : \A x \in Fr : evaluateAt(z, x) = c
      <4> HIDE DEF l
      <4> QED
        BY <3>1, <3>3, Constant
    <3>7. PICK r \in [0..(l - 1) -> Fr] :
            \A x \in Fr : evaluateAt(r, x) = add(evaluateAt(z, x), evaluateAt(v, x))
      <4> HIDE DEF l
      <4> QED
        BY <3>3, SumOfBoth
    <3>8. ASSUME NEW x \in Fr
          PROVE  evaluateAt(r, x) = evaluateAt(s, mul(x, w))
      <4> DEFINE et == evaluateAt(t, mul(x, w))
      <4>1. et \in Fr
        BY <1>0, <3>1, EvaluateType
      <4>2. evaluateAt(r, x) = add(c, mul(x, mul(w, et)))
        BY <3>2, <3>4, <3>5, <3>6, <3>7
      <4>3. evaluateAt(s, mul(x, w)) = add(c, mul(mul(x, w), et))
        BY <1>0, <3>1
      <4> HIDE DEF et
      <4>4. mul(x, mul(w, et)) = mul(mul(x, w), et)
        BY <4>1, MulLaws
      <4> QED
        BY <4>2, <4>3, <4>4
    <3> QED
      BY <3>7, <3>8
  <2> QED
    BY <2>1
<1> HIDE DEF S
<1>3. n \in S
  BY <1>1, <1>2, Induction
<1> QED
  BY <1>3 DEF S

\* A factor that is zero.
LEMMA ZeroFactor ==
  ASSUME NEW s \in Fr
  PROVE  mul(s, 0) = 0 /\ mul(0, s) = 0
<1>1. mul(s, 0) = 0 /\ mul(0, s) = mul(s, 0)
  BY ZeroLaws, MulLaws, PIsNat
<1> QED
  BY <1>1

\* A set of naturals with a bound has a maximum.
LEMMA MaxOf ==
  ASSUME NEW T, T \subseteq Nat, T # {}, NEW k \in Nat, \A e \in T : e <= k
  PROVE  Max(T) \in T /\ \A e \in T : Max(T) >= e
<1> DEFINE D == {d \in Nat : \E e \in T : d = k - e}
<1>1. D \subseteq Nat /\ D # {}
  <2>1. \A e \in T : k - e \in Nat
    OBVIOUS
  <2> QED
    BY <2>1
<1>2. PICK d \in D : \A c \in D : d <= c
  <2> HIDE DEF D
  <2> QED
    BY <1>1, Least
<1>3. PICK m \in T : d = k - m
  OBVIOUS
<1>4. ASSUME NEW e \in T
      PROVE  m >= e
  <2>1. k - e \in D
    OBVIOUS
  <2>2. d <= k - e /\ e \in Nat /\ m \in Nat
    BY <1>2, <2>1
  <2> QED
    BY <1>3, <2>2
<1>5. \E x \in T : \A y \in T : x >= y
  BY <1>4
<1> QED
  BY <1>5 DEF Max

\* The degree is a place of a coefficient, and not one behind the last that is not
\* zero.
LEMMA DegreeIs ==
  ASSUME NEW m \in Nat \ {0}, NEW p, DOMAIN p = 0..(m - 1)
  PROVE  /\ getDegree(p) \in 0..(m - 1)
         /\ \A k \in Nat : (\A e \in 0..(m - 1) : e > k => p[e] = 0) => getDegree(p) <= k
<1> DEFINE T == {0} \cup {e \in DOMAIN p : p[e] # 0}
<1>1. T \subseteq Nat /\ T # {} /\ m - 1 \in Nat /\ T \subseteq 0..(m - 1)
  OBVIOUS
<1>2. \A e \in T : e <= m - 1
  BY <1>1
<1>3. \A e \in T : e = 0 \/ p[e] # 0
  OBVIOUS
<1>4. getDegree(p) = Max(T)
  BY DEF getDegree
<1> HIDE DEF T
<1>5. Max(T) \in T
  BY <1>1, <1>2, MaxOf
<1>6. Max(T) \in 0..(m - 1)
  BY <1>1, <1>5
<1> QED
  BY <1>3, <1>4, <1>5, <1>6

-----------------------------------------------------------------------------
\* What FoldLeft computes, in steps.

\* A fold that takes the elements of S in the order of c, the last one of what is
\* left first.
IsPicking(c, S) == c \in [SUBSET S -> S] /\ \A s \in SUBSET S : s # {} => c[s] \in s
IsLeftFold(g, S, c, h, e, f) ==
  g = [s \in SUBSET S |-> IF s = {} THEN e ELSE h[<<g[s \ {c[s]}], f[c[s]]>>]]

\* There is such a function.
LEMMA LeftFoldExists ==
  ASSUME NEW S, IsFiniteSet(S), NEW c, IsPicking(c, S), NEW A, NEW B, NEW h \in [A \X B -> A],
         NEW e \in A, NEW f \in [S -> B]
  PROVE  \E g \in [SUBSET S -> A] : IsLeftFold(g, S, c, h, e, f)
<1> DEFINE L(k) == {s \in SUBSET S : Cardinality(s) <= k}
           folded(g, s) == IF s = {} THEN e ELSE h[<<g[s \ {c[s]}], f[c[s]]>>]
           K == {k \in Nat : \E g \in [L(k) -> A] : \A s \in L(k) : g[s] = folded(g, s)}
<1>1. \A s \in SUBSET S : IsFiniteSet(s) /\ Cardinality(s) \in Nat
  BY FS_Subset, FS_CardinalityType
<1>2. \A s \in SUBSET S : s # {} =>
        /\ c[s] \in s /\ f[c[s]] \in B
        /\ s \ {c[s]} \in SUBSET S /\ Cardinality(s \ {c[s]}) = Cardinality(s) - 1
  <2> SUFFICES ASSUME NEW s \in SUBSET S, s # {}
               PROVE  /\ c[s] \in s /\ f[c[s]] \in B
                      /\ s \ {c[s]} \in SUBSET S
                      /\ Cardinality(s \ {c[s]}) = Cardinality(s) - 1
    OBVIOUS
  <2>1. c[s] \in s
    BY DEF IsPicking
  <2>2. Cardinality(s \ {c[s]}) = Cardinality(s) - 1
    BY <1>1, <2>1, FS_RemoveElement
  <2> QED
    BY <2>1, <2>2
<1>3. 0 \in K
  <2>1. \A s \in L(0) : s = {}
    BY <1>1, FS_EmptySet
  <2> DEFINE g == [s \in L(0) |-> e]
  <2>2. g \in [L(0) -> A] /\ \A s \in L(0) : g[s] = folded(g, s)
    BY <2>1
  <2> QED
    BY <2>2
<1>4. ASSUME NEW k \in Nat, k \in K
      PROVE  k + 1 \in K
  <2>1. PICK g \in [L(k) -> A] : \A s \in L(k) : g[s] = folded(g, s)
    BY <1>4
  <2> DEFINE g1 == [s \in L(k + 1) |-> folded(g, s)]
  <2>2. \A s \in L(k + 1) : s # {} => s \ {c[s]} \in L(k)
    BY <1>1, <1>2
  <2>3. g1 \in [L(k + 1) -> A]
    <3> SUFFICES ASSUME NEW s \in L(k + 1)
                 PROVE  folded(g, s) \in A
      OBVIOUS
    <3>1. CASE s = {}
      BY <3>1
    <3>2. CASE s # {}
      <4>1. g[s \ {c[s]}] \in A /\ f[c[s]] \in B
        BY <1>2, <2>2, <3>2
      <4> QED
        BY <3>2, <4>1
    <3> QED
      BY <3>1, <3>2
  <2>4. \A s \in L(k) : s \in L(k + 1) /\ g1[s] = g[s]
    BY <1>1, <2>1
  <2>5. \A s \in L(k + 1) : g1[s] = folded(g1, s)
    BY <2>2, <2>4
  <2> HIDE DEF g1, L, folded
  <2>6. \E u \in [L(k + 1) -> A] : \A s \in L(k + 1) : u[s] = folded(u, s)
    BY <2>3, <2>5
  <2> QED
    BY <2>6
<1>5. Cardinality(S) \in K
  <2>1. \A k \in Nat : k \in K
    <3> HIDE DEF K
    <3> QED
      BY <1>3, <1>4, Induction
  <2> QED
    BY <1>1, <2>1
<1>6. L(Cardinality(S)) = SUBSET S
  BY FS_Subset
<1> QED
  BY <1>5, <1>6 DEF IsLeftFold

\* The last place of a part of a sequence.
LEMMA LastPlace ==
  ASSUME NEW n \in Nat
  PROVE  /\ IsFiniteSet(1..n)
         /\ \A s \in SUBSET (1..n) : s # {} => Max(s) \in s
         /\ \A k \in 1..n : Max(1..k) = k /\ (1..k) \ {k} = 1..(k - 1)
<1>1. ASSUME NEW s \in SUBSET (1..n), s # {}
      PROVE  Max(s) \in s
  <2>1. s \subseteq Nat /\ \A e \in s : e <= n
    OBVIOUS
  <2> QED
    BY <1>1, <2>1, MaxOf
<1>2. ASSUME NEW k \in 1..n
      PROVE  Max(1..k) = k
  <2>1. 1..k \subseteq Nat /\ 1..k # {} /\ k \in 1..k /\ k \in Nat /\ \A e \in 1..k : e <= k
    OBVIOUS
  <2>2. Max(1..k) \in 1..k /\ \A e \in 1..k : Max(1..k) >= e
    BY <2>1, MaxOf
  <2> QED
    BY <2>1, <2>2
<1> QED
  BY <1>1, <1>2, FS_Interval

\* What FoldLeft computes on a sequence f, in steps.
IsSteps(t, n, h, e, f) == t[0] = e /\ \A k \in 1..n : t[k] = h[<<t[k - 1], f[k]>>]

\* Of all functions u that do with h what FoldLeft's definition says.
FoldsLeft(u, n, h, e, f) ==
  /\ u[{}] = e
  /\ \A s \in SUBSET (1..n) : s # {} => u[s] = h[<<u[s \ {Max(s)}], f[Max(s)]>>]

IsFoldLeft(g, t, n, h, e, f) ==
  /\ FoldsLeft(g, n, h, e, f) /\ IsSteps(t, n, h, e, f) /\ g[1..n] = t[n]
  /\ \A u : FoldsLeft(u, n, h, e, f) => u[1..n] = t[n]

\* One exists, and any other has the same value of the whole sequence.
LEMMA FoldLeftSteps ==
  ASSUME NEW n \in Nat, NEW A, NEW B, NEW h \in [A \X B -> A], NEW e \in A, NEW f \in [1..n -> B]
  PROVE  \E g \in [SUBSET (1..n) -> A] : \E t \in [0..n -> A] : IsFoldLeft(g, t, n, h, e, f)
<1>1. /\ IsFiniteSet(1..n)
      /\ \A s \in SUBSET (1..n) : s # {} => Max(s) \in s
      /\ \A k \in 1..n : Max(1..k) = k /\ (1..k) \ {k} = 1..(k - 1)
  BY LastPlace
<1> DEFINE S == 1..n
           c == [s \in SUBSET S |-> IF s = {} THEN 1 ELSE Max(s)]
<1>0. CASE n = 0
  <2>1. S = {} /\ SUBSET S = {{}} /\ 1..n = {}
    BY <1>0
  <2> DEFINE g == [s \in SUBSET S |-> e]
             t == [k \in 0..n |-> e]
  <2>2. g \in [SUBSET S -> A] /\ t \in [0..n -> A] /\ g[1..n] = t[n]
    BY <2>1, <1>0
  <2>3. FoldsLeft(g, n, h, e, f) /\ IsSteps(t, n, h, e, f)
    <3>1. g[{}] = e /\ t[0] = e
      BY <1>0
    <3>2. \A s \in SUBSET (1..n) : ~(s # {})
      BY <2>1
    <3>3. \A k \in 1..n : FALSE
      BY <2>1
    <3> HIDE DEF g, t
    <3> QED
      BY <3>1, <3>2, <3>3 DEF FoldsLeft, IsSteps
  <2>4. \A u : FoldsLeft(u, n, h, e, f) => u[1..n] = t[n]
    BY <1>0, <2>1 DEF FoldsLeft
  <2> HIDE DEF g, t
  <2> QED
    BY <2>2, <2>3, <2>4 DEF IsFoldLeft
<1>2. CASE n # 0
  <2>1. IsPicking(c, S)
    <3>1. \A s \in SUBSET S : c[s] \in S
      <4>1. 1 \in S
        BY <1>2
      <4>2. \A s \in SUBSET S : s # {} => Max(s) \in S
        BY <1>1
      <4> HIDE DEF S
      <4> QED
        BY <4>1, <4>2
    <3> QED
      BY <1>1, <3>1 DEF IsPicking
  <2>2. IsFiniteSet(S) /\ f \in [S -> B]
    BY <1>1
  <2>3. PICK g \in [SUBSET S -> A] : IsLeftFold(g, S, c, h, e, f)
    <3> HIDE DEF c, S
    <3> QED
      BY <2>1, <2>2, LeftFoldExists
  <2>4. g[{}] = e /\ \A s \in SUBSET S : s # {} => g[s] = h[<<g[s \ {Max(s)}], f[Max(s)]>>]
    <3>1. \A s \in SUBSET S : s # {} => c[s] = Max(s)
      OBVIOUS
    <3> HIDE DEF c, S
    <3> QED
      BY <2>3, <3>1 DEF IsLeftFold
  <2>5. FoldsLeft(g, n, h, e, f)
    BY <2>4 DEF FoldsLeft
  <2> DEFINE t == [k \in 0..n |-> g[1..k]]
  <2>6. t \in [0..n -> A] /\ t[n] = g[1..n] /\ t[0] = g[1..0] /\ 1..0 = {}
    OBVIOUS
  <2>7. ASSUME NEW k \in 1..n
        PROVE  t[k] = h[<<t[k - 1], f[k]>>]
    <3>1. 1..k \in SUBSET S /\ 1..k # {} /\ k - 1 \in 0..n /\ k \in 0..n
      <4>1. k \in 1..k /\ \A x \in 1..k : x \in 1..n
        OBVIOUS
      <4>2. k - 1 \in 0..n /\ k \in 0..n
        OBVIOUS
      <4> QED
        BY <4>1, <4>2
    <3>2. g[1..k] = h[<<g[1..(k - 1)], f[k]>>]
      <4> HIDE DEF S
      <4> QED
        BY <1>1, <2>4, <3>1
    <3> QED
      BY <3>1, <3>2
  <2>8. IsSteps(t, n, h, e, f)
    <3> HIDE DEF t
    <3> QED
      BY <2>4, <2>6, <2>7 DEF IsSteps
  <2>9. ASSUME NEW u, FoldsLeft(u, n, h, e, f)
        PROVE  u[1..n] = t[n]
    <3> DEFINE Q == {s \in SUBSET S : u[s] = g[s]}
    <3>1. {} \in Q
      BY <2>4, <2>9 DEF FoldsLeft
    <3>2. ASSUME NEW s \in SUBSET S, s # {}, \A x \in s : s \ {x} \in Q
          PROVE  s \in Q
      <4>1. u[s \ {Max(s)}] = g[s \ {Max(s)}]
        BY <1>1, <3>2
      <4>2. u[s] = h[<<u[s \ {Max(s)}], f[Max(s)]>>]
        BY <2>9, <3>2 DEF FoldsLeft
      <4>3. g[s] = h[<<g[s \ {Max(s)}], f[Max(s)]>>]
        BY <2>4, <3>2
      <4> QED
        BY <4>1, <4>2, <4>3
    <3>3. S \in Q
      <4> HIDE DEF Q, S
      <4> QED
        BY <2>2, <3>1, <3>2, SetInduction
    <3> QED
      BY <2>6, <3>3
  <2> HIDE DEF t
  <2> QED
    BY <2>3, <2>5, <2>6, <2>8, <2>9 DEF IsFoldLeft
<1> QED
  BY <1>0, <1>2

\* Polynomials, as class Polynomial has them.
polys == UNION {[0..d -> Fr] : d \in Nat}

\* The polynomials that are multiplied by X - v, for one v after the other.
LEMMA FoldOfProducts ==
  ASSUME NEW n \in Nat, NEW f \in [1..n -> Fr], NEW e \in polys,
         \A p \in polys, v \in Fr : byXSubValue(p, v) \in polys
  PROVE  \E t \in [0..n -> polys] : /\ t[0] = e /\ t[n] = FoldLeft(byXSubValue, e, f)
                                    /\ \A k \in 1..n : t[k] = byXSubValue(t[k - 1], f[k])
<1> DEFINE h == [q \in polys \X Fr |-> byXSubValue(q[1], q[2])]
           G(u) == u = [s \in SUBSET (1..n) |-> IF s = {} THEN e
                                                ELSE byXSubValue(u[s \ {Max(s)}], f[Max(s)])]
           chosen == CHOOSE u : G(u)
<1>1. h \in [polys \X Fr -> polys] /\ \A p \in polys, v \in Fr : h[<<p, v>>] = byXSubValue(p, v)
  OBVIOUS
<1> HIDE DEF h
<1>0. PICK g \in [SUBSET (1..n) -> polys], t \in [0..n -> polys] : IsFoldLeft(g, t, n, h, e, f)
  BY <1>1, FoldLeftSteps
<1>2. FoldsLeft(g, n, h, e, f) /\ IsSteps(t, n, h, e, f) /\ g[1..n] = t[n]
  BY <1>0 DEF IsFoldLeft
<1>3. \A s \in SUBSET (1..n) : s # {} => Max(s) \in s /\ s \ {Max(s)} \in SUBSET (1..n)
  BY LastPlace
<1>4. G(g)
  <2>1. ASSUME NEW s \in SUBSET (1..n), s # {}
        PROVE  g[s] = byXSubValue(g[s \ {Max(s)}], f[Max(s)])
    <3>1. g[s \ {Max(s)}] \in polys /\ f[Max(s)] \in Fr
      BY <1>3, <2>1
    <3>2. g[s] = h[<<g[s \ {Max(s)}], f[Max(s)]>>]
      BY <1>2, <2>1 DEF FoldsLeft
    <3> QED
      BY <1>1, <3>1, <3>2
  <2>2. g[{}] = e
    BY <1>2 DEF FoldsLeft
  <2> QED
    BY <2>1, <2>2
<1>5. G(chosen)
  BY <1>4
<1>6. FoldLeft(byXSubValue, e, f) = chosen[1..n]
  BY DEF FoldLeft, MapThenFoldSet
<1>7. chosen[1..n] = t[n]
  <2> HIDE DEF chosen
  <2> DEFINE Q == {s \in SUBSET (1..n) : chosen[s] = g[s]}
  <2>1. {} \in Q
    BY <1>4, <1>5
  <2>2. ASSUME NEW s \in SUBSET (1..n), s # {}, \A x \in s : s \ {x} \in Q
        PROVE  s \in Q
    <3>1. chosen[s \ {Max(s)}] = g[s \ {Max(s)}]
      BY <1>3, <2>2
    <3>2. chosen[s] = byXSubValue(chosen[s \ {Max(s)}], f[Max(s)])
      BY <1>5, <2>2
    <3>3. g[s] = byXSubValue(g[s \ {Max(s)}], f[Max(s)])
      BY <1>4, <2>2
    <3> QED
      BY <3>1, <3>2, <3>3
  <2>3. IsFiniteSet(1..n)
    BY FS_Interval
  <2>4. 1..n \in Q
    <3> HIDE DEF Q
    <3> QED
      BY <2>1, <2>2, <2>3, SetInduction
  <2> QED
    BY <1>2, <2>4
<1>9. ASSUME NEW k \in 1..n
      PROVE  t[k] = byXSubValue(t[k - 1], f[k])
  <2>1. t[k - 1] \in polys /\ f[k] \in Fr
    OBVIOUS
  <2> QED
    BY <1>1, <1>2, <2>1 DEF IsSteps
<1> QED
  BY <1>2, <1>6, <1>7, <1>9 DEF IsSteps

\* The polynomials that are added, one after the other.
LEMMA FoldOfSums ==
  ASSUME NEW n \in Nat, NEW f \in [1..n -> polys], NEW e \in polys,
         \A p \in polys, v \in polys : plus(p, v) \in polys
  PROVE  \E t \in [0..n -> polys] : /\ t[0] = e /\ t[n] = FoldLeft(plus, e, f)
                                    /\ \A k \in 1..n : t[k] = plus(t[k - 1], f[k])
<1> DEFINE h == [q \in polys \X polys |-> plus(q[1], q[2])]
           G(u) == u = [s \in SUBSET (1..n) |-> IF s = {} THEN e
                                                ELSE plus(u[s \ {Max(s)}], f[Max(s)])]
           chosen == CHOOSE u : G(u)
<1>1. h \in [polys \X polys -> polys] /\ \A p \in polys, v \in polys : h[<<p, v>>] = plus(p, v)
  OBVIOUS
<1> HIDE DEF h
<1>0. PICK g \in [SUBSET (1..n) -> polys], t \in [0..n -> polys] : IsFoldLeft(g, t, n, h, e, f)
  BY <1>1, FoldLeftSteps
<1>2. FoldsLeft(g, n, h, e, f) /\ IsSteps(t, n, h, e, f) /\ g[1..n] = t[n]
  BY <1>0 DEF IsFoldLeft
<1>3. \A s \in SUBSET (1..n) : s # {} => Max(s) \in s /\ s \ {Max(s)} \in SUBSET (1..n)
  BY LastPlace
<1>4. G(g)
  <2>1. ASSUME NEW s \in SUBSET (1..n), s # {}
        PROVE  g[s] = plus(g[s \ {Max(s)}], f[Max(s)])
    <3>1. g[s \ {Max(s)}] \in polys /\ f[Max(s)] \in polys
      BY <1>3, <2>1
    <3>2. g[s] = h[<<g[s \ {Max(s)}], f[Max(s)]>>]
      BY <1>2, <2>1 DEF FoldsLeft
    <3> QED
      BY <1>1, <3>1, <3>2
  <2>2. g[{}] = e
    BY <1>2 DEF FoldsLeft
  <2> QED
    BY <2>1, <2>2
<1>5. G(chosen)
  BY <1>4
<1>6. FoldLeft(plus, e, f) = chosen[1..n]
  BY DEF FoldLeft, MapThenFoldSet
<1>7. chosen[1..n] = t[n]
  <2> HIDE DEF chosen
  <2> DEFINE Q == {s \in SUBSET (1..n) : chosen[s] = g[s]}
  <2>1. {} \in Q
    BY <1>4, <1>5
  <2>2. ASSUME NEW s \in SUBSET (1..n), s # {}, \A x \in s : s \ {x} \in Q
        PROVE  s \in Q
    <3>1. chosen[s \ {Max(s)}] = g[s \ {Max(s)}]
      BY <1>3, <2>2
    <3>2. chosen[s] = plus(chosen[s \ {Max(s)}], f[Max(s)])
      BY <1>5, <2>2
    <3>3. g[s] = plus(g[s \ {Max(s)}], f[Max(s)])
      BY <1>4, <2>2
    <3> QED
      BY <3>1, <3>2, <3>3
  <2>3. IsFiniteSet(1..n)
    BY FS_Interval
  <2>4. 1..n \in Q
    <3> HIDE DEF Q
    <3> QED
      BY <2>1, <2>2, <2>3, SetInduction
  <2> QED
    BY <1>2, <2>4
<1>9. ASSUME NEW k \in 1..n
      PROVE  t[k] = plus(t[k - 1], f[k])
  <2>1. t[k - 1] \in polys /\ f[k] \in polys
    OBVIOUS
  <2> QED
    BY <1>1, <1>2, <2>1 DEF IsSteps
<1> QED
  BY <1>2, <1>6, <1>7, <1>9 DEF IsSteps

-----------------------------------------------------------------------------
\* The operations of class Polynomial, by their values.

\* A polynomial has a degree, and zeros behind it.
LEMMA PolynomialIs ==
  ASSUME NEW p \in polys
  PROVE  /\ \E d \in Nat : p \in [0..d -> Fr] /\ getDegree(p) \in 0..d
         /\ getDegree(p) \in Nat
         /\ \A e \in Int : coef(p, e) \in Fr /\ (e > getDegree(p) => coef(p, e) = 0)
<1>1. PICK d \in Nat : p \in [0..d -> Fr]
  BY DEF polys
<1> DEFINE T == {0} \cup {e \in DOMAIN p : p[e] # 0}
<1>2. T \subseteq Nat /\ T # {} /\ (\A e \in T : e <= d) /\ DOMAIN p = 0..d
  BY <1>1
<1>3. getDegree(p) = Max(T)
  BY DEF getDegree
<1>4. \A e \in DOMAIN p : p[e] # 0 => e \in T
  OBVIOUS
<1> HIDE DEF T
<1>5. Max(T) \in T /\ \A e \in T : Max(T) >= e
  BY <1>2, MaxOf
<1>6. getDegree(p) \in 0..d
  <2>1. Max(T) \in Nat /\ Max(T) <= d
    BY <1>2, <1>5
  <2> QED
    BY <1>3, <2>1
<1>7. 0 \in Fr
  BY PIsNat
<1>8. ASSUME NEW e \in Int
      PROVE  coef(p, e) \in Fr /\ (e > getDegree(p) => coef(p, e) = 0)
  <2>1. CASE e \notin DOMAIN p
    BY <1>7, <2>1 DEF coef
  <2>2. CASE e \in DOMAIN p
    <3>1. coef(p, e) = p[e] /\ p[e] \in Fr
      BY <1>1, <2>2 DEF coef
    <3>2. p[e] # 0 => Max(T) >= e
      BY <1>4, <1>5, <2>2
    <3>3. Max(T) \in Nat
      BY <1>2, <1>5
    <3> QED
      BY <1>3, <3>1, <3>2, <3>3
  <2> QED
    BY <2>1, <2>2
<1> QED
  BY <1>1, <1>6, <1>8

\* A function on 0..m is a polynomial, and of a degree below the zeros behind it.
LEMMA IsPolynomial ==
  ASSUME NEW m \in Nat, NEW r \in [0..m -> Fr]
  PROVE  /\ r \in polys /\ getDegree(r) \in 0..m
         /\ \A k \in Nat : (\A e \in 0..m : e > k => r[e] = 0) => getDegree(r) <= k
<1>1. r \in polys
  BY DEF polys
<1>2. DOMAIN r = 0..((m + 1) - 1) /\ m + 1 \in Nat \ {0} /\ (m + 1) - 1 = m
  OBVIOUS
<1>3. /\ getDegree(r) \in 0..((m + 1) - 1)
      /\ \A k \in Nat : (\A e \in 0..((m + 1) - 1) : e > k => r[e] = 0) => getDegree(r) <= k
  BY <1>2, DegreeIs
<1> QED
  BY <1>1, <1>2, <1>3

\* The coefficients up to the degree at least, in an array of their own.
LEMMA EvaluateCoefs ==
  ASSUME NEW p \in polys, NEW m \in Nat, getDegree(p) <= m, NEW x \in Fr,
         NEW r, r = [e \in 0..m |-> coef(p, e)]
  PROVE  r \in [0..m -> Fr] /\ evaluateAt(r, x) = evaluateAt(p, x)
<1>1. PICK d \in Nat : p \in [0..d -> Fr] /\ getDegree(p) \in 0..d
  BY PolynomialIs
<1>2. \A e \in Int : coef(p, e) \in Fr /\ (e > getDegree(p) => coef(p, e) = 0)
  BY PolynomialIs
<1>3. r \in [0..m -> Fr]
  BY <1>2
<1> DEFINE k == IF m >= d THEN m ELSE d
           u == [e \in 0..k |-> coef(p, e)]
<1>4. k \in Nat /\ m <= k /\ d <= k
  BY <1>1
<1> HIDE DEF k
<1>5. u \in [0..k -> Fr]
  BY <1>2, <1>4
<1>6. IsWider(u, p, d + 1, k + 1)
  <2>1. \A e \in 0..k : u[e] = IF e < d + 1 THEN p[e] ELSE 0
    BY <1>1, <1>4 DEF coef
  <2> HIDE DEF u
  <2> QED
    BY <1>4, <2>1 DEF IsWider
<1>7. IsWider(u, r, m + 1, k + 1)
  <2>1. \A e \in 0..k : u[e] = IF e < m + 1 THEN r[e] ELSE 0
    <3>1. getDegree(p) \in Nat
      BY <1>1
    <3> QED
      BY <1>2, <1>4, <3>1
  <2> HIDE DEF u
  <2> QED
    BY <1>4, <2>1 DEF IsWider
<1> HIDE DEF u
<1>8. /\ d + 1 \in Nat /\ m + 1 \in Nat /\ k + 1 \in Nat /\ d + 1 <= k + 1 /\ m + 1 <= k + 1
      /\ p \in [0..((d + 1) - 1) -> Fr] /\ r \in [0..((m + 1) - 1) -> Fr]
      /\ u \in [0..((k + 1) - 1) -> Fr]
  BY <1>1, <1>3, <1>4, <1>5
<1>9. evaluateAt(u, x) = evaluateAt(p, x)
  BY <1>6, <1>8, EvaluateWider
<1>10. evaluateAt(u, x) = evaluateAt(r, x)
  BY <1>7, <1>8, EvaluateWider
<1> QED
  BY <1>3, <1>9, <1>10

\* The value of a polynomial is an element.
LEMMA ValueType ==
  ASSUME NEW p \in polys, NEW x \in Fr
  PROVE  evaluateAt(p, x) \in Fr
<1>1. PICK d \in Nat : p \in [0..d -> Fr]
  BY DEF polys
<1>2. d + 1 \in Nat /\ p \in [0..((d + 1) - 1) -> Fr]
  BY <1>1
<1> QED
  BY <1>2, EvaluateType

\* The larger of two degrees.
LEMMA LargerDegree ==
  ASSUME NEW m \in Nat, NEW n \in Nat
  PROVE  Max({m, n}) \in Nat /\ m <= Max({m, n}) /\ n <= Max({m, n}) /\ Max({m, n}) \in {m, n}
<1> DEFINE k == IF m >= n THEN m ELSE n
<1>1. {m, n} \subseteq Nat /\ {m, n} # {} /\ k \in Nat /\ \A e \in {m, n} : e <= k
  OBVIOUS
<1> HIDE DEF k
<1>2. Max({m, n}) \in {m, n} /\ \A e \in {m, n} : Max({m, n}) >= e
  BY <1>1, MaxOf
<1> QED
  BY <1>2

\* The value of a sum, and its degree.
LEMMA PlusIs ==
  ASSUME NEW p \in polys, NEW q \in polys
  PROVE  /\ plus(p, q) \in polys
         /\ getDegree(plus(p, q)) \in 0..Max({getDegree(p), getDegree(q)})
         /\ \A x \in Fr : evaluateAt(plus(p, q), x) = add(evaluateAt(p, x), evaluateAt(q, x))
<1> DEFINE m == Max({getDegree(p), getDegree(q)})
           u == [e \in 0..m |-> coef(p, e)]
           v == [e \in 0..m |-> coef(q, e)]
           r == [e \in 0..m |-> add(u[e], v[e])]
<1>1. m \in Nat /\ getDegree(p) <= m /\ getDegree(q) <= m
  BY PolynomialIs, LargerDegree
<1>2. plus(p, q) = r
  BY DEF plus
<1> HIDE DEF m
<1>3. ASSUME NEW x \in Fr
      PROVE  /\ u \in [0..m -> Fr] /\ evaluateAt(u, x) = evaluateAt(p, x)
             /\ v \in [0..m -> Fr] /\ evaluateAt(v, x) = evaluateAt(q, x)
  BY <1>1, EvaluateCoefs
<1>4. 0 \in Fr /\ m + 1 \in Nat /\ (m + 1) - 1 = m
  BY <1>1, PIsNat
<1>5. IsSum(r, u, v, m + 1)
  BY <1>4 DEF IsSum
<1> HIDE DEF u, v, r
<1>6. ASSUME NEW x \in Fr
      PROVE  /\ r \in [0..m -> Fr]
             /\ evaluateAt(r, x) = add(evaluateAt(p, x), evaluateAt(q, x))
  <2>1. u \in [0..((m + 1) - 1) -> Fr] /\ v \in [0..((m + 1) - 1) -> Fr]
    BY <1>3, <1>4
  <2>2. r \in [0..((m + 1) - 1) -> Fr] /\ evaluateAt(r, x) = add(evaluateAt(u, x), evaluateAt(v, x))
    BY <1>4, <1>5, <2>1, EvaluateSum
  <2> QED
    BY <1>3, <1>4, <2>2
<1>7. r \in [0..m -> Fr]
  BY <1>4, <1>6
<1>8. r \in polys /\ getDegree(r) \in 0..m
  BY <1>1, <1>7, IsPolynomial
<1> QED
  BY <1>2, <1>6, <1>8 DEF m

\* The value of a difference of arrays.
IsDifference(r, p, q, n) == r = [e \in 0..(n - 1) |-> sub(p[e], q[e])]

\* It is the difference of the values.
LEMMA EvaluateDifference ==
  ASSUME NEW n \in Nat, NEW p \in [0..(n - 1) -> Fr], NEW q \in [0..(n - 1) -> Fr], NEW x \in Fr,
         NEW r, IsDifference(r, p, q, n)
  PROVE  /\ r \in [0..(n - 1) -> Fr]
         /\ evaluateAt(r, x) = sub(evaluateAt(p, x), evaluateAt(q, x))
<1>1. r \in [0..(n - 1) -> Fr]
  BY Operations DEF IsDifference
<1>2. IsSum(p, r, q, n)
  <2>1. \A e \in 0..(n - 1) : p[e] = add(r[e], q[e])
    BY SubLaws DEF IsDifference
  <2>2. p = [e \in 0..(n - 1) |-> add(r[e], q[e])]
    BY <2>1
  <2> QED
    BY <2>2 DEF IsSum
<1>3. evaluateAt(p, x) = add(evaluateAt(r, x), evaluateAt(q, x))
  BY <1>1, <1>2, EvaluateSum
<1>4. evaluateAt(r, x) \in Fr /\ evaluateAt(q, x) \in Fr
  BY <1>1, EvaluateType
<1> QED
  BY <1>1, <1>3, <1>4, SubLaws

\* The value of the difference of polynomials, and its degree.
LEMMA MinusIs ==
  ASSUME NEW p \in polys, NEW q \in polys
  PROVE  /\ minus(p, q) \in polys
         /\ getDegree(minus(p, q)) \in 0..Max({getDegree(p), getDegree(q)})
         /\ \A x \in Fr : evaluateAt(minus(p, q), x) = sub(evaluateAt(p, x), evaluateAt(q, x))
<1> DEFINE m == Max({getDegree(p), getDegree(q)})
           u == [e \in 0..m |-> coef(p, e)]
           v == [e \in 0..m |-> coef(q, e)]
           r == [e \in 0..m |-> sub(u[e], v[e])]
<1>1. m \in Nat /\ getDegree(p) <= m /\ getDegree(q) <= m
  BY PolynomialIs, LargerDegree
<1>2. minus(p, q) = r
  BY DEF minus
<1> HIDE DEF m
<1>3. ASSUME NEW x \in Fr
      PROVE  /\ u \in [0..m -> Fr] /\ evaluateAt(u, x) = evaluateAt(p, x)
             /\ v \in [0..m -> Fr] /\ evaluateAt(v, x) = evaluateAt(q, x)
  BY <1>1, EvaluateCoefs
<1>4. 0 \in Fr /\ m + 1 \in Nat /\ (m + 1) - 1 = m
  BY <1>1, PIsNat
<1>5. IsDifference(r, u, v, m + 1)
  BY <1>4 DEF IsDifference
<1> HIDE DEF u, v, r
<1>6. ASSUME NEW x \in Fr
      PROVE  /\ r \in [0..m -> Fr]
             /\ evaluateAt(r, x) = sub(evaluateAt(p, x), evaluateAt(q, x))
  <2>1. u \in [0..((m + 1) - 1) -> Fr] /\ v \in [0..((m + 1) - 1) -> Fr]
    BY <1>3, <1>4
  <2>2. r \in [0..((m + 1) - 1) -> Fr] /\ evaluateAt(r, x) = sub(evaluateAt(u, x), evaluateAt(v, x))
    BY <1>4, <1>5, <2>1, EvaluateDifference
  <2> QED
    BY <1>3, <1>4, <2>2
<1>7. r \in [0..m -> Fr]
  BY <1>4, <1>6
<1>8. r \in polys /\ getDegree(r) \in 0..m
  BY <1>1, <1>7, IsPolynomial
<1> QED
  BY <1>2, <1>6, <1>8 DEF m

\* The value of a multiple, and its degree.
LEMMA MulScalarIs ==
  ASSUME NEW p \in polys, NEW c \in Fr
  PROVE  /\ mulScalar(p, c) \in polys
         /\ getDegree(mulScalar(p, c)) \in 0..getDegree(p)
         /\ \A x \in Fr : evaluateAt(mulScalar(p, c), x) = mul(c, evaluateAt(p, x))
<1>1. PICK d \in Nat : p \in [0..d -> Fr] /\ getDegree(p) \in 0..d
  BY PolynomialIs
<1> DEFINE r == mulScalar(p, c)
<1>2. d + 1 \in Nat /\ (d + 1) - 1 = d /\ p \in [0..((d + 1) - 1) -> Fr] /\ 0 \in Fr /\ d \in Nat
  BY <1>1, PIsNat
<1>3. IsMultiple(r, p, c, d + 1)
  <2>1. \A e \in 0..d : p[e] \in Fr /\ mul(p[e], c) = mul(c, p[e])
    BY <1>1, MulLaws
  <2>2. r = [e \in 0..d |-> mul(p[e], c)]
    BY <1>1 DEF mulScalar
  <2> QED
    BY <1>2, <2>1, <2>2 DEF IsMultiple
<1> HIDE DEF r
<1>4. \A x \in Fr : /\ r \in [0..((d + 1) - 1) -> Fr]
                    /\ evaluateAt(r, x) = mul(c, evaluateAt(p, x))
  BY <1>2, <1>3, EvaluateMultiple
<1>5. r \in [0..d -> Fr]
  BY <1>2, <1>4
<1>6. \A e \in 0..d : e > getDegree(p) => r[e] = 0
  <2> SUFFICES ASSUME NEW e \in 0..d, e > getDegree(p)
               PROVE  r[e] = 0
    OBVIOUS
  <2>1. p[e] = 0
    <3>1. coef(p, e) = p[e] /\ e \in Int
      BY <1>1 DEF coef
    <3> QED
      BY <3>1, PolynomialIs
  <2>2. r[e] = mul(c, 0)
    BY <1>2, <1>3, <2>1 DEF IsMultiple
  <2> QED
    BY <2>2, ZeroLaws
<1>7. r \in polys /\ getDegree(r) \in Nat /\ getDegree(r) <= getDegree(p)
  <2>1. getDegree(p) \in Nat
    BY <1>1
  <2> QED
    BY <1>2, <1>5, <1>6, <2>1, IsPolynomial
<1> QED
  BY <1>1, <1>4, <1>7 DEF r

-----------------------------------------------------------------------------
\* Zerofiers.

\* Multiplication by X - v.
LEMMA DifferenceTimes ==
  ASSUME NEW x \in Fr, NEW v \in Fr, NEW y \in Fr
  PROVE  sub(mul(x, y), mul(v, y)) = mul(sub(x, v), y)
<1>1. sub(x, v) \in Fr /\ add(sub(x, v), v) = x
  BY Operations, SubLaws
<1> DEFINE s == sub(x, v)
<1>2. mul(x, y) = add(mul(s, y), mul(v, y))
  <2>1. mul(y, add(s, v)) = add(mul(y, s), mul(y, v))
    BY <1>1, Distributive
  <2>2. mul(y, s) = mul(s, y) /\ mul(y, v) = mul(v, y) /\ mul(y, x) = mul(x, y)
    BY <1>1, MulLaws
  <2> QED
    BY <1>1, <2>1, <2>2
<1>3. mul(s, y) \in Fr /\ mul(v, y) \in Fr
  BY <1>1, Operations
<1> QED
  BY <1>2, <1>3, SubLaws

\* The value of a product with X - v, and its degree.
LEMMA ByXIs ==
  ASSUME NEW p \in polys, NEW v \in Fr
  PROVE  /\ byXSubValue(p, v) \in polys
         /\ getDegree(byXSubValue(p, v)) \in 0..(getDegree(p) + 1)
         /\ \A x \in Fr : evaluateAt(byXSubValue(p, v), x) = mul(sub(x, v), evaluateAt(p, x))
<1> DEFINE m == getDegree(p)
           u == [e \in 0..m |-> coef(p, e)]
           moved == [e \in 0..((m + 2) - 1) |-> IF e - 1 \in 0..((m + 1) - 1) THEN u[e - 1] ELSE 0]
           wide == [e \in 0..(m + 1) |-> coef(p, e)]
           scaled == [e \in 0..((m + 2) - 1) |-> mul(v, wide[e])]
           r == byXSubValue(p, v)
<1>1. m \in Nat /\ m + 2 \in Nat /\ m + 1 \in Nat /\ (m + 1) - 1 = m /\ (m + 2) - 1 = m + 1 /\ 1 \in Nat
  BY PolynomialIs
<1>2. \A e \in Int : coef(p, e) \in Fr /\ (e > m => coef(p, e) = 0)
  BY PolynomialIs
<1>3. r = [e \in 0..(m + 1) |-> sub(coef(p, e - 1), mul(v, coef(p, e)))]
  BY DEF byXSubValue
<1> HIDE DEF m
<1>4. coef(p, -1) = 0
  BY PolynomialIs DEF coef
<1>5. IsDifference(r, moved, scaled, m + 2)
  <2>1. \A e \in 0..(m + 1) : moved[e] = coef(p, e - 1)
    <3> SUFFICES ASSUME NEW e \in 0..(m + 1)
                 PROVE  moved[e] = coef(p, e - 1)
      OBVIOUS
    <3>1. CASE e = 0
      BY <1>1, <1>4, <3>1
    <3>2. CASE e # 0
      <4>1. e - 1 \in 0..m
        BY <1>1, <3>2
      <4> QED
        BY <1>1, <4>1
    <3> QED
      BY <3>1, <3>2
  <2>2. \A e \in 0..(m + 1) : scaled[e] = mul(v, coef(p, e))
    BY <1>1
  <2> HIDE DEF moved, scaled, r
  <2>3. r = [e \in 0..(m + 1) |-> sub(moved[e], scaled[e])]
    BY <1>3, <2>1, <2>2
  <2> QED
    BY <1>1, <2>3 DEF IsDifference
<1>6. IsMoved(moved, u, m + 2, m + 1, 1)
  BY DEF IsMoved
<1>7. IsMultiple(scaled, wide, v, m + 2)
  BY DEF IsMultiple
<1>8. u \in [0..m -> Fr] /\ wide \in [0..(m + 1) -> Fr]
  BY <1>1, <1>2
<1>9. ASSUME NEW x \in Fr
      PROVE  evaluateAt(u, x) = evaluateAt(p, x) /\ evaluateAt(wide, x) = evaluateAt(p, x)
  <2>1. getDegree(p) <= m /\ getDegree(p) <= m + 1
    BY <1>1 DEF m
  <2> QED
    BY <1>1, <2>1, EvaluateCoefs
<1> HIDE DEF u, wide, moved, scaled, r
<1>10. ASSUME NEW x \in Fr
       PROVE  /\ r \in [0..(m + 1) -> Fr]
              /\ evaluateAt(r, x) = mul(sub(x, v), evaluateAt(p, x))
  <2>1. u \in [0..((m + 1) - 1) -> Fr] /\ wide \in [0..((m + 2) - 1) -> Fr] /\ 1 + (m + 1) <= m + 2
    BY <1>1, <1>8
  <2>2. /\ moved \in [0..((m + 2) - 1) -> Fr]
        /\ evaluateAt(moved, x) = mul(power(x, 1), evaluateAt(u, x))
    BY <1>1, <1>6, <2>1, EvaluateShifted
  <2>3. /\ scaled \in [0..((m + 2) - 1) -> Fr]
        /\ evaluateAt(scaled, x) = mul(v, evaluateAt(wide, x))
    BY <1>1, <1>7, <2>1, EvaluateMultiple
  <2>4. /\ r \in [0..((m + 2) - 1) -> Fr]
        /\ evaluateAt(r, x) = sub(evaluateAt(moved, x), evaluateAt(scaled, x))
    BY <1>1, <1>5, <2>2, <2>3, EvaluateDifference
  <2>5. power(x, 1) = x
    BY PowerOfOne
  <2>6. evaluateAt(p, x) \in Fr
    BY ValueType
  <2>7. sub(mul(x, evaluateAt(p, x)), mul(v, evaluateAt(p, x))) = mul(sub(x, v), evaluateAt(p, x))
    BY <2>6, DifferenceTimes
  <2> QED
    BY <1>1, <1>9, <2>2, <2>3, <2>4, <2>5, <2>7
<1>11. r \in polys /\ getDegree(r) \in 0..(m + 1)
  <2>1. r \in [0..(m + 1) -> Fr]
    BY <1>10, PIsNat
  <2> QED
    BY <1>1, <2>1, IsPolynomial
<1> QED
  BY <1>10, <1>11 DEF m, r

\* A constant.
LEMMA ConstantIs ==
  ASSUME NEW r \in [0..0 -> Fr]
  PROVE  r \in polys /\ getDegree(r) = 0 /\ \A x \in Fr : evaluateAt(r, x) = r[0]
<1>1. r \in polys /\ getDegree(r) = 0
  <2>1. r \in polys /\ getDegree(r) \in 0..0
    BY IsPolynomial
  <2> QED
    BY <2>1
<1>2. ASSUME NEW x \in Fr
      PROVE  evaluateAt(r, x) = r[0]
  <2> DEFINE u == [e \in 0..(0 - 1) |-> r[e + 1]]
  <2>1. 0 \in Nat /\ r \in [0..((0 + 1) - 1) -> Fr]
    OBVIOUS
  <2>2. /\ u \in [0..(0 - 1) -> Fr] /\ r[0] \in Fr
        /\ evaluateAt(r, x) = add(r[0], mul(x, evaluateAt(u, x)))
    BY <2>1, EvaluateFirst
  <2> HIDE DEF u
  <2>3. evaluateAt(u, x) = 0
    BY <2>2, EvaluateNone
  <2> QED
    BY <2>2, <2>3, ZeroLaws
<1> QED
  BY <1>1, <1>2

\* A product of one factor more,
LEMMA ProductOfNext ==
  ASSUME NEW n \in Nat, NEW g \in [1..(n + 1) -> Fr], NEW h, h = [k \in 1..n |-> g[k]]
  PROVE  product(h) \in Fr /\ product(g) = mul(g[n + 1], product(h))
<1>1. h \in [1..n -> Fr] /\ IsFiniteSet(1..n) /\ IsFiniteSet(1..(n + 1)) /\ n + 1 \in 1..(n + 1)
  BY FS_Interval
<1>2. Restrict(g, (1..(n + 1)) \ {n + 1}) = h
  <2>1. (1..(n + 1)) \ {n + 1} = 1..n
    OBVIOUS
  <2> QED
    BY <2>1 DEF Restrict
<1> QED
  BY <1>1, <1>2, ProductLaws

\* and of none.
LEMMA ProductOfNone ==
  ASSUME NEW h \in [1..0 -> Fr]
  PROVE  product(h) = 1
<1>1. 1..0 = {} /\ IsFiniteSet({})
  BY FS_EmptySet
<1> QED
  BY <1>1, ProductLaws

\* It is zero if a factor is, and only then.
LEMMA ProductIsZero ==
  ASSUME NEW S, IsFiniteSet(S), NEW g \in [S -> Fr]
  PROVE  product(g) = 0 <=> \E k \in S : g[k] = 0
<1>1. ASSUME NEW k \in S, g[k] = 0
      PROVE  product(g) = 0
  <2> DEFINE rest == Restrict(g, S \ {k})
  <2>1. rest \in [S \ {k} -> Fr] /\ IsFiniteSet(S \ {k})
    BY FS_Subset DEF Restrict
  <2>2. product(g) = mul(g[k], product(rest))
    BY ProductLaws
  <2> HIDE DEF rest
  <2>3. product(rest) \in Fr
    BY <2>1, ProductLaws
  <2> QED
    BY <1>1, <2>2, <2>3, ZeroFactor
<1>2. ASSUME \A k \in S : g[k] # 0
      PROVE  product(g) # 0
  <2>1. g \in [S -> Fr \ {0}]
    BY <1>2
  <2> QED
    BY <2>1, ProductNotZero
<1> QED
  BY <1>1, <1>2

\* The zerofier of some elements is the product of the differences to them.
LEMMA ZerofierIs ==
  ASSUME NEW n \in Nat, NEW s \in [1..n -> Fr]
  PROVE  /\ zerofierPolynomial(s) \in polys
         /\ getDegree(zerofierPolynomial(s)) \in 0..n
         /\ \A x \in Fr : evaluateAt(zerofierPolynomial(s), x) = product([k \in 1..n |-> sub(x, s[k])])
<1> DEFINE one == [e \in {0} |-> 1]
<1>1. one \in [0..0 -> Fr] /\ one[0] = 1
  BY PIsNat
<1>2. zerofierPolynomial(s) = FoldLeft(byXSubValue, one, s)
  BY DEF zerofierPolynomial
<1> HIDE DEF one
<1>3. one \in polys /\ getDegree(one) = 0 /\ \A x \in Fr : evaluateAt(one, x) = 1
  BY <1>1, ConstantIs
<1>4. \A p \in polys, v \in Fr : byXSubValue(p, v) \in polys
  BY ByXIs
<1>5. PICK t \in [0..n -> polys] :
        /\ t[0] = one /\ t[n] = FoldLeft(byXSubValue, one, s)
        /\ \A k \in 1..n : t[k] = byXSubValue(t[k - 1], s[k])
  BY <1>3, <1>4, FoldOfProducts
<1> DEFINE differencesOf(k, x) == [j \in 1..k |-> sub(x, s[j])]
           Good(k) == /\ getDegree(t[k]) \in 0..k
                      /\ \A x \in Fr : evaluateAt(t[k], x) = product(differencesOf(k, x))
           K == {k \in Nat : k <= n => Good(k)}
<1>6. \A x \in Fr : \A k \in 0..n : differencesOf(k, x) \in [1..k -> Fr]
  BY Operations
<1>7. 0 \in K
  <2>1. 0 \in 0..n /\ getDegree(t[0]) \in 0..0
    BY <1>3, <1>5
  <2>2. ASSUME NEW x \in Fr
        PROVE  evaluateAt(t[0], x) = product(differencesOf(0, x))
    <3>1. differencesOf(0, x) \in [1..0 -> Fr]
      BY <1>6, <2>1
    <3> HIDE DEF differencesOf
    <3> QED
      BY <1>3, <1>5, <3>1, ProductOfNone
  <2> QED
    BY <2>1, <2>2
<1>8. ASSUME NEW k \in Nat, k \in K
      PROVE  k + 1 \in K
  <2> SUFFICES ASSUME k + 1 <= n
               PROVE  Good(k + 1)
    OBVIOUS
  <2>1. k \in 0..n /\ k + 1 \in 0..n /\ k + 1 \in 1..n /\ (k + 1) - 1 = k /\ t[k] \in polys /\ s[k + 1] \in Fr
    OBVIOUS
  <2>2. t[k + 1] = byXSubValue(t[k], s[k + 1])
    BY <1>5, <2>1
  <2>3. Good(k)
    BY <1>8, <2>1
  <2>4. getDegree(t[k + 1]) \in 0..(k + 1)
    <3>1. getDegree(t[k + 1]) \in 0..(getDegree(t[k]) + 1)
      BY <2>1, <2>2, ByXIs
    <3> QED
      BY <2>3, <3>1
  <2>5. ASSUME NEW x \in Fr
        PROVE  evaluateAt(t[k + 1], x) = product(differencesOf(k + 1, x))
    <3>1. evaluateAt(t[k + 1], x) = mul(sub(x, s[k + 1]), evaluateAt(t[k], x))
      BY <2>1, <2>2, ByXIs
    <3>2. /\ differencesOf(k + 1, x) \in [1..(k + 1) -> Fr]
          /\ differencesOf(k + 1, x)[k + 1] = sub(x, s[k + 1])
          /\ differencesOf(k, x) = [j \in 1..k |-> differencesOf(k + 1, x)[j]]
      BY <1>6, <2>1
    <3>3. evaluateAt(t[k], x) = product(differencesOf(k, x))
      BY <2>3
    <3> HIDE DEF differencesOf
    <3>4. product(differencesOf(k + 1, x))
            = mul(differencesOf(k + 1, x)[k + 1], product(differencesOf(k, x)))
      BY <3>2, ProductOfNext
    <3> QED
      BY <3>1, <3>2, <3>3, <3>4
  <2> QED
    BY <2>4, <2>5
<1>9. n \in K
  <2> HIDE DEF K
  <2> QED
    BY <1>7, <1>8, Induction
<1>10. Good(n)
  BY <1>9
<1> QED
  BY <1>2, <1>5, <1>10

\* It has those roots and no other one.
LEMMA ZerofierRoots ==
  ASSUME NEW n \in Nat, NEW s \in [1..n -> Fr], NEW x \in Fr
  PROVE  evaluateAt(zerofierPolynomial(s), x) = 0 <=> \E k \in 1..n : x = s[k]
<1> DEFINE d == [k \in 1..n |-> sub(x, s[k])]
<1>1. d \in [1..n -> Fr] /\ IsFiniteSet(1..n)
  BY Operations, FS_Interval
<1>2. evaluateAt(zerofierPolynomial(s), x) = product(d)
  BY ZerofierIs
<1>3. \A k \in 1..n : d[k] = 0 <=> x = s[k]
  <2>1. \A k \in 1..n : s[k] \in Fr /\ d[k] = sub(x, s[k])
    OBVIOUS
  <2> HIDE DEF d
  <2> QED
    BY <2>1, SubLaws
<1> HIDE DEF d
<1> QED
  BY <1>1, <1>2, <1>3, ProductIsZero

\* A sequence without its element i.
LEMMA Removed ==
  ASSUME NEW n \in Nat, NEW s \in [1..n -> Fr], NEW i \in 1..n
  PROVE  LET u == RemoveAt(s, i)
         IN  /\ u \in [1..(n - 1) -> Fr]
             /\ \A x \in Fr : (\E k \in 1..(n - 1) : x = u[k]) <=> (\E k \in 1..n : k # i /\ x = s[k])
<1>1. s \in Seq(Fr) /\ Len(s) = n
  OBVIOUS
<1> DEFINE u == RemoveAt(s, i)
<1>2. u = [k \in 1..(n - 1) |-> IF k < i THEN s[k] ELSE s[k + 1]]
  BY <1>1 DEF RemoveAt
<1> HIDE DEF u
<1>3. u \in [1..(n - 1) -> Fr]
  BY <1>2
<1>4. ASSUME NEW x \in Fr, NEW k \in 1..(n - 1), x = u[k]
      PROVE  \E j \in 1..n : j # i /\ x = s[j]
  <2>1. CASE k < i
    BY <1>2, <1>4, <2>1
  <2>2. CASE ~(k < i)
    <3>1. k + 1 \in 1..n /\ k + 1 # i /\ x = s[k + 1]
      BY <1>2, <1>4, <2>2
    <3> QED
      BY <3>1
  <2> QED
    BY <2>1, <2>2
<1>5. ASSUME NEW x \in Fr, NEW j \in 1..n, j # i, x = s[j]
      PROVE  \E k \in 1..(n - 1) : x = u[k]
  <2>1. CASE j < i
    <3>1. j \in 1..(n - 1) /\ u[j] = s[j]
      BY <1>2, <2>1
    <3> QED
      BY <1>5, <3>1
  <2>2. CASE ~(j < i)
    <3>1. j - 1 \in 1..(n - 1) /\ ~(j - 1 < i) /\ (j - 1) + 1 = j
      BY <1>5, <2>2
    <3>2. u[j - 1] = s[j]
      BY <1>2, <3>1
    <3> QED
      BY <1>5, <3>1, <3>2
  <2> QED
    BY <2>1, <2>2
<1> QED
  BY <1>3, <1>4, <1>5 DEF u

-----------------------------------------------------------------------------
\* The value as a sum of terms.

\* A sum over a finite set, as a product.
LEMMA SumLaws ==
  ASSUME NEW S, IsFiniteSet(S), NEW f \in [S -> Fr]
  PROVE  /\ sum(f) \in Fr
         /\ S = {} => sum(f) = 0
         /\ \A x \in S : sum(f) = add(f[x], sum(Restrict(f, S \ {x})))
<1>1. \A T \in SUBSET S : IsFiniteSet(T) /\ Restrict(f, T) \in [T -> Fr]
  BY FS_Subset DEF Restrict
<1>2. \A T \in SUBSET S : sum(Restrict(f, T)) = fold(plusOf, 0, Restrict(f, T))
  BY <1>1, SumIsFold
<1>3. Restrict(f, S) = f
  BY DEF Restrict
<1>4. /\ \A T \in SUBSET S : fold(plusOf, 0, Restrict(f, T)) \in Fr
      /\ fold(plusOf, 0, Restrict(f, {})) = 0
      /\ \A T \in SUBSET S : \A x \in T :
           fold(plusOf, 0, Restrict(f, T)) = plusOf[<<f[x], fold(plusOf, 0, Restrict(f, T \ {x}))>>]
  BY PlusIsMonoid, FoldStep
<1>5. \A x \in S : sum(f) = add(f[x], sum(Restrict(f, S \ {x})))
  <2> SUFFICES ASSUME NEW x \in S
               PROVE  sum(f) = add(f[x], sum(Restrict(f, S \ {x})))
    OBVIOUS
  <2>1. S \ {x} \in SUBSET S /\ f[x] \in Fr
    OBVIOUS
  <2>2. fold(plusOf, 0, Restrict(f, S)) = plusOf[<<f[x], fold(plusOf, 0, Restrict(f, S \ {x}))>>]
    BY <1>4
  <2>3. fold(plusOf, 0, Restrict(f, S \ {x})) \in Fr
    BY <1>4, <2>1
  <2>4. fold(plusOf, 0, Restrict(f, S)) = add(f[x], fold(plusOf, 0, Restrict(f, S \ {x})))
    BY <2>1, <2>2, <2>3 DEF plusOf
  <2> QED
    BY <1>2, <1>3, <2>1, <2>4
<1> QED
  BY <1>2, <1>3, <1>4, <1>5

\* One term more.
LEMMA SumOfNext ==
  ASSUME NEW n \in Nat, NEW g \in [0..n -> Fr], NEW h, h = [k \in 0..(n - 1) |-> g[k]]
  PROVE  sum(h) \in Fr /\ sum(g) = add(g[n], sum(h))
<1>1. /\ h \in [0..(n - 1) -> Fr] /\ IsFiniteSet(0..(n - 1)) /\ IsFiniteSet(0..n)
      /\ n \in 0..n
  BY FS_Interval
<1>2. Restrict(g, (0..n) \ {n}) = h
  <2>1. (0..n) \ {n} = 0..(n - 1)
    OBVIOUS
  <2> QED
    BY <2>1 DEF Restrict
<1> QED
  BY <1>1, <1>2, SumLaws

\* The value from the highest coefficient down, less the highest term.
LEMMA EvaluateLast ==
  ASSUME NEW n \in Nat, NEW p \in [0..n -> Fr], NEW x \in Fr, NEW q, q = [e \in 0..(n - 1) |-> p[e]]
  PROVE  /\ q \in [0..(n - 1) -> Fr]
         /\ evaluateAt(p, x) = add(mul(p[n], power(x, n)), evaluateAt(q, x))
<1> DEFINE m == n + 1
           wide == [e \in 0..(m - 1) |-> IF e \in 0..(n - 1) THEN q[e] ELSE 0]
           single == [e \in 0..(m - 1) |-> IF e = n THEN p[n] ELSE 0]
<1>1. m \in Nat /\ n <= m /\ n \in 0..(m - 1) /\ p[n] \in Fr /\ p \in [0..(m - 1) -> Fr]
  OBVIOUS
<1>2. q \in [0..(n - 1) -> Fr]
  OBVIOUS
<1>3. wide \in [0..(m - 1) -> Fr] /\ IsWider(wide, q, n, m)
  BY <1>2, PIsNat DEF IsWider
<1>4. /\ single \in [0..(m - 1) -> Fr]
      /\ evaluateAt(single, x) = mul(p[n], power(x, n))
  <2>1. single = [e \in 0..(m - 1) |-> IF e = n THEN p[n] ELSE 0]
    OBVIOUS
  <2> HIDE DEF single, m
  <2> QED
    BY <1>1, <2>1, EvaluateMonomial
<1>5. IsSum(p, single, wide, m)
  <2>1. ASSUME NEW e \in 0..(m - 1)
        PROVE  p[e] = add(single[e], wide[e])
    <3>1. CASE e = n
      <4>1. single[e] = p[n] /\ wide[e] = 0
        BY <3>1
      <4> QED
        BY <1>1, <3>1, <4>1, ZeroLaws
    <3>2. CASE e # n
      <4>1. single[e] = 0 /\ wide[e] = p[e] /\ p[e] \in Fr
        BY <3>2
      <4> QED
        BY <4>1, AddLaws
    <3> QED
      BY <3>1, <3>2
  <2>2. p = [e \in 0..(m - 1) |-> p[e]]
    BY <1>1
  <2> HIDE DEF single, wide
  <2> QED
    BY <2>1, <2>2 DEF IsSum
<1> HIDE DEF single, wide, m
<1>6. evaluateAt(p, x) = add(evaluateAt(single, x), evaluateAt(wide, x))
  BY <1>1, <1>3, <1>4, <1>5, EvaluateSum
<1>7. evaluateAt(wide, x) = evaluateAt(q, x)
  BY <1>1, <1>2, <1>3, EvaluateWider
<1> QED
  BY <1>2, <1>4, <1>6, <1>7

\* The value as the sum of the terms is the one from the highest coefficient down.
LEMMA EvaluateTerms ==
  ASSUME NEW n \in Nat, NEW p \in [0..(n - 1) -> Fr], NEW x \in Fr
  PROVE  evaluate(p, x) = evaluateAt(p, x)
<1> DEFINE K == {k \in Nat : \A q \in [0..(k - 1) -> Fr] : evaluate(q, x) = evaluateAt(q, x)}
<1>1. \A k \in Nat : \A q \in [0..(k - 1) -> Fr] :
        /\ evaluate(q, x) = sum([e \in 0..(k - 1) |-> mul(q[e], power(x, e))])
        /\ [e \in 0..(k - 1) |-> mul(q[e], power(x, e))] \in [0..(k - 1) -> Fr]
  BY PowerType, Operations DEF evaluate
<1>2. 0 \in K
  <2> SUFFICES ASSUME NEW q \in [0..(0 - 1) -> Fr]
               PROVE  evaluate(q, x) = evaluateAt(q, x)
    OBVIOUS
  <2> DEFINE t == [e \in 0..(0 - 1) |-> mul(q[e], power(x, e))]
  <2>1. t \in [0..(0 - 1) -> Fr] /\ evaluate(q, x) = sum(t)
    <3>1. 0 \in Nat
      OBVIOUS
    <3> QED
      BY <1>1, <3>1
  <2>2. 0..(0 - 1) = {} /\ IsFiniteSet(0..(0 - 1))
    BY FS_Interval
  <2> HIDE DEF t
  <2>3. sum(t) = 0
    BY <2>1, <2>2, SumLaws
  <2> QED
    BY <2>1, <2>3, EvaluateNone
<1>3. ASSUME NEW k \in Nat, k \in K
      PROVE  k + 1 \in K
  <2> SUFFICES ASSUME NEW q \in [0..((k + 1) - 1) -> Fr]
               PROVE  evaluate(q, x) = evaluateAt(q, x)
    OBVIOUS
  <2> DEFINE low == [e \in 0..(k - 1) |-> q[e]]
             t == [e \in 0..k |-> mul(q[e], power(x, e))]
             u == [e \in 0..(k - 1) |-> mul(low[e], power(x, e))]
  <2>1. q \in [0..k -> Fr] /\ (k + 1) - 1 = k /\ k + 1 \in Nat /\ low \in [0..(k - 1) -> Fr] /\ k \in 0..k
    OBVIOUS
  <2>2. t \in [0..k -> Fr] /\ evaluate(q, x) = sum(t)
    BY <1>1, <2>1
  <2>3. evaluate(low, x) = sum(u)
    BY <1>1, <2>1
  <2>4. u = [e \in 0..(k - 1) |-> t[e]] /\ t[k] = mul(q[k], power(x, k))
    OBVIOUS
  <2> HIDE DEF t, u
  <2>5. sum(t) = add(t[k], sum(u))
    BY <2>2, <2>4, SumOfNext
  <2>6. evaluateAt(q, x) = add(mul(q[k], power(x, k)), evaluateAt(low, x))
    BY <2>1, EvaluateLast
  <2>7. evaluate(low, x) = evaluateAt(low, x)
    BY <1>3, <2>1
  <2> QED
    BY <2>2, <2>3, <2>4, <2>5, <2>6, <2>7
<1>4. n \in K
  <2> HIDE DEF K
  <2> QED
    BY <1>2, <1>3, Induction
<1> QED
  BY <1>4

\* That is so for every polynomial.
LEMMA PolynomialTerms ==
  ASSUME NEW p \in polys, NEW x \in Fr
  PROVE  evaluate(p, x) = evaluateAt(p, x)
<1>1. PICK d \in Nat : p \in [0..d -> Fr]
  BY DEF polys
<1>2. d + 1 \in Nat /\ p \in [0..((d + 1) - 1) -> Fr]
  BY <1>1
<1> QED
  BY <1>2, EvaluateTerms

-----------------------------------------------------------------------------
\* Interpolation.

\* What inv returns, for 0 too.
LEMMA InvType ==
  ASSUME NEW v \in Fr
  PROVE  inv(v) \in Fr
<1>1. CASE v = 0
  BY <1>1, PIsNat DEF inv
<1>2. CASE v # 0
  BY <1>2, HasInverse
<1> QED
  BY <1>1, <1>2

\* The polynomial from which the sums start.
LEMMA ZeroIs == Zero \in polys /\ getDegree(Zero) = 0 /\ \A x \in Fr : evaluateAt(Zero, x) = 0
<1>1. Zero \in [0..0 -> Fr] /\ Zero[0] = 0
  BY PIsNat DEF Zero
<1> QED
  BY <1>1, ConstantIs

\* The sum of polynomials, for a bound of their degrees.
LEMMA PlusBounded ==
  ASSUME NEW p \in polys, NEW q \in polys, NEW k \in Nat, getDegree(p) <= k, getDegree(q) <= k
  PROVE  getDegree(plus(p, q)) \in 0..k
<1>1. getDegree(p) \in Nat /\ getDegree(q) \in Nat
  BY PolynomialIs
<1>2. getDegree(plus(p, q)) \in 0..Max({getDegree(p), getDegree(q)})
  BY PlusIs
<1>3. Max({getDegree(p), getDegree(q)}) \in {getDegree(p), getDegree(q)}
  BY <1>1, LargerDegree
<1> QED
  BY <1>1, <1>2, <1>3

\* A Lagrange polynomial has its value in its own point, and is zero in the others.
LEMMA LagrangeType ==
  ASSUME NEW n \in Nat \ {0}, NEW s \in [1..n -> Fr], NEW v \in [1..n -> Fr], NEW i \in 1..n
  PROVE  /\ computeLagrangePolynomial(i, s, v) \in polys
         /\ getDegree(computeLagrangePolynomial(i, s, v)) \in 0..(n - 1)
         /\ \A k \in 1..n : IsInjective(s) =>
              evaluateAt(computeLagrangePolynomial(i, s, v), s[k]) = IF k = i THEN v[i] ELSE 0
<1> DEFINE u == RemoveAt(s, i)
           numerator == zerofierPolynomial(u)
           divisor == evaluate(numerator, s[i])
           c == mul(v[i], inv(divisor))
<1>1. n - 1 \in Nat /\ s[i] \in Fr /\ v[i] \in Fr /\ \A k \in 1..n : s[k] \in Fr
  OBVIOUS
<1>2. /\ u \in [1..(n - 1) -> Fr]
      /\ \A x \in Fr : (\E k \in 1..(n - 1) : x = u[k]) <=> (\E k \in 1..n : k # i /\ x = s[k])
  BY Removed
<1>3. computeLagrangePolynomial(i, s, v) = mulScalar(numerator, c)
  BY DEF computeLagrangePolynomial
<1> HIDE DEF u
<1>4. numerator \in polys /\ getDegree(numerator) \in 0..(n - 1)
  BY <1>1, <1>2, ZerofierIs
<1>5. \A x \in Fr : evaluateAt(numerator, x) = 0 <=> \E k \in 1..n : k # i /\ x = s[k]
  BY <1>1, <1>2, ZerofierRoots
<1> HIDE DEF numerator
<1>6. divisor = evaluateAt(numerator, s[i]) /\ divisor \in Fr
  BY <1>1, <1>4, PolynomialTerms, ValueType
<1> HIDE DEF divisor
<1>7. inv(divisor) \in Fr /\ c \in Fr
  BY <1>1, <1>6, InvType, Operations
<1>8. /\ mulScalar(numerator, c) \in polys
      /\ getDegree(mulScalar(numerator, c)) \in 0..getDegree(numerator)
      /\ \A x \in Fr : evaluateAt(mulScalar(numerator, c), x) = mul(c, evaluateAt(numerator, x))
  BY <1>4, <1>7, MulScalarIs
<1>9. getDegree(mulScalar(numerator, c)) \in 0..(n - 1)
  BY <1>4, <1>8
<1>10. ASSUME IsInjective(s), NEW k \in 1..n
       PROVE  mul(c, evaluateAt(numerator, s[k])) = IF k = i THEN v[i] ELSE 0
  <2>1. CASE k = i
    <3>1. ~\E j \in 1..n : j # i /\ s[i] = s[j]
      BY <1>10 DEF IsInjective
    <3>2. divisor # 0
      BY <1>1, <1>5, <1>6, <3>1
    <3>3. mul(inv(divisor), divisor) = 1
      BY <1>6, <1>7, <3>2, HasInverse, MulLaws
    <3>4. mul(c, divisor) = mul(v[i], mul(inv(divisor), divisor))
      BY <1>1, <1>6, <1>7, MulLaws
    <3>5. mul(c, divisor) = v[i]
      BY <1>1, <3>3, <3>4, ZeroLaws
    <3> QED
      BY <1>6, <2>1, <3>5
  <2>2. CASE k # i
    <3>1. evaluateAt(numerator, s[k]) = 0
      BY <1>1, <1>5, <2>2
    <3> HIDE DEF c
    <3> QED
      BY <1>7, <2>2, <3>1, ZeroLaws
  <2> QED
    BY <2>1, <2>2
<1> QED
  BY <1>1, <1>3, <1>8, <1>9, <1>10

\* The interpolation of n values has a degree below n, and takes them.
LEMMA Interpolates ==
  ASSUME NEW n \in Nat \ {0}, NEW s \in [1..n -> Fr], NEW v \in [1..n -> Fr]
  PROVE  /\ lagrangePolynomialInterpolation(s, v) \in polys
         /\ getDegree(lagrangePolynomialInterpolation(s, v)) \in 0..(n - 1)
         /\ IsInjective(s) =>
              \A j \in 1..n : evaluateAt(lagrangePolynomialInterpolation(s, v), s[j]) = v[j]
<1> DEFINE l == [k \in 1..n |-> computeLagrangePolynomial(k, s, v)]
<1>1. n \in Nat /\ n - 1 \in Nat /\ \A k \in 1..n : s[k] \in Fr /\ v[k] \in Fr
  OBVIOUS
<1>2. lagrangePolynomialInterpolation(s, v) = FoldLeft(plus, Zero, l)
  BY DEF lagrangePolynomialInterpolation
<1>3. \A k \in 1..n : l[k] \in polys /\ getDegree(l[k]) \in 0..(n - 1)
  BY LagrangeType
<1>4. ASSUME NEW k \in 1..n, NEW j \in 1..n, IsInjective(s)
      PROVE  evaluateAt(l[k], s[j]) = IF j = k THEN v[k] ELSE 0
  <2>1. l[k] = computeLagrangePolynomial(k, s, v)
    OBVIOUS
  <2> HIDE DEF l
  <2>2. \A m \in 1..n : IsInjective(s) =>
           evaluateAt(computeLagrangePolynomial(k, s, v), s[m]) = IF m = k THEN v[k] ELSE 0
    BY LagrangeType, ZenonT(60)
  <2> QED
    BY <1>4, <2>1, <2>2
<1>5. l \in [1..n -> polys]
  BY <1>3
<1> HIDE DEF l
<1>6. \A p \in polys, q \in polys : plus(p, q) \in polys
  BY PlusIs
<1>7. PICK t \in [0..n -> polys] :
        /\ t[0] = Zero /\ t[n] = FoldLeft(plus, Zero, l)
        /\ \A k \in 1..n : t[k] = plus(t[k - 1], l[k])
  <2>1. Zero \in polys
    BY ZeroIs
  <2> QED
    BY <1>1, <1>5, <1>6, <2>1, FoldOfSums
<1> DEFINE Good(k) == /\ getDegree(t[k]) \in 0..(n - 1)
                      /\ IsInjective(s) =>
                           \A j \in 1..n : evaluateAt(t[k], s[j]) = IF j <= k THEN v[j] ELSE 0
           K == {k \in Nat : k <= n => Good(k)}
<1>8. 0 \in K
  <2>1. getDegree(t[0]) \in 0..(n - 1)
    BY <1>1, <1>7, ZeroIs
  <2>2. \A j \in 1..n : ~(j <= 0) /\ evaluateAt(t[0], s[j]) = 0
    BY <1>1, <1>7, ZeroIs
  <2> QED
    BY <2>1, <2>2
<1>9. ASSUME NEW k \in Nat, k \in K
      PROVE  k + 1 \in K
  <2> SUFFICES ASSUME k + 1 <= n
               PROVE  Good(k + 1)
    OBVIOUS
  <2>1. k \in 0..n /\ k + 1 \in 1..n /\ (k + 1) - 1 = k /\ t[k] \in polys /\ l[k + 1] \in polys
    BY <1>3
  <2>2. t[k + 1] = plus(t[k], l[k + 1])
    BY <1>7, <2>1
  <2>3. Good(k)
    BY <1>9, <2>1
  <2>4. getDegree(t[k + 1]) \in 0..(n - 1)
    <3>1. getDegree(t[k]) <= n - 1 /\ getDegree(l[k + 1]) <= n - 1
      BY <1>3, <2>1, <2>3
    <3> QED
      BY <1>1, <2>1, <2>2, <3>1, PlusBounded
  <2>5. ASSUME IsInjective(s), NEW j \in 1..n
        PROVE  evaluateAt(t[k + 1], s[j]) = IF j <= k + 1 THEN v[j] ELSE 0
    <3>1. evaluateAt(t[k + 1], s[j]) = add(evaluateAt(t[k], s[j]), evaluateAt(l[k + 1], s[j]))
      <4>1. s[j] \in Fr
        BY <1>1
      <4>2. \A x \in Fr : evaluateAt(plus(t[k], l[k + 1]), x)
                            = add(evaluateAt(t[k], x), evaluateAt(l[k + 1], x))
        BY <2>1, PlusIs
      <4> QED
        BY <2>2, <4>1, <4>2
    <3>2. evaluateAt(t[k], s[j]) = IF j <= k THEN v[j] ELSE 0
      BY <2>3, <2>5
    <3>3. evaluateAt(l[k + 1], s[j]) = IF j = k + 1 THEN v[k + 1] ELSE 0
      BY <1>4, <2>1, <2>5
    <3>4. v[j] \in Fr /\ add(v[j], 0) = v[j] /\ add(0, v[j]) = v[j] /\ add(0, 0) = 0
      BY <1>1, ZeroLaws, AddLaws, PIsNat
    <3>5. CASE j <= k
      <4>1. j # k + 1 /\ j <= k + 1
        BY <3>5
      <4> QED
        BY <3>1, <3>2, <3>3, <3>4, <3>5, <4>1
    <3>6. CASE j = k + 1
      <4>1. ~(j <= k) /\ j <= k + 1
        BY <3>6
      <4> QED
        BY <3>1, <3>2, <3>3, <3>4, <3>6, <4>1
    <3>7. CASE j > k + 1
      <4>1. ~(j <= k) /\ ~(j <= k + 1) /\ j # k + 1
        BY <3>7
      <4> QED
        BY <3>1, <3>2, <3>3, <3>4, <4>1
    <3> QED
      BY <3>5, <3>6, <3>7
  <2> QED
    BY <2>4, <2>5
<1>10. n \in K
  <2> HIDE DEF K
  <2> QED
    BY <1>1, <1>8, <1>9, Induction
<1>11. Good(n)
  BY <1>10
<1>12. \A j \in 1..n : j <= n
  OBVIOUS
<1> QED
  BY <1>2, <1>7, <1>11, <1>12

-----------------------------------------------------------------------------
\* The quotient by X - v is a polynomial of a lower degree; the division says that there
\* is no rest when the polynomial is zero at v, and then it is the quotient.
LEMMA DivByXIs ==
  ASSUME NEW p \in polys, NEW v \in Fr
  PROVE  /\ divByXSubValue(p, v) \in polys
         /\ dividedByX(p, v) => \A x \in Fr :
              evaluateAt(p, x) = mul(sub(x, v), evaluateAt(divByXSubValue(p, v), x))
         /\ evaluateAt(p, v) = 0 => dividedByX(p, v)
         /\ getDegree(divByXSubValue(p, v)) \in 0..getDegree(p)
         /\ getDegree(p) # 0 => getDegree(divByXSubValue(p, v)) <= getDegree(p) - 1
<1> DEFINE g == getDegree(p)
           u == [e \in 0..g |-> coef(p, e)]
           G(q) == q = [e \in Nat |-> IF e >= g THEN 0 ELSE add(p[e + 1], mul(v, q[e + 1]))]
           q == CHOOSE q : G(q)
           r == divByXSubValue(p, v)
<1>1. /\ g \in Nat /\ g + 1 \in Nat /\ (g + 1) - 1 = g
      /\ \E d \in Nat : p \in [0..d -> Fr] /\ g \in 0..d
      /\ \A e \in Int : coef(p, e) \in Fr /\ (e > g => coef(p, e) = 0)
  BY PolynomialIs
<1>2. \A e \in 0..g : p[e] = coef(p, e)
  <2>1. PICK d \in Nat : p \in [0..d -> Fr] /\ g \in 0..d
    BY <1>1
  <2>2. \A e \in 0..g : e \in DOMAIN p
    BY <2>1
  <2> HIDE DEF g
  <2> QED
    BY <2>2 DEF coef
<1> HIDE DEF g
<1>3. u \in [0..g -> Fr] /\ \A e \in 0..g : u[e] = p[e]
  BY <1>1, <1>2
<1>4. PICK hs : IsHorner(hs, u, g + 1, v)
  <2> HIDE DEF u
  <2> QED
    BY <1>1, <1>3, HornerExists
<1>5. hs \in [Nat -> Fr] /\ \A e \in Nat : hs[e] = IF e \in 0..g THEN add(u[e], mul(v, hs[e + 1])) ELSE 0
  BY <1>1, <1>4 DEF IsHorner
<1> HIDE DEF u
<1>6. G([e \in Nat |-> hs[e + 1]])
  <2> DEFINE k == [e \in Nat |-> hs[e + 1]]
  <2>1. \A e \in Nat : k[e] = hs[e + 1] /\ k[e + 1] = hs[(e + 1) + 1] /\ e + 1 \in Nat
    OBVIOUS
  <2>2. k = [e \in Nat |-> k[e]]
    OBVIOUS
  <2> HIDE DEF k
  <2>3. ASSUME NEW e \in Nat
        PROVE  k[e] = IF e >= g THEN 0 ELSE add(p[e + 1], mul(v, k[e + 1]))
    <3>1. CASE e >= g
      <4>1. e + 1 \notin 0..g
        BY <1>1, <3>1
      <4> QED
        BY <1>5, <2>1, <3>1, <4>1
    <3>2. CASE ~(e >= g)
      <4>1. e + 1 \in 0..g
        BY <1>1, <3>2
      <4>2. u[e + 1] = p[e + 1]
        BY <1>3, <4>1
      <4> QED
        BY <1>5, <2>1, <3>2, <4>1, <4>2
    <3> QED
      BY <3>1, <3>2
  <2>4. G(k)
    BY <2>2, <2>3
  <2> QED
    BY <2>4 DEF k
<1>7. G(q)
  BY <1>6
<1>8. r = [e \in 0..g |-> q[e]]
  BY DEF divByXSubValue, g
<1> HIDE DEF q, r
<1>9. \A e \in Nat : q[e] = IF e >= g THEN 0 ELSE add(p[e + 1], mul(v, q[e + 1]))
  BY <1>7
<1>10. \A e \in Nat : q[e] = hs[e + 1]
  <2> DEFINE S == {e \in Nat : q[e] = hs[e + 1]}
  <2>1. ASSUME NEW e \in Nat, e >= g
        PROVE  e \in S
    <3>1. e + 1 \notin 0..g /\ e + 1 \in Nat
      BY <1>1, <2>1
    <3> QED
      BY <1>5, <1>9, <2>1, <3>1
  <2>2. ASSUME NEW e \in 0..(g - 1), e + 1 \in S
        PROVE  e \in S
    <3>1. e + 1 \in 0..g /\ e \in Nat /\ ~(e >= g) /\ e + 1 \in Nat
      BY <1>1, <2>2
    <3>2. q[e] = add(p[e + 1], mul(v, q[e + 1]))
      BY <1>9, <3>1
    <3>3. hs[e + 1] = add(u[e + 1], mul(v, hs[(e + 1) + 1])) /\ u[e + 1] = p[e + 1]
      BY <1>3, <1>5, <3>1
    <3>4. q[e + 1] = hs[(e + 1) + 1]
      BY <2>2
    <3> QED
      BY <3>1, <3>2, <3>3, <3>4
  <2> HIDE DEF S
  <2>3. \A e \in Nat : e \in S
    BY <1>1, <2>1, <2>2, Descending
  <2> QED
    BY <2>3 DEF S
<1>11. r \in [0..g -> Fr] /\ r[g] = 0 /\ \A e \in 0..g : r[e] = hs[e + 1]
  <2>1. \A e \in 0..g : e \in Nat /\ e + 1 \in Nat
    BY <1>1
  <2>2. \A e \in 0..g : hs[e + 1] \in Fr
    BY <1>5, <2>1
  <2>3. q[g] = 0 /\ g \in 0..g
    BY <1>1, <1>9
  <2> QED
    BY <1>8, <1>10, <2>1, <2>2, <2>3
<1>12. r \in polys
  BY <1>1, <1>11, IsPolynomial
<1>13. ASSUME dividedByX(p, v), NEW x \in Fr
       PROVE  evaluateAt(p, x) = mul(sub(x, v), evaluateAt(r, x))
  <2> DEFINE low == [e \in 0..(g - 1) |-> r[e]]
  <2>1. evaluateAt(u, x) = evaluateAt(p, x)
    <3>1. getDegree(p) <= g /\ u = [e \in 0..g |-> coef(p, e)]
      BY <1>1 DEF g, u
    <3> QED
      BY <1>1, <3>1, EvaluateCoefs
  <2>2. PICK hx : IsHorner(hx, u, g + 1, x) /\ evaluateAt(u, x) = hx[0]
    <3>1. u \in [0..((g + 1) - 1) -> Fr]
      BY <1>1, <1>3
    <3> QED
      BY <1>1, <3>1, EvaluateType
  <2>3. low \in [0..(g - 1) -> Fr] /\ evaluateAt(r, x) = add(mul(r[g], power(x, g)), evaluateAt(low, x))
    <3>1. low = [e \in 0..(g - 1) |-> r[e]]
      OBVIOUS
    <3> HIDE DEF low
    <3> QED
      BY <1>1, <1>11, <3>1, EvaluateLast
  <2>4. Shifts(low, hs, g)
    <3>1. \A e \in 0..(g - 1) : e \in 0..g
      BY <1>1
    <3> QED
      BY <1>11, <3>1 DEF Shifts
  <2> HIDE DEF low
  <2>5. PICK hq : IsHorner(hq, low, g, x) /\ evaluateAt(low, x) = hq[0]
    BY <1>1, <2>3, EvaluateType
  <2>6. hx[0] = add(hs[0], mul(sub(x, v), hq[0]))
    BY <1>1, <1>3, <1>4, <2>2, <2>4, <2>5, HornerDivides
  <2>7. evaluateAt(low, x) \in Fr
    BY <1>1, <2>3, EvaluateType
  <2>8. evaluateAt(r, x) = hq[0] /\ hq[0] \in Fr
    BY <1>1, <1>11, <2>3, <2>5, <2>7, PowerType, MulLaws, AddLaws, PIsNat
  <2>9. hs[0] = 0
    <3>1. 0 \in 0..g /\ 0 \in Nat /\ 0 + 1 = 1 /\ 1 \in Nat
      BY <1>1
    <3>2. hs[0] = add(u[0], mul(v, hs[1])) /\ u[0] = coef(p, 0) /\ r[0] = hs[1] /\ hs[1] \in Fr
      BY <1>2, <1>3, <1>5, <1>11, <3>1
    <3>3. coef(p, 0) = sub(0, mul(v, r[0]))
      BY <1>13 DEF dividedByX, r
    <3>4. mul(v, hs[1]) \in Fr
      BY <3>2, Operations
    <3> QED
      BY <3>2, <3>3, <3>4, SubLaws, PIsNat
  <2>10. sub(x, v) \in Fr /\ mul(sub(x, v), hq[0]) \in Fr
    BY <2>8, Operations
  <2> QED
    BY <2>1, <2>2, <2>6, <2>8, <2>9, <2>10, AddLaws
<1>14. ASSUME evaluateAt(p, v) = 0
       PROVE  dividedByX(p, v)
  <2>1. evaluateAt(u, v) = evaluateAt(p, v)
    <3>1. getDegree(p) <= g /\ u = [e \in 0..g |-> coef(p, e)]
      BY <1>1 DEF g, u
    <3> QED
      BY <1>1, <3>1, EvaluateCoefs
  <2>2. evaluateAt(u, v) = hs[0]
    <3>1. u \in [0..((g + 1) - 1) -> Fr]
      BY <1>1, <1>3
    <3> QED
      BY <1>1, <1>4, <3>1, Evaluates
  <2>3. 0 \in 0..g /\ 0 \in Nat /\ 0 + 1 = 1 /\ 1 \in Nat
    BY <1>1
  <2>4. hs[0] = add(u[0], mul(v, hs[1])) /\ u[0] = coef(p, 0) /\ r[0] = hs[1] /\ hs[1] \in Fr
    BY <1>2, <1>3, <1>5, <1>11, <2>3
  <2>5. mul(v, hs[1]) \in Fr /\ coef(p, 0) \in Fr
    BY <1>1, <2>4, Operations
  <2>6. sub(add(coef(p, 0), mul(v, hs[1])), mul(v, hs[1])) = coef(p, 0)
    BY <2>5, SubLaws
  <2> QED
    BY <1>14, <2>1, <2>2, <2>4, <2>6 DEF dividedByX, r
<1>15. getDegree(r) \in 0..g /\ (g # 0 => getDegree(r) <= g - 1)
  <2>1. getDegree(r) \in 0..g /\ \A k \in Nat : (\A e \in 0..g : e > k => r[e] = 0) => getDegree(r) <= k
    BY <1>1, <1>11, IsPolynomial
  <2>2. g # 0 => g - 1 \in Nat /\ \A e \in 0..g : e > g - 1 => e = g
    BY <1>1
  <2> QED
    BY <1>11, <2>1, <2>2
<1> QED
  BY <1>12, <1>13, <1>14, <1>15 DEF r, g

\* An element is subtracted from a polynomial.
LEMMA SubScalarIs ==
  ASSUME NEW p \in polys, NEW v \in Fr
  PROVE  /\ subScalar(p, v) \in polys
         /\ getDegree(subScalar(p, v)) \in 0..getDegree(p)
         /\ \A x \in Fr : evaluateAt(subScalar(p, v), x) = sub(evaluateAt(p, x), v)
<1>1. PICK d \in Nat : p \in [0..d -> Fr]
  BY PolynomialIs
<1> DEFINE n == d + 1
           r == subScalar(p, v)
           single == [e \in 0..(n - 1) |-> IF e = 0 THEN v ELSE 0]
<1>2. n \in Nat /\ n - 1 = d /\ 0 \in 0..d /\ p \in [0..(n - 1) -> Fr] /\ p[0] \in Fr /\ 0 \in 0..(n - 1)
  BY <1>1
<1>3. sub(p[0], v) \in Fr
  BY <1>2, Operations
<1>4. r \in [0..d -> Fr] /\ \A e \in 0..d : r[e] = IF e = 0 THEN sub(p[0], v) ELSE p[e]
  <2>1. r = [p EXCEPT ![0] = sub(p[0], v)]
    BY DEF subScalar
  <2> QED
    BY <1>1, <1>2, <1>3, <2>1
<1> HIDE DEF r, n
<1>5. IsDifference(r, p, single, n)
  <2>1. ASSUME NEW e \in 0..d
        PROVE  r[e] = sub(p[e], single[e])
    <3>1. p[e] \in Fr
      BY <1>1
    <3> QED
      BY <1>2, <1>4, <3>1, SubLaws
  <2>2. r = [e \in 0..d |-> r[e]]
    BY <1>4
  <2> HIDE DEF single
  <2> QED
    BY <1>2, <2>1, <2>2 DEF IsDifference
<1>6. single \in [0..(n - 1) -> Fr]
  BY PIsNat
<1>7. ASSUME NEW x \in Fr
      PROVE  evaluateAt(r, x) = sub(evaluateAt(p, x), v)
  <2>0. single = [e \in 0..(n - 1) |-> IF e = 0 THEN v ELSE 0]
    OBVIOUS
  <2> HIDE DEF single
  <2>1. evaluateAt(single, x) = mul(v, power(x, 0))
    BY <1>2, <2>0, EvaluateMonomial
  <2>2. power(x, 0) = 1 /\ mul(v, 1) = v
    BY PowerStep, ZeroLaws
  <2>3. evaluateAt(r, x) = sub(evaluateAt(p, x), evaluateAt(single, x))
    BY <1>2, <1>5, <1>6, EvaluateDifference
  <2> QED
    BY <2>1, <2>2, <2>3
<1>8. r \in polys
  BY <1>1, <1>4, IsPolynomial
<1>9. getDegree(r) \in 0..getDegree(p)
  <2> DEFINE k == getDegree(p)
  <2>1. k \in Nat /\ \A e \in Int : e > k => coef(p, e) = 0
    BY PolynomialIs
  <2>2. \A e \in 0..d : coef(p, e) = p[e]
    BY <1>1 DEF coef
  <2>3. getDegree(r) \in 0..d /\ ((\A e \in 0..d : e > k => r[e] = 0) => getDegree(r) <= k)
    BY <1>1, <1>4, <2>1, IsPolynomial
  <2> HIDE DEF k
  <2>4. ASSUME NEW e \in 0..d, e > k
        PROVE  r[e] = 0
    <3>1. e # 0 /\ e \in Int
      BY <2>1, <2>4
    <3>2. r[e] = p[e] /\ p[e] = coef(p, e) /\ coef(p, e) = 0
      BY <1>4, <2>1, <2>2, <2>4, <3>1
    <3> QED
      BY <3>2
  <2>5. getDegree(r) \in 0..d /\ getDegree(r) <= k
    BY <2>3, <2>4
  <2>6. getDegree(r) \in 0..k
    BY <1>1, <2>1, <2>5
  <2> QED
    BY <2>6 DEF k
<1> QED
  BY <1>7, <1>8, <1>9 DEF r

\* The sum of polynomials, one after the other, is a polynomial; and when each is a
\* multiple of another one's, by the same factor, then so is the sum.
LEMMA SumIs ==
  ASSUME NEW n \in Nat, NEW s \in [1..n -> polys]
  PROVE  FoldLeft(plus, Zero, s) \in polys
<1>1. \A p \in polys, v \in polys : plus(p, v) \in polys
  BY PlusIs
<1>2. PICK t \in [0..n -> polys] : /\ t[0] = Zero /\ t[n] = FoldLeft(plus, Zero, s)
                                   /\ \A k \in 1..n : t[k] = plus(t[k - 1], s[k])
  BY <1>1, FoldOfSums, ZeroIs
<1>3. n \in 0..n
  OBVIOUS
<1> QED
  BY <1>2, <1>3

\* A sum of polynomials that are multiples of others is the multiple of their sum.
LEMMA SumOfMultiples ==
  ASSUME NEW n \in Nat, NEW s \in [1..n -> polys], NEW r \in [1..n -> polys], NEW c \in Fr, NEW x \in Fr,
         \A i \in 1..n : evaluateAt(r[i], x) = mul(c, evaluateAt(s[i], x))
  PROVE  evaluateAt(FoldLeft(plus, Zero, r), x) = mul(c, evaluateAt(FoldLeft(plus, Zero, s), x))
<1>1. \A p \in polys, v \in polys : plus(p, v) \in polys
  BY PlusIs
<1>2. PICK t \in [0..n -> polys] : /\ t[0] = Zero /\ t[n] = FoldLeft(plus, Zero, s)
                                   /\ \A k \in 1..n : t[k] = plus(t[k - 1], s[k])
  BY <1>1, FoldOfSums, ZeroIs
<1>3. PICK w \in [0..n -> polys] : /\ w[0] = Zero /\ w[n] = FoldLeft(plus, Zero, r)
                                   /\ \A k \in 1..n : w[k] = plus(w[k - 1], r[k])
  BY <1>1, FoldOfSums, ZeroIs
<1> DEFINE K == {k \in Nat : k <= n => evaluateAt(w[k], x) = mul(c, evaluateAt(t[k], x))}
<1>4. 0 \in K
  BY <1>2, <1>3, ZeroIs, ZeroLaws
<1>5. ASSUME NEW k \in Nat, k \in K
      PROVE  k + 1 \in K
  <2> SUFFICES ASSUME k + 1 <= n
               PROVE  evaluateAt(w[k + 1], x) = mul(c, evaluateAt(t[k + 1], x))
    OBVIOUS
  <2>1. k + 1 \in 1..n /\ (k + 1) - 1 = k /\ k \in 0..n
    OBVIOUS
  <2>2. evaluateAt(w[k], x) = mul(c, evaluateAt(t[k], x))
    BY <1>5
  <2>3. t[k + 1] = plus(t[k], s[k + 1]) /\ w[k + 1] = plus(w[k], r[k + 1])
    BY <1>2, <1>3, <2>1
  <2>4. /\ t[k] \in polys /\ w[k] \in polys /\ s[k + 1] \in polys /\ r[k + 1] \in polys
        /\ evaluateAt(r[k + 1], x) = mul(c, evaluateAt(s[k + 1], x))
    BY <2>1
  <2>5. \A p \in polys, q \in polys : evaluateAt(plus(p, q), x) = add(evaluateAt(p, x), evaluateAt(q, x))
    BY PlusIs
  <2>6. evaluateAt(t[k], x) \in Fr /\ evaluateAt(s[k + 1], x) \in Fr
    BY <2>4, ValueType
  <2> QED
    BY <2>2, <2>3, <2>4, <2>5, <2>6, Distributive
<1> HIDE DEF K
<1>6. n \in K
  BY <1>4, <1>5, Induction
<1> QED
  BY <1>2, <1>3, <1>6 DEF K

-----------------------------------------------------------------------------
\* The coefficients of p below place m, and the k from there on.
AreParts(low, high, p, m, k) ==
  /\ low = [e \in 0..(m - 1) |-> p[e]]
  /\ high = [e \in 0..(k - 1) |-> p[m + e]]

\* The value of a polynomial from those of its two parts.
LEMMA EvaluateParts ==
  ASSUME NEW m \in Nat, NEW k \in Nat, NEW p \in [0..((m + k) - 1) -> Fr], NEW x \in Fr,
         NEW low, NEW high, AreParts(low, high, p, m, k)
  PROVE  /\ low \in [0..(m - 1) -> Fr] /\ high \in [0..(k - 1) -> Fr]
         /\ evaluateAt(p, x) = add(evaluateAt(low, x), mul(power(x, m), evaluateAt(high, x)))
<1> DEFINE n == m + k
           wide == [e \in 0..(n - 1) |-> IF e < m THEN low[e] ELSE 0]
           moved == [e \in 0..(n - 1) |-> IF e - m \in 0..(k - 1) THEN high[e - m] ELSE 0]
<1>1. n \in Nat /\ m <= n /\ m + k <= n /\ p \in [0..(n - 1) -> Fr]
  OBVIOUS
<1>2. low \in [0..(m - 1) -> Fr] /\ high \in [0..(k - 1) -> Fr]
  <2>1. \A e \in 0..(m - 1) : e \in 0..(n - 1)
    OBVIOUS
  <2>2. \A e \in 0..(k - 1) : m + e \in 0..(n - 1)
    OBVIOUS
  <2> HIDE DEF n
  <2> QED
    BY <1>1, <2>1, <2>2 DEF AreParts
<1>3. \A e \in 0..(m - 1) : low[e] = p[e]
  BY DEF AreParts
<1>4. \A e \in 0..(k - 1) : high[e] = p[m + e]
  BY DEF AreParts
<1>5. IsWider(wide, low, m, n) /\ wide \in [0..(n - 1) -> Fr]
  BY <1>1, <1>2, PIsNat DEF IsWider
<1>6. IsMoved(moved, high, n, k, m)
  BY DEF IsMoved
<1>7. IsSum(p, wide, moved, n)
  <2>1. ASSUME NEW e \in 0..(n - 1)
        PROVE  p[e] = add(wide[e], moved[e])
    <3>0. p[e] \in Fr
      BY <1>1
    <3>1. CASE e < m
      <4>1. e \in 0..(m - 1) /\ ~(e - m \in 0..(k - 1))
        BY <3>1
      <4>2. wide[e] = p[e] /\ moved[e] = 0
        BY <1>3, <3>1, <4>1
      <4> QED
        BY <3>0, <4>2, ZeroLaws
    <3>2. CASE ~(e < m)
      <4>1. e - m \in 0..(k - 1) /\ m + (e - m) = e
        BY <3>2
      <4>2. wide[e] = 0 /\ moved[e] = p[e]
        BY <1>4, <3>2, <4>1
      <4> QED
        BY <3>0, <4>2, AddLaws
    <3> QED
      BY <3>1, <3>2
  <2>2. p = [e \in 0..(n - 1) |-> p[e]]
    BY <1>1
  <2> HIDE DEF wide, moved, n
  <2> QED
    BY <2>1, <2>2 DEF IsSum
<1> HIDE DEF wide, moved, n
<1>8. evaluateAt(wide, x) = evaluateAt(low, x)
  BY <1>1, <1>2, <1>5, EvaluateWider
<1>9. moved \in [0..(n - 1) -> Fr] /\ evaluateAt(moved, x) = mul(power(x, m), evaluateAt(high, x))
  BY <1>1, <1>2, <1>6, EvaluateShifted
<1>10. evaluateAt(p, x) = add(evaluateAt(wide, x), evaluateAt(moved, x))
  BY <1>1, <1>5, <1>7, <1>9, EvaluateSum
<1> QED
  BY <1>2, <1>8, <1>9, <1>10

-----------------------------------------------------------------------------
\* The value from the shares of the threads is the one from the highest coefficient
\* down, for any number of threads, also one that is no divisor of the length.
LEMMA FastEvaluateIs ==
  ASSUME NEW n \in Nat, NEW p \in [0..(n - 1) -> Fr], NEW x \in Fr, NEW nThreads \in Nat \ {0},
         NEW c, \A e \in 0..(n - 1) : c[e] = p[e]
  PROVE  fastEvaluate(c, n, x, nThreads) = evaluateAt(p, x)
<1> DEFINE q == n \div nThreads
           share(i) == IF i = nThreads - 1 THEN q + (n % nThreads) ELSE q
           part(i) == [j \in 0..(share(i) - 1) |-> c[i * q + j]]
           xN == power(x, share(0))
           term == [i \in 0..(nThreads - 1) |-> mul(power(xN, i), evaluate(part(i), x))]
           begin(m) == [e \in 0..(m - 1) |-> p[e]]
           terms(k) == [i \in 0..(k - 1) |-> mul(power(xN, i), evaluate(part(i), x))]
<1>1. /\ q \in Nat /\ n % nThreads \in Nat /\ n = nThreads * q + (n % nThreads)
  OBVIOUS
<1>2. \A k \in Nat : k <= nThreads - 1 =>
        /\ k * q \in Nat /\ share(k) \in Nat /\ k * q + share(k) <= n
        /\ k = nThreads - 1 => k * q + share(k) = n
        /\ k # nThreads - 1 => k * q + share(k) = (k + 1) * q
  <2> SUFFICES ASSUME NEW k \in Nat, k <= nThreads - 1
               PROVE  /\ k * q \in Nat /\ share(k) \in Nat /\ k * q + share(k) <= n
                      /\ k = nThreads - 1 => k * q + share(k) = n
                      /\ k # nThreads - 1 => k * q + share(k) = (k + 1) * q
    OBVIOUS
  <2> HIDE DEF q
  <2>1. k * q \in Nat /\ (k + 1) * q = k * q + q /\ (k + 1) * q \in Nat
    BY <1>1
  <2>2. (k + 1) * q <= nThreads * q
    <3>1. (nThreads - (k + 1)) * q \in Nat /\ (nThreads - (k + 1)) * q = nThreads * q - (k + 1) * q
      BY <1>1
    <3>2. nThreads * q \in Nat
      BY <1>1
    <3> QED
      BY <2>1, <3>1, <3>2
  <2>3. CASE k = nThreads - 1
    <3>1. k + 1 = nThreads
      BY <2>3
    <3>2. k * q + q = nThreads * q
      BY <2>1, <3>1
    <3> QED
      BY <1>1, <2>1, <2>3, <3>2
  <2>4. CASE k # nThreads - 1
    BY <1>1, <2>1, <2>2, <2>4
  <2> QED
    BY <2>3, <2>4
<1>3. \A k \in Nat : k <= nThreads - 1 => power(xN, k) = power(x, k * q) /\ power(xN, k) \in Fr
  <2> SUFFICES ASSUME NEW k \in Nat, k <= nThreads - 1
               PROVE  power(xN, k) = power(x, k * q) /\ power(xN, k) \in Fr
    OBVIOUS
  <2>1. xN \in Fr
    <3>1. 0 \in Nat /\ 0 <= nThreads - 1
      OBVIOUS
    <3>2. share(0) \in Nat
      BY <1>2, <3>1
    <3> HIDE DEF share
    <3> QED
      BY <3>2, PowerType
  <2>2. CASE k = 0
    <3>1. k * q = 0
      BY <1>1, <2>2
    <3> QED
      BY <2>1, <2>2, <3>1, PowerStep, PIsNat
  <2>3. CASE k # 0
    <3>1. share(0) = q
      BY <2>3
    <3>2. q * k = k * q
      BY <1>1
    <3> HIDE DEF q, share
    <3>3. power(x, q * k) = power(power(x, q), k)
      BY <1>1, PowerOfPower
    <3> QED
      BY <2>1, <3>1, <3>2, <3>3, PowerType
  <2> QED
    BY <2>2, <2>3
<1>4. \A k \in Nat : begin(k) = [e \in 0..(k - 1) |-> p[e]]
  OBVIOUS
<1>5. ASSUME NEW k \in Nat, k <= nThreads - 1
      PROVE  /\ mul(power(xN, k), evaluate(part(k), x)) \in Fr
             /\ evaluateAt(begin(k * q + share(k)), x)
                  = add(evaluateAt(begin(k * q), x), mul(power(xN, k), evaluate(part(k), x)))
             /\ evaluateAt(begin(k * q), x) \in Fr
  <2> DEFINE m == k * q  l == share(k)  h == part(k)  r == begin(m + l)
  <2>1. m \in Nat /\ l \in Nat /\ m + l <= n
    BY <1>2, <1>5
  <2>2. h = [e \in 0..(l - 1) |-> c[m + e]]
    OBVIOUS
  <2>3. r = [e \in 0..((m + l) - 1) |-> p[e]] /\ begin(m) = [e \in 0..(m - 1) |-> p[e]]
    BY <2>1
  <2>4. power(xN, k) = power(x, m) /\ power(xN, k) \in Fr
    BY <1>3, <1>5
  <2> HIDE DEF m, l, h, r, begin, part, share, xN
  <2>5. r \in [0..((m + l) - 1) -> Fr]
    <3>1. \A e \in 0..((m + l) - 1) : e \in 0..(n - 1)
      BY <2>1
    <3> QED
      BY <2>3, <3>1
  <2>6. AreParts(begin(m), h, r, m, l)
    <3>1. \A e \in 0..(m - 1) : e \in 0..((m + l) - 1)
      BY <2>1
    <3>2. \A e \in 0..(l - 1) : m + e \in 0..((m + l) - 1) /\ m + e \in 0..(n - 1)
      BY <2>1
    <3> QED
      BY <2>2, <2>3, <3>1, <3>2 DEF AreParts
  <2>7. /\ begin(m) \in [0..(m - 1) -> Fr] /\ h \in [0..(l - 1) -> Fr]
        /\ evaluateAt(r, x) = add(evaluateAt(begin(m), x), mul(power(x, m), evaluateAt(h, x)))
    BY <2>1, <2>5, <2>6, EvaluateParts
  <2>8. evaluate(h, x) = evaluateAt(h, x) /\ evaluateAt(h, x) \in Fr /\ evaluateAt(begin(m), x) \in Fr
    BY <2>1, <2>7, EvaluateTerms, EvaluateType
  <2>9. /\ mul(power(xN, k), evaluate(h, x)) \in Fr
        /\ evaluateAt(begin(m + l), x) = add(evaluateAt(begin(m), x), mul(power(xN, k), evaluate(h, x)))
    BY <2>4, <2>7, <2>8, Operations DEF r
  <2> QED
    BY <2>8, <2>9 DEF m, l, h
<1> DEFINE K == {k \in Nat : k <= nThreads - 1 =>
                    sum(terms(k)) = evaluateAt(begin(k * q), x) /\ sum(terms(k)) \in Fr}
<1>6. ASSUME NEW k \in Nat, k <= nThreads - 1, k \in K
      PROVE  sum(terms(k + 1)) = evaluateAt(begin(k * q + share(k)), x) /\ sum(terms(k + 1)) \in Fr
  <2> DEFINE g == terms(k + 1)
  <2>1. g = [i \in 0..k |-> mul(power(xN, i), evaluate(part(i), x))]
    <3>1. 0..((k + 1) - 1) = 0..k
      OBVIOUS
    <3> HIDE DEF part, xN, share, q
    <3> QED
      BY <3>1
  <2>2. \A i \in 0..k : i \in Nat /\ i <= nThreads - 1 /\ mul(power(xN, i), evaluate(part(i), x)) \in Fr
    <3> HIDE DEF part, xN, share, q, K
    <3>1. \A i \in 0..k : i \in Nat /\ i <= nThreads - 1
      BY <1>6
    <3> QED
      BY <1>5, <3>1
  <2>3. terms(k) = [i \in 0..(k - 1) |-> mul(power(xN, i), evaluate(part(i), x))]
    OBVIOUS
  <2>4. sum(terms(k)) = evaluateAt(begin(k * q), x) /\ sum(terms(k)) \in Fr
    BY <1>6
  <2> HIDE DEF terms, part, xN, share, begin, K, q
  <2>5. g \in [0..k -> Fr] /\ g[k] = mul(power(xN, k), evaluate(part(k), x))
    BY <2>1, <2>2
  <2>6. terms(k) = [i \in 0..(k - 1) |-> g[i]]
    BY <2>1, <2>3
  <2> HIDE DEF g
  <2>7. sum(g) = add(g[k], sum(terms(k)))
    BY <2>5, <2>6, SumOfNext
  <2>8. sum(g) = evaluateAt(begin(k * q + share(k)), x) /\ sum(g) \in Fr
    BY <1>5, <1>6, <2>4, <2>5, <2>7, AddLaws, Operations
  <2> QED
    BY <2>8 DEF g
<1>7. 0 \in K
  <2>1. terms(0) \in [0..(0 - 1) -> Fr] /\ 0..(0 - 1) = {}
    OBVIOUS
  <2>2. sum(terms(0)) = 0
    BY <2>1, SumLaws, FS_EmptySet
  <2>3. 0 * q = 0 /\ begin(0) = [e \in 0..(0 - 1) |-> p[e]]
    BY <1>1
  <2>4. begin(0) \in [0..(0 - 1) -> Fr]
    BY <2>1, <2>3
  <2> HIDE DEF terms, begin, q
  <2>5. evaluateAt(begin(0), x) = 0
    BY <2>4, EvaluateNone
  <2> QED
    BY <2>2, <2>3, <2>5, PIsNat
<1>8. ASSUME NEW k \in Nat, k \in K
      PROVE  k + 1 \in K
  <2> HIDE DEF terms, begin, share, q
  <2> SUFFICES ASSUME k + 1 <= nThreads - 1
               PROVE  sum(terms(k + 1)) = evaluateAt(begin((k + 1) * q), x) /\ sum(terms(k + 1)) \in Fr
    OBVIOUS
  <2>1. k <= nThreads - 1 /\ k # nThreads - 1
    OBVIOUS
  <2>2. k * q + share(k) = (k + 1) * q
    BY <1>2, <2>1
  <2> HIDE DEF K, terms, begin, share, q
  <2> QED
    BY <1>6, <1>8, <2>1, <2>2
<1>9. \A k \in Nat : k \in K
  <2> HIDE DEF K
  <2> QED
    BY <1>7, <1>8, Induction
<1> DEFINE k == nThreads - 1
<1>10. k \in Nat /\ k <= nThreads - 1 /\ k + 1 = nThreads
  OBVIOUS
<1>11. k * q + share(k) = n
  BY <1>2, <1>10
<1>12. fastEvaluate(c, n, x, nThreads) = sum(terms(nThreads))
  BY DEF fastEvaluate
<1>13. begin(n) = p
  OBVIOUS
<1> HIDE DEF K, terms, begin, share, q, k
<1> QED
  BY <1>6, <1>9, <1>10, <1>11, <1>12, <1>13

-----------------------------------------------------------------------------
\* The sum of one more value.
LEMMA SumOfOneMore ==
  ASSUME NEW n \in Nat, NEW g \in [1..(n + 1) -> Fr], NEW h, h = [k \in 1..n |-> g[k]]
  PROVE  sum(h) \in Fr /\ sum(g) = add(g[n + 1], sum(h))
<1>1. h \in [1..n -> Fr] /\ IsFiniteSet(1..n) /\ IsFiniteSet(1..(n + 1)) /\ n + 1 \in 1..(n + 1)
  BY FS_Interval
<1>2. Restrict(g, (1..(n + 1)) \ {n + 1}) = h
  <2>1. (1..(n + 1)) \ {n + 1} = 1..n
    OBVIOUS
  <2> QED
    BY <2>1 DEF Restrict
<1> QED
  BY <1>1, <1>2, SumLaws

\* Where row q of the polynomial that is the r-th one of n is: nothing else is there.
LEMMA PlaceOfRow ==
  ASSUME NEW n \in Nat \ {0}, NEW q \in Nat, NEW r \in 0..(n - 1)
  PROVE  /\ n * q + r \in Nat
         /\ \A e \in Nat : /\ e \div n \in Nat /\ e % n \in 0..(n - 1)
                           /\ e = n * q + r <=> e \div n = q /\ e % n = r
<1>1. \A e \in Nat : e \div n \in Nat /\ e % n \in 0..(n - 1) /\ e = n * (e \div n) + (e % n)
  OBVIOUS
<1>2. n * q \in Nat
  OBVIOUS
<1>3. ASSUME NEW e \in Nat, e = n * q + r
      PROVE  e \div n = q /\ e % n = r
  <2> DEFINE d == e \div n
             m == e % n
  <2>1. d \in Nat /\ m \in 0..(n - 1) /\ n * d + m = n * q + r
    BY <1>1, <1>3
  <2> HIDE DEF d, m
  <2>2. n * d \in Nat /\ n * (d - q) = n * d - n * q /\ n * (q - d) = n * q - n * d
    BY <2>1
  <2>3. ASSUME d > q PROVE FALSE
    <3>1. d - q >= 1 /\ d - q \in Nat
      BY <2>1, <2>3
    <3>2. n * (d - q) >= n
      BY <3>1
    <3> QED
      BY <1>2, <2>1, <2>2, <3>2
  <2>4. ASSUME d < q PROVE FALSE
    <3>1. q - d >= 1 /\ q - d \in Nat
      BY <2>1, <2>4
    <3>2. n * (q - d) >= n
      BY <3>1
    <3> QED
      BY <1>2, <2>1, <2>2, <3>2
  <2>5. d = q
    BY <2>1, <2>3, <2>4
  <2>6. m = r
    BY <1>2, <2>1, <2>5
  <2> QED
    BY <2>5, <2>6 DEF d, m
<1> QED
  BY <1>1, <1>2, <1>3

\* The first l rows of a polynomial, as the interleaving has them: c of D + 1 places,
\* n apart from place r on.
IsSpread(c, col, D, n, r, l) ==
  c = [e \in 0..D |-> IF e % n = r /\ e \div n < l THEN col[e \div n] ELSE 0]

\* The value of one polynomial, interleaved with zeros.
LEMMA EvaluateSpread ==
  ASSUME NEW D \in Nat, NEW n \in Nat \ {0}, NEW r \in 0..(n - 1), NEW L \in Nat,
         L * n + r <= D, NEW col \in [0..(L - 1) -> Fr], NEW x \in Fr,
         NEW c, IsSpread(c, col, D, n, r, L)
  PROVE  /\ c \in [0..D -> Fr]
         /\ evaluateAt(c, x) = mul(power(x, r), evaluateAt(col, power(x, n)))
<1> DEFINE m == D + 1
           rows(l) == [row \in 0..(l - 1) |-> col[row]]
           spread(l) == [e \in 0..D |-> IF e % n = r /\ e \div n < l THEN col[e \div n] ELSE 0]
           X == power(x, n)
           K == {l \in Nat : l <= L =>
                   evaluateAt(spread(l), x) = mul(power(x, r), evaluateAt(rows(l), X))}
<1>1. m \in Nat /\ m - 1 = D /\ n \in Nat /\ r \in Nat /\ 0 \in 0..(m - 1)
  OBVIOUS
<1>2. X \in Fr /\ power(x, r) \in Fr
  BY <1>1, PowerType
<1> HIDE DEF m, X
<1>3. \A l \in Nat : l <= L => spread(l) \in [0..(m - 1) -> Fr] /\ rows(l) \in [0..(l - 1) -> Fr]
  <2> SUFFICES ASSUME NEW l \in Nat, l <= L
               PROVE  spread(l) \in [0..(m - 1) -> Fr] /\ rows(l) \in [0..(l - 1) -> Fr]
    OBVIOUS
  <2>1. \A row \in 0..(l - 1) : col[row] \in Fr
    OBVIOUS
  <2>2. \A e \in 0..D : e \div n < l => e \div n \in 0..(l - 1)
    OBVIOUS
  <2> QED
    BY <1>1, <2>1, <2>2, PIsNat
<1>4. 0 \in K
  <2>1. IsMultiple(spread(0), spread(0), 0, m)
    <3>1. \A e \in 0..D : ~(e \div n < 0) /\ mul(0, 0) = 0
      BY ZeroFactor, PIsNat
    <3>2. \A e \in 0..D : spread(0)[e] = 0
      BY <3>1
    <3>3. spread(0) = [e \in 0..D |-> spread(0)[e]]
      OBVIOUS
    <3> HIDE DEF spread
    <3> QED
      BY <1>1, <3>1, <3>2, <3>3 DEF IsMultiple
  <2>2. spread(0) \in [0..(m - 1) -> Fr]
    BY <1>3
  <2>4. rows(0) \in [0..(0 - 1) -> Fr]
    BY <1>3
  <2> HIDE DEF rows, spread
  <2>5. evaluateAt(rows(0), X) = 0
    BY <1>2, <2>4, EvaluateNone
  <2>6. evaluateAt(spread(0), x) = mul(0, evaluateAt(spread(0), x)) /\ evaluateAt(spread(0), x) \in Fr
    <3> DEFINE u == spread(0)
    <3>1. IsMultiple(u, u, 0, m) /\ u \in [0..(m - 1) -> Fr]
      BY <2>1, <2>2
    <3>2. m \in Nat /\ 0 \in Fr
      BY <1>1, PIsNat
    <3> HIDE DEF u
    <3>3. evaluateAt(u, x) = mul(0, evaluateAt(u, x))
      BY <3>1, <3>2, EvaluateMultiple
    <3>4. evaluateAt(u, x) \in Fr
      BY <3>1, <3>2, EvaluateType
    <3> QED
      BY <3>3, <3>4 DEF u
  <2> QED
    BY <1>2, <2>5, <2>6, ZeroFactor
<1>5. ASSUME NEW l \in Nat, l \in K
      PROVE  l + 1 \in K
  <2> HIDE DEF rows, spread
  <2> SUFFICES ASSUME l + 1 <= L
               PROVE  evaluateAt(spread(l + 1), x) = mul(power(x, r), evaluateAt(rows(l + 1), X))
    OBVIOUS
  <2> HIDE DEF K
  <2> DEFINE place == n * l + r
             single == [e \in 0..(m - 1) |-> IF e = place THEN col[l] ELSE 0]
             next == spread(l + 1)
             here == spread(l)
             nextRows == rows(l + 1)
             hereRows == rows(l)
  <2>1. place \in Nat /\ place \in 0..(m - 1)
    <3>1. n * l \in Nat /\ L * n = n * l + n * (L - l) /\ n * (L - l) >= 0
      <4>1. L - l \in Nat
        OBVIOUS
      <4> QED
        BY <4>1
    <3> QED
      BY <1>1, <3>1
  <2>2. /\ next \in [0..(m - 1) -> Fr] /\ here \in [0..(m - 1) -> Fr]
        /\ nextRows \in [0..l -> Fr] /\ hereRows \in [0..(l - 1) -> Fr]
    <3>1. l <= L /\ l + 1 <= L /\ l + 1 \in Nat /\ 0..((l + 1) - 1) = 0..l
      OBVIOUS
    <3> QED
      BY <1>3, <3>1
  <2>3. col[l] \in Fr /\ nextRows[l] = col[l] /\ hereRows = [row \in 0..(l - 1) |-> nextRows[row]]
    <3>1. l \in 0..(L - 1) /\ 0..((l + 1) - 1) = 0..l /\ \A row \in 0..(l - 1) : row \in 0..l
      OBVIOUS
    <3> QED
      BY <3>1 DEF rows
  <2>4. IsSum(next, single, here, m)
    <3>1. next = [e \in 0..(m - 1) |-> next[e]]
      BY <2>2
    <3>2. ASSUME NEW e \in 0..(m - 1)
          PROVE  next[e] = add(single[e], here[e])
      <4>0. e \in Nat /\ e \in 0..D /\ e \div n \in Nat
        BY <1>1
      <4>1. /\ next[e] = IF e % n = r /\ e \div n < l + 1 THEN col[e \div n] ELSE 0
            /\ here[e] = IF e % n = r /\ e \div n < l THEN col[e \div n] ELSE 0
            /\ single[e] = IF e = place THEN col[l] ELSE 0
        BY <4>0 DEF spread
      <4>2. e = place <=> e \div n = l /\ e % n = r
        BY <4>0, PlaceOfRow
      <4>3. here[e] \in Fr
        BY <2>2
      <4> HIDE DEF next, here, single, place
      <4>4. CASE e = place
        <5>1. next[e] = col[l] /\ here[e] = 0 /\ single[e] = col[l]
          BY <4>1, <4>2, <4>4
        <5> QED
          BY <2>3, <5>1, ZeroLaws
      <4>5. CASE e # place
        <5>1. next[e] = here[e] /\ single[e] = 0
          BY <4>0, <4>1, <4>2, <4>5
        <5> QED
          BY <4>3, <5>1, AddLaws
      <4> QED
        BY <4>4, <4>5
    <3> HIDE DEF next, here, single
    <3> QED
      BY <3>1, <3>2 DEF IsSum
  <2>5. /\ single \in [0..(m - 1) -> Fr]
        /\ evaluateAt(single, x) = mul(col[l], power(x, place))
    <3>1. single = [e \in 0..(m - 1) |-> IF e = place THEN col[l] ELSE 0]
      OBVIOUS
    <3>2. m \in Nat
      BY <1>1
    <3>3. place \in 0..(m - 1) /\ col[l] \in Fr
      BY <2>1, <2>3
    <3> HIDE DEF single, place, m
    <3> QED
      BY <3>1, <3>2, <3>3, EvaluateMonomial
  <2>6. power(x, place) = mul(power(X, l), power(x, r)) /\ power(X, l) \in Fr
    <3>1. n * l \in Nat
      BY <1>1
    <3>2. power(x, place) = mul(power(x, n * l), power(x, r))
      BY <1>1, <3>1, PowerOfSum
    <3>3. power(x, n * l) = power(X, l)
      BY <1>1, PowerOfPower DEF X
    <3> QED
      BY <1>2, <3>2, <3>3, PowerType
  <2> HIDE DEF next, here, single, place, nextRows, hereRows
  <2>7. evaluateAt(next, x) = add(evaluateAt(single, x), evaluateAt(here, x))
    <3>1. m \in Nat
      BY <1>1
    <3>2. single \in [0..(m - 1) -> Fr]
      BY <2>5
    <3>3. here \in [0..(m - 1) -> Fr]
      BY <2>2
    <3> QED
      BY <2>4, <3>1, <3>2, <3>3, EvaluateSum, SMTT(60)
  <2>8. evaluateAt(nextRows, X) = add(mul(nextRows[l], power(X, l)), evaluateAt(hereRows, X))
    BY <1>2, <2>2, <2>3, EvaluateLast
  <2>9. evaluateAt(here, x) = mul(power(x, r), evaluateAt(hereRows, X))
    BY <1>5 DEF K, here, hereRows
  <2>10. evaluateAt(hereRows, X) \in Fr
    BY <1>2, <2>2, EvaluateType
  <2> DEFINE a == col[l]
             b == power(X, l)
             d == power(x, r)
  <2>11. mul(a, mul(b, d)) = mul(d, mul(a, b)) /\ mul(a, b) \in Fr
    <3>1. a \in Fr /\ b \in Fr /\ d \in Fr
      BY <1>2, <2>3, <2>6
    <3> HIDE DEF a, b, d
    <3> QED
      BY <3>1, MulLaws, Operations
  <2>12. mul(d, add(mul(a, b), evaluateAt(hereRows, X)))
           = add(mul(d, mul(a, b)), mul(d, evaluateAt(hereRows, X)))
    BY <1>2, <2>10, <2>11, Distributive
  <2>13. evaluateAt(next, x) = mul(d, evaluateAt(nextRows, X))
    BY <2>3, <2>5, <2>6, <2>7, <2>8, <2>9, <2>11, <2>12
  <2> QED
    BY <2>13 DEF next, nextRows
<1>6. L \in K
  <2> HIDE DEF K
  <2> QED
    BY <1>4, <1>5, Induction
<1>7. c = spread(L) /\ rows(L) = col
  BY DEF IsSpread
<1>8. L <= L /\ L \in Nat
  OBVIOUS
<1>9. evaluateAt(c, x) = mul(power(x, r), evaluateAt(col, X)) /\ c \in [0..(m - 1) -> Fr]
  <2>1. evaluateAt(spread(L), x) = mul(power(x, r), evaluateAt(rows(L), X))
    BY <1>6, <1>8
  <2> HIDE DEF spread, rows
  <2> QED
    BY <1>3, <1>7, <1>8, <2>1
<1> QED
  BY <1>1, <1>9 DEF X

-----------------------------------------------------------------------------
\* r has n polynomials of D + 1 places in all, their coefficients in turns.
IsInterleaved(r, cols, lens, D, n) ==
  r = [e \in 0..D |-> IF e \div n < lens[(e % n) + 1] THEN cols[(e % n) + 1][e \div n] ELSE 0]
AreColumns(cols, lens, D, n) ==
  \A j \in 1..n : /\ lens[j] \in Nat /\ cols[j] \in [0..(lens[j] - 1) -> Fr]
                  /\ lens[j] * n + (j - 1) <= D

\* The value of interleaved polynomials from those of each: where the n-th power of
\* the place is the same, so are the values they are computed from.
LEMMA EvaluateInterleaved ==
  ASSUME NEW D \in Nat, NEW n \in Nat \ {0}, NEW lens, NEW cols, AreColumns(cols, lens, D, n),
         NEW x \in Fr, NEW r, IsInterleaved(r, cols, lens, D, n)
  PROVE  /\ r \in [0..D -> Fr]
         /\ evaluateAt(r, x)
              = sum([j \in 1..n |-> mul(power(x, j - 1), evaluateAt(cols[j], power(x, n)))])
<1> DEFINE m == D + 1
           X == power(x, n)
           term(j) == mul(power(x, j - 1), evaluateAt(cols[j], X))
           terms(k) == [j \in 1..k |-> term(j)]
           upTo(k) == [e \in 0..D |-> IF e % n < k THEN r[e] ELSE 0]
           K == {k \in Nat : k <= n => evaluateAt(upTo(k), x) = sum(terms(k))}
<1>1. m \in Nat /\ m - 1 = D /\ n \in Nat /\ 0 \in Fr /\ X \in Fr
  <2>1. n \in Nat
    OBVIOUS
  <2> QED
    BY <2>1, PIsNat, PowerType
<1> HIDE DEF m, X
<1>2. \A e \in 0..D : e \in Nat /\ e \div n \in Nat /\ e % n \in 0..(n - 1) /\ (e % n) + 1 \in 1..n
  OBVIOUS
<1>3. \A j \in 1..n : /\ lens[j] \in Nat /\ cols[j] \in [0..(lens[j] - 1) -> Fr]
                      /\ lens[j] * n + (j - 1) <= D
  BY DEF AreColumns
<1>4. r \in [0..D -> Fr]
      /\ \A e \in 0..D : r[e] = IF e \div n < lens[(e % n) + 1] THEN cols[(e % n) + 1][e \div n] ELSE 0
  <2>1. ASSUME NEW e \in 0..D, e \div n < lens[(e % n) + 1]
        PROVE  cols[(e % n) + 1][e \div n] \in Fr
    <3> DEFINE j == (e % n) + 1
               row == e \div n
    <3>1. j \in 1..n /\ row \in Nat /\ row < lens[j]
      BY <1>2, <2>1
    <3> HIDE DEF j, row
    <3>2. row \in 0..(lens[j] - 1)
      BY <1>3, <3>1
    <3>3. cols[j][row] \in Fr
      BY <1>3, <3>1, <3>2
    <3> QED
      BY <3>3 DEF j, row
  <2> QED
    BY <1>1, <2>1 DEF IsInterleaved
<1>5. \A k \in Nat : upTo(k) \in [0..(m - 1) -> Fr]
  BY <1>1, <1>4
<1>6. \A j \in 1..n : term(j) \in Fr
  <2> SUFFICES ASSUME NEW j \in 1..n
               PROVE  term(j) \in Fr
    OBVIOUS
  <2>1. j - 1 \in Nat /\ lens[j] \in Nat /\ cols[j] \in [0..(lens[j] - 1) -> Fr]
    BY <1>3
  <2>2. power(x, j - 1) \in Fr /\ evaluateAt(cols[j], X) \in Fr
    BY <1>1, <2>1, PowerType, EvaluateType
  <2> QED
    BY <2>2, Operations
<1>7. 0 \in K
  <2>1. IsMultiple(upTo(0), upTo(0), 0, m)
    <3>1. \A e \in 0..D : ~(e % n < 0) /\ mul(0, 0) = 0
      BY <1>2, ZeroFactor, PIsNat
    <3>2. \A e \in 0..D : upTo(0)[e] = 0
      BY <3>1
    <3>3. upTo(0) = [e \in 0..D |-> upTo(0)[e]]
      OBVIOUS
    <3> HIDE DEF upTo
    <3> QED
      BY <1>1, <3>1, <3>2, <3>3 DEF IsMultiple
  <2> DEFINE u == upTo(0)
  <2>2. IsMultiple(u, u, 0, m) /\ u \in [0..(m - 1) -> Fr] /\ m \in Nat /\ 0 \in Fr
    BY <1>1, <1>5, <2>1
  <2>3. terms(0) \in [{} -> Fr]
    <3>1. 1..0 = {}
      OBVIOUS
    <3> QED
      BY <3>1
  <2> HIDE DEF u, terms
  <2>4. evaluateAt(u, x) = mul(0, evaluateAt(u, x))
    BY <2>2, EvaluateMultiple
  <2>5. evaluateAt(u, x) \in Fr
    BY <2>2, EvaluateType
  <2>6. sum(terms(0)) = 0
    BY <2>3, SumLaws, FS_EmptySet
  <2> QED
    BY <2>4, <2>5, <2>6, ZeroFactor DEF u
<1>8. ASSUME NEW k \in Nat, k \in K
      PROVE  k + 1 \in K
  <2> HIDE DEF upTo, terms, term
  <2> SUFFICES ASSUME k + 1 <= n
               PROVE  evaluateAt(upTo(k + 1), x) = sum(terms(k + 1))
    OBVIOUS
  <2>0. evaluateAt(upTo(k), x) = sum(terms(k))
    <3>1. k <= n
      BY <1>1
    <3> QED
      BY <1>8, <3>1
  <2> HIDE DEF K
  <2> DEFINE j == k + 1
             L == lens[j]
             col == cols[j]
             c == [e \in 0..D |-> IF e % n = k /\ e \div n < L THEN col[e \div n] ELSE 0]
             next == upTo(j)
             here == upTo(k)
  <2>1. j \in 1..n /\ j \in Nat /\ j - 1 = k /\ k \in 0..(n - 1)
    BY <1>1
  <2>2. L \in Nat /\ col \in [0..(L - 1) -> Fr] /\ L * n + k <= D
    BY <1>3, <2>1
  <2>3. /\ c \in [0..D -> Fr]
        /\ evaluateAt(c, x) = mul(power(x, k), evaluateAt(col, X))
    <3>1. IsSpread(c, col, D, n, k, L)
      BY DEF IsSpread
    <3> HIDE DEF c, col, L
    <3> QED
      BY <2>1, <2>2, <3>1, EvaluateSpread DEF X
  <2>4. next \in [0..(m - 1) -> Fr] /\ here \in [0..(m - 1) -> Fr]
    BY <1>5, <2>1
  <2>5. IsSum(next, c, here, m)
    <3>1. next = [e \in 0..(m - 1) |-> next[e]]
      BY <2>4
    <3>2. ASSUME NEW e \in 0..(m - 1)
          PROVE  next[e] = add(c[e], here[e])
      <4>1. e \in 0..D /\ e % n \in 0..(n - 1)
        BY <1>1, <1>2
      <4>2. /\ next[e] = IF e % n < k + 1 THEN r[e] ELSE 0
            /\ here[e] = IF e % n < k THEN r[e] ELSE 0
            /\ c[e] = IF e % n = k /\ e \div n < L THEN col[e \div n] ELSE 0
            /\ r[e] = IF e \div n < lens[(e % n) + 1] THEN cols[(e % n) + 1][e \div n] ELSE 0
        BY <1>4, <4>1 DEF upTo
      <4>3. here[e] \in Fr /\ c[e] \in Fr
        BY <2>3, <2>4, <4>1
      <4> HIDE DEF next, here, c
      <4>4. CASE e % n = k
        <5>1. next[e] = c[e] /\ here[e] = 0
          BY <4>1, <4>2, <4>4
        <5> QED
          BY <4>3, <5>1, ZeroLaws
      <4>5. CASE e % n # k
        <5>1. next[e] = here[e] /\ c[e] = 0
          BY <2>1, <4>1, <4>2, <4>5
        <5> QED
          BY <4>3, <5>1, AddLaws
      <4> QED
        BY <4>4, <4>5
    <3> HIDE DEF next, here, c
    <3> QED
      BY <3>1, <3>2 DEF IsSum
  <2> DEFINE g == terms(j)
             h == terms(k)
  <2>6. g \in [1..(k + 1) -> Fr] /\ h = [i \in 1..k |-> g[i]] /\ g[k + 1] = term(j)
    <3>1. \A i \in 1..(k + 1) : i \in 1..n
      BY <2>1
    <3>2. \A i \in 1..k : i \in 1..(k + 1)
      BY <2>1
    <3> QED
      BY <1>6, <2>1, <3>1, <3>2 DEF terms
  <2> HIDE DEF c, col, L, next, here, g, h
  <2>7. evaluateAt(next, x) = add(evaluateAt(c, x), evaluateAt(here, x))
    <3>1. c \in [0..(m - 1) -> Fr] /\ m \in Nat
      BY <1>1, <2>3
    <3>2. here \in [0..(m - 1) -> Fr]
      BY <2>4
    <3> QED
      BY <2>5, <3>1, <3>2, EvaluateSum, SMTT(60)
  <2>8. sum(g) = add(g[k + 1], sum(h))
    BY <2>6, SumOfOneMore
  <2>9. g[k + 1] = mul(power(x, k), evaluateAt(col, X))
    BY <2>1, <2>6 DEF term, col
  <2>10. evaluateAt(here, x) = sum(h)
    BY <2>0 DEF here, h
  <2>11. evaluateAt(next, x) = sum(g)
    BY <2>3, <2>7, <2>8, <2>9, <2>10
  <2> QED
    BY <2>11 DEF next, g
<1>9. n \in K
  <2> HIDE DEF K
  <2> QED
    BY <1>1, <1>7, <1>8, Induction
<1>10. upTo(n) = r
  <2>1. \A e \in 0..D : e % n < n
    BY <1>2
  <2> QED
    BY <1>4, <2>1
<1>11. evaluateAt(r, x) = sum(terms(n))
  <2>1. n <= n
    BY <1>1
  <2>2. evaluateAt(upTo(n), x) = sum(terms(n))
    <3> HIDE DEF upTo, terms
    <3> QED
      BY <1>9, <2>1
  <2> HIDE DEF upTo, terms
  <2> QED
    BY <1>10, <2>2
<1> QED
  BY <1>4, <1>11 DEF X

-----------------------------------------------------------------------------
\* g has the first k values of a function each of whose values is step's, of its
\* place and of the value n places before.
IsRecurrence(g, step, n, k) ==
  \A e \in 0..(k - 1) : g[e] \in Fr /\ g[e] = step[<<e, IF e < n THEN 0 ELSE g[e - n]>>]

\* Such values are determined,
LEMMA RecurrenceUnique ==
  ASSUME NEW n \in Nat \ {0}, NEW step, NEW k \in Nat, NEW l \in Nat,
         NEW g, IsRecurrence(g, step, n, k), NEW h, IsRecurrence(h, step, n, l),
         NEW e \in Nat, e < k, e < l
  PROVE  g[e] = h[e]
<1> DEFINE S == {m \in Nat : \A j \in Nat : j < m /\ j < k /\ j < l => g[j] = h[j]}
<1>1. 0 \in S
  OBVIOUS
<1>2. ASSUME NEW m \in Nat, m \in S
      PROVE  m + 1 \in S
  <2>1. ASSUME NEW j \in Nat, j < m + 1, j < k, j < l
        PROVE  g[j] = h[j]
    <3>1. j \in 0..(k - 1) /\ j \in 0..(l - 1)
      BY <2>1
    <3>2. /\ g[j] = step[<<j, IF j < n THEN 0 ELSE g[j - n]>>]
          /\ h[j] = step[<<j, IF j < n THEN 0 ELSE h[j - n]>>]
      BY <3>1 DEF IsRecurrence
    <3>3. ~(j < n) => j - n \in Nat /\ j - n < m /\ j - n < k /\ j - n < l
      BY <2>1
    <3>4. ~(j < n) => g[j - n] = h[j - n]
      BY <1>2, <3>3
    <3> QED
      BY <3>2, <3>4
  <2> QED
    BY <2>1
<1> HIDE DEF S
<1>3. e + 1 \in S
  <2>1. e + 1 \in Nat
    OBVIOUS
  <2> QED
    BY <1>1, <1>2, <2>1, Induction
<1> QED
  BY <1>3 DEF S

\* and there are any number of them,
LEMMA RecurrenceExists ==
  ASSUME NEW n \in Nat \ {0}, NEW step \in [Nat \X Fr -> Fr], NEW k \in Nat
  PROVE  \E g : IsRecurrence(g, step, n, k)
<1> DEFINE S == {m \in Nat : \E g : IsRecurrence(g, step, n, m)}
<1>1. 0 \in S
  <2>1. IsRecurrence(step, step, n, 0)
    BY DEF IsRecurrence
  <2> QED
    BY <2>1
<1>2. ASSUME NEW m \in Nat, m \in S
      PROVE  m + 1 \in S
  <2>1. PICK g : IsRecurrence(g, step, n, m)
    BY <1>2
  <2> DEFINE before == IF m < n THEN 0 ELSE g[m - n]
             next == step[<<m, before>>]
             h == [e \in Nat |-> IF e < m THEN g[e] ELSE next]
  <2>2. next \in Fr
    <3>1. ~(m < n) => m - n \in 0..(m - 1)
      OBVIOUS
    <3>2. before \in Fr
      BY <2>1, <3>1, PIsNat DEF IsRecurrence
    <3> HIDE DEF before
    <3> QED
      BY <3>2
  <2>3. h[m] = next /\ \A e \in Nat : e < m => h[e] = g[e]
    OBVIOUS
  <2> HIDE DEF h
  <2>4. ASSUME NEW e \in 0..((m + 1) - 1)
        PROVE  h[e] \in Fr /\ h[e] = step[<<e, IF e < n THEN 0 ELSE h[e - n]>>]
    <3>1. CASE e < m
      <4>1. e \in 0..(m - 1) /\ e \in Nat /\ (~(e < n) => e - n \in Nat /\ e - n < m)
        BY <3>1
      <4>2. g[e] \in Fr /\ g[e] = step[<<e, IF e < n THEN 0 ELSE g[e - n]>>]
        BY <2>1, <4>1 DEF IsRecurrence
      <4> QED
        BY <2>3, <3>1, <4>1, <4>2
    <3>2. CASE ~(e < m)
      <4>1. e = m /\ (~(m < n) => m - n \in Nat /\ m - n < m)
        BY <3>2
      <4>2. ~(m < n) => h[m - n] = g[m - n]
        BY <2>3, <4>1
      <4> QED
        BY <2>2, <2>3, <4>1, <4>2
    <3> QED
      BY <3>1, <3>2
  <2>5. IsRecurrence(h, step, n, m + 1)
    BY <2>4 DEF IsRecurrence
  <2> QED
    BY <2>5
<1> HIDE DEF S
<1>3. k \in S
  BY <1>1, <1>2, Induction
<1> QED
  BY <1>3 DEF S

\* so that there is the whole function, and no other.
LEMMA Recurrence ==
  ASSUME NEW n \in Nat \ {0}, NEW step \in [Nat \X Fr -> Fr]
  PROVE  \E g \in [Nat -> Fr] : \A e \in Nat : g[e] = step[<<e, IF e < n THEN 0 ELSE g[e - n]>>]
<1> DEFINE firstOnes(k) == CHOOSE g : IsRecurrence(g, step, n, k)
           whole == [e \in Nat |-> firstOnes(e + 1)[e]]
<1>1. \A k \in Nat : IsRecurrence(firstOnes(k), step, n, k)
  BY RecurrenceExists
<1> HIDE DEF firstOnes
<1>2. ASSUME NEW e \in Nat
      PROVE  whole[e] \in Fr /\ whole[e] = step[<<e, IF e < n THEN 0 ELSE whole[e - n]>>]
  <2>1. e + 1 \in Nat /\ e \in 0..((e + 1) - 1)
    OBVIOUS
  <2>2. /\ firstOnes(e + 1)[e] \in Fr
        /\ firstOnes(e + 1)[e] = step[<<e, IF e < n THEN 0 ELSE firstOnes(e + 1)[e - n]>>]
    BY <1>1, <2>1 DEF IsRecurrence
  <2>3. whole[e] = firstOnes(e + 1)[e]
    OBVIOUS
  <2>4. ~(e < n) => whole[e - n] = firstOnes(e + 1)[e - n]
    <3> SUFFICES ASSUME ~(e < n)
                 PROVE  whole[e - n] = firstOnes(e + 1)[e - n]
      OBVIOUS
    <3> DEFINE j == e - n
               k == j + 1
               l == e + 1
               gk == firstOnes(k)
               gl == firstOnes(l)
    <3>1. j \in Nat /\ j < l /\ j < k /\ k \in Nat /\ l \in Nat
      OBVIOUS
    <3>2. whole[j] = gk[j]
      BY <3>1
    <3>3. IsRecurrence(gk, step, n, k) /\ IsRecurrence(gl, step, n, l)
      BY <1>1, <3>1
    <3> HIDE DEF j, k, l, gk, gl, whole
    <3>4. gk[j] = gl[j]
      BY <3>1, <3>3, RecurrenceUnique
    <3> QED
      BY <3>2, <3>4 DEF j, l, gl
  <2> HIDE DEF whole
  <2> QED
    BY <2>2, <2>3, <2>4
<1>3. whole = [e \in Nat |-> whole[e]]
  OBVIOUS
<1> HIDE DEF whole
<1>4. whole \in [Nat -> Fr]
  BY <1>2, <1>3
<1> QED
  BY <1>2, <1>4

\* The quotient by X^n - beta is a polynomial, whatever the rest: each coefficient is
\* computed from the one n places below.
LEMMA DivByZerofierIs ==
  ASSUME NEW p \in polys, NEW n \in Nat \ {0}, NEW beta \in Fr
  PROVE  LET g == getDegree(p)
             q == divByZerofier(p, n, beta)
         IN  /\ q \in polys /\ q \in [0..g -> Fr]
             /\ \A e \in 0..g :
                  q[e] = mul(inv(beta), sub(IF e < n THEN 0 ELSE q[e - n], coef(p, e)))
<1> DEFINE G(q) == q = [e \in Nat |-> mul(inv(beta), sub(IF e < n THEN 0 ELSE q[e - n], coef(p, e)))]
           q == CHOOSE q : G(q)
           step == [t \in Nat \X Fr |-> mul(inv(beta), sub(t[2], coef(p, t[1])))]
           d == getDegree(p)
<1>1. d \in Nat /\ \A e \in Nat : coef(p, e) \in Fr
  BY PolynomialIs
<1>2. inv(beta) \in Fr
  BY InvType
<1>3. \A e \in Nat, v \in Fr : mul(inv(beta), sub(v, coef(p, e))) \in Fr
  BY <1>1, <1>2, Operations
<1>4. step \in [Nat \X Fr -> Fr]
      /\ \A e \in Nat, v \in Fr : step[<<e, v>>] = mul(inv(beta), sub(v, coef(p, e)))
  BY <1>3
<1> HIDE DEF step, d
<1>5. PICK g \in [Nat -> Fr] : \A e \in Nat : g[e] = step[<<e, IF e < n THEN 0 ELSE g[e - n]>>]
  BY <1>4, Recurrence
<1>6. ASSUME NEW e \in Nat
      PROVE  g[e] = mul(inv(beta), sub(IF e < n THEN 0 ELSE g[e - n], coef(p, e)))
  <2> DEFINE before == IF e < n THEN 0 ELSE g[e - n]
  <2>1. before \in Fr
    <3>1. ~(e < n) => e - n \in Nat
      OBVIOUS
    <3> QED
      BY <1>5, <3>1, PIsNat
  <2>2. g[e] = step[<<e, before>>]
    BY <1>5
  <2> HIDE DEF before
  <2>3. g[e] = mul(inv(beta), sub(before, coef(p, e)))
    BY <1>4, <2>1, <2>2
  <2> QED
    BY <2>3 DEF before
<1>7. G(g)
  <2>1. g = [e \in Nat |-> g[e]]
    BY <1>5
  <2> QED
    BY <1>6, <2>1
<1>8. G(q)
  BY <1>7
<1>9. divByZerofier(p, n, beta) = [e \in 0..d |-> q[e]]
  BY DEF divByZerofier, d
<1> HIDE DEF q
<1>10. \A e \in Nat : q[e] = mul(inv(beta), sub(IF e < n THEN 0 ELSE q[e - n], coef(p, e)))
  BY <1>8
<1> DEFINE S == {k \in Nat : \A e \in Nat : e < k => q[e] = g[e]}
<1>11. 0 \in S
  OBVIOUS
<1>12. ASSUME NEW k \in Nat, k \in S
       PROVE  k + 1 \in S
  <2>1. ASSUME NEW e \in Nat, e < k + 1
        PROVE  q[e] = g[e]
    <3>1. ~(e < n) => e - n \in Nat /\ e - n < k
      BY <2>1
    <3>2. ~(e < n) => q[e - n] = g[e - n]
      BY <1>12, <3>1
    <3> QED
      BY <1>6, <1>10, <3>2
  <2> QED
    BY <2>1
<1> HIDE DEF S
<1>13. d + 1 \in S
  <2>1. d + 1 \in Nat
    BY <1>1
  <2> QED
    BY <1>11, <1>12, <2>1, Induction
<1>14. \A e \in 0..d : q[e] \in Fr
  <2>1. \A e \in 0..d : e \in Nat /\ e < d + 1
    BY <1>1
  <2>2. \A e \in 0..d : q[e] = g[e]
    BY <1>13, <2>1 DEF S
  <2> QED
    BY <1>5, <2>1, <2>2
<1> DEFINE r == divByZerofier(p, n, beta)
<1>15. r \in [0..d -> Fr] /\ r \in polys
  <2>1. r \in [0..d -> Fr]
    BY <1>9, <1>14
  <2> HIDE DEF r
  <2> QED
    BY <1>1, <2>1, IsPolynomial
<1>16. ASSUME NEW e \in 0..d
       PROVE  r[e] = mul(inv(beta), sub(IF e < n THEN 0 ELSE r[e - n], coef(p, e)))
  <2>1. e \in Nat /\ (~(e < n) => e - n \in 0..d)
    BY <1>1
  <2>2. r[e] = q[e] /\ (~(e < n) => r[e - n] = q[e - n])
    BY <1>9, <2>1
  <2> HIDE DEF r
  <2> QED
    BY <1>10, <2>1, <2>2
<1> QED
  BY <1>15, <1>16 DEF d, r

-----------------------------------------------------------------------------
\* A polynomial that is zero at as many places as it has coefficients is zero.
LEMMA ZeroAtPlaces ==
  ASSUME NEW n \in Nat, NEW r \in [0..(n - 1) -> Fr], NEW s \in [1..n -> Fr], IsInjective(s),
         \A k \in 1..n : evaluateAt(r, s[k]) = 0
  PROVE  \A e \in 0..(n - 1) : r[e] = 0
<1> DEFINE Places == {s[k] : k \in 1..n}
<1>1. Places \in SUBSET Fr
  OBVIOUS
<1>2. s \in Injection(1..n, Places) /\ s \in Surjection(1..n, Places)
  BY DEF IsInjective, Injection, Surjection
<1>3. IsFiniteSet(1..n) /\ Cardinality(1..n) = n
  BY FS_Interval
<1>5. Cardinality(Places) >= n
  <2> HIDE DEF Places
  <2>1. Cardinality(Places) = n
    BY <1>2, <1>3, FS_Surjection
  <2> QED
    BY <2>1
<1>6. \A x \in Places : \E h : IsHorner(h, r, n, x) /\ h[0] = 0
  <2>1. ASSUME NEW x \in Places
        PROVE  \E h : IsHorner(h, r, n, x) /\ h[0] = 0
    <3>1. PICK k \in 1..n : x = s[k]
      BY <2>1
    <3>2. x \in Fr /\ evaluateAt(r, x) = 0
      BY <3>1
    <3> QED
      BY <3>2, EvaluateType
  <2> QED
    BY <2>1
<1> HIDE DEF Places
<1> QED
  BY <1>1, <1>5, <1>6, RootBound

\* so that its value is zero everywhere.
LEMMA ZeroEverywhere ==
  ASSUME NEW n \in Nat, NEW r \in [0..(n - 1) -> Fr], \A e \in 0..(n - 1) : r[e] = 0, NEW x \in Fr
  PROVE  evaluateAt(r, x) = 0
<1>1. PICK h : IsHorner(h, r, n, x) /\ evaluateAt(r, x) = h[0]
  BY EvaluateType
<1> DEFINE z == [e \in Nat |-> 0]
<1>2. IsHorner(z, r, n, x)
  <2>1. mul(x, 0) = 0 /\ add(0, 0) = 0 /\ 0 \in Fr
    BY ZeroLaws, PIsNat
  <2>2. z \in [Nat -> Fr] /\ \A e \in Nat : z[e] = 0 /\ z[e + 1] = 0
    BY <2>1
  <2> HIDE DEF z
  <2> QED
    BY <2>1, <2>2 DEF IsHorner
<1>3. z[0] = 0
  OBVIOUS
<1> HIDE DEF z
<1>4. evaluateAt(r, x) = z[0]
  BY <1>2, Evaluates
<1> QED
  BY <1>3, <1>4

-----------------------------------------------------------------------------
\* The values of a polynomial of degree m whose highest coefficient is 1.
IsMonic(g, m) ==
  \E r \in [0..(m - 1) -> Fr] : \A x \in Fr : g[x] = add(power(x, m), evaluateAt(r, x))

\* Where x1 and x2 are the powers: what the product has besides their product.
LEMMA MonicProduct ==
  ASSUME NEW x1 \in Fr, NEW x2 \in Fr, NEW r1 \in Fr, NEW r2 \in Fr
  PROVE  mul(add(x1, r1), add(x2, r2))
           = add(mul(x1, x2), add(mul(x1, r2), add(mul(x2, r1), mul(r1, r2))))
<1>1. /\ mul(x1, x2) \in Fr /\ mul(x1, r2) \in Fr /\ mul(x2, r1) \in Fr /\ mul(r1, r2) \in Fr
      /\ add(x1, r1) \in Fr /\ add(x2, r2) \in Fr /\ mul(r1, x2) = mul(x2, r1)
  BY Operations, MulLaws
<1>2. add(mul(x2, r1), mul(r1, r2)) \in Fr /\ add(mul(x1, x2), mul(x1, r2)) \in Fr
  BY <1>1, Operations
<1>3. mul(add(x1, r1), add(x2, r2)) = mul(add(x2, r2), add(x1, r1))
  BY <1>1, MulLaws
<1>4. mul(add(x2, r2), add(x1, r1)) = add(mul(add(x2, r2), x1), mul(add(x2, r2), r1))
  BY <1>1, Distributive
<1>5. mul(add(x2, r2), x1) = mul(x1, add(x2, r2)) /\ mul(add(x2, r2), r1) = mul(r1, add(x2, r2))
  BY <1>1, MulLaws
<1>6. /\ mul(x1, add(x2, r2)) = add(mul(x1, x2), mul(x1, r2))
      /\ mul(r1, add(x2, r2)) = add(mul(r1, x2), mul(r1, r2))
  BY Distributive
<1>7. add(add(mul(x1, x2), mul(x1, r2)), add(mul(x2, r1), mul(r1, r2)))
        = add(mul(x1, x2), add(mul(x1, r2), add(mul(x2, r1), mul(r1, r2))))
  BY <1>1, <1>2, AddLaws
<1> QED
  BY <1>1, <1>3, <1>4, <1>5, <1>6, <1>7

\* The product of two is one.
LEMMA MonicTimes ==
  ASSUME NEW m \in Nat, NEW n \in Nat, NEW g, IsMonic(g, m), NEW h, IsMonic(h, n),
         NEW u, \A x \in Fr : u[x] = mul(g[x], h[x])
  PROVE  IsMonic(u, m + n)
<1>1. PICK r \in [0..(m - 1) -> Fr] : \A x \in Fr : g[x] = add(power(x, m), evaluateAt(r, x))
  BY DEF IsMonic
<1>2. PICK s \in [0..(n - 1) -> Fr] : \A x \in Fr : h[x] = add(power(x, n), evaluateAt(s, x))
  BY DEF IsMonic
<1> DEFINE k == m + n
           ms == [e \in 0..(k - 1) |-> IF e - m \in 0..(n - 1) THEN s[e - m] ELSE 0]
           mr == [e \in 0..(k - 1) |-> IF e - n \in 0..(m - 1) THEN r[e - n] ELSE 0]
<1>3. IsMoved(ms, s, k, n, m) /\ IsMoved(mr, r, k, m, n)
  BY DEF IsMoved
<1>4. k \in Nat /\ m + n <= k /\ n + m <= k /\ k = m + n
  OBVIOUS
<1> HIDE DEF k, ms, mr
<1>5. ms \in [0..(k - 1) -> Fr] /\ \A x \in Fr : evaluateAt(ms, x) = mul(power(x, m), evaluateAt(s, x))
  <2>1. ms \in [0..(k - 1) -> Fr]
    BY <1>3, <1>4, EvaluateShifted, PIsNat
  <2>2. \A x \in Fr : evaluateAt(ms, x) = mul(power(x, m), evaluateAt(s, x))
    BY <1>3, <1>4, EvaluateShifted
  <2> QED
    BY <2>1, <2>2
<1>6. mr \in [0..(k - 1) -> Fr] /\ \A x \in Fr : evaluateAt(mr, x) = mul(power(x, n), evaluateAt(r, x))
  <2>1. mr \in [0..(k - 1) -> Fr]
    BY <1>3, <1>4, EvaluateShifted, PIsNat
  <2>2. \A x \in Fr : evaluateAt(mr, x) = mul(power(x, n), evaluateAt(r, x))
    BY <1>3, <1>4, EvaluateShifted
  <2> QED
    BY <2>1, <2>2
<1>7. PICK rs \in [0..(k - 1) -> Fr] :
        \A x \in Fr : evaluateAt(rs, x) = mul(evaluateAt(r, x), evaluateAt(s, x))
  BY <1>4, ProductOf
<1>8. PICK t1 \in [0..(k - 1) -> Fr] :
        \A x \in Fr : evaluateAt(t1, x) = add(evaluateAt(mr, x), evaluateAt(rs, x))
  BY <1>4, <1>6, SumOfBoth
<1>9. PICK t \in [0..(k - 1) -> Fr] :
        \A x \in Fr : evaluateAt(t, x) = add(evaluateAt(ms, x), evaluateAt(t1, x))
  BY <1>4, <1>5, SumOfBoth
<1>10. ASSUME NEW x \in Fr
       PROVE  u[x] = add(power(x, k), evaluateAt(t, x))
  <2> DEFINE x1 == power(x, m)
             x2 == power(x, n)
             r1 == evaluateAt(r, x)
             r2 == evaluateAt(s, x)
  <2>1. x1 \in Fr /\ x2 \in Fr /\ r1 \in Fr /\ r2 \in Fr
    BY PowerType, EvaluateType
  <2>2. u[x] = mul(add(x1, r1), add(x2, r2))
    BY <1>1, <1>2
  <2>3. evaluateAt(t, x) = add(mul(x1, r2), add(mul(x2, r1), mul(r1, r2)))
    BY <1>5, <1>6, <1>7, <1>8, <1>9
  <2>4. power(x, k) = mul(x1, x2)
    BY <1>4, PowerOfSum
  <2> HIDE DEF x1, x2, r1, r2
  <2> QED
    BY <2>1, <2>2, <2>3, <2>4, MonicProduct
<1> QED
  BY <1>4, <1>9, <1>10 DEF IsMonic

\* X^n - c is one,
LEMMA PowerIsMonic ==
  ASSUME NEW n \in Nat \ {0}, NEW c \in Fr, NEW g, \A x \in Fr : g[x] = sub(power(x, n), c)
  PROVE  IsMonic(g, n)
<1>1. P - 1 \in Fr /\ n \in Nat
  BY MinusOne
<1>2. mul(P - 1, c) \in Fr
  BY <1>1, Operations
<1>3. PICK r \in [0..(n - 1) -> Fr] : \A x \in Fr : evaluateAt(r, x) = mul(P - 1, c)
  BY <1>2, Constant
<1>4. \A x \in Fr : g[x] = add(power(x, n), evaluateAt(r, x))
  <2>1. ASSUME NEW x \in Fr
        PROVE  g[x] = add(power(x, n), evaluateAt(r, x))
    <3>1. power(x, n) \in Fr
      BY <1>1, PowerType
    <3> QED
      BY <1>3, <3>1, Minus
  <2> QED
    BY <2>1
<1> QED
  BY <1>4 DEF IsMonic

\* and so is a product of polynomials of degree n.
LEMMA MonicProducts ==
  ASSUME NEW n \in Nat, NEW m \in Nat, NEW G \in [1..m -> [Fr -> Fr]],
         \A k \in 1..m : IsMonic(G[k], n)
  PROVE  IsMonic([x \in Fr |-> product([k \in 1..m |-> G[k][x]])], n * m)
<1> DEFINE S == {l \in Nat : l <= m => IsMonic([x \in Fr |-> product([k \in 1..l |-> G[k][x]])], n * l)}
<1>1. 0 \in S
  <2> DEFINE u == [x \in Fr |-> product([k \in 1..0 |-> G[k][x]])]
  <2>1. \A x \in Fr : u[x] = 1
    <3>1. ASSUME NEW x \in Fr
          PROVE  u[x] = 1
      <4> DEFINE h == [k \in 1..0 |-> G[k][x]]
      <4>1. h \in [1..0 -> Fr]
        OBVIOUS
      <4>2. u[x] = product(h)
        OBVIOUS
      <4> HIDE DEF h, u
      <4> QED
        BY <4>1, <4>2, ProductOfNone
    <3> QED
      BY <3>1
  <2>2. PICK r : r \in [0..(0 - 1) -> Fr]
    <3>1. [e \in 0..(0 - 1) |-> 0] \in [0..(0 - 1) -> Fr]
      OBVIOUS
    <3> QED
      BY <3>1
  <2>3. \A x \in Fr : evaluateAt(r, x) = 0 /\ power(x, 0) = 1 /\ add(1, 0) = 1
    BY <2>2, EvaluateNone, PowerStep, ZeroLaws, PIsNat
  <2> HIDE DEF u
  <2>4. IsMonic(u, 0)
    BY <2>1, <2>2, <2>3 DEF IsMonic
  <2>5. n * 0 = 0
    OBVIOUS
  <2> QED
    BY <2>4, <2>5 DEF u
<1>2. ASSUME NEW l \in Nat, l \in S
      PROVE  l + 1 \in S
  <2> SUFFICES ASSUME l + 1 <= m
               PROVE  IsMonic([x \in Fr |-> product([k \in 1..(l + 1) |-> G[k][x]])], n * (l + 1))
    OBVIOUS
  <2> DEFINE v == [x \in Fr |-> product([k \in 1..l |-> G[k][x]])]
             u == [x \in Fr |-> product([k \in 1..(l + 1) |-> G[k][x]])]
  <2>1. IsMonic(v, n * l)
    <3>1. l <= m
      OBVIOUS
    <3> QED
      BY <1>2, <3>1
  <2>2. l + 1 \in 1..m /\ \A k \in 1..(l + 1) : k \in 1..m
    OBVIOUS
  <2>3. ASSUME NEW x \in Fr
        PROVE  u[x] = mul(v[x], G[l + 1][x])
    <3> DEFINE g == [k \in 1..(l + 1) |-> G[k][x]]
               h == [k \in 1..l |-> G[k][x]]
    <3>1. g \in [1..(l + 1) -> Fr]
      BY <2>2
    <3>2. h = [k \in 1..l |-> g[k]]
      BY <2>2
    <3>3. u[x] = product(g) /\ v[x] = product(h) /\ g[l + 1] = G[l + 1][x] /\ G[l + 1][x] \in Fr
      BY <2>2
    <3> HIDE DEF g, h, u, v
    <3>4. product(h) \in Fr /\ product(g) = mul(g[l + 1], product(h))
      BY <3>1, <3>2, ProductOfNext
    <3> QED
      BY <3>3, <3>4, MulLaws
  <2>4. IsMonic(G[l + 1], n)
    BY <2>2
  <2>5. n * l \in Nat /\ n * l + n = n * (l + 1)
    OBVIOUS
  <2> HIDE DEF u, v
  <2>6. IsMonic(u, n * l + n)
    BY <2>1, <2>3, <2>4, <2>5, MonicTimes
  <2> QED
    BY <2>5, <2>6 DEF u
<1> HIDE DEF S
<1>3. m \in S
  BY <1>1, <1>2, Induction
<1> QED
  BY <1>3 DEF S

\* Two of one degree that are zero at as many places are the same.
LEMMA SameMonic ==
  ASSUME NEW n \in Nat, NEW g, IsMonic(g, n), NEW h, IsMonic(h, n),
         NEW s \in [1..n -> Fr], IsInjective(s),
         \A k \in 1..n : g[s[k]] = h[s[k]], NEW x \in Fr
  PROVE  g[x] = h[x]
<1>1. PICK p \in [0..(n - 1) -> Fr] : \A z \in Fr : g[z] = add(power(z, n), evaluateAt(p, z))
  BY DEF IsMonic
<1>2. PICK q \in [0..(n - 1) -> Fr] : \A z \in Fr : h[z] = add(power(z, n), evaluateAt(q, z))
  BY DEF IsMonic
<1>3. n \in 0..n
  OBVIOUS
<1>4. PICK r \in [0..(n - 1) -> Fr] :
        \A z \in Fr : evaluateAt(r, z) = sub(evaluateAt(p, z), evaluateAt(q, z))
  BY <1>3, DifferenceOf
<1>5. \A z \in Fr : evaluateAt(p, z) \in Fr /\ evaluateAt(q, z) \in Fr /\ power(z, n) \in Fr
  BY EvaluateType, PowerType
<1>6. ASSUME NEW z \in Fr
      PROVE  g[z] = h[z] <=> evaluateAt(p, z) = evaluateAt(q, z)
  <2> DEFINE a == evaluateAt(p, z)
             b == evaluateAt(q, z)
             c == power(z, n)
  <2>1. a \in Fr /\ b \in Fr /\ c \in Fr /\ g[z] = add(c, a) /\ h[z] = add(c, b)
    BY <1>1, <1>2, <1>5
  <2> HIDE DEF a, b, c
  <2>2. add(c, a) = add(a, c) /\ add(c, b) = add(b, c)
    BY <2>1, AddLaws
  <2>3. sub(add(a, c), c) = a /\ sub(add(b, c), c) = b
    BY <2>1, SubLaws
  <2> QED
    BY <2>1, <2>2, <2>3 DEF a, b
<1>7. \A k \in 1..n : evaluateAt(r, s[k]) = 0
  <2>1. ASSUME NEW k \in 1..n
        PROVE  evaluateAt(r, s[k]) = 0
    <3>1. s[k] \in Fr
      OBVIOUS
    <3> QED
      BY <1>4, <1>5, <1>6, <3>1, SubLaws
  <2> QED
    BY <2>1
<1>8. evaluateAt(r, x) = 0
  BY <1>7, ZeroAtPlaces, ZeroEverywhere
<1> QED
  BY <1>4, <1>5, <1>6, <1>8, SubLaws

\* q is what the division of u, with m coefficients, by X^n - beta computes, and t what
\* would have to be its coefficients n places further up.
IsDividedBy(q, u, n, beta, m) ==
  \A e \in 0..(m - 1) : add(u[e], mul(beta, q[e])) = IF e < n THEN 0 ELSE q[e - n]
IsRest(t, q, n, m) == t = [k \in 0..(n - 1) |-> IF (m + k) - n \in 0..(m - 1) THEN q[(m + k) - n] ELSE 0]

\* What is left: the coefficients from m on.
LEMMA ZerofierIdentity ==
  ASSUME NEW n \in Nat \ {0}, NEW m \in Nat, NEW beta \in Fr, NEW u \in [0..(m - 1) -> Fr],
         NEW q \in [0..(m - 1) -> Fr], IsDividedBy(q, u, n, beta, m),
         NEW t, IsRest(t, q, n, m), NEW x \in Fr
  PROVE  /\ t \in [0..(n - 1) -> Fr]
         /\ mul(power(x, n), evaluateAt(q, x))
              = add(add(evaluateAt(u, x), mul(beta, evaluateAt(q, x))), mul(power(x, m), evaluateAt(t, x)))
<1> DEFINE L == m + n
           Places == 0..(L - 1)
           b == [e \in 0..(m - 1) |-> mul(beta, q[e])]
           wu == [e \in Places |-> IF e - 0 \in 0..(m - 1) THEN u[e - 0] ELSE 0]
           wb == [e \in Places |-> IF e - 0 \in 0..(m - 1) THEN b[e - 0] ELSE 0]
           mq == [e \in Places |-> IF e - n \in 0..(m - 1) THEN q[e - n] ELSE 0]
           mt == [e \in Places |-> IF e - m \in 0..(n - 1) THEN t[e - m] ELSE 0]
           low == [e \in Places |-> add(wu[e], wb[e])]
           v == [e \in Places |-> add(low[e], mt[e])]
<1>1. /\ L \in Nat /\ 0 \in Nat /\ 0 + m <= L /\ n + m <= L /\ m + n <= L /\ 0 \in Fr /\ n \in Nat
  BY PIsNat
<1>2. t \in [0..(n - 1) -> Fr]
  BY <1>1 DEF IsRest
<1>3. IsMultiple(b, q, beta, m) /\ \A e \in 0..(m - 1) : b[e] = mul(beta, q[e]) /\ b[e] \in Fr /\ u[e] \in Fr
  BY Operations DEF IsMultiple
<1> HIDE DEF b
<1>4. /\ IsMoved(wu, u, L, m, 0) /\ IsMoved(wb, b, L, m, 0) /\ IsMoved(mq, q, L, m, n)
      /\ IsMoved(mt, t, L, n, m)
  BY DEF IsMoved
<1>5. IsSum(low, wu, wb, L) /\ IsSum(v, low, mt, L)
  BY DEF IsSum
<1>6. \A e \in Places : mq[e] = v[e]
  <2>1. ASSUME NEW e \in Places
        PROVE  mq[e] = v[e]
    <3>1. v[e] = add(add(wu[e], wb[e]), mt[e]) /\ e - 0 = e
      OBVIOUS
    <3>2. CASE e < m
      <4>1. e \in 0..(m - 1) /\ e - m \notin 0..(n - 1) /\ (e < n <=> e - n \notin 0..(m - 1))
        BY <3>2
      <4>2. wu[e] = u[e] /\ wb[e] = b[e] /\ mt[e] = 0
        BY <4>1
      <4>3. mq[e] = IF e < n THEN 0 ELSE q[e - n]
        BY <4>1
      <4>4. add(u[e], b[e]) = IF e < n THEN 0 ELSE q[e - n]
        BY <1>3, <4>1 DEF IsDividedBy
      <4>5. add(u[e], b[e]) \in Fr
        BY <1>3, <4>1, Operations
      <4> HIDE DEF wu, wb, mq, mt, low, v
      <4>6. add(add(u[e], b[e]), 0) = add(u[e], b[e])
        BY <4>5, ZeroLaws
      <4> QED
        BY <3>1, <4>2, <4>3, <4>4, <4>6
    <3>3. CASE ~(e < m)
      <4> DEFINE k == e - m
      <4>1. /\ e \notin 0..(m - 1) /\ k \in 0..(n - 1) /\ (m + k) - n = e - n
        BY <3>3
      <4>2. wu[e] = 0 /\ wb[e] = 0 /\ mt[e] = t[k]
        BY <3>1, <4>1
      <4> HIDE DEF k
      <4>3. t[k] = mq[e] /\ t[k] \in Fr
        BY <1>2, <4>1 DEF IsRest
      <4> HIDE DEF wu, wb, mq, mt, low, v
      <4>4. add(0, 0) = 0 /\ add(0, t[k]) = t[k]
        BY <1>1, <4>3, AddLaws
      <4> QED
        BY <3>1, <4>2, <4>3, <4>4
    <3> QED
      BY <3>2, <3>3
  <2> QED
    BY <2>1
<1>7. mq = v
  BY <1>6
<1> HIDE DEF L, Places, wu, wb, mq, mt, low, v
<1>8. b \in [0..(m - 1) -> Fr] /\ evaluateAt(b, x) = mul(beta, evaluateAt(q, x))
  BY <1>3, EvaluateMultiple
<1>9. /\ wu \in [0..(L - 1) -> Fr] /\ evaluateAt(wu, x) = mul(power(x, 0), evaluateAt(u, x))
  BY <1>1, <1>4, EvaluateShifted
<1>10. /\ wb \in [0..(L - 1) -> Fr] /\ evaluateAt(wb, x) = mul(power(x, 0), evaluateAt(b, x))
  BY <1>1, <1>4, <1>8, EvaluateShifted
<1>11. evaluateAt(mq, x) = mul(power(x, n), evaluateAt(q, x))
  BY <1>1, <1>4, EvaluateShifted
<1>12. /\ mt \in [0..(L - 1) -> Fr] /\ evaluateAt(mt, x) = mul(power(x, m), evaluateAt(t, x))
  BY <1>1, <1>2, <1>4, EvaluateShifted
<1>13. low \in [0..(L - 1) -> Fr] /\ evaluateAt(low, x) = add(evaluateAt(wu, x), evaluateAt(wb, x))
  <2>1. IsSum(low, wu, wb, L) /\ L \in Nat /\ wu \in [0..(L - 1) -> Fr] /\ wb \in [0..(L - 1) -> Fr]
    BY <1>1, <1>5, <1>9, <1>10
  <2> QED
    BY <2>1, EvaluateSum, SMTT(60)
<1>14. evaluateAt(v, x) = add(evaluateAt(low, x), evaluateAt(mt, x))
  <2>1. IsSum(v, low, mt, L) /\ L \in Nat /\ low \in [0..(L - 1) -> Fr] /\ mt \in [0..(L - 1) -> Fr]
    BY <1>1, <1>5, <1>12, <1>13
  <2> QED
    BY <2>1, EvaluateSum, SMTT(60)
<1>15. power(x, 0) = 1 /\ evaluateAt(u, x) \in Fr /\ evaluateAt(b, x) \in Fr
  BY <1>8, PowerStep, EvaluateType
<1>16. mul(1, evaluateAt(u, x)) = evaluateAt(u, x) /\ mul(1, evaluateAt(b, x)) = evaluateAt(b, x)
  BY <1>15, MulLaws
<1> QED
  BY <1>2, <1>7, <1>8, <1>9, <1>10, <1>11, <1>12, <1>13, <1>14, <1>15, <1>16

\* Where the polynomial is zero at the n roots of order n of beta, the division finds no
\* rest, what it computes is the quotient, and its degree is n less.
LEMMA ZerofierDivides ==
  ASSUME NEW p \in polys, NEW n \in Nat \ {0}, NEW beta \in Fr \ {0}, NEW s \in [1..n -> Fr],
         IsInjective(s), \A k \in 1..n : power(s[k], n) = beta /\ evaluateAt(p, s[k]) = 0
  PROVE  LET q == divByZerofier(p, n, beta)
         IN  /\ dividedByZerofier(p, n, beta)
             /\ \A x \in Fr : evaluateAt(p, x) = mul(sub(power(x, n), beta), evaluateAt(q, x))
             /\ \A k \in Nat : getDegree(p) <= k + n => getDegree(q) <= k
<1> DEFINE g == getDegree(p)
           m == g + 1
           q == divByZerofier(p, n, beta)
           u == [e \in 0..g |-> coef(p, e)]
           t == [k \in 0..(n - 1) |-> IF (m + k) - n \in 0..(m - 1) THEN q[(m + k) - n] ELSE 0]
<1>1. g \in Nat /\ \A e \in Int : coef(p, e) \in Fr
  BY PolynomialIs
<1>2. /\ q \in polys /\ q \in [0..g -> Fr]
      /\ \A e \in 0..g : q[e] = mul(inv(beta), sub(IF e < n THEN 0 ELSE q[e - n], coef(p, e)))
  BY DivByZerofierIs
<1>3. u \in [0..g -> Fr] /\ \A x \in Fr : evaluateAt(u, x) = evaluateAt(p, x)
  <2>1. getDegree(p) <= g /\ u = [e \in 0..g |-> coef(p, e)]
    BY <1>1
  <2> HIDE DEF u, g
  <2>2. u \in [0..g -> Fr]
    BY <1>1, <2>1
  <2> QED
    BY <1>1, <2>1, <2>2, EvaluateCoefs
<1>4. m \in Nat /\ m - 1 = g /\ n \in Nat
  BY <1>1
<1>5. \A e \in 0..g : u[e] = coef(p, e)
  OBVIOUS
<1>6. IsRest(t, q, n, m)
  BY DEF IsRest
<1>7. inv(beta) \in Fr /\ mul(beta, inv(beta)) = 1 /\ beta \in Fr /\ 0 \in Fr
  BY HasInverse, PIsNat
<1> HIDE DEF u, t, g, m, q
<1>8. IsDividedBy(q, u, n, beta, m)
  <2>1. ASSUME NEW e \in 0..g
        PROVE  add(u[e], mul(beta, q[e])) = IF e < n THEN 0 ELSE q[e - n]
    <3> DEFINE before == IF e < n THEN 0 ELSE q[e - n]
               z == sub(before, u[e])
    <3>1. before \in Fr /\ u[e] \in Fr
      <4>1. ~(e < n) => e - n \in 0..g
        BY <1>1, <1>4
      <4> QED
        BY <1>2, <1>3, <1>7, <4>1
    <3>2. q[e] = mul(inv(beta), sub(before, u[e]))
      BY <1>2, <1>5
    <3> HIDE DEF before
    <3>3. z \in Fr /\ add(z, u[e]) = before
      BY <3>1, Operations, SubLaws
    <3>4. q[e] = mul(inv(beta), z)
      BY <3>2
    <3> HIDE DEF z
    <3>5. mul(beta, mul(inv(beta), z)) = mul(mul(beta, inv(beta)), z) /\ mul(1, z) = z
      BY <1>7, <3>3, MulLaws
    <3>6. add(u[e], z) = add(z, u[e])
      BY <3>1, <3>3, AddLaws
    <3> QED
      BY <1>7, <3>3, <3>4, <3>5, <3>6 DEF before
  <2> QED
    BY <1>4, <2>1 DEF IsDividedBy
<1>9. u \in [0..(m - 1) -> Fr] /\ q \in [0..(m - 1) -> Fr]
  BY <1>2, <1>3, <1>4
<1>10. /\ t \in [0..(n - 1) -> Fr]
       /\ \A x \in Fr : mul(power(x, n), evaluateAt(q, x))
            = add(add(evaluateAt(p, x), mul(beta, evaluateAt(q, x))), mul(power(x, m), evaluateAt(t, x)))
  <2>1. \A x \in Fr : /\ t \in [0..(n - 1) -> Fr]
          /\ mul(power(x, n), evaluateAt(q, x))
            = add(add(evaluateAt(u, x), mul(beta, evaluateAt(q, x))), mul(power(x, m), evaluateAt(t, x)))
    BY <1>4, <1>6, <1>7, <1>8, <1>9, ZerofierIdentity
  <2> QED
    BY <1>3, <1>7, <2>1
<1>11. \A x \in Fr : /\ evaluateAt(p, x) \in Fr /\ evaluateAt(q, x) \in Fr /\ evaluateAt(t, x) \in Fr
                     /\ power(x, n) \in Fr /\ power(x, m) \in Fr
                     /\ mul(beta, evaluateAt(q, x)) \in Fr
  <2>1. \A x \in Fr : evaluateAt(p, x) \in Fr /\ evaluateAt(q, x) \in Fr
    BY <1>2, ValueType
  <2>2. \A x \in Fr : evaluateAt(t, x) \in Fr /\ power(x, n) \in Fr /\ power(x, m) \in Fr
    BY <1>4, <1>10, EvaluateType, PowerType
  <2> QED
    BY <1>7, <2>1, <2>2, Operations
<1>12. \A k \in 1..n : evaluateAt(t, s[k]) = 0
  <2>1. ASSUME NEW k \in 1..n
        PROVE  evaluateAt(t, s[k]) = 0
    <3> DEFINE x == s[k]
               a == mul(beta, evaluateAt(q, x))
               b == mul(power(x, m), evaluateAt(t, x))
    <3>1. x \in Fr /\ power(x, n) = beta /\ evaluateAt(p, x) = 0
      OBVIOUS
    <3>2. a = add(add(0, a), b)
      BY <1>10, <3>1
    <3>3. a \in Fr /\ b \in Fr /\ power(x, m) \in Fr /\ evaluateAt(t, x) \in Fr
      BY <1>11, <3>1, Operations
    <3>4. x # 0
      <4>1. n - 1 \in Nat /\ (n - 1) + 1 = n
        BY <1>4
      <4>2. power(0, (n - 1) + 1) = mul(0, power(0, n - 1)) /\ power(0, n - 1) \in Fr
        BY <1>7, <4>1, PowerStep, PowerType
      <4>3. power(0, n) = 0
        BY <4>1, <4>2, MulLaws
      <4> QED
        BY <3>1, <4>3
    <3>5. power(x, m) # 0
      BY <1>4, <3>1, <3>4, PowerOfOne
    <3> HIDE DEF a
    <3>6. add(0, a) = a /\ add(a, b) = add(b, a)
      BY <3>3, <1>7, AddLaws
    <3>7. sub(add(b, a), a) = b /\ sub(a, a) = 0
      BY <3>3, SubLaws
    <3>8. b = 0
      BY <3>2, <3>6, <3>7
    <3> HIDE DEF x
    <3>9. evaluateAt(t, x) = 0
      BY <3>3, <3>5, <3>8, Cancel
    <3> QED
      BY <3>9 DEF x
  <2> QED
    BY <2>1
<1>13. \A k \in 0..(n - 1) : t[k] = 0
  BY <1>4, <1>10, <1>12, ZeroAtPlaces
<1>14. \A e \in 0..g : e > g - n => q[e] = 0
  <2>1. ASSUME NEW e \in 0..g, e > g - n
        PROVE  q[e] = 0
    <3> DEFINE k == (e + n) - m
    <3>1. k \in 0..(n - 1) /\ (m + k) - n = e /\ e \in 0..(m - 1)
      BY <1>1, <1>4, <2>1
    <3> HIDE DEF k
    <3>2. t[k] = q[e]
      BY <1>6, <3>1 DEF IsRest
    <3> QED
      BY <1>13, <3>1, <3>2
  <2> QED
    BY <2>1
<1>15. dividedByZerofier(p, n, beta)
  <2>1. \A e \in n..g : e \in 0..g
    BY <1>1, <1>4
  <2> QED
    BY <1>14, <2>1 DEF dividedByZerofier, q, g
<1>16. ASSUME NEW x \in Fr
       PROVE  evaluateAt(p, x) = mul(sub(power(x, n), beta), evaluateAt(q, x))
  <2> DEFINE a == mul(beta, evaluateAt(q, x))
             c == evaluateAt(p, x)
  <2>1. evaluateAt(t, x) = 0
    BY <1>4, <1>10, <1>13, ZeroEverywhere
  <2>2. a \in Fr /\ c \in Fr /\ power(x, m) \in Fr /\ add(c, a) \in Fr
    BY <1>11, Operations
  <2>3. mul(power(x, n), evaluateAt(q, x)) = add(add(c, a), mul(power(x, m), 0))
    BY <1>10, <2>1
  <2>4. mul(power(x, m), 0) = 0 /\ add(add(c, a), 0) = add(c, a)
    BY <2>2, ZeroLaws
  <2>5. sub(mul(power(x, n), evaluateAt(q, x)), a) = mul(sub(power(x, n), beta), evaluateAt(q, x))
    BY <1>7, <1>11, DifferenceTimes
  <2>6. sub(add(c, a), a) = c
    BY <2>2, SubLaws
  <2> QED
    BY <2>3, <2>4, <2>5, <2>6
<1>17. ASSUME NEW k \in Nat, g <= k + n
       PROVE  getDegree(q) <= k
  <2>1. \A e \in 0..g : e > k => e > g - n
    BY <1>1, <1>4, <1>17
  <2>2. \A e \in 0..g : e > k => q[e] = 0
    BY <1>14, <2>1
  <2> QED
    BY <1>1, <1>2, <2>2, IsPolynomial
<1> QED
  BY <1>15, <1>16, <1>17 DEF q, g

\* A polynomial whose highest coefficient is 1 has no more roots than its degree.
LEMMA MonicRoots ==
  ASSUME NEW n \in Nat, NEW g, IsMonic(g, n), NEW s \in [1..(n + 1) -> Fr], IsInjective(s)
  PROVE  \E k \in 1..(n + 1) : g[s[k]] # 0
<1>1. PICK r \in [0..(n - 1) -> Fr] : \A x \in Fr : g[x] = add(power(x, n), evaluateAt(r, x))
  BY DEF IsMonic
<1> DEFINE u == [e \in 0..n |-> IF e = n THEN 1 ELSE r[e]]
<1>2. u \in [0..n -> Fr]
  <2>1. \A e \in 0..n : e # n => e \in 0..(n - 1)
    OBVIOUS
  <2> QED
    BY <2>1, PIsNat
<1>3. r = [e \in 0..(n - 1) |-> u[e]] /\ u[n] = 1
  <2>1. \A e \in 0..(n - 1) : e \in 0..n /\ e # n
    OBVIOUS
  <2>2. \A e \in 0..(n - 1) : u[e] = r[e]
    BY <2>1
  <2>3. r = [e \in 0..(n - 1) |-> r[e]] /\ n \in 0..n
    OBVIOUS
  <2> QED
    BY <2>2, <2>3
<1> HIDE DEF u
<1>4. ASSUME NEW x \in Fr
      PROVE  evaluateAt(u, x) = g[x]
  <2>1. evaluateAt(u, x) = add(mul(u[n], power(x, n)), evaluateAt(r, x))
    BY <1>2, <1>3, EvaluateLast
  <2>2. mul(1, power(x, n)) = power(x, n)
    BY PowerType, MulLaws
  <2> QED
    BY <1>1, <1>3, <2>1, <2>2
<1> SUFFICES ASSUME \A k \in 1..(n + 1) : g[s[k]] = 0
             PROVE  FALSE
  OBVIOUS
<1> DEFINE m == n + 1
<1>5. m \in Nat /\ m - 1 = n /\ n \in 0..(m - 1)
  OBVIOUS
<1>6. \A k \in 1..m : evaluateAt(u, s[k]) = 0
  <2>1. \A k \in 1..m : s[k] \in Fr
    OBVIOUS
  <2> QED
    BY <1>4, <2>1
<1>7. u \in [0..(m - 1) -> Fr] /\ s \in [1..m -> Fr]
  BY <1>2, <1>5
<1> HIDE DEF m
<1>8. \A e \in 0..(m - 1) : u[e] = 0
  BY <1>5, <1>6, <1>7, ZeroAtPlaces
<1> QED
  BY <1>3, <1>5, <1>8

\* The places of the k-th block of n.
LEMMA BlockPlaces ==
  ASSUME NEW n \in Nat \ {0}, NEW K \in Nat
  PROVE  /\ \A k \in 1..K, j \in 1..n : (k - 1) * n + j \in 1..(n * K)
         /\ \A k1, k2 \in 1..K, j1, j2 \in 1..n :
              (k1 - 1) * n + j1 = (k2 - 1) * n + j2 => k1 = k2 /\ j1 = j2
         /\ \A m \in 1..(n * K) : \E k \in 1..K, j \in 1..n : m = (k - 1) * n + j
<1>1. ASSUME NEW k \in 1..K, NEW j \in 1..n
      PROVE  (k - 1) * n + j \in 1..(n * K)
  <2>1. k - 1 \in Nat /\ K - k \in Nat /\ n \in Nat /\ K = (k - 1) + 1 + (K - k)
    OBVIOUS
  <2> DEFINE a == k - 1
             c == K - k
  <2>2. n * K = a * n + n + n * c /\ a * n \in Nat /\ n * c \in Nat
    <3> HIDE DEF a, c
    <3>1. a \in Nat /\ c \in Nat /\ K = a + 1 + c
      BY <2>1 DEF a, c
    <3> QED
      BY <2>1, <3>1
  <2>3. (k - 1) * n = a * n
    OBVIOUS
  <2> HIDE DEF a, c
  <2> QED
    BY <2>2, <2>3
<1>2. ASSUME NEW k1 \in 1..K, NEW k2 \in 1..K, NEW j1 \in 1..n, NEW j2 \in 1..n,
             (k1 - 1) * n + j1 = (k2 - 1) * n + j2
      PROVE  k1 = k2 /\ j1 = j2
  <2> DEFINE q1 == k1 - 1
             q2 == k2 - 1
             r1 == j1 - 1
             r2 == j2 - 1
             e == n * q1 + r1
  <2>1. q1 \in Nat /\ q2 \in Nat /\ r1 \in 0..(n - 1) /\ r2 \in 0..(n - 1)
    OBVIOUS
  <2>2. e = n * q2 + r2
    <3>1. q1 * n = n * q1 /\ q2 * n = n * q2
      BY <2>1
    <3>2. q1 * n + j1 = q2 * n + j2
      BY <1>2
    <3> QED
      BY <2>1, <3>1, <3>2
  <2> HIDE DEF q1, q2, r1, r2
  <2>3. e \in Nat /\ e \div n = q1 /\ e % n = r1
    BY <2>1, PlaceOfRow
  <2> HIDE DEF e
  <2>4. e \div n = q2 /\ e % n = r2
    BY <2>1, <2>2, <2>3, PlaceOfRow
  <2> QED
    BY <2>3, <2>4 DEF q1, q2, r1, r2
<1>3. ASSUME NEW m \in 1..(n * K)
      PROVE  \E k \in 1..K, j \in 1..n : m = (k - 1) * n + j
  <2> DEFINE e == m - 1
             q == e \div n
             r == e % n
  <2>1. e \in Nat /\ 0 \in Nat /\ 0 \in 0..(n - 1) /\ e < n * K /\ n \in Nat /\ m = e + 1
    OBVIOUS
  <2> HIDE DEF e
  <2>2. q \in Nat /\ r \in 0..(n - 1)
    BY <2>1, PlaceOfRow
  <2>3. e = n * q + r
    <3>1. e \div n = q /\ e % n = r
      OBVIOUS
    <3> HIDE DEF q, r
    <3> QED
      BY <2>1, <2>2, <3>1, PlaceOfRow
  <2> HIDE DEF q, r
  <2>4. q < K
    <3>1. n * q < n * K
      BY <2>1, <2>2, <2>3
    <3> SUFFICES ASSUME q >= K
                 PROVE  FALSE
      BY <2>2
    <3>2. q - K \in Nat /\ q = K + (q - K)
      BY <2>2
    <3> DEFINE z == q - K
    <3>3. z \in Nat /\ q = K + z
      BY <3>2
    <3> HIDE DEF z
    <3>4. n * q = n * K + n * z /\ n * z \in Nat
      BY <2>1, <3>3
    <3> QED
      BY <2>1, <3>1, <3>4
  <2>5. q + 1 \in 1..K /\ r + 1 \in 1..n /\ m = ((q + 1) - 1) * n + (r + 1)
    <3>1. (q + 1) - 1 = q /\ q * n = n * q
      BY <2>1, <2>2
    <3> QED
      BY <2>1, <2>2, <2>3, <2>4, <3>1
  <2> QED
    BY <2>5
<1> QED
  BY <1>1, <1>2, <1>3

\* The places of the roots of order n of each of the c, n of each.
AreRootsOf(s, c, n, K) ==
  /\ s \in [1..(n * K) -> Fr] /\ IsInjective(s)
  /\ \A k \in 1..K, j \in 1..n : power(s[(k - 1) * n + j], n) = c[k]

\* The c are different, since none has more than n.
LEMMA RootsOfDiffer ==
  ASSUME NEW n \in Nat \ {0}, NEW K \in Nat, NEW c \in [1..K -> Fr \ {0}], NEW s, AreRootsOf(s, c, n, K),
         NEW k1 \in 1..K, NEW k2 \in 1..K, k1 # k2
  PROVE  c[k1] # c[k2]
<1> SUFFICES ASSUME c[k1] = c[k2]
             PROVE  FALSE
  OBVIOUS
<1> DEFINE g == [x \in Fr |-> sub(power(x, n), c[k1])]
           at(m) == IF m = n + 1 THEN (k2 - 1) * n + 1 ELSE (k1 - 1) * n + m
           u == [m \in 1..(n + 1) |-> s[at(m)]]
<1>1. n \in Nat /\ c[k1] \in Fr /\ 1 \in 1..n /\ (\A m \in 1..(n + 1) : m # n + 1 => m \in 1..n)
  OBVIOUS
<1>2. IsMonic(g, n)
  <2>1. \A x \in Fr : g[x] = sub(power(x, n), c[k1])
    OBVIOUS
  <2> HIDE DEF g
  <2> QED
    BY <1>1, <2>1, PowerIsMonic
<1>3. /\ \A k \in 1..K, j \in 1..n : (k - 1) * n + j \in 1..(n * K)
      /\ \A h1, h2 \in 1..K, j1, j2 \in 1..n :
              (h1 - 1) * n + j1 = (h2 - 1) * n + j2 => h1 = h2 /\ j1 = j2
  BY BlockPlaces
<1>4. \A m \in 1..(n + 1) : at(m) \in 1..(n * K) /\ power(s[at(m)], n) = c[k1]
  BY <1>1, <1>3 DEF AreRootsOf
<1>5. \A m1, m2 \in 1..(n + 1) : at(m1) = at(m2) => m1 = m2
  BY <1>1, <1>3
<1> HIDE DEF at
<1>6. u \in [1..(n + 1) -> Fr] /\ IsInjective(u)
  <2>1. s \in [1..(n * K) -> Fr] /\ \A a, b \in 1..(n * K) : s[a] = s[b] => a = b
    BY DEF AreRootsOf, IsInjective
  <2> QED
    BY <1>4, <1>5, <2>1 DEF IsInjective
<1>7. \A m \in 1..(n + 1) : g[u[m]] = 0
  <2>1. ASSUME NEW m \in 1..(n + 1)
        PROVE  g[u[m]] = 0
    <3>1. u[m] = s[at(m)] /\ u[m] \in Fr
      BY <1>6
    <3>2. power(u[m], n) = c[k1]
      BY <1>4, <3>1
    <3> HIDE DEF u
    <3>3. g[u[m]] = sub(power(u[m], n), c[k1])
      BY <3>1
    <3> QED
      BY <1>1, <3>2, <3>3, SubLaws
  <2> QED
    BY <2>1
<1> HIDE DEF u, g
<1> QED
  BY <1>1, <1>2, <1>6, <1>7, MonicRoots

\* The product of X - v over the roots is that of X^n - c over the c.
LEMMA ZerofierOfRoots ==
  ASSUME NEW n \in Nat \ {0}, NEW K \in Nat, NEW c \in [1..K -> Fr], NEW s, AreRootsOf(s, c, n, K),
         NEW x \in Fr
  PROVE  product([m \in 1..(n * K) |-> sub(x, s[m])]) = product([k \in 1..K |-> sub(power(x, n), c[k])])
<1> DEFINE M == n * K
           G1 == [m \in 1..M |-> [z \in Fr |-> sub(z, s[m])]]
           G2 == [k \in 1..K |-> [z \in Fr |-> sub(power(z, n), c[k])]]
           g1 == [z \in Fr |-> product([m \in 1..M |-> G1[m][z]])]
           g2 == [z \in Fr |-> product([k \in 1..K |-> G2[k][z]])]
<1>1. M \in Nat /\ n \in Nat /\ 1 \in Nat \ {0} /\ 1 * M = M /\ s \in [1..M -> Fr] /\ IsInjective(s) /\ 1 \in Nat
  BY DEF AreRootsOf
<1>2. M = n * K
  OBVIOUS
<1> HIDE DEF M
<1>3. G1 \in [1..M -> [Fr -> Fr]] /\ \A m \in 1..M, z \in Fr : G1[m][z] = sub(z, s[m])
  BY <1>1, Operations
<1>4. G2 \in [1..K -> [Fr -> Fr]] /\ \A k \in 1..K, z \in Fr : G2[k][z] = sub(power(z, n), c[k])
  <2>1. \A z \in Fr : power(z, n) \in Fr
    BY <1>1, PowerType
  <2> QED
    BY <2>1, Operations
<1>5. IsMonic(g1, 1 * M)
  <2>1. \A m \in 1..M : IsMonic(G1[m], 1)
    <3>1. ASSUME NEW m \in 1..M
          PROVE  IsMonic(G1[m], 1)
      <4>1. \A z \in Fr : G1[m][z] = sub(power(z, 1), s[m])
        BY <1>1, <1>3, PowerOfOne
      <4>2. s[m] \in Fr
        BY <1>1
      <4> HIDE DEF G1
      <4> QED
        BY <1>1, <4>1, <4>2, PowerIsMonic
    <3> QED
      BY <3>1
  <2> HIDE DEF G1
  <2> QED
    BY <1>1, <1>3, <2>1, MonicProducts
<1>6. IsMonic(g2, n * K)
  <2>1. \A k \in 1..K : IsMonic(G2[k], n)
    <3>1. ASSUME NEW k \in 1..K
          PROVE  IsMonic(G2[k], n)
      <4>1. \A z \in Fr : G2[k][z] = sub(power(z, n), c[k])
        BY <1>4
      <4>2. c[k] \in Fr
        OBVIOUS
      <4> HIDE DEF G2
      <4> QED
        BY <4>1, <4>2, PowerIsMonic
    <3> QED
      BY <3>1
  <2> HIDE DEF G2
  <2> QED
    BY <1>1, <1>4, <2>1, MonicProducts
<1> HIDE DEF G1, G2
<1>7. \A m \in 1..M : g1[s[m]] = g2[s[m]]
  <2>1. ASSUME NEW m \in 1..M
        PROVE  g1[s[m]] = 0 /\ g2[s[m]] = 0
    <3> DEFINE v == s[m]
               f1 == [i \in 1..M |-> G1[i][v]]
               f2 == [i \in 1..K |-> G2[i][v]]
    <3>1. v \in Fr
      BY <1>1
    <3>2. g1[v] = product(f1) /\ g2[v] = product(f2)
      BY <3>1
    <3>3. f1 \in [1..M -> Fr] /\ f2 \in [1..K -> Fr]
      BY <1>3, <1>4, <3>1
    <3>4. f1[m] = sub(v, s[m]) /\ sub(v, s[m]) = 0
      <4>1. f1[m] = sub(v, s[m]) /\ v = s[m]
        BY <1>3, <3>1
      <4> HIDE DEF f1, v
      <4> QED
        BY <3>1, <4>1, SubLaws
    <3>5. PICK k \in 1..K : f2[k] = 0
      <4>0. \A i \in 1..(n * K) : \E k \in 1..K, j \in 1..n : i = (k - 1) * n + j
        BY BlockPlaces
      <4>1. PICK k \in 1..K, j \in 1..n : m = (k - 1) * n + j
        BY <1>2, <4>0
      <4>2. power(v, n) = c[k]
        BY <4>1 DEF AreRootsOf
      <4>3. f2[k] = sub(power(v, n), c[k]) /\ c[k] \in Fr
        BY <1>4, <3>1
      <4> QED
        BY <4>2, <4>3, SubLaws
    <3>6. IsFiniteSet(1..M) /\ IsFiniteSet(1..K)
      BY <1>1, FS_Interval
    <3> HIDE DEF f1, f2, v
    <3>7. product(f1) = 0 /\ product(f2) = 0
      BY <3>3, <3>4, <3>5, <3>6, ProductIsZero
    <3> QED
      BY <3>2, <3>7 DEF v
  <2> QED
    BY <2>1
<1>8. g1[x] = g2[x]
  <2> HIDE DEF g1, g2
  <2> QED
    BY <1>1, <1>2, <1>5, <1>6, <1>7, SameMonic
<1>9. [m \in 1..M |-> G1[m][x]] = [m \in 1..M |-> sub(x, s[m])]
  BY <1>3
<1>10. [k \in 1..K |-> G2[k][x]] = [k \in 1..K |-> sub(power(x, n), c[k])]
  BY <1>4
<1> QED
  BY <1>2, <1>8, <1>9, <1>10

\* A polynomial that is zero at all the roots is divided by X^n - c for one c after the
\* other: no division finds a rest, the last quotient times the product of X - v is the
\* polynomial, and its degree is as much lower as there are roots.
AreDivisions(D, c, n, K) ==
  D \in [0..K -> polys] /\ \A k \in 1..K : D[k] = divByZerofier(D[k - 1], n, c[k])
LEMMA DividesInTurn ==
  ASSUME NEW n \in Nat \ {0}, NEW K \in Nat, NEW c \in [1..K -> Fr \ {0}], NEW s, AreRootsOf(s, c, n, K),
         NEW D, AreDivisions(D, c, n, K), \A m \in 1..(n * K) : evaluateAt(D[0], s[m]) = 0
  PROVE  /\ \A k \in 1..K : dividedByZerofier(D[k - 1], n, c[k])
         /\ \A x \in Fr : evaluateAt(D[0], x)
                            = mul(evaluateAt(D[K], x), product([m \in 1..(n * K) |-> sub(x, s[m])]))
         /\ \A d \in Nat : getDegree(D[0]) <= d + n * K => getDegree(D[K]) <= d
<1> DEFINE N(k, x) == product([j \in 1..k |-> sub(power(x, n), c[j])])
           Good(k) == /\ \A j \in 1..k : dividedByZerofier(D[j - 1], n, c[j])
                      /\ \A x \in Fr : evaluateAt(D[0], x) = mul(evaluateAt(D[k], x), N(k, x))
                      /\ \A d \in Nat : getDegree(D[0]) <= d + n * k => getDegree(D[k]) <= d
           S == {k \in Nat : k <= K => Good(k)}
<1>1. D[0] \in polys /\ n \in Nat /\ \A k \in 1..K : c[k] \in Fr /\ c[k] # 0
  BY DEF AreDivisions
<1>2. ASSUME NEW k \in Nat, k <= K, NEW x \in Fr
      PROVE  /\ [j \in 1..k |-> sub(power(x, n), c[j])] \in [1..k -> Fr]
             /\ N(k, x) \in Fr
             /\ (\A j \in 1..k : power(x, n) # c[j]) => N(k, x) # 0
  <2> DEFINE h == [j \in 1..k |-> sub(power(x, n), c[j])]
  <2>1. power(x, n) \in Fr /\ \A j \in 1..k : c[j] \in Fr
    BY <1>1, <1>2, PowerType
  <2>2. h \in [1..k -> Fr] /\ \A j \in 1..k : power(x, n) # c[j] => h[j] # 0
    BY <2>1, Operations, SubLaws
  <2>3. IsFiniteSet(1..k)
    BY FS_Interval
  <2>4. N(k, x) = product(h)
    OBVIOUS
  <2> HIDE DEF h, N
  <2>5. product(h) \in Fr /\ (product(h) = 0 <=> \E j \in 1..k : h[j] = 0)
    BY <2>2, <2>3, ProductLaws, ProductIsZero
  <2> QED
    BY <2>2, <2>4, <2>5 DEF h
<1>3. 0 \in S
  <2>1. \A x \in Fr : N(0, x) = 1
    <3>1. ASSUME NEW x \in Fr
          PROVE  N(0, x) = 1
      <4> DEFINE h == [j \in 1..0 |-> sub(power(x, n), c[j])]
      <4>1. h \in [1..0 -> Fr]
        OBVIOUS
      <4> HIDE DEF h
      <4>2. product(h) = 1
        BY <4>1, ProductOfNone
      <4> QED
        BY <4>2 DEF h
    <3> QED
      BY <3>1
  <2> HIDE DEF N
  <2>2. \A x \in Fr : evaluateAt(D[0], x) \in Fr /\ mul(evaluateAt(D[0], x), 1) = evaluateAt(D[0], x)
    BY <1>1, ValueType, ZeroLaws
  <2>3. n * 0 = 0 /\ \A d \in Nat : d + 0 = d
    BY <1>1
  <2> QED
    BY <2>1, <2>2, <2>3
<1>4. ASSUME NEW k \in Nat, k \in S
      PROVE  k + 1 \in S
  <2> SUFFICES ASSUME k + 1 <= K
               PROVE  Good(k + 1)
    OBVIOUS
  <2> DEFINE l == k + 1
             u == [j \in 1..n |-> s[(l - 1) * n + j]]
             p == D[k]
             beta == c[l]
  <2>1. k <= K /\ l \in 1..K /\ l - 1 = k /\ k \in 0..K /\ l \in 0..K /\ l \in Nat
    OBVIOUS
  <2>2. Good(k)
    BY <1>4, <2>1
  <2>3. p \in polys /\ D[l] \in polys /\ D[l] = divByZerofier(p, n, beta) /\ beta \in Fr \ {0}
    BY <2>1 DEF AreDivisions
  <2>4. \A j \in 1..n : (l - 1) * n + j \in 1..(n * K)
    BY <2>1, BlockPlaces
  <2> HIDE DEF l
  <2>5. u \in [1..n -> Fr] /\ IsInjective(u)
    <3>1. \A j1, j2 \in 1..n : (l - 1) * n + j1 = (l - 1) * n + j2 => j1 = j2
      BY <2>1, BlockPlaces
    <3>2. s \in [1..(n * K) -> Fr] /\ \A a, b \in 1..(n * K) : s[a] = s[b] => a = b
      BY DEF AreRootsOf, IsInjective
    <3> QED
      BY <2>4, <3>1, <3>2 DEF IsInjective
  <2>6. ASSUME NEW j \in 1..n
        PROVE  power(u[j], n) = beta /\ evaluateAt(p, u[j]) = 0
    <3>1. u[j] = s[(l - 1) * n + j] /\ u[j] \in Fr
      BY <2>5
    <3>2. power(u[j], n) = beta
      BY <2>1, <3>1 DEF AreRootsOf
    <3>3. evaluateAt(D[0], u[j]) = 0
      BY <2>4, <3>1
    <3>4. evaluateAt(D[0], u[j]) = mul(evaluateAt(p, u[j]), N(k, u[j]))
      BY <2>2, <3>1
    <3>5. \A i \in 1..k : power(u[j], n) # c[i]
      <4>1. ASSUME NEW i \in 1..k
            PROVE  beta # c[i]
        <5>1. i \in 1..K /\ i # l
          BY <2>1
        <5> QED
          BY <2>1, <5>1, RootsOfDiffer
      <4> QED
        BY <3>2, <4>1
    <3>6. N(k, u[j]) \in Fr /\ N(k, u[j]) # 0
      BY <1>2, <2>1, <3>1, <3>5
    <3>7. evaluateAt(p, u[j]) \in Fr
      BY <2>3, <3>1, ValueType
    <3> HIDE DEF N, u, p
    <3>8. mul(N(k, u[j]), evaluateAt(p, u[j])) = 0
      BY <3>3, <3>4, <3>6, <3>7, MulLaws
    <3> QED
      BY <3>2, <3>6, <3>7, <3>8, Cancel
  <2> HIDE DEF p, u, beta, N
  <2>7. /\ dividedByZerofier(p, n, beta)
        /\ \A x \in Fr : evaluateAt(p, x) = mul(sub(power(x, n), beta), evaluateAt(D[l], x))
        /\ \A d \in Nat : getDegree(p) <= d + n => getDegree(D[l]) <= d
    BY <2>3, <2>5, <2>6, ZerofierDivides
  <2>8. \A j \in 1..l : dividedByZerofier(D[j - 1], n, c[j])
    <3>1. \A j \in 1..l : j \in 1..k \/ j = l
      BY <2>1
    <3> QED
      BY <2>1, <2>2, <2>7, <3>1 DEF p, beta
  <2>9. ASSUME NEW x \in Fr
        PROVE  evaluateAt(D[0], x) = mul(evaluateAt(D[l], x), N(l, x))
    <3> DEFINE g == [j \in 1..(k + 1) |-> sub(power(x, n), c[j])]
               h == [j \in 1..k |-> sub(power(x, n), c[j])]
               a == sub(power(x, n), beta)
               b == evaluateAt(D[l], x)
    <3>1. g \in [1..(k + 1) -> Fr] /\ h = [j \in 1..k |-> g[j]] /\ g[k + 1] = a /\ a \in Fr
      <4>1. l = k + 1
        BY DEF l
      <4>2. g \in [1..(k + 1) -> Fr]
        BY <1>2, <2>1, <4>1
      <4>3. \A j \in 1..k : j \in 1..(k + 1)
        OBVIOUS
      <4>4. k + 1 \in 1..(k + 1) /\ g[k + 1] = a
        BY <4>1 DEF beta
      <4> QED
        BY <4>2, <4>3, <4>4
    <3>2. N(l, x) = product(g) /\ N(k, x) = product(h)
      BY DEF N, l
    <3>3. N(k, x) \in Fr /\ b \in Fr
      BY <1>2, <2>1, <2>3, ValueType
    <3> HIDE DEF g, h, a, b
    <3>4. product(g) = mul(a, product(h))
      BY <3>1, ProductOfNext
    <3>5. evaluateAt(D[0], x) = mul(mul(a, b), N(k, x))
      <4>1. evaluateAt(p, x) = mul(a, b)
        BY <2>7 DEF a, b
      <4> QED
        BY <2>2, <4>1 DEF p
    <3>6. mul(mul(a, b), N(k, x)) = mul(b, mul(a, N(k, x)))
      <4>1. mul(a, b) = mul(b, a) /\ mul(b, mul(a, N(k, x))) = mul(mul(b, a), N(k, x))
        BY <3>1, <3>3, MulLaws
      <4> QED
        BY <4>1
    <3> QED
      BY <3>2, <3>4, <3>5, <3>6 DEF b
  <2>10. ASSUME NEW d \in Nat, getDegree(D[0]) <= d + n * l
         PROVE  getDegree(D[l]) <= d
    <3>1. d + n * l = (d + n) + n * k /\ d + n \in Nat
      <4>1. l = k + 1 /\ n * (k + 1) = n * k + n /\ n * k \in Nat
        BY <1>1 DEF l
      <4> QED
        BY <1>1, <4>1
    <3>2. getDegree(p) <= d + n
      BY <2>2, <2>10, <3>1 DEF p
    <3> QED
      BY <2>7, <3>2
  <2> QED
    BY <2>8, <2>9, <2>10 DEF l
<1> HIDE DEF S, Good
<1>5. Good(K)
  <2>1. K \in S
    BY <1>3, <1>4, Induction
  <2> QED
    BY <2>1 DEF S
<1>6. \A x \in Fr : N(K, x) = product([m \in 1..(n * K) |-> sub(x, s[m])])
  <2>1. c \in [1..K -> Fr]
    BY <1>1
  <2> QED
    BY <2>1, ZerofierOfRoots
<1> HIDE DEF N
<1> QED
  BY <1>5, <1>6 DEF Good

\* The places of 1..M without J, in their order.
skip(J, m) == IF m < J THEN m ELSE m + 1

\* They are different ones, and all of them.
LEMMA Skips ==
  ASSUME NEW M \in Nat \ {0}, NEW J \in 1..M
  PROVE  /\ \A m \in 1..(M - 1) : skip(J, m) \in (1..M) \ {J}
         /\ \A m \in (1..M) \ {J} : \E l \in 1..(M - 1) : m = skip(J, l)
         /\ \A m, l \in 1..(M - 1) : skip(J, m) = skip(J, l) => m = l
<1>1. \A m \in 1..(M - 1) : skip(J, m) \in (1..M) \ {J}
  BY DEF skip
<1>2. \A m \in (1..M) \ {J} : \E l \in 1..(M - 1) : m = skip(J, l)
  <2>1. ASSUME NEW m \in (1..M) \ {J}
        PROVE  \E l \in 1..(M - 1) : m = skip(J, l)
    <3>1. CASE m < J
      <4>1. m \in 1..(M - 1) /\ m = skip(J, m)
        BY <3>1 DEF skip
      <4> QED
        BY <4>1
    <3>2. CASE ~(m < J)
      <4>1. m - 1 \in 1..(M - 1) /\ m = skip(J, m - 1)
        BY <3>2 DEF skip
      <4> QED
        BY <4>1
    <3> QED
      BY <3>1, <3>2
  <2> QED
    BY <2>1
<1>3. \A m, l \in 1..(M - 1) : skip(J, m) = skip(J, l) => m = l
  BY DEF skip
<1> QED
  BY <1>1, <1>2, <1>3

\* A product that leaves out one place, with the places counted without it.
LEMMA ProductWithout ==
  ASSUME NEW M \in Nat \ {0}, NEW J \in 1..M, NEW g \in [1..M -> Fr]
  PROVE  product([m \in 1..(M - 1) |-> g[skip(J, m)]]) = product([m \in (1..M) \ {J} |-> g[m]])
<1> DEFINE p == [m \in 1..(M - 1) |-> skip(J, m)]
<1>1. \A m \in 1..(M - 1) : skip(J, m) \in (1..M) \ {J}
  BY Skips
<1>2. \A m \in (1..M) \ {J} : \E l \in 1..(M - 1) : m = skip(J, l)
  BY Skips
<1>3. \A m, l \in 1..(M - 1) : skip(J, m) = skip(J, l) => m = l
  BY Skips
<1>4. p \in Injection(1..(M - 1), 1..M)
  <2>1. p \in [1..(M - 1) -> 1..M]
    BY <1>1
  <2>2. \A m, l \in 1..(M - 1) : p[m] = p[l] => m = l
    BY <1>3
  <2> HIDE DEF p
  <2> QED
    BY <2>1, <2>2 DEF Injection, IsInjective
<1>5. {p[m] : m \in 1..(M - 1)} = (1..M) \ {J}
  BY <1>1, <1>2
<1>6. IsFiniteSet(1..(M - 1)) /\ IsFiniteSet(1..M)
  BY FS_Interval
<1>7. [m \in 1..(M - 1) |-> g[p[m]]] = [m \in 1..(M - 1) |-> g[skip(J, m)]]
  OBVIOUS
<1>8. Restrict(g, (1..M) \ {J}) = [m \in (1..M) \ {J} |-> g[m]]
  BY DEF Restrict
<1> HIDE DEF p
<1>9. product([m \in 1..(M - 1) |-> g[p[m]]]) = product(Restrict(g, {p[m] : m \in 1..(M - 1)}))
  BY <1>4, <1>6, ProductRenamed
<1> QED
  BY <1>5, <1>7, <1>8, <1>9

\* A product of all but one of M polynomials of degree n, each with 1 as its highest
\* coefficient, is one of degree n * (M - 1).
LEMMA MonicWithout ==
  ASSUME NEW n \in Nat, NEW M \in Nat \ {0}, NEW J \in 1..M, NEW G \in [1..M -> [Fr -> Fr]],
         \A m \in 1..M : IsMonic(G[m], n)
  PROVE  IsMonic([x \in Fr |-> product([m \in (1..M) \ {J} |-> G[m][x]])], n * (M - 1))
<1> DEFINE K == M - 1
           H == [m \in 1..K |-> G[skip(J, m)]]
           u == [x \in Fr |-> product([m \in 1..K |-> H[m][x]])]
           v == [x \in Fr |-> product([m \in (1..M) \ {J} |-> G[m][x]])]
<1>1. K \in Nat
  OBVIOUS
<1>2. \A m \in 1..K : skip(J, m) \in 1..M
  BY DEF skip
<1>3. H \in [1..K -> [Fr -> Fr]] /\ \A m \in 1..K : IsMonic(H[m], n)
  BY <1>2
<1>4. IsMonic(u, n * K)
  <2> HIDE DEF H, K
  <2> QED
    BY <1>1, <1>3, MonicProducts
<1>5. ASSUME NEW x \in Fr
      PROVE  u[x] = v[x]
  <2> DEFINE g == [m \in 1..M |-> G[m][x]]
  <2>1. g \in [1..M -> Fr] /\ \A m \in 1..M : g[m] = G[m][x]
    OBVIOUS
  <2>2. [m \in 1..K |-> H[m][x]] = [m \in 1..(M - 1) |-> g[skip(J, m)]]
    BY <1>2
  <2>3. [m \in (1..M) \ {J} |-> G[m][x]] = [m \in (1..M) \ {J} |-> g[m]]
    OBVIOUS
  <2>4. u[x] = product([m \in 1..(M - 1) |-> g[skip(J, m)]])
    BY <2>2
  <2>5. v[x] = product([m \in (1..M) \ {J} |-> g[m]])
    BY <2>3
  <2> HIDE DEF g, u, v
  <2>6. product([m \in 1..(M - 1) |-> g[skip(J, m)]]) = product([m \in (1..M) \ {J} |-> g[m]])
    BY <2>1, ProductWithout
  <2> QED
    BY <2>4, <2>5, <2>6
<1>6. u = v
  <2>1. u = [x \in Fr |-> u[x]] /\ v = [x \in Fr |-> v[x]]
    OBVIOUS
  <2> HIDE DEF u, v
  <2> QED
    BY <1>5, <2>1
<1> QED
  BY <1>4, <1>6

\* Such a polynomial stays one when a constant is added.
LEMMA MonicPlus ==
  ASSUME NEW n \in Nat \ {0}, NEW g, IsMonic(g, n), NEW c \in Fr,
         NEW u, \A x \in Fr : u[x] = add(g[x], c)
  PROVE  IsMonic(u, n)
<1>1. PICK r \in [0..(n - 1) -> Fr] : \A x \in Fr : g[x] = add(power(x, n), evaluateAt(r, x))
  BY DEF IsMonic
<1>2. PICK q \in [0..(n - 1) -> Fr] : \A x \in Fr : evaluateAt(q, x) = c
  BY Constant
<1>3. n \in Nat
  OBVIOUS
<1>4. PICK t \in [0..(n - 1) -> Fr] :
        \A x \in Fr : evaluateAt(t, x) = add(evaluateAt(r, x), evaluateAt(q, x))
  BY <1>3, SumOfBoth
<1>5. ASSUME NEW x \in Fr
      PROVE  u[x] = add(power(x, n), evaluateAt(t, x))
  <2>1. power(x, n) \in Fr /\ evaluateAt(r, x) \in Fr
    BY <1>3, PowerType, EvaluateType
  <2>2. u[x] = add(add(power(x, n), evaluateAt(r, x)), c)
    BY <1>1
  <2>3. evaluateAt(t, x) = add(evaluateAt(r, x), c)
    BY <1>2, <1>4
  <2> QED
    BY <2>1, <2>2, <2>3, AddLaws
<1> QED
  BY <1>4, <1>5 DEF IsMonic

\* Differences that follow one another.
LEMMA DifferencesMeet ==
  ASSUME NEW a \in Fr, NEW b \in Fr, NEW c \in Fr
  PROVE  add(sub(a, b), sub(b, c)) = sub(a, c)
<1>1. a \in Int /\ b \in Int /\ c \in Int
  BY PIsNat
<1>2. Cong(a, a) /\ Cong(b, b) /\ Cong(c, c)
  BY <1>1, CongRefl
<1>3. /\ sub(a, b) \in Fr /\ Cong(sub(a, b), a - b) /\ sub(b, c) \in Fr /\ Cong(sub(b, c), b - c)
      /\ sub(a, c) \in Fr /\ Cong(sub(a, c), a - c)
  BY Operations
<1>4. a - b \in Int /\ b - c \in Int /\ a - c \in Int /\ (a - b) + (b - c) = a - c
  BY <1>1
<1>5. add(sub(a, b), sub(b, c)) \in Fr /\ Cong(add(sub(a, b), sub(b, c)), (a - b) + (b - c))
  BY <1>3, <1>4, Represent
<1> QED
  BY <1>3, <1>4, <1>5, SameRepresentative

\* Two identities for the quotient of the next power: times X - s,
LEMMA QuotientOfNext ==
  ASSUME NEW x \in Fr, NEW s \in Fr, NEW h \in Fr, NEW p \in Fr, NEW q \in Fr,
         mul(sub(x, s), h) = sub(p, q)
  PROVE  mul(sub(x, s), add(mul(x, h), q)) = sub(mul(x, p), mul(s, q))
<1> DEFINE d == sub(x, s)
<1>1. d \in Fr /\ mul(x, h) \in Fr /\ mul(d, q) \in Fr /\ mul(x, p) \in Fr /\ mul(x, q) \in Fr /\ mul(s, q) \in Fr
  BY Operations
<1>2. sub(mul(p, x), mul(q, x)) = mul(sub(p, q), x) /\ sub(p, q) \in Fr
  BY DifferenceTimes, Operations
<1>3. mul(d, q) = sub(mul(x, q), mul(s, q))
  BY DifferenceTimes
<1>4. mul(d, h) = sub(p, q)
  OBVIOUS
<1> HIDE DEF d
<1>5. mul(d, add(mul(x, h), q)) = add(mul(d, mul(x, h)), mul(d, q))
  BY <1>1, Distributive
<1>6. mul(d, mul(x, h)) = mul(mul(d, h), x)
  <2>1. mul(x, h) = mul(h, x) /\ mul(d, mul(h, x)) = mul(mul(d, h), x)
    BY <1>1, MulLaws
  <2> QED
    BY <2>1
<1>7. mul(p, x) = mul(x, p) /\ mul(q, x) = mul(x, q)
  BY MulLaws
<1>8. mul(d, mul(x, h)) = sub(mul(x, p), mul(x, q))
  BY <1>2, <1>4, <1>6, <1>7
<1>9. add(sub(mul(x, p), mul(x, q)), sub(mul(x, q), mul(s, q))) = sub(mul(x, p), mul(s, q))
  BY <1>1, DifferencesMeet
<1> QED
  BY <1>3, <1>5, <1>8, <1>9 DEF d

\* and at s.
LEMMA ValueOfNext ==
  ASSUME NEW s \in Fr, NEW c \in Fr, NEW t \in Fr
  PROVE  add(mul(s, mul(c, t)), mul(s, t)) = mul(add(c, 1), mul(s, t))
<1> DEFINE z == mul(s, t)
<1>1. z \in Fr /\ 1 \in Fr
  BY Operations, PIsNat
<1>2. mul(s, mul(c, t)) = mul(c, z)
  <2>1. mul(c, t) = mul(t, c) /\ mul(s, mul(t, c)) = mul(z, c) /\ mul(z, c) = mul(c, z)
    BY <1>1, MulLaws
  <2> QED
    BY <2>1
<1> HIDE DEF z
<1>3. mul(z, add(c, 1)) = add(mul(z, c), mul(z, 1)) /\ mul(z, 1) = z
  BY <1>1, Distributive, ZeroLaws
<1>4. mul(z, c) = mul(c, z) /\ add(c, 1) \in Fr /\ mul(z, add(c, 1)) = mul(add(c, 1), z)
  BY <1>1, MulLaws, Operations
<1> QED
  BY <1>2, <1>3, <1>4 DEF z

\* n + 1 as an element.
LEMMA NextElement ==
  ASSUME NEW n \in Nat
  PROVE  n % P \in Fr /\ add(n % P, 1) = (n + 1) % P /\ 1 % P = 1
<1>1. n \in Int /\ n + 1 \in Int /\ 1 \in Int /\ 1 \in Fr
  BY PIsNat
<1>2. n % P \in Fr /\ Cong(n % P, n)
  BY <1>1, CongMod
<1>3. (n + 1) % P \in Fr /\ Cong((n + 1) % P, n + 1)
  BY <1>1, CongMod
<1>4. 1 % P \in Fr /\ Cong(1 % P, 1) /\ Cong(1, 1)
  BY <1>1, CongMod, CongRefl
<1>5. add(n % P, 1) \in Fr /\ Cong(add(n % P, 1), n + 1)
  BY <1>1, <1>2, <1>4, Represent
<1>6. add(n % P, 1) = (n + 1) % P
  BY <1>1, <1>3, <1>5, SameRepresentative
<1>7. 1 % P = 1
  BY <1>1, <1>4, CongEqual
<1> QED
  BY <1>2, <1>6, <1>7

\* X^n - s^n is X - s times a polynomial of degree n - 1, whose highest coefficient is 1
\* and whose value at s is n s^(n - 1).
IsQuotientOfPowers(g, n, s) ==
  /\ g \in [Fr -> Fr] /\ IsMonic(g, n)
  /\ \A x \in Fr : mul(sub(x, s), g[x]) = sub(power(x, n + 1), power(s, n + 1))
  /\ g[s] = mul((n + 1) % P, power(s, n))
LEMMA QuotientOfPowers ==
  ASSUME NEW n \in Nat, NEW s \in Fr
  PROVE  \E g : IsQuotientOfPowers(g, n, s)
<1> DEFINE S == {m \in Nat : \E g : IsQuotientOfPowers(g, m, s)}
<1>1. 0 \in S
  <2> DEFINE u == [x \in Fr |-> 1]
  <2>1. u \in [Fr -> Fr] /\ \A x \in Fr : u[x] = 1
    BY PIsNat
  <2> HIDE DEF u
  <2>2. IsMonic(u, 0)
    <3>1. PICK r : r \in [0..(0 - 1) -> Fr]
      <4>1. [e \in 0..(0 - 1) |-> 0] \in [0..(0 - 1) -> Fr]
        OBVIOUS
      <4> QED
        BY <4>1
    <3>2. \A x \in Fr : evaluateAt(r, x) = 0 /\ power(x, 0) = 1 /\ add(1, 0) = 1
      BY <3>1, EvaluateNone, PowerStep, ZeroLaws, PIsNat
    <3> QED
      BY <2>1, <3>1, <3>2 DEF IsMonic
  <2>3. ASSUME NEW x \in Fr
        PROVE  mul(sub(x, s), u[x]) = sub(power(x, 0 + 1), power(s, 0 + 1))
    <3>1. power(x, 1) = x /\ power(s, 1) = s /\ 0 + 1 = 1
      BY PowerOfOne
    <3>2. sub(x, s) \in Fr /\ mul(sub(x, s), 1) = sub(x, s)
      BY Operations, ZeroLaws
    <3> QED
      BY <2>1, <3>1, <3>2
  <2>4. u[s] = mul((0 + 1) % P, power(s, 0))
    <3>1. 1 % P = 1 /\ 0 + 1 = 1 /\ power(s, 0) = 1 /\ mul(1, 1) = 1
      BY NextElement, PowerStep, ZeroLaws, PIsNat
    <3> QED
      BY <2>1, <3>1
  <2> QED
    BY <2>1, <2>2, <2>3, <2>4 DEF IsQuotientOfPowers
<1>2. ASSUME NEW m \in Nat, m \in S
      PROVE  m + 1 \in S
  <2>1. PICK g : IsQuotientOfPowers(g, m, s)
    BY <1>2
  <2> DEFINE k == m + 1
             q == power(s, k)
             X == [x \in Fr |-> x]
             v == [x \in Fr |-> mul(g[x], X[x])]
             u == [x \in Fr |-> add(v[x], q)]
  <2>2. k \in Nat \ {0} /\ q \in Fr /\ 0 \in Fr /\ 1 \in Nat \ {0} /\ 1 \in Nat
    <3>1. k \in Nat \ {0}
      OBVIOUS
    <3> HIDE DEF k
    <3> QED
      BY <3>1, PowerType, PIsNat
  <2>3. g \in [Fr -> Fr] /\ IsMonic(g, m) /\ g[s] = mul(k % P, power(s, m))
    BY <2>1 DEF IsQuotientOfPowers
  <2>4. \A x \in Fr : mul(sub(x, s), g[x]) = sub(power(x, k), q)
    BY <2>1 DEF IsQuotientOfPowers
  <2>5. IsMonic(X, 1)
    <3>1. \A x \in Fr : X[x] = sub(power(x, 1), 0)
      BY <2>2, PowerOfOne, SubLaws
    <3> HIDE DEF X
    <3> QED
      BY <2>2, <3>1, PowerIsMonic
  <2>6. \A x \in Fr : v[x] = mul(g[x], X[x]) /\ mul(g[x], X[x]) \in Fr /\ X[x] = x
    BY <2>3, Operations
  <2>7. \A x \in Fr : u[x] = add(v[x], q)
    OBVIOUS
  <2>8. u \in [Fr -> Fr]
    BY <2>2, <2>6, Operations
  <2> HIDE DEF X, v, u, q
  <2>9. IsMonic(v, k)
    <3>1. IsMonic(v, m + 1)
      BY <2>2, <2>3, <2>5, <2>6, MonicTimes
    <3> QED
      BY <3>1
  <2> HIDE DEF k
  <2>10. IsMonic(u, k)
    BY <2>2, <2>7, <2>9, MonicPlus
  <2>11. \A x \in Fr : u[x] = add(mul(x, g[x]), q)
    <3>1. \A x \in Fr : mul(g[x], x) = mul(x, g[x])
      BY <2>3, MulLaws
    <3> QED
      BY <2>6, <2>7, <3>1
  <2>12. \A x \in Fr : power(x, k) \in Fr /\ power(x, k + 1) = mul(x, power(x, k))
    BY <2>2, PowerStep, PowerType
  <2>13. ASSUME NEW x \in Fr
         PROVE  mul(sub(x, s), u[x]) = sub(power(x, k + 1), power(s, k + 1))
    <3>1. mul(sub(x, s), add(mul(x, g[x]), q)) = sub(mul(x, power(x, k)), mul(s, q))
      BY <2>2, <2>3, <2>4, <2>12, QuotientOfNext
    <3>2. power(s, k + 1) = mul(s, q)
      BY <2>12 DEF q
    <3> QED
      BY <2>11, <2>12, <3>1, <3>2
  <2>14. u[s] = mul((k + 1) % P, power(s, k))
    <3>1. q = mul(s, power(s, m)) /\ power(s, m) \in Fr
      BY PowerStep, PowerType DEF q, k
    <3>2. k % P \in Fr /\ add(k % P, 1) = (k + 1) % P
      BY <2>2, NextElement
    <3>3. u[s] = add(mul(s, mul(k % P, power(s, m))), mul(s, power(s, m)))
      BY <2>3, <2>11, <3>1
    <3>4. u[s] = mul(add(k % P, 1), mul(s, power(s, m)))
      BY <3>1, <3>2, <3>3, ValueOfNext
    <3>5. q = power(s, k)
      BY DEF q
    <3> QED
      BY <3>1, <3>2, <3>4, <3>5
  <2>15. IsQuotientOfPowers(u, k, s)
    BY <2>8, <2>10, <2>13, <2>14 DEF IsQuotientOfPowers
  <2> QED
    BY <2>15 DEF k
<1> HIDE DEF S
<1>3. n \in S
  BY <1>1, <1>2, Induction
<1> QED
  BY <1>3 DEF S

\* The product of the differences of one root to all the others, as the Lagrange
\* denominators have it: n v^(n - 1) times the differences of the c.
differencesOf(s, J, M) == product([m \in (1..M) \ {J} |-> sub(s[J], s[m])])
slopeAt(v, n) == mul(n % P, power(v, n - 1))
IsPlaceIn(J, k, n) == \E j \in 1..n : J = (k - 1) * n + j
LEMMA RootFactors ==
  ASSUME NEW n \in Nat \ {0}, NEW K \in Nat \ {0}, NEW c \in [1..K -> Fr], NEW s, AreRootsOf(s, c, n, K),
         NEW k \in 1..K, NEW J, IsPlaceIn(J, k, n), NEW M, M = n * K
  PROVE  differencesOf(s, J, M) = mul(slopeAt(s[J], n), differencesOf(c, k, K))
<1> DEFINE N == n - 1
           v == s[J]
           G1 == [m \in 1..M |-> [z \in Fr |-> sub(z, s[m])]]
           G2 == [l \in 1..K |-> [z \in Fr |-> sub(power(z, n), c[l])]]
           g == [z \in Fr |-> product([m \in (1..M) \ {J} |-> G1[m][z]])]
           h2 == [z \in Fr |-> product([l \in (1..K) \ {k} |-> G2[l][z]])]
<1>0. PICK j \in 1..n : J = (k - 1) * n + j
  BY DEF IsPlaceIn
<1>1. /\ \A k1 \in 1..K, j1 \in 1..n : (k1 - 1) * n + j1 \in 1..(n * K)
      /\ \A m \in 1..(n * K) : \E k1 \in 1..K, j1 \in 1..n : m = (k1 - 1) * n + j1
  BY BlockPlaces
<1>2. J \in 1..M /\ power(v, n) = c[k] /\ v \in Fr /\ v = s[J]
  BY <1>0, <1>1 DEF AreRootsOf
<1>3. /\ M \in Nat \ {0} /\ N \in Nat /\ N + 1 = n /\ M - 1 \in Nat /\ M - 1 = N + n * (K - 1)
      /\ 1 * (M - 1) = M - 1 /\ n \in Nat /\ 1 \in Nat /\ 1 \in Nat \ {0}
  <2>1. M \in Nat \ {0}
    BY <1>2
  <2>2. n * (K - 1) = n * K - n
    OBVIOUS
  <2> QED
    BY <2>1, <2>2
<1>4. s \in [1..M -> Fr] /\ IsInjective(s)
  BY DEF AreRootsOf
<1>5. M = n * K
  OBVIOUS
<1> HIDE DEF N, v
<1>6. PICK G : IsQuotientOfPowers(G, N, v)
  BY <1>2, <1>3, QuotientOfPowers
<1>7. /\ G \in [Fr -> Fr] /\ IsMonic(G, N) /\ G[v] = mul(n % P, power(v, N))
      /\ \A x \in Fr : mul(sub(x, v), G[x]) = sub(power(x, n), c[k])
  BY <1>2, <1>3, <1>6 DEF IsQuotientOfPowers
<1>8. G1 \in [1..M -> [Fr -> Fr]] /\ \A m \in 1..M, z \in Fr : G1[m][z] = sub(z, s[m])
  BY <1>4, Operations
<1>9. G2 \in [1..K -> [Fr -> Fr]] /\ \A l \in 1..K, z \in Fr : G2[l][z] = sub(power(z, n), c[l])
  <2>1. \A z \in Fr : power(z, n) \in Fr
    BY <1>3, PowerType
  <2> QED
    BY <2>1, Operations
<1> HIDE DEF G1, G2
<1>10. IsMonic(g, M - 1)
  <2>1. ASSUME NEW m \in 1..M
        PROVE  IsMonic(G1[m], 1)
    <3>1. \A z \in Fr : G1[m][z] = sub(power(z, 1), s[m])
      BY <1>3, <1>8, PowerOfOne
    <3>2. s[m] \in Fr
      BY <1>4
    <3> QED
      BY <1>3, <3>1, <3>2, PowerIsMonic
  <2>2. PICK d : d = 1
    OBVIOUS
  <2>3. /\ d \in Nat /\ M \in Nat \ {0} /\ J \in 1..M /\ G1 \in [1..M -> [Fr -> Fr]]
        /\ \A m \in 1..M : IsMonic(G1[m], d)
    BY <1>2, <1>3, <1>8, <2>1, <2>2
  <2>4. IsMonic(g, d * (M - 1))
    BY <2>3, MonicWithout
  <2> HIDE DEF g
  <2> QED
    BY <1>3, <2>2, <2>4
<1>11. IsMonic(h2, n * (K - 1))
  <2>1. ASSUME NEW l \in 1..K
        PROVE  IsMonic(G2[l], n)
    <3>1. \A z \in Fr : G2[l][z] = sub(power(z, n), c[l])
      BY <1>9
    <3>2. c[l] \in Fr
      OBVIOUS
    <3> QED
      BY <3>1, <3>2, PowerIsMonic
  <2> QED
    BY <1>3, <1>9, <2>1, MonicWithout
<1> DEFINE h == [z \in Fr |-> mul(G[z], h2[z])]
<1>12. IsMonic(h, M - 1)
  <2>1. \A z \in Fr : h[z] = mul(G[z], h2[z])
    OBVIOUS
  <2>2. K - 1 \in Nat /\ n * (K - 1) \in Nat
    OBVIOUS
  <2> HIDE DEF h, h2
  <2>3. IsMonic(h, N + n * (K - 1))
    BY <1>3, <1>7, <1>11, <2>1, <2>2, MonicTimes
  <2> QED
    BY <1>3, <2>3
<1>13. ASSUME NEW x \in Fr
       PROVE  /\ g[x] = product([m \in (1..M) \ {J} |-> sub(x, s[m])]) /\ g[x] \in Fr
              /\ h2[x] = product([l \in (1..K) \ {k} |-> sub(power(x, n), c[l])]) /\ h2[x] \in Fr
              /\ mul(sub(x, v), g[x]) = mul(sub(power(x, n), c[k]), h2[x])
  <2> DEFINE f1 == [m \in 1..M |-> sub(x, s[m])]
             f2 == [l \in 1..K |-> sub(power(x, n), c[l])]
  <2>1. power(x, n) \in Fr
    BY <1>3, PowerType
  <2>2. f1 \in [1..M -> Fr] /\ f2 \in [1..K -> Fr]
    BY <1>4, <2>1, Operations
  <2>3. /\ [m \in (1..M) \ {J} |-> G1[m][x]] = [m \in (1..M) \ {J} |-> sub(x, s[m])]
        /\ [l \in (1..K) \ {k} |-> G2[l][x]] = [l \in (1..K) \ {k} |-> sub(power(x, n), c[l])]
    BY <1>8, <1>9
  <2>4. /\ Restrict(f1, (1..M) \ {J}) = [m \in (1..M) \ {J} |-> sub(x, s[m])]
        /\ Restrict(f2, (1..K) \ {k}) = [l \in (1..K) \ {k} |-> sub(power(x, n), c[l])]
    BY DEF Restrict
  <2>5. g[x] = product(Restrict(f1, (1..M) \ {J})) /\ h2[x] = product(Restrict(f2, (1..K) \ {k}))
    BY <2>3, <2>4
  <2>6. f1[J] = sub(x, v) /\ f2[k] = sub(power(x, n), c[k])
    BY <1>2
  <2>7. product(f1) = product(f2)
    <3>1. product([m \in 1..(n * K) |-> sub(x, s[m])]) = product([l \in 1..K |-> sub(power(x, n), c[l])])
      BY ZerofierOfRoots
    <3> QED
      BY <1>5, <3>1
  <2>8. IsFiniteSet(1..M) /\ IsFiniteSet(1..K) /\ IsFiniteSet((1..M) \ {J}) /\ IsFiniteSet((1..K) \ {k})
    <3>1. IsFiniteSet(1..M) /\ IsFiniteSet(1..K)
      BY <1>3, FS_Interval
    <3> QED
      BY <3>1, FS_RemoveElement
  <2>9. Restrict(f1, (1..M) \ {J}) \in [(1..M) \ {J} -> Fr] /\ Restrict(f2, (1..K) \ {k}) \in [(1..K) \ {k} -> Fr]
    BY <2>2 DEF Restrict
  <2> HIDE DEF f1, f2, g, h2
  <2>10. /\ product(f1) = mul(f1[J], product(Restrict(f1, (1..M) \ {J})))
         /\ product(f2) = mul(f2[k], product(Restrict(f2, (1..K) \ {k})))
    BY <1>2, <2>2, <2>8, ProductLaws
  <2>11. g[x] \in Fr /\ h2[x] \in Fr
    BY <2>5, <2>8, <2>9, ProductLaws
  <2> QED
    BY <2>4, <2>5, <2>6, <2>7, <2>10, <2>11
<1>14. \A x \in Fr : h[x] = mul(G[x], h2[x])
  OBVIOUS
<1> DEFINE t == [m \in 1..(M - 1) |-> s[skip(J, m)]]
<1>15. t \in [1..(M - 1) -> Fr] /\ IsInjective(t) /\ \A m \in 1..(M - 1) : t[m] # v
  <2>1. \A m \in 1..(M - 1) : skip(J, m) \in (1..M) \ {J}
    BY <1>2, <1>3, Skips
  <2>2. \A m, l \in 1..(M - 1) : skip(J, m) = skip(J, l) => m = l
    <3>1. PICK top : top = M
      OBVIOUS
    <3>2. top \in Nat \ {0} /\ J \in 1..top
      BY <1>2, <1>3, <3>1
    <3>3. \A m, l \in 1..(top - 1) : skip(J, m) = skip(J, l) => m = l
      BY <3>2 DEF skip
    <3> QED
      BY <3>1, <3>3
  <2>3. \A a, b \in 1..M : s[a] = s[b] => a = b
    BY <1>4 DEF IsInjective
  <2> QED
    BY <1>2, <1>4, <2>1, <2>2, <2>3 DEF IsInjective
<1> HIDE DEF g, h, h2, t
<1>16. ASSUME NEW m \in 1..(M - 1)
       PROVE  g[t[m]] = h[t[m]]
  <2> DEFINE x == t[m]
             d == sub(x, v)
  <2>1. x \in Fr /\ x # v
    BY <1>15
  <2> HIDE DEF x
  <2>2. d \in Fr \ {0}
    BY <1>2, <2>1, Operations, SubLaws
  <2>3. g[x] \in Fr /\ h2[x] \in Fr /\ G[x] \in Fr /\ h[x] = mul(G[x], h2[x]) /\ h[x] \in Fr
    <3>1. g[x] \in Fr /\ h2[x] \in Fr
      BY <1>13, <2>1
    <3>2. G[x] \in Fr
      BY <1>7, <2>1
    <3>3. h[x] = mul(G[x], h2[x])
      BY <1>14, <2>1
    <3> QED
      BY <3>1, <3>2, <3>3, Operations
  <2>4. mul(d, g[x]) = mul(sub(power(x, n), c[k]), h2[x]) /\ mul(d, G[x]) = sub(power(x, n), c[k])
    BY <1>7, <1>13, <2>1
  <2> HIDE DEF d
  <2>5. mul(d, mul(G[x], h2[x])) = mul(mul(d, G[x]), h2[x])
    BY <2>2, <2>3, MulLaws
  <2>6. mul(d, g[x]) = mul(d, h[x])
    BY <2>3, <2>4, <2>5
  <2>7. g[x] = h[x]
    BY <2>2, <2>3, <2>6, Cancel
  <2> QED
    BY <2>7 DEF x
<1>17. g[v] = h[v]
  BY <1>2, <1>3, <1>10, <1>12, <1>15, <1>16, SameMonic
<1>18. h[v] = mul(mul(n % P, power(v, N)), h2[v])
  BY <1>2, <1>7, <1>14
<1>19. /\ g[v] = product([m \in (1..M) \ {J} |-> sub(v, s[m])])
       /\ h2[v] = product([l \in (1..K) \ {k} |-> sub(power(v, n), c[l])])
  BY <1>2, <1>13
<1>20. [l \in (1..K) \ {k} |-> sub(power(v, n), c[l])] = [l \in (1..K) \ {k} |-> sub(c[k], c[l])]
  BY <1>2
<1> QED
  BY <1>17, <1>18, <1>19, <1>20 DEF v, N, slopeAt, differencesOf

\* The differences of one or two elements.
LEMMA FewDifferences ==
  ASSUME NEW s, NEW n \in {1, 2}, s \in [1..n -> Fr]
  PROVE  /\ n = 1 => differencesOf(s, 1, n) = 1
         /\ n = 2 => differencesOf(s, 1, n) = sub(s[1], s[2]) /\ differencesOf(s, 2, n) = sub(s[2], s[1])
<1>1. CASE n = 1
  <2> DEFINE g == [m \in 1..0 |-> sub(s[1], s[m])]
  <2>1. (1..1) \ {1} = 1..0 /\ g \in [1..0 -> Fr]
    OBVIOUS
  <2>2. differencesOf(s, 1, 1) = product(g)
    BY <2>1 DEF differencesOf
  <2> HIDE DEF g
  <2>3. product(g) = 1
    BY <2>1, ProductOfNone
  <2>4. differencesOf(s, 1, n) = 1
    BY <1>1, <2>2, <2>3
  <2> QED
    BY <1>1, <2>4
<1>2. ASSUME NEW a \in Fr, NEW k, NEW S, S = {k}, NEW g, g \in [S -> Fr], g[k] = a
      PROVE  product(g) = a
  <2> DEFINE T == S \ {k}
             h == Restrict(g, T)
  <2>1. IsFiniteSet(S) /\ k \in S /\ T = {} /\ IsFiniteSet(T)
    BY <1>2, FS_Singleton, FS_EmptySet
  <2>2. h \in [T -> Fr]
    BY <1>2 DEF Restrict
  <2>3. product(g) = mul(g[k], product(h))
    BY <1>2, <2>1, ProductLaws
  <2> HIDE DEF h, T
  <2>4. product(h) = 1
    BY <2>1, <2>2, ProductLaws
  <2> QED
    BY <1>2, <2>3, <2>4, ZeroLaws
<1>3. CASE n = 2
  <2>1. s[1] \in Fr /\ s[2] \in Fr /\ sub(s[1], s[2]) \in Fr /\ sub(s[2], s[1]) \in Fr
    BY <1>3, Operations
  <2>2. ASSUME NEW j \in {1, 2}, NEW k \in {1, 2}, j # k
        PROVE  differencesOf(s, j, 2) = sub(s[j], s[k])
    <3> DEFINE S == (1..2) \ {j}
               g == [m \in S |-> sub(s[j], s[m])]
    <3>1. S = {k}
      BY <2>2
    <3>2. sub(s[j], s[k]) \in Fr
      BY <2>1, <2>2
    <3>3. g \in [S -> Fr] /\ g[k] = sub(s[j], s[k])
      BY <3>1, <3>2
    <3>4. differencesOf(s, j, 2) = product(g)
      BY DEF differencesOf
    <3> HIDE DEF g, S
    <3> QED
      BY <1>2, <3>1, <3>2, <3>3, <3>4
  <2> QED
    BY <1>3, <2>2
<1> QED
  BY <1>1, <1>3

\* A product over twice as many places.
AreHalves(low, high, g, n) == low = [j \in 1..n |-> g[j]] /\ high = [j \in 1..n |-> g[n + j]]
LEMMA ProductOfHalves ==
  ASSUME NEW n \in Nat, NEW M, M = n * 2, NEW g \in [1..M -> Fr], NEW g1, NEW g2, AreHalves(g1, g2, g, n)
  PROVE  product(g) = mul(product(g1), product(g2))
<1> DEFINE S == 1..M
           T == 1..n
           p == [j \in T |-> n + j]
<1>1. M \in Nat /\ T \subseteq S
  OBVIOUS
<1>2. IsFiniteSet(S) /\ IsFiniteSet(T)
  BY <1>1, FS_Interval
<1>3. Restrict(g, T) = g1
  BY <1>1 DEF Restrict, AreHalves
<1>4. p \in Injection(T, S)
  BY DEF Injection, IsInjective
<1>5. {p[j] : j \in T} = S \ T
  <2>1. ASSUME NEW m \in S \ T
        PROVE  \E j \in T : p[j] = m
    <3>1. m - n \in T /\ p[m - n] = m
      OBVIOUS
    <3> QED
      BY <3>1
  <2>2. ASSUME NEW j \in T
        PROVE  p[j] \in S \ T
    OBVIOUS
  <2> HIDE DEF S, T, p
  <2> QED
    BY <2>1, <2>2
<1>6. g2 = [j \in T |-> g[p[j]]]
  BY DEF AreHalves
<1> HIDE DEF S, T, p
<1>7. g \in [S -> Fr]
  BY DEF S
<1>8. product(g2) = product(Restrict(g, S \ T))
  <2>1. product([j \in T |-> g[p[j]]]) = product(Restrict(g, {p[j] : j \in T}))
    <3>1. IsFiniteSet(T) /\ IsFiniteSet(S) /\ p \in Injection(T, S) /\ g \in [S -> Fr]
      BY <1>2, <1>4, <1>7
    <3> QED
      BY <3>1, ProductRenamed
  <2> QED
    BY <1>5, <1>6, <2>1
<1>9. product(g) = mul(product(Restrict(g, T)), product(Restrict(g, S \ T)))
  BY <1>1, <1>2, <1>7, ProductOfParts
<1> QED
  BY <1>3, <1>8, <1>9

\* Different elements have no difference that is zero.
LEMMA DifferencesNotZero ==
  ASSUME NEW M \in Nat, NEW s \in [1..M -> Fr], NEW J \in 1..M
  PROVE  differencesOf(s, J, M) \in Fr /\ (IsInjective(s) => differencesOf(s, J, M) # 0)
<1> DEFINE S == (1..M) \ {J}
           g == [m \in S |-> sub(s[J], s[m])]
<1>1. g \in [S -> Fr]
  BY Operations
<1>2. IsFiniteSet(S)
  BY FS_Interval, FS_Subset
<1>3. differencesOf(s, J, M) = product(g)
  BY DEF differencesOf
<1>4. IsInjective(s) => \A m \in S : g[m] # 0
  BY SubLaws DEF IsInjective
<1> HIDE DEF S, g
<1> QED
  BY <1>1, <1>2, <1>3, <1>4, ProductLaws, ProductIsZero

-----------------------------------------------------------------------------
\* The largest of the integers of a sequence.
LEMMA MaxOfAll ==
  ASSUME NEW n \in Nat \ {0}, NEW g \in [1..n -> Int]
  PROVE  /\ Max({g[i] : i \in 1..n}) \in Int
         /\ \A i \in 1..n : Max({g[i1] : i1 \in 1..n}) >= g[i]
<1> DEFINE S == {k \in Nat : k + 1 <= n => \E j \in 1..(k + 1) : \A i \in 1..(k + 1) : g[j] >= g[i]}
<1>1. 0 \in S
  OBVIOUS
<1>2. ASSUME NEW k \in Nat, k \in S
      PROVE  k + 1 \in S
  <2> SUFFICES ASSUME (k + 1) + 1 <= n
               PROVE  \E j \in 1..((k + 1) + 1) : \A i \in 1..((k + 1) + 1) : g[j] >= g[i]
    OBVIOUS
  <2> DEFINE l == (k + 1) + 1
  <2>1. PICK j \in 1..(k + 1) : \A i \in 1..(k + 1) : g[j] >= g[i]
    BY <1>2
  <2>2. /\ j \in 1..l /\ l \in 1..l /\ (\A i \in 1..l : i \in 1..n /\ (i \in 1..(k + 1) \/ i = l))
        /\ j \in 1..n /\ l \in 1..n
    OBVIOUS
  <2> HIDE DEF l
  <2>3. \A i \in 1..n : g[i] \in Int
    OBVIOUS
  <2>4. CASE g[j] >= g[l]
    <3>1. \A i \in 1..l : g[j] >= g[i]
      BY <2>1, <2>2, <2>4
    <3> QED
      BY <2>2, <3>1 DEF l
  <2>5. CASE ~(g[j] >= g[l])
    <3>1. \A i \in 1..l : g[l] >= g[i]
      BY <2>1, <2>2, <2>3, <2>5
    <3> QED
      BY <2>2, <3>1 DEF l
  <2> QED
    BY <2>4, <2>5
<1>3. n - 1 \in S
  <2>1. n - 1 \in Nat
    OBVIOUS
  <2> HIDE DEF S
  <2> QED
    BY <1>1, <1>2, <2>1, Induction
<1>4. PICK j \in 1..n : \A i \in 1..n : g[j] >= g[i]
  <2>1. (n - 1) + 1 = n
    OBVIOUS
  <2> QED
    BY <1>3, <2>1
<1> DEFINE T == {g[i] : i \in 1..n}
<1>5. \E x \in T : \A z \in T : x >= z
  BY <1>4
<1>6. Max(T) \in T /\ \A z \in T : Max(T) >= z
  <2> HIDE DEF T
  <2> QED
    BY <1>5 DEF Max
<1> QED
  BY <1>6

\* A sum of integers is one.
LEMMA SumIsInt ==
  ASSUME NEW S, IsFiniteSet(S), NEW g \in [S -> Int]
  PROVE  SumFunction(g) \in Int
<1> DEFINE h == [p \in Int \X Int |-> p[1] + p[2]]
           Sums(w) == w = [s \in SUBSET S |-> IF s = {} THEN 0 ELSE g[first(s)] + w[s \ {first(s)}]]
<1>1. h \in [Int \X Int -> Int] /\ \A a, b \in Int : h[<<a, b>>] = a + b
  OBVIOUS
<1>2. IsMonoid(Int, h, 0)
  <2> HIDE DEF h
  <2>1. ASSUME NEW a \in Int, NEW b \in Int
        PROVE  h[<<a, b>>] = h[<<b, a>>]
    <3>1. h[<<a, b>>] = a + b /\ h[<<b, a>>] = b + a
      BY <1>1
    <3> QED
      BY <3>1
  <2>2. \A a, b, c \in Int : h[<<a, h[<<b, c>>]>>] = h[<<h[<<a, b>>], c>>]
    <3> SUFFICES ASSUME NEW a \in Int, NEW b \in Int, NEW c \in Int
                 PROVE  h[<<a, h[<<b, c>>]>>] = h[<<h[<<a, b>>], c>>]
      OBVIOUS
    <3>1. b + c \in Int /\ a + b \in Int /\ h[<<b, c>>] = b + c /\ h[<<a, b>>] = a + b
      BY <1>1
    <3>2. h[<<a, b + c>>] = a + (b + c) /\ h[<<a + b, c>>] = (a + b) + c
      BY <1>1, <3>1
    <3> QED
      BY <3>1, <3>2
  <2>3. \A a \in Int : h[<<0, a>>] = a
    BY <1>1
  <2> QED
    BY <1>1, <2>1, <2>2, <2>3 DEF IsMonoid
<1>3. SumFunction(g) = (CHOOSE w : Sums(w))[S]
  BY DEF SumFunction, SumFunctionOnSet, FoldFunctionOnSet, MapThenFoldSet, first
<1> HIDE DEF h
<1>4. PICK w \in [SUBSET S -> Int] : IsFold(w, S, h, 0, g)
  BY <1>2, FoldExists
<1>5. \A s \in SUBSET S : s # {} => /\ first(s) \in s /\ g[first(s)] \in Int
                                    /\ w[s \ {first(s)}] \in Int
  BY <1>4 DEF first
<1>6. Sums(w)
  <2>1. \A s \in SUBSET S : w[s] = IF s = {} THEN 0 ELSE g[first(s)] + w[s \ {first(s)}]
    BY <1>1, <1>4, <1>5 DEF IsFold
  <2> QED
    BY <1>4, <2>1
<1> DEFINE u == CHOOSE v : Sums(v)
<1>7. Sums(u)
  BY <1>6
<1> HIDE DEF u
<1> DEFINE Q == {T \in SUBSET S : u[T] = w[T]}
<1>8. {} \in Q
  BY <1>6, <1>7
<1>9. ASSUME NEW T \in SUBSET S, T # {}, \A x \in T : T \ {x} \in Q
      PROVE  T \in Q
  <2>1. first(T) \in T
    BY <1>5, <1>9
  <2>2. u[T \ {first(T)}] = w[T \ {first(T)}]
    BY <1>9, <2>1
  <2> QED
    BY <1>6, <1>7, <1>9, <2>2
<1>10. S \in Q
  <2> HIDE DEF Q
  <2> QED
    BY <1>8, <1>9, SetInduction
<1> QED
  BY <1>3, <1>4, <1>10 DEF u

\* The degree of a sum of polynomials is not larger than all of theirs.
LEMMA SumDegree ==
  ASSUME NEW n \in Nat, NEW s \in [1..n -> polys], NEW k \in Nat, \A i \in 1..n : getDegree(s[i]) <= k
  PROVE  getDegree(FoldLeft(plus, Zero, s)) \in 0..k
<1>1. \A p \in polys, v \in polys : plus(p, v) \in polys
  BY PlusIs
<1>2. PICK t \in [0..n -> polys] : /\ t[0] = Zero /\ t[n] = FoldLeft(plus, Zero, s)
                                   /\ \A j \in 1..n : t[j] = plus(t[j - 1], s[j])
  BY <1>1, ZeroIs, FoldOfSums
<1> DEFINE S == {j \in Nat : j <= n => getDegree(t[j]) \in 0..k}
<1>3. 0 \in S
  BY <1>2, ZeroIs
<1>4. ASSUME NEW j \in Nat, j \in S
      PROVE  j + 1 \in S
  <2> SUFFICES ASSUME j + 1 <= n
               PROVE  getDegree(t[j + 1]) \in 0..k
    OBVIOUS
  <2> DEFINE m == j + 1
  <2>1. m \in 1..n /\ m - 1 = j /\ j \in 0..n
    OBVIOUS
  <2>2. getDegree(t[j]) \in 0..k
    BY <1>4, <2>1
  <2> HIDE DEF m
  <2>3. t[m] = plus(t[j], s[m]) /\ t[j] \in polys /\ s[m] \in polys /\ getDegree(s[m]) <= k
    BY <1>2, <2>1
  <2>4. getDegree(t[j]) <= k
    BY <2>2
  <2> QED
    BY <2>3, <2>4, PlusBounded DEF m
<1> HIDE DEF S
<1>5. n \in S
  BY <1>3, <1>4, Induction
<1> QED
  BY <1>2, <1>5 DEF S

-----------------------------------------------------------------------------
\* The product of X - v over the members of a sequence, at x.
zeroOf(u, x) == product([k \in 1..Len(u) |-> sub(x, u[k])])

\* Of two sequences, one behind the other.
LEMMA ProductOfConcatenation ==
  ASSUME NEW u \in Seq(Fr), NEW v \in Seq(Fr), NEW x \in Fr
  PROVE  /\ zeroOf(u, x) \in Fr
         /\ zeroOf(u \o v, x) = mul(zeroOf(u, x), zeroOf(v, x))
<1> DEFINE a == Len(u)
           b == Len(v)
           s == u \o v
           S == 1..(a + b)
           T == 1..a
           g == [k \in S |-> sub(x, s[k])]
           gu == [k \in 1..a |-> sub(x, u[k])]
           gv == [k \in 1..b |-> sub(x, v[k])]
           p == [k \in 1..b |-> a + k]
<1>1. a \in Nat /\ b \in Nat
  OBVIOUS
<1>2. s \in Seq(Fr) /\ Len(s) = a + b
  OBVIOUS
<1>3. /\ \A k \in 1..a : s[k] = u[k] /\ u[k] \in Fr
      /\ \A k \in 1..b : s[a + k] = v[k] /\ v[k] \in Fr
      /\ \A k \in S : s[k] \in Fr
  OBVIOUS
<1> HIDE DEF a, b, s
<1>4. g \in [S -> Fr] /\ gu \in [1..a -> Fr] /\ gv \in [1..b -> Fr]
  BY <1>3, Operations
<1>5. IsFiniteSet(S) /\ IsFiniteSet(T) /\ IsFiniteSet(1..b) /\ T \in SUBSET S
  BY <1>1, FS_Interval
<1>6. Restrict(g, T) = gu
  <2>1. \A k \in T : k \in S /\ g[k] = sub(x, u[k])
    BY <1>1, <1>3
  <2> QED
    BY <2>1 DEF Restrict
<1>7. p \in Injection(1..b, S) /\ {p[k] : k \in 1..b} = S \ T
  <2>1. \A k \in 1..b : p[k] = a + k /\ a + k \in S /\ a + k \notin T
    BY <1>1
  <2>2. \A k \in S \ T : k - a \in 1..b /\ p[k - a] = k
    BY <1>1
  <2>3. p \in [1..b -> S]
    BY <2>1
  <2>4. \A k, l \in 1..b : p[k] = p[l] => k = l
    BY <1>1, <2>1
  <2> HIDE DEF p, S, T
  <2> QED
    BY <2>1, <2>2, <2>3, <2>4 DEF Injection, IsInjective
<1>8. [k \in 1..b |-> g[p[k]]] = gv
  <2>1. \A k \in 1..b : p[k] = a + k /\ a + k \in S /\ g[a + k] = sub(x, v[k])
    BY <1>1, <1>3
  <2> HIDE DEF p, g, S
  <2> QED
    BY <2>1
<1> HIDE DEF p, g, gu, gv, S, T
<1>9. product(gv) = product(Restrict(g, S \ T))
  <2>1. product([k \in 1..b |-> g[p[k]]]) = product(Restrict(g, {p[k] : k \in 1..b}))
    <3> DEFINE B == 1..b
    <3>1. IsFiniteSet(B) /\ IsFiniteSet(S) /\ p \in Injection(B, S) /\ g \in [S -> Fr]
      BY <1>4, <1>5, <1>7
    <3> HIDE DEF B
    <3>2. product([k \in B |-> g[p[k]]]) = product(Restrict(g, {p[k] : k \in B}))
      BY <3>1, ProductRenamed
    <3> QED
      BY <3>2 DEF B
  <2> QED
    BY <1>7, <1>8, <2>1
<1>10. product(g) = mul(product(gu), product(gv))
  BY <1>4, <1>5, <1>6, <1>9, ProductOfParts
<1>11. product(gu) \in Fr
  BY <1>4, <1>5, ProductLaws DEF T
<1> QED
  BY <1>2, <1>10, <1>11 DEF zeroOf, g, gu, gv, S, T, a, b, s

\* t has the sequences of s, put behind each other.
IsFlatten(t, s, n) == t = [i \in 1..n |-> IF i = 1 THEN s[i] ELSE t[i - 1] \o s[i]]

\* FlattenSeq's function is chosen among those, and there is one.
LEMMA FlattenExists ==
  ASSUME NEW n \in Nat, NEW s \in [1..n -> Seq(Fr)]
  PROVE  \E t : IsFlatten(t, s, n)
<1> DEFINE K == {k \in Nat : k <= n => \E t : IsFlatten(t, s, k)}
<1>1. 0 \in K
  <2>1. IsFlatten([i \in 1..0 |-> 0], s, 0)
    <3>1. 1..0 = {}
      OBVIOUS
    <3> QED
      BY <3>1 DEF IsFlatten
  <2> QED
    BY <2>1
<1>2. ASSUME NEW k \in Nat, k \in K
      PROVE  k + 1 \in K
  <2> SUFFICES ASSUME k + 1 <= n
               PROVE  \E t : IsFlatten(t, s, k + 1)
    OBVIOUS
  <2>1. PICK t : IsFlatten(t, s, k)
    BY <1>2
  <2> DEFINE m == k + 1
             last == IF m = 1 THEN s[m] ELSE t[k] \o s[m]
             u == [i \in 1..m |-> IF i = m THEN last ELSE t[i]]
  <2>2. ASSUME NEW i \in 1..m
        PROVE  u[i] = IF i = 1 THEN s[i] ELSE u[i - 1] \o s[i]
    <3>1. CASE i = m
      <4>1. m # 1 => m - 1 = k /\ k \in 1..m /\ k # m
        OBVIOUS
      <4>2. m # 1 => u[m - 1] = t[k]
        BY <4>1
      <4>3. u[m] = last
        BY <3>1
      <4> QED
        BY <3>1, <4>2, <4>3
    <3>2. CASE i # m
      <4>1. i \in 1..k /\ (i # 1 => i - 1 \in 1..m /\ i - 1 # m)
        BY <3>2
      <4>2. u[i] = t[i] /\ (i # 1 => u[i - 1] = t[i - 1])
        BY <3>2, <4>1
      <4>3. t[i] = IF i = 1 THEN s[i] ELSE t[i - 1] \o s[i]
        BY <2>1, <4>1 DEF IsFlatten
      <4> QED
        BY <4>2, <4>3
    <3> QED
      BY <3>1, <3>2
  <2>3. u = [i \in 1..m |-> u[i]]
    OBVIOUS
  <2> HIDE DEF u
  <2>4. IsFlatten(u, s, m)
    BY <2>2, <2>3 DEF IsFlatten
  <2> QED
    BY <2>4
<1> HIDE DEF K
<1>3. n \in K
  BY <1>1, <1>2, Induction
<1> QED
  BY <1>3 DEF K

\* The product over all members of all sequences.
LEMMA ProductOfFlatten ==
  ASSUME NEW n \in Nat, NEW s \in Seq(Seq(Fr)), Len(s) = n, NEW x \in Fr
  PROVE  /\ FlattenSeq(s) \in Seq(Fr)
         /\ zeroOf(FlattenSeq(s), x) = product([i \in 1..n |-> zeroOf(s[i], x)])
<1> DEFINE g == [i \in 1..n |-> zeroOf(s[i], x)]
<1>1. s \in [1..n -> Seq(Fr)] /\ <<>> \in Seq(Fr) /\ Len(<<>>) = 0
  OBVIOUS
<1>2. \A i \in 1..n : zeroOf(s[i], x) \in Fr
  BY <1>1, ProductOfConcatenation
<1>3. CASE n = 0
  <2>1. s = <<>> /\ FlattenSeq(s) = s
    BY <1>3 DEF FlattenSeq
  <2>2. g \in [1..0 -> Fr] /\ [k \in 1..Len(<<>>) |-> sub(x, <<>>[k])] \in [1..0 -> Fr]
    BY <1>1, <1>3
  <2> HIDE DEF g
  <2>3. product(g) = 1 /\ zeroOf(<<>>, x) = 1
    BY <2>2, ProductOfNone DEF zeroOf
  <2> QED
    BY <1>1, <2>1, <2>3 DEF g
<1>4. CASE n # 0
  <2> DEFINE t == CHOOSE t : IsFlatten(t, s, n)
             begin(k) == [i \in 1..k |-> zeroOf(s[i], x)]
             K == {k \in Nat : k + 1 <= n => /\ t[k + 1] \in Seq(Fr)
                                            /\ zeroOf(t[k + 1], x) = product(begin(k + 1))}
  <2>1. IsFlatten(t, s, n)
    BY <1>1, FlattenExists
  <2>2. FlattenSeq(s) = t[n]
    BY <1>4 DEF FlattenSeq, IsFlatten
  <2> HIDE DEF t
  <2>3. \A i \in 1..n : t[i] = IF i = 1 THEN s[i] ELSE t[i - 1] \o s[i]
    BY <2>1 DEF IsFlatten
  <2>4. \A k \in Nat : k + 1 <= n =>
          product(begin(k + 1)) = mul(zeroOf(s[k + 1], x), product(begin(k)))
    <3> SUFFICES ASSUME NEW k \in Nat, k + 1 <= n
                 PROVE  product(begin(k + 1)) = mul(zeroOf(s[k + 1], x), product(begin(k)))
      OBVIOUS
    <3> DEFINE a == begin(k + 1)
               b == begin(k)
    <3>1. a \in [1..(k + 1) -> Fr] /\ a[k + 1] = zeroOf(s[k + 1], x)
      <4>1. \A i \in 1..(k + 1) : i \in 1..n
        OBVIOUS
      <4> QED
        BY <1>2, <4>1
    <3>2. b = [i \in 1..k |-> a[i]]
      <4>1. \A i \in 1..k : i \in 1..(k + 1)
        OBVIOUS
      <4> QED
        BY <4>1
    <3> HIDE DEF a, b
    <3>3. product(a) = mul(a[k + 1], product(b))
      BY <3>1, <3>2, ProductOfNext
    <3> QED
      BY <3>1, <3>3 DEF a, b
  <2>5. product(begin(0)) = 1
    <3>1. begin(0) \in [1..0 -> Fr]
      OBVIOUS
    <3> HIDE DEF begin
    <3> QED
      BY <3>1, ProductOfNone
  <2> HIDE DEF begin
  <2>6. 0 \in K
    <3>1. 1 \in 1..n /\ 0 + 1 = 1 /\ 0 + 1 <= n
      BY <1>4
    <3>2. t[1] = s[1] /\ s[1] \in Seq(Fr) /\ zeroOf(s[1], x) \in Fr
      BY <1>1, <1>2, <2>3, <3>1
    <3>3. product(begin(1)) = mul(zeroOf(s[1], x), 1)
      BY <2>4, <2>5, <3>1
    <3> QED
      BY <3>1, <3>2, <3>3, ZeroLaws
  <2>7. ASSUME NEW k \in Nat, k \in K
        PROVE  k + 1 \in K
    <3> DEFINE m == k + 1
    <3> SUFFICES ASSUME m + 1 <= n
                 PROVE  t[m + 1] \in Seq(Fr) /\ zeroOf(t[m + 1], x) = product(begin(m + 1))
      OBVIOUS
    <3>1. m + 1 \in 1..n /\ m + 1 # 1 /\ (m + 1) - 1 = m /\ m \in Nat /\ m <= n
      OBVIOUS
    <3>2. t[m] \in Seq(Fr) /\ zeroOf(t[m], x) = product(begin(m))
      BY <2>7, <3>1
    <3> HIDE DEF m, K
    <3>3. t[m + 1] = t[m] \o s[m + 1]
      BY <2>3, <3>1
    <3>4. s[m + 1] \in Seq(Fr) /\ zeroOf(s[m + 1], x) \in Fr
      BY <1>1, <1>2, <3>1
    <3>5. /\ t[m + 1] \in Seq(Fr)
          /\ zeroOf(t[m + 1], x) = mul(zeroOf(t[m], x), zeroOf(s[m + 1], x))
          /\ zeroOf(t[m], x) \in Fr
      BY <3>2, <3>3, <3>4, ProductOfConcatenation
    <3>6. product(begin(m + 1)) = mul(zeroOf(s[m + 1], x), product(begin(m)))
      BY <2>4, <3>1
    <3> QED
      BY <3>2, <3>4, <3>5, <3>6, MulLaws
  <2>8. n - 1 \in Nat /\ (n - 1) + 1 = n
    BY <1>4
  <2>9. n - 1 \in K
    <3> HIDE DEF K
    <3> QED
      BY <2>6, <2>7, <2>8, Induction
  <2>10. t[n] \in Seq(Fr) /\ zeroOf(t[n], x) = product(begin(n))
    BY <2>8, <2>9
  <2> QED
    BY <2>2, <2>10 DEF begin
<1> QED
  BY <1>3, <1>4
=============================================================================
