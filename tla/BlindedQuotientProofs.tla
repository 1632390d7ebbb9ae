----------------------- MODULE BlindedQuotientProofs -----------------------
(***************************************************************************)
(* The columns that are interpolated, blinded and extended agree with the  *)
(* witness, the quotient times X^N - 1 is the polynomial of the            *)
(* constraints, and what is shown of a column could be of any witness.     *)
(* The transforms invert each other because the powers of a root of unity  *)
(* sum up to zero.  What is computed from values of polynomials are the    *)
(* values of one, with no more coefficients than the extended domain has   *)
(* points; it has no others (RootBound), and divZh, which never looks for  *)
(* a rest, leaves none.  The random coefficients that hide a column        *)
(* interpolate what is shown of it.                                        *)
(***************************************************************************)
EXTENDS BlindedQuotient, PrimeFieldProofs

\* The value of the polynomial of the powers of g, a geometric sum.
LEMMA EvaluatePowers ==
  ASSUME NEW n \in Nat, NEW g \in Fr, NEW x \in Fr
  PROVE  LET p == [e \in 0..(n - 1) |-> power(g, e)]
             v == evaluateAt(p, x)
         IN  /\ p \in [0..(n - 1) -> Fr]
             /\ add(mul(mul(g, x), v), 1) = add(v, power(mul(g, x), n))
             /\ mul(g, x) = 1 /\ n < P => v = n
<1> DEFINE p == [e \in 0..(n - 1) |-> power(g, e)]
           y == mul(g, x)
<1>1. \A e \in Nat : power(g, e) \in Fr /\ power(y, e) \in Fr /\ y \in Fr
  BY Operations, PowerType
<1>2. p \in [0..(n - 1) -> Fr]
  BY <1>1
<1>3. \A e \in Nat : power(g, e + 1) = mul(g, power(g, e)) /\ power(y, e + 1) = mul(y, power(y, e))
  BY <1>1, PowerStep
<1>4. power(y, 0) = 1 /\ power(g, 0) = 1
  BY <1>1, PowerStep
<1>5. PICK h : IsHorner(h, p, n, x) /\ evaluateAt(p, x) = h[0]
  <2> HIDE DEF p
  <2> QED
    BY <1>2, EvaluateType
<1>6. \A e \in Nat : h[e] \in Fr /\ (e >= n => h[e] = 0)
  BY <1>5 DEF IsHorner
<1>7. \A e \in 0..(n - 1) : h[e] = add(power(g, e), mul(x, h[e + 1]))
  BY <1>5 DEF IsHorner
<1> HIDE DEF p, y
<1>8. add(mul(y, h[0]), 1) = add(h[0], power(y, n))
  <2> DEFINE lower(e) == add(mul(y, h[e]), power(g, e))
             upper(e) == add(h[e], mul(power(g, e), power(y, n - e)))
             S == {e \in Nat : e >= n + 1 \/ lower(e) = upper(e)}
  <2>1. n \in S
    <3>1. h[n] = 0 /\ n - n = 0
      BY <1>6
    <3>2. mul(y, 0) = 0 /\ mul(power(g, n), 1) = power(g, n)
      BY <1>1, ZeroLaws
    <3>3. lower(n) = upper(n)
      BY <1>4, <3>1, <3>2
    <3> HIDE DEF lower, upper
    <3> QED
      BY <3>3
  <2>2. \A e \in Nat : e >= n => e \in S
    <3>1. \A e \in Nat : e >= n + 1 => e \in S
      OBVIOUS
    <3> HIDE DEF S
    <3> QED
      BY <2>1, <3>1
  <2>3. ASSUME NEW e \in 0..(n - 1), e + 1 \in S
        PROVE  e \in S
    <3> DEFINE c == power(g, e)
               k == h[e + 1]
               z == power(y, n - (e + 1))
    <3>1. e \in Nat /\ e + 1 \in Nat /\ n - (e + 1) \in Nat /\ n - e = (n - (e + 1)) + 1
      OBVIOUS
    <3>2. c \in Fr /\ k \in Fr /\ z \in Fr
      BY <1>1, <1>6, <3>1
    <3>3. h[e] = add(c, mul(x, k)) /\ power(g, e + 1) = mul(g, c) /\ power(y, n - e) = mul(y, z)
      BY <1>3, <1>7, <3>1
    <3>4. add(mul(y, k), mul(g, c)) = add(k, mul(mul(g, c), z))
      <4>1. lower(e + 1) = upper(e + 1)
        BY <2>3
      <4> QED
        BY <3>3, <4>1
    <3> HIDE DEF c, k, z
    <3>5. add(mul(y, add(c, mul(x, k))), c) = add(c, mul(x, add(mul(y, k), mul(g, c))))
      BY <3>2, GeometricLeft DEF y
    <3>6. add(c, mul(x, add(k, mul(mul(g, c), z)))) = add(add(c, mul(x, k)), mul(c, mul(y, z)))
      BY <3>2, GeometricRight DEF y
    <3>7. add(mul(y, h[e]), c) = add(h[e], mul(c, power(y, n - e)))
      BY <3>3, <3>4, <3>5, <3>6
    <3> QED
      BY <3>1, <3>7 DEF c
  <2> HIDE DEF S
  <2>4. \A e \in Nat : e \in S
    BY <2>2, <2>3, Descending
  <2>5. lower(0) = upper(0)
    BY <2>4 DEF S
  <2>6. lower(0) = add(mul(y, h[0]), 1)
    BY <1>4
  <2>7. n - 0 = n /\ mul(1, power(y, n)) = power(y, n)
    BY <1>1, MulLaws, PIsNat
  <2>8. upper(0) = add(h[0], power(y, n))
    BY <1>4, <2>7
  <2> QED
    BY <2>5, <2>6, <2>8
<1>9. ASSUME y = 1, n < P
      PROVE  h[0] = n
  <2> DEFINE S == {e \in Nat : e >= n + 1 \/ h[e] = mul(power(g, e), n - e)}
  <2>1. n \in S
    <3>1. h[n] = 0 /\ n - n = 0
      BY <1>6
    <3>2. mul(power(g, n), 0) = 0
      BY <1>1, ZeroLaws
    <3> QED
      BY <3>1, <3>2
  <2>2. \A e \in Nat : e >= n => e \in S
    <3>1. \A e \in Nat : e >= n + 1 => e \in S
      OBVIOUS
    <3> HIDE DEF S
    <3> QED
      BY <2>1, <3>1
  <2>3. ASSUME NEW e \in 0..(n - 1), e + 1 \in S
        PROVE  e \in S
    <3> DEFINE c == power(g, e)
               k == n - (e + 1)
    <3>1. e \in Nat /\ e + 1 \in Nat /\ k \in Nat /\ n - e = 1 + k /\ k < P /\ 1 + k < P /\ 1 + k \in Nat
      BY <1>9, PIsNat
    <3>2. c \in Fr /\ k \in Fr /\ 1 \in Fr
      BY <1>1, <3>1, PIsNat DEF Fr
    <3>3. h[e] = add(c, mul(x, h[e + 1])) /\ power(g, e + 1) = mul(g, c)
      BY <1>3, <1>7, <3>1
    <3>4. h[e + 1] = mul(mul(g, c), k)
      <4>1. ~(e + 1 >= n + 1)
        OBVIOUS
      <4>2. h[e + 1] = mul(power(g, e + 1), n - (e + 1))
        BY <2>3, <4>1
      <4> QED
        BY <3>3, <4>2
    <3>5. add(1, k) = 1 + k
      BY <3>1, PIsNat DEF add
    <3> HIDE DEF c, k
    <3>6. add(c, mul(x, mul(mul(g, c), k))) = add(c, mul(y, mul(c, k)))
      BY <3>2, GeometricOnes DEF y
    <3>7. mul(1, mul(c, k)) = mul(c, k)
      BY <3>2, Operations, MulLaws
    <3>8. mul(c, add(1, k)) = add(mul(c, 1), mul(c, k)) /\ mul(c, 1) = c
      BY <3>2, Distributive, ZeroLaws
    <3>9. h[e] = mul(c, n - e)
      BY <1>9, <3>1, <3>3, <3>4, <3>5, <3>6, <3>7, <3>8
    <3> QED
      BY <3>1, <3>9 DEF c
  <2> HIDE DEF S
  <2>4. \A e \in Nat : e \in S
    BY <2>2, <2>3, Descending
  <2>5. h[0] = mul(power(g, 0), n - 0)
    BY <2>4 DEF S
  <2>6. n - 0 = n /\ n \in Fr
    BY <1>9, PIsNat DEF Fr
  <2>7. mul(1, n) = n
    BY <2>6, MulLaws
  <2> QED
    BY <1>4, <2>5, <2>6, <2>7
<1> QED
  BY <1>2, <1>5, <1>8, <1>9 DEF p, y

-----------------------------------------------------------------------------
\* The transforms.

\* w is the root of unity for the size s = 2^n, which the field has.
IsRoot(w, s, n) ==
  n \in Nat \ {0} /\ s = 2^n /\ (P - 1) % s = 0 /\ w = rootOfUnity(s)

\* The powers of a root of unity, below its order, are distinct.
LEMMA RootPowers ==
  ASSUME NEW n, NEW s, NEW w, IsRoot(w, s, n)
  PROVE  /\ s \in Nat /\ s \in Fr \ {0} /\ s < P /\ w \in Fr \ {0} /\ power(w, s) = 1
         /\ \A k, m \in 0..(s - 1) : power(w, k) = power(w, m) => k = m
<1>1. w \in Fr \ {0} /\ power(w, s) = 1 /\ \A d \in 1..(s - 1) : power(w, d) # 1
  BY RootOfUnity DEF IsRoot
<1>2. s \in Nat \ {0} /\ P \in Nat /\ P - 1 \in Nat /\ P - 1 > 0 /\ (P - 1) % s = 0
  BY PowersOfTwo, PIsNat DEF IsRoot
<1>3. s < P
  <2>1. (P - 1) \div s \in Nat /\ P - 1 = s * ((P - 1) \div s) /\ (P - 1) \div s > 0
    BY <1>2, Multiple
  <2>2. \A u, v \in Nat : v > 0 => u <= u * v
    OBVIOUS
  <2>3. s <= P - 1
    BY <1>2, <2>1, <2>2
  <2> QED
    BY <1>2, <2>3
<1>4. s \in Fr \ {0}
  BY <1>2, <1>3 DEF Fr
<1>5. ASSUME NEW k \in 0..(s - 1), NEW m \in 0..(s - 1), k < m, power(w, k) = power(w, m)
      PROVE  FALSE
  <2>1. k \in Nat /\ m - k \in Nat /\ m - k \in 1..(s - 1) /\ k + (m - k) = m
    BY <1>2, <1>5
  <2>2. power(w, m) = mul(power(w, k), power(w, m - k))
    BY <1>1, <2>1, PowerOfSum
  <2>3. power(w, k) \in Fr \ {0} /\ power(w, m - k) \in Fr /\ 1 \in Fr
    BY <1>1, <2>1, PowerOfOne, PIsNat
  <2>4. mul(power(w, k), 1) = power(w, k)
    BY <2>3, ZeroLaws
  <2>5. power(w, m - k) = 1
    BY <1>5, <2>2, <2>3, <2>4, Cancel
  <2> QED
    BY <1>1, <2>1, <2>5
<1>6. ASSUME NEW k \in 0..(s - 1), NEW m \in 0..(s - 1), power(w, k) = power(w, m)
      PROVE  k = m
  <2>1. k < m \/ m < k \/ k = m
    BY <1>2
  <2> QED
    BY <1>5, <1>6, <2>1
<1> QED
  BY <1>1, <1>2, <1>3, <1>4, <1>6

\* The value at a power of the root of the polynomial of the powers of the
\* inverse of another.
LEMMA Orthogonality ==
  ASSUME NEW n, NEW s, NEW w, IsRoot(w, s, n), NEW k \in 0..(s - 1), NEW m \in 0..(s - 1)
  PROVE  evaluateAt([e \in 0..(s - 1) |-> power(power(inv(w), m), e)], power(w, k))
           = IF k = m THEN s ELSE 0
<1> DEFINE W == inv(w)
           g == power(W, m)
           x == power(w, k)
           y == mul(g, x)
           v == evaluateAt([e \in 0..(s - 1) |-> power(g, e)], x)
<1>0. s \in Nat /\ s < P /\ power(w, s) = 1
  BY RootPowers
<1>01. s \in Fr \ {0} /\ w \in Fr \ {0} /\ w \in Fr
  BY RootPowers
<1>02. \A j, l \in 0..(s - 1) : power(w, j) = power(w, l) => j = l
  BY RootPowers
<1>1. /\ s \in Nat /\ s \in Fr \ {0} /\ s < P /\ w \in Fr \ {0} /\ w \in Fr /\ power(w, s) = 1
      /\ \A j, l \in 0..(s - 1) : power(w, j) = power(w, l) => j = l
  BY <1>0, <1>01, <1>02
<1>2. W \in Fr /\ mul(w, W) = 1 /\ mul(W, w) = 1 /\ k \in Nat /\ m \in Nat /\ 1 \in Fr /\ 0 \in Fr
  <2>1. W \in Fr /\ mul(w, W) = 1
    BY <1>1, HasInverse
  <2>2. mul(W, w) = mul(w, W)
    BY <1>1, <2>1, MulLaws
  <2> QED
    BY <2>1, <2>2, PIsNat
<1> HIDE DEF W
<1>3. g \in Fr /\ x \in Fr
  BY <1>1, <1>2, PowerType
<1>4. [e \in 0..(s - 1) |-> power(g, e)] \in [0..(s - 1) -> Fr]
  BY <1>3, PowerType
<1>5. v \in Fr /\ y \in Fr
  <2> HIDE DEF g, x
  <2> QED
    BY <1>1, <1>3, <1>4, EvaluateType, Operations
<1>6. add(mul(y, v), 1) = add(v, power(y, s)) /\ (y = 1 /\ s < P => v = s)
  <2> HIDE DEF g, x
  <2> QED
    BY <1>1, <1>3, EvaluatePowers
<1>7. power(y, s) = 1
  <2>1. power(y, s) = mul(power(g, s), power(x, s))
    <3> HIDE DEF g, x
    <3> QED
      BY <1>1, <1>3, PowerOfProduct
  <2>2. power(W, s) = 1
    <3>1. power(mul(W, w), s) = mul(power(W, s), power(w, s)) /\ power(1, s) = 1
      BY <1>1, <1>2, PowerOfProduct, PowerOfOne
    <3>2. power(W, s) \in Fr
      BY <1>1, <1>2, PowerType
    <3>3. mul(power(W, s), 1) = power(W, s)
      BY <3>2, ZeroLaws
    <3> QED
      BY <1>1, <1>2, <3>1, <3>3
  <2>3. \A t \in Fr, l \in Nat : power(t, s) = 1 => power(power(t, l), s) = 1
    <3>1. ASSUME NEW t \in Fr, NEW l \in Nat, power(t, s) = 1
          PROVE  power(power(t, l), s) = 1
      <4>1. power(power(t, l), s) = power(t, l * s) /\ power(power(t, s), l) = power(t, s * l)
        BY <1>1, PowerOfPower
      <4>2. l * s = s * l
        BY <1>1
      <4>3. power(1, l) = 1
        BY <1>2, PowerOfOne
      <4> QED
        BY <3>1, <4>1, <4>2, <4>3
    <3> QED
      BY <3>1
  <2>4. power(g, s) = 1 /\ power(x, s) = 1
    BY <1>1, <1>2, <2>2, <2>3
  <2>5. mul(1, 1) = 1
    BY <1>2, MulLaws
  <2> QED
    BY <2>1, <2>4, <2>5
<1>8. power(w, m) \in Fr /\ mul(power(w, m), g) = 1
  <2>1. power(mul(w, W), m) = mul(power(w, m), power(W, m)) /\ power(1, m) = 1
    BY <1>1, <1>2, PowerOfProduct, PowerOfOne
  <2> QED
    BY <1>1, <1>2, <2>1, PowerType
<1>9. CASE k = m
  <2>1. y = mul(power(w, m), g)
    BY <1>3, <1>8, <1>9, MulLaws
  <2>2. v = s
    <3> HIDE DEF y, v, g
    <3> QED
      BY <1>1, <1>6, <1>8, <2>1
  <2> QED
    BY <1>9, <2>2 DEF W
<1>10. CASE k # m
  <2>1. y # 1
    <3>1. mul(power(w, m), mul(g, x)) = mul(mul(power(w, m), g), x)
      BY <1>3, <1>8, MulLaws
    <3>2. mul(1, x) = x /\ mul(power(w, m), 1) = power(w, m)
      BY <1>3, <1>8, MulLaws, ZeroLaws
    <3> SUFFICES ASSUME y = 1
                 PROVE  power(w, m) = power(w, k)
      BY <1>1, <1>10
    <3> QED
      BY <1>8, <3>1, <3>2
  <2>2. v = 0
    <3> HIDE DEF y, v
    <3>1. mul(y, v) \in Fr
      BY <1>5, Operations
    <3>2. sub(add(mul(y, v), 1), 1) = mul(y, v) /\ sub(add(v, 1), 1) = v
      BY <1>2, <1>5, <3>1, SubLaws
    <3>3. mul(y, v) = v
      BY <1>6, <1>7, <3>2
    <3>4. mul(v, y) = mul(v, 1)
      BY <1>5, <3>3, MulLaws, ZeroLaws
    <3>5. v # 0 => y = 1
      BY <1>2, <1>5, <3>4, Cancel
    <3> QED
      BY <2>1, <3>5
  <2> QED
    BY <1>10, <2>2 DEF W
<1> QED
  BY <1>9, <1>10

\* What the inverse transform computes.
LEMMA InverseType ==
  ASSUME NEW n, NEW s, NEW w, IsRoot(w, s, n), NEW v \in [0..(s - 1) -> Fr]
  PROVE  /\ s \in Nat /\ inv(s) \in Fr /\ mul(inv(s), s) = 1
         /\ \A e \in Nat : power(inv(w), e) \in Fr
         /\ INTT(v, s) \in [0..(s - 1) -> Fr]
         /\ \A e \in 0..(s - 1) : /\ evaluateAt(v, power(inv(w), e)) \in Fr
                                  /\ INTT(v, s)[e] = mul(inv(s), evaluateAt(v, power(inv(w), e)))
<1>1. s \in Nat
  BY RootPowers
<1>2. s \in Fr \ {0} /\ w \in Fr \ {0}
  BY RootPowers
<1>3. inv(w) \in Fr
  BY <1>2, HasInverse
<1>4. inv(s) \in Fr /\ mul(inv(s), s) = 1
  <2>1. inv(s) \in Fr /\ mul(s, inv(s)) = 1
    BY <1>2, HasInverse
  <2>2. mul(s, inv(s)) = mul(inv(s), s)
    BY <1>2, <2>1, MulLaws
  <2> QED
    BY <2>1, <2>2
<1>5. \A e \in Nat : power(inv(w), e) \in Fr
  BY <1>3, PowerType
<1>6. \A e \in 0..(s - 1) : evaluateAt(v, power(inv(w), e)) \in Fr
  <2>1. ASSUME NEW e \in 0..(s - 1)
        PROVE  evaluateAt(v, power(inv(w), e)) \in Fr
    <3>1. power(inv(w), e) \in Fr
      BY <1>5
    <3> QED
      BY <1>1, <3>1, EvaluateType
  <2> QED
    BY <2>1
<1>7. w = rootOfUnity(s)
  BY DEF IsRoot
<1>8. INTT(v, s) = [e \in 0..(s - 1) |-> mul(inv(s), evaluateAt(v, power(inv(w), e)))]
  BY <1>7 DEF INTT
<1>9. \A e \in 0..(s - 1) : mul(inv(s), evaluateAt(v, power(inv(w), e))) \in Fr
  BY <1>4, <1>6, Operations
<1>10. INTT(v, s) \in [0..(s - 1) -> Fr]
  BY <1>8, <1>9
<1> QED
  BY <1>1, <1>4, <1>5, <1>6, <1>8, <1>10

\* The inverse transform of a single value has that value in its row only.
LEMMA InverseOfMonomial ==
  ASSUME NEW n, NEW s, NEW w, IsRoot(w, s, n), NEW m \in 0..(s - 1), NEW c \in Fr,
         NEW row \in 0..(s - 1)
  PROVE  evaluateAt(INTT([e \in 0..(s - 1) |-> IF e = m THEN c ELSE 0], s), power(w, row))
           = IF row = m THEN c ELSE 0
<1> DEFINE v == [e \in 0..(s - 1) |-> IF e = m THEN c ELSE 0]
           g == power(inv(w), m)
           p == [e \in 0..(s - 1) |-> power(g, e)]
           k == mul(inv(s), c)
           x == power(w, row)
<1>1. s \in Nat /\ m \in Nat /\ row \in Nat /\ 0 \in Fr
  BY RootPowers, PIsNat
<1>2. v \in [0..(s - 1) -> Fr]
  BY <1>1
<1> HIDE DEF v
<1>03. inv(s) \in Fr /\ mul(inv(s), s) = 1 /\ \A e \in Nat : power(inv(w), e) \in Fr
  BY <1>2, InverseType
<1>3. /\ inv(s) \in Fr /\ mul(inv(s), s) = 1
      /\ \A e \in Nat : power(inv(w), e) \in Fr
      /\ INTT(v, s) \in [0..(s - 1) -> Fr]
      /\ \A e \in 0..(s - 1) : INTT(v, s)[e] = mul(inv(s), evaluateAt(v, power(inv(w), e)))
  BY <1>2, <1>03, InverseType
<1>4. s \in Fr /\ w \in Fr \ {0}
  BY RootPowers
<1>5. inv(w) \in Fr /\ x \in Fr /\ g \in Fr /\ k \in Fr
  BY <1>1, <1>3, <1>4, HasInverse, PowerType, Operations
<1>6. \A e \in Nat : power(g, e) \in Fr
  BY <1>5, PowerType
<1>7. p \in [0..(s - 1) -> Fr]
  BY <1>6
<1>8. \A e \in 0..(s - 1) : INTT(v, s)[e] = mul(k, p[e])
  <2>1. ASSUME NEW e \in 0..(s - 1)
        PROVE  INTT(v, s)[e] = mul(k, p[e])
    <3>1. e \in Nat /\ power(inv(w), e) \in Fr
      BY <1>3
    <3>2. evaluateAt(v, power(inv(w), e)) = mul(c, power(power(inv(w), e), m))
      <4>1. \A t \in Fr : evaluateAt([j \in 0..(s - 1) |-> IF j = m THEN c ELSE 0], t)
                            = mul(c, power(t, m))
        BY <1>1, EvaluateMonomial
      <4> QED
        BY <3>1, <4>1 DEF v
    <3>3. power(power(inv(w), e), m) = power(g, e)
      <4>1. power(power(inv(w), e), m) = power(inv(w), e * m) /\ power(g, e) = power(inv(w), m * e)
        BY <1>1, <1>5, <3>1, PowerOfPower
      <4>2. e * m = m * e
        BY <1>1, <3>1
      <4> QED
        BY <4>1, <4>2
    <3>4. mul(inv(s), mul(c, power(g, e))) = mul(mul(inv(s), c), power(g, e))
      <4>1. power(g, e) \in Fr
        BY <1>6, <3>1
      <4> HIDE DEF g
      <4> QED
        BY <1>3, <4>1, MulLaws
    <3>5. p[e] = power(g, e)
      OBVIOUS
    <3> HIDE DEF p, g
    <3> QED
      BY <1>3, <3>2, <3>3, <3>4, <3>5
  <2> QED
    BY <2>1
<1>9. evaluateAt(INTT(v, s), x) = mul(k, evaluateAt(p, x))
  <2> HIDE DEF p, x, k
  <2>1. IsMultiple(INTT(v, s), p, k, s)
    BY <1>3, <1>8 DEF IsMultiple
  <2> QED
    BY <1>1, <1>5, <1>7, <2>1, EvaluateMultiple
<1>10. evaluateAt(p, x) = IF row = m THEN s ELSE 0
  BY Orthogonality
<1>11. mul(k, s) = c /\ mul(k, 0) = 0
  <2>1. mul(k, s) = mul(c, mul(inv(s), s))
    <3>1. mul(inv(s), c) = mul(c, inv(s))
      BY <1>3, MulLaws
    <3>2. mul(mul(c, inv(s)), s) = mul(c, mul(inv(s), s))
      BY <1>3, <1>4, MulLaws
    <3> QED
      BY <3>1, <3>2
  <2>2. mul(c, 1) = c
    BY ZeroLaws
  <2>3. mul(k, 0) = 0
    BY <1>5, ZeroLaws
  <2> QED
    BY <1>3, <2>1, <2>2, <2>3
<1>12. evaluateAt(INTT(v, s), x) = IF row = m THEN c ELSE 0
  <2> HIDE DEF p, x, k
  <2> QED
    BY <1>9, <1>10, <1>11
<1> QED
  BY <1>12 DEF v

\* The inverse transform of a sum.
LEMMA InverseOfSum ==
  ASSUME NEW n, NEW s, NEW w, IsRoot(w, s, n), NEW u \in [0..(s - 1) -> Fr],
         NEW v \in [0..(s - 1) -> Fr], NEW r, IsSum(r, u, v, s)
  PROVE  IsSum(INTT(r, s), INTT(u, s), INTT(v, s), s)
<1>1. s \in Nat /\ inv(s) \in Fr /\ \A e \in Nat : power(inv(w), e) \in Fr
  BY InverseType
<1>2. r \in [0..(s - 1) -> Fr]
  BY Operations DEF IsSum
<1> DEFINE at(p, e) == evaluateAt(p, power(inv(w), e))
<1>3. /\ INTT(r, s) \in [0..(s - 1) -> Fr]
      /\ \A e \in 0..(s - 1) : at(r, e) \in Fr /\ INTT(r, s)[e] = mul(inv(s), at(r, e))
  BY <1>2, InverseType
<1>4. \A e \in 0..(s - 1) : at(u, e) \in Fr /\ INTT(u, s)[e] = mul(inv(s), at(u, e))
  BY InverseType
<1>5. \A e \in 0..(s - 1) : at(v, e) \in Fr /\ INTT(v, s)[e] = mul(inv(s), at(v, e))
  BY InverseType
<1>6. ASSUME NEW e \in 0..(s - 1)
      PROVE  INTT(r, s)[e] = add(INTT(u, s)[e], INTT(v, s)[e])
  <2>1. at(r, e) = add(at(u, e), at(v, e))
    <3>1. power(inv(w), e) \in Fr
      BY <1>1
    <3> QED
      BY <1>1, <3>1, EvaluateSum
  <2>2. at(u, e) \in Fr /\ at(v, e) \in Fr
    BY <1>4, <1>5
  <2> HIDE DEF at
  <2>3. mul(inv(s), add(at(u, e), at(v, e))) = add(mul(inv(s), at(u, e)), mul(inv(s), at(v, e)))
    BY <1>1, <2>2, Distributive
  <2> QED
    BY <1>3, <1>4, <1>5, <2>1, <2>3
<1> QED
  BY <1>3, <1>6 DEF IsSum

\* The values of the inverse transform at the powers of the root.
LEMMA InverseTransform ==
  ASSUME NEW n, NEW s, NEW w, IsRoot(w, s, n), NEW v \in [0..(s - 1) -> Fr], NEW row \in 0..(s - 1)
  PROVE  evaluateAt(INTT(v, s), power(w, row)) = v[row]
<1> DEFINE Rows == 0..(s - 1)
           x(j) == power(w, j)
           single(m, c) == [e \in Rows |-> IF e = m THEN c ELSE 0]
           Good(u) == \A j \in Rows : evaluateAt(INTT(u, s), x(j)) = u[j]
           S == {k \in Nat : \A u \in [Rows -> Fr] :
                   (\A e \in Rows : e >= k => u[e] = 0) => Good(u)}
<1>1. s \in Nat /\ w \in Fr \ {0} /\ 0 \in Fr
  <2>1. w \in Fr \ {0}
    BY RootPowers
  <2> QED
    BY <2>1, RootPowers, PIsNat
<1>2. \A j \in Rows : x(j) \in Fr
  BY <1>1, PowerType
<1>3. ASSUME NEW m \in Rows, NEW c \in Fr
      PROVE  single(m, c) \in [Rows -> Fr] /\ Good(single(m, c))
  <2>1. \A j \in Rows : evaluateAt(INTT(single(m, c), s), x(j)) = IF j = m THEN c ELSE 0
    BY InverseOfMonomial
  <2> QED
    BY <1>1, <2>1
<1>4. 0 \in Rows
  BY <1>1
<1>5. 0 \in S
  <2>1. ASSUME NEW u \in [Rows -> Fr], \A e \in Rows : e >= 0 => u[e] = 0
        PROVE  Good(u)
    <3>1. u = single(0, 0)
      BY <1>1, <2>1
    <3> HIDE DEF Good, single, Rows
    <3> QED
      BY <1>1, <1>3, <1>4, <3>1
  <2> HIDE DEF Good
  <2> QED
    BY <2>1
<1>6. ASSUME NEW k \in Nat, k \in S
      PROVE  k + 1 \in S
  <2>1. ASSUME NEW u \in [Rows -> Fr], \A e \in Rows : e >= k + 1 => u[e] = 0
        PROVE  Good(u)
    <3>1. CASE k \notin Rows
      <4>1. \A e \in Rows : e >= k => u[e] = 0
        BY <1>1, <2>1, <3>1
      <4> HIDE DEF Good
      <4> QED
        BY <1>6, <4>1
    <3>2. CASE k \in Rows
      <4> DEFINE t == [e \in Rows |-> IF e = k THEN 0 ELSE u[e]]
                 d == single(k, u[k])
      <4>1. t \in [Rows -> Fr] /\ u[k] \in Fr
        BY <1>1, <3>2
      <4>2. \A e \in Rows : e >= k => t[e] = 0
        BY <1>1, <2>1
      <4>3. Good(t)
        <5> HIDE DEF Good, t
        <5> QED
          BY <1>6, <4>1, <4>2
      <4>4. d \in [Rows -> Fr] /\ Good(d)
        <5> HIDE DEF Good, single
        <5> QED
          BY <1>3, <3>2, <4>1
      <4>5. IsSum(u, t, d, s)
        <5>1. \A e \in Rows : u[e] = add(t[e], d[e])
          <6>1. ASSUME NEW e \in Rows
                PROVE  u[e] = add(t[e], d[e])
            <7>1. u[e] \in Fr
              OBVIOUS
            <7>2. add(0, u[e]) = u[e] /\ add(u[e], 0) = u[e]
              BY <7>1, AddLaws, ZeroLaws
            <7>3. CASE e = k
              BY <7>2, <7>3
            <7>4. CASE e # k
              BY <7>2, <7>4
            <7> QED
              BY <7>3, <7>4
          <6> QED
            BY <6>1
        <5> HIDE DEF t, d
        <5> QED
          BY <5>1 DEF IsSum
      <4> HIDE DEF t, d
      <4>6. IsSum(INTT(u, s), INTT(t, s), INTT(d, s), s)
        BY <4>1, <4>4, <4>5, InverseOfSum
      <4>7. INTT(t, s) \in [Rows -> Fr]
        BY <4>1, InverseType
      <4>8. INTT(d, s) \in [Rows -> Fr]
        BY <4>4, InverseType
      <4>9. ASSUME NEW j \in Rows
            PROVE  evaluateAt(INTT(u, s), x(j)) = u[j]
        <5>1. x(j) \in Fr
          BY <1>2
        <5> HIDE DEF x
        <5>2. evaluateAt(INTT(u, s), x(j)) = add(evaluateAt(INTT(t, s), x(j)), evaluateAt(INTT(d, s), x(j)))
          BY <1>1, <4>6, <4>7, <4>8, <5>1, EvaluateSum
        <5>3. evaluateAt(INTT(t, s), x(j)) = t[j] /\ evaluateAt(INTT(d, s), x(j)) = d[j]
          BY <4>3, <4>4
        <5>4. u[j] = add(t[j], d[j])
          BY <4>5 DEF IsSum
        <5> QED
          BY <5>2, <5>3, <5>4
      <4> QED
        BY <4>9
    <3> QED
      BY <3>1, <3>2
  <2> HIDE DEF Good
  <2> QED
    BY <2>1
<1>7. \A k \in Nat : k \in S
  <2> HIDE DEF S
  <2> QED
    BY <1>5, <1>6, Induction
<1>8. \A u \in [Rows -> Fr] : (\A e \in Rows : e >= s => u[e] = 0) => Good(u)
  BY <1>1, <1>7
<1>9. \A e \in Rows : e >= s => v[e] = 0
  BY <1>1
<1>10. Good(v)
  <2> HIDE DEF Good
  <2> QED
    BY <1>8, <1>9
<1> QED
  BY <1>10

-----------------------------------------------------------------------------
\* The sizes.

\* The rows of the domain are every 2^extendBitsTotal-th one of the extended one.
LEMMA Sizes ==
  /\ IsRoot(rootOfUnity(N), N, nBits)
  /\ \E n : IsRoot(rootOfUnity(NExt), NExt, n)
  /\ N \in Nat \ {0} /\ NCoefs \in Nat \ {0} /\ NExt \in Nat \ {0} /\ 2^extendBitsTotal \in Nat \ {0}
  /\ NExt = N * 2^extendBitsTotal /\ N <= NCoefs
  /\ rootOfUnity(N) = power(rootOfUnity(NExt), 2^extendBitsTotal)
<1>1. /\ nBits \in Nat \ {0} /\ nBitsZK \in Nat \ {0} /\ qDeg \in Nat \ {0}
      /\ nBits \in Nat /\ nBitsZK \in Nat /\ (P - 1) % NExt = 0
  BY BlindedQuotientAssumption
<1>2. extendBits \in Nat
  <2> DEFINE T == {e \in Nat : 2^e >= qDeg + 1}
  <2>1. \A n \in Nat : 2^n \in Nat /\ 2^n >= n + 1
    BY PowersOfTwo, PowerOfTwoIsLarge
  <2>2. qDeg \in T
    BY <1>1, <2>1
  <2>3. T \subseteq Nat /\ T # {}
    BY <2>2
  <2>4. PICK e \in T : \A d \in T : e <= d
    <3> HIDE DEF T
    <3> QED
      BY <2>3, Least
  <2>5. e \in 0..qDeg /\ 2^e >= qDeg + 1
    BY <1>1, <2>2, <2>4
  <2>6. ASSUME NEW d \in 0..(e - 1)
        PROVE  2^d < qDeg + 1
    <3>1. d \in Nat /\ ~(e <= d)
      BY <2>5
    <3>2. d \notin T /\ 2^d \in Nat
      BY <2>1, <2>4, <3>1
    <3> QED
      BY <1>1, <3>1, <3>2
  <2>7. extendBits \in 0..qDeg
    BY <2>5, <2>6 DEF extendBits
  <2> QED
    BY <1>1, <2>7
<1> DEFINE t == extendBitsTotal
           n == nBits + nBitsZK + extendBits
<1>3. t \in Nat /\ n = nBits + t /\ n \in Nat \ {0} /\ nBits + nBitsZK \in Nat /\ nBits + t # 0
  BY <1>1, <1>2 DEF extendBitsTotal
<1>4. NExt = 2^n /\ N = 2^nBits /\ NCoefs = 2^(nBits + nBitsZK)
  BY DEF NExt, N, NCoefs
<1> HIDE DEF t, n
<1>5. NExt = N * 2^t /\ NCoefs = N * 2^nBitsZK
  BY <1>1, <1>3, <1>4, PowerOfTwoOfSum
<1>6. N \in Nat \ {0} /\ NCoefs \in Nat \ {0} /\ NExt \in Nat \ {0} /\ 2^t \in Nat \ {0}
  BY <1>1, <1>3, <1>4, PowersOfTwo
<1>7. N <= NCoefs
  BY <1>6, BlindedQuotientAssumption
<1>8. rootOfUnity(N) = power(rootOfUnity(NExt), 2^t) /\ (P - 1) % N = 0
  <2>1. (P - 1) % 2^(nBits + t) = 0
    BY <1>1, <1>3, <1>4
  <2>2. rootOfUnity(2^nBits) = power(rootOfUnity(2^(nBits + t)), 2^t) /\ (P - 1) % 2^nBits = 0
    BY <1>1, <1>3, <2>1, RootTower
  <2> QED
    BY <1>3, <1>4, <2>2
<1> QED
  BY <1>1, <1>3, <1>4, <1>5, <1>6, <1>7, <1>8 DEF IsRoot, t

\* The value of a blinded polynomial: the random one is multiplied by X^N - 1.
LEMMA EvaluateBlinded ==
  ASSUME NEW k \in Nat, N + k <= NCoefs, NEW p \in [0..(NCoefs - 1) -> Fr],
         NEW r \in [0..(k - 1) -> Fr], NEW x \in Fr
  PROVE  /\ blinded(p, r) \in [0..(NCoefs - 1) -> Fr]
         /\ add(evaluateAt(blinded(p, r), x), evaluateAt(r, x))
              = add(evaluateAt(p, x), mul(power(x, N), evaluateAt(r, x)))
<1> DEFINE Places == 0..(NCoefs - 1)
           low == [e \in Places |-> IF e - 0 \in 0..(k - 1) THEN r[e - 0] ELSE 0]
           high == [e \in Places |-> IF e - N \in 0..(k - 1) THEN r[e - N] ELSE 0]
           t == [e \in Places |-> add(p[e], high[e])]
           q == blinded(p, r)
<1>1. N \in Nat /\ NCoefs \in Nat /\ 0 + k <= NCoefs /\ 0 \in Nat /\ 0 \in Fr
  BY Sizes, PIsNat
<1>2. IsMoved(low, r, NCoefs, k, 0) /\ IsMoved(high, r, NCoefs, k, N)
  BY DEF IsMoved
<1>3. \A e \in Places : low[e] = IF e \in DOMAIN r THEN r[e] ELSE 0
  BY <1>1
<1>4. \A e \in Places : high[e] = IF e - N \in DOMAIN r THEN r[e - N] ELSE 0
  OBVIOUS
<1>5. q = [e \in Places |-> add(sub(p[e], low[e]), high[e])]
  <2> HIDE DEF low, high
  <2> QED
    BY <1>3, <1>4 DEF blinded
<1> HIDE DEF low, high, q
<1>6. low \in [Places -> Fr] /\ evaluateAt(low, x) = mul(power(x, 0), evaluateAt(r, x))
  BY <1>1, <1>2, EvaluateShifted
<1>7. high \in [Places -> Fr] /\ evaluateAt(high, x) = mul(power(x, N), evaluateAt(r, x))
  BY <1>1, <1>2, EvaluateShifted
<1>8. q \in [Places -> Fr] /\ t \in [Places -> Fr]
  <2>1. \A e \in Places : p[e] \in Fr /\ low[e] \in Fr /\ high[e] \in Fr
    BY <1>6, <1>7
  <2>2. \A e \in Places : sub(p[e], low[e]) \in Fr
    BY <2>1, Operations
  <2>3. \A e \in Places : add(sub(p[e], low[e]), high[e]) \in Fr /\ add(p[e], high[e]) \in Fr
    BY <2>1, <2>2, Operations
  <2> QED
    BY <1>5, <2>3
<1>9. IsSum(t, p, high, NCoefs)
  BY DEF IsSum
<1>10. IsSum(t, q, low, NCoefs)
  <2>1. \A u, v, z \in Fr : add(add(sub(u, v), z), v) = add(u, z)
    <3>1. ASSUME NEW u \in Fr, NEW v \in Fr, NEW z \in Fr
          PROVE  add(add(sub(u, v), z), v) = add(u, z)
      <4>1. sub(u, v) \in Fr /\ add(sub(u, v), v) = u
        BY Operations, SubLaws
      <4>2. add(add(sub(u, v), z), v) = add(sub(u, v), add(z, v)) /\ add(z, v) = add(v, z)
        BY <4>1, AddLaws
      <4>3. add(sub(u, v), add(v, z)) = add(add(sub(u, v), v), z)
        BY <4>1, AddLaws
      <4> QED
        BY <4>1, <4>2, <4>3
    <3> QED
      BY <3>1
  <2>2. \A e \in Places : p[e] \in Fr /\ low[e] \in Fr /\ high[e] \in Fr
    BY <1>6, <1>7
  <2>3. \A e \in Places : add(p[e], high[e]) = add(q[e], low[e])
    BY <1>5, <2>1, <2>2
  <2> QED
    BY <2>3 DEF IsSum
<1> HIDE DEF t
<1>11. evaluateAt(t, x) = add(evaluateAt(p, x), evaluateAt(high, x))
  BY <1>1, <1>7, <1>9, EvaluateSum
<1>12. evaluateAt(t, x) = add(evaluateAt(q, x), evaluateAt(low, x))
  BY <1>1, <1>6, <1>8, <1>10, EvaluateSum
<1>13. power(x, 0) = 1 /\ evaluateAt(r, x) \in Fr /\ mul(1, evaluateAt(r, x)) = evaluateAt(r, x)
  <2>1. evaluateAt(r, x) \in Fr
    BY EvaluateType
  <2> QED
    BY <2>1, PowerStep, MulLaws, PIsNat
<1> QED
  BY <1>6, <1>7, <1>8, <1>11, <1>12, <1>13 DEF q

-----------------------------------------------------------------------------
\* The polynomials: what is computed from the values of polynomials are the values
\* of a polynomial, of as many coefficients as the lemma says.

\* The powers of a root of unity are as many as its order.
Roots(w, s) == {power(w, k) : k \in 0..(s - 1)}

\* They are s elements.
LEMMA RootsCount ==
  ASSUME NEW n, NEW s, NEW w, IsRoot(w, s, n)
  PROVE  Roots(w, s) \in SUBSET Fr /\ Cardinality(Roots(w, s)) = s
<1> DEFINE R == {power(w, k) : k \in 0..(s - 1)}
           g == [k \in 0..(s - 1) |-> power(w, k)]
<1>1. s \in Nat /\ w \in Fr /\ \A k, m \in 0..(s - 1) : power(w, k) = power(w, m) => k = m
  BY RootPowers
<1>2. \A k \in 0..(s - 1) : power(w, k) \in Fr
  BY <1>1, PowerType
<1>3. g \in Bijection(0..(s - 1), R)
  BY <1>1 DEF Bijection, Injection, IsInjective, Surjection
<1>4. IsFiniteSet(0..(s - 1)) /\ Cardinality(0..(s - 1)) = s
  <2>1. 0 \in Int /\ s - 1 \in Int
    BY <1>1
  <2> QED
    BY <1>1, <2>1, FS_Interval
<1> HIDE DEF g
<1>5. IsFiniteSet(R) /\ Cardinality(R) = Cardinality(0..(s - 1))
  <2> HIDE DEF R
  <2>1. ExistsBijection(0..(s - 1), R)
    BY <1>3 DEF ExistsBijection
  <2> QED
    BY <1>4, <2>1, FS_Bijection, FS_SameCardinalityBij
<1> QED
  BY <1>2, <1>4, <1>5 DEF Roots

\* A polynomial that is zero in all the powers of a root of unity, of as many
\* coefficients, has no others than zeros.
LEMMA ZeroOnRoots ==
  ASSUME NEW n, NEW s, NEW w, IsRoot(w, s, n), NEW p \in [0..(s - 1) -> Fr],
         \A k \in 0..(s - 1) : evaluateAt(p, power(w, k)) = 0
  PROVE  \A e \in 0..(s - 1) : p[e] = 0
<1> DEFINE R == Roots(w, s)
<1>0. s \in Nat /\ s >= s
  <2>1. s \in Nat
    BY RootPowers
  <2> QED
    BY <2>1
<1>1. R \in SUBSET Fr /\ Cardinality(R) = s
  BY RootsCount
<1>2. \A x \in R : evaluateAt(p, x) = 0
  BY DEF Roots
<1> HIDE DEF R
<1>3. \A x \in R : \E h : IsHorner(h, p, s, x) /\ h[0] = 0
  <2>1. \A x \in R : \E h : IsHorner(h, p, s, x) /\ evaluateAt(p, x) = h[0]
    BY <1>0, <1>1, EvaluateType
  <2> QED
    BY <1>2, <2>1
<1> QED
  BY <1>0, <1>1, <1>3, RootBound

\* Polynomials that agree there are the same.
LEMMA SameOnRoots ==
  ASSUME NEW n, NEW s, NEW w, IsRoot(w, s, n), NEW p \in [0..(s - 1) -> Fr],
         NEW q \in [0..(s - 1) -> Fr],
         \A k \in 0..(s - 1) : evaluateAt(p, power(w, k)) = evaluateAt(q, power(w, k))
  PROVE  p = q
<1>1. s \in Nat /\ w \in Fr /\ P - 1 \in Fr
  BY RootPowers, MinusOne
<1> DEFINE t == [e \in 0..(s - 1) |-> mul(P - 1, q[e])]
           r == [e \in 0..(s - 1) |-> add(p[e], t[e])]
<1>2. IsMultiple(t, q, P - 1, s) /\ IsSum(r, p, t, s)
  BY DEF IsMultiple, IsSum
<1>3. \A e \in 0..(s - 1) : r[e] = sub(p[e], q[e])
  BY <1>1, Minus
<1> HIDE DEF t, r
<1>4. t \in [0..(s - 1) -> Fr] /\ \A x \in Fr : evaluateAt(t, x) = mul(P - 1, evaluateAt(q, x))
  <2>1. t \in [0..(s - 1) -> Fr]
    BY <1>1, <1>2, Operations DEF IsMultiple
  <2> QED
    BY <1>1, <1>2, <2>1, EvaluateMultiple
<1>5. r \in [0..(s - 1) -> Fr] /\ \A x \in Fr : evaluateAt(r, x) = add(evaluateAt(p, x), evaluateAt(t, x))
  <2>1. r \in [0..(s - 1) -> Fr]
    BY <1>2, <1>4, Operations DEF IsSum
  <2> QED
    BY <1>1, <1>2, <1>4, <2>1, EvaluateSum
<1>6. \A k \in 0..(s - 1) : evaluateAt(r, power(w, k)) = 0
  <2>1. ASSUME NEW k \in 0..(s - 1)
        PROVE  evaluateAt(r, power(w, k)) = 0
    <3> DEFINE x == power(w, k)
    <3>1. x \in Fr
      BY <1>1, PowerType
    <3>2. evaluateAt(p, x) = evaluateAt(q, x)
      OBVIOUS
    <3> HIDE DEF x
    <3>3. evaluateAt(p, x) \in Fr /\ evaluateAt(q, x) \in Fr
      BY <1>1, <3>1, EvaluateType
    <3>4. evaluateAt(r, x) = sub(evaluateAt(p, x), evaluateAt(q, x))
      BY <1>4, <1>5, <3>1, <3>3, Minus
    <3> QED
      BY <3>2, <3>3, <3>4, SubLaws DEF x
  <2> QED
    BY <2>1
<1>7. \A e \in 0..(s - 1) : r[e] = 0
  BY <1>5, <1>6, ZeroOnRoots
<1>8. \A e \in 0..(s - 1) : p[e] = q[e]
  BY <1>3, <1>7, SubLaws
<1>9. p = [e \in 0..(s - 1) |-> p[e]] /\ q = [e \in 0..(s - 1) |-> q[e]]
  OBVIOUS
<1>10. [e \in 0..(s - 1) |-> p[e]] = [e \in 0..(s - 1) |-> q[e]]
  BY <1>8
<1> QED
  BY <1>9, <1>10

\* X^s - 1 has no other roots than the powers of a root of unity.
LEMMA NoOtherRoots ==
  ASSUME NEW n, NEW s, NEW w, IsRoot(w, s, n), NEW x \in Fr, power(x, s) = 1
  PROVE  x \in Roots(w, s)
<1> DEFINE R == Roots(w, s)
           top == [e \in 0..((s + 1) - 1) |-> IF e = s THEN 1 ELSE 0]
           low == [e \in 0..((s + 1) - 1) |-> IF e = 0 THEN P - 1 ELSE 0]
           p == [e \in 0..((s + 1) - 1) |-> add(top[e], low[e])]
<1>1. s \in Nat /\ s \in Fr \ {0} /\ w \in Fr /\ power(w, s) = 1
  BY RootPowers
<1>2. R \in SUBSET Fr /\ Cardinality(R) = s
  BY RootsCount
<1>3. s + 1 \in Nat /\ s \in 0..((s + 1) - 1) /\ 0 \in 0..((s + 1) - 1) /\ s # 0 /\ 1 \in Fr /\ P - 1 \in Fr
  BY <1>1, PIsNat, MinusOne
<1>4. ASSUME NEW z \in Fr
      PROVE  /\ top \in [0..((s + 1) - 1) -> Fr] /\ evaluateAt(top, z) = mul(1, power(z, s))
             /\ low \in [0..((s + 1) - 1) -> Fr] /\ evaluateAt(low, z) = mul(P - 1, power(z, 0))
  <2>1. /\ top = [e \in 0..((s + 1) - 1) |-> IF e = s THEN 1 ELSE 0]
        /\ low = [e \in 0..((s + 1) - 1) |-> IF e = 0 THEN P - 1 ELSE 0]
    OBVIOUS
  <2> HIDE DEF top, low
  <2>2. top \in [0..((s + 1) - 1) -> Fr] /\ evaluateAt(top, z) = mul(1, power(z, s))
    <3> DEFINE m == s + 1
    <3>1. m \in Nat /\ s \in 0..(m - 1) /\ top = [e \in 0..(m - 1) |-> IF e = s THEN 1 ELSE 0]
      BY <1>3, <2>1
    <3> HIDE DEF m
    <3>2. top \in [0..(m - 1) -> Fr] /\ evaluateAt(top, z) = mul(1, power(z, s))
      BY <1>3, <3>1, EvaluateMonomial
    <3> QED
      BY <3>2 DEF m
  <2>3. low \in [0..((s + 1) - 1) -> Fr] /\ evaluateAt(low, z) = mul(P - 1, power(z, 0))
    BY <1>3, <2>1, EvaluateMonomial
  <2> QED
    BY <2>2, <2>3
<1>5. IsSum(p, top, low, s + 1)
  BY DEF IsSum
<1>6. p[s] = 1
  <2>1. p[s] = add(1, 0)
    BY <1>3
  <2> QED
    BY <2>1, PIsNat, ZeroLaws
<1> HIDE DEF top, low, p
<1>7. ASSUME NEW z \in Fr, power(z, s) = 1
      PROVE  p \in [0..((s + 1) - 1) -> Fr] /\ evaluateAt(p, z) = 0
  <2>1. /\ p \in [0..((s + 1) - 1) -> Fr]
        /\ evaluateAt(p, z) = add(evaluateAt(top, z), evaluateAt(low, z))
    BY <1>3, <1>4, <1>5, EvaluateSum
  <2>2. evaluateAt(top, z) = 1
    BY <1>3, <1>4, <1>7, ZeroLaws
  <2>3. evaluateAt(low, z) = P - 1
    BY <1>3, <1>4, PowerStep, ZeroLaws
  <2>4. add(1, P - 1) = 0
    BY <1>3, MinusOne, AddLaws
  <2> QED
    BY <2>1, <2>2, <2>3, <2>4
<1>8. ASSUME x \notin R
      PROVE  FALSE
  <2>1. IsFiniteSet(R)
    <3>1. IsFiniteSet(Fr)
      BY PIsNat, FS_Interval DEF Fr
    <3> QED
      BY <1>2, <3>1, FS_Subset
  <2> DEFINE more == R \cup {x}
  <2>2. more \in SUBSET Fr /\ Cardinality(more) >= s + 1
    <3>1. Cardinality(more) = Cardinality(R) + 1
      BY <1>8, <2>1, FS_AddElement
    <3> QED
      BY <1>1, <1>2, <3>1
  <2>3. \A z \in more : z \in Fr /\ power(z, s) = 1
    <3>1. ASSUME NEW z \in R
          PROVE  power(z, s) = 1
      <4>1. PICK k \in 0..(s - 1) : z = power(w, k)
        BY DEF Roots
      <4>2. k \in Nat /\ power(w, k * s) = power(power(w, k), s) /\ power(w, s * k) = power(power(w, s), k)
        BY <1>1, PowerOfPower
      <4>3. k * s = s * k
        BY <1>1, <4>2
      <4>4. power(1, k) = 1
        BY <1>3, <4>2, PowerOfOne
      <4> QED
        BY <1>1, <4>1, <4>2, <4>3, <4>4
    <3> QED
      BY <1>2, <3>1
  <2> HIDE DEF more
  <2>4. p \in [0..((s + 1) - 1) -> Fr]
    BY <1>7
  <2>5. \A z \in more : \E h : IsHorner(h, p, s + 1, z) /\ h[0] = 0
    <3>1. \A z \in more : \E h : IsHorner(h, p, s + 1, z) /\ evaluateAt(p, z) = h[0]
      BY <1>3, <2>3, <2>4, EvaluateType
    <3> QED
      BY <1>7, <2>3, <3>1
  <2>6. \A e \in 0..((s + 1) - 1) : p[e] = 0
    BY <1>3, <2>2, <2>4, <2>5, RootBound
  <2> QED
    BY <1>3, <1>6, <2>6
<1> QED
  BY <1>8

-----------------------------------------------------------------------------
\* The division by X^n - 1.

\* g has the first k coefficients of the quotient.
IsDivided(g, p, n, k) ==
  \A e \in 0..(k - 1) : g[e] = sub(IF e < n THEN 0 ELSE g[e - n], p[e])

\* They are determined.
LEMMA DividedUnique ==
  ASSUME NEW n \in Nat \ {0}, NEW p, NEW k \in Nat, NEW l \in Nat,
         NEW g, IsDivided(g, p, n, k), NEW h, IsDivided(h, p, n, l),
         NEW e \in Nat, e < k, e < l
  PROVE  g[e] = h[e]
<1> DEFINE S == {m \in Nat : \A j \in Nat : j < m /\ j < k /\ j < l => g[j] = h[j]}
<1>1. 0 \in S
  OBVIOUS
<1>2. ASSUME NEW m \in Nat, m \in S
      PROVE  m + 1 \in S
  <2>1. ASSUME NEW j \in Nat, j < m + 1, j < k, j < l
        PROVE  g[j] = h[j]
    <3>1. j \in 0..(k - 1) /\ j \in 0..(l - 1)
      BY <2>1
    <3>2. /\ g[j] = sub(IF j < n THEN 0 ELSE g[j - n], p[j])
          /\ h[j] = sub(IF j < n THEN 0 ELSE h[j - n], p[j])
      BY <3>1 DEF IsDivided
    <3>3. ~(j < n) => j - n \in Nat /\ j - n < m /\ j - n < k /\ j - n < l
      BY <2>1
    <3>4. ~(j < n) => g[j - n] = h[j - n]
      BY <1>2, <3>3
    <3> QED
      BY <3>2, <3>4
  <2> QED
    BY <2>1
<1> HIDE DEF S
<1>3. e + 1 \in S
  <2>1. e + 1 \in Nat
    OBVIOUS
  <2> QED
    BY <1>1, <1>2, <2>1, Induction
<1> QED
  BY <1>3 DEF S

\* There are any number of them.
LEMMA DividedExists ==
  ASSUME NEW n \in Nat \ {0}, NEW p, NEW k \in Nat
  PROVE  \E g : IsDivided(g, p, n, k)
<1> DEFINE S == {m \in Nat : \E g : IsDivided(g, p, n, m)}
<1>1. 0 \in S
  <2>1. IsDivided(p, p, n, 0)
    BY DEF IsDivided
  <2> QED
    BY <2>1
<1>2. ASSUME NEW m \in Nat, m \in S
      PROVE  m + 1 \in S
  <2>1. PICK g : IsDivided(g, p, n, m)
    BY <1>2
  <2> DEFINE next == sub(IF m < n THEN 0 ELSE g[m - n], p[m])
             h == [e \in Nat |-> IF e < m THEN g[e] ELSE next]
  <2>2. h[m] = next
    OBVIOUS
  <2>3. \A e \in Nat : e < m => h[e] = g[e]
    OBVIOUS
  <2> HIDE DEF h
  <2>4. ASSUME NEW e \in 0..((m + 1) - 1)
        PROVE  h[e] = sub(IF e < n THEN 0 ELSE h[e - n], p[e])
    <3>1. CASE e < m
      <4>1. e \in 0..(m - 1) /\ e \in Nat /\ (~(e < n) => e - n \in Nat /\ e - n < m)
        BY <3>1
      <4>2. g[e] = sub(IF e < n THEN 0 ELSE g[e - n], p[e])
        BY <2>1, <4>1 DEF IsDivided
      <4> QED
        BY <2>3, <3>1, <4>1, <4>2
    <3>2. CASE ~(e < m)
      <4>1. e = m /\ (~(m < n) => m - n \in Nat /\ m - n < m)
        BY <3>2
      <4>2. ~(m < n) => h[m - n] = g[m - n]
        BY <2>3, <4>1
      <4> QED
        BY <2>2, <4>1, <4>2
    <3> QED
      BY <3>1, <3>2
  <2>5. IsDivided(h, p, n, m + 1)
    BY <2>4 DEF IsDivided
  <2> QED
    BY <2>5
<1> HIDE DEF S
<1>3. k \in S
  BY <1>1, <1>2, Induction
<1> QED
  BY <1>3 DEF S

\* So there is the function that divZh's definition chooses, and its values are
\* elements.
LEMMA DivZhIs ==
  ASSUME NEW n \in Nat \ {0}, NEW m \in Nat, NEW p \in [0..(m - 1) -> Fr]
  PROVE  /\ divZh(p, n) \in [0..(m - 1) -> Fr]
         /\ IsDivided(divZh(p, n), p, n, m)
<1> DEFINE G(g) == g = [e \in Nat |-> sub(IF e < n THEN 0 ELSE g[e - n], p[e])]
           firstOnes(k) == CHOOSE g : IsDivided(g, p, n, k)
           whole == [e \in Nat |-> firstOnes(e + 1)[e]]
<1>1. \A k \in Nat : IsDivided(firstOnes(k), p, n, k)
  BY DividedExists
<1> HIDE DEF first
<1>2. ASSUME NEW e \in Nat
      PROVE  whole[e] = sub(IF e < n THEN 0 ELSE whole[e - n], p[e])
  <2>1. e + 1 \in Nat /\ e \in 0..((e + 1) - 1)
    OBVIOUS
  <2>2. firstOnes(e + 1)[e] = sub(IF e < n THEN 0 ELSE firstOnes(e + 1)[e - n], p[e])
    BY <1>1, <2>1 DEF IsDivided
  <2>3. whole[e] = firstOnes(e + 1)[e]
    OBVIOUS
  <2>4. ~(e < n) => whole[e - n] = firstOnes(e + 1)[e - n]
    <3> SUFFICES ASSUME ~(e < n)
                 PROVE  whole[e - n] = firstOnes(e + 1)[e - n]
      OBVIOUS
    <3> DEFINE j == e - n
    <3>1. j \in Nat /\ j < e + 1 /\ j < j + 1 /\ j + 1 \in Nat
      OBVIOUS
    <3>2. whole[j] = firstOnes(j + 1)[j]
      BY <3>1
    <3> HIDE DEF j, whole
    <3>3. firstOnes(j + 1)[j] = firstOnes(e + 1)[j]
      <4>1. IsDivided(firstOnes(j + 1), p, n, j + 1) /\ IsDivided(firstOnes(e + 1), p, n, e + 1)
        BY <1>1, <2>1, <3>1
      <4> DEFINE k == j + 1
                 l == e + 1
                 gk == firstOnes(k)
                 gl == firstOnes(l)
      <4>2. k \in Nat /\ l \in Nat /\ j \in Nat /\ j < k /\ j < l
        BY <2>1, <3>1
      <4>3. IsDivided(gk, p, n, k) /\ IsDivided(gl, p, n, l)
        BY <4>1
      <4> HIDE DEF k, l, gk, gl
      <4>4. gk[j] = gl[j]
        BY <4>2, <4>3, DividedUnique
      <4> QED
        BY <4>4 DEF k, l, gk, gl
    <3> QED
      BY <3>2, <3>3 DEF j
  <2> HIDE DEF whole
  <2> QED
    BY <2>2, <2>3, <2>4
<1>3. G(whole)
  <2>1. whole = [e \in Nat |-> whole[e]]
    OBVIOUS
  <2> HIDE DEF whole
  <2> QED
    BY <1>2, <2>1
<1> DEFINE q == CHOOSE g : G(g)
<1>4. G(q)
  <2> HIDE DEF whole
  <2> QED
    BY <1>3
<1>5. divZh(p, n) = [e \in 0..(m - 1) |-> q[e]]
  BY DEF divZh
<1> HIDE DEF q, whole
<1>6. \A e \in Nat : q[e] = sub(IF e < n THEN 0 ELSE q[e - n], p[e])
  BY <1>4
<1> DEFINE S == {k \in Nat : \A e \in Nat : e < k /\ e < m => q[e] \in Fr}
<1>7. 0 \in S
  OBVIOUS
<1>8. ASSUME NEW k \in Nat, k \in S
      PROVE  k + 1 \in S
  <2>1. ASSUME NEW e \in Nat, e < k + 1, e < m
        PROVE  q[e] \in Fr
    <3>1. ~(e < n) => e - n \in Nat /\ e - n < k /\ e - n < m
      BY <2>1
    <3>2. ~(e < n) => q[e - n] \in Fr
      BY <1>8, <3>1
    <3>3. p[e] \in Fr /\ 0 \in Fr
      BY <2>1, PIsNat
    <3> QED
      BY <1>6, <3>2, <3>3, Operations
  <2> QED
    BY <2>1
<1> HIDE DEF S
<1>9. m \in S
  BY <1>7, <1>8, Induction
<1>10. \A e \in 0..(m - 1) : q[e] \in Fr
  BY <1>9 DEF S
<1>11. divZh(p, n) \in [0..(m - 1) -> Fr]
  BY <1>5, <1>10
<1>12. ASSUME NEW e \in 0..(m - 1)
       PROVE  divZh(p, n)[e] = sub(IF e < n THEN 0 ELSE divZh(p, n)[e - n], p[e])
  <2>1. e \in Nat /\ (~(e < n) => e - n \in 0..(m - 1))
    OBVIOUS
  <2> QED
    BY <1>5, <1>6, <2>1
<1> QED
  BY <1>11, <1>12 DEF IsDivided

\* t has the s highest ones of q's m coefficients.
IsTop(t, q, m, s) == t = [e \in 0..(s - 1) |-> q[(m - s) + e]]

\* The values of the dividend and of what the division computes.
LEMMA DividedEvaluates ==
  ASSUME NEW s \in Nat \ {0}, NEW m \in Nat, s <= m, NEW p \in [0..(m - 1) -> Fr],
         NEW q \in [0..(m - 1) -> Fr], IsDivided(q, p, s, m), NEW t, IsTop(t, q, m, s),
         NEW x \in Fr
  PROVE  /\ t \in [0..(s - 1) -> Fr]
         /\ add(add(evaluateAt(p, x), evaluateAt(q, x)), mul(power(x, m), evaluateAt(t, x)))
              = mul(power(x, s), evaluateAt(q, x))
<1> DEFINE L == m + s
           Places == 0..(L - 1)
           wp == [e \in Places |-> IF e - 0 \in 0..(m - 1) THEN p[e - 0] ELSE 0]
           wq == [e \in Places |-> IF e - 0 \in 0..(m - 1) THEN q[e - 0] ELSE 0]
           mq == [e \in Places |-> IF e - s \in 0..(m - 1) THEN q[e - s] ELSE 0]
           mt == [e \in Places |-> IF e - m \in 0..(s - 1) THEN t[e - m] ELSE 0]
           u == [e \in Places |-> add(wp[e], wq[e])]
           v == [e \in Places |-> add(u[e], mt[e])]
<1>1. /\ L \in Nat /\ 0 \in Nat /\ 0 + m <= L /\ s + m <= L /\ m + s <= L /\ 0 \in Fr /\ s \in Nat
  BY PIsNat
<1>2. t \in [0..(s - 1) -> Fr] /\ \A e \in 0..(s - 1) : t[e] = q[(m - s) + e]
  <2>1. \A e \in 0..(s - 1) : (m - s) + e \in 0..(m - 1)
    OBVIOUS
  <2> QED
    BY <2>1 DEF IsTop
<1>3. /\ IsMoved(wp, p, L, m, 0) /\ IsMoved(wq, q, L, m, 0) /\ IsMoved(mq, q, L, m, s)
      /\ IsMoved(mt, t, L, s, m)
  BY DEF IsMoved
<1>4. IsSum(u, wp, wq, L) /\ IsSum(v, u, mt, L)
  BY DEF IsSum
<1>5. \A e \in Places : mq[e] = v[e]
  <2>1. ASSUME NEW e \in Places
        PROVE  mq[e] = v[e]
    <3>1. v[e] = add(add(wp[e], wq[e]), mt[e]) /\ e - 0 = e
      OBVIOUS
    <3>2. CASE e < m
      <4>1. e \in 0..(m - 1) /\ e - m \notin 0..(s - 1) /\ (e < s <=> e - s \notin 0..(m - 1))
        BY <3>2
      <4>2. wp[e] = p[e] /\ wq[e] = q[e] /\ mt[e] = 0
        BY <4>1
      <4>3. mq[e] = IF e < s THEN 0 ELSE q[e - s]
        BY <4>1
      <4>4. q[e] = sub(IF e < s THEN 0 ELSE q[e - s], p[e])
        BY <4>1 DEF IsDivided
      <4>5. q[e] \in Fr /\ p[e] \in Fr /\ (IF e < s THEN 0 ELSE q[e - s]) \in Fr
        BY <1>1, <4>1
      <4> DEFINE c == IF e < s THEN 0 ELSE q[e - s]
      <4>6. c \in Fr /\ q[e] = sub(c, p[e]) /\ mq[e] = c
        BY <4>3, <4>4, <4>5
      <4> HIDE DEF c, wp, wq, mq, mt, u, v
      <4>7. add(q[e], p[e]) = c
        BY <4>5, <4>6, SubLaws
      <4>8. add(add(p[e], q[e]), 0) = c
        BY <4>5, <4>6, <4>7, AddLaws, ZeroLaws
      <4> QED
        BY <3>1, <4>2, <4>6, <4>8
    <3>3. CASE ~(e < m)
      <4>1. /\ e \notin 0..(m - 1) /\ e - m \in 0..(s - 1) /\ e - s \in 0..(m - 1)
            /\ (m - s) + (e - m) = e - s
        BY <3>3
      <4>2. wp[e] = 0 /\ wq[e] = 0 /\ mt[e] = t[e - m] /\ mq[e] = q[e - s]
        BY <3>1, <4>1
      <4>3. t[e - m] = q[e - s] /\ q[e - s] \in Fr
        BY <1>2, <4>1
      <4> HIDE DEF wp, wq, mq, mt, u, v
      <4>4. add(0, 0) = 0 /\ add(0, q[e - s]) = q[e - s]
        BY <1>1, <4>3, AddLaws
      <4> QED
        BY <3>1, <4>2, <4>3, <4>4
    <3> QED
      BY <3>2, <3>3
  <2> QED
    BY <2>1
<1>6. mq = v
  BY <1>5
<1> HIDE DEF L, Places, wp, wq, mq, mt, u, v
<1>7. /\ wp \in [0..(L - 1) -> Fr] /\ evaluateAt(wp, x) = mul(power(x, 0), evaluateAt(p, x))
  BY <1>1, <1>3, EvaluateShifted
<1>8. /\ wq \in [0..(L - 1) -> Fr] /\ evaluateAt(wq, x) = mul(power(x, 0), evaluateAt(q, x))
  BY <1>1, <1>3, EvaluateShifted
<1>9. evaluateAt(mq, x) = mul(power(x, s), evaluateAt(q, x))
  BY <1>1, <1>3, EvaluateShifted
<1>10. /\ mt \in [0..(L - 1) -> Fr] /\ evaluateAt(mt, x) = mul(power(x, m), evaluateAt(t, x))
  BY <1>1, <1>2, <1>3, EvaluateShifted
<1>11. u \in [0..(L - 1) -> Fr] /\ evaluateAt(u, x) = add(evaluateAt(wp, x), evaluateAt(wq, x))
  <2>1. u \in [0..(L - 1) -> Fr]
    BY <1>4, <1>7, <1>8, Operations DEF IsSum
  <2>2. IsSum(u, wp, wq, L) /\ L \in Nat /\ wp \in [0..(L - 1) -> Fr] /\ wq \in [0..(L - 1) -> Fr]
    BY <1>1, <1>4, <1>7, <1>8
  <2>3. evaluateAt(u, x) = add(evaluateAt(wp, x), evaluateAt(wq, x))
    BY <2>2, EvaluateSum
  <2> QED
    BY <2>1, <2>3
<1>12. evaluateAt(v, x) = add(evaluateAt(u, x), evaluateAt(mt, x))
  <2>1. IsSum(v, u, mt, L) /\ L \in Nat /\ u \in [0..(L - 1) -> Fr] /\ mt \in [0..(L - 1) -> Fr]
    BY <1>1, <1>4, <1>10, <1>11
  <2> QED
    BY <2>1, EvaluateSum
<1>13. power(x, 0) = 1 /\ evaluateAt(p, x) \in Fr /\ evaluateAt(q, x) \in Fr
  BY <1>1, PowerStep, EvaluateType
<1>14. mul(1, evaluateAt(p, x)) = evaluateAt(p, x) /\ mul(1, evaluateAt(q, x)) = evaluateAt(q, x)
  BY <1>13, MulLaws, PIsNat
<1> QED
  BY <1>2, <1>6, <1>7, <1>8, <1>9, <1>10, <1>11, <1>12, <1>13, <1>14

\* A polynomial that is zero in the s-th roots of unity is divided by X^s - 1: the
\* s highest coefficients are zero, and the quotient times X^s - 1 is it.
LEMMA DividedWithoutRest ==
  ASSUME NEW n, NEW s, NEW w, IsRoot(w, s, n), NEW m \in Nat, s <= m,
         NEW p \in [0..(m - 1) -> Fr], NEW q \in [0..(m - 1) -> Fr], IsDivided(q, p, s, m),
         \A k \in 0..(s - 1) : evaluateAt(p, power(w, k)) = 0
  PROVE  /\ \A e \in (m - s)..(m - 1) : q[e] = 0
         /\ \A x \in Fr : mul(evaluateAt(q, x), sub(power(x, s), 1)) = evaluateAt(p, x)
<1> DEFINE t == [e \in 0..(s - 1) |-> q[(m - s) + e]]
<1>1. IsTop(t, q, m, s)
  BY DEF IsTop
<1>1a. \A e \in (m - s)..(m - 1) : s \in Nat => e - (m - s) \in 0..(s - 1) /\ t[e - (m - s)] = q[e]
  OBVIOUS
<1> HIDE DEF t
<1>2. s \in Nat \ {0} /\ w \in Fr \ {0} /\ power(w, s) = 1 /\ s \in Nat
  <2>1. s \in Nat /\ s \in Fr \ {0} /\ w \in Fr \ {0}
    BY RootPowers
  <2>2. power(w, s) = 1
    BY RootPowers
  <2> QED
    BY <2>1, <2>2
<1>3. /\ t \in [0..(s - 1) -> Fr]
      /\ \A x \in Fr :
           add(add(evaluateAt(p, x), evaluateAt(q, x)), mul(power(x, m), evaluateAt(t, x)))
             = mul(power(x, s), evaluateAt(q, x))
  <2>1. 0 \in Fr
    BY PIsNat
  <2> QED
    BY <1>1, <1>2, <2>1, DividedEvaluates
<1>4. \A x \in Fr : /\ evaluateAt(p, x) \in Fr /\ evaluateAt(q, x) \in Fr /\ evaluateAt(t, x) \in Fr
                    /\ power(x, m) \in Fr /\ power(x, s) \in Fr
  BY <1>2, <1>3, EvaluateType, PowerType
<1>5. \A k \in 0..(s - 1) : evaluateAt(t, power(w, k)) = 0
  <2>1. ASSUME NEW k \in 0..(s - 1)
        PROVE  evaluateAt(t, power(w, k)) = 0
    <3> DEFINE x == power(w, k)
    <3>1. x \in Fr /\ x # 0 /\ k \in Nat
      BY <1>2, PowerOfOne
    <3>2. power(x, s) = 1
      <4>1. power(power(w, k), s) = power(w, k * s) /\ power(power(w, s), k) = power(w, s * k)
        BY <1>2, <3>1, PowerOfPower
      <4>2. k * s = s * k
        BY <1>2, <3>1
      <4>3. power(1, k) = 1
        BY <3>1, PIsNat, PowerOfOne
      <4> QED
        BY <1>2, <4>1, <4>2, <4>3
    <3>3. evaluateAt(p, x) = 0
      OBVIOUS
    <3> HIDE DEF x
    <3> DEFINE eq == evaluateAt(q, x)
               et == evaluateAt(t, x)
               z == mul(power(x, m), et)
    <3>4. eq \in Fr /\ et \in Fr /\ z \in Fr /\ power(x, m) \in Fr
      BY <1>4, <3>1, Operations
    <3>5. add(add(0, eq), z) = mul(1, eq)
      BY <1>3, <3>1, <3>2, <3>3
    <3>6. power(x, m) # 0
      BY <3>1, PowerOfOne
    <3> HIDE DEF eq
    <3>7. add(z, eq) = eq
      <4> HIDE DEF z
      <4>1. add(0, eq) = eq /\ mul(1, eq) = eq /\ add(eq, z) = add(z, eq)
        BY <3>4, AddLaws, MulLaws
      <4> QED
        BY <3>5, <4>1
    <3>8. z = 0
      <4> HIDE DEF z
      <4>1. sub(add(z, eq), eq) = z /\ sub(eq, eq) = 0
        BY <3>4, SubLaws
      <4> QED
        BY <3>7, <4>1
    <3> HIDE DEF et
    <3>9. et = 0
      BY <3>4, <3>6, <3>8, Cancel
    <3> QED
      BY <3>9 DEF et, x
  <2> QED
    BY <2>1
<1>6. \A e \in 0..(s - 1) : t[e] = 0
  BY <1>3, <1>5, ZeroOnRoots
<1>7. \A e \in (m - s)..(m - 1) : q[e] = 0
  BY <1>1a, <1>2, <1>6
<1>8. ASSUME NEW x \in Fr
      PROVE  mul(evaluateAt(q, x), sub(power(x, s), 1)) = evaluateAt(p, x)
  <2>1. evaluateAt(t, x) = 0
    <3>1. IsMultiple(t, t, 0, s)
      <4>1. \A e \in 0..(s - 1) : t[e] = mul(0, t[e])
        <5>1. mul(0, 0) = 0
          BY PIsNat, MulLaws
        <5> QED
          BY <1>6, <5>1
      <4>2. t = [e \in 0..(s - 1) |-> t[e]]
        BY <1>3
      <4> QED
        BY <4>1, <4>2 DEF IsMultiple
    <3>2. evaluateAt(t, x) = mul(0, evaluateAt(t, x))
      <4>1. 0 \in Fr /\ s \in Nat /\ t \in [0..(s - 1) -> Fr]
        BY <1>2, <1>3, PIsNat
      <4> QED
        BY <3>1, <4>1, EvaluateMultiple
    <3>3. mul(0, evaluateAt(t, x)) = 0
      BY <1>4, MulLaws
    <3> QED
      BY <3>2, <3>3
  <2> DEFINE ep == evaluateAt(p, x)
             eq == evaluateAt(q, x)
             y == power(x, s)
  <2>2. ep \in Fr /\ eq \in Fr /\ y \in Fr /\ 1 \in Fr
    BY <1>4, PIsNat
  <2>3. add(add(ep, eq), 0) = mul(y, eq)
    <3>1. mul(power(x, m), 0) = 0
      BY <1>4, ZeroLaws
    <3> QED
      BY <1>3, <2>1, <3>1
  <2> HIDE DEF ep, eq, y
  <2>4. add(ep, eq) = mul(y, eq)
    <3>1. add(ep, eq) \in Fr
      BY <2>2, Operations
    <3> QED
      BY <2>3, <3>1, ZeroLaws
  <2>5. mul(eq, sub(y, 1)) = sub(mul(y, eq), eq)
    <3> DEFINE d == sub(y, 1)
    <3>1. d \in Fr /\ add(d, 1) = y
      BY <2>2, Operations, SubLaws
    <3> HIDE DEF d
    <3>2. mul(eq, add(d, 1)) = add(mul(eq, d), mul(eq, 1)) /\ mul(eq, 1) = eq
      BY <2>2, <3>1, Distributive, ZeroLaws
    <3>3. mul(eq, y) = mul(y, eq) /\ mul(eq, d) \in Fr
      BY <2>2, <3>1, MulLaws, Operations
    <3>4. sub(add(mul(eq, d), eq), eq) = mul(eq, d)
      BY <2>2, <3>3, SubLaws
    <3> QED
      BY <3>1, <3>2, <3>3, <3>4 DEF d
  <2>6. sub(add(ep, eq), eq) = ep
    BY <2>2, SubLaws
  <2> QED
    BY <2>4, <2>5, <2>6 DEF ep, eq, y
<1> QED
  BY <1>7, <1>8

\* The quotient of a polynomial with top coefficients that are not zero has s fewer.
LEMMA DividedDegree ==
  ASSUME NEW s \in Nat \ {0}, NEW m \in Nat, NEW top \in Nat,
         NEW p \in [0..(m - 1) -> Fr], \A e \in top..(m - 1) : p[e] = 0,
         NEW q \in [0..(m - 1) -> Fr], IsDivided(q, p, s, m),
         \A e \in (m - s)..(m - 1) : e >= 0 => q[e] = 0
  PROVE  \A e \in 0..(m - 1) : e + s >= top => q[e] = 0
<1> DEFINE S == {k \in Nat : \A e \in 0..(m - 1) : e >= k /\ e + s >= top => q[e] = 0}
<1>1. \A k \in Nat : k >= m => k \in S
  OBVIOUS
<1>2. ASSUME NEW k \in 0..(m - 1), k + 1 \in S
      PROVE  k \in S
  <2>1. ASSUME NEW e \in 0..(m - 1), e >= k, e + s >= top
        PROVE  q[e] = 0
    <3>1. CASE e >= k + 1
      BY <1>2, <2>1, <3>1
    <3>2. CASE ~(e >= k + 1) /\ e \in (m - s)..(m - 1)
      BY <3>2
    <3>3. CASE ~(e >= k + 1) /\ e \notin (m - s)..(m - 1)
      <4> DEFINE j == e + s
      <4>1. /\ j \in 0..(m - 1) /\ j \in top..(m - 1) /\ j >= k + 1 /\ j + s >= top /\ ~(j < s)
            /\ j - s = e
        BY <2>1, <3>3
      <4> HIDE DEF j
      <4>2. q[j] = 0
        BY <1>2, <4>1
      <4>3. q[j] = sub(q[e], 0)
        BY <4>1 DEF IsDivided
      <4>4. sub(q[e], 0) = q[e]
        BY SubLaws
      <4> QED
        BY <4>2, <4>3, <4>4
    <3> QED
      BY <3>1, <3>2, <3>3
  <2>2. k \in Nat
    OBVIOUS
  <2> QED
    BY <2>1, <2>2
<1> HIDE DEF S
<1>3. 0 \in S
  BY <1>1, <1>2, Descending
<1> QED
  BY <1>3 DEF S

-----------------------------------------------------------------------------
\* The constraints in the domain.

\* The columns of a matrix.
LEMMA ColumnType ==
  ASSUME NEW rows \in Nat, NEW M \in Matrix(rows), NEW c \in Columns
  PROVE  /\ column(M, c) \in [0..(rows - 1) -> Fr]
         /\ \A row \in 0..(rows - 1) : column(M, c)[row] = M[row][c]
BY DEF column, Matrix

\* The coefficients of a column are those of a polynomial with the witness's values
\* in the domain.
Interpolated(c) ==
  \A row \in 0..(N - 1) :
    evaluateAt(column(cm1_coefs, c), power(rootOfUnity(N), row)) = cm1_n[row][c]

-----------------------------------------------------------------------------
\* The constraints, of the committed columns in a point.
At(x) == [c \in Columns |-> evaluateAt(column(cm1_coefs, c), x)]
Equation(x) ==
  combined(constraints(At(x), At(mul(x, rootOfUnity(N))),
                       evaluateAt(const_coefs.L1, x), evaluateAt(const_coefs.LLAST, x)))
\* Behind the random coefficients there are zeros.
Bound == N + maxPolsOpenings
Short(c) == \A row \in Bound..(NCoefs - 1) : cm1_coefs[row][c] = 0

\* Horner's rule, from the first of five values on.
LEMMA Combined ==
  ASSUME NEW c1 \in Fr, NEW c2 \in Fr, NEW c3 \in Fr, NEW c4 \in Fr, NEW c5 \in Fr, a \in Fr
  PROVE  combined(<<c1, c2, c3, c4, c5>>)
           = add(c5, mul(a, add(c4, mul(a, add(c3, mul(a, add(c2, mul(a, c1))))))))
<1> DEFINE cs == <<c1, c2, c3, c4, c5>>
           p == [e \in 0..(5 - 1) |-> cs[5 - e]]
<1>1. /\ p \in [0..(5 - 1) -> Fr] /\ Len(cs) = 5
      /\ p[0] = c5 /\ p[1] = c4 /\ p[2] = c3 /\ p[3] = c2 /\ p[4] = c1
  <2>1. Len(cs) = 5 /\ cs[1] = c1 /\ cs[2] = c2 /\ cs[3] = c3 /\ cs[4] = c4 /\ cs[5] = c5
    OBVIOUS
  <2> HIDE DEF cs
  <2>2. p[0] = c5 /\ p[1] = c4 /\ p[2] = c3 /\ p[3] = c2 /\ p[4] = c1
    BY <2>1
  <2>3. \A e \in 0..(5 - 1) : e = 0 \/ e = 1 \/ e = 2 \/ e = 3 \/ e = 4
    OBVIOUS
  <2>4. \A e \in 0..(5 - 1) : p[e] \in Fr
    <3> HIDE DEF p
    <3> QED
      BY <2>2, <2>3
  <2>5. p \in [0..(5 - 1) -> Fr]
    BY <2>4
  <2> QED
    BY <2>1, <2>2, <2>5
<1>2. combined(cs) = evaluateAt(p, a)
  <2>1. Len(cs) = 5
    BY <1>1
  <2> HIDE DEF cs
  <2>2. p = [e \in 0..(Len(cs) - 1) |-> cs[Len(cs) - e]]
    BY <2>1
  <2> HIDE DEF p
  <2> QED
    BY <2>2 DEF combined
<1> HIDE DEF p, cs
<1>3. PICK h : IsHorner(h, p, 5, a) /\ evaluateAt(p, a) = h[0]
  <2>1. 5 \in Nat /\ a \in Fr /\ p \in [0..(5 - 1) -> Fr]
    BY <1>1
  <2> HIDE DEF IsHorner
  <2>2. \A k \in Nat : \A q \in [0..(k - 1) -> Fr] :
          \E h : IsHorner(h, q, k, a) /\ evaluateAt(q, a) = h[0]
    BY <2>1, EvaluateType
  <2> QED
    BY <2>1, <2>2
<1>4. \A e \in Nat : h[e] = IF e \in 0..(5 - 1) THEN add(p[e], mul(a, h[e + 1])) ELSE 0
  BY <1>3 DEF IsHorner
<1>5. /\ h[0] = add(p[0], mul(a, h[1])) /\ h[1] = add(p[1], mul(a, h[2]))
      /\ h[2] = add(p[2], mul(a, h[3])) /\ h[3] = add(p[3], mul(a, h[4]))
      /\ h[4] = add(p[4], mul(a, h[5])) /\ h[5] = 0
  BY <1>4
<1>6. add(c1, mul(a, 0)) = c1
  BY ZeroLaws
<1> QED
  BY <1>1, <1>2, <1>3, <1>5, <1>6 DEF cs

\* The constant polynomials, and their values in the domain.
LEMMA Constants ==
  /\ const_coefs.L1 \in [0..(N - 1) -> Fr] /\ const_coefs.LLAST \in [0..(N - 1) -> Fr]
  /\ \A row \in 0..(N - 1) :
       /\ evaluateAt(const_coefs.L1, power(rootOfUnity(N), row)) = IF row = 0 THEN 1 ELSE 0
       /\ evaluateAt(const_coefs.LLAST, power(rootOfUnity(N), row)) = IF row = N - 1 THEN 1 ELSE 0
<1> DEFINE w == rootOfUnity(N)
           l1 == [row \in 0..(N - 1) |-> IF row = 0 THEN 1 ELSE 0]
           ll == [row \in 0..(N - 1) |-> IF row = N - 1 THEN 1 ELSE 0]
<1>1. IsRoot(w, N, nBits) /\ N \in Nat /\ 0 \in Fr /\ 1 \in Fr
  BY Sizes, PIsNat
<1>2. l1 \in [0..(N - 1) -> Fr] /\ ll \in [0..(N - 1) -> Fr]
  BY <1>1
<1>3. const_coefs.L1 = INTT(l1, N) /\ const_coefs.LLAST = INTT(ll, N)
  BY DEF const_coefs, const_n
<1>4. \A row \in 0..(N - 1) : /\ l1[row] = (IF row = 0 THEN 1 ELSE 0)
                              /\ ll[row] = (IF row = N - 1 THEN 1 ELSE 0)
  OBVIOUS
<1> HIDE DEF w, l1, ll
<1>5. INTT(l1, N) \in [0..(N - 1) -> Fr] /\ INTT(ll, N) \in [0..(N - 1) -> Fr]
  BY <1>1, <1>2, InverseType
<1>6. \A row \in 0..(N - 1) : /\ evaluateAt(INTT(l1, N), power(w, row)) = l1[row]
                              /\ evaluateAt(INTT(ll, N), power(w, row)) = ll[row]
  <2>1. ASSUME NEW v \in [0..(N - 1) -> Fr], NEW row \in 0..(N - 1)
        PROVE  evaluateAt(INTT(v, N), power(w, row)) = v[row]
    BY <1>1, InverseTransform
  <2> QED
    BY <1>2, <2>1
<1> QED
  BY <1>3, <1>4, <1>5, <1>6 DEF w

\* The sizes that the degrees need.
LEMMA Degrees ==
  /\ Bound \in Nat /\ N <= Bound /\ Bound <= NCoefs
  /\ (Bound + Bound) + N <= NExt /\ Bound + Bound <= domainSizeQ /\ domainSizeQ \in Nat
  /\ 0 \in Columns /\ 1 \in Columns
<1>1. /\ nBits \in Nat \ {0} /\ nBitsZK \in Nat \ {0} /\ qDeg \in Nat \ {0, 1}
      /\ maxPolsOpenings \in Nat /\ NCoefs >= N + maxPolsOpenings
      /\ 0 \in Columns /\ 1 \in Columns
  BY BlindedQuotientAssumption
<1>2. N \in Nat \ {0} /\ NCoefs \in Nat \ {0} /\ NExt \in Nat \ {0}
  BY Sizes
<1>3. Bound \in Nat /\ N <= Bound /\ Bound <= NCoefs
  BY <1>1, <1>2 DEF Bound
<1>4. extendBits \in Nat /\ 2^extendBits >= qDeg + 1
  <2> DEFINE T == {e \in Nat : 2^e >= qDeg + 1}
  <2>1. \A k \in Nat : 2^k \in Nat /\ 2^k >= k + 1
    BY PowersOfTwo, PowerOfTwoIsLarge
  <2>2. qDeg \in T
    BY <1>1, <2>1
  <2>3. T \subseteq Nat /\ T # {}
    BY <2>2
  <2>4. PICK e \in T : \A d \in T : e <= d
    <3> HIDE DEF T
    <3> QED
      BY <2>3, Least
  <2>5. e \in 0..qDeg /\ 2^e >= qDeg + 1
    BY <1>1, <2>2, <2>4
  <2>6. ASSUME NEW d \in 0..(e - 1)
        PROVE  2^d < qDeg + 1
    <3>1. d \in Nat /\ ~(e <= d)
      BY <2>5
    <3>2. d \notin T /\ 2^d \in Nat
      BY <2>1, <2>4, <3>1
    <3> QED
      BY <1>1, <3>1, <3>2
  <2>7. extendBits \in 0..qDeg /\ 2^extendBits >= qDeg + 1
    BY <2>5, <2>6 DEF extendBits
  <2> QED
    BY <1>1, <2>7
<1>5. NExt = NCoefs * 2^extendBits /\ 2^extendBits \in Nat
  <2>1. nBits + nBitsZK \in Nat
    BY <1>1
  <2>2. 2^((nBits + nBitsZK) + extendBits) = 2^(nBits + nBitsZK) * 2^extendBits
    BY <1>4, <2>1, PowerOfTwoOfSum
  <2> QED
    BY <1>4, <2>2, PowersOfTwo DEF NExt, NCoefs
<1>6. (Bound + Bound) + N <= NExt
  <2>1. \A u, v \in Nat : v >= 3 => u * v >= u + u + u
    <3>1. ASSUME NEW u \in Nat, NEW v \in Nat, v >= 3
          PROVE  u * v >= u + u + u
      <4>1. u * v = u * 3 + u * (v - 3) /\ u * (v - 3) >= 0
        BY <3>1
      <4> QED
        BY <4>1
    <3> QED
      BY <3>1
  <2>2. 2^extendBits >= 3
    BY <1>1, <1>4, <1>5
  <2>3. NCoefs * 2^extendBits >= NCoefs + NCoefs + NCoefs
    BY <1>2, <1>5, <2>1, <2>2
  <2> QED
    BY <1>2, <1>3, <1>5, <2>3
<1>7. domainSizeQ \in Nat /\ Bound + Bound <= domainSizeQ
  <2>1. \A u, m, q \in Nat : q >= 2 => /\ q * u \in Nat /\ m * (q + 1) \in Nat
                                       /\ q * u >= u + u /\ m * (q + 1) >= m + m
    <3>1. ASSUME NEW u \in Nat, NEW m \in Nat, NEW q \in Nat, q >= 2
          PROVE  /\ q * u \in Nat /\ m * (q + 1) \in Nat
                 /\ q * u >= u + u /\ m * (q + 1) >= m + m
      <4>1. q * u = 2 * u + (q - 2) * u /\ (q - 2) * u >= 0
        BY <3>1
      <4>2. m * (q + 1) = m * 2 + m * (q - 1) /\ m * (q - 1) >= 0
        BY <3>1
      <4> QED
        BY <4>1, <4>2
    <3> QED
      BY <3>1
  <2>2. qDeg \in Nat /\ qDeg >= 2 /\ N \in Nat
    BY <1>1, <1>2
  <2>3. /\ qDeg * N \in Nat /\ maxPolsOpenings * (qDeg + 1) \in Nat
        /\ qDeg * N >= N + N /\ maxPolsOpenings * (qDeg + 1) >= maxPolsOpenings + maxPolsOpenings
    BY <1>1, <2>1, <2>2
  <2> QED
    BY <1>1, <1>2, <2>3 DEF domainSizeQ, Bound
<1> QED
  BY <1>1, <1>3, <1>6, <1>7

\* The values of the publics.
LEMMA PublicsType ==
  ASSUME cm1_n \in Matrix(N)
  PROVE  /\ publics[1] = cm1_n[0][1] /\ publics[2] = cm1_n[0][0] /\ publics[3] = cm1_n[N - 1][0]
         /\ publics[1] \in Fr /\ publics[2] \in Fr /\ publics[3] \in Fr
<1>1. 0 \in Columns /\ 1 \in Columns /\ 0 \in 0..(N - 1) /\ N - 1 \in 0..(N - 1)
  BY Degrees, Sizes
<1>2. \A row \in 0..(N - 1) : cm1_n[row] \in [Columns -> Fr]
  BY DEF Matrix
<1>3. publics[1] = cm1_n[0][1] /\ publics[2] = cm1_n[0][0] /\ publics[3] = cm1_n[N - 1][0]
  BY DEF publics
<1> QED
  BY <1>1, <1>2, <1>3

\* A column's polynomial, without the zeros.
LEMMA ColumnIsShort ==
  ASSUME cm1_coefs \in Matrix(NCoefs), NEW c \in Columns, Short(c)
  PROVE  \E r \in [0..(Bound - 1) -> Fr] :
           \A x \in Fr : evaluateAt(r, x) = evaluateAt(column(cm1_coefs, c), x)
<1> DEFINE p == column(cm1_coefs, c)
           r == [e \in 0..(Bound - 1) |-> p[e]]
<1>1. Bound \in Nat /\ Bound <= NCoefs /\ NCoefs \in Nat
  BY Degrees, Sizes
<1>2. p \in [0..(NCoefs - 1) -> Fr] /\ \A row \in 0..(NCoefs - 1) : p[row] = cm1_coefs[row][c]
  BY <1>1, ColumnType
<1> HIDE DEF p
<1>3. r \in [0..(Bound - 1) -> Fr]
  <2>1. \A e \in 0..(Bound - 1) : e \in 0..(NCoefs - 1)
    BY <1>1
  <2> QED
    BY <1>2, <2>1
<1>4. IsWider(p, r, Bound, NCoefs)
  <2>1. ASSUME NEW e \in 0..(NCoefs - 1)
        PROVE  p[e] = IF e < Bound THEN r[e] ELSE 0
    <3>1. CASE e < Bound
      <4>1. e \in 0..(Bound - 1)
        BY <1>1, <3>1
      <4> QED
        BY <3>1, <4>1
    <3>2. CASE ~(e < Bound)
      <4>1. e \in Bound..(NCoefs - 1)
        BY <1>1, <3>2
      <4> QED
        BY <1>2, <3>2, <4>1 DEF Short
    <3> QED
      BY <3>1, <3>2
  <2> QED
    BY <2>1 DEF IsWider
<1> HIDE DEF r
<1>5. \A x \in Fr : evaluateAt(p, x) = evaluateAt(r, x)
  BY <1>1, <1>2, <1>3, <1>4, EvaluateWider
<1> QED
  BY <1>3, <1>5 DEF p

\* The constraints, in their five values.
LEMMA EquationIs ==
  ASSUME NEW x \in Fr, a \in Fr, cm1_n \in Matrix(N), cm1_coefs \in Matrix(NCoefs)
  PROVE  LET y == mul(x, rootOfUnity(N))
             r0 == evaluateAt(column(cm1_coefs, 0), x)
             r1 == evaluateAt(column(cm1_coefs, 1), x)
             n0 == evaluateAt(column(cm1_coefs, 0), y)
             n1 == evaluateAt(column(cm1_coefs, 1), y)
             l1 == evaluateAt(const_coefs.L1, x)
             ll == evaluateAt(const_coefs.LLAST, x)
             c1 == mul(sub(n1, r0), sub(1, ll))
             c2 == mul(sub(n0, add(mul(r0, r0), mul(r1, r1))), sub(1, ll))
             c3 == mul(l1, sub(r1, publics[1]))
             c4 == mul(l1, sub(r0, publics[2]))
             c5 == mul(ll, sub(r0, publics[3]))
         IN  /\ {y, r0, r1, n0, n1, l1, ll, c1, c2, c3, c4, c5} \subseteq Fr
             /\ Equation(x) = add(c5, mul(a, add(c4, mul(a, add(c3, mul(a, add(c2, mul(a, c1))))))))
<1> DEFINE y == mul(x, rootOfUnity(N))
           r0 == evaluateAt(column(cm1_coefs, 0), x)
           r1 == evaluateAt(column(cm1_coefs, 1), x)
           n0 == evaluateAt(column(cm1_coefs, 0), y)
           n1 == evaluateAt(column(cm1_coefs, 1), y)
           l1 == evaluateAt(const_coefs.L1, x)
           ll == evaluateAt(const_coefs.LLAST, x)
           c1 == mul(sub(n1, r0), sub(1, ll))
           c2 == mul(sub(n0, add(mul(r0, r0), mul(r1, r1))), sub(1, ll))
           c3 == mul(l1, sub(r1, publics[1]))
           c4 == mul(l1, sub(r0, publics[2]))
           c5 == mul(ll, sub(r0, publics[3]))
<1>1. 0 \in Columns /\ 1 \in Columns /\ N \in Nat /\ NCoefs \in Nat /\ IsRoot(rootOfUnity(N), N, nBits)
  BY Degrees, Sizes
<1>2. rootOfUnity(N) \in Fr /\ 1 \in Fr
  BY <1>1, RootPowers, PIsNat
<1>3. y \in Fr
  BY <1>2, Operations
<1>4. column(cm1_coefs, 0) \in [0..(NCoefs - 1) -> Fr] /\ column(cm1_coefs, 1) \in [0..(NCoefs - 1) -> Fr]
  BY <1>1, ColumnType
<1>5. /\ const_coefs.L1 \in [0..(N - 1) -> Fr] /\ const_coefs.LLAST \in [0..(N - 1) -> Fr]
  BY Constants
<1>6. publics[1] \in Fr /\ publics[2] \in Fr /\ publics[3] \in Fr
  BY PublicsType
<1>7. At(x)[0] = r0 /\ At(x)[1] = r1 /\ At(y)[0] = n0 /\ At(y)[1] = n1
  BY <1>1 DEF At
<1>8. constraints(At(x), At(y), l1, ll) = <<c1, c2, c3, c4, c5>>
  BY <1>7 DEF constraints
<1>8a. Equation(x) = combined(constraints(At(x), At(y), l1, ll))
  BY DEF Equation
<1> HIDE DEF y
<1>9. r0 \in Fr /\ r1 \in Fr /\ n0 \in Fr /\ n1 \in Fr /\ l1 \in Fr /\ ll \in Fr
  BY <1>1, <1>3, <1>4, <1>5, EvaluateType
<1> HIDE DEF r0, r1, n0, n1, l1, ll
<1>10. sub(n1, r0) \in Fr /\ sub(1, ll) \in Fr /\ c1 \in Fr
  BY <1>2, <1>9, Operations
<1>11. c2 \in Fr
  <2>1. mul(r0, r0) \in Fr /\ mul(r1, r1) \in Fr
    BY <1>9, Operations
  <2>2. add(mul(r0, r0), mul(r1, r1)) \in Fr
    BY <2>1, Operations
  <2>3. sub(n0, add(mul(r0, r0), mul(r1, r1))) \in Fr
    BY <1>9, <2>2, Operations
  <2> QED
    BY <1>10, <2>3, Operations
<1>12. c3 \in Fr
  <2>1. sub(r1, publics[1]) \in Fr
    BY <1>6, <1>9, Operations
  <2> QED
    BY <1>9, <2>1, Operations
<1>13. c4 \in Fr
  <2>1. sub(r0, publics[2]) \in Fr
    BY <1>6, <1>9, Operations
  <2> QED
    BY <1>9, <2>1, Operations
<1>14. c5 \in Fr
  <2>1. sub(r0, publics[3]) \in Fr
    BY <1>6, <1>9, Operations
  <2> QED
    BY <1>9, <2>1, Operations
<1> HIDE DEF c1, c2, c3, c4, c5
<1>15. combined(<<c1, c2, c3, c4, c5>>)
         = add(c5, mul(a, add(c4, mul(a, add(c3, mul(a, add(c2, mul(a, c1))))))))
  BY <1>10, <1>11, <1>12, <1>13, <1>14, Combined
<1>16. Equation(x) = add(c5, mul(a, add(c4, mul(a, add(c3, mul(a, add(c2, mul(a, c1))))))))
  BY <1>8, <1>8a, <1>15
<1>17. {y, r0, r1, n0, n1, l1, ll, c1, c2, c3, c4, c5} \subseteq Fr
  BY <1>3, <1>9, <1>10, <1>11, <1>12, <1>13, <1>14
<1> QED
  BY <1>16, <1>17 DEF y, r0, r1, n0, n1, l1, ll, c1, c2, c3, c4, c5

-----------------------------------------------------------------------------
\* The functions that are values of a polynomial of n coefficients, and how they
\* are put together.
Polynomial(n) ==
  {v \in [Fr -> Fr] : \E r \in [0..(n - 1) -> Fr] : \A x \in Fr : evaluateAt(r, x) = v[x]}
FConstant(c) == [x \in Fr |-> c]
FSum(u, v) == [x \in Fr |-> add(u[x], v[x])]
FDifference(u, v) == [x \in Fr |-> sub(u[x], v[x])]
FMultiple(c, v) == [x \in Fr |-> mul(c, v[x])]
FProduct(u, v) == [x \in Fr |-> mul(u[x], v[x])]
FDilation(v, w) == [x \in Fr |-> v[mul(x, w)]]

\* A constant is the values of a polynomial.
LEMMA FConstantType ==
  ASSUME NEW n \in Nat \ {0}, NEW c \in Fr
  PROVE  FConstant(c) \in Polynomial(n)
<1>1. PICK r \in [0..(n - 1) -> Fr] : \A x \in Fr : evaluateAt(r, x) = c
  BY Constant
<1>2. FConstant(c) \in [Fr -> Fr] /\ \A x \in Fr : FConstant(c)[x] = c
  BY DEF FConstant
<1> QED
  BY <1>1, <1>2 DEF Polynomial

\* A polynomial of fewer coefficients is one.
LEMMA FWider ==
  ASSUME NEW n \in Nat, NEW m \in Nat, n <= m, NEW v \in Polynomial(n)
  PROVE  v \in Polynomial(m)
<1>1. PICK p \in [0..(n - 1) -> Fr] : \A x \in Fr : evaluateAt(p, x) = v[x]
  BY DEF Polynomial
<1>2. PICK r \in [0..(m - 1) -> Fr] : \A x \in Fr : evaluateAt(r, x) = evaluateAt(p, x)
  BY Wider
<1> QED
  BY <1>1, <1>2 DEF Polynomial

\* So is a sum, of as many coefficients.
LEMMA FSumType ==
  ASSUME NEW n \in Nat, NEW u \in Polynomial(n), NEW v \in Polynomial(n)
  PROVE  FSum(u, v) \in Polynomial(n)
<1>1. PICK p \in [0..(n - 1) -> Fr] : \A x \in Fr : evaluateAt(p, x) = u[x]
  BY DEF Polynomial
<1>2. PICK q \in [0..(n - 1) -> Fr] : \A x \in Fr : evaluateAt(q, x) = v[x]
  BY DEF Polynomial
<1>3. PICK r \in [0..(n - 1) -> Fr] :
        \A x \in Fr : evaluateAt(r, x) = add(evaluateAt(p, x), evaluateAt(q, x))
  <2>1. n \in 0..n
    OBVIOUS
  <2> QED
    BY <2>1, SumOf
<1>4. FSum(u, v) \in [Fr -> Fr] /\ \A x \in Fr : FSum(u, v)[x] = add(u[x], v[x])
  <2>1. u \in [Fr -> Fr] /\ v \in [Fr -> Fr]
    BY DEF Polynomial
  <2> QED
    BY <2>1, Operations DEF FSum
<1> QED
  BY <1>1, <1>2, <1>3, <1>4 DEF Polynomial

\* So is a difference.
LEMMA FDifferenceType ==
  ASSUME NEW n \in Nat, NEW u \in Polynomial(n), NEW v \in Polynomial(n)
  PROVE  FDifference(u, v) \in Polynomial(n)
<1>1. PICK p \in [0..(n - 1) -> Fr] : \A x \in Fr : evaluateAt(p, x) = u[x]
  BY DEF Polynomial
<1>2. PICK q \in [0..(n - 1) -> Fr] : \A x \in Fr : evaluateAt(q, x) = v[x]
  BY DEF Polynomial
<1>3. PICK r \in [0..(n - 1) -> Fr] :
        \A x \in Fr : evaluateAt(r, x) = sub(evaluateAt(p, x), evaluateAt(q, x))
  <2>1. n \in 0..n
    OBVIOUS
  <2> QED
    BY <2>1, DifferenceOf
<1>4. FDifference(u, v) \in [Fr -> Fr] /\ \A x \in Fr : FDifference(u, v)[x] = sub(u[x], v[x])
  <2>1. u \in [Fr -> Fr] /\ v \in [Fr -> Fr]
    BY DEF Polynomial
  <2> QED
    BY <2>1, Operations DEF FDifference
<1> QED
  BY <1>1, <1>2, <1>3, <1>4 DEF Polynomial

\* So is a multiple.
LEMMA FMultipleType ==
  ASSUME NEW n \in Nat, NEW c \in Fr, NEW v \in Polynomial(n)
  PROVE  FMultiple(c, v) \in Polynomial(n)
<1>1. PICK p \in [0..(n - 1) -> Fr] : \A x \in Fr : evaluateAt(p, x) = v[x]
  BY DEF Polynomial
<1>2. PICK r \in [0..(n - 1) -> Fr] : \A x \in Fr : evaluateAt(r, x) = mul(c, evaluateAt(p, x))
  BY MultipleOf
<1>3. FMultiple(c, v) \in [Fr -> Fr] /\ \A x \in Fr : FMultiple(c, v)[x] = mul(c, v[x])
  <2>1. v \in [Fr -> Fr]
    BY DEF Polynomial
  <2> QED
    BY <2>1, Operations DEF FMultiple
<1> QED
  BY <1>1, <1>2, <1>3 DEF Polynomial

\* So is a product, of the coefficients of both.
LEMMA FProductType ==
  ASSUME NEW n \in Nat, NEW m \in Nat, NEW u \in Polynomial(n), NEW v \in Polynomial(m)
  PROVE  FProduct(u, v) \in Polynomial(n + m)
<1>1. PICK p \in [0..(n - 1) -> Fr] : \A x \in Fr : evaluateAt(p, x) = u[x]
  BY DEF Polynomial
<1>2. PICK q \in [0..(m - 1) -> Fr] : \A x \in Fr : evaluateAt(q, x) = v[x]
  BY DEF Polynomial
<1>3. PICK r \in [0..((n + m) - 1) -> Fr] :
        \A x \in Fr : evaluateAt(r, x) = mul(evaluateAt(p, x), evaluateAt(q, x))
  BY ProductOf
<1>4. FProduct(u, v) \in [Fr -> Fr] /\ \A x \in Fr : FProduct(u, v)[x] = mul(u[x], v[x])
  <2>1. u \in [Fr -> Fr] /\ v \in [Fr -> Fr]
    BY DEF Polynomial
  <2> QED
    BY <2>1, Operations DEF FProduct
<1> QED
  BY <1>1, <1>2, <1>3, <1>4 DEF Polynomial

\* So is the polynomial of which x times w is taken.
LEMMA FDilationType ==
  ASSUME NEW n \in Nat, NEW w \in Fr, NEW v \in Polynomial(n)
  PROVE  FDilation(v, w) \in Polynomial(n)
<1>1. PICK p \in [0..(n - 1) -> Fr] : \A x \in Fr : evaluateAt(p, x) = v[x]
  BY DEF Polynomial
<1>2. PICK r \in [0..(n - 1) -> Fr] : \A x \in Fr : evaluateAt(r, x) = evaluateAt(p, mul(x, w))
  BY DilationOf
<1>3. \A x \in Fr : mul(x, w) \in Fr
  BY Operations
<1>4. FDilation(v, w) \in [Fr -> Fr] /\ \A x \in Fr : FDilation(v, w)[x] = v[mul(x, w)]
  <2>1. v \in [Fr -> Fr]
    BY DEF Polynomial
  <2> QED
    BY <1>3, <2>1 DEF FDilation
<1> QED
  BY <1>1, <1>2, <1>3, <1>4 DEF Polynomial

\* The equation is the value of a polynomial that the extended domain determines.
LEMMA EquationIsPolynomial ==
  ASSUME a \in Fr, cm1_n \in Matrix(N), cm1_coefs \in Matrix(NCoefs),
         \A c \in Columns : Short(c)
  PROVE  [x \in Fr |-> Equation(x)] \in Polynomial((Bound + Bound) + N)
<1> DEFINE B == Bound
           B2 == B + B
           B3 == B2 + N
           w == rootOfUnity(N)
           p0 == [x \in Fr |-> evaluateAt(column(cm1_coefs, 0), x)]
           p1 == [x \in Fr |-> evaluateAt(column(cm1_coefs, 1), x)]
           l1 == [x \in Fr |-> evaluateAt(const_coefs.L1, x)]
           ll == [x \in Fr |-> evaluateAt(const_coefs.LLAST, x)]
<1>1. /\ B \in Nat /\ N <= B /\ N \in Nat \ {0} /\ B \in Nat \ {0} /\ 0 \in Columns /\ 1 \in Columns
      /\ IsRoot(w, N, nBits)
  BY Degrees, Sizes
<1>2. w \in Fr /\ 1 \in Fr
  BY <1>1, RootPowers, PIsNat
<1>3. publics[1] \in Fr /\ publics[2] \in Fr /\ publics[3] \in Fr
  BY PublicsType
<1>4. \A c \in Columns : [x \in Fr |-> evaluateAt(column(cm1_coefs, c), x)] \in Polynomial(B)
  <2>1. ASSUME NEW c \in Columns
        PROVE  [x \in Fr |-> evaluateAt(column(cm1_coefs, c), x)] \in Polynomial(B)
    <3>1. PICK r \in [0..(B - 1) -> Fr] :
            \A x \in Fr : evaluateAt(r, x) = evaluateAt(column(cm1_coefs, c), x)
      BY ColumnIsShort
    <3>2. \A x \in Fr : evaluateAt(r, x) \in Fr
      BY <1>1, EvaluateType
    <3> QED
      BY <3>1, <3>2 DEF Polynomial
  <2> QED
    BY <2>1
<1>5. p0 \in Polynomial(B) /\ p1 \in Polynomial(B)
  BY <1>1, <1>4
<1>6. l1 \in Polynomial(N) /\ ll \in Polynomial(N)
  <2>1. const_coefs.L1 \in [0..(N - 1) -> Fr] /\ const_coefs.LLAST \in [0..(N - 1) -> Fr]
    BY Constants
  <2>2. \A x \in Fr : evaluateAt(const_coefs.L1, x) \in Fr /\ evaluateAt(const_coefs.LLAST, x) \in Fr
    BY <1>1, <2>1, EvaluateType
  <2> QED
    BY <2>1, <2>2 DEF Polynomial
<1>7. /\ B2 \in Nat /\ B3 \in Nat /\ N \in Nat /\ B <= B2 /\ B + N <= B3 /\ N + B <= B3
      /\ B + N \in Nat /\ N + B \in Nat /\ B2 + N = B3 /\ B + B = B2
  BY <1>1
<1>8. \A x \in Fr : /\ p0[x] = evaluateAt(column(cm1_coefs, 0), x)
                    /\ p1[x] = evaluateAt(column(cm1_coefs, 1), x)
                    /\ l1[x] = evaluateAt(const_coefs.L1, x)
                    /\ ll[x] = evaluateAt(const_coefs.LLAST, x)
  OBVIOUS
<1> DEFINE d == FDifference(FConstant(1), ll)
           c1 == FProduct(FDifference(FDilation(p1, w), p0), d)
           c2 == FProduct(FDifference(FDilation(p0, w), FSum(FProduct(p0, p0), FProduct(p1, p1))), d)
           c3 == FProduct(l1, FDifference(p1, FConstant(publics[1])))
           c4 == FProduct(l1, FDifference(p0, FConstant(publics[2])))
           c5 == FProduct(ll, FDifference(p0, FConstant(publics[3])))
           g2 == FSum(c2, FMultiple(a, c1))
           g3 == FSum(c3, FMultiple(a, g2))
           g4 == FSum(c4, FMultiple(a, g3))
           g5 == FSum(c5, FMultiple(a, g4))
<1> HIDE DEF B, B2, B3, w, p0, p1, l1, ll
<1>9. d \in Polynomial(N)
  BY <1>1, <1>2, <1>6, <1>7, FConstantType, FDifferenceType
<1>10. FDilation(p0, w) \in Polynomial(B) /\ FDilation(p1, w) \in Polynomial(B)
  BY <1>1, <1>2, <1>5, FDilationType
<1>11. c1 \in Polynomial(B3)
  <2>1. FDifference(FDilation(p1, w), p0) \in Polynomial(B)
    BY <1>1, <1>5, <1>10, FDifferenceType
  <2> HIDE DEF d
  <2>2. c1 \in Polynomial(B + N)
    BY <1>1, <1>7, <1>9, <2>1, FProductType
  <2> HIDE DEF c1
  <2> QED
    BY <1>7, <2>2, FWider
<1>12. c2 \in Polynomial(B3)
  <2>1. FProduct(p0, p0) \in Polynomial(B2) /\ FProduct(p1, p1) \in Polynomial(B2)
    <3>1. FProduct(p0, p0) \in Polynomial(B + B) /\ FProduct(p1, p1) \in Polynomial(B + B)
      BY <1>1, <1>5, FProductType
    <3> QED
      BY <1>7, <3>1
  <2>2. FSum(FProduct(p0, p0), FProduct(p1, p1)) \in Polynomial(B2)
    BY <1>7, <2>1, FSumType
  <2>3. FDilation(p0, w) \in Polynomial(B2)
    BY <1>1, <1>7, <1>10, FWider
  <2>4. FDifference(FDilation(p0, w), FSum(FProduct(p0, p0), FProduct(p1, p1))) \in Polynomial(B2)
    BY <1>7, <2>2, <2>3, FDifferenceType
  <2> HIDE DEF d
  <2>5. c2 \in Polynomial(B2 + N)
    BY <1>7, <1>9, <2>4, FProductType
  <2> QED
    BY <1>7, <2>5
<1>13. c3 \in Polynomial(B3)
  <2>1. FDifference(p1, FConstant(publics[1])) \in Polynomial(B)
    BY <1>1, <1>3, <1>5, FConstantType, FDifferenceType
  <2>2. c3 \in Polynomial(N + B)
    BY <1>1, <1>6, <1>7, <2>1, FProductType
  <2> HIDE DEF c3
  <2> QED
    BY <1>7, <2>2, FWider
<1>14. c4 \in Polynomial(B3)
  <2>1. FDifference(p0, FConstant(publics[2])) \in Polynomial(B)
    BY <1>1, <1>3, <1>5, FConstantType, FDifferenceType
  <2>2. c4 \in Polynomial(N + B)
    BY <1>1, <1>6, <1>7, <2>1, FProductType
  <2> HIDE DEF c4
  <2> QED
    BY <1>7, <2>2, FWider
<1>15. c5 \in Polynomial(B3)
  <2>1. FDifference(p0, FConstant(publics[3])) \in Polynomial(B)
    BY <1>1, <1>3, <1>5, FConstantType, FDifferenceType
  <2>2. c5 \in Polynomial(N + B)
    BY <1>1, <1>6, <1>7, <2>1, FProductType
  <2> HIDE DEF c5
  <2> QED
    BY <1>7, <2>2, FWider
<1>16. \A x \in Fr : mul(x, w) \in Fr
  BY <1>2, Operations
<1>17. ASSUME NEW x \in Fr
       PROVE  /\ c1[x] = mul(sub(p1[mul(x, w)], p0[x]), sub(1, ll[x]))
              /\ c2[x] = mul(sub(p0[mul(x, w)], add(mul(p0[x], p0[x]), mul(p1[x], p1[x]))),
                            sub(1, ll[x]))
              /\ c3[x] = mul(l1[x], sub(p1[x], publics[1]))
              /\ c4[x] = mul(l1[x], sub(p0[x], publics[2]))
              /\ c5[x] = mul(ll[x], sub(p0[x], publics[3]))
  BY DEF FConstant, FSum, FDifference, FProduct, FDilation
<1>18. ASSUME NEW x \in Fr
       PROVE  g5[x] = add(c5[x], mul(a, add(c4[x], mul(a, add(c3[x], mul(a, add(c2[x], mul(a, c1[x]))))))))
  <2> HIDE DEF c1, c2, c3, c4, c5
  <2> QED
    BY DEF FSum, FMultiple
<1> HIDE DEF c1, c2, c3, c4, c5
<1>19. g5 \in Polynomial(B3)
  <2>1. \A u, v \in Polynomial(B3) : FSum(u, FMultiple(a, v)) \in Polynomial(B3)
    BY <1>7, FMultipleType, FSumType
  <2>2. g2 \in Polynomial(B3)
    BY <1>11, <1>12, <2>1
  <2> HIDE DEF g2
  <2>3. g3 \in Polynomial(B3)
    BY <1>13, <2>1, <2>2
  <2> HIDE DEF g3
  <2>4. g4 \in Polynomial(B3)
    BY <1>14, <2>1, <2>3
  <2> HIDE DEF g4
  <2> QED
    BY <1>15, <2>1, <2>4
<1> HIDE DEF g5
<1>20. ASSUME NEW x \in Fr
       PROVE  g5[x] = Equation(x)
  <2> DEFINE y == mul(x, w)
             f1 == mul(sub(evaluateAt(column(cm1_coefs, 1), y), evaluateAt(column(cm1_coefs, 0), x)),
                       sub(1, evaluateAt(const_coefs.LLAST, x)))
             f2 == mul(sub(evaluateAt(column(cm1_coefs, 0), y),
                           add(mul(evaluateAt(column(cm1_coefs, 0), x), evaluateAt(column(cm1_coefs, 0), x)),
                               mul(evaluateAt(column(cm1_coefs, 1), x), evaluateAt(column(cm1_coefs, 1), x)))),
                       sub(1, evaluateAt(const_coefs.LLAST, x)))
             f3 == mul(evaluateAt(const_coefs.L1, x),
                       sub(evaluateAt(column(cm1_coefs, 1), x), publics[1]))
             f4 == mul(evaluateAt(const_coefs.L1, x),
                       sub(evaluateAt(column(cm1_coefs, 0), x), publics[2]))
             f5 == mul(evaluateAt(const_coefs.LLAST, x),
                       sub(evaluateAt(column(cm1_coefs, 0), x), publics[3]))
  <2>1. Equation(x) = add(f5, mul(a, add(f4, mul(a, add(f3, mul(a, add(f2, mul(a, f1))))))))
    BY EquationIs DEF w
  <2>2. c1[x] = f1 /\ c2[x] = f2 /\ c3[x] = f3 /\ c4[x] = f4 /\ c5[x] = f5
    BY <1>8, <1>16, <1>17
  <2> HIDE DEF f1, f2, f3, f4, f5
  <2> QED
    BY <1>18, <2>1, <2>2
<1>21. g5 = [x \in Fr |-> Equation(x)]
  <2>1. g5 = [x \in Fr |-> g5[x]]
    BY <1>19 DEF Polynomial
  <2> QED
    BY <1>20, <2>1
<1> QED
  BY <1>19, <1>21 DEF B, B2, B3

\* In the domain all the constraints of a witness of the circuit are zero: of the
\* first row, of the last one, and from one row to the next.
LEMMA EquationVanishes ==
  ASSUME a \in Fr, cm1_n \in Matrix(N), cm1_coefs \in Matrix(NCoefs),
         \A c \in Columns : Interpolated(c), OfTheCircuit(cm1_n), NEW row \in 0..(N - 1)
  PROVE  Equation(power(rootOfUnity(N), row)) = 0
<1> DEFINE w == rootOfUnity(N)
           x == power(w, row)
           y == mul(x, w)
           r0 == evaluateAt(column(cm1_coefs, 0), x)
           r1 == evaluateAt(column(cm1_coefs, 1), x)
           n0 == evaluateAt(column(cm1_coefs, 0), y)
           n1 == evaluateAt(column(cm1_coefs, 1), y)
           l1 == evaluateAt(const_coefs.L1, x)
           ll == evaluateAt(const_coefs.LLAST, x)
           s2 == add(mul(r0, r0), mul(r1, r1))
           c1 == mul(sub(n1, r0), sub(1, ll))
           c2 == mul(sub(n0, s2), sub(1, ll))
           c3 == mul(l1, sub(r1, publics[1]))
           c4 == mul(l1, sub(r0, publics[2]))
           c5 == mul(ll, sub(r0, publics[3]))
<1>1. /\ N \in Nat \ {0} /\ IsRoot(w, N, nBits) /\ 0 \in Columns /\ 1 \in Columns
      /\ row \in Nat /\ 0 \in Fr /\ 1 \in Fr
  BY Degrees, Sizes, PIsNat
<1>2. w \in Fr
  BY <1>1, RootPowers
<1>3. x \in Fr
  BY <1>1, <1>2, PowerType
<1>4. /\ {y, r0, r1, n0, n1, l1, ll, c1, c2, c3, c4, c5} \subseteq Fr
      /\ Equation(x) = add(c5, mul(a, add(c4, mul(a, add(c3, mul(a, add(c2, mul(a, c1))))))))
  <2> HIDE DEF x
  <2> QED
    BY <1>3, EquationIs DEF y, r0, r1, n0, n1, l1, ll, s2, c1, c2, c3, c4, c5, w
<1>5. l1 = (IF row = 0 THEN 1 ELSE 0) /\ ll = (IF row = N - 1 THEN 1 ELSE 0)
  BY Constants
<1>6. r0 = cm1_n[row][0] /\ r1 = cm1_n[row][1]
  BY <1>1 DEF Interpolated
<1>7. y = power(w, row + 1)
  <2>1. power(w, row + 1) = mul(w, x)
    BY <1>1, <1>2, PowerStep
  <2>2. mul(w, x) = mul(x, w)
    BY <1>2, <1>3, MulLaws
  <2> QED
    BY <2>1, <2>2
<1>8. /\ publics[1] = cm1_n[0][1] /\ publics[2] = cm1_n[0][0] /\ publics[3] = cm1_n[N - 1][0]
      /\ publics[1] \in Fr /\ publics[2] \in Fr /\ publics[3] \in Fr
  BY PublicsType
<1>9. sub(1, 1) = 0 /\ sub(r0, r0) = 0 /\ sub(r1, r1) = 0 /\ sub(n0, n0) = 0
  <2>1. \A s \in Fr : sub(s, s) = 0
    BY SubLaws
  <2>2. r0 \in Fr /\ r1 \in Fr /\ n0 \in Fr
    BY <1>4
  <2> HIDE DEF r0, r1, n0
  <2> QED
    BY <1>1, <2>1, <2>2
<1>10. s2 \in Fr
  <2>1. r0 \in Fr /\ r1 \in Fr
    BY <1>4
  <2> HIDE DEF r0, r1
  <2> QED
    BY <2>1, Operations
<1>11. row # N - 1 => n1 = r0 /\ n0 = s2
  <2> SUFFICES ASSUME row # N - 1
               PROVE  n1 = r0 /\ n0 = s2
    OBVIOUS
  <2>1. row \in 0..(N - 2) /\ row + 1 \in 0..(N - 1)
    BY <1>1
  <2>2. n0 = cm1_n[row + 1][0] /\ n1 = cm1_n[row + 1][1]
    BY <1>1, <1>7, <2>1 DEF Interpolated
  <2>3. /\ cm1_n[row + 1][1] = cm1_n[row][0]
        /\ cm1_n[row + 1][0] = add(mul(cm1_n[row][0], cm1_n[row][0]), mul(cm1_n[row][1], cm1_n[row][1]))
    BY <2>1 DEF OfTheCircuit
  <2> HIDE DEF r0, r1, n0, n1
  <2> QED
    BY <1>6, <2>2, <2>3
<1>12. {r0, r1, n0, n1, l1, ll, s2} \subseteq Fr
  BY <1>4, <1>10
<1>12a. sub(n1, r0) \in Fr /\ sub(n0, s2) \in Fr /\ sub(1, ll) \in Fr
        /\ sub(r1, publics[1]) \in Fr /\ sub(r0, publics[2]) \in Fr /\ sub(r0, publics[3]) \in Fr
  <2>1. \A s, t \in Fr : sub(s, t) \in Fr
    BY Operations
  <2> HIDE DEF r0, r1, n0, n1, l1, ll, s2
  <2> QED
    BY <1>1, <1>8, <1>12, <2>1
<1> HIDE DEF r0, r1, n0, n1, l1, ll, s2
<1>13. c1 = 0 /\ c2 = 0
  <2>1. CASE row = N - 1
    <3>1. sub(1, ll) = 0
      BY <1>5, <1>9, <2>1
    <3>2. mul(sub(n1, r0), 0) = 0 /\ mul(sub(n0, s2), 0) = 0
      BY <1>12a, ZeroFactor
    <3> QED
      BY <3>1, <3>2
  <2>2. CASE row # N - 1
    <3>1. sub(n1, r0) = 0 /\ sub(n0, s2) = 0
      BY <1>9, <1>11, <2>2
    <3>2. mul(0, sub(1, ll)) = 0
      BY <1>12a, ZeroFactor
    <3> QED
      BY <3>1, <3>2
  <2> QED
    BY <2>1, <2>2
<1>14. c3 = 0 /\ c4 = 0
  <2>1. CASE row = 0
    <3>1. sub(r1, publics[1]) = 0 /\ sub(r0, publics[2]) = 0
      BY <1>6, <1>8, <1>9, <2>1
    <3>2. mul(l1, 0) = 0
      BY <1>12, ZeroFactor
    <3> QED
      BY <3>1, <3>2
  <2>2. CASE row # 0
    <3>1. l1 = 0
      BY <1>5, <2>2
    <3>2. mul(0, sub(r1, publics[1])) = 0 /\ mul(0, sub(r0, publics[2])) = 0
      BY <1>12a, ZeroFactor
    <3> QED
      BY <3>1, <3>2
  <2> QED
    BY <2>1, <2>2
<1>15. c5 = 0
  <2>1. CASE row = N - 1
    <3>1. sub(r0, publics[3]) = 0
      BY <1>6, <1>8, <1>9, <2>1
    <3>2. mul(ll, 0) = 0
      BY <1>12, ZeroFactor
    <3> QED
      BY <3>1, <3>2
  <2>2. CASE row # N - 1
    <3>1. ll = 0
      BY <1>5, <2>2
    <3>2. mul(0, sub(r0, publics[3])) = 0
      BY <1>12a, ZeroFactor
    <3> QED
      BY <3>1, <3>2
  <2> QED
    BY <2>1, <2>2
<1>16. add(0, mul(a, 0)) = 0
  BY <1>1, ZeroFactor, ZeroLaws
<1> HIDE DEF c1, c2, c3, c4, c5
<1> QED
  BY <1>4, <1>13, <1>14, <1>15, <1>16 DEF x, w

-----------------------------------------------------------------------------
\* What the constraints' polynomial, interpolated from the extended domain, is
\* divided to.
LEMMA Divides ==
  ASSUME a \in Fr, cm1_n \in Matrix(N), cm1_coefs \in Matrix(NCoefs),
         \A c \in Columns : Interpolated(c) /\ Short(c), OfTheCircuit(cm1_n),
         NEW v \in [0..(NExt - 1) -> Fr],
         \A row \in 0..(NExt - 1) : v[row] = Equation(power(rootOfUnity(NExt), row))
  PROVE  /\ ~(fixDegreeFrom(divZh(INTT(v, NExt), N), getDegree(INTT(v, NExt))) > domainSizeQ)
         /\ \A x \in Fr :
              mul(evaluateAt([e \in 0..(domainSizeQ - 1) |-> coef(divZh(INTT(v, NExt), N), e)], x),
                  sub(power(x, N), 1)) = Equation(x)
<1> DEFINE W == rootOfUnity(NExt)
           w == rootOfUnity(N)
           d == INTT(v, NExt)
           q == divZh(d, N)
           B2 == Bound + Bound
           B3 == B2 + N
           places == 0..(domainSizeQ - 1)
           cut == [e \in places |-> coef(q, e)]
           t == [e \in 0..(B2 - 1) |-> q[e]]
<1>1. /\ N \in Nat \ {0} /\ NExt \in Nat \ {0} /\ N <= NExt /\ IsRoot(w, N, nBits)
      /\ B2 \in Nat /\ B3 \in Nat /\ B3 <= NExt /\ B2 <= NExt /\ B2 <= domainSizeQ
      /\ domainSizeQ \in Nat /\ NExt \in Nat /\ N \in Nat /\ 0 \in Fr /\ 1 \in Fr /\ B3 = B2 + N
  BY Degrees, Sizes, PIsNat
<1>2. PICK n : IsRoot(W, NExt, n)
  BY Sizes
<1>3. W \in Fr /\ w \in Fr
  BY <1>1, <1>2, RootPowers
<1>4. \A k \in Nat : power(W, k) \in Fr /\ power(w, k) \in Fr
  BY <1>3, PowerType
<1>5. PICK g \in [0..(B3 - 1) -> Fr] : \A x \in Fr : evaluateAt(g, x) = Equation(x)
  <2>1. [x \in Fr |-> Equation(x)] \in Polynomial(B3)
    BY EquationIsPolynomial
  <2> HIDE DEF B3
  <2> QED
    BY <2>1 DEF Polynomial
<1> DEFINE r == [e \in 0..(NExt - 1) |-> IF e < B3 THEN g[e] ELSE 0]
<1>6. r \in [0..(NExt - 1) -> Fr] /\ IsWider(r, g, B3, NExt)
  <2> HIDE DEF B3
  <2> QED
    BY <1>1 DEF IsWider
<1>7. \A e \in B3..(NExt - 1) : r[e] = 0
  <2> HIDE DEF B3
  <2> QED
    BY <1>1
<1> HIDE DEF B2, B3, W, w, d, q, r, places
<1>8. \A x \in Fr : evaluateAt(r, x) = Equation(x)
  <2>1. B3 \in Nat /\ NExt \in Nat /\ B3 <= NExt
    BY <1>1
  <2>2. \A x \in Fr : evaluateAt(r, x) = evaluateAt(g, x)
    BY <1>6, <2>1, EvaluateWider
  <2> QED
    BY <1>5, <2>2
<1>9. d \in [0..(NExt - 1) -> Fr]
  BY <1>2, InverseType DEF d
<1>10. \A k \in 0..(NExt - 1) : evaluateAt(d, power(W, k)) = evaluateAt(r, power(W, k))
  <2>1. ASSUME NEW k \in 0..(NExt - 1)
        PROVE  evaluateAt(d, power(W, k)) = evaluateAt(r, power(W, k))
    <3>1. evaluateAt(d, power(W, k)) = v[k]
      <4>1. NExt \in Nat /\ v \in [0..(NExt - 1) -> Fr] /\ k \in 0..(NExt - 1)
        BY <1>1
      <4>2. evaluateAt(INTT(v, NExt), power(W, k)) = v[k]
        BY <1>2, <4>1, InverseTransform
      <4> QED
        BY <4>2 DEF d
    <3>2. v[k] = Equation(power(W, k))
      BY DEF W
    <3>3. power(W, k) \in Fr
      BY <1>1, <1>4
    <3> QED
      BY <1>8, <3>1, <3>2, <3>3
  <2> QED
    BY <2>1
<1>11. d = r
  BY <1>2, <1>6, <1>9, <1>10, SameOnRoots
<1>12. q \in [0..(NExt - 1) -> Fr] /\ IsDivided(q, d, N, NExt)
  BY <1>1, <1>9, DivZhIs DEF q
<1>13. \A k \in 0..(N - 1) : evaluateAt(d, power(w, k)) = 0
  <2>1. ASSUME NEW k \in 0..(N - 1)
        PROVE  evaluateAt(d, power(w, k)) = 0
    <3>1. Equation(power(w, k)) = 0
      BY EquationVanishes DEF w
    <3>2. power(w, k) \in Fr
      BY <1>1, <1>4
    <3> QED
      BY <1>8, <1>11, <3>1, <3>2
  <2> QED
    BY <2>1
<1>14. /\ \A e \in (NExt - N)..(NExt - 1) : q[e] = 0
       /\ \A x \in Fr : mul(evaluateAt(q, x), sub(power(x, N), 1)) = evaluateAt(d, x)
  <2>1. NExt \in Nat /\ N <= NExt /\ IsRoot(w, N, nBits)
    BY <1>1
  <2>2. /\ d \in [0..(NExt - 1) -> Fr] /\ q \in [0..(NExt - 1) -> Fr]
        /\ IsDivided(q, d, N, NExt)
    BY <1>9, <1>12
  <2> QED
    BY <1>13, <2>1, <2>2, DividedWithoutRest
<1>15. \A e \in 0..(NExt - 1) : e >= B2 => q[e] = 0
  <2>1. \A e \in B3..(NExt - 1) : d[e] = 0
    BY <1>7, <1>11
  <2>2. \A e \in (NExt - N)..(NExt - 1) : e >= 0 => q[e] = 0
    BY <1>14
  <2>3. \A e \in 0..(NExt - 1) : e + N >= B3 => q[e] = 0
    <3>1. N \in Nat \ {0} /\ NExt \in Nat /\ B3 \in Nat
      BY <1>1
    <3>2. /\ d \in [0..(NExt - 1) -> Fr] /\ q \in [0..(NExt - 1) -> Fr]
          /\ IsDivided(q, d, N, NExt)
      BY <1>9, <1>12
    <3> QED
      BY <2>1, <2>2, <3>1, <3>2, DividedDegree
  <2> QED
    BY <1>1, <2>3
<1>16. ~(fixDegreeFrom(q, getDegree(d)) > domainSizeQ)
  <2> DEFINE k == getDegree(d)
             p == [e \in 0..((k + 1) - 1) |-> q[e]]
  <2>1. k \in 0..(NExt - 1)
    BY <1>1, <1>9, DegreeIs
  <2> HIDE DEF k
  <2>2. k + 1 \in Nat \ {0} /\ (k + 1) - 1 = k /\ DOMAIN p = 0..((k + 1) - 1)
    BY <1>1, <2>1
  <2>3. \A e \in 0..((k + 1) - 1) : e > B2 => p[e] = 0
    BY <1>1, <1>15, <2>1
  <2>4. fixDegreeFrom(q, k) = getDegree(p)
    BY <2>2 DEF fixDegreeFrom
  <2> HIDE DEF p
  <2>5. \A j \in Nat : (\A e \in 0..((k + 1) - 1) : e > j => p[e] = 0) => getDegree(p) <= j
    BY <2>2, DegreeIs
  <2>6. getDegree(p) <= B2 /\ getDegree(p) \in 0..((k + 1) - 1)
    BY <1>1, <2>2, <2>3, <2>5, DegreeIs
  <2> QED
    BY <1>1, <2>1, <2>2, <2>4, <2>6 DEF k
<1>17. t \in [0..(B2 - 1) -> Fr]
  BY <1>1, <1>12
<1>18. cut \in [0..(domainSizeQ - 1) -> Fr] /\ IsWider(cut, t, B2, domainSizeQ)
  <2>1. \A e \in places : coef(q, e) = IF e \in 0..(NExt - 1) THEN q[e] ELSE 0
    BY <1>12 DEF coef
  <2>2. \A e \in places : coef(q, e) \in Fr
    BY <1>1, <1>12, <2>1
  <2>3. cut \in [0..(domainSizeQ - 1) -> Fr]
    BY <2>2 DEF places
  <2>4. ASSUME NEW e \in 0..(domainSizeQ - 1)
        PROVE  cut[e] = IF e < B2 THEN t[e] ELSE 0
    <3>1. cut[e] = IF e \in 0..(NExt - 1) THEN q[e] ELSE 0
      BY <2>1 DEF places
    <3> HIDE DEF cut
    <3> QED
      BY <1>1, <1>15, <3>1
  <2> HIDE DEF cut, t
  <2> QED
    BY <2>3, <2>4 DEF IsWider
<1>19. IsWider(q, t, B2, NExt)
  <2>1. \A e \in 0..(NExt - 1) : q[e] = IF e < B2 THEN t[e] ELSE 0
    BY <1>1, <1>15
  <2> HIDE DEF t
  <2> QED
    BY <2>1 DEF IsWider
<1> HIDE DEF t, cut
<1>20. ASSUME NEW x \in Fr
       PROVE  mul(evaluateAt(cut, x), sub(power(x, N), 1)) = Equation(x)
  <2>1. evaluateAt(cut, x) = evaluateAt(t, x)
    <3>1. B2 \in Nat /\ domainSizeQ \in Nat /\ B2 <= domainSizeQ
      BY <1>1
    <3> QED
      BY <1>17, <1>18, <3>1, EvaluateWider
  <2>2. evaluateAt(q, x) = evaluateAt(t, x)
    <3>1. B2 \in Nat /\ NExt \in Nat /\ B2 <= NExt /\ q \in [0..(NExt - 1) -> Fr]
      BY <1>1, <1>12
    <3> QED
      BY <1>17, <1>19, <3>1, EvaluateWider
  <2> QED
    BY <1>8, <1>11, <1>14, <2>1, <2>2
<1> QED
  BY <1>16, <1>20 DEF cut, places, q, d

-----------------------------------------------------------------------------
\* Wherever the columns have coefficients, those are of polynomials with the
\* witness's values in the domain, and no longer than the random coefficients
\* make them.
ColumnsInv ==
  /\ cm1_n \in Matrix(N)
  /\ cm1_coefs \in Matrix(NCoefs)
  /\ a \in Fr
  /\ pc # "extend" => \A c \in Columns : Interpolated(c) /\ Short(c)
  /\ pc = "constraints" =>
       \A c \in Columns, row \in 0..(NExt - 1) :
         cm1_2ns[row][c] = evaluateAt(column(cm1_coefs, c), power(rootOfUnity(NExt), row))

\* In the beginning the buffers hold anything.
LEMMA InitColumnsInv == Init => ColumnsInv
<1> SUFFICES ASSUME Init
             PROVE  ColumnsInv
  OBVIOUS
<1>1. cm1_n \in Matrix(N) /\ pc = "extend" /\ a \in Fr
  BY BlindedQuotientAssumption, PIsNat DEF Init
<1>2. cm1_coefs \in Matrix(NCoefs)
  <2>1. PICK g \in Garbage : cm1_coefs = filled(NCoefs, g)
    BY DEF Init
  <2>2. g \in Fr
    BY BlindedQuotientAssumption
  <2> QED
    BY <2>1, <2>2 DEF filled, Matrix
<1> QED
  BY <1>1, <1>2 DEF ColumnsInv

\* The coefficients of a column are those of the inverse transform.
LEMMA InterpolateColumnsInv == ColumnsInv /\ Interpolate => ColumnsInv'
<1> SUFFICES ASSUME ColumnsInv, Interpolate
             PROVE  ColumnsInv'
  OBVIOUS
<1> DEFINE coefs == [c \in Columns |-> INTT(column(cm1_n, c), N)]
           w == rootOfUnity(N)
<1>1. /\ cm1_n' = cm1_n /\ cm1_n \in Matrix(N) /\ pc' = "blind" /\ cm1_coefs \in Matrix(NCoefs)
      /\ cm1_coefs' = [row \in 0..(NCoefs - 1) |->
           IF row < N THEN [c \in Columns |-> coefs[c][row]] ELSE cleared(cm1_coefs)[row]]
      /\ a' = a /\ a \in Fr
  BY DEF Interpolate, ColumnsInv
<1>2. N \in Nat /\ NCoefs \in Nat /\ N <= NCoefs /\ IsRoot(w, N, nBits) /\ 0 \in Fr /\ 0 \in Nat
  BY Sizes, PIsNat
<1>3. w \in Fr
  BY <1>2, RootPowers
<1> HIDE DEF w
<1>4. \A c \in Columns : column(cm1_n, c) \in [0..(N - 1) -> Fr]
  BY <1>1, <1>2, ColumnType
<1>5. \A c \in Columns : coefs[c] \in [0..(N - 1) -> Fr] /\ coefs[c] = INTT(column(cm1_n, c), N)
  BY <1>2, <1>4, InverseType
<1> HIDE DEF coefs
<1>6. \A row \in 0..(NCoefs - 1) : ~(row < N) => cm1_coefs'[row] = [c \in Columns |-> 0]
  <2>1. DOMAIN cm1_coefs = 0..(NCoefs - 1)
    BY <1>1 DEF Matrix
  <2> QED
    BY <1>1, <2>1 DEF cleared
<1>7. \A row \in 0..(NCoefs - 1) : row < N => cm1_coefs'[row] = [c \in Columns |-> coefs[c][row]]
  BY <1>1
<1>8. \A row \in 0..(NCoefs - 1) : row < N => row \in 0..(N - 1)
  BY <1>2
<1>9. cm1_coefs' \in Matrix(NCoefs)
  <2>1. \A row \in 0..(NCoefs - 1) : cm1_coefs'[row] \in [Columns -> Fr]
    <3>1. ASSUME NEW row \in 0..(NCoefs - 1)
          PROVE  cm1_coefs'[row] \in [Columns -> Fr]
      <4>1. CASE row < N
        <5>1. cm1_coefs'[row] = [c \in Columns |-> coefs[c][row]]
          BY <1>7, <4>1
        <5>2. \A c \in Columns : coefs[c][row] \in Fr
          BY <1>5, <1>8, <4>1
        <5> QED
          BY <5>1, <5>2
      <4>2. CASE ~(row < N)
        BY <1>2, <1>6, <4>2
      <4> QED
        BY <4>1, <4>2
    <3> QED
      BY <3>1
  <2> QED
    BY <1>1, <2>1 DEF Matrix
<1>10. ASSUME NEW c \in Columns
       PROVE  Interpolated(c)'
  <2>1. column(cm1_coefs', c) \in [0..(NCoefs - 1) -> Fr]
    BY <1>2, <1>9, ColumnType
  <2>2. \A row \in 0..(NCoefs - 1) : column(cm1_coefs', c)[row] = cm1_coefs'[row][c]
    BY <1>2, <1>9, ColumnType
  <2>3. \A row \in 0..(NCoefs - 1) : column(cm1_coefs', c)[row] =
                                       IF row - 0 \in 0..(N - 1) THEN coefs[c][row - 0] ELSE 0
    <3>1. ASSUME NEW row \in 0..(NCoefs - 1)
          PROVE  column(cm1_coefs', c)[row] = IF row - 0 \in 0..(N - 1) THEN coefs[c][row - 0] ELSE 0
      <4>1. row - 0 = row /\ (row < N <=> row \in 0..(N - 1))
        BY <1>2
      <4>2. CASE row < N
        <5>1. cm1_coefs'[row][c] = coefs[c][row]
          BY <1>7, <4>2
        <5> QED
          BY <2>2, <4>1, <4>2, <5>1
      <4>3. CASE ~(row < N)
        <5>1. cm1_coefs'[row][c] = 0
          BY <1>6, <4>3
        <5> QED
          BY <2>2, <4>1, <4>3, <5>1
      <4> QED
        BY <4>2, <4>3
    <3> QED
      BY <3>1
  <2>4. IsMoved(column(cm1_coefs', c), coefs[c], NCoefs, N, 0)
    BY <2>1, <2>3 DEF IsMoved
  <2>5. ASSUME NEW row \in 0..(N - 1)
        PROVE  evaluateAt(column(cm1_coefs', c), power(w, row)) = cm1_n[row][c]
    <3> DEFINE x == power(w, row)
    <3>1. row \in Nat /\ x \in Fr
      BY <1>2, <1>3, PowerType
    <3> HIDE DEF x
    <3>2. 0 + N <= NCoefs /\ coefs[c] \in [0..(N - 1) -> Fr]
      BY <1>2, <1>5
    <3>3. evaluateAt(column(cm1_coefs', c), x) = mul(power(x, 0), evaluateAt(coefs[c], x))
      BY <1>2, <2>4, <3>1, <3>2, EvaluateShifted
    <3>4. power(x, 0) = 1 /\ evaluateAt(coefs[c], x) \in Fr
      BY <1>2, <3>1, <3>2, PowerStep, EvaluateType
    <3>5. evaluateAt(coefs[c], x) = column(cm1_n, c)[row]
      BY <1>2, <1>4, <1>5, InverseTransform DEF x
    <3>6. column(cm1_n, c)[row] = cm1_n[row][c]
      BY <1>1, <1>2, ColumnType
    <3> QED
      BY <3>3, <3>4, <3>5, <3>6, MulLaws, PIsNat DEF x
  <2> QED
    BY <1>1, <2>5 DEF Interpolated, w
<1>11. ASSUME NEW c \in Columns
       PROVE  Short(c)'
  <2>1. ASSUME NEW row \in Bound..(NCoefs - 1)
        PROVE  cm1_coefs'[row][c] = 0
    <3>1. row \in 0..(NCoefs - 1) /\ ~(row < N)
      BY <1>2, Degrees
    <3> QED
      BY <1>6, <3>1
  <2> QED
    BY <2>1 DEF Short
<1> QED
  BY <1>1, <1>9, <1>10, <1>11 DEF ColumnsInv

\* The random multiple of X^N - 1 is zero in the domain.
LEMMA BlindColumnsInv == ColumnsInv /\ BlindColumn => ColumnsInv'
<1> SUFFICES ASSUME ColumnsInv, BlindColumn
             PROVE  ColumnsInv'
  OBVIOUS
<1> DEFINE w == rootOfUnity(N)
<1>1. PICK random \in Blinds :
        cm1_coefs' = [row \in DOMAIN cm1_coefs |-> [cm1_coefs[row] EXCEPT ![i] =
          blinded(column(cm1_coefs, i),
                  [e \in 0..(findNumberOpenings(names[i]) - 1) |-> random[e + 1]])[row]]]
  BY DEF BlindColumn
<1> DEFINE k == findNumberOpenings(names[i])
           bs == [e \in 0..(k - 1) |-> random[e + 1]]
           p == column(cm1_coefs, i)
           q == blinded(p, bs)
<1>2. /\ cm1_n' = cm1_n /\ cm1_n \in Matrix(N) /\ cm1_coefs \in Matrix(NCoefs) /\ i \in Columns
      /\ pc = "blind" /\ pc' = "blind"
      /\ \A c \in Columns : Interpolated(c) /\ Short(c)
      /\ a' = a /\ a \in Fr
  BY DEF BlindColumn, ColumnsInv
<1>3. N \in Nat /\ NCoefs \in Nat /\ N <= NCoefs /\ IsRoot(w, N, nBits) /\ 0 \in Fr
  BY Sizes, PIsNat
<1>4. w \in Fr /\ power(w, N) = 1
  <2>1. power(w, N) = 1
    BY <1>3, RootPowers
  <2> QED
    BY <1>3, <2>1, RootPowers
<1> HIDE DEF w
<1>5. k \in Nat /\ k <= maxPolsOpenings /\ N + k <= NCoefs
  <2>1. maxPolsOpenings \in Nat /\ NCoefs >= N + maxPolsOpenings /\ k \in 0..maxPolsOpenings
    BY <1>2, BlindedQuotientAssumption
  <2> HIDE DEF k
  <2> QED
    BY <1>3, <2>1
<1>6. bs \in [0..(k - 1) -> Fr]
  <2>1. random \in [1..(maxPolsOpenings + 1) -> Fr] /\ maxPolsOpenings \in Nat
    BY BlindedQuotientAssumption
  <2> HIDE DEF k
  <2>2. \A e \in 0..(k - 1) : e + 1 \in 1..(maxPolsOpenings + 1)
    BY <1>5, <2>1
  <2> QED
    BY <2>1, <2>2
<1>7. p \in [0..(NCoefs - 1) -> Fr]
  BY <1>2, <1>3, ColumnType
<1>8. cm1_coefs' = [row \in DOMAIN cm1_coefs |-> [cm1_coefs[row] EXCEPT ![i] = q[row]]]
  BY <1>1
<1> HIDE DEF k, bs, p
<1>9. q \in [0..(NCoefs - 1) -> Fr]
  BY <1>5, <1>6, <1>7, EvaluateBlinded, <1>4
<1> HIDE DEF q
<1>10. cm1_coefs' \in Matrix(NCoefs)
  BY <1>2, <1>8, <1>9 DEF Matrix
<1>11. \A c \in Columns : column(cm1_coefs', c) = IF c = i THEN q ELSE column(cm1_coefs, c)
  BY <1>2, <1>8, <1>9 DEF Matrix, column
<1>12. ASSUME NEW c \in Columns
       PROVE  Interpolated(c)'
  <2>1. ASSUME NEW row \in 0..(N - 1)
        PROVE  evaluateAt(column(cm1_coefs', c), power(w, row)) = cm1_n[row][c]
    <3> DEFINE x == power(w, row)
    <3>1. row \in Nat /\ x \in Fr
      BY <1>3, <1>4, PowerType
    <3>2. evaluateAt(column(cm1_coefs, c), x) = cm1_n[row][c]
      BY <1>2 DEF Interpolated, w
    <3>3. power(x, N) = 1
      <4>1. power(power(w, row), N) = power(w, row * N) /\ power(power(w, N), row) = power(w, N * row)
        BY <1>3, <1>4, <3>1, PowerOfPower
      <4>2. row * N = N * row
        BY <1>3, <3>1
      <4>3. power(1, row) = 1
        BY <3>1, PIsNat, PowerOfOne
      <4> QED
        BY <1>4, <4>1, <4>2, <4>3
    <3> HIDE DEF x
    <3>4. CASE c # i
      BY <1>11, <3>2, <3>4 DEF x
    <3>5. CASE c = i
      <4> DEFINE vq == evaluateAt(q, x)
                 vp == evaluateAt(p, x)
                 vb == evaluateAt(bs, x)
      <4>1. vq \in Fr /\ vp \in Fr /\ vb \in Fr
        BY <1>3, <1>5, <1>6, <1>7, <1>9, <3>1, EvaluateType
      <4>2. add(vq, vb) = add(vp, mul(power(x, N), vb))
        BY <1>5, <1>6, <1>7, <3>1, EvaluateBlinded DEF q
      <4> HIDE DEF vq, vp, vb
      <4>3. mul(power(x, N), vb) = vb
        BY <3>3, <4>1, MulLaws, PIsNat
      <4>4. vq = vp
        <5>1. sub(add(vq, vb), vb) = vq /\ sub(add(vp, vb), vb) = vp
          BY <4>1, SubLaws
        <5> QED
          BY <4>2, <4>3, <5>1
      <4>5. evaluateAt(column(cm1_coefs', c), x) = vq
        BY <1>11, <3>5 DEF vq
      <4>6. vp = cm1_n[row][c]
        BY <3>2, <3>5 DEF vp, p
      <4> QED
        BY <4>4, <4>5, <4>6 DEF x
    <3> QED
      BY <3>4, <3>5
  <2> QED
    BY <1>2, <2>1 DEF Interpolated, w
<1>13. ASSUME NEW c \in Columns
       PROVE  Short(c)'
  <2>1. ASSUME NEW row \in Bound..(NCoefs - 1)
        PROVE  cm1_coefs'[row][c] = 0
    <3>1. /\ row \in 0..(NCoefs - 1) /\ row \notin 0..(k - 1) /\ row - N \notin 0..(k - 1)
      <4>1. Bound = N + maxPolsOpenings /\ maxPolsOpenings \in Nat
        BY BlindedQuotientAssumption DEF Bound
      <4> QED
        BY <1>3, <1>5, <4>1
    <3>2. cm1_coefs[row][c] = 0
      BY <1>2 DEF Short
    <3>3. column(cm1_coefs', c)[row] = cm1_coefs'[row][c] /\ column(cm1_coefs, c)[row] = cm1_coefs[row][c]
      BY <1>2, <1>3, <1>10, <3>1, ColumnType
    <3>4. CASE c # i
      BY <1>11, <3>2, <3>3, <3>4
    <3>5. CASE c = i
      <4>1. q[row] = add(sub(p[row], 0), 0)
        <5>1. DOMAIN bs = 0..(k - 1) /\ DOMAIN p = 0..(NCoefs - 1)
          BY <1>6, <1>7
        <5> QED
          BY <3>1, <5>1 DEF q, blinded
      <4>2. p[row] = 0
        BY <3>2, <3>3, <3>5 DEF p
      <4>3. add(sub(0, 0), 0) = 0
        BY <1>3, SubLaws, ZeroLaws
      <4>4. q[row] = 0
        BY <4>1, <4>2, <4>3
      <4>5. column(cm1_coefs', c) = q
        BY <1>11, <3>5
      <4> QED
        BY <3>3, <4>4, <4>5
    <3> QED
      BY <3>4, <3>5
  <2> QED
    BY <2>1 DEF Short
<1> QED
  BY <1>2, <1>10, <1>12, <1>13 DEF ColumnsInv

\* The extension to the extended domain.
LEMMA ExtendColumnsInv == ColumnsInv /\ ExtendColumns => ColumnsInv'
<1> SUFFICES ASSUME ColumnsInv, ExtendColumns
             PROVE  ColumnsInv'
  OBVIOUS
<1>1. /\ cm1_n' = cm1_n /\ cm1_coefs' = cm1_coefs /\ pc = "blind"
      /\ cm1_n \in Matrix(N) /\ cm1_coefs \in Matrix(NCoefs)
      /\ \A c \in Columns : Interpolated(c) /\ Short(c)
      /\ a' = a /\ a \in Fr
  BY DEF ExtendColumns, ColumnsInv
<1>2. \A c \in Columns, row \in 0..(NExt - 1) :
        cm1_2ns'[row][c] = evaluateAt(column(cm1_coefs, c), power(rootOfUnity(NExt), row))
  <2> DEFINE extended == [c \in Columns |-> NTT(column(cm1_coefs, c), NExt)]
  <2>1. cm1_2ns' = [row \in 0..(NExt - 1) |-> [c \in Columns |-> extended[c][row]]]
    BY DEF ExtendColumns
  <2>2. \A c \in Columns, row \in 0..(NExt - 1) :
          extended[c][row] = evaluateAt(column(cm1_coefs, c), power(rootOfUnity(NExt), row))
    BY DEF NTT
  <2> HIDE DEF extended
  <2>3. \A c \in Columns, row \in 0..(NExt - 1) : cm1_2ns'[row][c] = extended[c][row]
    BY <2>1
  <2> QED
    BY <2>2, <2>3
<1>3. \A c \in Columns : Interpolated(c)' /\ Short(c)'
  BY <1>1 DEF Interpolated, Short
<1>4. pc' = "constraints"
  BY DEF ExtendColumns
<1> QED
  BY <1>1, <1>2, <1>3, <1>4 DEF ColumnsInv

\* The later steps leave the columns.
LEMMA UnchangedColumnsInv ==
  /\ ColumnsInv /\ UNCHANGED <<cm1_n, cm1_coefs, cm1_2ns>>
  /\ pc = "extend" => pc' = "extend"
  /\ pc' = "constraints" => pc = "constraints"
  /\ a' \in Fr
  => ColumnsInv'
<1> SUFFICES ASSUME ColumnsInv, UNCHANGED <<cm1_n, cm1_coefs, cm1_2ns>>,
                    pc = "extend" => pc' = "extend", pc' = "constraints" => pc = "constraints",
                    a' \in Fr
             PROVE  ColumnsInv'
  OBVIOUS
<1>1. cm1_n' = cm1_n /\ cm1_coefs' = cm1_coefs /\ cm1_2ns' = cm1_2ns
  OBVIOUS
<1>2. ASSUME NEW c \in Columns, Interpolated(c), Short(c)
      PROVE  Interpolated(c)' /\ Short(c)'
  BY <1>1, <1>2 DEF Interpolated, Short
<1>3. pc' # "extend" => \A c \in Columns : Interpolated(c)' /\ Short(c)'
  BY <1>2 DEF ColumnsInv
<1>4. pc' = "constraints" =>
        \A c \in Columns, row \in 0..(NExt - 1) :
          cm1_2ns'[row][c] = evaluateAt(column(cm1_coefs', c), power(rootOfUnity(NExt), row))
  BY <1>1 DEF ColumnsInv
<1> QED
  BY <1>1, <1>3, <1>4 DEF ColumnsInv

\* What is divided are the values of the constraints in the extended domain.
ConstraintsInv ==
  pc = "divide" =>
    /\ q_2ns \in [0..(NExt - 1) -> Fr]
    /\ \A row \in 0..(NExt - 1) : q_2ns[row] = Equation(power(rootOfUnity(NExt), row))
IInv == ColumnsInv /\ ConstraintsInv /\ QuotientOfTheConstraints

\* The row that is next in the domain is where the root of unity is multiplied to
\* the row's point.
LEMMA NextRow ==
  ASSUME NEW row \in 0..(NExt - 1)
  PROVE  /\ nextRow(row) \in 0..(NExt - 1)
         /\ power(rootOfUnity(NExt), row) \in Fr
         /\ power(rootOfUnity(NExt), nextRow(row))
              = mul(power(rootOfUnity(NExt), row), rootOfUnity(N))
<1> DEFINE W == rootOfUnity(NExt)
           d == 2^extendBitsTotal
           w == rootOfUnity(N)
<1>1. /\ N \in Nat \ {0} /\ NExt \in Nat \ {0} /\ d \in Nat \ {0} /\ NExt = N * d
      /\ w = power(W, d) /\ row \in Nat
  BY Sizes
<1>2. PICK n : IsRoot(W, NExt, n)
  BY Sizes
<1>3. W \in Fr /\ power(W, NExt) = 1
  <2>1. power(W, NExt) = 1
    BY <1>2, RootPowers
  <2> QED
    BY <1>2, <2>1, RootPowers
<1>4. nextRow(row) = (row + d) % NExt
  BY DEF nextRow
<1> HIDE DEF W, w, d
<1>5. d <= NExt
  <2>1. \A s, t \in Nat \ {0} : t <= s * t
    OBVIOUS
  <2>2. d <= N * d
    BY <1>1, <2>1
  <2> QED
    BY <1>1, <2>2
<1>6. \A k \in Nat : power(W, k) \in Fr
  BY <1>3, PowerType
<1>7. power(W, row + d) = mul(power(W, row), w)
  BY <1>1, <1>3, PowerOfSum
<1>8. CASE row + d < NExt
  <2>1. (row + d) % NExt = row + d
    BY <1>1, <1>8
  <2> QED
    BY <1>1, <1>4, <1>6, <1>7, <1>8, <2>1 DEF W, w
<1>9. CASE ~(row + d < NExt)
  <2> DEFINE k == (row + d) - NExt
  <2>1. k \in 0..(NExt - 1) /\ k \in Nat /\ row + d = k + NExt
    BY <1>1, <1>5, <1>9
  <2>2. (row + d) % NExt = k
    BY <1>1, <2>1
  <2> HIDE DEF k
  <2>3. power(W, k + NExt) = mul(power(W, k), power(W, NExt))
    BY <1>1, <1>3, <2>1, PowerOfSum
  <2>4. mul(power(W, k), 1) = power(W, k)
    BY <1>6, <2>1, ZeroLaws
  <2>5. power(W, k) = mul(power(W, row), w)
    BY <1>3, <1>7, <2>1, <2>3, <2>4
  <2> QED
    BY <1>1, <1>4, <1>6, <2>1, <2>2, <2>5 DEF W, w
<1> QED
  BY <1>8, <1>9

\* It depends on the columns, the witness and the challenge only.
LEMMA SameEquation ==
  ASSUME UNCHANGED <<cm1_n, cm1_coefs, a>>
  PROVE  \A x : Equation(x)' = Equation(x)
<1>1. \A x : At(x)' = At(x)
  BY DEF At
<1>2. publics' = publics
  BY DEF publics
<1> QED
  BY <1>1, <1>2 DEF Equation, combined, constraints

\* The rows that the constraints are computed from are the values of the columns
\* and of the constants in the row's point.
LEMMA CalculateConstraintsInv ==
  ColumnsInv /\ CalculateQ => ConstraintsInv'
<1> SUFFICES ASSUME ColumnsInv, CalculateQ
             PROVE  ConstraintsInv'
  OBVIOUS
<1>1. /\ pc = "constraints" /\ cm1_n' = cm1_n /\ cm1_coefs' = cm1_coefs /\ a' = a
      /\ cm1_n \in Matrix(N) /\ cm1_coefs \in Matrix(NCoefs) /\ a \in Fr
      /\ q_2ns' = [row \in 0..(NExt - 1) |->
           combined(constraints(cm1_2ns[row], cm1_2ns[nextRow(row)],
                                const_2ns.L1[row], const_2ns.LLAST[row]))]
      /\ 0 \in Columns /\ 1 \in Columns
  BY Degrees DEF CalculateQ, ColumnsInv
<1>2. \A c \in Columns, row \in 0..(NExt - 1) :
        cm1_2ns[row][c] = evaluateAt(column(cm1_coefs, c), power(rootOfUnity(NExt), row))
  BY <1>1 DEF ColumnsInv
<1>3. ASSUME NEW row \in 0..(NExt - 1)
      PROVE  /\ q_2ns'[row] = Equation(power(rootOfUnity(NExt), row))
             /\ q_2ns'[row] \in Fr
  <2> DEFINE x == power(rootOfUnity(NExt), row)
             y == mul(x, rootOfUnity(N))
             r == cm1_2ns[row]
             s == cm1_2ns[nextRow(row)]
             l1 == evaluateAt(const_coefs.L1, x)
             ll == evaluateAt(const_coefs.LLAST, x)
  <2>1. x \in Fr /\ nextRow(row) \in 0..(NExt - 1) /\ power(rootOfUnity(NExt), nextRow(row)) = y
    BY NextRow
  <2>2. \A c \in Columns : r[c] = At(x)[c] /\ s[c] = At(y)[c]
    BY <1>2, <2>1 DEF At
  <2>3. const_2ns.L1[row] = l1 /\ const_2ns.LLAST[row] = ll
    BY DEF const_2ns, NTT
  <2>4. r[0] = At(x)[0] /\ r[1] = At(x)[1] /\ s[0] = At(y)[0] /\ s[1] = At(y)[1]
    BY <1>1, <2>2
  <2>5. q_2ns'[row] = combined(constraints(r, s, l1, ll))
    BY <1>1, <2>3
  <2>6. Equation(x) = combined(constraints(At(x), At(y), l1, ll))
    BY DEF Equation
  <2> HIDE DEF x, y, r, s, l1, ll
  <2>7. constraints(r, s, l1, ll) = constraints(At(x), At(y), l1, ll)
    BY <2>4 DEF constraints
  <2>8. Equation(x) \in Fr
    <3>1. [z \in Fr |-> Equation(z)] \in Polynomial((Bound + Bound) + N)
      BY <1>1, EquationIsPolynomial DEF ColumnsInv
    <3>2. [z \in Fr |-> Equation(z)] \in [Fr -> Fr]
      BY <3>1 DEF Polynomial
    <3> QED
      BY <2>1, <3>2
  <2> QED
    BY <2>5, <2>6, <2>7, <2>8 DEF x
<1>4. \A x : Equation(x)' = Equation(x)
  BY <1>1, SameEquation
<1>5. q_2ns' \in [0..(NExt - 1) -> Fr]
  BY <1>1, <1>3
<1> QED
  BY <1>3, <1>4, <1>5 DEF ConstraintsInv

\* The quotient is that of the constraints.
LEMMA DivideQuotient ==
  ColumnsInv /\ ConstraintsInv /\ DivideByZh => QuotientOfTheConstraints'
<1> SUFFICES ASSUME ColumnsInv, ConstraintsInv, DivideByZh, OfTheCircuit(cm1_n)
             PROVE  QuotientOfTheConstraints'
  BY DEF DivideByZh, QuotientOfTheConstraints, OfTheCircuit
<1> DEFINE dividend == INTT(q_2ns, NExt)
           quotient == divZh(dividend, N)
<1>1. /\ pc = "divide" /\ cm1_n' = cm1_n /\ cm1_coefs' = cm1_coefs /\ a' = a
      /\ cm1_n \in Matrix(N) /\ cm1_coefs \in Matrix(NCoefs) /\ a \in Fr
      /\ \A c \in Columns : Interpolated(c) /\ Short(c)
  BY DEF DivideByZh, ColumnsInv
<1>2. /\ q_2ns \in [0..(NExt - 1) -> Fr]
      /\ \A row \in 0..(NExt - 1) : q_2ns[row] = Equation(power(rootOfUnity(NExt), row))
  BY <1>1 DEF ConstraintsInv
<1>3. /\ ~(fixDegreeFrom(quotient, getDegree(dividend)) > domainSizeQ)
      /\ \A x \in Fr :
           mul(evaluateAt([e \in 0..(domainSizeQ - 1) |-> coef(quotient, e)], x),
               sub(power(x, N), 1)) = Equation(x)
  BY <1>1, <1>2, Divides
<1>4. IF fixDegreeFrom(quotient, getDegree(dividend)) > domainSizeQ
      THEN pc' = "error" /\ UNCHANGED Q
      ELSE pc' = "done" /\ Q' = [e \in 0..(domainSizeQ - 1) |-> coef(quotient, e)]
  BY DEF DivideByZh
<1>5. pc' = "done" /\ Q' = [e \in 0..(domainSizeQ - 1) |-> coef(quotient, e)]
  BY <1>3, <1>4
<1> HIDE DEF quotient, dividend
<1>6. \A x : Equation(x)' = Equation(x)
  BY <1>1, SameEquation
<1>7. \A x \in Fr : mul(evaluateAt(Q', x), sub(power(x, N), 1)) = Equation(x)'
  BY <1>3, <1>5, <1>6
<1> QED
  BY <1>5, <1>7 DEF QuotientOfTheConstraints, Equation, At

-----------------------------------------------------------------------------
\* The coefficients of the columns are those of polynomials that agree with the
\* witness, whatever is drawn and whatever the buffers held before, and what is
\* divided are the values of the constraints.
THEOREM Invariant == Spec => []IInv
<1>1. Init => IInv
  <2>1. Init => pc = "extend"
    BY DEF Init
  <2> QED
    BY <2>1, InitColumnsInv DEF IInv, ConstraintsInv, QuotientOfTheConstraints
<1>2. IInv /\ [Next]_vars => IInv'
  <2> SUFFICES ASSUME IInv, [Next]_vars
               PROVE  IInv'
    OBVIOUS
  <2>1. ColumnsInv /\ ConstraintsInv /\ QuotientOfTheConstraints
    BY DEF IInv
  <2>2. ASSUME pc' \notin {"divide", "done", "error"}
        PROVE  ConstraintsInv' /\ QuotientOfTheConstraints'
    BY <2>2 DEF ConstraintsInv, QuotientOfTheConstraints
  <2>3. CASE Interpolate
    <3>1. pc' = "blind"
      BY <2>3 DEF Interpolate
    <3> QED
      BY <2>1, <2>2, <2>3, <3>1, InterpolateColumnsInv DEF IInv
  <2>4. CASE BlindColumn
    <3>1. pc' = "blind"
      BY <2>4 DEF BlindColumn
    <3> QED
      BY <2>1, <2>2, <2>4, <3>1, BlindColumnsInv DEF IInv
  <2>5. CASE ExtendColumns
    <3>1. pc' = "constraints"
      BY <2>5 DEF ExtendColumns
    <3> QED
      BY <2>1, <2>2, <2>5, <3>1, ExtendColumnsInv DEF IInv
  <2>6. CASE DrawChallenge
    <3>1. pc = "constraints" /\ pc' = "constraints" /\ UNCHANGED <<cm1_n, cm1_coefs, cm1_2ns>>
          /\ a' \in Fr
      BY <2>6, BlindedQuotientAssumption DEF DrawChallenge
    <3> QED
      BY <2>1, <2>2, <3>1, UnchangedColumnsInv DEF IInv
  <2>7. CASE CalculateQ
    <3>1. /\ pc = "constraints" /\ pc' = "divide" /\ UNCHANGED <<cm1_n, cm1_coefs, cm1_2ns>>
          /\ a' = a
      BY <2>7 DEF CalculateQ
    <3>2. ColumnsInv'
      BY <2>1, <3>1, UnchangedColumnsInv DEF ColumnsInv
    <3>3. QuotientOfTheConstraints'
      BY <3>1 DEF QuotientOfTheConstraints
    <3> QED
      BY <2>1, <2>7, <3>2, <3>3, CalculateConstraintsInv DEF IInv
  <2>8. CASE DivideByZh
    <3>1. /\ pc = "divide" /\ pc' \in {"error", "done"} /\ UNCHANGED <<cm1_n, cm1_coefs, cm1_2ns>>
          /\ a' = a
      BY <2>8 DEF DivideByZh
    <3>2. ColumnsInv'
      BY <2>1, <3>1, UnchangedColumnsInv DEF ColumnsInv
    <3>3. ConstraintsInv'
      BY <3>1 DEF ConstraintsInv
    <3> QED
      BY <2>1, <2>8, <3>2, <3>3, DivideQuotient DEF IInv
  <2>9. CASE Ended \/ UNCHANGED vars
    <3>1. UNCHANGED vars
      BY <2>9 DEF Ended
    <3>2. ColumnsInv'
      BY <2>1, <3>1, UnchangedColumnsInv DEF ColumnsInv, vars
    <3>3. ConstraintsInv'
      <4>1. pc' = pc /\ q_2ns' = q_2ns /\ \A x : Equation(x)' = Equation(x)
        BY <3>1, SameEquation DEF vars
      <4> QED
        BY <2>1, <4>1 DEF ConstraintsInv
    <3>4. QuotientOfTheConstraints'
      BY <2>1, <3>1 DEF QuotientOfTheConstraints, OfTheCircuit, constraints, combined, publics, vars
    <3> QED
      BY <3>2, <3>3, <3>4 DEF IInv
  <2> QED
    BY <2>3, <2>4, <2>5, <2>6, <2>7, <2>8, <2>9 DEF Next
<1> QED
  BY <1>1, <1>2, PTL DEF Spec

\* The committed polynomials and their extension agree with the witness in every
\* row of the domain, for every field, key and witness.
THEOREM Extends == Spec => []ExtendsTheWitness
<1>1. IInv => ExtendsTheWitness
  <2> SUFFICES ASSUME IInv, pc = "constraints", NEW c \in Columns
               PROVE  /\ \A row \in 0..(N - 1) :
                           cm1_2ns[row * 2^extendBitsTotal][c] = cm1_n[row][c]
                      /\ \A row \in 0..(NExt - 1) :
                           cm1_2ns[row][c] =
                             evaluateAt(column(cm1_coefs, c), power(rootOfUnity(NExt), row))
    BY DEF ExtendsTheWitness
  <2> DEFINE w == rootOfUnity(NExt)
             d == 2^extendBitsTotal
             p == column(cm1_coefs, c)
  <2>1. \A row \in 0..(NExt - 1) : cm1_2ns[row][c] = evaluateAt(p, power(w, row))
    BY DEF IInv, ColumnsInv
  <2>2. \A row \in 0..(N - 1) : evaluateAt(p, power(rootOfUnity(N), row)) = cm1_n[row][c]
    BY DEF IInv, ColumnsInv, Interpolated
  <2>3. /\ N \in Nat \ {0} /\ NExt \in Nat \ {0} /\ d \in Nat \ {0} /\ NExt = N * d
        /\ rootOfUnity(N) = power(w, d)
    BY Sizes
  <2>4. PICK n : IsRoot(w, NExt, n)
    BY Sizes
  <2>5. w \in Fr
    BY <2>4, RootPowers
  <2> HIDE DEF w, d, p
  <2>6. ASSUME NEW row \in 0..(N - 1)
        PROVE  cm1_2ns[row * d][c] = cm1_n[row][c]
    <3>1. row * d \in 0..(NExt - 1) /\ row \in Nat /\ d * row = row * d
      <4>1. \A u, v, z \in Nat : u <= v - 1 /\ z # 0 => u * z \in Nat /\ u * z <= v * z - 1 /\ z * u = u * z
        <5>1. ASSUME NEW u \in Nat, NEW v \in Nat, NEW z \in Nat, u <= v - 1, z # 0
              PROVE  u * z \in Nat /\ u * z <= v * z - 1 /\ z * u = u * z
          <6>1. v * z = u * z + (v - u) * z /\ u * z \in Nat /\ z * u = u * z
            BY <5>1
          <6>2. (v - u) * z >= 1
            BY <5>1
          <6> QED
            BY <5>1, <6>1, <6>2
        <5> QED
          BY <5>1
      <4>2. row \in Nat /\ row <= N - 1 /\ N \in Nat /\ d \in Nat /\ d # 0
        BY <2>3
      <4>3. row * d \in Nat /\ row * d <= N * d - 1 /\ d * row = row * d
        BY <4>1, <4>2
      <4> QED
        BY <2>3, <4>2, <4>3
    <3>2. power(w, d * row) = power(power(w, d), row)
      BY <2>3, <2>5, <3>1, PowerOfPower
    <3> QED
      BY <2>1, <2>2, <2>3, <3>1, <3>2
  <2> QED
    BY <2>1, <2>6 DEF w, d, p
<1> QED
  BY Invariant, <1>1, PTL

\* The committed quotient times X^N - 1 is the polynomial of the constraints,
\* and the prover does not refuse it, for every field, key and witness of the
\* circuit.
THEOREM Quotient == Spec => []QuotientOfTheConstraints
<1>1. IInv => QuotientOfTheConstraints
  BY DEF IInv
<1> QED
  BY Invariant, <1>1, PTL

-----------------------------------------------------------------------------
\* What the random coefficients hide.

\* The blinded polynomial takes the values that are wanted of it, where X^N - 1 is
\* not zero, and its own where it is.
IsWanted(wanted, values, p, points) ==
  wanted = [j \in DOMAIN points |->
    mul(sub(values[j], evaluateAt(p, points[j])), inv(sub(power(points[j], N), 1)))]

\* One random coefficient for each value is enough.
LEMMA HiddenValues ==
  ASSUME NEW k \in Nat \ {0}, N + k <= NCoefs, NEW p \in [0..(NCoefs - 1) -> Fr],
         NEW points \in [1..k -> Fr], IsInjective(points),
         \A j \in 1..k : power(points[j], N) # 1,
         NEW values \in [1..k -> Fr], NEW wanted, IsWanted(wanted, values, p, points),
         NEW r, r = [e \in 0..(k - 1) |-> coef(lagrangePolynomialInterpolation(points, wanted), e)]
  PROVE  /\ \A j \in 1..k : evaluateAt(blinded(p, r), points[j]) = values[j]
         /\ \A z \in Fr : power(z, N) = 1 => evaluateAt(blinded(p, r), z) = evaluateAt(p, z)
<1> DEFINE bs == lagrangePolynomialInterpolation(points, wanted)
<1>1. /\ N \in Nat /\ NCoefs \in Nat /\ k \in Nat /\ k - 1 \in Nat /\ 1 \in Fr /\ P - 1 \in Fr
      /\ \A j \in 1..k : points[j] \in Fr /\ values[j] \in Fr /\ power(points[j], N) \in Fr
                         /\ evaluateAt(p, points[j]) \in Fr
  <2>1. N \in Nat /\ NCoefs \in Nat
    BY Sizes
  <2>2. \A j \in 1..k : points[j] \in Fr /\ values[j] \in Fr
    OBVIOUS
  <2>3. \A j \in 1..k : power(points[j], N) \in Fr
    BY <2>1, <2>2, PowerType
  <2>4. \A j \in 1..k : evaluateAt(p, points[j]) \in Fr
    BY <2>1, <2>2, EvaluateType
  <2>5. k \in Nat /\ k - 1 \in Nat
    OBVIOUS
  <2>6. 1 \in Fr /\ P - 1 \in Fr
    BY <2>1, PIsNat, MinusOne
  <2> QED
    BY <2>1, <2>2, <2>3, <2>4, <2>5, <2>6
<1>2. \A j \in 1..k :
        /\ sub(power(points[j], N), 1) \in Fr \ {0}
        /\ inv(sub(power(points[j], N), 1)) \in Fr
        /\ sub(values[j], evaluateAt(p, points[j])) \in Fr
        /\ wanted[j] = mul(sub(values[j], evaluateAt(p, points[j])), inv(sub(power(points[j], N), 1)))
  <2>1. ASSUME NEW j \in 1..k
        PROVE  sub(power(points[j], N), 1) \in Fr \ {0}
    <3>1. power(points[j], N) \in Fr /\ power(points[j], N) # 1
      BY <1>1
    <3> QED
      BY <1>1, <3>1, Operations, SubLaws
  <2>2. \A j \in 1..k : inv(sub(power(points[j], N), 1)) \in Fr
    BY <2>1, HasInverse
  <2>3. \A j \in 1..k : sub(values[j], evaluateAt(p, points[j])) \in Fr
    BY <1>1, Operations
  <2>4. \A j \in 1..k :
        wanted[j] = mul(sub(values[j], evaluateAt(p, points[j])), inv(sub(power(points[j], N), 1)))
    BY DEF IsWanted
  <2> QED
    BY <2>1, <2>2, <2>3, <2>4
<1>3. wanted \in [1..k -> Fr]
  <2>1. \A j \in 1..k : wanted[j] \in Fr
    BY <1>2, Operations
  <2>2. wanted = [j \in 1..k |-> wanted[j]]
    BY DEF IsWanted
  <2> QED
    BY <2>1, <2>2
<1>4. bs \in polys /\ getDegree(bs) \in 0..(k - 1)
  BY <1>3, Interpolates
<1>5. \A j \in 1..k : evaluateAt(bs, points[j]) = wanted[j]
  BY <1>3, Interpolates
<1>6. r = [e \in 0..(k - 1) |-> coef(bs, e)]
  OBVIOUS
<1> HIDE DEF bs
<1>7. r \in [0..(k - 1) -> Fr] /\ \A x \in Fr : evaluateAt(r, x) = evaluateAt(bs, x)
  <2>1. getDegree(bs) <= k - 1
    BY <1>1, <1>4
  <2>2. 0 \in Fr
    BY PIsNat
  <2> QED
    BY <1>1, <1>4, <1>6, <2>1, <2>2, EvaluateCoefs
<1>8. \A x \in Fr :
        /\ blinded(p, r) \in [0..(NCoefs - 1) -> Fr]
        /\ add(evaluateAt(blinded(p, r), x), evaluateAt(r, x))
             = add(evaluateAt(p, x), mul(power(x, N), evaluateAt(r, x)))
  BY <1>1, <1>7, EvaluateBlinded
<1>9. \A x \in Fr : /\ evaluateAt(blinded(p, r), x) \in Fr /\ evaluateAt(r, x) \in Fr
                    /\ evaluateAt(p, x) \in Fr /\ power(x, N) \in Fr
  BY <1>1, <1>7, <1>8, EvaluateType, PowerType
<1>10. \A u \in Fr, v \in Fr, t \in Fr : add(u, t) = add(v, t) => u = v
  <2>1. \A u \in Fr, t \in Fr : sub(add(u, t), t) = u
    BY SubLaws
  <2> QED
    BY <2>1
<1>11. ASSUME NEW z \in Fr, power(z, N) = 1
       PROVE  evaluateAt(blinded(p, r), z) = evaluateAt(p, z)
  <2>1. mul(1, evaluateAt(r, z)) = evaluateAt(r, z)
    BY <1>1, <1>9, MulLaws
  <2>2. add(evaluateAt(blinded(p, r), z), evaluateAt(r, z)) = add(evaluateAt(p, z), evaluateAt(r, z))
    BY <1>8, <1>11, <2>1
  <2> QED
    BY <1>9, <1>10, <2>2
<1>12. ASSUME NEW j \in 1..k
       PROVE  evaluateAt(blinded(p, r), points[j]) = values[j]
  <2> DEFINE x == points[j]
             B == evaluateAt(blinded(p, r), x)
             u == evaluateAt(p, x)
             t == wanted[j]
             z == power(x, N)
             d == sub(z, 1)
  <2>1. evaluateAt(r, x) = t
    BY <1>1, <1>5, <1>7
  <2>2. add(B, t) = add(u, mul(z, t))
    BY <1>1, <1>8, <2>1
  <2>3. x \in Fr /\ B \in Fr /\ u \in Fr /\ t \in Fr /\ z \in Fr /\ values[j] \in Fr /\ d \in Fr \ {0}
        /\ inv(d) \in Fr /\ sub(values[j], u) \in Fr
    BY <1>1, <1>2, <1>3, <1>9
  <2>4. t = mul(sub(values[j], u), inv(d))
    BY <1>2
  <2> HIDE DEF x, B, u, t, d
  <2>5. mul(d, t) = sub(values[j], u)
    <3>1. mul(t, d) = mul(sub(values[j], u), mul(inv(d), d))
      BY <2>3, <2>4, MulLaws
    <3>2. mul(inv(d), d) = 1
      BY <2>3, HasInverse, MulLaws
    <3>3. mul(t, d) = sub(values[j], u)
      BY <2>3, <3>1, <3>2, ZeroLaws
    <3> QED
      BY <2>3, <3>3, MulLaws
  <2>6. add(mul(d, t), t) = mul(z, t)
    <3>1. z = add(d, 1)
      BY <1>1, <2>3, SubLaws DEF d
    <3>2. mul(t, add(d, 1)) = add(mul(t, d), mul(t, 1))
      BY <1>1, <2>3, Distributive
    <3>3. mul(t, 1) = t /\ mul(t, d) = mul(d, t) /\ mul(t, z) = mul(z, t)
      BY <2>3, ZeroLaws, MulLaws
    <3> QED
      BY <3>1, <3>2, <3>3
  <2>7. add(u, add(sub(values[j], u), t)) = add(values[j], t)
    <3>1. add(u, add(sub(values[j], u), t)) = add(add(u, sub(values[j], u)), t)
      BY <2>3, AddLaws
    <3>2. add(u, sub(values[j], u)) = add(sub(values[j], u), u)
      BY <2>3, AddLaws
    <3>3. add(sub(values[j], u), u) = values[j]
      BY <2>3, SubLaws
    <3> QED
      BY <3>1, <3>2, <3>3
  <2>8. add(B, t) = add(values[j], t)
    BY <2>2, <2>5, <2>6, <2>7
  <2> QED
    BY <1>10, <2>3, <2>8 DEF B, x
<1> QED
  BY <1>11, <1>12

\* The points that a proof shows of a column are as many as its random
\* coefficients, and none of them is in the domain.
LEMMA ShownPoints ==
  ASSUME NEW c \in Columns, IsOpened(c), NEW x \in Fr \ H, NEW z \in Fr \ H
  PROVE  LET k == findNumberOpenings(names[c])
         IN  /\ k \in Nat \ {0} /\ N + k <= NCoefs
             /\ Shown(x, z, c) \in [1..k -> Fr]
             /\ \A j \in 1..k : power(Shown(x, z, c)[j], N) # 1
<1> DEFINE n == Len(OpeningsOf(c))
           w == rootOfUnity(N)
           k == findNumberOpenings(names[c])
<1>1. OpeningsOf(c) \in Seq(Nat) /\ k = n + 1
  <2> DEFINE g == CHOOSE j \in DOMAIN f : names[c] \in ToSet(f[j].pols)
  <2>1. g \in DOMAIN f
    BY DEF IsOpened
  <2>2. OpeningsOf(c) = f[g].openingPoints
    BY DEF OpeningsOf
  <2>3. k = Len(f[g].openingPoints) + 1
    BY DEF findNumberOpenings, IsOpened
  <2> HIDE DEF g, k
  <2>4. f[g].openingPoints \in Seq(Nat)
    BY <2>1, BlindedQuotientAssumption
  <2> QED
    BY <2>2, <2>3, <2>4
<1>2. n \in Nat /\ DOMAIN OpeningsOf(c) = 1..n /\ \A j \in 1..n : OpeningsOf(c)[j] \in Nat
  BY <1>1
<1>3. k \in 0..maxPolsOpenings /\ maxPolsOpenings \in Nat /\ NCoefs >= N + maxPolsOpenings
  BY BlindedQuotientAssumption
<1>4. N \in Nat /\ NCoefs \in Nat /\ IsRoot(w, N, nBits)
  BY Sizes
<1>5. w \in Fr /\ power(w, N) = 1
  BY <1>4, RootPowers
<1>6. H = Roots(w, N)
  BY DEF H, Roots
<1>7. ASSUME NEW u \in Fr \ H
      PROVE  power(u, N) # 1
  BY <1>4, <1>6, <1>7, NoOtherRoots
<1> HIDE DEF k, w
<1>8. k \in Nat \ {0} /\ N + k <= NCoefs
  <2>1. k \in Nat /\ k # 0 /\ k <= maxPolsOpenings
    BY <1>1, <1>2, <1>3
  <2> QED
    BY <1>3, <1>4, <2>1
<1> DEFINE o == OpeningsOf(c)
           s == [j \in DOMAIN o |-> mul(x, power(w, o[j]))]
<1>9. \A j \in 1..n : /\ o[j] \in Nat /\ power(w, o[j]) \in Fr /\ mul(x, power(w, o[j])) \in Fr
  <2>1. \A j \in 1..n : o[j] \in Nat
    BY <1>2
  <2>2. \A j \in 1..n : power(w, o[j]) \in Fr
    BY <1>5, <2>1, PowerType
  <2> QED
    BY <2>1, <2>2, Operations
<1>10. s \in Seq(Fr) /\ Len(s) = n /\ \A j \in 1..n : s[j] = mul(x, power(w, o[j]))
  <2>1. s = [j \in 1..n |-> mul(x, power(w, o[j]))]
    BY <1>2
  <2> QED
    BY <1>2, <1>9, <2>1
<1>11. Shown(x, z, c) = Append(s, z)
  BY DEF Shown, w
<1> HIDE DEF n
<1>12. /\ Shown(x, z, c) \in [1..k -> Fr]
       /\ Shown(x, z, c)[k] = z
       /\ \A j \in 1..n : Shown(x, z, c)[j] = mul(x, power(w, o[j]))
  <2> HIDE DEF s, o
  <2>1. Append(s, z) \in [1..(n + 1) -> Fr] /\ Append(s, z)[n + 1] = z
        /\ \A j \in 1..n : Append(s, z)[j] = s[j]
    <3>1. z \in Fr /\ s \in Seq(Fr) /\ Len(s) = n /\ n \in Nat
      BY <1>2, <1>10
    <3>2. Append(s, z) \in Seq(Fr) /\ Len(Append(s, z)) = n + 1
      BY <3>1
    <3>3. Append(s, z)[n + 1] = z
      BY <3>1
    <3>4. \A j \in 1..n : Append(s, z)[j] = s[j]
      BY <3>1
    <3>5. Append(s, z) \in [1..(n + 1) -> Fr]
      <4> DEFINE t == Append(s, z)
      <4>1. t \in Seq(Fr) /\ Len(t) = n + 1
        BY <3>2
      <4> HIDE DEF t
      <4>2. t \in [1..(n + 1) -> Fr]
        BY <4>1
      <4> QED
        BY <4>2 DEF t
    <3> QED
      BY <3>3, <3>4, <3>5
  <2> QED
    BY <1>1, <1>10, <1>11, <2>1 DEF n
<1>13. ASSUME NEW j \in 1..n
       PROVE  power(mul(x, power(w, o[j])), N) # 1
  <2> DEFINE e == o[j]
  <2>1. e \in Nat /\ power(w, e) \in Fr
    BY <1>9
  <2> HIDE DEF e, o
  <2>2. power(mul(x, power(w, e)), N) = mul(power(x, N), power(power(w, e), N))
    BY <1>4, <2>1, PowerOfProduct
  <2>3. power(power(w, e), N) = power(w, e * N) /\ power(w, N * e) = power(power(w, N), e) /\ e * N = N * e
    BY <1>4, <1>5, <2>1, PowerOfPower
  <2>4. power(power(w, e), N) = 1
    BY <1>5, <2>1, <2>3, PowerOfOne
  <2>5. power(x, N) \in Fr
    BY <1>4, PowerType
  <2> QED
    BY <1>7, <2>2, <2>4, <2>5, ZeroLaws DEF e
<1>14. ASSUME NEW j \in 1..k
       PROVE  power(Shown(x, z, c)[j], N) # 1
  <2>1. j \in 1..n \/ j = k
    BY <1>1, <1>2 DEF n
  <2> QED
    BY <1>7, <1>12, <1>13, <2>1
<1> QED
  BY <1>8, <1>12, <1>14 DEF k

\* Whatever a proof shows of a column could be of any other witness.
THEOREM Hides == Spec => []HidesTheWitness
<1>1. IInv => HidesTheWitness
  <2> SUFFICES ASSUME IInv, pc = "constraints", NEW c \in Columns, NEW other \in Witnesses,
                      NEW x \in Challenges \ H, NEW z \in Challenges \ H,
                      IsOpened(c), IsInjective(Shown(x, z, c))
               PROVE  LET points == Shown(x, z, c)
                          p == [e \in 0..(NCoefs - 1) |-> coef(INTT(column(other, c), N), e)]
                          values == [k \in DOMAIN points |-> evaluateAt(column(cm1_coefs, c), points[k])]
                          wanted == [k \in DOMAIN points |->
                            mul(sub(values[k], evaluateAt(p, points[k])), inv(sub(power(points[k], N), 1)))]
                          bs == lagrangePolynomialInterpolation(points, wanted)
                          hidden == blinded(p, [e \in 0..(findNumberOpenings(names[c]) - 1) |-> coef(bs, e)])
                      IN  /\ \A k \in DOMAIN points : evaluateAt(hidden, points[k]) = values[k]
                          /\ \A row \in 0..(N - 1) :
                               evaluateAt(hidden, power(rootOfUnity(N), row)) = other[row][c]
    BY DEF HidesTheWitness
  <2> DEFINE points == Shown(x, z, c)
             n == findNumberOpenings(names[c])
             v == INTT(column(other, c), N)
             p == [e \in 0..(NCoefs - 1) |-> coef(v, e)]
             values == [k \in DOMAIN points |-> evaluateAt(column(cm1_coefs, c), points[k])]
             wanted == [k \in DOMAIN points |->
               mul(sub(values[k], evaluateAt(p, points[k])), inv(sub(power(points[k], N), 1)))]
             bs == lagrangePolynomialInterpolation(points, wanted)
             r == [e \in 0..(n - 1) |-> coef(bs, e)]
             w == rootOfUnity(N)
  <2>1. x \in Fr \ H /\ z \in Fr \ H
    BY BlindedQuotientAssumption
  <2>2. /\ n \in Nat \ {0} /\ N + n <= NCoefs /\ points \in [1..n -> Fr]
        /\ \A j \in 1..n : power(points[j], N) # 1
    BY <2>1, ShownPoints
  <2>3. /\ N \in Nat \ {0} /\ NCoefs \in Nat \ {0} /\ N <= NCoefs /\ IsRoot(w, N, nBits)
    BY Sizes
  <2>4. cm1_coefs \in Matrix(NCoefs) /\ other \in Matrix(N)
    BY BlindedQuotientAssumption DEF IInv, ColumnsInv
  <2>5. column(cm1_coefs, c) \in [0..(NCoefs - 1) -> Fr]
    BY <2>3, <2>4, ColumnType
  <2>6. column(other, c) \in [0..(N - 1) -> Fr] /\ \A row \in 0..(N - 1) : column(other, c)[row] = other[row][c]
    BY <2>3, <2>4, ColumnType
  <2>7. v \in [0..(N - 1) -> Fr]
    BY <2>3, <2>6, InverseType
  <2>8. \A row \in 0..(N - 1) : evaluateAt(v, power(w, row)) = other[row][c]
    BY <2>3, <2>6, InverseTransform
  <2> HIDE DEF v, w, points, n
  <2>9. p \in [0..(NCoefs - 1) -> Fr] /\ IsWider(p, v, N, NCoefs)
    <3>1. \A e \in 0..(NCoefs - 1) : coef(v, e) = IF e < N THEN v[e] ELSE 0
      BY <2>3, <2>7 DEF coef
    <3>2. \A e \in 0..(NCoefs - 1) : coef(v, e) \in Fr
      BY <2>3, <2>7, <3>1, PIsNat
    <3>3. p = [e \in 0..(NCoefs - 1) |-> IF e < N THEN v[e] ELSE 0]
      BY <3>1
    <3>4. p \in [0..(NCoefs - 1) -> Fr]
      BY <3>2
    <3> HIDE DEF p
    <3> QED
      BY <3>3, <3>4 DEF IsWider
  <2> HIDE DEF p
  <2>10. \A u \in Fr : evaluateAt(p, u) = evaluateAt(v, u)
    BY <2>3, <2>7, <2>9, EvaluateWider
  <2>11. values \in [1..n -> Fr]
    <3>1. \A k \in 1..n : evaluateAt(column(cm1_coefs, c), points[k]) \in Fr
      BY <2>2, <2>3, <2>5, EvaluateType
    <3> QED
      BY <2>2, <3>1
  <2> HIDE DEF values
  <2>12. IsWanted(wanted, values, p, points)
    BY DEF IsWanted
  <2> HIDE DEF wanted
  <2>13. IsInjective(points)
    BY DEF points
  <2>20. r = [e \in 0..(n - 1) |-> coef(lagrangePolynomialInterpolation(points, wanted), e)]
    OBVIOUS
  <2> HIDE DEF bs, r
  <2>14. /\ \A j \in 1..n : evaluateAt(blinded(p, r), points[j]) = values[j]
         /\ \A u \in Fr : power(u, N) = 1 => evaluateAt(blinded(p, r), u) = evaluateAt(p, u)
    BY <2>2, <2>9, <2>11, <2>12, <2>13, <2>20, HiddenValues
  <2>15. ASSUME NEW row \in 0..(N - 1)
         PROVE  evaluateAt(blinded(p, r), power(w, row)) = other[row][c]
    <3>1. w \in Fr /\ power(w, N) = 1 /\ row \in Nat
      BY <2>3, RootPowers
    <3>2. power(w, row) \in Fr
      BY <3>1, PowerType
    <3>3. power(power(w, row), N) = 1
      <4>1. power(w, row * N) = power(power(w, row), N) /\ power(w, N * row) = power(power(w, N), row)
            /\ row * N = N * row
        BY <2>3, <3>1, PowerOfPower
      <4> QED
        BY <3>1, <4>1, PowerOfOne
    <3> QED
      BY <2>8, <2>10, <2>14, <3>2, <3>3
  <2>16. \A k \in DOMAIN points : evaluateAt(blinded(p, r), points[k]) = values[k]
    BY <2>2, <2>14
  <2> QED
    BY <2>15, <2>16 DEF points, n, v, p, values, wanted, bs, r, w
<1> QED
  BY Invariant, <1>1, PTL
=============================================================================
