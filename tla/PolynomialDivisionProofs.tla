---------------------- MODULE PolynomialDivisionProofs ----------------------
(***************************************************************************)
(* For every n, beta, polynomial, number of threads and order of them:     *)
(* when the threads of divZh and divByZerofier share the places of a       *)
(* chunk, they do not meet, and together they make the quotient of a       *)
(* polynomial that is divisible.                                           *)
(***************************************************************************)
EXTENDS PolynomialDivision, TLAPS

\* The types of a call, and what is known of it.
CallInv ==
  /\ call \in [function : Divisions, n : Divisors, beta : Fr \ {0}, length : Lengths,
               maxThreads : MaxThreads, extension : UNION {1..l : l \in Lengths}]
  /\ call.length >= n
  /\ Zh => /\ call.length % n = 0 /\ n % nThreads = 0
           /\ call.extension \in {1, call.length \div n}
  /\ original \in [0..(call.length - 1) -> Fr]
  /\ degree \in 0..(call.length - 1) /\ IsDegree(degree)

-----------------------------------------------------------------------------
\* The integer quotient and its rest.
LEMMA Quotient ==
  ASSUME NEW a \in Nat, NEW b \in Nat \ {0}
  PROVE  a \div b \in Nat /\ a % b \in 0..(b - 1) /\ a = b * (a \div b) + (a % b)
<1>1. a \div b \in Int /\ a % b \in 0..(b - 1) /\ a = b * (a \div b) + (a % b)
  OBVIOUS
<1>2. a \div b >= 0
  <2>1. CASE a \div b <= -1
    <3>1. b * (a \div b) <= b * (-1)
      BY <1>1, <2>1
    <3> QED
      BY <1>1, <3>1
  <2> QED
    BY <1>1, <2>1
<1> QED
  BY <1>1, <1>2

\* Multiples of m are ordered, and m apart.
LEMMA Multiples ==
  ASSUME NEW m \in Nat, NEW b \in Nat, NEW c \in Nat, b < c
  PROVE  /\ b * m \in Nat /\ c * m \in Nat
         /\ b * m + m <= c * m
<1>1. (c - (b + 1)) * m >= 0
  OBVIOUS
<1>2. (c - (b + 1)) * m = c * m - (b * m + m)
  OBVIOUS
<1>3. b * m \in Nat /\ c * m \in Nat
  OBVIOUS
<1> QED
  BY <1>1, <1>2, <1>3

\* A number is x + b * m with x < m in one way.
LEMMA Digits ==
  ASSUME NEW m \in Nat \ {0}, NEW b \in Nat, NEW c \in Nat,
         NEW x \in 0..(m - 1), NEW y \in 0..(m - 1), x + b * m = y + c * m
  PROVE  b = c /\ x = y
<1>1. ASSUME b < c PROVE FALSE
  <2>1. b * m + m <= c * m /\ b * m \in Nat /\ c * m \in Nat
    BY <1>1, Multiples
  <2> QED
    BY <2>1
<1>2. ASSUME c < b PROVE FALSE
  <2>1. c * m + m <= b * m /\ b * m \in Nat /\ c * m \in Nat
    BY <1>2, Multiples
  <2> QED
    BY <2>1
<1>3. b = c
  BY <1>1, <1>2
<1>4. b * m \in Int
  OBVIOUS
<1> QED
  BY <1>3, <1>4

\* So x is the rest of it, and b the quotient.
LEMMA Rest ==
  ASSUME NEW m \in Nat \ {0}, NEW b \in Nat, NEW x \in 0..(m - 1), NEW a \in Nat, a = x + b * m
  PROVE  a % m = x /\ a \div m = b
<1> DEFINE y == a % m
<1> DEFINE c == a \div m
<1>1. c \in Nat /\ y \in 0..(m - 1) /\ a = m * c + y
  BY Quotient
<1> HIDE DEF y, c
<1>2. m * c = c * m /\ c * m \in Int
  BY <1>1
<1>3. y + c * m = x + b * m
  BY <1>1, <1>2
<1>4. c = b /\ y = x
  BY <1>1, <1>3, Digits
<1> QED
  BY <1>4 DEF y, c

\* When the threads cover a chunk, one round is enough.
LEMMA OneRound ==
  ASSUME NEW m \in Nat \ {0}
  PROVE  (m + m - 1) \div m = 1
<1> DEFINE q == (m + m - 1) \div m
<1> DEFINE x == (m + m - 1) % m
<1>1. m + m - 1 \in Nat
  OBVIOUS
<1>2. q \in Nat /\ x \in 0..(m - 1) /\ m + m - 1 = m * q + x
  BY <1>1, Quotient
<1> HIDE DEF q, x
<1>3. m * q = q * m
  BY <1>2
<1>4. (m - 1) + 1 * m = x + q * m
  BY <1>2, <1>3
<1>5. 1 = q
  BY <1>2, <1>4, Digits
<1> QED
  BY <1>5 DEF q

\* Of k shares of E places that make up N, each place lies in the N.
LEMMA PlaceInChunk ==
  ASSUME NEW N \in Nat, NEW T \in Nat, NEW E \in Nat, N = T * E,
         NEW k \in 0..(T - 1), NEW x \in 0..(E - 1)
  PROVE  k * E + x \in 0..(N - 1)
<1>1. k * E + E <= T * E /\ k * E \in Nat
  BY Multiples
<1> QED
  BY <1>1

\* The number of OpenMP's threads, rounded down to a power of two, is positive.
LEMMA PowerOfTwo ==
  ASSUME NEW m \in 1..511
  PROVE  powerOfTwo(m) \in Nat \ {0}
<1>1. \E t \in PowersOfTwo : t <= m /\ m < 2 * t
  BY DEF PowersOfTwo
<1>2. powerOfTwo(m) \in PowersOfTwo
  BY <1>1 DEF powerOfTwo
<1> QED
  BY <1>2 DEF PowersOfTwo

-----------------------------------------------------------------------------
\* There is a thread, and a place for each.
LEMMA Threads ==
  ASSUME CallInv
  PROVE  /\ n \in Nat \ {0} /\ nThreads \in Nat \ {0} /\ nThreads <= n
         /\ nElementsThread \in Nat \ {0}
         /\ n % nThreads = 0 => n = nThreads * nElementsThread
<1>1. n \in Nat \ {0} /\ call.maxThreads \in 1..511
  BY DivisionAssumption DEF CallInv, n
<1>2. powerOfTwo(call.maxThreads) \in Nat \ {0}
  BY <1>1, PowerOfTwo
<1>3. nThreads \in Nat \ {0} /\ nThreads <= n
  BY <1>1, <1>2 DEF nThreads, least
<1>4. /\ n \div nThreads \in Nat /\ n % nThreads \in 0..(nThreads - 1)
      /\ n = nThreads * (n \div nThreads) + (n % nThreads)
  BY <1>1, <1>3, Quotient
<1>5. n \div nThreads # 0
  <2>1. CASE n \div nThreads = 0
    <3>1. nThreads * (n \div nThreads) = 0
      BY <1>3, <2>1
    <3> QED
      BY <1>1, <1>3, <1>4, <3>1
  <2> QED
    BY <2>1
<1>6. n % nThreads = 0 => n = nThreads * (n \div nThreads)
  <2> DEFINE product == nThreads * (n \div nThreads)
  <2>1. product \in Int
    BY <1>3, <1>4
  <2>2. n = product + (n % nThreads)
    BY <1>4
  <2> HIDE DEF product
  <2>3. n % nThreads = 0 => n = product
    BY <2>1, <2>2
  <2> QED
    BY <2>3 DEF product
<1> QED
  BY <1>1, <1>3, <1>4, <1>5, <1>6 DEF nElementsThread

\* Each thread of divByZerofier has its number in one round only.
LEMMA RoundOfThread ==
  ASSUME CallInv, ~Zh, NEW r \in Nat, NEW q \in Nat,
         NEW k \in ThreadsOf(r), k \in ThreadsOf(q)
  PROVE  r = q
<1>1. nThreads \in Nat \ {0} /\ n \in Nat
  BY Threads
<1>2. ASSUME NEW a \in Nat, k \in ThreadsOf(a)
      PROVE  k \in Int /\ a * nThreads <= k /\ k < (a + 1) * nThreads
  <2>1. a * nThreads \in Int /\ (a + 1) * nThreads \in Int
    BY <1>1
  <2>2. k \in (a * nThreads)..(least((a + 1) * nThreads, n) - 1)
    BY <1>2 DEF ThreadsOf
  <2>3. least((a + 1) * nThreads, n) \in Int
        /\ least((a + 1) * nThreads, n) <= (a + 1) * nThreads
    BY <1>1, <2>1 DEF least
  <2> QED
    BY <2>1, <2>2, <2>3
<1>3. ASSUME NEW a \in Nat, NEW b \in Nat, a < b, k \in ThreadsOf(a), k \in ThreadsOf(b)
      PROVE  FALSE
  <2>1. k \in Int /\ k < (a + 1) * nThreads /\ b * nThreads <= k
    BY <1>2, <1>3
  <2>2. a * nThreads + nThreads <= b * nThreads /\ a * nThreads \in Nat /\ b * nThreads \in Nat
    BY <1>1, <1>3, Multiples
  <2>3. (a + 1) * nThreads = a * nThreads + nThreads
    BY <1>1
  <2> QED
    BY <1>1, <2>1, <2>2, <2>3
<1> QED
  BY <1>3

\* When the threads share the places, an element lies in the share of its thread,
\* in some chunk: for divZh, that of the round.
LEMMA ElementPlace ==
  ASSUME CallInv, SharesThePlaces, NEW r \in 0..(Rounds - 1), NEW k \in ThreadsOf(r),
         NEW e \in Work(r, k), r \in Nat
  PROVE  /\ k \in Nat
         /\ \E c \in Nat, x \in 0..(nElementsThread - 1) :
              /\ idx0(r, k, e) = (k * nElementsThread + x) + c * n
              /\ idx1(r, k, e) = (k * nElementsThread + x) + (c + 1) * n
              /\ k * nElementsThread + x \in 0..(n - 1)
              /\ IF Zh THEN c = r /\ e = x + 1 ELSE e = x + 1 + c * nElementsThread
<1>1. /\ n \in Nat \ {0} /\ nThreads \in Nat \ {0} /\ nElementsThread \in Nat \ {0}
      /\ nThreads <= n
      /\ n % nThreads = 0 => n = nThreads * nElementsThread
  BY Threads
<1>2. ASSUME NEW c \in Nat, NEW x \in 0..(nElementsThread - 1), k \in Nat,
             idx0(r, k, e) = (k * nElementsThread + x) + c * n
      PROVE  idx1(r, k, e) = (k * nElementsThread + x) + (c + 1) * n
  <2>1. k * nElementsThread \in Int /\ c * n \in Int /\ (c + 1) * n = c * n + n
    BY <1>1, <1>2
  <2> QED
    BY <1>1, <1>2, <2>1 DEF idx1
<1>3. CASE Zh
  <2>1. k \in 0..(nThreads - 1)
    BY <1>3 DEF ThreadsOf
  <2>2. e \in 1..nElementsThread
    BY <1>3 DEF Work, Elements
  <2>3. e - 1 \in 0..(nElementsThread - 1)
    BY <1>1, <2>2
  <2>4. n = nThreads * nElementsThread
    BY <1>1, <1>3 DEF CallInv
  <2>5. k * nElementsThread + (e - 1) \in 0..(n - 1)
    BY <1>1, <2>1, <2>3, <2>4, PlaceInChunk
  <2>6. idx0(r, k, e) = (k * nElementsThread + (e - 1)) + r * n
    BY <1>3 DEF idx0
  <2>7. e = (e - 1) + 1 /\ k \in Nat
    BY <1>1, <2>1, <2>2
  <2> QED
    BY <1>2, <1>3, <2>3, <2>5, <2>6, <2>7
<1>4. CASE ~Zh
  <2>1. e \in 1..(nElementsThread * (nChunks - 1))
    BY <1>4 DEF Work, Elements
  <2>2. nElementsThread * (nChunks - 1) \in Int
    <3>1. degree + n \in Nat
      BY <1>1 DEF CallInv
    <3>2. (degree + n) \div n \in Nat
      BY <1>1, <3>1, Quotient
    <3>3. nChunks \in Nat
      BY <1>4, <3>2 DEF nChunks
    <3> QED
      BY <1>1, <3>3
  <2>3. e - 1 \in Nat
    BY <2>1, <2>2
  <2> DEFINE x == (e - 1) % nElementsThread
  <2> DEFINE c == (e - 1) \div nElementsThread
  <2>4. x \in 0..(nElementsThread - 1) /\ c \in Nat /\ e - 1 = nElementsThread * c + x
    BY <1>1, <2>3, Quotient
  <2>5. idx0(r, k, e) = (k * nElementsThread + x) + c * n
    BY <1>4 DEF idx0
  <2>6. k \in (r * nThreads)..(least((r + 1) * nThreads, n) - 1)
    BY <1>4 DEF ThreadsOf
  <2>7. r * nThreads \in Nat /\ (r + 1) * nThreads \in Nat
    BY <1>1
  <2>8. k \in 0..(n - 1)
    BY <1>1, <2>6, <2>7 DEF least
  <2>9. k * nElementsThread + x \in 0..(n - 1)
    <3>1. CASE n % nThreads = 0
      <4>1. n = nThreads * nElementsThread
        BY <1>1, <3>1
      <4>2. r = 0
        <5>1. Rounds = (n + n - 1) \div n
          BY <1>4, <4>1 DEF Rounds
        <5>2. (n + n - 1) \div n = 1
          BY <1>1, OneRound
        <5> QED
          BY <5>1, <5>2
      <4>3. k \in 0..(nThreads - 1)
        BY <1>1, <2>6, <2>8, <4>2 DEF least
      <4> QED
        BY <1>1, <2>4, <4>1, <4>3, PlaceInChunk
    <3>2. CASE nElementsThread = 1
      BY <1>1, <2>4, <2>8, <3>2
    <3> QED
      BY <3>1, <3>2 DEF SharesThePlaces
  <2> HIDE DEF x, c
  <2>10. k \in Nat /\ idx1(r, k, e) = (k * nElementsThread + x) + (c + 1) * n
    BY <1>1, <1>2, <2>4, <2>5, <2>8
  <2>11. e = x + 1 + c * nElementsThread
    <3>1. nElementsThread * c = c * nElementsThread /\ nElementsThread * c \in Int
      BY <1>1, <2>4
    <3> QED
      BY <1>1, <2>1, <2>2, <2>4, <3>1
  <2> QED
    BY <1>4, <2>4, <2>5, <2>9, <2>10, <2>11
<1> QED
  BY <1>3, <1>4

-----------------------------------------------------------------------------
\* Two elements at the same coefficient are of the same thread, and if both are
\* written, they have the same number and, in divZh, the same round.
LEMMA SamePlace ==
  ASSUME CallInv, SharesThePlaces,
         NEW r \in Nat, r \in 0..(Rounds - 1), NEW k \in ThreadsOf(r), NEW e \in Work(r, k),
         NEW q \in Nat, q \in 0..(Rounds - 1), NEW l \in ThreadsOf(q), NEW d \in Work(q, l)
  PROVE  /\ idx1(r, k, e) # idx0(q, l, d) \/ k = l
         /\ idx1(r, k, e) # idx1(q, l, d) \/ (k = l /\ e = d /\ (Zh => r = q))
<1>1. n \in Nat \ {0} /\ nElementsThread \in Nat \ {0}
  BY Threads
<1>2. PICK c \in Nat, x \in 0..(nElementsThread - 1) :
        /\ idx1(r, k, e) = (k * nElementsThread + x) + (c + 1) * n
        /\ k * nElementsThread + x \in 0..(n - 1)
        /\ IF Zh THEN c = r /\ e = x + 1 ELSE e = x + 1 + c * nElementsThread
  BY ElementPlace
<1>3. PICK b \in Nat, y \in 0..(nElementsThread - 1) :
        /\ idx0(q, l, d) = (l * nElementsThread + y) + b * n
        /\ idx1(q, l, d) = (l * nElementsThread + y) + (b + 1) * n
        /\ l * nElementsThread + y \in 0..(n - 1)
        /\ IF Zh THEN b = q /\ d = y + 1 ELSE d = y + 1 + b * nElementsThread
  BY ElementPlace
<1>4. k \in Nat /\ l \in Nat
  BY ElementPlace
<1>5. ASSUME k * nElementsThread + x = l * nElementsThread + y
      PROVE  k = l /\ x = y
  <2>1. x + k * nElementsThread = y + l * nElementsThread
    <3>1. k * nElementsThread \in Int /\ l * nElementsThread \in Int
      BY <1>1, <1>4
    <3> QED
      BY <1>1, <1>5, <3>1
  <2> QED
    BY <1>1, <1>4, <2>1, Digits
<1>6. ASSUME idx1(r, k, e) = idx0(q, l, d)
      PROVE  k = l
  <2>1. c + 1 \in Nat
    OBVIOUS
  <2> DEFINE place == k * nElementsThread + x
  <2> DEFINE other == l * nElementsThread + y
  <2>2. /\ place \in 0..(n - 1) /\ other \in 0..(n - 1)
        /\ place + (c + 1) * n = other + b * n
    BY <1>2, <1>3, <1>6
  <2> HIDE DEF place, other
  <2>3. place = other
    BY <1>1, <2>1, <2>2, Digits
  <2>4. k * nElementsThread + x = l * nElementsThread + y
    BY <2>3 DEF place, other
  <2> QED
    BY <1>5, <2>4
<1>7. ASSUME idx1(r, k, e) = idx1(q, l, d)
      PROVE  k = l /\ e = d /\ (Zh => r = q)
  <2>1. c + 1 \in Nat /\ b + 1 \in Nat
    OBVIOUS
  <2> DEFINE place == k * nElementsThread + x
  <2> DEFINE other == l * nElementsThread + y
  <2>2. /\ place \in 0..(n - 1) /\ other \in 0..(n - 1)
        /\ place + (c + 1) * n = other + (b + 1) * n
    BY <1>2, <1>3, <1>7
  <2> HIDE DEF place, other
  <2>3. c + 1 = b + 1 /\ place = other
    BY <1>1, <2>1, <2>2, Digits
  <2>4. c = b /\ k * nElementsThread + x = l * nElementsThread + y
    BY <2>3 DEF place, other
  <2> QED
    BY <1>2, <1>3, <1>5, <2>4
<1> QED
  BY <1>6, <1>7

\* So the threads of a round write what no other of them reads, and no coefficient
\* is written twice.
LEMMA Disjoint == CallInv => ThreadsAreDisjoint
<1> SUFFICES ASSUME CallInv, SharesThePlaces, NEW r \in 0..(Rounds - 1), NEW q \in 0..(Rounds - 1),
                    NEW k \in ThreadsOf(r), NEW l \in ThreadsOf(q)
             PROVE  /\ r = q /\ k # l => Writes(r, k) \cap Reads(q, l) = {}
                    /\ <<r, k>> # <<q, l>> => Writes(r, k) \cap Writes(q, l) = {}
  BY DEF ThreadsAreDisjoint
<1>1. r \in Nat /\ q \in Nat
  OBVIOUS
<1>2. \A e \in Work(r, k), d \in Work(q, l) :
        /\ idx1(r, k, e) # idx0(q, l, d) \/ k = l
        /\ idx1(r, k, e) # idx1(q, l, d) \/ (k = l /\ (Zh => r = q))
  BY <1>1, SamePlace
<1>3. k = l /\ ~Zh => r = q
  BY <1>1, RoundOfThread
<1> QED
  BY <1>2, <1>3 DEF Writes, Reads

-----------------------------------------------------------------------------
\* Two integers that differ by a multiple of P.
Cong(a, b) == \E k \in Int : a = b + k * P

\* An integer is congruent to its rest, which is an element.
LEMMA CongMod ==
  ASSUME NEW a \in Int
  PROVE  a % P \in Fr /\ Cong(a % P, a)
<1>1. P \in Nat \ {0}
  BY DivisionAssumption
<1>2. a \div P \in Int /\ a % P \in 0..(P - 1) /\ a = P * (a \div P) + (a % P)
  BY <1>1
<1>3. -(a \div P) \in Int
  BY <1>2
<1>4. (-(a \div P)) * P = -(P * (a \div P)) /\ P * (a \div P) \in Int
  BY <1>1, <1>2
<1>5. a % P = a + (-(a \div P)) * P
  <2> DEFINE q == P * (a \div P)
  <2>1. q \in Int /\ a = q + (a % P) /\ a % P \in Int
    BY <1>2, <1>4
  <2>2. (-(a \div P)) * P = -q
    BY <1>4
  <2> HIDE DEF q
  <2> QED
    BY <2>1, <2>2
<1> QED
  BY <1>2, <1>3, <1>5 DEF Fr, Cong

\* Elements that are congruent are equal.
LEMMA CongEqual ==
  ASSUME NEW a \in Fr, NEW b \in Fr, Cong(a, b)
  PROVE  a = b
<1>1. P \in Nat \ {0}
  BY DivisionAssumption
<1>2. PICK k \in Int : a = b + k * P
  BY DEF Cong
<1>3. k * P \in Int
  BY <1>1
<1>4. CASE k >= 1
  <2>1. k * P >= 1 * P
    BY <1>1, <1>4
  <2> QED
    BY <1>1, <1>2, <1>3, <2>1 DEF Fr
<1>5. CASE k <= -1
  <2>1. k * P <= (-1) * P
    BY <1>1, <1>5
  <2> QED
    BY <1>1, <1>2, <1>3, <2>1 DEF Fr
<1>6. CASE k = 0
  BY <1>1, <1>2, <1>6 DEF Fr
<1> QED
  BY <1>4, <1>5, <1>6

\* Congruence modulo P is symmetric,
LEMMA CongSymmetric ==
  ASSUME NEW a \in Int, NEW b \in Int, Cong(a, b)
  PROVE  Cong(b, a)
<1>1. P \in Int
  BY DivisionAssumption
<1>2. PICK k \in Int : a = b + k * P
  BY DEF Cong
<1>3. b = a + (-k) * P /\ -k \in Int
  BY <1>1, <1>2
<1> QED
  BY <1>3 DEF Cong

\* and transitive,
LEMMA CongTransitive ==
  ASSUME NEW a \in Int, NEW b \in Int, NEW c \in Int, Cong(a, b), Cong(b, c)
  PROVE  Cong(a, c)
<1>1. P \in Int
  BY DivisionAssumption
<1>2. PICK k \in Int : a = b + k * P
  BY DEF Cong
<1>3. PICK l \in Int : b = c + l * P
  BY DEF Cong
<1>4. a = c + (k + l) * P /\ k + l \in Int
  BY <1>1, <1>2, <1>3
<1> QED
  BY <1>4 DEF Cong

\* kept by differences,
LEMMA CongSub ==
  ASSUME NEW a \in Int, NEW b \in Int, NEW c \in Int, NEW d \in Int, Cong(a, b), Cong(c, d)
  PROVE  Cong(a - c, b - d)
<1>1. P \in Int
  BY DivisionAssumption
<1>2. PICK k \in Int : a = b + k * P
  BY DEF Cong
<1>3. PICK l \in Int : c = d + l * P
  BY DEF Cong
<1>4. a - c = (b - d) + (k - l) * P /\ k - l \in Int
  BY <1>1, <1>2, <1>3
<1> QED
  BY <1>4 DEF Cong

\* and by products.
LEMMA CongMul ==
  ASSUME NEW a \in Int, NEW b \in Int, NEW c \in Int, NEW d \in Int, Cong(a, b), Cong(c, d)
  PROVE  Cong(a * c, b * d)
<1>1. P \in Int
  BY DivisionAssumption
<1>2. PICK k \in Int : a = b + k * P
  BY DEF Cong
<1>3. PICK l \in Int : c = d + l * P
  BY DEF Cong
<1>4. (b + k * P) * (d + l * P) = b * d + (b * l + k * d + k * (l * P)) * P
  BY <1>1
<1>5. b * l + k * d + k * (l * P) \in Int
  BY <1>1
<1> QED
  BY <1>2, <1>3, <1>4, <1>5 DEF Cong

\* It is reflexive too.
LEMMA CongRefl == ASSUME NEW a \in Int PROVE Cong(a, a)
<1>1. P \in Int
  BY DivisionAssumption
<1>2. a = a + 0 * P
  BY <1>1
<1> QED
  BY <1>2 DEF Cong

\* The inverse of an element.
LEMMA Inverse ==
  ASSUME NEW b \in Fr \ {0}
  PROVE  inv(b) \in Fr /\ Cong(b * inv(b), 1)
<1>1. P \in Nat \ {0, 1}
  BY DivisionAssumption
<1>2. b \in 1..(P - 1)
  BY <1>1 DEF Fr
<1>3. \E i \in Fr : mul(b, i) = 1
  BY <1>2, FieldAssumption DEF Fr, mul
<1>4. inv(b) \in Fr /\ mul(b, inv(b)) = 1
  BY <1>3 DEF inv
<1>5. b \in Int /\ inv(b) \in Int
  BY <1>1, <1>4 DEF Fr
<1>6. b * inv(b) \in Int
  BY <1>5
<1>7. Cong((b * inv(b)) % P, b * inv(b))
  BY <1>6, CongMod
<1>8. Cong(1, b * inv(b))
  BY <1>4, <1>7 DEF mul
<1> QED
  BY <1>4, <1>6, <1>8, CongSymmetric

\* An element is the difference of c and o over b if it is what b times it
\* takes from c to leave o.
LEMMA Element ==
  ASSUME NEW b \in Fr \ {0}, NEW c \in Fr, NEW o \in Fr, NEW y \in Fr
  PROVE  y = mul(inv(b), sub(c, o)) <=> sub(c, mul(b, y)) = o
<1> DEFINE i == inv(b)
<1>1. P \in Nat \ {0, 1}
  BY DivisionAssumption
<1>2. i \in Fr /\ Cong(b * i, 1)
  BY Inverse
<1> HIDE DEF i
<1>3. b \in Int /\ c \in Int /\ o \in Int /\ y \in Int /\ i \in Int
  BY <1>1, <1>2 DEF Fr
<1>4. c - o \in Int /\ b * y \in Int /\ i * (c - o) \in Int /\ b * (i * (c - o)) \in Int
      /\ (b * i) * (c - o) \in Int /\ b * i \in Int /\ i * (b * y) \in Int
      /\ (b * i) * y \in Int /\ c - (c - o) \in Int /\ c - b * y \in Int
  BY <1>3
<1>5. sub(c, o) \in Fr /\ Cong(sub(c, o), c - o)
  BY <1>4, CongMod DEF sub
<1>6. mul(b, y) \in Fr /\ Cong(mul(b, y), b * y)
  BY <1>4, CongMod DEF mul
<1>7. sub(c, o) \in Int /\ mul(b, y) \in Int
  BY <1>1, <1>5, <1>6 DEF Fr
<1>8. mul(i, sub(c, o)) \in Fr /\ Cong(mul(i, sub(c, o)), i * (c - o))
  <2>1. i * sub(c, o) \in Int
    BY <1>3, <1>7
  <2>2. mul(i, sub(c, o)) \in Fr /\ Cong(mul(i, sub(c, o)), i * sub(c, o))
    BY <2>1, CongMod DEF mul
  <2>3. Cong(i * sub(c, o), i * (c - o))
    BY <1>3, <1>4, <1>5, <1>7, CongRefl, CongMul
  <2>4. mul(i, sub(c, o)) \in Int
    BY <1>1, <2>2 DEF Fr
  <2> QED
    BY <1>4, <2>1, <2>2, <2>3, <2>4, CongTransitive
<1>9. sub(c, mul(b, y)) \in Fr /\ Cong(sub(c, mul(b, y)), c - b * y)
  <2>1. c - mul(b, y) \in Int
    BY <1>3, <1>7
  <2>2. sub(c, mul(b, y)) \in Fr /\ Cong(sub(c, mul(b, y)), c - mul(b, y))
    BY <2>1, CongMod DEF sub
  <2>3. Cong(c - mul(b, y), c - b * y)
    BY <1>3, <1>4, <1>6, <1>7, CongRefl, CongSub
  <2>4. sub(c, mul(b, y)) \in Int
    BY <1>1, <2>2 DEF Fr
  <2> QED
    BY <1>4, <2>1, <2>2, <2>3, <2>4, CongTransitive
<1>10. mul(i, sub(c, o)) \in Int /\ sub(c, mul(b, y)) \in Int
  BY <1>1, <1>8, <1>9 DEF Fr
<1>11. ASSUME y = mul(i, sub(c, o))
       PROVE  sub(c, mul(b, y)) = o
  <2>1. Cong(b * y, b * (i * (c - o)))
    BY <1>3, <1>4, <1>8, <1>11, CongRefl, CongMul
  <2>2. Cong((b * i) * (c - o), 1 * (c - o))
    BY <1>2, <1>4, CongRefl, CongMul
  <2>3. b * (i * (c - o)) = (b * i) * (c - o) /\ 1 * (c - o) = c - o
    BY <1>3
  <2>4. Cong(b * y, c - o)
    BY <1>4, <2>1, <2>2, <2>3, CongTransitive
  <2>5. Cong(c - b * y, c - (c - o))
    BY <1>3, <1>4, <2>4, CongRefl, CongSub
  <2>6. c - (c - o) = o
    BY <1>3
  <2>7. Cong(sub(c, mul(b, y)), o)
    BY <1>3, <1>4, <1>9, <1>10, <2>5, <2>6, CongTransitive
  <2> QED
    BY <1>9, <2>7, CongEqual
<1>12. ASSUME sub(c, mul(b, y)) = o
       PROVE  y = mul(i, sub(c, o))
  <2>1. Cong(o, c - b * y)
    BY <1>9, <1>12
  <2>2. Cong(c - o, c - (c - b * y))
    BY <1>3, <1>4, <2>1, CongRefl, CongSub
  <2>3. c - (c - b * y) = b * y
    BY <1>3, <1>4
  <2>4. Cong(i * (c - o), i * (b * y))
    BY <1>3, <1>4, <2>2, <2>3, CongRefl, CongMul
  <2>5. Cong((b * i) * y, 1 * y)
    BY <1>2, <1>3, <1>4, CongRefl, CongMul
  <2>6. i * (b * y) = (b * i) * y /\ 1 * y = y
    BY <1>3
  <2>7. Cong(i * (c - o), y)
    BY <1>3, <1>4, <2>4, <2>5, <2>6, CongTransitive
  <2>8. Cong(mul(i, sub(c, o)), y)
    BY <1>3, <1>4, <1>8, <1>10, <2>7, CongTransitive
  <2> QED
    BY <1>8, <2>8, CongEqual
<1> QED
  BY <1>11, <1>12 DEF i

\* The first n coefficients have nothing below them.
LEMMA FirstElement ==
  ASSUME NEW b \in Fr \ {0}, NEW o \in Fr
  PROVE  mul(-inv(b), o) = mul(inv(b), sub(0, o)) /\ mul(-inv(b), o) \in Fr
<1> DEFINE i == inv(b)
<1>1. P \in Nat \ {0, 1}
  BY DivisionAssumption
<1>2. i \in Fr
  BY Inverse
<1> HIDE DEF i
<1>3. i \in Int /\ o \in Int /\ 0 - o \in Int
  BY <1>1, <1>2 DEF Fr
<1>4. (-i) * o \in Int /\ (-i) * o = i * (0 - o)
  BY <1>3
<1>5. mul(-i, o) \in Fr /\ Cong(mul(-i, o), i * (0 - o))
  BY <1>4, CongMod DEF mul
<1>6. sub(0, o) \in Fr /\ Cong(sub(0, o), 0 - o)
  BY <1>3, CongMod DEF sub
<1>7. sub(0, o) \in Int
  BY <1>1, <1>6 DEF Fr
<1>8. i * sub(0, o) \in Int
  BY <1>3, <1>7
<1>9. mul(i, sub(0, o)) \in Fr /\ Cong(mul(i, sub(0, o)), i * sub(0, o))
  BY <1>8, CongMod DEF mul
<1>10. Cong(i * sub(0, o), i * (0 - o))
  BY <1>3, <1>6, <1>7, CongRefl, CongMul
<1>11. mul(i, sub(0, o)) \in Int /\ mul(-i, o) \in Int
  BY <1>1, <1>5, <1>9 DEF Fr
<1>12. Cong(i * (0 - o), mul(i, sub(0, o)))
  BY <1>4, <1>8, <1>9, <1>10, <1>11, CongTransitive, CongSymmetric
<1>13. Cong(mul(-i, o), mul(i, sub(0, o)))
  BY <1>4, <1>5, <1>11, <1>12, CongTransitive
<1> QED
  BY <1>5, <1>9, <1>13, CongEqual DEF i

\* Products and differences of elements are elements.
LEMMA ElementIsInFr ==
  ASSUME NEW b \in Fr \ {0}, NEW c \in Fr, NEW o \in Fr
  PROVE  mul(inv(b), sub(c, o)) \in Fr
<1>1. P \in Nat \ {0}
  BY DivisionAssumption
<1>2. inv(b) \in Int /\ c - o \in Int
  BY <1>1, Inverse DEF Fr
<1>3. sub(c, o) \in Int
  BY <1>1, <1>2, CongMod DEF sub, Fr
<1>4. inv(b) * sub(c, o) \in Int
  BY <1>2, <1>3
<1> QED
  BY <1>4, CongMod DEF mul

\* Zero less the product of zero.
LEMMA ZeroElement ==
  ASSUME NEW b \in Fr
  PROVE  sub(0, mul(b, 0)) = 0
<1>1. P \in Nat \ {0} /\ b \in Int
  BY DivisionAssumption DEF Fr
<1>2. b * 0 = 0 /\ 0 % P = 0
  BY <1>1
<1> QED
  BY <1>2 DEF sub, mul

-----------------------------------------------------------------------------
\* A chunk of divByZerofier starts at every multiple of n up to the degree.
LEMMA Chunks ==
  ASSUME CallInv, ~Zh
  PROVE  /\ nChunks - 1 = degree \div n /\ degree \div n \in Nat
         /\ nElementsThread * (nChunks - 1) \in Nat
<1>1. n \in Nat \ {0} /\ nElementsThread \in Nat \ {0} /\ degree \in Nat
  BY Threads, DivisionAssumption DEF CallInv
<1> DEFINE a == degree \div n
<1> DEFINE y == degree % n
<1> DEFINE b == (degree + n) \div n
<1> DEFINE z == (degree + n) % n
<1>2. a \in Nat /\ y \in 0..(n - 1) /\ degree = n * a + y
  BY <1>1, Quotient
<1>3. b \in Nat /\ z \in 0..(n - 1) /\ degree + n = n * b + z
  <2>1. degree + n \in Nat
    BY <1>1
  <2> QED
    BY <1>1, <2>1, Quotient
<1>4. nChunks = b
  BY DEF nChunks
<1> HIDE DEF a, b, y, z
<1>5. n * a = a * n /\ n * b = b * n /\ a * n \in Nat /\ b * n \in Nat /\ (a + 1) * n = a * n + n
  BY <1>1, <1>2, <1>3
<1>6. y + (a + 1) * n = z + b * n
  BY <1>1, <1>2, <1>3, <1>5
<1>7. a + 1 = b
  BY <1>1, <1>2, <1>3, <1>6, Digits
<1>8. nChunks - 1 = a
  BY <1>2, <1>4, <1>7
<1>9. nElementsThread * a \in Nat
  BY <1>1, <1>2
<1> QED
  BY <1>2, <1>8, <1>9 DEF a

\* The lengths, the rounds and the elements are natural numbers.
LEMMA Sizes ==
  ASSUME CallInv
  PROVE  /\ n \in Nat \ {0} /\ call.length \in Nat /\ call.length >= n /\ degree \in Nat
         /\ degree <= call.length - 1
         /\ Rounds \in Nat /\ (~Zh => Rounds >= 1)
         /\ \A r, k : Work(r, k) \subseteq Nat \ {0}
<1>1. /\ n \in Nat \ {0} /\ nThreads \in Nat \ {0} /\ nElementsThread \in Nat \ {0}
  BY Threads
<1>2. call.length \in Nat \ {0} /\ call.length >= n /\ degree \in Nat /\ degree <= call.length - 1
  BY DivisionAssumption DEF CallInv
<1>3. CASE Zh
  <2>1. call.length = n * (call.length \div n) + (call.length % n) /\ call.length \div n \in Nat
    BY <1>1, <1>2, Quotient
  <2>2. call.length \div n # 0
    <3>1. CASE call.length \div n = 0
      <4>1. n * (call.length \div n) = 0
        BY <1>1, <3>1
      <4> QED
        BY <1>2, <1>3, <2>1, <4>1 DEF CallInv
    <3> QED
      BY <3>1
  <2>3. Rounds \in Nat
    BY <1>3, <2>1, <2>2 DEF Rounds, nChunks
  <2> QED
    BY <1>1, <1>2, <1>3, <2>3 DEF Work, Elements
<1>4. CASE ~Zh
  <2> DEFINE m == nThreads * nElementsThread
  <2>1. m \in Nat \ {0}
    BY <1>1
  <2> HIDE DEF m
  <2>2. n + m - 1 \in Nat /\ n + m - 1 >= m
    BY <1>1, <2>1
  <2>3. /\ (n + m - 1) \div m \in Nat /\ (n + m - 1) % m \in 0..(m - 1)
        /\ n + m - 1 = m * ((n + m - 1) \div m) + ((n + m - 1) % m)
    BY <2>1, <2>2, Quotient
  <2>4. (n + m - 1) \div m # 0
    <3>1. CASE (n + m - 1) \div m = 0
      <4>1. m * ((n + m - 1) \div m) = 0
        BY <2>1, <3>1
      <4>2. n + m - 1 = (n + m - 1) % m
        BY <2>1, <2>2, <2>3, <4>1
      <4> QED
        BY <2>1, <2>2, <2>3, <4>2
    <3> QED
      BY <3>1
  <2>5. Rounds = (n + m - 1) \div m
    BY <1>4 DEF Rounds, m
  <2>6. nElementsThread * (nChunks - 1) \in Int
    BY <1>4, Chunks
  <2>7. \A r, k : Work(r, k) \subseteq Nat \ {0}
    BY <1>4, <2>6 DEF Work, Elements
  <2> QED
    BY <1>1, <1>2, <1>4, <2>3, <2>4, <2>5, <2>7
<1> QED
  BY <1>3, <1>4

\* An element is a coefficient of the polynomial, and not one of the n first.
LEMMA Scope ==
  ASSUME CallInv, SharesThePlaces, NEW r \in Nat, r \in 0..(Rounds - 1),
         NEW k \in ThreadsOf(r), NEW e \in Work(r, k)
  PROVE  /\ idx1(r, k, e) \in n..(call.length - 1)
         /\ idx0(r, k, e) = idx1(r, k, e) - n /\ idx0(r, k, e) \in 0..(call.length - 1)
         /\ ~Zh => idx1(r, k, e) <= degree
<1>1. /\ n \in Nat \ {0} /\ call.length \in Nat /\ call.length >= n /\ degree \in Nat
      /\ degree <= call.length - 1
  BY Sizes
<1>2. PICK c \in Nat, x \in 0..(nElementsThread - 1) :
        /\ idx0(r, k, e) = (k * nElementsThread + x) + c * n
        /\ idx1(r, k, e) = (k * nElementsThread + x) + (c + 1) * n
        /\ k * nElementsThread + x \in 0..(n - 1) /\ (Zh => c = r)
  BY ElementPlace
<1> DEFINE place == k * nElementsThread + x
<1>3. /\ idx0(r, k, e) = place + c * n /\ idx1(r, k, e) = place + (c + 1) * n
      /\ place \in 0..(n - 1)
  BY <1>2
<1> HIDE DEF place
<1>4. c * n \in Nat /\ (c + 1) * n = c * n + n
  BY <1>1
<1>5. idx1(r, k, e) >= n /\ idx0(r, k, e) = idx1(r, k, e) - n /\ idx0(r, k, e) >= 0
      /\ idx1(r, k, e) \in Int /\ idx0(r, k, e) \in Int
  BY <1>1, <1>3, <1>4
<1>6. CASE Zh
  <2> DEFINE m == call.length \div n
  <2>1. m \in Nat /\ call.length = n * m
    <3>1. m \in Nat /\ call.length = n * m + (call.length % n)
      BY <1>1, Quotient
    <3>2. n * m \in Nat
      BY <1>1, <3>1
    <3> QED
      BY <1>6, <3>1, <3>2 DEF CallInv
  <2>2. r + 1 < m
    BY <1>6, <2>1 DEF Rounds, nChunks
  <2> HIDE DEF m
  <2>3. (r + 1) * n + n <= m * n /\ m * n = n * m /\ (r + 1) * n \in Nat /\ m * n \in Nat
    BY <1>1, <2>1, <2>2, Multiples
  <2>4. idx1(r, k, e) = place + (r + 1) * n
    BY <1>2, <1>3, <1>6
  <2> QED
    BY <1>1, <1>3, <1>5, <1>6, <2>1, <2>3, <2>4
<1>7. CASE ~Zh
  <2>1. idx1(r, k, e) <= degree
    BY <1>7 DEF Work
  <2> QED
    BY <1>1, <1>5, <2>1
<1> QED
  BY <1>6, <1>7

\* What is n places below an element is one of the n first coefficients, or an
\* element that the same thread computes before it.
LEMMA Below ==
  ASSUME CallInv, SharesThePlaces, NEW r \in Nat, r \in 0..(Rounds - 1),
         NEW k \in ThreadsOf(r), NEW e \in Work(r, k)
  PROVE  \/ idx0(r, k, e) \in 0..(n - 1)
         \/ /\ r - 1 \in 0..(Rounds - 1) /\ k \in ThreadsOf(r - 1) /\ e \in Work(r - 1, k)
            /\ idx0(r, k, e) = idx1(r - 1, k, e)
         \/ \E d \in Work(r, k) : d < e /\ idx0(r, k, e) = idx1(r, k, d)
<1>1. /\ n \in Nat \ {0} /\ degree \in Nat /\ Rounds \in Nat /\ e \in Nat \ {0}
      /\ nElementsThread \in Nat \ {0} /\ k \in Nat
  BY Sizes, Threads, ElementPlace
<1>2. PICK c \in Nat, x \in 0..(nElementsThread - 1) :
        /\ idx0(r, k, e) = (k * nElementsThread + x) + c * n
        /\ k * nElementsThread + x \in 0..(n - 1)
        /\ IF Zh THEN c = r /\ e = x + 1 ELSE e = x + 1 + c * nElementsThread
  BY ElementPlace
<1> DEFINE place == k * nElementsThread + x
<1>3. idx0(r, k, e) = place + c * n /\ place \in 0..(n - 1)
  BY <1>2
<1>4. CASE c = 0
  <2>1. c * n = 0
    BY <1>1, <1>4
  <2> HIDE DEF place
  <2> QED
    BY <1>1, <1>3, <2>1
<1>5. CASE c # 0 /\ Zh
  <2>1. r - 1 \in Nat /\ r - 1 \in 0..(Rounds - 1)
    BY <1>1, <1>2, <1>5
  <2>2. k \in ThreadsOf(r - 1) /\ e \in Work(r - 1, k)
    BY <1>5 DEF ThreadsOf, Work, Elements
  <2>3. idx1(r - 1, k, e) = k * nElementsThread + (e - 1) + (r - 1) * n + n
    BY <1>5 DEF idx1, idx0
  <2>4. (r - 1) * n + n = r * n /\ (r - 1) * n \in Int /\ k * nElementsThread \in Int
    BY <1>1
  <2>5. idx0(r, k, e) = k * nElementsThread + (e - 1) + r * n
    BY <1>5 DEF idx0
  <2> QED
    BY <1>1, <2>1, <2>2, <2>3, <2>4, <2>5
<1>6. CASE c # 0 /\ ~Zh
  <2> DEFINE E == nElementsThread
  <2> DEFINE d == x + 1 + (c - 1) * E
  <2>1. c - 1 \in Nat /\ (c - 1) * E \in Nat /\ c * E = (c - 1) * E + E /\ c * E \in Nat
    BY <1>1, <1>6
  <2>2. d \in Nat \ {0} /\ d = e - E /\ d < e
    BY <1>1, <1>2, <1>6, <2>1
  <2>3. d - 1 = x + (c - 1) * E /\ d - 1 \in Nat
    BY <1>1, <2>1
  <2> HIDE DEF d
  <2>4. (d - 1) % E = x /\ (d - 1) \div E = c - 1
    <3>1. E \in Nat \ {0} /\ x \in 0..(E - 1)
      BY <1>1
    <3> HIDE DEF E
    <3> QED
      BY <2>1, <2>3, <3>1, Rest
  <2>5. idx1(r, k, d) = k * E + x + (c - 1) * n + n
    BY <1>6, <2>4 DEF idx1, idx0
  <2>6. (c - 1) * n + n = c * n /\ (c - 1) * n \in Int /\ k * E \in Int
    BY <1>1
  <2>7. idx0(r, k, e) = idx1(r, k, d)
    BY <1>1, <1>2, <2>5, <2>6
  <2>8. d \in Elements
    <3>1. e \in 1..(E * (nChunks - 1))
      BY <1>6 DEF Work, Elements
    <3>2. E * (nChunks - 1) \in Int
      BY <1>6, Chunks
    <3> HIDE DEF E
    <3>3. d \in 1..(E * (nChunks - 1))
      BY <2>2, <3>1, <3>2, <1>1
    <3> QED
      BY <1>6, <3>3 DEF Elements, E
  <2>9. idx1(r, k, d) <= degree
    <3>1. idx1(r, k, e) <= degree /\ idx0(r, k, e) = idx1(r, k, e) - n /\ idx1(r, k, e) \in Int
      BY <1>1, <1>6, Scope, Sizes
    <3> QED
      BY <1>1, <2>7, <3>1
  <2>10. d \in Work(r, k)
    BY <2>8, <2>9 DEF Work
  <2> QED
    BY <2>2, <2>7, <2>10
<1> QED
  BY <1>4, <1>5, <1>6

\* Different elements are different coefficients.
LEMMA ElementsDiffer ==
  ASSUME CallInv, SharesThePlaces,
         NEW r \in Nat, r \in 0..(Rounds - 1), NEW k \in ThreadsOf(r), NEW e \in Work(r, k),
         NEW q \in Nat, q \in 0..(Rounds - 1), NEW l \in ThreadsOf(q), NEW d \in Work(q, l),
         idx1(r, k, e) = idx1(q, l, d)
  PROVE  r = q /\ k = l /\ e = d
<1>1. k = l /\ e = d /\ (Zh => r = q)
  BY SamePlace
<1>2. CASE ~Zh
  BY <1>1, <1>2, RoundOfThread
<1> QED
  BY <1>1, <1>2

\* Every coefficient from the n-th to the last of the polynomial, for divByZerofier
\* to that of the degree, is an element of some thread.
LEMMA Cover ==
  ASSUME CallInv, SharesThePlaces, NEW p \in n..(call.length - 1), ~Zh => p <= degree
  PROVE  \E r \in 0..(Rounds - 1) : \E k \in ThreadsOf(r) : \E e \in Work(r, k) :
           p = idx1(r, k, e)
<1>1. /\ n \in Nat \ {0} /\ call.length \in Nat /\ degree \in Nat /\ Rounds \in Nat
      /\ nThreads \in Nat \ {0} /\ nElementsThread \in Nat \ {0} /\ nThreads <= n
      /\ (n % nThreads = 0 => n = nThreads * nElementsThread)
  BY Sizes, Threads
<1> DEFINE E == nElementsThread
<1> DEFINE h == p \div n
<1> DEFINE z == p % n
<1> DEFINE k == z \div E
<1> DEFINE x == z % E
<1>2. p \in Nat /\ p >= n
  BY <1>1
<1>3. h \in Nat /\ z \in 0..(n - 1) /\ p = n * h + z
  BY <1>1, <1>2, Quotient
<1>4. k \in Nat /\ x \in 0..(E - 1) /\ z = E * k + x
  <2>1. z \in Nat /\ E \in Nat \ {0}
    BY <1>1, <1>3
  <2> HIDE DEF z
  <2> QED
    BY <2>1, Quotient
<1> HIDE DEF h, z, k, x
<1>5. h >= 1
  <2>1. CASE h = 0
    <3>1. n * h = 0
      BY <1>1, <2>1
    <3> QED
      BY <1>1, <1>2, <1>3, <3>1
  <2> QED
    BY <1>3, <2>1
<1>6. /\ n * h = h * n /\ h * n \in Nat /\ (h - 1) * n \in Nat /\ h * n = (h - 1) * n + n
      /\ E * k = k * E /\ k * E \in Nat
  BY <1>1, <1>3, <1>4, <1>5
<1>7. k \in 0..(n - 1)
  <2>1. CASE k >= n
    <3>1. (k - n) * 1 <= (k - n) * E /\ (k - n) * E = k * E - n * E /\ n * E >= n * 1
      BY <1>1, <1>4, <2>1
    <3>2. n * E \in Nat
      BY <1>1
    <3> QED
      BY <1>1, <1>3, <1>4, <1>6, <2>1, <3>1, <3>2
  <2> QED
    BY <1>1, <1>4, <2>1
<1>8. n % nThreads = 0 => k \in 0..(nThreads - 1)
  <2>1. CASE n % nThreads = 0 /\ k >= nThreads
    <3>1. (k - nThreads) * E >= 0 /\ (k - nThreads) * E = k * E - nThreads * E
      BY <1>1, <1>4, <2>1
    <3>2. nThreads * E \in Nat /\ n = nThreads * E
      BY <1>1, <2>1
    <3> QED
      BY <1>1, <1>3, <1>4, <1>6, <3>1, <3>2
  <2> QED
    BY <1>1, <1>4, <2>1
<1>9. CASE Zh
  <2> DEFINE m == call.length \div n
  <2>1. m \in Nat /\ call.length = n * m
    <3>1. m \in Nat /\ call.length = n * m + (call.length % n)
      BY <1>1, Quotient
    <3>2. n * m \in Nat
      BY <1>1, <3>1
    <3> QED
      BY <1>9, <3>1, <3>2 DEF CallInv
  <2>2. Rounds = m - 1
    BY <1>9 DEF Rounds, nChunks
  <2> HIDE DEF m
  <2>3. h < m
    <3>1. CASE h >= m
      <4>1. (h - m) * n >= 0 /\ (h - m) * n = h * n - m * n /\ m * n = n * m /\ m * n \in Nat
        BY <1>1, <1>3, <2>1, <3>1
      <4> QED
        BY <1>1, <1>3, <1>6, <2>1, <4>1
    <3> QED
      BY <1>3, <2>1, <3>1
  <2>4. h - 1 \in 0..(Rounds - 1)
    BY <1>3, <1>5, <2>1, <2>2, <2>3
  <2>5. n % nThreads = 0
    BY <1>9 DEF CallInv
  <2>6. k \in ThreadsOf(h - 1)
    BY <1>8, <1>9, <2>5 DEF ThreadsOf
  <2>7. x + 1 \in Work(h - 1, k)
    BY <1>1, <1>4, <1>9 DEF Work, Elements
  <2>8. idx1(h - 1, k, x + 1) = k * E + ((x + 1) - 1) + (h - 1) * n + n
    BY <1>9 DEF idx1, idx0
  <2>9. idx1(h - 1, k, x + 1) = p
    BY <1>1, <1>3, <1>4, <1>6, <2>8
  <2> QED
    BY <2>4, <2>6, <2>7, <2>9
<1>10. CASE ~Zh
  <2> DEFINE e == x + 1 + (h - 1) * E
  <2>1. (h - 1) * E \in Nat /\ h * E = (h - 1) * E + E /\ h * E \in Nat /\ h - 1 \in Nat
    BY <1>1, <1>3, <1>5
  <2>2. e \in Nat \ {0} /\ e - 1 = x + (h - 1) * E /\ e - 1 \in Nat /\ e <= h * E
    BY <1>1, <1>4, <2>1
  <2> HIDE DEF e
  <2>3. (e - 1) % E = x /\ (e - 1) \div E = h - 1
    <3> DEFINE a == e - 1
    <3> DEFINE b == h - 1
    <3>1. a \in Nat /\ b \in Nat /\ x \in 0..(E - 1) /\ E \in Nat \ {0}
      BY <1>1, <1>4, <2>1, <2>2
    <3>2. a = x + b * E
      BY <2>2
    <3> HIDE DEF a, b
    <3>3. a % E = x /\ a \div E = b
      BY <3>1, <3>2, Rest
    <3> QED
      BY <3>3 DEF a, b
  <2>4. h <= degree \div n
    <3> DEFINE a == degree \div n
    <3> DEFINE b == degree % n
    <3>1. a \in Nat /\ b \in 0..(n - 1) /\ degree = n * a + b
      BY <1>1, Quotient
    <3> HIDE DEF a, b
    <3>2. ASSUME h > a PROVE FALSE
      <4> DEFINE u == a * n
      <4> DEFINE v == h * n
      <4>1. u + n <= v /\ u \in Nat /\ v \in Nat
        BY <1>1, <1>3, <3>1, <3>2, Multiples
      <4>2. degree = u + b /\ p = v + z
        BY <1>1, <1>3, <3>1
      <4> HIDE DEF u, v
      <4> QED
        BY <1>1, <1>3, <1>10, <3>1, <4>1, <4>2
    <3>3. h <= a
      BY <1>3, <3>1, <3>2
    <3> QED
      BY <3>3 DEF a
  <2>5. e \in Elements
    <3> DEFINE a == nChunks - 1
    <3>1. a \in Nat /\ h <= a /\ E * a \in Nat
      BY <1>10, <2>4, Chunks
    <3>2. Elements = 1..(E * a)
      BY <1>10 DEF Elements
    <3> HIDE DEF a
    <3>3. (a - h) * E >= 0 /\ (a - h) * E = a * E - h * E /\ a * E = E * a
      BY <1>1, <1>3, <3>1
    <3>4. e <= E * a
      BY <1>1, <2>1, <2>2, <3>1, <3>3
    <3> HIDE DEF E
    <3> QED
      BY <2>2, <3>1, <3>2, <3>4
  <2>6. \A r : idx1(r, k, e) = p
    <3>1. \A r : idx1(r, k, e) = k * E + x + (h - 1) * n + n
      BY <1>10, <2>3 DEF idx1, idx0
    <3> QED
      BY <1>1, <1>3, <1>4, <1>6, <3>1
  <2>7. \A r : e \in Work(r, k)
    BY <1>10, <2>5, <2>6 DEF Work
  <2>8. \E r \in 0..(Rounds - 1) : k \in ThreadsOf(r)
    <3>1. CASE n % nThreads = 0
      <4>1. 0 \in 0..(Rounds - 1)
        BY <1>1, <1>10, Sizes
      <4>2. ThreadsOf(0) = (0 * nThreads)..(least((0 + 1) * nThreads, n) - 1)
        BY <1>10 DEF ThreadsOf
      <4>3. 0 * nThreads = 0 /\ (0 + 1) * nThreads = nThreads
        BY <1>1
      <4>4. k \in ThreadsOf(0)
        BY <1>1, <1>8, <3>1, <4>2, <4>3 DEF least
      <4> QED
        BY <4>1, <4>4
    <3>2. CASE nElementsThread = 1
      <4> DEFINE T == nThreads
      <4> DEFINE r == k \div T
      <4>1. r \in Nat /\ k % T \in 0..(T - 1) /\ k = T * r + (k % T)
        BY <1>1, <1>4, Quotient
      <4> HIDE DEF r
      <4>2. T * r = r * T /\ r * T \in Nat /\ (r + 1) * T = r * T + T
        BY <1>1, <4>1
      <4>3. k >= r * T /\ k < (r + 1) * T
        BY <1>1, <1>4, <4>1, <4>2
      <4>4. k \in ThreadsOf(r)
        <5> DEFINE first == r * T
        <5> DEFINE next == (r + 1) * T
        <5>1. ThreadsOf(r) = first..(least(next, n) - 1)
          BY <1>10 DEF ThreadsOf
        <5>2. first \in Nat /\ next \in Nat /\ k >= first /\ k < next
          BY <1>1, <4>2, <4>3
        <5> HIDE DEF first, next
        <5> QED
          BY <1>1, <1>7, <5>1, <5>2 DEF least
      <4>5. r < Rounds
        <5> DEFINE q == (n + T - 1) \div T
        <5> DEFINE w == (n + T - 1) % T
        <5>1. n + T - 1 \in Nat
          BY <1>1
        <5>2. q \in Nat /\ w \in 0..(T - 1) /\ n + T - 1 = T * q + w
          BY <1>1, <5>1, Quotient
        <5>3. nThreads * nElementsThread = T
          BY <1>1, <3>2
        <5>4. Rounds = q
          BY <1>10, <5>3 DEF Rounds
        <5> HIDE DEF q, w
        <5>5. CASE r >= q
          <6>1. (r - q) * T >= 0 /\ (r - q) * T = r * T - q * T /\ q * T = T * q /\ q * T \in Nat
            BY <1>1, <4>1, <5>2, <5>5
          <6> QED
            BY <1>1, <1>7, <4>2, <4>3, <5>2, <6>1
        <5> QED
          BY <4>1, <5>2, <5>4, <5>5
      <4> QED
        BY <1>1, <4>1, <4>4, <4>5
    <3> QED
      BY <3>1, <3>2 DEF SharesThePlaces
  <2> QED
    BY <2>6, <2>7, <2>8
<1> QED
  BY <1>9, <1>10

-----------------------------------------------------------------------------
\* No step changes the call.
LEMMA CallStays == CallInv /\ [Next]_vars => CallInv'
<1> SUFFICES ASSUME CallInv, [Next]_vars PROVE CallInv'
  OBVIOUS
<1>1. UNCHANGED <<call, original, degree>>
  BY DEF Next, vars, Scale, Divide, NextRound, Ended
<1> QED
  BY <1>1 DEF CallInv, Zh, n, nThreads, IsDegree

\* It starts with what Init says of it.
LEMMA CallInit == Init => CallInv
  BY DEF Init, CallInv

-----------------------------------------------------------------------------
\* The coefficients that are computed: the n first, the elements of the rounds
\* before, and those that the threads of this round have reached.
HasComputed(r, k, e) == r < round \/ (r = round /\ e <= at[k])
Computed ==
  {p \in 0..(call.length - 1) :
     \/ p < n
     \/ \E r \in 0..(Rounds - 1) : \E k \in ThreadsOf(r) : \E e \in Work(r, k) :
          p = idx1(r, k, e) /\ HasComputed(r, k, e)}

RoundInv ==
  /\ pc \in {"divide", "thrown", "done"} /\ round \in 0..Rounds
  /\ IF pc = "done" THEN round = Rounds
     ELSE round < Rounds /\ at \in [ThreadsOf(round) -> Nat]

\* The others are still those of the call.
CoefInv ==
  /\ coef \in [0..(call.length - 1) -> Fr]
  /\ \A p \in 0..(call.length - 1) :
       IF p \in Computed
       THEN /\ p >= n => p - n \in Computed
            /\ sub(at0(coef, p - n), mul(call.beta, coef[p])) = original[p]
       ELSE coef[p] = original[p]

\* What the check of a remainder has let pass, and what it has thrown for.
RemainderInv ==
  /\ pc # "thrown" /\ ~Zh => \A p \in Computed : p >= n /\ p > degree - n => coef[p] = 0
  /\ pc = "thrown" => \E p \in Computed : p > degree - n /\ coef[p] # 0

\* If there is a quotient, its coefficients are those computed so far.
QuotientInv ==
  \A q \in [0..(degree - n) -> Fr] : IsQuotient(q) => \A p \in Computed : coef[p] = at0(q, p)

DivisionInv ==
  /\ CallInv
  /\ pc = "scale" => coef = original /\ round = 0
  /\ pc # "scale" /\ SharesThePlaces => RoundInv /\ CoefInv /\ RemainderInv /\ QuotientInv

\* The geometry of the threads is that of the call.
LEMMA SameCall ==
  ASSUME UNCHANGED <<call, original, degree>>
  PROVE  /\ n' = n /\ (Zh' <=> Zh) /\ Rounds' = Rounds /\ (SharesThePlaces' <=> SharesThePlaces)
         /\ \A r : ThreadsOf(r)' = ThreadsOf(r)
         /\ \A r, k : Work(r, k)' = Work(r, k)
         /\ \A r, k, e : idx1(r, k, e)' = idx1(r, k, e)
         /\ \A q : IsQuotient(q)' <=> IsQuotient(q)
<1>1. n' = n /\ (Zh' <=> Zh)
  BY DEF n, Zh
<1>2. nThreads' = nThreads
  BY <1>1 DEF nThreads
<1>3. nElementsThread' = nElementsThread /\ nChunks' = nChunks
  BY <1>1, <1>2 DEF nElementsThread, nChunks
<1>4. Rounds' = Rounds /\ (SharesThePlaces' <=> SharesThePlaces)
  BY <1>1, <1>2, <1>3 DEF Rounds, SharesThePlaces
<1>5. \A r : ThreadsOf(r)' = ThreadsOf(r)
  BY <1>1, <1>2 DEF ThreadsOf
<1>6. \A r, k, e : idx1(r, k, e)' = idx1(r, k, e)
  BY <1>1, <1>3 DEF idx1, idx0
<1>7. \A r, k : Work(r, k)' = Work(r, k)
  BY <1>1, <1>3, <1>6 DEF Work, Elements
<1>8. \A q : IsQuotient(q)' <=> IsQuotient(q)
  BY <1>1 DEF IsQuotient, at0
<1> QED
  BY <1>1, <1>4, <1>5, <1>6, <1>7, <1>8

\* divZh never finds an element to check.
LEMMA ZhIsNotChecked ==
  ASSUME CallInv, Zh, round \in 0..(Rounds - 1), NEW p
  PROVE  ~IsChecked(p)
<1> DEFINE m == call.length \div n
<1>1. n \in Nat \ {0} /\ call.length \in Nat /\ Rounds \in Nat /\ m \in Nat
  BY Sizes, Quotient
<1>2. Rounds = m - 1
  BY DEF Rounds, nChunks
<1>3. call.extension \in {1, m}
  BY DEF CallInv
<1>4. CASE call.extension = 1
  <2>1. n * (call.extension - 1) - call.extension = -1
    BY <1>1, <1>4
  <2> QED
    BY <2>1 DEF IsChecked
<1>5. CASE call.extension = m
  <2> HIDE DEF m
  <2> DEFINE first == n * (m - 1) - m
  <2>1. CASE n = 1
    <3>1. first = -1
      BY <1>1, <2>1
    <3> QED
      BY <1>5, <3>1 DEF IsChecked
  <2>2. CASE n >= 2
    <3>1. m - 1 \in Nat
      BY <1>1, <1>2
    <3>2. (n - 2) * (m - 1) >= 0 /\ (n - 2) * (m - 1) = n * (m - 1) - 2 * (m - 1)
          /\ n * (m - 1) \in Int
      BY <1>1, <2>2, <3>1
    <3>3. first >= m - 2 /\ first \in Int
      BY <1>1, <3>1, <3>2
    <3>4. round <= first
      BY <1>1, <1>2, <3>3
    <3> HIDE DEF first
    <3>5. ~(round > first)
      BY <1>1, <3>3, <3>4
    <3> QED
      BY <1>5, <3>5 DEF IsChecked, first
  <2> QED
    BY <1>1, <2>1, <2>2
<1> QED
  BY <1>3, <1>4, <1>5

\* A coefficient of a quotient is made of the one n places below, as in the loops.
LEMMA QuotientCoefficient ==
  ASSUME CallInv, NEW q \in [0..(degree - n) -> Fr], IsQuotient(q),
         NEW p \in 0..(call.length - 1)
  PROVE  /\ at0(q, p) \in Fr /\ at0(q, p - n) \in Fr
         /\ at0(q, p) = mul(inv(call.beta), sub(at0(q, p - n), original[p]))
<1>1. n \in Nat \ {0} /\ call.length \in Nat
  BY Sizes
<1>2. P \in Nat \ {0} /\ 0 \in Fr
  BY DivisionAssumption DEF Fr
<1>3. \A i : at0(q, i) \in Fr
  BY <1>2 DEF at0
<1>4. call.beta \in Fr \ {0} /\ original \in [0..(call.length - 1) -> Fr]
  BY DEF CallInv
<1>5. p \in 0..(call.length - 1 + n)
  BY <1>1
<1>6. sub(at0(q, p - n), mul(call.beta, at0(q, p))) = original[p]
  BY <1>4, <1>5 DEF IsQuotient, at0
<1> QED
  BY <1>3, <1>4, <1>6, Element

-----------------------------------------------------------------------------
\* After the n first are scaled, these are computed.
LEMMA ScaleStep ==
  ASSUME DivisionInv, SharesThePlaces, Scale
  PROVE  RoundInv' /\ CoefInv' /\ RemainderInv' /\ QuotientInv'
<1>1. /\ CallInv /\ coef = original /\ round = 0 /\ pc = "scale"
      /\ UNCHANGED <<call, original, degree, round>> /\ at' = Start(0)
      /\ pc' = IF Rounds = 0 THEN "done" ELSE "divide"
      /\ coef' = [p \in DOMAIN coef |-> IF p < n THEN mul(-inv(call.beta), coef[p]) ELSE coef[p]]
  BY DEF DivisionInv, Scale
<1>2. /\ n \in Nat \ {0} /\ call.length \in Nat /\ call.length >= n /\ Rounds \in Nat
      /\ \A r, k : Work(r, k) \subseteq Nat \ {0}
      /\ degree \in Nat /\ degree <= call.length - 1
  BY <1>1, Sizes
<1>3. call.beta \in Fr \ {0} /\ original \in [0..(call.length - 1) -> Fr] /\ 0 \in Fr
  BY <1>1, DivisionAssumption DEF CallInv, Fr
<1>4. /\ n' = n /\ (Zh' <=> Zh) /\ Rounds' = Rounds
      /\ \A r : ThreadsOf(r)' = ThreadsOf(r)
      /\ \A r, k : Work(r, k)' = Work(r, k)
      /\ \A r, k, e : idx1(r, k, e)' = idx1(r, k, e)
      /\ \A q : IsQuotient(q)' <=> IsQuotient(q)
  BY <1>1, SameCall
<1>5. Computed' = 0..(n - 1)
  <2>1. ASSUME NEW r \in 0..(Rounds - 1), NEW k \in ThreadsOf(r), NEW e \in Work(r, k)
        PROVE  ~HasComputed(r, k, e)'
    <3>1. ~(r < 0) /\ ~(r = 0 /\ e <= Start(0)[k])
      BY <1>2, <2>1 DEF Start
    <3> QED
      BY <1>1, <3>1 DEF HasComputed
  <2>2. Computed' = {p \in 0..(call.length - 1) : p < n}
    BY <1>1, <1>4, <2>1 DEF Computed
  <2> QED
    BY <1>2, <2>2
<1>6. RoundInv'
  <2>1. Start(0) \in [ThreadsOf(0) -> Nat]
    BY DEF Start
  <2> QED
    BY <1>1, <1>2, <1>4, <2>1 DEF RoundInv
<1>7. ASSUME NEW p \in 0..(call.length - 1), p < n
      PROVE  /\ coef'[p] = mul(inv(call.beta), sub(0, original[p])) /\ coef'[p] \in Fr
             /\ sub(0, mul(call.beta, coef'[p])) = original[p]
  <2>1. coef'[p] = mul(-inv(call.beta), original[p]) /\ original[p] \in Fr
    BY <1>1, <1>3, <1>7
  <2>2. coef'[p] = mul(inv(call.beta), sub(0, original[p])) /\ coef'[p] \in Fr
    BY <1>3, <2>1, FirstElement
  <2> QED
    BY <1>3, <2>1, <2>2, Element
<1>8. ASSUME NEW p \in 0..(call.length - 1), ~(p < n)
      PROVE  coef'[p] = original[p]
  BY <1>1, <1>3, <1>8
<1>9. coef' \in [0..(call.length - 1) -> Fr]
  BY <1>1, <1>3, <1>7, <1>8
<1>10. CoefInv'
  <2>1. ASSUME NEW p \in 0..(call.length - 1)
        PROVE  IF p \in 0..(n - 1)
               THEN /\ p >= n => p - n \in 0..(n - 1)
                    /\ sub(at0(coef', p - n), mul(call.beta, coef'[p])) = original[p]
               ELSE coef'[p] = original[p]
    <3>1. CASE p < n
      <4>1. at0(coef', p - n) = 0
        BY <1>2, <1>9, <3>1 DEF at0
      <4> QED
        BY <1>2, <1>7, <3>1, <4>1
    <3> QED
      BY <1>2, <1>8, <3>1
  <2> QED
    BY <1>1, <1>4, <1>5, <1>9, <2>1 DEF CoefInv
<1>11. RemainderInv'
  <2>1. pc' # "thrown"
    BY <1>1
  <2> QED
    BY <1>2, <1>4, <1>5, <2>1 DEF RemainderInv
<1>12. QuotientInv'
  <2>1. ASSUME NEW q \in [0..(degree - n) -> Fr], IsQuotient(q), NEW p \in 0..(n - 1)
        PROVE  coef'[p] = at0(q, p)
    <3>1. p \in 0..(call.length - 1) /\ p < n
      BY <1>2
    <3>2. at0(q, p - n) = 0
      BY <1>2, <3>1 DEF at0
    <3> QED
      BY <1>1, <1>7, <2>1, <3>1, <3>2, QuotientCoefficient
  <2> QED
    BY <1>1, <1>4, <1>5, <2>1 DEF QuotientInv
<1> QED
  BY <1>6, <1>10, <1>11, <1>12

\* A thread computes one coefficient more, from one that is computed and one that is not.
LEMMA DivideStep ==
  ASSUME DivisionInv, SharesThePlaces, NEW k \in DOMAIN at, Divide(k)
  PROVE  RoundInv' /\ CoefInv' /\ RemainderInv' /\ QuotientInv'
<1>1. /\ CallInv /\ RoundInv /\ CoefInv /\ RemainderInv /\ QuotientInv /\ pc = "divide"
      /\ UNCHANGED <<call, original, degree, round>>
  BY DEF DivisionInv, Divide
<1>2. /\ n \in Nat \ {0} /\ call.length \in Nat /\ call.length >= n /\ Rounds \in Nat
      /\ degree \in Nat /\ degree <= call.length - 1
      /\ round \in Nat /\ round \in 0..(Rounds - 1) /\ k \in ThreadsOf(round)
      /\ at \in [ThreadsOf(round) -> Nat]
  BY <1>1, Sizes DEF RoundInv
<1>3. PICK e \in Work(round, k) :
        /\ e > at[k] /\ \A d \in Work(round, k) : d > at[k] => e <= d
        /\ coef' = [coef EXCEPT ![idx1(round, k, e)] =
             mul(inv(call.beta), sub(coef[idx0(round, k, e)], coef[idx1(round, k, e)]))]
        /\ pc' = IF /\ IsChecked(idx1(round, k, e))
                    /\ mul(inv(call.beta), sub(coef[idx0(round, k, e)], coef[idx1(round, k, e)])) # 0
                 THEN "thrown" ELSE "divide"
        /\ at' = [at EXCEPT ![k] = e]
  BY DEF Divide
<1> DEFINE x0 == idx0(round, k, e)
<1> DEFINE x1 == idx1(round, k, e)
<1>4. /\ x1 \in n..(call.length - 1) /\ x0 = x1 - n /\ x0 \in 0..(call.length - 1)
      /\ ~Zh => x1 <= degree
  BY <1>1, <1>2, Scope
<1>5. e \in Nat \ {0} /\ \A r, l : Work(r, l) \subseteq Nat \ {0}
  BY <1>1, <1>2, Sizes
<1>6. /\ n' = n /\ (Zh' <=> Zh) /\ Rounds' = Rounds
      /\ \A r : ThreadsOf(r)' = ThreadsOf(r)
      /\ \A r, l : Work(r, l)' = Work(r, l)
      /\ \A r, l, d : idx1(r, l, d)' = idx1(r, l, d)
      /\ \A q : IsQuotient(q)' <=> IsQuotient(q)
  BY <1>1, SameCall
<1>7. ASSUME NEW r \in 0..(Rounds - 1), NEW l \in ThreadsOf(r), NEW d \in Work(r, l)
      PROVE  HasComputed(r, l, d)' <=> HasComputed(r, l, d) \/ (r = round /\ l = k /\ d = e)
  <2>1. CASE r = round /\ l = k
    <3>1. HasComputed(r, l, d)' <=> d <= e
      BY <1>1, <1>2, <1>3, <2>1 DEF HasComputed
    <3>2. HasComputed(r, l, d) <=> d <= at[k]
      BY <1>2, <2>1 DEF HasComputed
    <3>3. d \in Nat /\ at[k] \in Nat /\ (d > at[k] => e <= d)
      BY <1>2, <1>3, <1>5, <2>1
    <3> QED
      BY <1>3, <1>5, <2>1, <3>1, <3>2, <3>3
  <2>2. CASE ~(r = round /\ l = k)
    <3>1. r = round => at'[l] = at[l]
      BY <1>2, <1>3, <2>2
    <3> QED
      BY <1>1, <2>2, <3>1 DEF HasComputed
  <2> QED
    BY <2>1, <2>2
<1>8. x1 \notin Computed
  <2>1. ASSUME NEW r \in 0..(Rounds - 1), NEW l \in ThreadsOf(r), NEW d \in Work(r, l),
               x1 = idx1(r, l, d), HasComputed(r, l, d)
        PROVE  FALSE
    <3>1. r = round /\ k = l /\ e = d
      BY <1>1, <1>2, <2>1, ElementsDiffer
    <3>2. e <= at[k]
      BY <1>2, <2>1, <3>1 DEF HasComputed
    <3> QED
      BY <1>2, <1>3, <1>5, <3>2
  <2> HIDE DEF x1
  <2> QED
    BY <1>2, <1>4, <2>1 DEF Computed
<1>9. x0 \in Computed
  <2>1. CASE x0 \in 0..(n - 1)
    BY <1>2, <1>4, <2>1 DEF Computed
  <2>2. CASE /\ round - 1 \in 0..(Rounds - 1) /\ k \in ThreadsOf(round - 1)
             /\ e \in Work(round - 1, k) /\ x0 = idx1(round - 1, k, e)
    <3>1. HasComputed(round - 1, k, e)
      BY <1>2 DEF HasComputed
    <3> HIDE DEF x0
    <3> QED
      BY <1>4, <2>2, <3>1 DEF Computed
  <2>3. CASE \E d \in Work(round, k) : d < e /\ x0 = idx1(round, k, d)
    <3>1. PICK d \in Work(round, k) : d < e /\ x0 = idx1(round, k, d)
      BY <2>3
    <3>2. d <= at[k]
      BY <1>2, <1>3, <1>5, <3>1
    <3>3. HasComputed(round, k, d)
      BY <3>2 DEF HasComputed
    <3> HIDE DEF x0
    <3> QED
      BY <1>2, <1>4, <3>1, <3>3 DEF Computed
  <2> QED
    BY <1>1, <1>2, <2>1, <2>2, <2>3, Below
<1>10. Computed' = Computed \cup {x1}
  <2>1. \A p \in 0..(call.length - 1) : p \in Computed' <=> p \in Computed \/ p = x1
    <3> SUFFICES ASSUME NEW p \in 0..(call.length - 1)
                 PROVE  p \in Computed' <=> p \in Computed \/ p = x1
      OBVIOUS
    <3>1. p \in Computed' <=>
            \/ p < n
            \/ \E r \in 0..(Rounds - 1) : \E l \in ThreadsOf(r) : \E d \in Work(r, l) :
                 p = idx1(r, l, d) /\ HasComputed(r, l, d)'
      BY <1>1, <1>6 DEF Computed
    <3>2. p \in Computed <=>
            \/ p < n
            \/ \E r \in 0..(Rounds - 1) : \E l \in ThreadsOf(r) : \E d \in Work(r, l) :
                 p = idx1(r, l, d) /\ HasComputed(r, l, d)
      BY DEF Computed
    <3> QED
      BY <1>2, <1>7, <3>1, <3>2
  <2>2. Computed' \subseteq 0..(call.length - 1) /\ Computed \subseteq 0..(call.length - 1)
    BY <1>1 DEF Computed
  <2>3. x1 \in 0..(call.length - 1)
    BY <1>2, <1>4
  <2> HIDE DEF x1
  <2> QED
    BY <2>1, <2>2, <2>3
<1>11. /\ coef \in [0..(call.length - 1) -> Fr] /\ coef[x1] = original[x1]
       /\ original \in [0..(call.length - 1) -> Fr] /\ call.beta \in Fr \ {0}
  <2>1. coef \in [0..(call.length - 1) -> Fr]
    BY <1>1 DEF CoefInv
  <2>2. x1 \in 0..(call.length - 1)
    BY <1>2, <1>4
  <2> HIDE DEF x1
  <2>3. coef[x1] = original[x1]
    BY <1>1, <1>8, <2>2 DEF CoefInv
  <2> QED
    BY <1>1, <2>1, <2>3 DEF CallInv
<1> DEFINE y == mul(inv(call.beta), sub(coef[x0], original[x1]))
<1>12. y \in Fr /\ sub(coef[x0], mul(call.beta, y)) = original[x1]
  <2>1. coef[x0] \in Fr /\ original[x1] \in Fr
    BY <1>2, <1>4, <1>11
  <2>2. y \in Fr
    BY <1>11, <2>1, ElementIsInFr
  <2> QED
    BY <1>11, <2>1, <2>2, Element
<1>13. /\ coef' = [coef EXCEPT ![x1] = y]
       /\ pc' = IF IsChecked(x1) /\ y # 0 THEN "thrown" ELSE "divide"
  BY <1>3, <1>11
<1> HIDE DEF x0, x1, y
<1>14. x1 \in 0..(call.length - 1) /\ x1 >= n
  BY <1>2, <1>4
<1>15. /\ coef' \in [0..(call.length - 1) -> Fr] /\ coef'[x1] = y
       /\ \A p \in 0..(call.length - 1) : p # x1 => coef'[p] = coef[p]
  BY <1>11, <1>12, <1>13, <1>14
<1>16. \A i : i # x1 => at0(coef', i) = at0(coef, i)
  BY <1>11, <1>15 DEF at0
<1>17. RoundInv'
  <2>1. at' \in [ThreadsOf(round) -> Nat]
    BY <1>2, <1>3, <1>5
  <2> QED
    BY <1>1, <1>2, <1>6, <1>13, <2>1 DEF RoundInv
<1>18. CoefInv'
  <2>1. ASSUME NEW p \in 0..(call.length - 1)
        PROVE  IF p \in Computed \cup {x1}
               THEN /\ p >= n => p - n \in Computed \cup {x1}
                    /\ sub(at0(coef', p - n), mul(call.beta, coef'[p])) = original[p]
               ELSE coef'[p] = original[p]
    <3>1. CASE p = x1
      <4>1. p - n = x0 /\ x0 # x1
        BY <1>2, <1>4, <1>14, <3>1
      <4>2. at0(coef', p - n) = coef[x0]
        BY <1>4, <1>11, <1>16, <4>1 DEF at0
      <4> QED
        BY <1>9, <1>12, <1>15, <3>1, <4>1, <4>2
    <3>2. CASE p # x1 /\ p \in Computed
      <4>1. /\ p >= n => p - n \in Computed
            /\ sub(at0(coef, p - n), mul(call.beta, coef[p])) = original[p]
        BY <1>1, <3>2 DEF CoefInv
      <4>2. p - n # x1
        BY <1>2, <1>8, <1>14, <4>1
      <4> QED
        BY <1>15, <1>16, <3>2, <4>1, <4>2
    <3>3. CASE p # x1 /\ p \notin Computed
      BY <1>1, <1>15, <3>3 DEF CoefInv
    <3> QED
      BY <3>1, <3>2, <3>3
  <2> QED
    BY <1>1, <1>6, <1>10, <1>15, <2>1 DEF CoefInv
<1>19. Computed \subseteq 0..(call.length - 1)
  BY DEF Computed
<1>20. RemainderInv'
  <2>1. CASE pc' = "thrown"
    <3>1. IsChecked(x1) /\ y # 0
      BY <1>13, <2>1
    <3>2. ~Zh
      BY <1>1, <1>2, <3>1, ZhIsNotChecked
    <3>3. x1 > degree - n
      BY <3>1, <3>2 DEF IsChecked
    <3>4. \E p \in Computed \cup {x1} : p > degree - n /\ coef'[p] # 0
      BY <1>15, <3>1, <3>3
    <3> QED
      BY <1>1, <1>6, <1>10, <2>1, <3>4 DEF RemainderInv
  <2>2. CASE pc' # "thrown"
    <3>1. ~Zh /\ x1 > degree - n => y = 0
      BY <1>13, <2>2 DEF IsChecked
    <3>2. ~Zh => \A p \in Computed : p >= n /\ p > degree - n => coef[p] = 0
      BY <1>1 DEF RemainderInv
    <3>3. ~Zh => \A p \in Computed \cup {x1} : p >= n /\ p > degree - n => coef'[p] = 0
      BY <1>15, <1>19, <3>1, <3>2
    <3> QED
      BY <1>1, <1>6, <1>10, <2>2, <3>3 DEF RemainderInv
  <2> QED
    BY <2>1, <2>2
<1>21. QuotientInv'
  <2>1. ASSUME NEW q \in [0..(degree - n) -> Fr], IsQuotient(q), NEW p \in Computed \cup {x1}
        PROVE  coef'[p] = at0(q, p)
    <3>1. \A i \in Computed : coef[i] = at0(q, i)
      BY <1>1, <2>1 DEF QuotientInv
    <3>2. CASE p = x1
      <4>1. at0(q, x1) = mul(inv(call.beta), sub(at0(q, x0), original[x1]))
        BY <1>1, <1>4, <1>14, <2>1, QuotientCoefficient
      <4>2. coef[x0] = at0(q, x0)
        BY <1>9, <3>1
      <4> QED
        BY <1>15, <3>2, <4>1, <4>2 DEF y
    <3>3. CASE p # x1
      BY <1>15, <1>19, <2>1, <3>1, <3>3
    <3> QED
      BY <3>2, <3>3
  <2> QED
    BY <1>1, <1>6, <1>10, <2>1 DEF QuotientInv
<1> QED
  BY <1>17, <1>18, <1>20, <1>21

\* A round that all threads have ended leaves nothing of it to the next one.
LEMMA NextRoundStep ==
  ASSUME DivisionInv, SharesThePlaces, NextRound
  PROVE  RoundInv' /\ CoefInv' /\ RemainderInv' /\ QuotientInv'
<1>1. /\ CallInv /\ RoundInv /\ CoefInv /\ RemainderInv /\ QuotientInv /\ pc = "divide"
      /\ UNCHANGED <<call, original, coef, degree>>
      /\ \A k \in ThreadsOf(round) : HasEnded(k)
      /\ round' = round + 1 /\ pc' = IF round + 1 = Rounds THEN "done" ELSE "divide"
      /\ at' = Start(round')
  BY DEF DivisionInv, NextRound
<1>2. /\ Rounds \in Nat /\ round \in 0..(Rounds - 1) /\ \A r, k : Work(r, k) \subseteq Nat \ {0}
  BY <1>1, Sizes DEF RoundInv
<1>3. /\ n' = n /\ (Zh' <=> Zh) /\ Rounds' = Rounds
      /\ \A r : ThreadsOf(r)' = ThreadsOf(r)
      /\ \A r, k : Work(r, k)' = Work(r, k)
      /\ \A r, k, e : idx1(r, k, e)' = idx1(r, k, e)
      /\ \A q : IsQuotient(q)' <=> IsQuotient(q)
  BY <1>1, SameCall
<1>4. at' = [k \in ThreadsOf(round + 1) |-> 0]
  <2>1. Start(round') = [k \in ThreadsOf(round') |-> 0]
    BY DEF Start
  <2> QED
    BY <1>1, <2>1
<1>5. RoundInv'
  <2>1. ThreadsOf(round)' = ThreadsOf(round + 1)
    BY <1>1 DEF ThreadsOf, Zh, nThreads, n
  <2>2. at' \in [ThreadsOf(round + 1) -> Nat]
    BY <1>4
  <2> QED
    BY <1>1, <1>2, <1>3, <2>1, <2>2 DEF RoundInv
<1>6. ASSUME NEW r \in 0..(Rounds - 1), NEW k \in ThreadsOf(r), NEW e \in Work(r, k)
      PROVE  HasComputed(r, k, e)' <=> HasComputed(r, k, e)
  <2>1. e \in Nat \ {0}
    BY <1>2
  <2>2. r = round => e <= at[k]
    BY <1>1, <1>6 DEF HasEnded
  <2>3. r = round + 1 => ~(e <= at'[k])
    BY <1>4, <2>1
  <2> QED
    BY <1>1, <1>2, <2>2, <2>3 DEF HasComputed
<1>7. Computed' = Computed
  BY <1>1, <1>3, <1>6 DEF Computed
<1>8. CoefInv'
  BY <1>1, <1>3, <1>7 DEF CoefInv, at0
<1>9. RemainderInv'
  BY <1>1, <1>3, <1>7 DEF RemainderInv
<1>10. QuotientInv'
  BY <1>1, <1>3, <1>7 DEF QuotientInv, at0
<1> QED
  BY <1>5, <1>8, <1>9, <1>10

-----------------------------------------------------------------------------
\* The OpenMP threads of divZh and divByZerofier write disjoint coefficients, and
\* none that another of the round reads, if they divide n or have a place each.
THEOREM Threading == Spec => []ThreadsAreDisjoint
<1>1. Spec => []CallInv
  BY CallInit, CallStays, PTL DEF Spec
<1> QED
  BY <1>1, Disjoint, PTL

-----------------------------------------------------------------------------
\* A division starts in its invariant.
LEMMA DivisionInit == Init => DivisionInv
<1> SUFFICES ASSUME Init PROVE DivisionInv
  OBVIOUS
<1>1. CallInv
  BY CallInit
<1> QED
  BY <1>1 DEF Init, DivisionInv

\* Each of its steps keeps it.
LEMMA DivisionStays == DivisionInv /\ [Next]_vars => DivisionInv'
<1> SUFFICES ASSUME DivisionInv, [Next]_vars PROVE DivisionInv'
  OBVIOUS
<1>1. CallInv /\ CallInv'
  BY CallStays DEF DivisionInv
<1>2. UNCHANGED <<call, original, degree>>
  BY DEF Next, vars, Scale, Divide, NextRound, Ended
<1>3. SharesThePlaces' <=> SharesThePlaces
  BY <1>2, SameCall
<1>4. CASE Scale
  <2>1. pc' # "scale"
    BY <1>4 DEF Scale
  <2> QED
    BY <1>1, <1>3, <1>4, <2>1, ScaleStep DEF DivisionInv
<1>5. CASE \E k \in DOMAIN at : Divide(k)
  <2>1. PICK k \in DOMAIN at : Divide(k)
    BY <1>5
  <2>2. pc' # "scale"
    BY <2>1 DEF Divide
  <2> QED
    BY <1>1, <1>3, <2>1, <2>2, DivideStep DEF DivisionInv
<1>6. CASE NextRound
  <2>1. pc' # "scale"
    BY <1>6 DEF NextRound
  <2> QED
    BY <1>1, <1>3, <1>6, <2>1, NextRoundStep DEF DivisionInv
<1>7. CASE UNCHANGED vars
  <2>1. UNCHANGED <<call, original, coef, degree, pc, round, at>>
    BY <1>7 DEF vars
  <2>2. /\ n' = n /\ (Zh' <=> Zh) /\ Rounds' = Rounds
        /\ \A r : ThreadsOf(r)' = ThreadsOf(r)
        /\ \A r, k : Work(r, k)' = Work(r, k)
        /\ \A r, k, e : idx1(r, k, e)' = idx1(r, k, e)
        /\ \A q : IsQuotient(q)' <=> IsQuotient(q)
    BY <2>1, SameCall
  <2>3. Computed' = Computed
    BY <2>1, <2>2 DEF Computed, HasComputed
  <2>4. RoundInv => RoundInv'
    <3>1. ThreadsOf(round)' = ThreadsOf(round)
      BY <2>1 DEF ThreadsOf, Zh, nThreads, n
    <3> QED
      BY <2>1, <2>2, <3>1 DEF RoundInv
  <2>5. CoefInv => CoefInv'
    BY <2>1, <2>2, <2>3 DEF CoefInv, at0
  <2>6. RemainderInv => RemainderInv'
    BY <2>1, <2>2, <2>3 DEF RemainderInv
  <2>7. QuotientInv => QuotientInv'
    BY <2>1, <2>2, <2>3 DEF QuotientInv, at0
  <2> QED
    BY <1>1, <1>3, <2>1, <2>4, <2>5, <2>6, <2>7 DEF DivisionInv
<1> QED
  BY <1>4, <1>5, <1>6, <1>7 DEF Next, Ended

\* At every moment the coefficients computed are those of the quotient, if there is one,
\* and the others those of the call.
THEOREM Dividing == Spec => []DivisionInv
  BY DivisionInit, DivisionStays, PTL DEF Spec

-----------------------------------------------------------------------------
\* When all rounds are over, every coefficient is computed, but for those that
\* divByZerofier leaves above the degree, which are zero.
LEMMA AllComputed ==
  ASSUME DivisionInv, SharesThePlaces, pc = "done", NEW p \in 0..(call.length - 1)
  PROVE  p \in Computed \/ (~Zh /\ p > degree /\ coef[p] = 0)
<1>1. CallInv /\ RoundInv /\ CoefInv /\ round = Rounds
  BY DEF DivisionInv, RoundInv
<1>2. n \in Nat \ {0} /\ degree \in Nat /\ call.length \in Nat /\ Rounds \in Nat
  BY <1>1, Sizes
<1>3. CASE p < n
  BY <1>3 DEF Computed
<1>4. CASE ~(p < n) /\ (Zh \/ p <= degree)
  <2>1. p \in n..(call.length - 1)
    BY <1>2, <1>4
  <2>2. PICK r \in 0..(Rounds - 1) : \E k \in ThreadsOf(r) : \E e \in Work(r, k) : p = idx1(r, k, e)
    BY <1>1, <1>4, <2>1, Cover
  <2>3. \A k, e : HasComputed(r, k, e)
    BY <1>1, <1>2 DEF HasComputed
  <2> QED
    BY <2>2, <2>3 DEF Computed
<1>5. CASE ~Zh /\ p > degree
  <2>1. original[p] = 0
    BY <1>1, <1>5 DEF CallInv, IsDegree
  <2> QED
    BY <1>1, <1>5, <2>1 DEF CoefInv
<1> QED
  BY <1>2, <1>3, <1>4, <1>5

\* The coefficients of the quotient of a polynomial that is divisible are those computed.
LEMMA Quotients ==
  ASSUME DivisionInv, SharesThePlaces, pc = "done",
         NEW q \in [0..(degree - n) -> Fr], IsQuotient(q)
  PROVE  IsQuotient(coef)
<1>1. CallInv /\ CoefInv /\ QuotientInv
  BY DEF DivisionInv
<1>2. /\ n \in Nat \ {0} /\ degree \in Nat /\ call.length \in Nat /\ degree <= call.length - 1
      /\ coef \in [0..(call.length - 1) -> Fr]
  BY <1>1, Sizes DEF CoefInv
<1>3. ASSUME NEW i \in Int
      PROVE  at0(coef, i) = at0(q, i)
  <2>1. CASE i \in 0..(call.length - 1)
    <3>1. i \in Computed => coef[i] = at0(q, i)
      BY <1>1 DEF QuotientInv
    <3>2. i > degree => at0(q, i) = 0
      BY <1>2 DEF at0
    <3>3. at0(coef, i) = coef[i]
      BY <1>2, <2>1 DEF at0
    <3> QED
      BY <2>1, <3>1, <3>2, <3>3, AllComputed
  <2>2. CASE i \notin 0..(call.length - 1)
    <3>1. i \notin 0..(degree - n)
      BY <1>2, <2>2
    <3> QED
      BY <1>2, <2>2, <3>1 DEF at0
  <2> QED
    BY <2>1, <2>2
<1>4. \A i \in 0..(call.length - 1 + n) : i \in Int /\ i - n \in Int
  BY <1>2
<1> QED
  BY <1>3, <1>4 DEF IsQuotient

\* Whatever the threads and their order, divZh and divByZerofier return the quotient
\* of a polynomial that is divisible, and never throw for it.
THEOREM Division == Spec => []DividesInShares
<1>1. DivisionInv => DividesInShares
  <2> SUFFICES ASSUME DivisionInv, SharesThePlaces, NEW q \in [0..(degree - n) -> Fr],
                      IsQuotient(q)
               PROVE  pc # "thrown" /\ (pc = "done" => IsQuotient(coef))
    BY DEF DividesInShares, Divides, Divisible
  <2>1. ASSUME pc = "thrown" PROVE FALSE
    <3>1. RemainderInv /\ QuotientInv
      BY <2>1 DEF DivisionInv
    <3>2. PICK p \in Computed : p > degree - n /\ coef[p] # 0
      BY <2>1, <3>1 DEF RemainderInv
    <3>3. coef[p] = at0(q, p)
      BY <3>1 DEF QuotientInv
    <3>4. n \in Nat /\ degree \in Nat /\ p \in Int
      BY Sizes DEF DivisionInv, Computed
    <3>5. p \notin 0..(degree - n)
      BY <3>2, <3>4
    <3> QED
      BY <3>2, <3>3, <3>5 DEF at0
  <2> QED
    BY <2>1, Quotients
<1> QED
  BY <1>1, Dividing, PTL

\* divByZerofier returns only if the polynomial is divisible, from the degree on at
\* which every coefficient above that of the quotient is checked.
THEOREM Remainder == Spec => []RemainderIsReported
<1>1. DivisionInv => RemainderIsReported
  <2> SUFFICES ASSUME DivisionInv, ~Zh, SharesThePlaces, degree >= 2 * n - 1, pc = "done"
               PROVE  Divisible
    BY DEF RemainderIsReported
  <2>1. CallInv /\ CoefInv /\ RemainderInv
    BY DEF DivisionInv
  <2>2. /\ n \in Nat \ {0} /\ degree \in Nat /\ call.length \in Nat /\ degree <= call.length - 1
        /\ coef \in [0..(call.length - 1) -> Fr] /\ original \in [0..(call.length - 1) -> Fr]
        /\ call.beta \in Fr \ {0}
    BY <2>1, Sizes DEF CoefInv, CallInv
  <2> DEFINE q == [i \in 0..(degree - n) |-> coef[i]]
  <2>3. q \in [0..(degree - n) -> Fr]
    BY <2>2
  <2>4. ASSUME NEW i \in 0..(call.length - 1), i > degree - n
        PROVE  coef[i] = 0
    <3>1. i >= n
      BY <2>2, <2>4
    <3>2. i \in Computed => coef[i] = 0
      BY <2>1, <2>4, <3>1 DEF RemainderInv
    <3> QED
      BY <3>2, AllComputed
  <2>5. ASSUME NEW i \in Int
        PROVE  /\ at0(q, i) = at0(coef, i) /\ (i > degree - n => at0(q, i) = 0)
               /\ at0(q, i) \in Fr
    <3>1. CASE i \in 0..(degree - n)
      <4>1. i \in 0..(call.length - 1)
        BY <2>2, <3>1
      <4> QED
        BY <2>2, <3>1, <4>1 DEF at0
    <3>2. CASE i \notin 0..(degree - n)
      <4>1. at0(q, i) = 0 /\ 0 \in Fr
        BY <3>2, DivisionAssumption DEF at0, Fr
      <4>2. i \in 0..(call.length - 1) => coef[i] = 0
        BY <2>2, <2>4, <3>2
      <4>3. at0(coef, i) = 0
        BY <2>2, <4>2 DEF at0
      <4> QED
        BY <4>1, <4>3
    <3> QED
      BY <3>1, <3>2
  <2> HIDE DEF q
  <2>6. ASSUME NEW i \in 0..(call.length - 1 + n)
        PROVE  sub(at0(q, i - n), mul(call.beta, at0(q, i))) = at0(original, i)
    <3>1. i \in Int /\ i - n \in Int
      BY <2>2
    <3>2. CASE i \in 0..(call.length - 1) /\ i \in Computed
      <4>1. sub(at0(coef, i - n), mul(call.beta, coef[i])) = original[i]
        BY <2>1, <3>2 DEF CoefInv
      <4>2. at0(coef, i) = coef[i] /\ at0(original, i) = original[i]
        BY <2>2, <3>2 DEF at0
      <4> QED
        BY <2>5, <3>1, <4>1, <4>2
    <3>3. CASE ~(i \in 0..(call.length - 1) /\ i \in Computed)
      <4>1. i > degree
        BY <2>2, <3>3, AllComputed
      <4>2. at0(original, i) = 0
        BY <2>1, <2>2, <4>1 DEF at0, CallInv, IsDegree
      <4>3. at0(q, i) = 0 /\ at0(q, i - n) = 0
        BY <2>2, <2>5, <3>1, <4>1
      <4>4. sub(0, mul(call.beta, 0)) = 0
        BY <2>2, ZeroElement
      <4> QED
        BY <4>2, <4>3, <4>4
    <3> QED
      BY <3>2, <3>3
  <2>7. IsQuotient(q)
    BY <2>6 DEF IsQuotient
  <2> QED
    BY <2>3, <2>7 DEF Divisible
<1> QED
  BY <1>1, Dividing, PTL
=============================================================================
