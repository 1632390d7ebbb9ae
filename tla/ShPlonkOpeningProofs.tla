------------------------ MODULE ShPlonkOpeningProofs ------------------------
(***************************************************************************)
(* Whatever the key, the coefficients and the challenges, the verifier's   *)
(* equation holds of what open() sends: the linearisation at y, multiplied *)
(* back, is the combination that the verifier forms from the commitments   *)
(* and the evaluations (IInv).  And when the roots of each f are different *)
(* no check refuses it: the divisions by their zerofiers leave no rest,    *)
(* since each f takes the values of its R there, W has the degree asked of *)
(* it, and the linearisation is zero at y (HonestInv).  Last, what open() *)
(* inverts is what the verifier divides by: the n roots of an opening      *)
(* point are those of X^n - c, whose slope at a root s is n s^(n - 1), the *)
(* product of its differences to the others.                               *)
(***************************************************************************)
EXTENDS ShPlonkOpening, PrimeFieldProofs

\* What the key of a proof and its inputs are.
KeyInv == key \in Keys /\ buffCoefs \in Inputs(key)

ControlInv ==
  /\ pc \in {"commit", "roots", "evaluations", "R", "W", "Wp", "inverse", "done", "error",
             "outOfBounds"}
  /\ stage \in Stages
  /\ xiSeed \in Fr /\ alpha \in Fr /\ y \in Fr /\ inverse \in Fr

AllPolynomials(m) == \A name \in DOMAIN m : m[name] \in polys
PolynomialsInv == AllPolynomials(polynomialsShPlonk) /\ AllPolynomials(polynomialCommitments)

\* Once the stage of an f is over, its polynomial and its commitment are the ones of
\* the coefficients.
Known(m, i) == <<"f", i>> \in DOMAIN m /\ m[<<"f", i>>] = getCommittedPolynomial(i)
Sent(i) == pc # "commit" \/ f[i].stage < stage
CommittedInv ==
  \A i \in F : Sent(i) => Known(polynomialsShPlonk, i) /\ Known(polynomialCommitments, i)

Roots(seed) == [i \in F |-> [m \in 1..nRoots(i) |-> root(seed, i, m)]]
RootsInv == pc \notin {"commit", "roots"} => rootsMap = Roots(xiSeed)

\* The evaluations are those of CalculateEvaluations, by name.
EvaluationNames == {evaluationName(f[t[1]].pols[t[2]], t[3]) : t \in Opened}
EvaluationOf(name) ==
  LET t == CHOOSE t \in Opened : evaluationName(f[t[1]].pols[t[2]], t[3]) = name
  IN  evaluation(t[1], t[2], t[3])
Evaluations == [name \in EvaluationNames |-> EvaluationOf(name)]
EvaluationsInv ==
  IF pc \in {"commit", "roots", "evaluations"} THEN evaluationCommitments = <<>>
  ELSE evaluationCommitments = Evaluations

\* Each R is interpolated from the values of the committed polynomial at its roots.
ValuesAt(i) == [m \in 1..nRoots(i) |-> evaluatePol(getCommittedPolynomial(i), rootsMap[i][m])]
RPol(i) == lagrangePolynomialInterpolation(rootsMap[i], ValuesAt(i))
RInv ==
  pc \in {"W", "Wp", "inverse", "done"} =>
    \A i \in F : <<"R", i>> \in DOMAIN polynomialsShPlonk /\ polynomialsShPlonk[<<"R", i>>] = RPol(i)

\* The committed Wp is the quotient of the combination of the f, of the R and of the
\* committed W, and the division left no rest.
Term(i, point) ==
  mulScalar(subScalar(getCommittedPolynomial(i), evaluatePol(RPol(i), point)), preL(i, point))
Dividend(pW, point) ==
  mulScalar(minus(FoldLeft(plus, Zero, [i \in F |-> Term(i, point)]), mulScalar(pW, ZT(point))),
            inv(ZTS2(point)))
WInv ==
  pc = "Wp" => /\ W \in DOMAIN polynomialCommitments /\ W \in DOMAIN polynomialsShPlonk
               /\ polynomialsShPlonk[W] = polynomialCommitments[W]
QuotientInv ==
  pc \in {"inverse", "done"} =>
    /\ W \in DOMAIN polynomialCommitments /\ Wp \in DOMAIN polynomialCommitments
    /\ polynomialCommitments[Wp] = divByXSubValue(Dividend(polynomialCommitments[W], y), y)
    /\ dividedByX(Dividend(polynomialCommitments[W], y), y)

IInv ==
  /\ KeyInv /\ ControlInv /\ PolynomialsInv /\ CommittedInv /\ RootsInv /\ EvaluationsInv
  /\ RInv /\ WInv /\ QuotientInv

\* The names of the polynomials are different.
LEMMA NamesDiffer ==
  /\ W # Wp
  /\ \A i, j : /\ <<"f", i>> # <<"R", j>> /\ <<"f", i>> # W /\ <<"f", i>> # Wp
              /\ <<"R", i>> # W /\ <<"R", i>> # Wp
              /\ (<<"f", i>> = <<"f", j>> => i = j) /\ (<<"R", i>> = <<"R", j>> => i = j)
<1>1. W # Wp
  BY DEF W, Wp
<1>2. ASSUME NEW i, NEW j
      PROVE  /\ <<"f", i>> # <<"R", j>> /\ <<"f", i>> # W /\ <<"f", i>> # Wp
             /\ <<"R", i>> # W /\ <<"R", i>> # Wp
             /\ (<<"f", i>> = <<"f", j>> => i = j) /\ (<<"R", i>> = <<"R", j>> => i = j)
  <2>1. <<"f", i>> # <<"R", j>>
    OBVIOUS
  <2>2. Len(<<"f", i>>) = 2 /\ Len(<<"R", i>>) = 2 /\ Len(W) = 1 /\ Len(Wp) = 1
    BY DEF W, Wp
  <2>3. /\ <<"f", i>> # W /\ <<"f", i>> # Wp
        /\ <<"R", i>> # W /\ <<"R", i>> # Wp
    BY <2>2
  <2>4. (<<"f", i>> = <<"f", j>> => i = j) /\ (<<"R", i>> = <<"R", j>> => i = j)
    OBVIOUS
  <2> QED
    BY <2>1, <2>3, <2>4
<1> QED
  BY <1>1, <1>2

\* Polynomials put into a map of polynomials leave one,
LEMMA PutPolynomials ==
  ASSUME NEW b, AllPolynomials(b), NEW new, AllPolynomials(new)
  PROVE  AllPolynomials(PutAll(b, new))
BY DEF AllPolynomials, PutAll

\* a single one too.
LEMMA PutPolynomial ==
  ASSUME NEW b, AllPolynomials(b), NEW name, NEW v \in polys
  PROVE  AllPolynomials(Put(b, name, v))
BY DEF AllPolynomials, PutAll, Put

\* What is known of an f stays known when something else is put into the map.
LEMMA PutKnown ==
  ASSUME NEW b, NEW name, NEW v, NEW i, Known(b, i), <<"f", i>> # name
  PROVE  Known(Put(b, name, v), i)
<1> DEFINE n == <<"f", i>>
           c == Put(b, name, v)
<1>1. n \in DOMAIN b /\ b[n] = getCommittedPolynomial(i) /\ n # name
  BY DEF Known
<1>2. /\ DOMAIN c = DOMAIN b \cup {name}
      /\ \A other \in DOMAIN b : other # name => c[other] = b[other]
  BY DEF Put, PutAll
<1> HIDE DEF n, c
<1>3. n \in DOMAIN c /\ c[n] = b[n]
  BY <1>1, <1>2
<1> QED
  BY <1>1, <1>3 DEF Known, n, c

\* The f's, their polynomials and opening points are counted from 1.
LEMMA KeyFacts ==
  ASSUME KeyInv
  PROVE  /\ key.N \in Nat \ {0} /\ key.powerW \in Nat \ {0} /\ key.nThreads \in Nat \ {0}
         /\ generator \in Fr \ {0}
         /\ Len(f) \in Nat \ {0} /\ F = 1..Len(f)
         /\ \A i \in F :
              /\ f[i].stage \in Stages /\ f[i].degree \in Nat
              /\ nPols(i) \in Nat \ {0} /\ DOMAIN f[i].pols = 1..nPols(i)
              /\ Len(f[i].openingPoints) \in Nat \ {0} /\ nRoots(i) \in Nat \ {0}
              /\ \A k \in 1..Len(f[i].openingPoints) : f[i].openingPoints[k] \in 0..(key.N - 1)
<1>1. KeyType(key)
  BY ShKeyAssumption DEF KeyInv
<1>2. /\ key.N \in Nat \ {0} /\ key.powerW \in Nat \ {0} /\ key.nThreads \in Nat \ {0}
      /\ generator \in Fr \ {0} /\ Len(f) \in Nat \ {0} /\ F = 1..Len(f)
  BY <1>1 DEF KeyType, NotEmpty, f, F, generator
<1>3. ASSUME NEW i \in F
      PROVE  /\ f[i].stage \in Stages /\ f[i].degree \in Nat
             /\ nPols(i) \in Nat \ {0} /\ DOMAIN f[i].pols = 1..nPols(i)
             /\ Len(f[i].openingPoints) \in Nat \ {0} /\ nRoots(i) \in Nat \ {0}
             /\ \A k \in 1..Len(f[i].openingPoints) : f[i].openingPoints[k] \in 0..(key.N - 1)
  <2>1. /\ f[i].stage \in Stages /\ f[i].degree \in Nat
        /\ NotEmpty(f[i].pols) /\ NotEmpty(f[i].openingPoints)
        /\ f[i].openingPoints \in Seq(0..(key.N - 1))
    BY <1>1, <1>3 DEF KeyType, f, F
  <2>2. nPols(i) \in Nat \ {0} /\ DOMAIN f[i].pols = 1..nPols(i)
    BY <2>1 DEF NotEmpty, nPols
  <2>3. /\ Len(f[i].openingPoints) \in Nat \ {0}
        /\ \A k \in 1..Len(f[i].openingPoints) : f[i].openingPoints[k] \in 0..(key.N - 1)
    <3> DEFINE points == f[i].openingPoints
               S == 0..(key.N - 1)
    <3>1. points \in Seq(S) /\ Len(points) \in Nat \ {0}
      BY <2>1 DEF NotEmpty
    <3> HIDE DEF points, S
    <3>2. \A k \in 1..Len(points) : points[k] \in S
      BY <3>1
    <3> QED
      BY <3>1, <3>2 DEF points, S
  <2> DEFINE a == nPols(i)
             b == Len(f[i].openingPoints)
  <2>4. a \in Nat \ {0} /\ b \in Nat \ {0}
    BY <2>2, <2>3
  <2> HIDE DEF a, b
  <2>5. a * b \in Nat \ {0}
    BY <2>4
  <2>6. nRoots(i) \in Nat \ {0}
    BY <2>5 DEF nRoots, a, b
  <2> QED
    BY <2>1, <2>2, <2>3, <2>6
<1> QED
  BY <1>2, <1>3

\* The j-th polynomial of an f is the one its name finds, has a place for each of its
\* coefficients and is in the buffer of its stage.
column(i, j) ==
  [row \in 0..(lengths(i, j) - 1) |-> buffCoefs[f[i].stage][row][polsIds(i, j)]]

\* A polynomial of an f: how long it is, and that its coefficients are in the buffer of
\* its stage.
LEMMA PolynomialFacts ==
  ASSUME KeyInv, NEW i \in F, NEW j \in 1..nPols(i)
  PROVE  /\ lengths(i, j) \in Nat
         /\ lengths(i, j) * nPols(i) + (j - 1) <= f[i].degree
         /\ polsIds(i, j) = findPolId(f[i].stage, f[i].pols[j])
         /\ column(i, j) \in [0..(lengths(i, j) - 1) -> Fr]
<1> DEFINE pol == f[i]
           n == Len(pol.pols)
           p == pol.stagePols[j]
           name == pol.pols[j]
           s == pol.stage
<1>1. KeyType(key) /\ i \in DOMAIN key.f /\ pol = key.f[i]
  BY ShKeyAssumption DEF KeyInv, f, F
<1>2. /\ IsInjective(pol.pols)
      /\ [l \in 1..n |-> pol.stagePols[l].name] = pol.pols
      /\ \A l \in 1..n : pol.stagePols[l].degree * n + (l - 1) <= pol.degree
      /\ ToSet(pol.pols) \subseteq Range(key.names[s])
  BY <1>1, ShKeyAssumption DEF KeyInv
<1>3. n = nPols(i) /\ j \in 1..n /\ DOMAIN pol.pols = 1..n /\ DOMAIN pol.stagePols = 1..n
  <2>1. DOMAIN pol.stagePols = DOMAIN pol.pols
    BY <1>1 DEF KeyType
  <2> QED
    BY <2>1, KeyFacts DEF nPols
<1>4. \A l \in 1..n : pol.stagePols[l].name = pol.pols[l]
  BY <1>2
<1> HIDE DEF pol, n
<1>5. p \in ToSet(pol.stagePols) /\ p.name = name /\ p.degree \in Nat
  <2>1. \A q \in ToSet(pol.stagePols) : q.degree \in Nat
    BY <1>1 DEF KeyType
  <2>2. p \in ToSet(pol.stagePols)
    BY <1>3 DEF ToSet
  <2> QED
    BY <1>3, <1>4, <2>1, <2>2
<1>6. \A q \in ToSet(pol.stagePols) : q.name = name => q = p
  <2> SUFFICES ASSUME NEW q \in ToSet(pol.stagePols), q.name = name
               PROVE  q = p
    OBVIOUS
  <2>1. PICK l \in 1..n : q = pol.stagePols[l]
    BY <1>3 DEF ToSet
  <2>2. pol.pols[l] = pol.pols[j]
    BY <1>4, <2>1
  <2>3. l = j
    BY <1>2, <1>3, <2>2 DEF IsInjective
  <2> QED
    BY <2>1, <2>3
<1>7. (CHOOSE q \in ToSet(pol.stagePols) : q.name = name) = p
  BY <1>5, <1>6
<1>8. lengths(i, j) = p.degree
  BY <1>7 DEF lengths, findDegree, pol
<1>9. polsIds(i, j) = findPolId(s, name)
  BY <1>5 DEF polsIds, pol
<1>10. findPolId(s, name) \in DOMAIN key.names[s]
  <2>1. name \in ToSet(pol.pols)
    BY <1>3 DEF ToSet
  <2>2. \E id \in DOMAIN key.names[s] : key.names[s][id] = name
    BY <1>2, <2>1 DEF Range
  <2> QED
    BY <2>2 DEF findPolId
<1>11. \A row \in 0..(p.degree - 1) : buffCoefs[s][row][findPolId(s, name)] \in Fr
  <2> HIDE DEF p, s, name
  <2>1. p \in ToSet(key.f[i].stagePols) /\ s = key.f[i].stage
    BY <1>1, <1>5 DEF s
  <2> QED
    BY <1>1, <1>10, <2>1, InputsAssumption DEF KeyInv
<1>12. column(i, j) \in [0..(lengths(i, j) - 1) -> Fr]
  <2>1. column(i, j) = [row \in 0..(p.degree - 1) |-> buffCoefs[s][row][findPolId(s, name)]]
    BY <1>8, <1>9 DEF column, pol
  <2> HIDE DEF p, s, name
  <2> QED
    BY <1>8, <1>11, <2>1
<1> QED
  BY <1>2, <1>3, <1>5, <1>8, <1>9, <1>12 DEF pol

\* The committed polynomial of an f is its polynomials, interleaved; the commitment
\* leaves out zeros only.
LEMMA CommittedPolynomial ==
  ASSUME KeyInv, NEW i \in F
  PROVE  /\ getCommittedPolynomial(i) \in [0..f[i].degree -> Fr]
         /\ getCommittedPolynomial(i) \in polys
         /\ getDegree(getCommittedPolynomial(i)) <= f[i].degree
         /\ multiExponentiation(i, getCommittedPolynomial(i)) = getCommittedPolynomial(i)
         /\ \A x \in Fr : evaluateAt(getCommittedPolynomial(i), x)
              = sum([j \in 1..nPols(i) |->
                  mul(power(x, j - 1), evaluateAt(column(i, j), power(x, nPols(i))))])
<1> DEFINE D == f[i].degree
           n == nPols(i)
           lens == [j \in 1..n |-> lengths(i, j)]
           cols == [j \in 1..n |-> column(i, j)]
           r == getCommittedPolynomial(i)
<1>1. D \in Nat /\ n \in Nat \ {0}
  BY KeyFacts
<1>2. AreColumns(cols, lens, D, n)
  <2>1. ASSUME NEW j \in 1..n
        PROVE  /\ lens[j] \in Nat /\ cols[j] \in [0..(lens[j] - 1) -> Fr]
               /\ lens[j] * n + (j - 1) <= D
    BY PolynomialFacts
  <2>2. cols = [j \in 1..n |-> cols[j]] /\ lens = [j \in 1..n |-> lens[j]]
    OBVIOUS
  <2> HIDE DEF cols, lens, D, n
  <2> QED
    BY <2>1, <2>2 DEF AreColumns
<1>3. \A e \in 0..D : e \div n \in Nat /\ (e % n) + 1 \in 1..n
  <2> HIDE DEF D, n
  <2> QED
    BY <1>1
<1>4. \A e \in 0..D : r[e] = IF e \div n < lengths(i, (e % n) + 1)
                             THEN buffCoefs[f[i].stage][e \div n][polsIds(i, (e % n) + 1)] ELSE 0
  BY DEF getCommittedPolynomial
<1>5. r = [e \in 0..D |-> r[e]]
  BY DEF getCommittedPolynomial
<1>6. IsInterleaved(r, cols, lens, D, n)
  <2>1. ASSUME NEW e \in 0..D
        PROVE  r[e] = IF e \div n < lens[(e % n) + 1] THEN cols[(e % n) + 1][e \div n] ELSE 0
    <3> DEFINE j == (e % n) + 1
               row == e \div n
    <3>1. j \in 1..n /\ row \in Nat
      BY <1>3
    <3>2. r[e] = IF row < lengths(i, j) THEN buffCoefs[f[i].stage][row][polsIds(i, j)] ELSE 0
      BY <1>4
    <3> HIDE DEF j, row
    <3>3. lens[j] = lengths(i, j) /\ cols[j] = column(i, j) /\ lengths(i, j) \in Nat
      BY <3>1, PolynomialFacts
    <3>4. ASSUME row < lengths(i, j)
          PROVE  column(i, j)[row] = buffCoefs[f[i].stage][row][polsIds(i, j)]
      <4>1. row \in 0..(lengths(i, j) - 1)
        BY <3>1, <3>3, <3>4
      <4> QED
        BY <4>1 DEF column
    <3>5. r[e] = IF row < lens[j] THEN cols[j][row] ELSE 0
      BY <3>2, <3>3, <3>4
    <3> QED
      BY <3>5 DEF j, row
  <2> HIDE DEF r, cols, lens, D, n
  <2> QED
    BY <1>5, <2>1 DEF IsInterleaved
<1>7. \A x \in Fr : /\ r \in [0..D -> Fr]
                    /\ evaluateAt(r, x)
                         = sum([j \in 1..n |-> mul(power(x, j - 1), evaluateAt(cols[j], power(x, n)))])
  <2> HIDE DEF r, cols, lens, D, n
  <2> QED
    BY <1>1, <1>2, <1>6, EvaluateInterleaved
<1>8. r \in [0..D -> Fr]
  BY <1>7, PIsNat
<1>9. r \in polys /\ getDegree(r) <= D
  <2> HIDE DEF r, D
  <2> QED
    BY <1>1, <1>8, IsPolynomial
<1>10. \A x \in Fr : [j \in 1..n |-> mul(power(x, j - 1), evaluateAt(cols[j], power(x, n)))]
                       = [j \in 1..n |-> mul(power(x, j - 1), evaluateAt(column(i, j), power(x, n)))]
  OBVIOUS
<1>11. multiExponentiation(i, r) = r
  <2>1. \A e \in 0..D : ~(e \div n < lengths(i, (e % n) + 1)) => r[e] = 0
    BY <1>4
  <2>2. multiExponentiation(i, r)
          = [e \in 0..D |-> IF e \div n < lengths(i, (e % n) + 1) THEN r[e] ELSE 0]
    BY <1>5 DEF multiExponentiation
  <2> HIDE DEF r, D, n
  <2> QED
    BY <1>5, <2>1, <2>2
<1> QED
  BY <1>7, <1>8, <1>9, <1>10, <1>11

\* The numbers of a factor of P - 1: the root of unity of the whole, to the power of one
\* factor, is the one of the other.
LEMMA OmegaPower ==
  ASSUME KeyInv, NEW a \in Nat \ {0}, NEW b \in Nat \ {0}, (P - 1) % (a * b) = 0
  PROVE  /\ omega(a * b) \in Fr /\ omega(a) \in Fr
         /\ power(omega(a * b), b) = omega(a)
         /\ power(omega(b), b) = 1
<1> DEFINE c == a * b
           q == (P - 1) \div c
<1>1. P - 1 \in Nat \ {0} /\ c \in Nat \ {0}
  BY PIsNat
<1>2. (P - 1) % c = 0
  OBVIOUS
<1>3. q \in Nat /\ P - 1 = c * q
  <2> HIDE DEF c
  <2> QED
    BY <1>1, <1>2, Multiple
<1>4. P - 1 = a * (q * b) /\ P - 1 = b * (q * a)
  <2> HIDE DEF q
  <2> QED
    BY <1>3, PIsNat
<1>5. q * b \in Nat /\ q * a \in Nat
  BY <1>3
<1> HIDE DEF q, c
<1>6. (P - 1) \div a = q * b /\ (P - 1) \div b = q * a
  <2>1. \A m \in Nat \ {0} : \A r \in Nat : (m * r) \div m = r
    OBVIOUS
  <2> DEFINE d == q * b
             h == q * a
  <2>2. d \in Nat /\ h \in Nat /\ P - 1 = a * d /\ P - 1 = b * h
    BY <1>4, <1>5
  <2> HIDE DEF d, h
  <2>3. (a * d) \div a = d /\ (b * h) \div b = h
    BY <2>1, <2>2
  <2> QED
    BY <2>2, <2>3 DEF d, h
<1>7. omega(c) = power(generator, q)
  BY DEF omega, q
<1>8. omega(a) = power(generator, q * b) /\ omega(b) = power(generator, q * a)
  BY <1>6 DEF omega
<1>9. generator \in Fr \ {0} /\ generator \in Fr
  BY KeyFacts
<1>10. omega(c) \in Fr /\ omega(a) \in Fr /\ omega(b) \in Fr
  BY <1>3, <1>5, <1>7, <1>8, <1>9, PowerType
<1>11. power(omega(c), b) = omega(a)
  BY <1>3, <1>7, <1>8, <1>9, PowerOfPower
<1>12. power(omega(b), b) = 1
  <2> DEFINE h == q * a
  <2>1. h \in Nat /\ h * b = P - 1
    BY <1>4, <1>5
  <2> HIDE DEF h
  <2>2. power(generator, h * b) = power(power(generator, h), b)
    BY <1>9, <2>1, PowerOfPower
  <2>3. power(generator, P - 1) = 1
    BY <1>9, Fermat
  <2> QED
    BY <1>8, <2>1, <2>2, <2>3 DEF h
<1> QED
  BY <1>10, <1>11, <1>12 DEF c

\* The place of a root: the opening point it belongs to.
pointOf(i, m) == f[i].openingPoints[((m - 1) \div nPols(i)) + 1]
valueAt(seed, o) == mul(power(seed, key.powerW), power(wd(1, 1), o))

\* The roots of an f are the roots of order nPols of xi times the power of the domain's
\* root that the opening point stands for.
LEMMA RootPower ==
  ASSUME KeyInv, NEW seed \in Fr, NEW i \in F, NEW m \in 1..nRoots(i)
  PROVE  /\ root(seed, i, m) \in Fr
         /\ ((m - 1) \div nPols(i)) + 1 \in 1..Len(f[i].openingPoints)
         /\ pointOf(i, m) \in Nat
         /\ valueAt(seed, pointOf(i, m)) \in Fr
         /\ power(root(seed, i, m), nPols(i)) = valueAt(seed, pointOf(i, m))
<1> DEFINE n == nPols(i)
           o == pointOf(i, m)
           c == key.N * n
           b == key.powerW \div n
           r == (m - 1) % n
           A == wd(n, o)
           B == power(seed, b)
           C == power(w(n), r)
<1>1. n \in Nat \ {0} /\ key.N \in Nat \ {0} /\ key.powerW \in Nat \ {0}
  BY KeyFacts
<1>2. key.powerW % n = 0 /\ (P - 1) % c = 0
  <2>1. \A k \in DOMAIN key.f : key.powerW % Len(key.f[k].pols) = 0
                               /\ (P - 1) % (key.N * Len(key.f[k].pols)) = 0
    BY ShKeyAssumption DEF KeyInv
  <2> QED
    BY <2>1 DEF nPols, f, F
<1>3. ((m - 1) \div n) + 1 \in 1..Len(f[i].openingPoints) /\ r \in Nat
  <2> DEFINE l == Len(f[i].openingPoints)
  <2>1. l \in Nat \ {0} /\ m \in 1..(n * l)
    BY KeyFacts DEF nRoots
  <2> HIDE DEF l, n
  <2>2. \A k \in 0..(n * l - 1) : k \div n \in 0..(l - 1) /\ k % n \in Nat
    BY <1>1, <2>1
  <2>3. m - 1 \in 0..(n * l - 1)
    BY <1>1, <2>1
  <2> DEFINE z == (m - 1) \div n
  <2>4. z \in 0..(l - 1)
    BY <2>2, <2>3
  <2> HIDE DEF z
  <2>5. z + 1 \in 1..l
    BY <2>1, <2>4
  <2> QED
    BY <2>2, <2>3, <2>5 DEF l, z, n
<1>4. o \in Nat
  <2> DEFINE k == ((m - 1) \div n) + 1
  <2>1. k \in 1..Len(f[i].openingPoints)
    BY <1>3
  <2>2. o = f[i].openingPoints[k]
    BY DEF pointOf
  <2> HIDE DEF k, o
  <2>3. f[i].openingPoints[k] \in 0..(key.N - 1)
    BY <2>1, KeyFacts
  <2> QED
    BY <1>1, <2>2, <2>3
<1>5. b \in Nat /\ key.powerW = b * n
  <2> DEFINE z == key.powerW
  <2>1. z \in Nat /\ z % n = 0 /\ b = z \div n
    BY <1>1, <1>2
  <2> HIDE DEF n, z, b
  <2>2. z \div n \in Nat /\ z = n * (z \div n)
    BY <1>1, <2>1, Multiple
  <2>3. b \in Nat /\ z = n * b
    BY <2>1, <2>2
  <2>4. n * b = b * n
    BY <1>1, <2>3
  <2> QED
    BY <2>3, <2>4 DEF z
<1>6. omega(c) \in Fr /\ omega(key.N) \in Fr /\ power(omega(c), n) = omega(key.N)
      /\ power(omega(n), n) = 1
  BY <1>1, <1>2, OmegaPower
<1>7. omega(n) \in Fr
  <2>1. c \in Nat \ {0} /\ (P - 1) % (n * key.N) = 0
    <3>1. key.N * n = n * key.N
      BY <1>1
    <3> QED
      BY <1>1, <1>2, <3>1
  <2> QED
    BY <1>1, <2>1, OmegaPower
<1>8. omega(key.N * 1) = omega(key.N)
  BY <1>1
<1>9. wd(1, 1) = omega(key.N)
  BY <1>6, <1>8, PowerOfOne DEF wd
<1>10. A = power(omega(c), o) /\ C = power(omega(n), r)
  BY DEF wd, w
<1> HIDE DEF n, o, c, b, r
<1>11. A \in Fr /\ B \in Fr /\ C \in Fr
  BY <1>3, <1>4, <1>5, <1>6, <1>7, <1>10, PowerType DEF r
<1>12. power(A, n) = power(omega(key.N), o)
  <2>1. power(omega(c), o * n) = power(A, n) /\ power(omega(c), n * o) = power(omega(key.N), o)
    BY <1>1, <1>4, <1>6, <1>10, PowerOfPower
  <2>2. o * n = n * o
    BY <1>1, <1>4
  <2> QED
    BY <2>1, <2>2
<1>13. power(B, n) = power(seed, key.powerW)
  BY <1>1, <1>5, PowerOfPower
<1>14. power(C, n) = 1
  <2>1. r \in Nat
    BY <1>3 DEF r
  <2>2. power(omega(n), r * n) = power(C, n) /\ power(omega(n), n * r) = power(1, r)
    BY <1>1, <1>6, <1>7, <1>10, <2>1, PowerOfPower
  <2>3. r * n = n * r
    BY <1>1, <2>1
  <2> QED
    BY <2>1, <2>2, <2>3, PIsNat, PowerOfOne
<1>15. root(seed, i, m) = mul(mul(A, B), C)
  BY DEF root, pointOf, n, o, b, r
<1> DEFINE X == power(seed, key.powerW)
           Y == power(omega(key.N), o)
<1>16. X \in Fr /\ Y \in Fr
  BY <1>1, <1>4, <1>6, PowerType
<1> HIDE DEF A, B, C
<1>17. mul(A, B) \in Fr /\ mul(mul(A, B), C) \in Fr
  BY <1>11, Operations
<1>18. power(mul(mul(A, B), C), n) = mul(power(mul(A, B), n), power(C, n))
  BY <1>1, <1>11, <1>17, PowerOfProduct
<1>19. power(mul(A, B), n) = mul(Y, X)
  BY <1>1, <1>11, <1>12, <1>13, PowerOfProduct
<1> HIDE DEF X, Y
<1>20. power(mul(mul(A, B), C), n) = mul(X, Y) /\ mul(X, Y) \in Fr
  BY <1>14, <1>16, <1>18, <1>19, Operations, MulLaws, ZeroLaws
<1>21. valueAt(seed, o) = mul(X, Y)
  BY <1>9 DEF valueAt, X, Y
<1> QED
  BY <1>3, <1>4, <1>15, <1>17, <1>20, <1>21 DEF n, o

\* What the threads compute is the value of the polynomial.
LEMMA EvaluatePolIs ==
  ASSUME KeyInv, NEW p \in polys, NEW x \in Fr
  PROVE  evaluatePol(p, x) = evaluateAt(p, x) /\ evaluatePol(p, x) \in Fr
<1> DEFINE m == getDegree(p)
           r == [e \in 0..m |-> coef(p, e)]
<1>1. m \in Nat
  BY PolynomialIs
<1>2. r \in [0..m -> Fr] /\ evaluateAt(r, x) = evaluateAt(p, x)
  BY <1>1, EvaluateCoefs
<1>3. PICK d \in Nat : p \in [0..d -> Fr] /\ m \in 0..d
  BY PolynomialIs
<1>4. \A e \in 0..m : p[e] = r[e]
  BY <1>3 DEF coef
<1> HIDE DEF m, r
<1>5. m + 1 \in Nat /\ 0..((m + 1) - 1) = 0..m
  BY <1>1
<1>6. fastEvaluate(p, m + 1, x, key.nThreads) = evaluateAt(r, x)
  <2> DEFINE n == m + 1
  <2>1. n \in Nat /\ 0..(n - 1) = 0..m
    BY <1>5
  <2> HIDE DEF n
  <2>2. r \in [0..(n - 1) -> Fr] /\ \A e \in 0..(n - 1) : p[e] = r[e]
    BY <1>2, <1>4, <2>1
  <2>3. key.nThreads \in Nat \ {0}
    BY KeyFacts
  <2>4. fastEvaluate(p, n, x, key.nThreads) = evaluateAt(r, x)
    BY <2>1, <2>2, <2>3, FastEvaluateIs
  <2> QED
    BY <2>4 DEF n
<1> QED
  BY <1>2, <1>6, ValueType DEF evaluatePol, m

\* The evaluation of a polynomial at an opening point.
LEMMA EvaluationIs ==
  ASSUME KeyInv, xiSeed \in Fr, NEW i \in F, NEW j \in 1..nPols(i), NEW o \in Nat,
         valueAt(xiSeed, o) \in Fr
  PROVE  /\ evaluation(i, j, o) = evaluateAt(column(i, j), valueAt(xiSeed, o))
         /\ evaluation(i, j, o) \in Fr
<1> DEFINE n == lengths(i, j)
           c == column(i, j)
           x == valueAt(xiSeed, o)
<1>1. n \in Nat /\ c \in [0..(n - 1) -> Fr] /\ polsIds(i, j) = findPolId(f[i].stage, f[i].pols[j])
  BY PolynomialFacts
<1>2. evaluation(i, j, o) = fastEvaluate(c, n, x, key.nThreads)
  BY <1>1 DEF evaluation, openValue, challengeXi, valueAt, lengths, column
<1>3. key.nThreads \in Nat \ {0} /\ x \in Fr
  BY KeyFacts
<1> HIDE DEF n, c, x
<1>4. fastEvaluate(c, n, x, key.nThreads) = evaluateAt(c, x) /\ evaluateAt(c, x) \in Fr
  BY <1>1, <1>3, FastEvaluateIs, EvaluateType
<1> QED
  BY <1>2, <1>4 DEF c, x

\* The value of a committed polynomial at one of its roots is that of the evaluations of
\* its polynomials.
LEMMA CommittedAtRoot ==
  ASSUME KeyInv, xiSeed \in Fr, NEW i \in F, NEW m \in 1..nRoots(i)
  PROVE  LET x == root(xiSeed, i, m)
         IN  evaluatePol(getCommittedPolynomial(i), x)
               = sum([j \in 1..nPols(i) |-> mul(power(x, j - 1), evaluation(i, j, pointOf(i, m)))])
<1> DEFINE x == root(xiSeed, i, m)
           o == pointOf(i, m)
           v == valueAt(xiSeed, o)
<1>1. x \in Fr /\ o \in Nat /\ v \in Fr /\ power(x, nPols(i)) = v
  BY RootPower
<1>2. \A j \in 1..nPols(i) : evaluation(i, j, o) = evaluateAt(column(i, j), v)
  BY <1>1, EvaluationIs
<1>3. evaluatePol(getCommittedPolynomial(i), x)
        = sum([j \in 1..nPols(i) |->
            mul(power(x, j - 1), evaluateAt(column(i, j), power(x, nPols(i))))])
  <2> HIDE DEF x
  <2> QED
    BY <1>1, CommittedPolynomial, EvaluatePolIs
<1> HIDE DEF x, o, v
<1>4. [j \in 1..nPols(i) |-> mul(power(x, j - 1), evaluateAt(column(i, j), power(x, nPols(i))))]
        = [j \in 1..nPols(i) |-> mul(power(x, j - 1), evaluation(i, j, o))]
  BY <1>1, <1>2
<1> QED
  BY <1>3, <1>4 DEF x, o

\* What depends on the key and the buffers only stays while they do.
LEMMA SameKey ==
  ASSUME UNCHANGED <<key, buffCoefs>>
  PROVE  /\ f' = f /\ F' = F /\ Opened' = Opened /\ (KeyInv => KeyInv')
         /\ \A i : nPols(i)' = nPols(i) /\ nRoots(i)' = nRoots(i)
         /\ \A i : getCommittedPolynomial(i)' = getCommittedPolynomial(i)
         /\ \A m, i : Known(m, i)' = Known(m, i)
         /\ \A seed : Roots(seed)' = Roots(seed)
<1>1. f' = f /\ F' = F /\ key' = key /\ buffCoefs' = buffCoefs
  BY DEF f, F
<1>2. ASSUME NEW i
      PROVE  nPols(i)' = nPols(i) /\ nRoots(i)' = nRoots(i)
  BY <1>1 DEF nPols, nRoots, f
<1>3. Opened' = Opened
  <2> DEFINE of(i) == {<<i, j, o>> : j \in 1..nPols(i), o \in ToSet(f[i].openingPoints)}
  <2>1. \A i : of(i)' = of(i)
    BY <1>1, <1>2
  <2>2. Opened = UNION {of(i) : i \in F} /\ Opened' = UNION {of(i)' : i \in F'}
    BY DEF Opened
  <2> HIDE DEF of
  <2> QED
    BY <1>1, <2>1, <2>2
<1>4. KeyInv => KeyInv'
  BY <1>1, Zenon DEF KeyInv
<1>5. ASSUME NEW i
      PROVE  getCommittedPolynomial(i)' = getCommittedPolynomial(i)
  <2>1. \A j : lengths(i, j)' = lengths(i, j)
    BY <1>1, Zenon DEF lengths, findDegree, f
  <2>2. \A j : polsIds(i, j)' = polsIds(i, j)
    BY <1>1, Zenon DEF polsIds, findPolId, f
  <2>3. nPols(i)' = nPols(i)
    BY <1>2
  <2>4. f'[i].degree = f[i].degree /\ f'[i].stage = f[i].stage
    BY <1>1
  <2> QED
    BY <1>1, <2>1, <2>2, <2>3, <2>4, Zenon DEF getCommittedPolynomial
<1>6. ASSUME NEW m, NEW i
      PROVE  Known(m, i)' = Known(m, i)
  BY <1>5 DEF Known
<1>7. ASSUME NEW seed
      PROVE  Roots(seed)' = Roots(seed)
  <2>1. \A i, m : root(seed, i, m)' = root(seed, i, m)
    BY <1>1, <1>2 DEF root, wd, w, omega, generator
  <2> QED
    BY <1>1, <1>2, <2>1 DEF Roots
<1> QED
  BY <1>1, <1>2, <1>3, <1>4, <1>5, <1>6, <1>7

\* The evaluations depend on the key, the coefficients and xiSeed only,
LEMMA SameEvaluations ==
  ASSUME UNCHANGED <<key, buffCoefs, xiSeed>>
  PROVE  Evaluations' = Evaluations
<1>1. f' = f /\ Opened' = Opened /\ key' = key /\ buffCoefs' = buffCoefs /\ xiSeed' = xiSeed
  BY SameKey
<1>2. \A i, j, o : evaluation(i, j, o)' = evaluation(i, j, o)
  BY <1>1 DEF evaluation, findDegree, findPolId, openValue, challengeXi, wd, omega, generator
<1>3. EvaluationNames' = EvaluationNames
  BY <1>1 DEF EvaluationNames, evaluationName
<1>4. \A name : EvaluationOf(name)' = EvaluationOf(name)
  BY <1>1, <1>2 DEF EvaluationOf, evaluationName
<1> QED
  BY <1>3, <1>4 DEF Evaluations

\* the R on the roots besides,
LEMMA SameRoots ==
  ASSUME UNCHANGED <<key, buffCoefs, rootsMap>>
  PROVE  \A i : RPol(i)' = RPol(i)
<1>1. ASSUME NEW i
      PROVE  ValuesAt(i)' = ValuesAt(i)
  <2>1. \A p, x : evaluatePol(p, x)' = evaluatePol(p, x)
    BY DEF evaluatePol
  <2> QED
    BY <2>1, SameKey DEF ValuesAt
<1> QED
  BY <1>1 DEF RPol

\* and the linearisation on alpha as well.
LEMMA SameDividend ==
  ASSUME UNCHANGED <<key, buffCoefs, rootsMap, alpha>>
  PROVE  \A pW, point : Dividend(pW, point)' = Dividend(pW, point)
<1>1. F' = F /\ f' = f /\ \A i : nRoots(i)' = nRoots(i)
  BY SameKey
<1>2. \A i, point : mulL(i, point)' = mulL(i, point)
  BY <1>1 DEF mulL
<1>3. \A i, point : preL(i, point)' = preL(i, point)
  BY <1>1, <1>2 DEF preL, alphas
<1>4. \A i, point : Term(i, point)' = Term(i, point)
  <2>1. \A p, x : evaluatePol(p, x)' = evaluatePol(p, x)
    BY DEF evaluatePol
  <2> QED
    BY <1>3, <2>1, SameKey, SameRoots DEF Term
<1>5. \A point : ZT(point)' = ZT(point) /\ ZTS2(point)' = ZTS2(point)
  BY <1>1 DEF ZT, ZTS2
<1> QED
  BY <1>1, <1>4, <1>5 DEF Dividend

\* The zerofier of several sequences of roots at a place: the product of theirs.
LEMMA ZerofierOfAll ==
  ASSUME NEW n \in Nat, NEW s \in [1..n -> Seq(Fr)], NEW x \in Fr
  PROVE  evaluate(zerofierPolynomial(FlattenSeq(s)), x) = product([i \in 1..n |-> zeroOf(s[i], x)])
<1>1. s \in Seq(Seq(Fr)) /\ Len(s) = n
  OBVIOUS
<1>2. FlattenSeq(s) \in Seq(Fr)
      /\ zeroOf(FlattenSeq(s), x) = product([i \in 1..n |-> zeroOf(s[i], x)])
  BY <1>1, ProductOfFlatten
<1> DEFINE t == FlattenSeq(s)
           z == zerofierPolynomial(t)
           l == Len(t)
<1>3. l \in Nat /\ t \in [1..l -> Fr]
  <2> HIDE DEF t
  <2> QED
    BY <1>2 DEF t
<1> HIDE DEF t
<1>4. z \in polys /\ evaluateAt(z, x) = product([k \in 1..l |-> sub(x, t[k])])
  <2> HIDE DEF l
  <2> QED
    BY <1>3, ZerofierIs
<1>5. evaluate(z, x) = zeroOf(t, x)
  BY <1>4, PolynomialTerms DEF zeroOf
<1> QED
  BY <1>2, <1>5 DEF t

\* The roots of each f, as the opening has calculated them.
RootsTyped == \A i \in F : rootsMap[i] \in [1..nRoots(i) -> Fr]

\* The calculated roots are elements.
LEMMA RootsAreTyped ==
  ASSUME KeyInv, ControlInv, rootsMap = Roots(xiSeed)
  PROVE  RootsTyped
<1> SUFFICES ASSUME NEW i \in F
             PROVE  rootsMap[i] \in [1..nRoots(i) -> Fr]
  BY DEF RootsTyped
<1>1. \A m \in 1..nRoots(i) : root(xiSeed, i, m) \in Fr
  BY RootPower DEF ControlInv
<1>2. rootsMap[i] = [m \in 1..nRoots(i) |-> root(xiSeed, i, m)]
  BY DEF Roots
<1> QED
  BY <1>1, <1>2

\* The factors of a place in the zerofiers.
LEMMA Zerofiers ==
  ASSUME KeyInv, RootsTyped, NEW point \in Fr
  PROVE  /\ \A i \in F : /\ rootsMap[i] \in Seq(Fr) /\ Len(rootsMap[i]) = nRoots(i)
                         /\ mulL(i, point) = zeroOf(rootsMap[i], point) /\ mulL(i, point) \in Fr
         /\ ZT(point) = product([i \in F |-> mulL(i, point)]) /\ ZT(point) \in Fr
         /\ ZTS2(point) = product([i \in F \ {1} |-> mulL(i, point)]) /\ ZTS2(point) \in Fr
<1> DEFINE n == Len(f)
<1>1. n \in Nat \ {0} /\ F = 1..n
  BY KeyFacts
<1>2. ASSUME NEW i \in F
      PROVE  /\ rootsMap[i] \in Seq(Fr) /\ Len(rootsMap[i]) = nRoots(i)
             /\ mulL(i, point) = zeroOf(rootsMap[i], point) /\ mulL(i, point) \in Fr
  <2> DEFINE k == nRoots(i)
             r == rootsMap[i]
  <2>1. k \in Nat /\ r \in [1..k -> Fr]
    BY KeyFacts DEF RootsTyped
  <2>2. mulL(i, point) = product([m \in 1..k |-> sub(point, r[m])])
    BY DEF mulL
  <2> HIDE DEF k, r
  <2>3. r \in Seq(Fr) /\ Len(r) = k
    BY <2>1
  <2>4. product([m \in 1..k |-> sub(point, r[m])]) = zeroOf(r, point)
    BY <2>3 DEF zeroOf
  <2>5. [m \in 1..k |-> sub(point, r[m])] \in [1..k -> Fr]
    BY <2>1, Operations
  <2>6. IsFiniteSet(1..k)
    BY <2>1, LastPlace
  <2>7. product([m \in 1..k |-> sub(point, r[m])]) \in Fr
    BY <2>5, <2>6, ProductLaws
  <2> QED
    BY <2>2, <2>3, <2>4, <2>7 DEF k, r
<1> DEFINE g == [i \in F |-> mulL(i, point)]
<1>3. g \in [1..n -> Fr] /\ IsFiniteSet(1..n) /\ product(g) \in Fr
  <2>1. IsFiniteSet(1..n) /\ g \in [1..n -> Fr]
    BY <1>1, <1>2, LastPlace
  <2> HIDE DEF g, n
  <2> QED
    BY <2>1, ProductLaws
<1>4. ZT(point) = product(g)
  <2> DEFINE s == [i \in F |-> rootsMap[i]]
  <2>1. s \in [1..n -> Seq(Fr)] /\ ZT(point) = evaluate(zerofierPolynomial(FlattenSeq(s)), point)
    BY <1>1, <1>2 DEF ZT
  <2>2. [i \in 1..n |-> zeroOf(s[i], point)] = g
    BY <1>1, <1>2
  <2> HIDE DEF s, n, g
  <2> QED
    BY <1>1, <2>1, <2>2, ZerofierOfAll
<1>5. /\ ZTS2(point) = product([i \in F \ {1} |-> mulL(i, point)])
      /\ ZTS2(point) \in Fr
  <2> DEFINE k == n - 1
             s == [i \in 1..k |-> rootsMap[i + 1]]
             p == [i \in 1..k |-> i + 1]
             S == 1..k
             T == 1..n
  <2>1. k \in Nat /\ \A i \in 1..k : i + 1 \in F
    BY <1>1
  <2>2. s \in [1..k -> Seq(Fr)]
    BY <1>2, <2>1
  <2>3. ZTS2(point) = evaluate(zerofierPolynomial(FlattenSeq(s)), point)
    BY DEF ZTS2
  <2>4. [i \in 1..k |-> zeroOf(s[i], point)] = [i \in 1..k |-> g[p[i]]]
    BY <1>2, <2>1
  <2>5. p \in Injection(S, T)
    BY <1>1 DEF Injection, IsInjective
  <2>6. {p[i] : i \in S} = F \ {1}
    <3> DEFINE V == F \ {1}
    <3>1. ASSUME NEW i \in V
          PROVE  \E h \in S : p[h] = i
      <4>1. i - 1 \in S /\ p[i - 1] = i
        BY <1>1
      <4> QED
        BY <4>1
    <3>2. ASSUME NEW i \in S
          PROVE  p[i] \in V
      BY <1>1
    <3> HIDE DEF S, V, p
    <3>3. {p[i] : i \in S} = V
      BY <3>1, <3>2
    <3> QED
      BY <3>3 DEF V
  <2>7. IsFiniteSet(S) /\ IsFiniteSet(T)
    BY <1>3, <2>1, LastPlace
  <2>8. product([i \in S |-> g[p[i]]]) = product(Restrict(g, {p[i] : i \in S}))
    <3> HIDE DEF S, T, p, g
    <3>1. g \in [T -> Fr]
      BY <1>3 DEF T
    <3> QED
      BY <2>5, <2>7, <3>1, ProductRenamed
  <2>9. Restrict(g, F \ {1}) = [i \in F \ {1} |-> mulL(i, point)]
    BY DEF Restrict
  <2>10. evaluate(zerofierPolynomial(FlattenSeq(s)), point)
           = product([i \in 1..k |-> zeroOf(s[i], point)])
    <3> HIDE DEF s, k
    <3> QED
      BY <2>1, <2>2, ZerofierOfAll
  <2>11. product([i \in F \ {1} |-> mulL(i, point)]) \in Fr
    <3> DEFINE h == [i \in F \ {1} |-> mulL(i, point)]
               V == F \ {1}
    <3>1. h \in [V -> Fr]
      BY <1>2
    <3>2. IsFiniteSet(V)
      BY <1>1, <1>3, FS_Subset
    <3> HIDE DEF h, V
    <3>3. product(h) \in Fr
      BY <3>1, <3>2, ProductLaws
    <3> QED
      BY <3>3 DEF h
  <2> HIDE DEF s, g, p
  <2> QED
    BY <2>3, <2>4, <2>6, <2>8, <2>9, <2>10, <2>11
<1> QED
  BY <1>2, <1>3, <1>4, <1>5

\* What the opening computes from the roots are polynomials and elements of the field.
LEMMA RPolIs ==
  ASSUME KeyInv, RootsTyped, NEW i \in F
  PROVE  RPol(i) \in polys
<1> DEFINE n == nRoots(i)
           r == rootsMap[i]
           v == ValuesAt(i)
<1>1. n \in Nat \ {0} /\ r \in [1..n -> Fr]
  BY KeyFacts DEF RootsTyped
<1>2. v \in [1..n -> Fr]
  <2>1. \A m \in 1..n : evaluatePol(getCommittedPolynomial(i), r[m]) \in Fr
    BY <1>1, CommittedPolynomial, EvaluatePolIs
  <2> QED
    BY <2>1 DEF ValuesAt
<1> HIDE DEF n, r, v
<1>3. lagrangePolynomialInterpolation(r, v) \in polys
  BY <1>1, <1>2, Interpolates
<1> QED
  BY <1>3 DEF RPol, r, v

\* A term of the linearisation is a polynomial, and its factors are elements;
LEMMA TermIs ==
  ASSUME KeyInv, alpha \in Fr, RootsTyped, NEW i \in F, NEW point \in Fr
  PROVE  /\ alphas(i) \in Fr /\ preL(i, point) \in Fr
         /\ product([j \in F \ {i} |-> mulL(j, point)]) \in Fr
         /\ evaluatePol(RPol(i), point) = evaluateAt(RPol(i), point)
         /\ evaluateAt(RPol(i), point) \in Fr
         /\ subScalar(getCommittedPolynomial(i), evaluateAt(RPol(i), point)) \in polys
         /\ Term(i, point) \in polys
<1>1. alphas(i) \in Fr
  <2>1. i - 1 \in Nat
    BY KeyFacts
  <2> DEFINE k == i - 1
  <2> HIDE DEF k
  <2>2. power(alpha, k) \in Fr
    BY <2>1, PowerType DEF k
  <2> QED
    BY <2>2 DEF alphas, k
<1>2. product([j \in F \ {i} |-> mulL(j, point)]) \in Fr
  <2> DEFINE T == F \ {i}
             g == [j \in T |-> mulL(j, point)]
  <2>1. IsFiniteSet(T)
    BY KeyFacts, LastPlace, FS_Subset
  <2>2. g \in [T -> Fr]
    BY Zerofiers
  <2> HIDE DEF T, g
  <2>3. product(g) \in Fr
    BY <2>1, <2>2, ProductLaws
  <2> QED
    BY <2>3 DEF g, T
<1>3. preL(i, point) \in Fr
  BY <1>1, <1>2, Operations DEF preL
<1>4. RPol(i) \in polys /\ getCommittedPolynomial(i) \in polys
  BY RPolIs, CommittedPolynomial
<1> DEFINE r == RPol(i)
           c == getCommittedPolynomial(i)
           v == evaluateAt(r, point)
<1> HIDE DEF r, c
<1>5. evaluatePol(r, point) = v /\ v \in Fr
  BY <1>4, EvaluatePolIs, ValueType DEF r
<1>6. subScalar(c, v) \in polys
  BY <1>4, <1>5, SubScalarIs DEF c
<1>7. mulScalar(subScalar(c, v), preL(i, point)) \in polys
  BY <1>3, <1>6, MulScalarIs
<1> QED
  BY <1>1, <1>2, <1>3, <1>5, <1>6, <1>7 DEF Term, r, c

\* so is the linearisation, which is divided by X - y.
LEMMA DividendIs ==
  ASSUME KeyInv, alpha \in Fr, RootsTyped, NEW point \in Fr, NEW pW \in polys
  PROVE  /\ [i \in F |-> Term(i, point)] \in [1..Len(f) -> polys]
         /\ FoldLeft(plus, Zero, [i \in F |-> Term(i, point)]) \in polys
         /\ mulScalar(pW, ZT(point)) \in polys
         /\ Dividend(pW, point) \in polys
         /\ divByXSubValue(Dividend(pW, point), point) \in polys
<1> DEFINE n == Len(f)
           s == [i \in F |-> Term(i, point)]
<1>1. n \in Nat /\ F = 1..n
  BY KeyFacts
<1>2. s \in [1..n -> polys]
  BY <1>1, TermIs
<1>3. FoldLeft(plus, Zero, s) \in polys
  <2> HIDE DEF s, n
  <2> QED
    BY <1>1, <1>2, SumIs
<1>4. ZT(point) \in Fr /\ inv(ZTS2(point)) \in Fr
  BY Zerofiers, InvType
<1>5. mulScalar(pW, ZT(point)) \in polys
  BY <1>4, MulScalarIs
<1> DEFINE l == minus(FoldLeft(plus, Zero, s), mulScalar(pW, ZT(point)))
<1>6. l \in polys
  BY <1>3, <1>5, MinusIs
<1> HIDE DEF l
<1>7. mulScalar(l, inv(ZTS2(point))) \in polys
  BY <1>4, <1>6, MulScalarIs
<1>8. Dividend(pW, point) = mulScalar(l, inv(ZTS2(point)))
  BY DEF Dividend, l
<1>9. divByXSubValue(Dividend(pW, point), point) \in polys
  BY <1>7, <1>8, DivByXIs
<1> QED
  BY <1>2, <1>3, <1>5, <1>7, <1>8, <1>9

\* Dividing a polynomial for one opening point after the other leaves polynomials.
LEMMA DividedIs ==
  ASSUME KeyInv, alpha \in Fr, xiSeed \in Fr, NEW i \in F,
         Pol("f", i) \in polys, Pol("R", i) \in polys, alphas(i) \in Fr
  PROVE  /\ divided(i)[0] = mulScalar(minus(Pol("f", i), Pol("R", i)), alphas(i))
         /\ \A k \in 0..Len(f[i].openingPoints) : divided(i)[k] \in polys
         /\ \A k \in 1..Len(f[i].openingPoints) :
              divided(i)[k] = divByZerofier(divided(i)[k - 1], nPols(i), openValue(f[i].openingPoints[k]))
<1> DEFINE p == mulScalar(minus(Pol("f", i), Pol("R", i)), alphas(i))
           l == Len(f[i].openingPoints)
           n == nPols(i)
           v(k) == openValue(f[i].openingPoints[k])
           vs == [k \in 1..l |-> v(k)]
           h == [q \in polys \X Fr |-> divByZerofier(q[1], n, q[2])]
           d == divided(i)
           Next1(g, k) == IF k = 0 THEN p ELSE divByZerofier(g[k - 1], n, v(k))
           Is(g) == g = [k \in 0..l |-> Next1(g, k)]
<1>1. l \in Nat \ {0} /\ n \in Nat \ {0} /\ \A k \in 1..l : f[i].openingPoints[k] \in 0..(key.N - 1)
  BY KeyFacts
<1>2. vs \in [1..l -> Fr]
  <2>1. omega(key.N) \in Fr
    <3>1. (P - 1) % (key.N * nPols(i)) = 0
      <4>1. \A k \in DOMAIN key.f : (P - 1) % (key.N * Len(key.f[k].pols)) = 0
        BY ShKeyAssumption DEF KeyInv
      <4> QED
        BY <4>1 DEF nPols, f, F
    <3> QED
      BY <1>1, <3>1, KeyFacts, OmegaPower
  <2>2. wd(1, 1) \in Fr
    <3>1. key.N * 1 = key.N
      BY KeyFacts
    <3> QED
      BY <2>1, <3>1, PowerType DEF wd
  <2>3. challengeXi \in Fr
    BY KeyFacts, PowerType DEF challengeXi
  <2>4. ASSUME NEW k \in 1..l
        PROVE  v(k) \in Fr
    <3>1. f[i].openingPoints[k] \in Nat
      BY <1>1, KeyFacts
    <3>2. power(wd(1, 1), f[i].openingPoints[k]) \in Fr
      BY <2>2, <3>1, PowerType
    <3> QED
      BY <2>3, <3>2, Operations DEF openValue
  <2> QED
    BY <2>4
<1>3. p \in polys
  BY MinusIs, MulScalarIs
<1>4. \A q \in polys, x \in Fr : divByZerofier(q, n, x) \in polys
  BY <1>1, DivByZerofierIs
<1>5. d = CHOOSE g : Is(g)
  BY DEF divided
<1> HIDE DEF p, l, n, d
<1>6. h \in [polys \X Fr -> polys] /\ \A q \in polys, x \in Fr : h[<<q, x>>] = divByZerofier(q, n, x)
  BY <1>4
<1>7. \E g : Is(g)
  <2> HIDE DEF h, vs
  <2>1. PICK t \in [0..l -> polys] : IsSteps(t, l, h, p, vs)
    BY <1>1, <1>2, <1>3, <1>6, FoldLeftSteps DEF IsFoldLeft
  <2>2. ASSUME NEW k \in 0..l
        PROVE  t[k] = Next1(t, k)
    <3>1. CASE k = 0
      BY <2>1, <3>1 DEF IsSteps
    <3>2. CASE k # 0
      <4>1. k \in 1..l /\ k - 1 \in 0..l
        BY <1>1, <3>2
      <4>2. t[k] = h[<<t[k - 1], vs[k]>>] /\ t[k - 1] \in polys /\ vs[k] \in Fr /\ vs[k] = v(k)
        BY <1>2, <2>1, <4>1 DEF IsSteps, vs
      <4> QED
        BY <1>6, <3>2, <4>2
    <3> QED
      BY <3>1, <3>2
  <2>3. Is(t)
    BY <2>1, <2>2
  <2> QED
    BY <2>3
<1>8. Is(d)
  BY <1>5, <1>7
<1>9. d[0] = p /\ \A k \in 1..l : d[k] = divByZerofier(d[k - 1], n, v(k))
  <2>1. \A k \in 0..l : d[k] = Next1(d, k)
    BY <1>8
  <2>2. 0 \in 0..l /\ \A k \in 1..l : k \in 0..l /\ k # 0
    BY <1>1
  <2> QED
    BY <2>1, <2>2
<1> DEFINE K == {k \in Nat : k <= l => d[k] \in polys}
<1>10. 0 \in K
  BY <1>3, <1>9
<1>11. ASSUME NEW k \in Nat, k \in K
       PROVE  k + 1 \in K
  <2> SUFFICES ASSUME k + 1 <= l
               PROVE  d[k + 1] \in polys
    OBVIOUS
  <2> DEFINE m == k + 1
  <2>1. m \in 1..l /\ m - 1 = k /\ d[k] \in polys
    BY <1>1, <1>11
  <2> HIDE DEF m
  <2>2. d[m] = divByZerofier(d[k], n, v(m)) /\ v(m) \in Fr
    BY <1>2, <1>9, <2>1
  <2> QED
    BY <1>4, <2>1, <2>2 DEF m
<1> HIDE DEF K
<1>12. \A k \in Nat : k \in K
  BY <1>10, <1>11, Induction
<1>13. \A k \in 0..l : d[k] \in polys
  BY <1>1, <1>12 DEF K
<1> QED
  BY <1>9, <1>13 DEF p, l, d, n

\* What is known after a step: that was put, and what was and is not replaced.
LEMMA KnownNext ==
  ASSUME UNCHANGED <<key, buffCoefs>>,
         \A i \in F : Sent(i)' =>
           Known(polynomialsShPlonk', i) /\ Known(polynomialCommitments', i)
  PROVE  CommittedInv'
<1>1. F' = F /\ \A i : getCommittedPolynomial(i)' = getCommittedPolynomial(i)
  BY SameKey
<1>2. ASSUME NEW i \in F, Sent(i)'
      PROVE  (Known(polynomialsShPlonk, i) /\ Known(polynomialCommitments, i))'
  <2>1. Known(polynomialsShPlonk', i) /\ Known(polynomialCommitments', i)
    BY <1>2
  <2> QED
    BY <1>1, <2>1 DEF Known
<1> QED
  BY <1>1, <1>2 DEF CommittedInv

\* When the f of a set are put into the map, they are known, and those known before.
LEMMA PutKnownAll ==
  ASSUME NEW b, NEW S, NEW new, DOMAIN new = {<<"f", i>> : i \in S},
         \A i \in S : new[<<"f", i>>] = getCommittedPolynomial(i),
         NEW i, i \in S \/ Known(b, i)
  PROVE  Known(PutAll(b, new), i)
<1> DEFINE n == <<"f", i>>
           c == PutAll(b, new)
<1>1. /\ DOMAIN c = DOMAIN b \cup DOMAIN new
      /\ \A name \in DOMAIN new : c[name] = new[name]
      /\ \A name \in DOMAIN b : name \notin DOMAIN new => c[name] = b[name]
  BY DEF PutAll
<1>2. CASE n \in DOMAIN new
  <2>1. PICK k \in S : n = <<"f", k>>
    BY <1>2
  <2>2. k = i
    BY <2>1
  <2>3. c[n] = getCommittedPolynomial(i) /\ n \in DOMAIN c
    BY <1>1, <1>2, <2>1, <2>2
  <2> QED
    BY <2>3 DEF Known
<1>3. CASE n \notin DOMAIN new
  <2>1. i \notin S
    BY <1>3
  <2>2. n \in DOMAIN b /\ b[n] = getCommittedPolynomial(i)
    BY <2>1 DEF Known
  <2> HIDE DEF n, c
  <2>3. c[n] = b[n] /\ n \in DOMAIN c
    BY <1>1, <1>3, <2>2
  <2> QED
    BY <2>2, <2>3 DEF Known, n, c
<1> QED
  BY <1>2, <1>3

\* commit: a stage's polynomials are sent, and none is refused.
LEMMA CommitStep ==
  ASSUME IInv, Commit
  PROVE  IInv'
<1> DEFINE S == {i \in F : f[i].stage = stage}
           new == [name \in {<<"f", i>> : i \in S} |-> getCommittedPolynomial(name[2])]
           sent == [name \in {<<"f", i>> : i \in S} |->
                      multiExponentiation(name[2], getCommittedPolynomial(name[2]))]
<1>1. pc = "commit" /\ KeyInv /\ stage \in Stages /\ PolynomialsInv /\ CommittedInv
  BY DEF IInv, Commit, ControlInv
<1>2. \A i \in F : ~(getDegree(getCommittedPolynomial(i)) > f[i].degree)
  <2> SUFFICES ASSUME NEW i \in F
               PROVE  ~(getDegree(getCommittedPolynomial(i)) > f[i].degree)
    OBVIOUS
  <2> DEFINE d == getDegree(getCommittedPolynomial(i))
             e == f[i].degree
  <2>1. d <= e /\ d \in Nat /\ e \in Nat
    BY <1>1, CommittedPolynomial, KeyFacts, PolynomialIs
  <2> HIDE DEF d, e
  <2>2. ~(d > e)
    BY <2>1
  <2> QED
    BY <2>2 DEF d, e
<1>3. /\ polynomialsShPlonk' = PutAll(polynomialsShPlonk, new)
      /\ polynomialCommitments' = PutAll(polynomialCommitments, sent)
      /\ stage' = Min({stage + 1, 4})
      /\ pc' = IF stage = 4 THEN "roots" ELSE "commit"
      /\ UNCHANGED <<key, buffCoefs, xiSeed, alpha, y, rootsMap, evaluationCommitments, inverse>>
  BY <1>2 DEF Commit
<1>4. DOMAIN new = {<<"f", i>> : i \in S} /\ DOMAIN sent = {<<"f", i>> : i \in S}
  OBVIOUS
<1>5. \A i \in S : /\ new[<<"f", i>>] = getCommittedPolynomial(i)
                   /\ sent[<<"f", i>>] = getCommittedPolynomial(i)
                   /\ getCommittedPolynomial(i) \in polys
  <2> SUFFICES ASSUME NEW i \in S
               PROVE  /\ new[<<"f", i>>] = getCommittedPolynomial(i)
                      /\ sent[<<"f", i>>] = getCommittedPolynomial(i)
                      /\ getCommittedPolynomial(i) \in polys
    OBVIOUS
  <2>1. i \in F /\ <<"f", i>> \in DOMAIN new /\ <<"f", i>>[2] = i
    OBVIOUS
  <2>2. /\ multiExponentiation(i, getCommittedPolynomial(i)) = getCommittedPolynomial(i)
        /\ getCommittedPolynomial(i) \in polys
    BY <1>1, <2>1, CommittedPolynomial
  <2> QED
    BY <2>1, <2>2
<1>6. AllPolynomials(new) /\ AllPolynomials(sent)
  <2>1. ASSUME NEW name \in {<<"f", i>> : i \in S}
        PROVE  new[name] \in polys /\ sent[name] \in polys
    <3>1. PICK i \in S : name = <<"f", i>>
      OBVIOUS
    <3> HIDE DEF new, sent, S
    <3> QED
      BY <1>5, <3>1
  <2> HIDE DEF new, sent, S
  <2> QED
    BY <1>4, <2>1 DEF AllPolynomials
<1>7. (stage = 4 => stage' = 4) /\ (stage # 4 => stage' = stage + 1) /\ stage' \in Stages
  <2> DEFINE m == stage'
  <2>1. m = CHOOSE x \in {stage + 1, 4} : \A z \in {stage + 1, 4} : x <= z
    BY <1>3 DEF Min
  <2>2. stage \in 0..4
    BY <1>1 DEF Stages
  <2>3. \E x \in {stage + 1, 4} : \A z \in {stage + 1, 4} : x <= z
    BY <2>2
  <2>4. m \in {stage + 1, 4} /\ m <= stage + 1 /\ m <= 4
    BY <2>1, <2>3
  <2> HIDE DEF m
  <2>5. (stage = 4 => m = 4) /\ (stage # 4 => m = stage + 1) /\ m \in 0..4
    BY <2>2, <2>4
  <2> QED
    BY <2>5 DEF m, Stages
<1>8. PolynomialsInv'
  <2>1. AllPolynomials(polynomialsShPlonk') /\ AllPolynomials(polynomialCommitments')
    BY <1>1, <1>3, <1>6, PutPolynomials DEF PolynomialsInv
  <2> QED
    BY <2>1 DEF PolynomialsInv, AllPolynomials
<1>9. CommittedInv'
  <2>1. ASSUME NEW i \in F, Sent(i)'
        PROVE  Known(polynomialsShPlonk', i) /\ Known(polynomialCommitments', i)
    <3>1. f[i].stage \in 0..4 /\ stage \in 0..4
      BY <1>1, KeyFacts DEF Stages
    <3>2. stage = 4 \/ f[i].stage < stage + 1
      <4>1. f' = f
        BY <1>3 DEF f
      <4>2. pc' # "commit" \/ f[i].stage < stage'
        BY <2>1, <4>1 DEF Sent
      <4> QED
        BY <1>3, <1>7, <4>2
    <3>3. f[i].stage < stage \/ f[i].stage = stage
      BY <3>1, <3>2
    <3>4. i \in S \/ (Known(polynomialsShPlonk, i) /\ Known(polynomialCommitments, i))
      BY <1>1, <3>3 DEF CommittedInv, Sent
    <3> HIDE DEF S, new, sent
    <3>5. Known(PutAll(polynomialsShPlonk, new), i)
      BY <1>4, <1>5, <3>4, PutKnownAll
    <3>6. Known(PutAll(polynomialCommitments, sent), i)
      BY <1>4, <1>5, <3>4, PutKnownAll
    <3> QED
      BY <1>3, <3>5, <3>6
  <2> QED
    BY <1>3, <2>1, KnownNext
<1>10. pc' \in {"commit", "roots"}
  BY <1>3
<1>11. RootsInv' /\ RInv' /\ WInv' /\ QuotientInv'
  BY <1>10 DEF RootsInv, RInv, WInv, QuotientInv
<1>12. EvaluationsInv'
  <2>1. evaluationCommitments = <<>>
    BY <1>1 DEF IInv, EvaluationsInv
  <2> QED
    BY <1>3, <1>10, <2>1 DEF EvaluationsInv
<1>13. KeyInv' /\ ControlInv'
  <2>1. KeyInv'
    BY <1>1, <1>3, SameKey
  <2>2. ControlInv'
    BY <1>3, <1>7, <1>10 DEF ControlInv, IInv
  <2> QED
    BY <2>1, <2>2
<1> QED
  BY <1>8, <1>9, <1>11, <1>12, <1>13 DEF IInv

\* After the stages all committed polynomials are known, and stay so.
LEMMA AllKnown ==
  ASSUME CommittedInv, pc # "commit", NEW i \in F
  PROVE  Known(polynomialsShPlonk, i) /\ Known(polynomialCommitments, i)
BY DEF CommittedInv, Sent

\* The roots stay while the key and the challenge do.
LEMMA RootsStay ==
  ASSUME UNCHANGED <<key, buffCoefs, xiSeed, rootsMap>>, rootsMap = Roots(xiSeed)
  PROVE  RootsInv'
<1>1. F' = F /\ \A i : nRoots(i)' = nRoots(i)
  BY SameKey
<1>2. \A i, m : root(xiSeed, i, m)' = root(xiSeed, i, m)
  BY DEF root, wd, w, omega, generator, nPols, f
<1>3. Roots(xiSeed)' = Roots(xiSeed)
  BY <1>1, <1>2 DEF Roots
<1> QED
  BY <1>3 DEF RootsInv

\* open: the roots.
LEMMA CalculateRootsStep ==
  ASSUME IInv, CalculateRoots
  PROVE  IInv'
<1>1. /\ pc = "roots" /\ pc' = "evaluations" /\ xiSeed' \in Challenges.xiSeed
      /\ rootsMap' = [i \in F |-> [m \in 1..nRoots(i) |-> root(xiSeed', i, m)]]
      /\ UNCHANGED <<key, buffCoefs, stage, alpha, y, polynomialsShPlonk, polynomialCommitments,
                     evaluationCommitments, inverse>>
  BY DEF CalculateRoots
<1>2. KeyInv' /\ F' = F
  BY <1>1, SameKey DEF IInv
<1>3. ControlInv'
  BY <1>1, ChallengesAssumption DEF ControlInv, IInv
<1>4. PolynomialsInv'
  BY <1>1 DEF PolynomialsInv, AllPolynomials, IInv
<1>5. CommittedInv'
  BY <1>1, AllKnown, KnownNext DEF IInv
<1>6. RootsInv'
  <2>1. \A i, m : root(xiSeed, i, m)' = root(xiSeed', i, m)
    BY <1>1 DEF root, wd, w, omega, generator, nPols, f
  <2>2. \A i : nRoots(i)' = nRoots(i)
    BY <1>1, SameKey
  <2>3. Roots(xiSeed)' = [i \in F |-> [m \in 1..nRoots(i) |-> root(xiSeed', i, m)]]
    BY <1>2, <2>1, <2>2 DEF Roots
  <2> QED
    BY <1>1, <2>3 DEF RootsInv
<1>7. EvaluationsInv'
  BY <1>1 DEF EvaluationsInv, IInv
<1> QED
  BY <1>1, <1>2, <1>3, <1>4, <1>5, <1>6, <1>7 DEF IInv, RInv, WInv, QuotientInv

\* The evaluations.
LEMMA CalculateEvaluationsStep ==
  ASSUME IInv, CalculateEvaluations
  PROVE  IInv'
<1>1. /\ pc = "evaluations" /\ pc' = "R" /\ evaluationCommitments' = Evaluations
      /\ UNCHANGED <<key, buffCoefs, stage, xiSeed, alpha, y, rootsMap, polynomialsShPlonk,
                     polynomialCommitments, inverse>>
  BY DEF CalculateEvaluations, Evaluations, EvaluationNames, EvaluationOf
<1>2. KeyInv' /\ F' = F
  BY <1>1, SameKey DEF IInv
<1>3. ControlInv'
  BY <1>1 DEF ControlInv, IInv
<1>4. PolynomialsInv'
  BY <1>1 DEF PolynomialsInv, AllPolynomials, IInv
<1>5. CommittedInv'
  BY <1>1, AllKnown, KnownNext DEF IInv
<1>6. RootsInv'
  BY <1>1, RootsStay DEF IInv, RootsInv
<1>7. EvaluationsInv'
  BY <1>1, SameEvaluations DEF EvaluationsInv
<1> QED
  BY <1>1, <1>2, <1>3, <1>4, <1>5, <1>6, <1>7 DEF IInv, RInv, WInv, QuotientInv

\* The polynomials that interpolate.
LEMMA ComputeRStep ==
  ASSUME IInv, ComputeR
  PROVE  IInv'
<1> DEFINE new == [name \in {<<"R", i>> : i \in F} |-> R(name[2])]
<1>1. /\ pc = "R" /\ pc' \in {"error", "W"} /\ alpha' \in Challenges.alpha
      /\ polynomialsShPlonk' = PutAll(polynomialsShPlonk, new)
      /\ UNCHANGED <<key, buffCoefs, stage, xiSeed, y, rootsMap, polynomialCommitments,
                     evaluationCommitments, inverse>>
  BY DEF ComputeR
<1>2. KeyInv' /\ F' = F /\ KeyInv /\ ControlInv /\ CommittedInv /\ PolynomialsInv
  BY <1>1, SameKey DEF IInv
<1>3. ControlInv'
  BY <1>1, <1>2, ChallengesAssumption DEF ControlInv
<1>4. rootsMap = Roots(xiSeed) /\ RootsTyped
  BY <1>1, <1>2, RootsAreTyped DEF IInv, RootsInv
<1>5. \A i \in F : R(i) = RPol(i) /\ RPol(i) \in polys
  <2> SUFFICES ASSUME NEW i \in F
               PROVE  R(i) = RPol(i) /\ RPol(i) \in polys
    OBVIOUS
  <2>1. Pol("f", i) = getCommittedPolynomial(i)
    BY <1>1, <1>2, AllKnown DEF Pol, Known
  <2> QED
    BY <1>2, <1>4, <2>1, RPolIs DEF R, RPol, ValuesAt
<1>6. \A i \in F : <<"R", i>> \in DOMAIN new /\ new[<<"R", i>>] = RPol(i)
  <2> SUFFICES ASSUME NEW i \in F
               PROVE  <<"R", i>> \in DOMAIN new /\ new[<<"R", i>>] = RPol(i)
    OBVIOUS
  <2>1. <<"R", i>> \in DOMAIN new /\ <<"R", i>>[2] = i
    OBVIOUS
  <2> QED
    BY <1>5, <2>1
<1>7. AllPolynomials(new)
  <2>1. ASSUME NEW name \in {<<"R", i>> : i \in F}
        PROVE  new[name] \in polys
    <3>1. PICK i \in F : name = <<"R", i>>
      OBVIOUS
    <3> HIDE DEF new
    <3> QED
      BY <1>5, <1>6, <3>1
  <2>2. DOMAIN new = {<<"R", i>> : i \in F}
    OBVIOUS
  <2> HIDE DEF new
  <2> QED
    BY <2>1, <2>2 DEF AllPolynomials
<1>8. PolynomialsInv'
  <2>1. AllPolynomials(polynomialsShPlonk')
    BY <1>1, <1>2, <1>7, PutPolynomials DEF PolynomialsInv
  <2> QED
    BY <1>1, <1>2, <2>1 DEF PolynomialsInv, AllPolynomials
<1>9. CommittedInv'
  <2>1. ASSUME NEW i \in F
        PROVE  Known(polynomialsShPlonk', i) /\ Known(polynomialCommitments', i)
    <3>1. Known(polynomialsShPlonk, i) /\ Known(polynomialCommitments, i)
      BY <1>1, <1>2, AllKnown
    <3>2. <<"f", i>> \notin DOMAIN new
      BY NamesDiffer
    <3> DEFINE n == <<"f", i>>
    <3>3. n \in DOMAIN polynomialsShPlonk /\ n \notin DOMAIN new
          /\ polynomialsShPlonk[n] = getCommittedPolynomial(i)
      BY <3>1, <3>2 DEF Known
    <3> HIDE DEF new, n
    <3>4. n \in DOMAIN polynomialsShPlonk' /\ polynomialsShPlonk'[n] = polynomialsShPlonk[n]
      BY <1>1, <3>3 DEF PutAll
    <3>5. Known(polynomialsShPlonk', i)
      BY <3>3, <3>4 DEF Known, n
    <3> QED
      BY <1>1, <3>1, <3>5
  <2> QED
    BY <1>1, <2>1, KnownNext
<1>10. RootsInv'
  BY <1>1, <1>4, RootsStay
<1>11. EvaluationsInv'
  BY <1>1, SameEvaluations DEF EvaluationsInv, IInv
<1>12. RInv'
  <2>1. ASSUME NEW i \in F
        PROVE  <<"R", i>> \in DOMAIN polynomialsShPlonk' /\ polynomialsShPlonk'[<<"R", i>>] = RPol(i)'
    <3> DEFINE n == <<"R", i>>
    <3>1. n \in DOMAIN new /\ new[n] = RPol(i)
      BY <1>6
    <3> HIDE DEF new, n
    <3>2. n \in DOMAIN polynomialsShPlonk' /\ polynomialsShPlonk'[n] = new[n]
      BY <1>1, <3>1 DEF PutAll
    <3> QED
      BY <1>1, <3>1, <3>2, SameRoots DEF n
  <2> QED
    BY <1>2, <2>1 DEF RInv
<1> QED
  BY <1>1, <1>2, <1>3, <1>8, <1>9, <1>10, <1>11, <1>12 DEF IInv, WInv, QuotientInv

\* W: the sum of the divided polynomials, kept and committed.
LEMMA ComputeWStep ==
  ASSUME IInv, ComputeW
  PROVE  IInv'
<1> DEFINE s == [i \in F |-> divided(i)[Len(f[i].openingPoints)]]
           pW == FoldLeft(plus, Zero, s)
           n == Len(f)
<1>1. /\ pc = "W" /\ pc' \in {"error", "Wp"}
      /\ UNCHANGED <<key, buffCoefs, stage, xiSeed, alpha, y, rootsMap, evaluationCommitments,
                     inverse>>
      /\ \/ pc' = "error" /\ UNCHANGED <<polynomialsShPlonk, polynomialCommitments>>
         \/ /\ polynomialsShPlonk' = Put(polynomialsShPlonk, W, pW)
            /\ polynomialCommitments' = Put(polynomialCommitments, W, pW)
  BY DEF ComputeW
<1>2. KeyInv' /\ F' = F /\ KeyInv /\ ControlInv /\ CommittedInv /\ PolynomialsInv /\ RInv
  BY <1>1, SameKey DEF IInv
<1>3. ControlInv'
  BY <1>1, <1>2 DEF ControlInv
<1>4. rootsMap = Roots(xiSeed) /\ RootsTyped
  BY <1>1, <1>2, RootsAreTyped DEF IInv, RootsInv
<1>5. pW \in polys
  <2>1. n \in Nat /\ F = 1..n
    BY <1>2, KeyFacts
  <2>2. ASSUME NEW i \in F
        PROVE  divided(i)[Len(f[i].openingPoints)] \in polys
    <3>1. Pol("f", i) \in polys
      BY <1>1, <1>2, AllKnown, CommittedPolynomial DEF Pol, Known
    <3>2. Pol("R", i) \in polys
      BY <1>1, <1>2, <1>4, RPolIs DEF RInv, Pol
    <3>3. alphas(i) \in Fr
      BY <1>2, <1>4, PIsNat, TermIs DEF ControlInv
    <3>4. Len(f[i].openingPoints) \in 0..Len(f[i].openingPoints)
      BY <1>2, KeyFacts
    <3> QED
      BY <1>2, <3>1, <3>2, <3>3, <3>4, DividedIs DEF ControlInv
  <2>3. s \in [1..n -> polys]
    BY <2>1, <2>2
  <2> HIDE DEF s, n
  <2> QED
    BY <2>1, <2>3, SumIs
<1> HIDE DEF pW
<1>6. PolynomialsInv'
  <2>1. AllPolynomials(polynomialsShPlonk') /\ AllPolynomials(polynomialCommitments')
    BY <1>1, <1>2, <1>5, PutPolynomial DEF PolynomialsInv
  <2> QED
    BY <2>1 DEF PolynomialsInv, AllPolynomials
<1>7. CommittedInv'
  <2>1. ASSUME NEW i \in F
        PROVE  Known(polynomialsShPlonk', i) /\ Known(polynomialCommitments', i)
    <3>1. Known(polynomialsShPlonk, i) /\ Known(polynomialCommitments, i)
      BY <1>1, <1>2, AllKnown
    <3>2. <<"f", i>> # W
      BY NamesDiffer
    <3> QED
      BY <1>1, <3>1, <3>2, PutKnown
  <2> QED
    BY <1>1, <2>1, KnownNext
<1>8. RootsInv'
  BY <1>1, <1>4, RootsStay
<1>9. EvaluationsInv'
  BY <1>1, SameEvaluations DEF EvaluationsInv, IInv
<1>10. RInv'
  <2>1. ASSUME NEW i \in F
        PROVE  <<"R", i>> \in DOMAIN polynomialsShPlonk' /\ polynomialsShPlonk'[<<"R", i>>] = RPol(i)'
    <3> DEFINE r == <<"R", i>>
    <3>1. r \in DOMAIN polynomialsShPlonk /\ polynomialsShPlonk[r] = RPol(i) /\ r # W
      BY <1>1, <1>2, NamesDiffer DEF RInv
    <3> HIDE DEF r
    <3>2. r \in DOMAIN polynomialsShPlonk' /\ polynomialsShPlonk'[r] = polynomialsShPlonk[r]
      BY <1>1, <3>1 DEF Put, PutAll
    <3> QED
      BY <1>1, <3>1, <3>2, SameRoots DEF r
  <2> QED
    BY <1>2, <2>1 DEF RInv
<1>11. WInv'
  BY <1>1 DEF WInv, Put, PutAll
<1> QED
  BY <1>1, <1>2, <1>3, <1>6, <1>7, <1>8, <1>9, <1>10, <1>11 DEF IInv, QuotientInv

\* Wp: the quotient of the combination, which the division has checked.
LEMMA ComputeWpStep ==
  ASSUME IInv, ComputeWp
  PROVE  IInv'
<1>1. /\ pc = "Wp" /\ KeyInv /\ ControlInv /\ CommittedInv /\ PolynomialsInv /\ RInv /\ WInv
      /\ UNCHANGED <<key, buffCoefs, stage, xiSeed, alpha, rootsMap, evaluationCommitments, inverse>>
  BY DEF ComputeWp, IInv
<1>w. PICK pW : pW = polynomialCommitments[W]
  OBVIOUS
<1>2. W \in DOMAIN polynomialCommitments /\ W \in DOMAIN polynomialsShPlonk
      /\ polynomialsShPlonk[W] = pW /\ pW \in polys
  BY <1>1, <1>w DEF WInv, PolynomialsInv, AllPolynomials
<1>3. \A i \in F : Pol("f", i) = getCommittedPolynomial(i) /\ Pol("R", i) = RPol(i)
  BY <1>1, AllKnown DEF Pol, Known, RInv
<1>4. rootsMap = Roots(xiSeed) /\ RootsTyped
  BY <1>1, RootsAreTyped DEF IInv, RootsInv
<1>5. PICK point \in Challenges.y :
        /\ y' = point
        /\ LET term(i) == mulScalar(subScalar(Pol("f", i), evaluatePol(Pol("R", i), point)),
                                    preL(i, point))
               scaledW == mulScalar(polynomialsShPlonk[W], ZT(point))
               dividend == mulScalar(minus(FoldLeft(plus, Zero, [i \in F |-> term(i)]), scaledW),
                                     inv(ZTS2(point)))
               quotient == divByXSubValue(dividend, point)
           IN  \/ /\ pc' \in {"outOfBounds", "error"}
                  /\ UNCHANGED <<polynomialsShPlonk, polynomialCommitments>>
               \/ /\ pc' = "inverse" /\ dividedByX(dividend, point)
                  /\ polynomialsShPlonk' = Put(Put(polynomialsShPlonk, W, scaledW), Wp, quotient)
                  /\ polynomialCommitments' = Put(polynomialCommitments, Wp, quotient)
  BY DEF ComputeWp
<1>6. point \in Fr
  BY ChallengesAssumption
<1> DEFINE D == Dividend(pW, point)
           q == divByXSubValue(D, point)
           scaled == mulScalar(pW, ZT(point))
<1>7. \/ /\ pc' \in {"outOfBounds", "error"}
         /\ UNCHANGED <<polynomialsShPlonk, polynomialCommitments>>
      \/ /\ pc' = "inverse" /\ dividedByX(D, point)
         /\ polynomialsShPlonk' = Put(Put(polynomialsShPlonk, W, scaled), Wp, q)
         /\ polynomialCommitments' = Put(polynomialCommitments, Wp, q)
  <2> DEFINE term(i) == mulScalar(subScalar(Pol("f", i), evaluatePol(Pol("R", i), point)),
                                  preL(i, point))
             dividend == mulScalar(minus(FoldLeft(plus, Zero, [i \in F |-> term(i)]),
                                         mulScalar(polynomialsShPlonk[W], ZT(point))),
                                   inv(ZTS2(point)))
  <2>1. \A i \in F : term(i) = Term(i, point)
    BY <1>3 DEF Term
  <2>2. [i \in F |-> term(i)] = [i \in F |-> Term(i, point)]
    BY <2>1
  <2>3. dividend = D
    BY <1>2, <2>2 DEF Dividend
  <2> HIDE DEF term, D
  <2> QED
    BY <1>2, <1>5, <2>3 DEF term
<1>8. q \in polys /\ scaled \in polys
  BY <1>1, <1>2, <1>4, <1>6, DividendIs DEF ControlInv
<1> HIDE DEF D, q, scaled
<1>9. PolynomialsInv'
  <2>1. AllPolynomials(polynomialsShPlonk') /\ AllPolynomials(polynomialCommitments')
    BY <1>1, <1>7, <1>8, PutPolynomial DEF PolynomialsInv
  <2> QED
    BY <2>1 DEF PolynomialsInv, AllPolynomials
<1>10. KeyInv' /\ F' = F
  BY <1>1, SameKey
<1>11. ControlInv'
  BY <1>1, <1>5, <1>6, <1>7 DEF ControlInv
<1>12. CommittedInv'
  <2>1. ASSUME NEW i \in F
        PROVE  Known(polynomialsShPlonk', i) /\ Known(polynomialCommitments', i)
    <3>1. Known(polynomialsShPlonk, i) /\ Known(polynomialCommitments, i)
      BY <1>1, AllKnown
    <3>2. <<"f", i>> # W /\ <<"f", i>> # Wp
      BY NamesDiffer
    <3>3. Known(Put(polynomialsShPlonk, W, scaled), i)
      BY <3>1, <3>2, PutKnown
    <3>4. Known(Put(Put(polynomialsShPlonk, W, scaled), Wp, q), i)
      BY <3>2, <3>3, PutKnown
    <3>5. Known(Put(polynomialCommitments, Wp, q), i)
      BY <3>1, <3>2, PutKnown
    <3> QED
      BY <1>7, <3>1, <3>4, <3>5
  <2> QED
    BY <1>1, <2>1, KnownNext
<1>13. RootsInv'
  BY <1>1, <1>4, RootsStay
<1>14. EvaluationsInv'
  BY <1>1, <1>7, SameEvaluations DEF EvaluationsInv, IInv
<1>15. RInv'
  <2>1. ASSUME NEW i \in F
        PROVE  <<"R", i>> \in DOMAIN polynomialsShPlonk' /\ polynomialsShPlonk'[<<"R", i>>] = RPol(i)'
    <3> DEFINE r == <<"R", i>>
    <3>1. r \in DOMAIN polynomialsShPlonk /\ polynomialsShPlonk[r] = RPol(i) /\ r # W /\ r # Wp
      BY <1>1, NamesDiffer DEF RInv
    <3> HIDE DEF r
    <3>2. r \in DOMAIN polynomialsShPlonk' /\ polynomialsShPlonk'[r] = polynomialsShPlonk[r]
      BY <1>7, <3>1 DEF Put, PutAll
    <3> QED
      BY <1>1, <3>1, <3>2, SameRoots DEF r
  <2> QED
    BY <1>10, <2>1 DEF RInv
<1>16. QuotientInv'
  <2>1. CASE pc' = "inverse"
    <3>1. dividedByX(D, point) /\ polynomialCommitments' = Put(polynomialCommitments, Wp, q)
      BY <1>7, <2>1
    <3>2. /\ W \in DOMAIN polynomialCommitments' /\ Wp \in DOMAIN polynomialCommitments'
          /\ polynomialCommitments'[Wp] = q /\ polynomialCommitments'[W] = pW
      <4>1. /\ DOMAIN polynomialCommitments' = DOMAIN polynomialCommitments \cup {Wp}
            /\ polynomialCommitments'[Wp] = q
        BY <3>1 DEF Put, PutAll
      <4>2. W \in DOMAIN polynomialCommitments /\ W # Wp
        BY <1>2, NamesDiffer
      <4>3. polynomialCommitments'[W] = polynomialCommitments[W]
        BY <3>1, <4>2 DEF Put, PutAll
      <4> QED
        BY <1>w, <4>1, <4>2, <4>3
    <3>3. Dividend(pW, point)' = D
      BY <1>1, SameDividend DEF D
    <3>4. Dividend(polynomialCommitments[W], y)' = D
      BY <1>5, <3>2, <3>3
    <3> QED
      BY <1>5, <3>1, <3>2, <3>4 DEF QuotientInv, q
  <2>2. CASE pc' # "inverse"
    BY <1>7, <2>2 DEF QuotientInv
  <2> QED
    BY <2>1, <2>2
<1> QED
  BY <1>7, <1>9, <1>10, <1>11, <1>12, <1>13, <1>14, <1>15, <1>16 DEF IInv, WInv

\* The places of an f's roots: those of its k-th opening point are behind each other.
LEMMA PlaceOfRoot ==
  ASSUME KeyInv, NEW i \in F, NEW k \in 1..Len(f[i].openingPoints), NEW j \in 1..nPols(i)
  PROVE  (k - 1) * nPols(i) + j \in 1..nRoots(i)
<1> DEFINE n == nPols(i)
           l == Len(f[i].openingPoints)
           a == k - 1
<1>1. n \in Nat \ {0} /\ l \in Nat \ {0} /\ nRoots(i) = n * l
  BY KeyFacts DEF nRoots
<1>2. a \in 0..(l - 1) /\ j \in 1..n
  BY <1>1
<1> HIDE DEF n, l, a
<1>3. a * n + n = (a + 1) * n /\ (a + 1) * n <= l * n /\ a * n \in Nat /\ l * n = n * l
  BY <1>1, <1>2
<1>4. a * n + j \in 1..(n * l)
  <2> DEFINE u == a * n
             t == n * l
  <2>1. u \in Nat /\ t \in Nat /\ u + n <= t
    BY <1>1, <1>3
  <2> HIDE DEF u, t
  <2>2. u + j \in 1..t
    BY <1>1, <1>2, <2>1
  <2> QED
    BY <2>2 DEF u, t
<1> QED
  BY <1>1, <1>4 DEF a, n

\* The place that an opening point stands for.
LEMMA OpenValueIs ==
  ASSUME KeyInv, xiSeed \in Fr, NEW i \in F, NEW k \in 1..Len(f[i].openingPoints)
  PROVE  /\ openValue(f[i].openingPoints[k]) \in Fr
         /\ openValue(f[i].openingPoints[k]) = valueAt(xiSeed, f[i].openingPoints[k])
<1> DEFINE n == nPols(i)
           m == (k - 1) * n + 1
<1>1. n \in Nat \ {0} /\ k \in Nat /\ 1 \in 1..n
  BY KeyFacts
<1>2. m \in 1..nRoots(i)
  <2> HIDE DEF n
  <2> QED
    BY <1>1, PlaceOfRoot DEF n
<1>3. ((m - 1) \div n) + 1 = k
  <2> DEFINE a == k - 1
  <2>1. a \in Nat /\ m - 1 = a * n /\ k = a + 1
    BY <1>1, KeyFacts
  <2> HIDE DEF a, m, n
  <2>2. (a * n) \div n = a
    BY <1>1, <2>1
  <2> QED
    BY <2>1, <2>2
<1>4. pointOf(i, m) = f[i].openingPoints[k]
  BY <1>3 DEF pointOf
<1> HIDE DEF m
<1>5. valueAt(xiSeed, f[i].openingPoints[k]) \in Fr
  BY <1>2, <1>4, RootPower
<1> QED
  BY <1>5 DEF openValue, valueAt, challengeXi

\* The denominators of the Lagrange polynomials are elements of the field.
LEMMA FactorsType ==
  ASSUME NEW n \in Nat, NEW g \in [1..n -> Fr]
  PROVE  product(g) \in Fr
BY LastPlace, ProductLaws

\* The factors that the verifier needs the inverses of are elements: the one of a root,
LEMMA ComputeLiType ==
  ASSUME KeyInv, RootsTyped, y \in Fr, NEW i \in F, NEW k \in 1..Len(f[i].openingPoints),
         NEW other \in Fr
  PROVE  computeLi(i, k, other) \in Fr
<1> DEFINE n == nPols(i)
           r == rootsMap[i]
           b == (k - 1) * n
           den1 == mul(mul(n % P, rootPower(i, k)), other)
           at(j) == b + j
           g == [j \in 1..n |->
                   mul(den1, mul(r[at(1 + (((n - 1) * (j - 1)) % n))], yMinus(i, at(j))))]
<1>1. n \in Nat \ {0} /\ 1 \in 1..n /\ k \in Nat /\ k - 1 \in Nat
  BY KeyFacts
<1>2. \A j \in 1..n : at(j) \in 1..nRoots(i)
  BY PlaceOfRoot
<1>3. \A j \in 1..n : r[at(j)] \in Fr /\ yMinus(i, at(j)) \in Fr
  BY <1>2, Operations DEF RootsTyped, yMinus
<1>4. \A j \in 1..n : 1 + (((n - 1) * (j - 1)) % n) \in 1..n
  <2> HIDE DEF n
  <2> SUFFICES ASSUME NEW j \in 1..n
               PROVE  1 + (((n - 1) * (j - 1)) % n) \in 1..n
    OBVIOUS
  <2> DEFINE u == (n - 1) * (j - 1)
  <2>1. u \in Nat
    BY <1>1
  <2> HIDE DEF u
  <2>2. u % n \in 0..(n - 1)
    BY <1>1, <2>1
  <2> QED
    BY <1>1, <2>2 DEF u
<1>5. rootPower(i, k) \in Fr
  <2>1. b + 1 = 1 + (k - 1) * nPols(i)
    <3> DEFINE c == (k - 1) * n
    <3>1. c \in Nat
      BY <1>1
    <3> HIDE DEF c
    <3>2. c + 1 = 1 + c
      BY <3>1
    <3> QED
      BY <3>2 DEF c
  <2>2. r[1 + (k - 1) * nPols(i)] \in Fr
    BY <1>1, <1>3, <2>1
  <2> DEFINE e == IF n > 2 THEN n - 2 ELSE 0
             x == r[1 + (k - 1) * nPols(i)]
  <2>3. e \in Nat
    BY <1>1
  <2>4. rootPower(i, k) = power(x, e)
    BY DEF rootPower
  <2> HIDE DEF e, x
  <2> QED
    BY <2>2, <2>3, <2>4, PowerType DEF x
<1>6. den1 \in Fr
  <2>1. n % P \in Fr
    <3> HIDE DEF n
    <3> QED
      BY <1>1, PIsNat DEF Fr
  <2> QED
    BY <1>5, <2>1, Operations
<1> HIDE DEF den1, n, r, b
<1>7. g \in [1..n -> Fr]
  <2>1. ASSUME NEW j \in 1..n
        PROVE  g[j] \in Fr
    <3>1. /\ r[at(1 + (((n - 1) * (j - 1)) % n))] \in Fr /\ yMinus(i, at(j)) \in Fr
      BY <1>3, <1>4
    <3> QED
      BY <1>6, <3>1, Operations
  <2> QED
    BY <2>1
<1>8. computeLi(i, k, other) = product(g)
  BY DEF computeLi, n, r, b, den1
<1> HIDE DEF g
<1> QED
  BY <1>1, <1>7, <1>8, FactorsType

\* and the product of those of an f.
LEMMA DenominatorsType ==
  ASSUME KeyInv, RootsTyped, y \in Fr, xiSeed \in Fr, NEW i \in F
  PROVE  denominators(i) \in Fr
<1> DEFINE n == nRoots(i)
           l == Len(f[i].openingPoints)
<1>1. n \in Nat /\ l \in Nat \ {0} /\ rootsMap[i] \in [1..n -> Fr] /\ nPols(i) \in Nat \ {0}
  BY KeyFacts DEF RootsTyped
<1>2. CASE l > 2
  <2>1. ASSUME NEW j \in 1..n
        PROVE  differences(i, j) \in Fr
    <3> DEFINE T == (1..n) \ {j}
               g == [m \in T |-> sub(rootsMap[i][j], rootsMap[i][m])]
    <3>1. IsFiniteSet(T)
      BY <1>1, LastPlace, FS_Subset
    <3>2. g \in [T -> Fr]
      BY <1>1, Operations
    <3> HIDE DEF T, g
    <3>3. product(g) \in Fr
      BY <3>1, <3>2, ProductLaws
    <3> QED
      BY <3>3 DEF g, T, differences
  <2> DEFINE h == [j \in 1..n |-> differences(i, j)]
  <2>2. h \in [1..n -> Fr]
    BY <2>1
  <2> HIDE DEF h, n
  <2>3. product(h) \in Fr
    BY <1>1, <2>2, FactorsType
  <2> QED
    BY <1>2, <2>3 DEF denominators, computeLiMultipleOpeningPoints, h, n
<1>3. CASE l = 2
  <2>1. CASE nPols(i) = 1
    <3>1. n = 2
      BY <1>3, <2>1 DEF nRoots
    <3>2. rootsMap[i][1] \in Fr /\ rootsMap[i][2] \in Fr
      BY <1>1, <3>1
    <3> QED
      BY <1>3, <2>1, <3>2, Operations DEF denominators, computeLiTwoOpeningPoints
  <2>2. CASE nPols(i) # 1
    <3>1. 1 \in 1..l /\ 2 \in 1..l
      BY <1>3
    <3>2. xi(i, 1) \in Fr /\ xi(i, 2) \in Fr
      BY <3>1, OpenValueIs DEF xi
    <3>3. sub(xi(i, 1), xi(i, 2)) \in Fr /\ sub(xi(i, 2), xi(i, 1)) \in Fr
      BY <3>2, Operations
    <3>4. computeLi(i, 1, sub(xi(i, 1), xi(i, 2))) \in Fr /\ computeLi(i, 2, sub(xi(i, 2), xi(i, 1))) \in Fr
      BY <3>1, <3>3, ComputeLiType
    <3> QED
      BY <1>3, <2>2, <3>4, Operations DEF denominators, computeLiTwoOpeningPoints
  <2> QED
    BY <2>1, <2>2
<1>4. CASE ~(l > 2) /\ l # 2
  <2>1. 1 \in 1..l /\ 1 \in Fr
    BY <1>1, PIsNat
  <2>2. computeLi(i, 1, 1) \in Fr
    BY <2>1, ComputeLiType
  <2> QED
    BY <1>4, <2>1, <2>2 DEF denominators, computeLiSingleOpeningPoint
<1> QED
  BY <1>2, <1>3, <1>4

\* The batched inverse is an element of the field, and changes nothing else.
LEMMA InverseStep ==
  ASSUME IInv, getMontgomeryBatchedInverse
  PROVE  IInv'
<1> DEFINE S == FirstOfShape(F \ {1})
           T == FirstOfShape(F)
           g == [i \in S |-> mulL(i, y)]
           h == [i \in T |-> denominators(i)]
<1>1. /\ pc = "inverse" /\ pc' = "done" /\ inverse' = inv(mul(product(g), product(h)))
      /\ UNCHANGED <<key, buffCoefs, stage, xiSeed, alpha, y, rootsMap, polynomialsShPlonk,
                     polynomialCommitments, evaluationCommitments>>
  BY DEF getMontgomeryBatchedInverse
<1>2. KeyInv /\ KeyInv' /\ F' = F /\ ControlInv /\ CommittedInv /\ PolynomialsInv /\ RInv /\ QuotientInv
  BY <1>1, SameKey DEF IInv
<1>3. rootsMap = Roots(xiSeed) /\ RootsTyped
  BY <1>1, <1>2, RootsAreTyped DEF IInv, RootsInv
<1>4. y \in Fr /\ xiSeed \in Fr
  BY <1>2 DEF ControlInv
<1>5. IsFiniteSet(S) /\ IsFiniteSet(T) /\ S \subseteq F /\ T \subseteq F
  <2>1. S \subseteq F /\ T \subseteq F
    BY DEF FirstOfShape
  <2>2. IsFiniteSet(F)
    BY <1>2, KeyFacts, LastPlace
  <2> QED
    BY <2>1, <2>2, FS_Subset
<1>6. g \in [S -> Fr] /\ h \in [T -> Fr]
  BY <1>2, <1>3, <1>4, <1>5, Zerofiers, DenominatorsType
<1> HIDE DEF S, T, g, h
<1>7. inverse' \in Fr
  <2>1. product(g) \in Fr /\ product(h) \in Fr
    BY <1>5, <1>6, ProductLaws
  <2> QED
    BY <1>1, <2>1, Operations, InvType
<1>8. ControlInv'
  BY <1>1, <1>2, <1>7 DEF ControlInv
<1>9. PolynomialsInv'
  BY <1>1, <1>2 DEF PolynomialsInv, AllPolynomials
<1>10. CommittedInv'
  BY <1>1, <1>2, AllKnown, KnownNext
<1>11. RootsInv'
  BY <1>1, <1>3, RootsStay
<1>12. EvaluationsInv'
  BY <1>1, SameEvaluations DEF EvaluationsInv, IInv
<1>13. RInv'
  BY <1>1, <1>2, SameRoots DEF RInv
<1>14. QuotientInv'
  <2>1. PICK pW : pW = polynomialCommitments[W]
    OBVIOUS
  <2>2. PICK point : point = y
    OBVIOUS
  <2>3. Dividend(pW, point)' = Dividend(pW, point)
    BY <1>1, SameDividend
  <2>4. Dividend(polynomialCommitments[W], y)' = Dividend(polynomialCommitments[W], y)
    BY <1>1, <2>1, <2>2, <2>3
  <2> QED
    BY <1>1, <1>2, <2>4 DEF QuotientInv
<1> QED
  BY <1>1, <1>2, <1>8, <1>9, <1>10, <1>11, <1>12, <1>13, <1>14 DEF IInv, WInv

\* What is evaluated: the polynomials of an f at its opening points.
LEMMA OpenedIs ==
  ASSUME KeyInv, NEW t \in Opened
  PROVE  /\ t[1] \in F /\ t[2] \in 1..nPols(t[1])
         /\ \E k \in 1..Len(f[t[1]].openingPoints) : t[3] = f[t[1]].openingPoints[k]
<1>1. PICK i \in F : t \in {<<i, j, o>> : j \in 1..nPols(i), o \in ToSet(f[i].openingPoints)}
  BY DEF Opened
<1>2. PICK j \in 1..nPols(i), o \in ToSet(f[i].openingPoints) : t = <<i, j, o>>
  BY <1>1
<1>3. \E k \in 1..Len(f[i].openingPoints) : o = f[i].openingPoints[k]
  <2>1. KeyType(key)
    BY ShKeyAssumption DEF KeyInv
  <2>2. DOMAIN f[i].openingPoints = 1..Len(f[i].openingPoints)
    BY <2>1 DEF KeyType, NotEmpty, f, F
  <2>3. \E k \in DOMAIN f[i].openingPoints : o = f[i].openingPoints[k]
    BY DEF ToSet
  <2> QED
    BY <2>2, <2>3
<1> QED
  BY <1>2, <1>3

\* Each name is that of one polynomial at one opening point.
LEMMA EvaluationFound ==
  ASSUME KeyInv, NEW i \in F, NEW j \in 1..nPols(i), NEW k \in 1..Len(f[i].openingPoints)
  PROVE  /\ <<f[i].pols[j], f[i].openingPoints[k]>> \in EvaluationNames
         /\ EvaluationOf(<<f[i].pols[j], f[i].openingPoints[k]>>)
              = evaluation(i, j, f[i].openingPoints[k])
<1> DEFINE o == f[i].openingPoints[k]
           p == f[i].pols[j]
           u == <<i, j, o>>
           Named(t) == <<f[t[1]].pols[t[2]], t[3]>> = <<p, o>>
           t0 == CHOOSE t \in Opened : Named(t)
<1>1. u \in Opened
  <2>1. o \in ToSet(f[i].openingPoints)
    <3>1. KeyType(key)
      BY ShKeyAssumption DEF KeyInv
    <3>2. DOMAIN f[i].openingPoints = 1..Len(f[i].openingPoints)
      BY <3>1 DEF KeyType, NotEmpty, f, F
    <3> QED
      BY <3>2 DEF ToSet
  <2> HIDE DEF o
  <2>2. <<i, j, o>> \in {<<i, l, x>> : l \in 1..nPols(i), x \in ToSet(f[i].openingPoints)}
    BY <2>1
  <2> QED
    BY <2>2 DEF Opened
<1>2. Named(u)
  OBVIOUS
<1>3. t0 \in Opened /\ Named(t0)
  <2> HIDE DEF Named, u
  <2> QED
    BY <1>1, <1>2
<1>4. t0[1] \in F /\ t0[2] \in 1..nPols(t0[1])
  <2> HIDE DEF t0
  <2> QED
    BY <1>3, OpenedIs
<1>5. f[t0[1]].pols[t0[2]] = p /\ t0[3] = o
  BY <1>3
<1> DEFINE a == t0[1]
           b == t0[2]
<1>6. a \in F /\ b \in 1..nPols(a) /\ f[a].pols[b] = p
  BY <1>4, <1>5
<1>7. /\ \A l \in F : IsInjective(f[l].pols) /\ DOMAIN f[l].pols = 1..nPols(l)
      /\ \A l, m \in F : l # m => ToSet(f[l].pols) \cap ToSet(f[m].pols) = {}
  <2>1. \A l \in F : IsInjective(f[l].pols)
    BY ShKeyAssumption DEF KeyInv, f, F
  <2>2. \A l, m \in F : l # m => ToSet(f[l].pols) \cap ToSet(f[m].pols) = {}
    BY ShKeyAssumption DEF KeyInv, f, F
  <2> QED
    BY <2>1, <2>2, KeyFacts
<1> HIDE DEF a, b, t0
<1>8. a = i
  <2>1. p \in ToSet(f[i].pols)
    BY <1>7 DEF ToSet
  <2>2. p \in ToSet(f[a].pols)
    BY <1>6, <1>7 DEF ToSet
  <2> QED
    BY <1>6, <1>7, <2>1, <2>2
<1>9. b = j
  <2>1. f[i].pols[b] = f[i].pols[j] /\ b \in DOMAIN f[i].pols /\ j \in DOMAIN f[i].pols
    BY <1>6, <1>7, <1>8
  <2> QED
    BY <1>7, <2>1 DEF IsInjective
<1>10. EvaluationOf(<<p, o>>) = evaluation(t0[1], t0[2], t0[3])
  BY DEF EvaluationOf, evaluationName, t0
<1>11. <<p, o>> \in EvaluationNames
  <2>1. evaluationName(f[u[1]].pols[u[2]], u[3]) = <<p, o>>
    BY DEF evaluationName
  <2> HIDE DEF u
  <2> QED
    BY <1>1, <2>1 DEF EvaluationNames
<1> QED
  BY <1>5, <1>8, <1>9, <1>10, <1>11 DEF a, b

\* Every evaluation that is sent is an element.
LEMMA EvaluationsType ==
  ASSUME KeyInv, xiSeed \in Fr
  PROVE  Evaluations \in [EvaluationNames -> Fr]
<1> SUFFICES ASSUME NEW name \in EvaluationNames
             PROVE  EvaluationOf(name) \in Fr
  BY DEF Evaluations
<1> DEFINE Named(t) == evaluationName(f[t[1]].pols[t[2]], t[3]) = name
           t0 == CHOOSE t \in Opened : Named(t)
<1>1. \E t \in Opened : Named(t)
  BY DEF EvaluationNames
<1>2. t0 \in Opened
  <2> HIDE DEF Named
  <2> QED
    BY <1>1
<1>3. EvaluationOf(name) = evaluation(t0[1], t0[2], t0[3])
  BY DEF EvaluationOf
<1> HIDE DEF t0
<1>4. /\ t0[1] \in F /\ t0[2] \in 1..nPols(t0[1])
      /\ \E k \in 1..Len(f[t0[1]].openingPoints) : t0[3] = f[t0[1]].openingPoints[k]
  BY <1>2, OpenedIs
<1> DEFINE a == t0[1]
           b == t0[2]
           c == t0[3]
<1>5. a \in F /\ b \in 1..nPols(a)
      /\ \E k \in 1..Len(f[a].openingPoints) : c = f[a].openingPoints[k]
  BY <1>4
<1> HIDE DEF a, b, c
<1>6. PICK k \in 1..Len(f[a].openingPoints) : c = f[a].openingPoints[k]
  BY <1>5
<1>7. c \in Nat /\ valueAt(xiSeed, c) \in Fr
  <2>1. c \in 0..(key.N - 1) /\ key.N \in Nat \ {0}
    BY <1>5, <1>6, KeyFacts
  <2>2. c \in Nat
    BY <2>1
  <2> QED
    BY <1>5, <1>6, <2>2, OpenValueIs
<1>8. evaluation(a, b, c) \in Fr
  BY <1>5, <1>7, EvaluationIs
<1> QED
  BY <1>3, <1>8 DEF a, b, c

\* The opening starts with nothing sent.
LEMMA InitIs ==
  ASSUME Init
  PROVE  IInv
<1>1. KeyInv /\ pc = "commit" /\ stage = 0
  BY DEF Init, KeyInv
<1>2. ControlInv
  BY PIsNat DEF Init, ControlInv, Stages
<1>3. DOMAIN polynomialsShPlonk = {} /\ DOMAIN polynomialCommitments = {}
  BY DEF Init
<1>4. PolynomialsInv
  BY <1>3 DEF PolynomialsInv, AllPolynomials
<1>5. CommittedInv
  <2>1. \A i \in F : ~(f[i].stage < 0)
    BY <1>1, KeyFacts DEF Stages
  <2> QED
    BY <1>1, <2>1 DEF CommittedInv, Sent
<1>6. EvaluationsInv
  BY <1>1 DEF Init, EvaluationsInv
<1> QED
  BY <1>1, <1>2, <1>4, <1>5, <1>6 DEF IInv, RootsInv, RInv, WInv, QuotientInv

\* A step that changes nothing keeps the invariant.
LEMMA StutterStep ==
  ASSUME IInv, UNCHANGED vars
  PROVE  IInv'
<1>1. /\ UNCHANGED <<key, buffCoefs, xiSeed, alpha, y, rootsMap>>
      /\ UNCHANGED <<pc, stage, polynomialsShPlonk, polynomialCommitments, evaluationCommitments, inverse>>
  BY DEF vars
<1>2. KeyInv' /\ F' = F /\ ControlInv' /\ PolynomialsInv'
  BY <1>1, SameKey DEF IInv, ControlInv, PolynomialsInv, AllPolynomials
<1>3. CommittedInv'
  <2>1. f' = f
    BY <1>1, SameKey
  <2>2. \A i \in F : Sent(i)' => Known(polynomialsShPlonk', i) /\ Known(polynomialCommitments', i)
    BY <1>1, <2>1 DEF IInv, CommittedInv, Sent
  <2> QED
    BY <1>1, <2>2, KnownNext
<1>4. RootsInv'
  <2>1. CASE pc \in {"commit", "roots"}
    BY <1>1, <2>1 DEF RootsInv
  <2>2. CASE pc \notin {"commit", "roots"}
    BY <1>1, <2>2, RootsStay DEF IInv, RootsInv
  <2> QED
    BY <2>1, <2>2
<1>5. EvaluationsInv'
  BY <1>1, SameEvaluations DEF IInv, EvaluationsInv
<1>6. RInv'
  BY <1>1, <1>2, SameRoots DEF IInv, RInv
<1>7. WInv'
  BY <1>1 DEF IInv, WInv
<1>8. QuotientInv'
  <2>1. PICK pW : pW = polynomialCommitments[W]
    OBVIOUS
  <2>2. PICK point : point = y
    OBVIOUS
  <2>3. Dividend(pW, point)' = Dividend(pW, point)
    BY <1>1, SameDividend
  <2>4. Dividend(polynomialCommitments[W], y)' = Dividend(polynomialCommitments[W], y)
    BY <1>1, <2>1, <2>2, <2>3
  <2> QED
    BY <1>1, <2>4 DEF IInv, QuotientInv
<1> QED
  BY <1>2, <1>3, <1>4, <1>5, <1>6, <1>7, <1>8 DEF IInv

\* What is known of the opening in every state.
THEOREM Invariance == Spec => []IInv
<1>1. Init => IInv
  BY InitIs
<1>2. IInv /\ [Next]_vars => IInv'
  <2> SUFFICES ASSUME IInv, [Next]_vars
               PROVE  IInv'
    OBVIOUS
  <2>1. CASE Commit
    BY <2>1, CommitStep
  <2>2. CASE CalculateRoots
    BY <2>2, CalculateRootsStep
  <2>3. CASE CalculateEvaluations
    BY <2>3, CalculateEvaluationsStep
  <2>4. CASE ComputeR
    BY <2>4, ComputeRStep
  <2>5. CASE ComputeW
    BY <2>5, ComputeWStep
  <2>6. CASE ComputeWp
    BY <2>6, ComputeWpStep
  <2>7. CASE getMontgomeryBatchedInverse
    BY <2>7, InverseStep
  <2>8. CASE Ended \/ UNCHANGED vars
    BY <2>8, StutterStep DEF Ended
  <2> QED
    BY <2>1, <2>2, <2>3, <2>4, <2>5, <2>6, <2>7, <2>8 DEF Next
<1> QED
  BY <1>1, <1>2, PTL DEF Spec

\* Every challenge, root, coefficient and evaluation is an element of the field, and the
\* evaluations have the names of the polynomials with their opening points.
THEOREM Types == Spec => []TypeOK
<1>1. IInv => TypeOK
  <2> SUFFICES ASSUME IInv
               PROVE  TypeOK
    OBVIOUS
  <2>1. KeyInv /\ ControlInv
    BY DEF IInv
  <2>2. pc \notin {"commit", "roots"} => \A i \in F : rootsMap[i] \in [1..nRoots(i) -> Fr]
    BY <2>1, RootsAreTyped DEF IInv, RootsInv, RootsTyped
  <2>3. PolynomialsIn(polynomialsShPlonk) /\ PolynomialsIn(polynomialCommitments)
    <3>1. \A p \in polys : \A e \in DOMAIN p : p[e] \in Fr
      BY DEF polys
    <3> QED
      BY <3>1 DEF IInv, PolynomialsInv, AllPolynomials, PolynomialsIn
  <2>4. \/ evaluationCommitments = <<>>
        \/ evaluationCommitments \in [{<<f[t[1]].pols[t[2]], t[3]>> : t \in Opened} -> Fr]
    <3>1. Evaluations \in [EvaluationNames -> Fr]
      BY <2>1, EvaluationsType DEF ControlInv
    <3> QED
      BY <3>1 DEF IInv, EvaluationsInv, EvaluationNames, evaluationName
  <2> QED
    BY <2>1, <2>2, <2>3, <2>4 DEF TypeOK, ControlInv
<1> QED
  BY <1>1, Invariance, PTL

\* What is divided by the factors of all but the first f, D, is multiplied by the first's
\* and divided by its own.
LEMMA Quotients ==
  ASSUME NEW a \in Fr, NEW b \in Fr, NEW D \in Fr \ {0}, NEW g \in Fr \ {0}, NEW E \in Fr,
         mul(b, D) = mul(g, E)
  PROVE  /\ mul(inv(D), mul(a, E)) = mul(a, mul(b, inv(g)))
         /\ mul(inv(D), mul(b, D)) = b
         /\ mul(a, mul(b, inv(g))) \in Fr
<1> DEFINE iD == inv(D)
           ig == inv(g)
           z == mul(b, ig)
<1>1. iD \in Fr /\ mul(D, iD) = 1 /\ ig \in Fr /\ mul(g, ig) = 1
  BY HasInverse
<1> HIDE DEF iD, ig
<1>2. z \in Fr /\ D \in Fr /\ g \in Fr /\ mul(z, D) \in Fr /\ mul(a, z) \in Fr
  BY <1>1, Operations
<1>3. mul(g, z) = b
  <2>1. mul(g, mul(b, ig)) = mul(mul(g, b), ig) /\ mul(g, b) = mul(b, g)
    BY <1>1, <1>2, MulLaws
  <2>2. mul(mul(b, g), ig) = mul(b, mul(g, ig))
    BY <1>1, <1>2, MulLaws
  <2> QED
    BY <1>1, <2>1, <2>2, ZeroLaws
<1> HIDE DEF z
<1>4. E = mul(z, D)
  <2>1. mul(g, mul(z, D)) = mul(b, D)
    BY <1>2, <1>3, MulLaws
  <2> QED
    BY <1>2, <2>1, Cancel
<1>5. \A v \in Fr : mul(iD, mul(v, D)) = v
  <2> SUFFICES ASSUME NEW v \in Fr
               PROVE  mul(iD, mul(v, D)) = v
    OBVIOUS
  <2>1. mul(iD, mul(v, D)) = mul(mul(v, D), iD) /\ mul(mul(v, D), iD) = mul(v, mul(D, iD))
    BY <1>1, <1>2, Operations, MulLaws
  <2> QED
    BY <1>1, <2>1, ZeroLaws
<1>6. mul(a, E) = mul(mul(a, z), D)
  BY <1>2, <1>4, MulLaws
<1>7. mul(iD, mul(a, E)) = mul(a, z)
  BY <1>2, <1>5, <1>6
<1> QED
  BY <1>2, <1>5, <1>7 DEF iD, z, ig

\* A multiple of a difference is the difference of the multiples.
LEMMA ScaledDifference ==
  ASSUME NEW c \in Fr, NEW a \in Fr, NEW b \in Fr
  PROVE  mul(c, sub(a, b)) = sub(mul(c, a), mul(c, b))
<1>1. mul(c, sub(a, b)) = mul(sub(a, b), c) /\ mul(c, a) = mul(a, c) /\ mul(c, b) = mul(b, c)
  BY Operations, MulLaws
<1>2. sub(mul(a, c), mul(b, c)) = mul(sub(a, b), c)
  BY DifferenceTimes
<1> QED
  BY <1>1, <1>2

\* The factors of the f: all of them but one, times the last.
LEMMA FactorsOfAll ==
  ASSUME KeyInv, RootsTyped, NEW point \in Fr, \A i \in F : mulL(i, point) # 0
  PROVE  /\ 1 \in F /\ ZTS2(point) \in Fr \ {0}
         /\ \A i \in F :
              /\ ZT(point) = mul(mulL(i, point), product([j \in F \ {i} |-> mulL(j, point)]))
              /\ ZT(point) = mul(mulL(1, point), ZTS2(point))
<1> DEFINE g == [i \in F |-> mulL(i, point)]
<1>1. 1 \in F /\ IsFiniteSet(F)
  BY KeyFacts, LastPlace
<1>2. g \in [F -> Fr] /\ ZT(point) = product(g)
  BY Zerofiers
<1>3. \A i \in F : Restrict(g, F \ {i}) = [j \in F \ {i} |-> mulL(j, point)]
  BY DEF Restrict
<1>4. \A i \in F : product(g) = mul(g[i], product(Restrict(g, F \ {i})))
  <2> HIDE DEF g
  <2> QED
    BY <1>1, <1>2, ProductLaws
<1>5. \A i \in F : ZT(point) = mul(mulL(i, point), product([j \in F \ {i} |-> mulL(j, point)]))
  BY <1>2, <1>3, <1>4
<1>6. ZTS2(point) = product([j \in F \ {1} |-> mulL(j, point)])
  BY Zerofiers
<1>7. ZTS2(point) \in Fr /\ ZTS2(point) # 0
  <2> DEFINE T == F \ {1}
             h == [j \in T |-> mulL(j, point)]
  <2>1. IsFiniteSet(T)
    BY <1>1, FS_Subset
  <2>2. h \in [T -> Fr \ {0}]
    BY Zerofiers
  <2> HIDE DEF T, h
  <2>3. product(h) # 0
    BY <2>1, <2>2, ProductNotZero
  <2> QED
    BY <1>6, <2>3, Zerofiers DEF h, T
<1> QED
  BY <1>1, <1>5, <1>6, <1>7

\* The verifier recovers the polynomials R of the prover.
LEMMA RecoversR ==
  ASSUME IInv, pc = "done", NEW i \in F
  PROVE  Ri(i) = RPol(i)
<1>1. KeyInv /\ xiSeed \in Fr /\ rootsMap = Roots(xiSeed) /\ evaluationCommitments = Evaluations
  BY DEF IInv, ControlInv, RootsInv, EvaluationsInv
<1>2. ASSUME NEW m \in 1..nRoots(i)
      PROVE  evaluatePol(getCommittedPolynomial(i), rootsMap[i][m])
               = sum([j \in 1..nPols(i) |->
                   mul(power(rootsMap[i][m], j - 1),
                       evaluationCommitments[<<f[i].pols[j],
                                               f[i].openingPoints[((m - 1) \div nPols(i)) + 1]>>])])
  <2> DEFINE k == ((m - 1) \div nPols(i)) + 1
             x == rootsMap[i][m]
             e(j) == evaluationCommitments[<<f[i].pols[j], f[i].openingPoints[k]>>]
  <2>1. x = root(xiSeed, i, m)
    BY <1>1 DEF Roots
  <2>2. k \in 1..Len(f[i].openingPoints) /\ pointOf(i, m) = f[i].openingPoints[k]
    BY <1>1, RootPower DEF pointOf
  <2>3. evaluatePol(getCommittedPolynomial(i), x)
          = sum([j \in 1..nPols(i) |-> mul(power(x, j - 1), evaluation(i, j, pointOf(i, m)))])
    BY <1>1, <2>1, CommittedAtRoot
  <2> HIDE DEF k, x
  <2>4. ASSUME NEW j \in 1..nPols(i)
        PROVE  e(j) = evaluation(i, j, pointOf(i, m))
    <3> DEFINE name == <<f[i].pols[j], f[i].openingPoints[k]>>
    <3>1. name \in EvaluationNames /\ EvaluationOf(name) = evaluation(i, j, f[i].openingPoints[k])
      BY <1>1, <2>2, EvaluationFound
    <3> HIDE DEF name
    <3>2. evaluationCommitments[name] = EvaluationOf(name)
      BY <1>1, <3>1 DEF Evaluations
    <3> QED
      BY <2>2, <3>1, <3>2 DEF name
  <2>5. [j \in 1..nPols(i) |-> mul(power(x, j - 1), evaluation(i, j, pointOf(i, m)))]
          = [j \in 1..nPols(i) |-> mul(power(x, j - 1), e(j))]
    BY <2>4
  <2> QED
    BY <2>3, <2>5 DEF k, x
<1> QED
  BY <1>2 DEF Ri, RPol, ValuesAt

\* The equation of the verifier, in every secret point.
LEMMA Accepts ==
  ASSUME IInv
  PROVE  VerifierAccepts
<1> SUFFICES ASSUME pc = "done", Generic, NEW tau \in Fr
             PROVE  LET quotient(i) == mul(power(alpha, i - 1), mul(mulL(1, y), inv(mulL(i, y))))
                        opened == FoldLeft(plus, Zero, [i \in F |->
                          mulScalar(subScalar(polynomialCommitments[<<"f", i>>], evaluate(Ri(i), y)),
                                    quotient(i))])
                        left == minus(opened, mulScalar(polynomialCommitments[W], mulL(1, y)))
                    IN  evaluate(left, tau)
                          = mul(sub(tau, y), evaluate(polynomialCommitments[Wp], tau))
  BY DEF VerifierAccepts
<1> DEFINE quotient(i) == mul(power(alpha, i - 1), mul(mulL(1, y), inv(mulL(i, y))))
           r == [i \in F |->
                  mulScalar(subScalar(polynomialCommitments[<<"f", i>>], evaluate(Ri(i), y)), quotient(i))]
           s == [i \in F |-> Term(i, y)]
           pW == polynomialCommitments[W]
           opened == FoldLeft(plus, Zero, r)
           all == FoldLeft(plus, Zero, s)
           g == mulL(1, y)
           left == minus(opened, mulScalar(pW, g))
           c == inv(ZTS2(y))
           n == Len(f)
<1>1. /\ KeyInv /\ ControlInv /\ CommittedInv /\ PolynomialsInv /\ QuotientInv
      /\ rootsMap = Roots(xiSeed) /\ y \in Fr /\ alpha \in Fr
  BY DEF IInv, ControlInv, RootsInv
<1>2. RootsTyped
  BY <1>1, RootsAreTyped
<1>3. \A i \in F : mulL(i, y) \in Fr \ {0}
  BY <1>1, <1>2, Zerofiers DEF Generic
<1>4. 1 \in F /\ ZTS2(y) \in Fr \ {0} /\ ZT(y) = mul(g, ZTS2(y)) /\ ZT(y) \in Fr
      /\ \A i \in F : ZT(y) = mul(mulL(i, y), product([j \in F \ {i} |-> mulL(j, y)]))
  BY <1>1, <1>2, <1>3, FactorsOfAll, Zerofiers
<1>5. g \in Fr /\ c \in Fr /\ mul(c, ZT(y)) = g
  BY <1>3, <1>4, InvType, PIsNat, Quotients
<1>6. n \in Nat /\ F = 1..n
  BY <1>1, KeyFacts
<1>7. pW \in polys /\ polynomialCommitments[Wp] = divByXSubValue(Dividend(pW, y), y)
      /\ dividedByX(Dividend(pW, y), y)
  BY <1>1 DEF QuotientInv, PolynomialsInv, AllPolynomials
<1>8. /\ s \in [1..n -> polys] /\ all \in polys /\ mulScalar(pW, ZT(y)) \in polys
      /\ Dividend(pW, y) \in polys /\ polynomialCommitments[Wp] \in polys
  BY <1>1, <1>2, <1>7, DividendIs
<1>9. ASSUME NEW i \in F
      PROVE  r[i] \in polys /\ evaluateAt(r[i], tau) = mul(c, evaluateAt(s[i], tau))
  <2> DEFINE p == subScalar(getCommittedPolynomial(i), evaluateAt(RPol(i), y))
             E == product([j \in F \ {i} |-> mulL(j, y)])
             q == quotient(i)
             v == preL(i, y)
  <2>1. /\ p \in polys /\ v \in Fr /\ E \in Fr /\ alphas(i) \in Fr
        /\ evaluatePol(RPol(i), y) = evaluateAt(RPol(i), y)
    BY <1>1, <1>2, TermIs
  <2>2. polynomialCommitments[<<"f", i>>] = getCommittedPolynomial(i)
    BY <1>1, AllKnown DEF Known
  <2>3. evaluate(Ri(i), y) = evaluateAt(RPol(i), y)
    BY <1>1, <1>2, RecoversR, RPolIs, PolynomialTerms
  <2>4. s[i] = mulScalar(p, v)
    BY <2>1 DEF Term
  <2>5. r[i] = mulScalar(p, q)
    BY <2>2, <2>3
  <2>6. q = mul(alphas(i), mul(g, inv(mulL(i, y)))) /\ v = mul(alphas(i), E)
    BY DEF alphas, preL
  <2>7. mul(g, ZTS2(y)) = mul(mulL(i, y), E)
    BY <1>4
  <2> HIDE DEF p, E, q, v, r, s, g
  <2>8. mul(c, v) = q /\ q \in Fr
    BY <1>3, <1>4, <1>5, <2>1, <2>6, <2>7, Quotients
  <2> DEFINE u == evaluateAt(p, tau)
  <2>9. u \in Fr
    BY <2>1, ValueType
  <2>10. r[i] \in polys /\ evaluateAt(r[i], tau) = mul(q, u) /\ evaluateAt(s[i], tau) = mul(v, u)
    BY <2>1, <2>4, <2>5, <2>8, MulScalarIs
  <2> HIDE DEF c, u
  <2>11. mul(q, u) = mul(c, mul(v, u))
    BY <1>5, <2>1, <2>8, <2>9, MulLaws
  <2> QED
    BY <2>10, <2>11
<1>10. r \in [1..n -> polys]
  BY <1>6, <1>9
<1>11. evaluateAt(opened, tau) = mul(c, evaluateAt(all, tau)) /\ opened \in polys
  <2> HIDE DEF r, s, c, n
  <2> QED
    BY <1>5, <1>6, <1>8, <1>9, <1>10, SumOfMultiples, SumIs
<1> HIDE DEF r, s, opened, all, c, n, g, pW
<1> DEFINE S == evaluateAt(all, tau)
           w1 == evaluateAt(pW, tau)
           l == minus(all, mulScalar(pW, ZT(y)))
<1>12. S \in Fr /\ w1 \in Fr
  BY <1>7, <1>8, ValueType
<1>13. evaluateAt(left, tau) = sub(mul(c, S), mul(g, w1)) /\ left \in polys
  <2> DEFINE b == mulScalar(pW, g)
             m == minus(opened, b)
  <2>1. b \in polys /\ evaluateAt(b, tau) = mul(g, w1)
    BY <1>5, <1>7, MulScalarIs
  <2> HIDE DEF b
  <2>2. m \in polys /\ evaluateAt(m, tau) = sub(evaluateAt(opened, tau), evaluateAt(b, tau))
    BY <1>11, <2>1, MinusIs
  <2> QED
    BY <1>11, <2>1, <2>2 DEF b
<1>14. evaluateAt(Dividend(pW, y), tau) = mul(c, sub(S, mul(ZT(y), w1)))
  <2> DEFINE b == mulScalar(pW, ZT(y))
             m == minus(all, b)
  <2>1. b \in polys /\ evaluateAt(b, tau) = mul(ZT(y), w1)
    BY <1>4, <1>7, MulScalarIs
  <2> HIDE DEF b
  <2>2. m \in polys /\ evaluateAt(m, tau) = sub(evaluateAt(all, tau), evaluateAt(b, tau))
    <3>1. all \in polys
      BY <1>8
    <3> HIDE DEF S, w1, l
    <3> QED
      BY <2>1, <3>1, MinusIs
  <2>3. m = l
    BY DEF b
  <2> HIDE DEF m
  <2>4. Dividend(pW, y) = mulScalar(l, c)
    BY DEF Dividend, l, all, s, c
  <2> HIDE DEF l
  <2> QED
    BY <1>5, <2>1, <2>2, <2>4, <2>3, MulScalarIs
<1>15. mul(c, sub(S, mul(ZT(y), w1))) = sub(mul(c, S), mul(g, w1))
  <2>1. mul(ZT(y), w1) \in Fr
    BY <1>4, <1>12, Operations
  <2>2. mul(c, mul(ZT(y), w1)) = mul(mul(c, ZT(y)), w1)
    BY <1>4, <1>5, <1>12, MulLaws
  <2> HIDE DEF S, w1
  <2> QED
    BY <1>5, <1>12, <2>1, <2>2, ScaledDifference
<1>16. evaluateAt(Dividend(pW, y), tau)
         = mul(sub(tau, y), evaluateAt(polynomialCommitments[Wp], tau))
  BY <1>1, <1>7, <1>8, DivByXIs
<1>17. evaluate(left, tau) = evaluateAt(left, tau)
       /\ evaluate(polynomialCommitments[Wp], tau) = evaluateAt(polynomialCommitments[Wp], tau)
  BY <1>8, <1>13, PolynomialTerms
<1>18. evaluate(left, tau) = mul(sub(tau, y), evaluate(polynomialCommitments[Wp], tau))
  BY <1>13, <1>14, <1>15, <1>16, <1>17
<1> QED
  BY <1>18 DEF left, opened, r, pW, g

\* What open() sends, a verifier accepts: the two sides of its equation have the same
\* value in every secret point, for every key, input and challenge for which no divisor
\* is zero.
THEOREM Verified == Spec => []VerifierAccepts
<1>1. IInv => VerifierAccepts
  BY Accepts
<1> QED
  BY <1>1, Invariance, PTL

-----------------------------------------------------------------------------
\* No prover refuses what it has computed itself.  The places that the opening points
\* stand for are not zero,
LEMMA OpenValueNotZero ==
  ASSUME KeyInv, xiSeed \in Fr \ {0}, NEW i \in F, NEW k \in 1..Len(f[i].openingPoints)
  PROVE  openValue(f[i].openingPoints[k]) \in Fr \ {0}
<1> DEFINE o == f[i].openingPoints[k]
<1>1. o \in Nat /\ key.N \in Nat \ {0} /\ key.powerW \in Nat /\ generator \in Fr /\ generator # 0
      /\ xiSeed \in Fr /\ xiSeed # 0
  BY KeyFacts
<1>2. challengeXi \in Fr /\ challengeXi # 0
  BY <1>1, PowerOfOne DEF challengeXi
<1>3. (P - 1) \div (key.N * 1) \in Nat
  <2>1. P - 1 \in Nat /\ key.N * 1 = key.N
    BY <1>1, PIsNat
  <2> DEFINE a == P - 1
             b == key.N
  <2> HIDE DEF a, b
  <2>2. a \in Nat /\ b \in Nat \ {0}
    BY <1>1, <2>1 DEF a, b
  <2>3. a \div b \in Nat
    BY <2>2
  <2> QED
    BY <2>1, <2>3 DEF a, b
<1>4. omega(key.N * 1) \in Fr /\ omega(key.N * 1) # 0
  BY <1>1, <1>3, PowerOfOne DEF omega
<1>5. wd(1, 1) \in Fr /\ wd(1, 1) # 0
  <2>1. 1 \in Nat
    OBVIOUS
  <2> QED
    BY <1>4, <2>1, PowerOfOne DEF wd
<1> HIDE DEF o
<1>6. power(wd(1, 1), o) \in Fr /\ power(wd(1, 1), o) # 0
  BY <1>1, <1>5, PowerOfOne
<1>7. mul(challengeXi, power(wd(1, 1), o)) \in Fr /\ mul(challengeXi, power(wd(1, 1), o)) # 0
  BY <1>2, <1>6, Operations, Cancel
<1> QED
  BY <1>7 DEF openValue, o

\* and the roots of an f are the roots of order nPols of them.
Values(i) == [k \in 1..Len(f[i].openingPoints) |-> openValue(f[i].openingPoints[k])]
LEMMA RootsAreRoots ==
  ASSUME KeyInv, xiSeed \in Fr \ {0}, rootsMap = Roots(xiSeed), RootsTyped, NEW i \in F,
         IsInjective(rootsMap[i])
  PROVE  /\ Values(i) \in [1..Len(f[i].openingPoints) -> Fr \ {0}]
         /\ AreRootsOf(rootsMap[i], Values(i), nPols(i), Len(f[i].openingPoints))
<1> DEFINE n == nPols(i)
           l == Len(f[i].openingPoints)
<1>1. n \in Nat \ {0} /\ l \in Nat \ {0} /\ nRoots(i) = n * l /\ xiSeed \in Fr
  BY KeyFacts DEF nRoots
<1>2. Values(i) \in [1..l -> Fr \ {0}]
  BY OpenValueNotZero DEF Values
<1>3. rootsMap[i] \in [1..(n * l) -> Fr]
  BY <1>1 DEF RootsTyped
<1>4. ASSUME NEW k \in 1..l, NEW j \in 1..n
      PROVE  power(rootsMap[i][(k - 1) * n + j], n) = Values(i)[k]
  <2> DEFINE m == (k - 1) * n + j
  <2>1. m \in 1..nRoots(i)
    BY PlaceOfRoot
  <2>2. ((m - 1) \div n) + 1 = k
    <3> DEFINE q == k - 1
               r == j - 1
               e == m - 1
    <3>1. q \in Nat /\ r \in 0..(n - 1) /\ k = q + 1
      BY <1>1
    <3>2. e = n * q + r
      <4>1. q * n = n * q /\ m = q * n + j
        BY <1>1, <3>1
      <4> HIDE DEF q
      <4>2. q * n \in Nat
        BY <1>1, <3>1
      <4> HIDE DEF m
      <4> QED
        BY <1>1, <4>1, <4>2
    <3> HIDE DEF q, r, e, n
    <3>3. e \in Nat
      BY <1>1, <3>1, <3>2, PlaceOfRow
    <3>4. \A d \in Nat : d = n * q + r <=> d \div n = q /\ d % n = r
      BY <1>1, <3>1, PlaceOfRow
    <3>5. e \div n = q
      BY <3>2, <3>3, <3>4
    <3> QED
      BY <3>1, <3>5 DEF e
  <2>3. rootsMap[i][m] = root(xiSeed, i, m)
    BY <2>1 DEF Roots
  <2>4. pointOf(i, m) = f[i].openingPoints[k]
    BY <2>2 DEF pointOf
  <2> HIDE DEF m
  <2>5. power(root(xiSeed, i, m), n) = valueAt(xiSeed, pointOf(i, m))
    BY <1>1, <2>1, RootPower
  <2>6. Values(i)[k] = valueAt(xiSeed, f[i].openingPoints[k])
    BY <1>1, OpenValueIs DEF Values
  <2> QED
    BY <2>3, <2>4, <2>5, <2>6 DEF m
<1> HIDE DEF n, l
<1> QED
  BY <1>2, <1>3, <1>4 DEF AreRootsOf, n, l

\* The f and the R of the step.
AtHand == \A i \in F : Pol("f", i) = getCommittedPolynomial(i) /\ Pol("R", i) = RPol(i)

\* The R has the values of the f at its roots, and a lower degree than there are roots.
LEMMA RInterpolates ==
  ASSUME KeyInv, RootsTyped, NEW i \in F
  PROVE  /\ RPol(i) \in polys /\ getDegree(RPol(i)) \in 0..(nRoots(i) - 1)
         /\ IsInjective(rootsMap[i]) =>
              \A m \in 1..nRoots(i) :
                evaluateAt(RPol(i), rootsMap[i][m]) = evaluateAt(getCommittedPolynomial(i), rootsMap[i][m])
<1> DEFINE n == nRoots(i)
           r == rootsMap[i]
           v == ValuesAt(i)
<1>1. n \in Nat \ {0} /\ r \in [1..n -> Fr]
  BY KeyFacts DEF RootsTyped
<1>2. v \in [1..n -> Fr] /\ \A m \in 1..n : v[m] = evaluateAt(getCommittedPolynomial(i), r[m])
  <2>1. \A m \in 1..n : evaluatePol(getCommittedPolynomial(i), r[m]) \in Fr
          /\ evaluatePol(getCommittedPolynomial(i), r[m]) = evaluateAt(getCommittedPolynomial(i), r[m])
    BY <1>1, CommittedPolynomial, EvaluatePolIs
  <2> QED
    BY <2>1 DEF ValuesAt
<1> HIDE DEF n, r, v
<1>3. /\ lagrangePolynomialInterpolation(r, v) \in polys
      /\ getDegree(lagrangePolynomialInterpolation(r, v)) \in 0..(n - 1)
      /\ IsInjective(r) => \A m \in 1..n : evaluateAt(lagrangePolynomialInterpolation(r, v), r[m]) = v[m]
  BY <1>1, <1>2, Interpolates
<1>4. RPol(i) = lagrangePolynomialInterpolation(r, v)
  BY DEF RPol, r, v
<1> QED
  BY <1>2, <1>3, <1>4 DEF n, r

\* So no division for an opening point finds a rest, the last quotient times the f's
\* zerofier is what was divided, and its degree is as much lower as the f has roots.
LEMMA DividesWhole ==
  ASSUME KeyInv, alpha \in Fr, xiSeed \in Fr \ {0}, rootsMap = Roots(xiSeed), RootsTyped, AtHand,
         NEW i \in F, IsInjective(rootsMap[i])
  PROVE  LET l == Len(f[i].openingPoints)
         IN  /\ \A k \in 1..l :
                  dividedByZerofier(divided(i)[k - 1], nPols(i), openValue(f[i].openingPoints[k]))
             /\ divided(i)[l] \in polys
             /\ \A x \in Fr :
                  mul(alphas(i), sub(evaluateAt(getCommittedPolynomial(i), x), evaluateAt(RPol(i), x)))
                    = mul(evaluateAt(divided(i)[l], x), mulL(i, x))
             /\ \A d \in Nat : f[i].degree <= d + nRoots(i) => getDegree(divided(i)[l]) <= d
<1> DEFINE n == nPols(i)
           l == Len(f[i].openingPoints)
           c == Values(i)
           s == rootsMap[i]
           p == getCommittedPolynomial(i)
           r == RPol(i)
           D == [k \in 0..l |-> divided(i)[k]]
           d0 == mulScalar(minus(p, r), alphas(i))
<1>1. n \in Nat \ {0} /\ l \in Nat \ {0} /\ nRoots(i) = n * l /\ xiSeed \in Fr /\ nRoots(i) \in Nat \ {0}
      /\ f[i].degree \in Nat
  BY KeyFacts DEF nRoots
<1>2. c \in [1..l -> Fr \ {0}] /\ AreRootsOf(s, c, n, l)
  BY RootsAreRoots
<1>3. p \in polys /\ getDegree(p) <= f[i].degree
  BY CommittedPolynomial
<1>4. r \in polys /\ getDegree(r) \in 0..(nRoots(i) - 1)
      /\ \A m \in 1..nRoots(i) : evaluateAt(r, s[m]) = evaluateAt(p, s[m])
  BY RInterpolates
<1>5. alphas(i) \in Fr
  BY TermIs, PIsNat
<1>6. Pol("f", i) = p /\ Pol("R", i) = r
  BY DEF AtHand
<1> HIDE DEF p, r, d0
<1>7. /\ divided(i)[0] = d0
      /\ \A k \in 0..l : divided(i)[k] \in polys
      /\ \A k \in 1..l : divided(i)[k] = divByZerofier(divided(i)[k - 1], n, openValue(f[i].openingPoints[k]))
  BY <1>1, <1>3, <1>4, <1>5, <1>6, DividedIs DEF d0
<1>8. D[0] = d0 /\ D[l] = divided(i)[l] /\ D \in [0..l -> polys]
      /\ \A k \in 1..l : D[k] = divided(i)[k] /\ D[k - 1] = divided(i)[k - 1]
  BY <1>1, <1>7
<1>9. \A k \in 1..l : c[k] = openValue(f[i].openingPoints[k])
  BY DEF Values
<1> HIDE DEF D, c
<1>10. AreDivisions(D, c, n, l)
  BY <1>7, <1>8, <1>9 DEF AreDivisions
<1> DEFINE a == alphas(i)
           e == minus(p, r)
<1>11. /\ e \in polys /\ d0 \in polys /\ getDegree(d0) \in 0..getDegree(e)
       /\ getDegree(e) \in 0..Max({getDegree(p), getDegree(r)})
       /\ \A x \in Fr : evaluateAt(e, x) = sub(evaluateAt(p, x), evaluateAt(r, x))
       /\ \A x \in Fr : evaluateAt(d0, x) = mul(a, evaluateAt(e, x))
  <2>1. /\ e \in polys /\ getDegree(e) \in 0..Max({getDegree(p), getDegree(r)})
        /\ \A x \in Fr : evaluateAt(e, x) = sub(evaluateAt(p, x), evaluateAt(r, x))
    BY <1>3, <1>4, MinusIs
  <2>2. d0 = mulScalar(e, a)
    BY DEF d0
  <2> HIDE DEF e, a
  <2>3. a \in Fr
    BY <1>5 DEF a
  <2> QED
    BY <2>1, <2>2, <2>3, MulScalarIs
<1> HIDE DEF e
<1>12. \A m \in 1..(n * l) : evaluateAt(D[0], s[m]) = 0
  <2>1. ASSUME NEW m \in 1..(n * l)
        PROVE  evaluateAt(d0, s[m]) = 0
    <3>1. s[m] \in Fr
      BY <1>1 DEF RootsTyped
    <3>2. evaluateAt(p, s[m]) \in Fr /\ evaluateAt(r, s[m]) = evaluateAt(p, s[m])
      BY <1>1, <1>3, <1>4, <3>1, ValueType
    <3>3. evaluateAt(e, s[m]) = 0
      BY <1>11, <3>1, <3>2, SubLaws
    <3> QED
      BY <1>5, <1>11, <3>1, <3>3, ZeroLaws
  <2> QED
    BY <1>8, <2>1
<1> HIDE DEF s, n, l
<1>13. /\ \A k \in 1..l : dividedByZerofier(D[k - 1], n, c[k])
       /\ \A x \in Fr : evaluateAt(D[0], x)
                          = mul(evaluateAt(D[l], x), product([m \in 1..(n * l) |-> sub(x, s[m])]))
       /\ \A d \in Nat : getDegree(D[0]) <= d + n * l => getDegree(D[l]) <= d
  BY <1>1, <1>2, <1>10, <1>12, DividesInTurn
<1>14. \A x \in Fr : mulL(i, x) = product([m \in 1..(n * l) |-> sub(x, s[m])])
  BY <1>1 DEF mulL, s
<1>15. \A x \in Fr : mul(a, sub(evaluateAt(p, x), evaluateAt(r, x))) = mul(evaluateAt(D[l], x), mulL(i, x))
  BY <1>8, <1>11, <1>13, <1>14
<1>16. ASSUME NEW d \in Nat, f[i].degree <= d + nRoots(i)
       PROVE  getDegree(D[l]) <= d
  <2> DEFINE gp == getDegree(p)
             gr == getDegree(r)
             ge == getDegree(e)
             gd == getDegree(d0)
             b == d + nRoots(i)
  <2>1. gp \in Nat /\ gr \in Nat /\ gp <= b /\ gr <= b /\ b \in Nat
    BY <1>1, <1>3, <1>4, <1>16, PolynomialIs
  <2>2. gd \in 0..ge /\ ge \in 0..Max({gp, gr})
    BY <1>11
  <2> HIDE DEF gp, gr, ge, gd
  <2>3. Max({gp, gr}) \in {gp, gr}
    BY <2>1, LargerDegree
  <2>4. gd <= b
    BY <2>1, <2>2, <2>3
  <2> QED
    BY <1>1, <1>8, <1>13, <2>4 DEF gd
<1> QED
  BY <1>1, <1>7, <1>8, <1>9, <1>13, <1>15, <1>16 DEF p, r, n, l, a

\* The largest degree, and the one the checks ask of W.
LEMMA LargestDegrees ==
  ASSUME KeyInv
  PROVE  /\ maxDegree \in Nat /\ \A i \in F : f[i].degree <= maxDegree
         /\ nTotalRoots \in Int /\ maxDegreeW \in Int
         /\ \A i \in F : f[i].degree + nTotalRoots - nRoots(i) <= maxDegreeW
<1> DEFINE n == Len(f)
           g == [i \in 1..n |-> f[i].degree]
           t == nTotalRoots
           h == [i \in 1..n |-> f[i].degree + t - nRoots(i)]
<1>1. n \in Nat \ {0} /\ F = 1..n
  BY KeyFacts
<1>2. \A i \in 1..n : f[i].degree \in Nat /\ nRoots(i) \in Nat
  BY <1>1, KeyFacts
<1>3. t \in Int
  <2> DEFINE q == [i \in F |-> nRoots(i)]
  <2>1. IsFiniteSet(F) /\ q \in [F -> Int]
    BY <1>1, <1>2, LastPlace
  <2> HIDE DEF q
  <2>2. SumFunction(q) \in Int
    BY <2>1, SumIsInt
  <2> QED
    BY <2>2 DEF nTotalRoots, q
<1> HIDE DEF t, n
<1>4. g \in [1..n -> Int] /\ h \in [1..n -> Int]
  BY <1>2, <1>3
<1>5. maxDegree = Max({g[i] : i \in 1..n})
  <2>1. {f[i].degree : i \in F} = {g[i] : i \in 1..n}
    BY <1>1
  <2> QED
    BY <2>1 DEF maxDegree
<1>6. maxDegreeW = Max({h[i] : i \in 1..n})
  <2>1. {f[i].degree + t - nRoots(i) : i \in F} = {h[i] : i \in 1..n}
    BY <1>1
  <2> QED
    BY <2>1 DEF maxDegreeW, t
<1>7. \A i \in 1..n : g[i] = f[i].degree /\ h[i] = f[i].degree + t - nRoots(i)
  OBVIOUS
<1> HIDE DEF g, h
<1>8. maxDegree \in Int /\ \A i \in 1..n : maxDegree >= g[i]
  BY <1>1, <1>4, <1>5, MaxOfAll
<1>9. maxDegreeW \in Int /\ \A i \in 1..n : maxDegreeW >= h[i]
  BY <1>1, <1>4, <1>6, MaxOfAll
<1>10. maxDegree \in Nat
  <2>1. 1 \in 1..n /\ f[1].degree \in Nat
    BY <1>1, <1>2
  <2>2. maxDegree >= f[1].degree
    BY <1>7, <1>8, <2>1
  <2> DEFINE a == f[1].degree
  <2> HIDE DEF a
  <2>3. a \in Nat /\ maxDegree >= a
    BY <2>1, <2>2 DEF a
  <2> QED
    BY <1>8, <2>3
<1>11. ASSUME NEW i \in F
       PROVE  f[i].degree <= maxDegree /\ f[i].degree + t - nRoots(i) <= maxDegreeW
  <2> DEFINE a == f[i].degree
             b == f[i].degree + t - nRoots(i)
  <2>1. f[i].degree \in Int /\ nRoots(i) \in Int /\ i \in 1..n
    BY <1>1, <1>2
  <2>2. a = g[i] /\ b = h[i]
    BY <1>7, <2>1
  <2>3. a \in Int /\ b \in Int /\ maxDegree >= a /\ maxDegreeW >= b
    BY <1>4, <1>8, <1>9, <2>1, <2>2
  <2> HIDE DEF a, b
  <2>4. a <= maxDegree /\ b <= maxDegreeW
    BY <1>8, <1>9, <2>3
  <2> QED
    BY <2>4 DEF a, b
<1> QED
  BY <1>3, <1>9, <1>10, <1>11 DEF t

\* The factors of a place in the zerofiers: those of one f times those of the others.
LEMMA FactorsOfOne ==
  ASSUME KeyInv, RootsTyped, NEW point \in Fr, NEW i \in F
  PROVE  ZT(point) = mul(mulL(i, point), product([j \in F \ {i} |-> mulL(j, point)]))
<1> DEFINE g == [k \in F |-> mulL(k, point)]
<1>1. IsFiniteSet(F)
  BY KeyFacts, LastPlace
<1>2. g \in [F -> Fr] /\ ZT(point) = product(g)
  BY Zerofiers
<1>3. Restrict(g, F \ {i}) = [j \in F \ {i} |-> mulL(j, point)] /\ g[i] = mulL(i, point)
  BY DEF Restrict
<1> HIDE DEF g
<1>4. product(g) = mul(g[i], product(Restrict(g, F \ {i})))
  BY <1>1, <1>2, ProductLaws
<1> QED
  BY <1>2, <1>3, <1>4

\* At the place of the linearisation, a term is the last quotient of its f times the
\* factors of all roots.
LEMMA TermAtPlace ==
  ASSUME KeyInv, alpha \in Fr, xiSeed \in Fr \ {0}, rootsMap = Roots(xiSeed), RootsTyped, AtHand,
         NEW i \in F, IsInjective(rootsMap[i]), NEW x \in Fr
  PROVE  evaluateAt(Term(i, x), x) = mul(ZT(x), evaluateAt(divided(i)[Len(f[i].openingPoints)], x))
<1> DEFINE l == Len(f[i].openingPoints)
           q == divided(i)[l]
           u == sub(evaluateAt(getCommittedPolynomial(i), x), evaluateAt(RPol(i), x))
           E == product([j \in F \ {i} |-> mulL(j, x)])
           a == alphas(i)
           b == mulL(i, x)
           p == subScalar(getCommittedPolynomial(i), evaluateAt(RPol(i), x))
           d == evaluateAt(q, x)
           v == preL(i, x)
<1>1. q \in polys /\ mul(a, u) = mul(d, b)
  BY DividesWhole
<1>2. /\ a \in Fr /\ v \in Fr /\ E \in Fr /\ p \in polys
      /\ evaluatePol(RPol(i), x) = evaluateAt(RPol(i), x) /\ evaluateAt(RPol(i), x) \in Fr
  BY TermIs
<1>3. d \in Fr
  BY <1>1, ValueType
<1>4. ZT(x) = mul(b, E)
  BY FactorsOfOne
<1>5. b \in Fr
  BY Zerofiers
<1>6. getCommittedPolynomial(i) \in polys /\ u \in Fr /\ evaluateAt(p, x) = u
  <2>1. getCommittedPolynomial(i) \in polys /\ RPol(i) \in polys
    BY CommittedPolynomial, RPolIs
  <2> DEFINE c == getCommittedPolynomial(i)
             w1 == evaluateAt(RPol(i), x)
  <2>2. c \in polys /\ w1 \in Fr /\ evaluateAt(c, x) \in Fr
    BY <1>2, <2>1, ValueType
  <2> HIDE DEF c, w1
  <2>3. evaluateAt(subScalar(c, w1), x) = sub(evaluateAt(c, x), w1) /\ sub(evaluateAt(c, x), w1) \in Fr
    BY <2>2, SubScalarIs, Operations
  <2> QED
    BY <2>1, <2>3 DEF c, w1
<1>7. Term(i, x) = mulScalar(p, v)
  BY <1>2 DEF Term
<1>8. v = mul(a, E)
  BY DEF preL
<1> HIDE DEF p, v, u, a, b, d, E
<1>9. evaluateAt(Term(i, x), x) = mul(v, u)
  BY <1>2, <1>6, <1>7, MulScalarIs
<1>10. mul(v, u) = mul(E, mul(a, u))
  BY <1>2, <1>6, <1>8, MulLaws
<1>11. mul(E, mul(d, b)) = mul(mul(b, E), d)
  <2>1. mul(E, mul(d, b)) = mul(mul(E, d), b) /\ mul(E, d) \in Fr /\ mul(b, E) \in Fr
    BY <1>2, <1>3, <1>5, MulLaws, Operations
  <2>2. mul(mul(E, d), b) = mul(b, mul(E, d)) /\ mul(b, mul(E, d)) = mul(mul(b, E), d)
    BY <1>2, <1>3, <1>5, <2>1, MulLaws
  <2> QED
    BY <2>1, <2>2
<1> QED
  BY <1>1, <1>4, <1>9, <1>10, <1>11 DEF d, q, l

\* The opening points of an f are counted from 1.
LEMMA OpeningPointsCounted ==
  ASSUME KeyInv, NEW i \in F
  PROVE  DOMAIN f[i].openingPoints = 1..Len(f[i].openingPoints)
<1>1. KeyType(key)
  BY ShKeyAssumption DEF KeyInv
<1> QED
  BY <1>1 DEF KeyType, NotEmpty, f, F

\* With different roots no division finds a rest, W has the degree that is asked of it,
\* and L is zero at the place it is divided for.
LEMMA WholeW ==
  ASSUME KeyInv, alpha \in Fr, xiSeed \in Fr, RootsDiffer, rootsMap = Roots(xiSeed), RootsTyped, AtHand
  PROVE  LET pW == FoldLeft(plus, Zero, [i \in F |-> divided(i)[Len(f[i].openingPoints)]])
         IN  /\ ~NotDivisible
             /\ pW \in polys /\ getDegree(pW) \in Nat /\ getDegree(pW) <= maxDegree
             /\ maxDegreeW >= nTotalRoots => getDegree(pW) <= maxDegreeW - nTotalRoots
             /\ \A x \in Fr : evaluateAt(Dividend(pW, x), x) = 0
<1> DEFINE n == Len(f)
           s == [i \in F |-> divided(i)[Len(f[i].openingPoints)]]
           pW == FoldLeft(plus, Zero, s)
<1>1. n \in Nat \ {0} /\ F = 1..n /\ n \in Nat
  BY KeyFacts
<1>2. xiSeed \in Fr \ {0} /\ \A i \in F : IsInjective(rootsMap[i])
  BY DEF RootsDiffer
<1>3. ASSUME NEW i \in F
      PROVE  /\ \A k \in 1..Len(f[i].openingPoints) :
                  dividedByZerofier(divided(i)[k - 1], nPols(i), openValue(f[i].openingPoints[k]))
             /\ s[i] \in polys
             /\ \A d \in Nat : f[i].degree <= d + nRoots(i) => getDegree(s[i]) <= d
  BY <1>2, DividesWhole
<1>4. ~NotDivisible
  BY <1>3, OpeningPointsCounted DEF NotDivisible
<1>5. s \in [1..n -> polys]
  BY <1>1, <1>3
<1>6. ASSUME NEW d \in Nat, \A i \in F : f[i].degree <= d + nRoots(i)
      PROVE  getDegree(pW) \in 0..d
  <2>1. \A i \in 1..n : getDegree(s[i]) <= d
    BY <1>1, <1>3, <1>6
  <2> HIDE DEF s, n
  <2> QED
    BY <1>1, <1>5, <2>1, SumDegree
<1>7. pW \in polys
  <2> HIDE DEF s, n
  <2> QED
    BY <1>1, <1>5, SumIs
<1>8. getDegree(pW) \in Nat /\ getDegree(pW) <= maxDegree
  <2>1. maxDegree \in Nat
    BY LargestDegrees
  <2>2. ASSUME NEW i \in F
        PROVE  f[i].degree <= maxDegree + nRoots(i)
    <3> DEFINE a == f[i].degree
               b == nRoots(i)
    <3>1. a \in Nat /\ b \in Nat /\ a <= maxDegree
      BY KeyFacts, LargestDegrees
    <3> HIDE DEF a, b
    <3>2. a <= maxDegree + b
      BY <2>1, <3>1
    <3> QED
      BY <3>2 DEF a, b
  <2> HIDE DEF pW
  <2>3. getDegree(pW) \in 0..maxDegree
    BY <1>6, <2>1, <2>2
  <2> QED
    BY <2>1, <2>3
<1>9. ASSUME maxDegreeW >= nTotalRoots
      PROVE  getDegree(pW) <= maxDegreeW - nTotalRoots
  <2> DEFINE d == maxDegreeW - nTotalRoots
  <2>1. d \in Nat /\ maxDegreeW \in Int /\ nTotalRoots \in Int
    BY <1>9, LargestDegrees
  <2>2. ASSUME NEW i \in F
        PROVE  f[i].degree <= d + nRoots(i)
    <3> DEFINE a == f[i].degree
               b == nRoots(i)
               t == nTotalRoots
               m == maxDegreeW
    <3>1. a \in Nat /\ b \in Nat /\ a + t - b <= m
      BY KeyFacts, LargestDegrees
    <3>2. t \in Int /\ m \in Int
      BY <2>1
    <3> HIDE DEF a, b, t, m
    <3>3. a <= (m - t) + b
      BY <3>1, <3>2
    <3> QED
      BY <3>3 DEF a, b, t, m
  <2> HIDE DEF pW, d
  <2>3. getDegree(pW) \in 0..d
    BY <1>6, <2>1, <2>2
  <2>4. getDegree(pW) <= d
    BY <2>1, <2>3
  <2> QED
    BY <2>4 DEF d
<1>10. ASSUME NEW x \in Fr
       PROVE  evaluateAt(Dividend(pW, x), x) = 0
  <2> DEFINE r == [i \in F |-> Term(i, x)]
             c == ZT(x)
             all == FoldLeft(plus, Zero, r)
             b == mulScalar(pW, c)
             l == minus(all, b)
             g == inv(ZTS2(x))
  <2>1. c \in Fr /\ g \in Fr
    BY Zerofiers, InvType
  <2>2. r \in [1..n -> polys] /\ all \in polys /\ b \in polys
    BY <1>7, DividendIs
  <2>3. \A i \in 1..n : evaluateAt(r[i], x) = mul(c, evaluateAt(s[i], x))
    BY <1>1, <1>2, TermAtPlace
  <2>4. evaluateAt(all, x) = mul(c, evaluateAt(pW, x))
    <3> HIDE DEF r, s, c, n
    <3> QED
      BY <1>1, <1>5, <2>1, <2>2, <2>3, SumOfMultiples
  <2>5. Dividend(pW, x) = mulScalar(l, g)
    BY DEF Dividend
  <2> HIDE DEF pW, r, c, all, g
  <2>6. evaluateAt(b, x) = mul(c, evaluateAt(pW, x))
    BY <1>7, <2>1, MulScalarIs
  <2> HIDE DEF b
  <2>7. l \in polys /\ evaluateAt(l, x) = sub(evaluateAt(all, x), evaluateAt(b, x))
    BY <2>2, MinusIs
  <2> HIDE DEF l
  <2>8. evaluateAt(all, x) \in Fr
    BY <2>2, ValueType
  <2>9. evaluateAt(l, x) = 0
    BY <2>4, <2>6, <2>7, <2>8, SubLaws
  <2>10. evaluateAt(mulScalar(l, g), x) = mul(g, 0)
    BY <2>1, <2>7, <2>9, MulScalarIs
  <2> QED
    BY <2>1, <2>5, <2>10, ZeroLaws
<1> QED
  BY <1>4, <1>7, <1>8, <1>9, <1>10

\* With such a W, L has the degree that is asked of it, its division finds no rest, and
\* neither has the quotient too high a degree.
LEMMA WholeWp ==
  ASSUME KeyInv, alpha \in Fr, RootsTyped, NEW point \in Fr, NEW pW \in polys,
         getDegree(pW) <= maxDegree, evaluateAt(Dividend(pW, point), point) = 0
  PROVE  LET L == minus(FoldLeft(plus, Zero, [i \in F |-> Term(i, point)]), mulScalar(pW, ZT(point)))
         IN  /\ getDegree(L) \in Nat /\ getDegree(L) <= maxDegree
             /\ dividedByX(Dividend(pW, point), point)
             /\ getDegree(divByXSubValue(Dividend(pW, point), point)) \in Nat
             /\ getDegree(L) >= 2 =>
                  getDegree(divByXSubValue(Dividend(pW, point), point)) <= maxDegree - 1
<1> DEFINE n == Len(f)
           s == [i \in F |-> Term(i, point)]
           all == FoldLeft(plus, Zero, s)
           b == mulScalar(pW, ZT(point))
           l == minus(all, b)
           g == inv(ZTS2(point))
           D == Dividend(pW, point)
           q == divByXSubValue(D, point)
           m == maxDegree
<1>1. n \in Nat /\ F = 1..n /\ m \in Nat
  BY KeyFacts, LargestDegrees
<1>2. ZT(point) \in Fr /\ g \in Fr
  BY Zerofiers, InvType
<1>3. s \in [1..n -> polys] /\ all \in polys /\ b \in polys /\ D \in polys /\ q \in polys
  BY DividendIs
<1>4. ASSUME NEW i \in F
      PROVE  getDegree(s[i]) <= m
  <2> DEFINE c == getCommittedPolynomial(i)
             v == evaluateAt(RPol(i), point)
             p == subScalar(c, v)
             e == preL(i, point)
  <2>1. c \in polys /\ getDegree(c) <= f[i].degree /\ v \in Fr /\ e \in Fr /\ Term(i, point) = mulScalar(p, e)
    BY CommittedPolynomial, TermIs DEF Term
  <2>2. f[i].degree \in Nat /\ f[i].degree <= m
    BY KeyFacts, LargestDegrees
  <2> HIDE DEF c, v, e, m
  <2>3. p \in polys /\ getDegree(p) \in 0..getDegree(c) /\ getDegree(c) \in Nat
    BY <2>1, SubScalarIs, PolynomialIs
  <2> HIDE DEF p
  <2>4. getDegree(mulScalar(p, e)) \in 0..getDegree(p)
    BY <2>1, <2>3, MulScalarIs
  <2> DEFINE d1 == getDegree(c)
             d2 == getDegree(p)
             d3 == getDegree(mulScalar(p, e))
             d0 == f[i].degree
  <2>5. d1 \in Nat /\ d2 \in 0..d1 /\ d3 \in 0..d2 /\ d0 \in Nat /\ d1 <= d0 /\ d0 <= m /\ m \in Nat
    BY <1>1, <2>1, <2>2, <2>3, <2>4 DEF m
  <2> HIDE DEF d0, d1, d2, d3
  <2>6. d3 <= m
    BY <2>5
  <2> QED
    BY <2>1, <2>6 DEF d3
<1>5. getDegree(all) \in 0..m
  <2>1. \A i \in 1..n : getDegree(s[i]) <= m
    BY <1>1, <1>4
  <2> HIDE DEF s, n, m
  <2> QED
    BY <1>1, <1>3, <2>1, SumDegree
<1> HIDE DEF all, s, g
<1>6. getDegree(b) \in 0..getDegree(pW) /\ getDegree(pW) \in Nat
  BY <1>2, MulScalarIs, PolynomialIs
<1>7. D = mulScalar(l, g)
  BY DEF Dividend, all, s, g
<1> HIDE DEF b, D
<1>8. l \in polys /\ getDegree(l) \in 0..Max({getDegree(all), getDegree(b)})
  BY <1>3, MinusIs
<1> HIDE DEF l
<1>9. getDegree(D) \in 0..getDegree(l) /\ getDegree(D) \in Nat
  BY <1>2, <1>7, <1>8, MulScalarIs, PolynomialIs
<1>10. /\ dividedByX(D, point)
       /\ getDegree(q) \in 0..getDegree(D)
       /\ getDegree(D) # 0 => getDegree(q) <= getDegree(D) - 1
  <2>1. evaluateAt(D, point) = 0
    BY DEF D
  <2> QED
    BY <1>3, <2>1, DivByXIs
<1> DEFINE da == getDegree(all)
           db == getDegree(b)
           dl == getDegree(l)
           dd == getDegree(D)
           dq == getDegree(q)
           dw == getDegree(pW)
<1>11. /\ da \in 0..m /\ db \in 0..dw /\ dw \in Nat /\ dw <= m /\ m \in Nat
       /\ dl \in 0..Max({da, db}) /\ dd \in 0..dl /\ dq \in 0..dd /\ dd \in Nat
       /\ (dd # 0 => dq <= dd - 1)
  BY <1>1, <1>5, <1>6, <1>8, <1>9, <1>10
<1> HIDE DEF da, db, dl, dd, dq, dw, m, q
<1>12. da \in Nat /\ db \in Nat
  BY <1>11
<1>13. Max({da, db}) \in {da, db}
  BY <1>12, LargerDegree
<1>14. dl \in Nat /\ dl <= m /\ dq \in Nat
  BY <1>11, <1>12, <1>13
<1>15. dl >= 2 => dq <= m - 1
  BY <1>11, <1>14
<1> QED
  BY <1>10, <1>14, <1>15 DEF dl, dq, m, l, all, s, b, D, q

\* A prover with different roots that are not zero, which has come to the linearisation,
\* has a W as above; and none has come to an error.
HonestW ==
  pc = "Wp" /\ RootsDiffer =>
    /\ getDegree(polynomialCommitments[W]) <= maxDegree
    /\ \A x \in Fr : evaluateAt(Dividend(polynomialCommitments[W], x), x) = 0
HonestInv == HonestW /\ NeverRefusesItself

\* What the roots and the degrees are stays while their causes do.
LEMMA SameRootsDiffer ==
  ASSUME UNCHANGED <<key, buffCoefs, xiSeed, rootsMap>>
  PROVE  RootsDiffer' = RootsDiffer /\ maxDegree' = maxDegree
BY SameKey DEF RootsDiffer, maxDegree

\* The steps before W: the degrees of the committed polynomials and of the R are as asked.
LEMMA HonestEarlier ==
  ASSUME IInv, HonestInv, Commit \/ CalculateRoots \/ CalculateEvaluations \/ ComputeR
  PROVE  HonestInv'
<1>1. KeyInv /\ ControlInv
  BY DEF IInv
<1>2. CASE Commit
  <2>1. \A i \in F : ~(getDegree(getCommittedPolynomial(i)) > f[i].degree)
    <3> SUFFICES ASSUME NEW i \in F
                 PROVE  ~(getDegree(getCommittedPolynomial(i)) > f[i].degree)
      OBVIOUS
    <3> DEFINE d == getDegree(getCommittedPolynomial(i))
               e == f[i].degree
    <3>1. d <= e /\ d \in Nat /\ e \in Nat
      BY <1>1, CommittedPolynomial, KeyFacts, PolynomialIs
    <3> HIDE DEF d, e
    <3>2. ~(d > e)
      BY <3>1
    <3> QED
      BY <3>2 DEF d, e
  <2>2. pc' \in {"commit", "roots"}
    BY <1>2, <2>1 DEF Commit
  <2> QED
    BY <2>2 DEF HonestInv, HonestW, NeverRefusesItself
<1>3. CASE CalculateRoots \/ CalculateEvaluations
  <2>1. pc' \in {"evaluations", "R"}
    BY <1>3 DEF CalculateRoots, CalculateEvaluations
  <2> QED
    BY <2>1 DEF HonestInv, HonestW, NeverRefusesItself
<1>4. CASE ComputeR
  <2> DEFINE new == [name \in {<<"R", i>> : i \in F} |-> R(name[2])]
  <2>1. /\ pc = "R" /\ polynomialsShPlonk' = PutAll(polynomialsShPlonk, new)
        /\ pc' = IF \E i \in F : getDegree(polynomialsShPlonk'[<<"R", i>>]) > nRoots(i) - 1
                 THEN "error" ELSE "W"
    BY <1>4 DEF ComputeR
  <2>2. CommittedInv /\ rootsMap = Roots(xiSeed) /\ RootsTyped
    BY <1>1, <2>1, RootsAreTyped DEF IInv, RootsInv
  <2>3. ASSUME NEW i \in F
        PROVE  ~(getDegree(polynomialsShPlonk'[<<"R", i>>]) > nRoots(i) - 1)
    <3>1. Pol("f", i) = getCommittedPolynomial(i)
      BY <2>1, <2>2, AllKnown DEF Pol, Known
    <3>2. R(i) = RPol(i)
      BY <3>1 DEF R, RPol, ValuesAt
    <3> DEFINE name == <<"R", i>>
    <3>3. name \in DOMAIN new /\ new[name] = RPol(i)
      <4>1. name \in {<<"R", k>> : k \in F} /\ name[2] = i
        OBVIOUS
      <4> QED
        BY <3>2, <4>1
    <3> HIDE DEF name, new
    <3>4. polynomialsShPlonk'[name] = RPol(i)
      BY <2>1, <3>3 DEF PutAll
    <3> DEFINE d == getDegree(RPol(i))
               e == nRoots(i)
    <3>5. d \in 0..(e - 1) /\ e \in Nat
      BY <1>1, <2>2, RInterpolates, KeyFacts
    <3> HIDE DEF d, e
    <3>6. ~(d > e - 1)
      BY <3>5
    <3> QED
      BY <3>4, <3>6 DEF name, d, e
  <2>4. pc' = "W"
    BY <2>1, <2>3
  <2> QED
    BY <2>4 DEF HonestInv, HonestW, NeverRefusesItself
<1> QED
  BY <1>2, <1>3, <1>4

\* W: no check refuses it when the roots differ.
LEMMA HonestComputeW ==
  ASSUME IInv, ComputeW
  PROVE  HonestInv'
<1> DEFINE pW == FoldLeft(plus, Zero, [i \in F |-> divided(i)[Len(f[i].openingPoints)]])
<1>1. /\ pc = "W" /\ UNCHANGED <<key, buffCoefs, xiSeed, alpha, rootsMap>>
      /\ \/ /\ NotDivisible \/ (maxDegreeW >= nTotalRoots /\ getDegree(pW) > maxDegreeW - nTotalRoots)
            /\ pc' = "error"
         \/ pc' = "Wp" /\ polynomialCommitments' = Put(polynomialCommitments, W, pW)
  BY DEF ComputeW
<1>2. KeyInv /\ ControlInv /\ CommittedInv /\ RInv /\ rootsMap = Roots(xiSeed) /\ RootsTyped
  BY <1>1, RootsAreTyped DEF IInv, RootsInv
<1>3. AtHand
  BY <1>1, <1>2, AllKnown DEF AtHand, Pol, Known, RInv
<1>4. RootsDiffer' = RootsDiffer /\ maxDegree' = maxDegree
  BY <1>1, SameRootsDiffer
<1>5. CASE RootsDiffer
  <2>1. /\ ~NotDivisible /\ pW \in polys /\ getDegree(pW) \in Nat /\ getDegree(pW) <= maxDegree
        /\ maxDegreeW >= nTotalRoots => getDegree(pW) <= maxDegreeW - nTotalRoots
        /\ \A x \in Fr : evaluateAt(Dividend(pW, x), x) = 0
    BY <1>2, <1>3, <1>5, WholeW DEF ControlInv
  <2>2. maxDegreeW \in Int /\ nTotalRoots \in Int
    BY <1>2, LargestDegrees
  <2> HIDE DEF pW
  <2>3. ~(maxDegreeW >= nTotalRoots /\ getDegree(pW) > maxDegreeW - nTotalRoots)
    <3> DEFINE a == maxDegreeW
               b == nTotalRoots
               c == getDegree(pW)
    <3>1. a \in Int /\ b \in Int /\ c \in Int /\ (a >= b => c <= a - b)
      BY <2>1, <2>2
    <3> HIDE DEF a, b, c
    <3>2. ~(a >= b /\ c > a - b)
      BY <3>1
    <3> QED
      BY <3>2 DEF a, b, c
  <2>4. pc' = "Wp" /\ polynomialCommitments' = Put(polynomialCommitments, W, pW)
    BY <1>1, <2>1, <2>3
  <2>5. polynomialCommitments'[W] = pW
    BY <2>4 DEF Put, PutAll
  <2>6. \A p, x : Dividend(p, x)' = Dividend(p, x)
    BY <1>1, SameDividend
  <2>7. \A x : Dividend(polynomialCommitments[W], x)' = Dividend(pW, x)
    BY <2>5, <2>6
  <2>8. HonestW'
    BY <1>4, <2>1, <2>5, <2>7 DEF HonestW
  <2> QED
    BY <2>4, <2>8 DEF HonestInv, NeverRefusesItself
<1>6. CASE ~RootsDiffer
  <2>1. rootsMap' # <<>>
    <3>1. 1 \in F
      BY <1>2, KeyFacts
    <3>2. DOMAIN rootsMap = F
      BY <1>2 DEF Roots
    <3>3. DOMAIN <<>> = {}
      OBVIOUS
    <3> QED
      BY <1>1, <3>1, <3>2, <3>3
  <2> QED
    BY <1>4, <1>6, <2>1 DEF HonestInv, HonestW, NeverRefusesItself
<1> QED
  BY <1>5, <1>6

\* Wp: no check refuses it either.
LEMMA HonestComputeWp ==
  ASSUME IInv, HonestInv, ComputeWp
  PROVE  HonestInv'
<1>1. /\ pc = "Wp" /\ KeyInv /\ ControlInv /\ CommittedInv /\ PolynomialsInv /\ RInv /\ WInv
      /\ UNCHANGED <<key, buffCoefs, stage, xiSeed, alpha, rootsMap, evaluationCommitments, inverse>>
  BY DEF ComputeWp, IInv
<1>2. PICK pW : pW = polynomialCommitments[W]
  OBVIOUS
<1>3. polynomialsShPlonk[W] = pW /\ pW \in polys
  BY <1>1, <1>2 DEF WInv, PolynomialsInv, AllPolynomials
<1>4. \A i \in F : Pol("f", i) = getCommittedPolynomial(i) /\ Pol("R", i) = RPol(i)
  BY <1>1, AllKnown DEF Pol, Known, RInv
<1>5. rootsMap = Roots(xiSeed) /\ RootsTyped
  BY <1>1, RootsAreTyped DEF IInv, RootsInv
<1>6. PICK point \in Challenges.y :
        LET term(i) == mulScalar(subScalar(Pol("f", i), evaluatePol(Pol("R", i), point)),
                                 preL(i, point))
            scaledW == mulScalar(polynomialsShPlonk[W], ZT(point))
            L == minus(FoldLeft(plus, Zero, [i \in F |-> term(i)]), scaledW)
            dividend == mulScalar(L, inv(ZTS2(point)))
            quotient == divByXSubValue(dividend, point)
        IN  IF getDegree(L) < 2 THEN pc' = "outOfBounds"
            ELSE IF \/ getDegree(L) > maxDegree
                    \/ ~dividedByX(dividend, point)
                    \/ getDegree(quotient) > maxDegree - 1
            THEN pc' = "error" ELSE pc' = "inverse"
  BY DEF ComputeWp
<1>7. point \in Fr /\ alpha \in Fr
  BY <1>1, ChallengesAssumption DEF ControlInv
<1> DEFINE l == minus(FoldLeft(plus, Zero, [i \in F |-> Term(i, point)]), mulScalar(pW, ZT(point)))
           D == Dividend(pW, point)
           q == divByXSubValue(D, point)
<1>8. IF getDegree(l) < 2 THEN pc' = "outOfBounds"
      ELSE IF \/ getDegree(l) > maxDegree
              \/ ~dividedByX(D, point)
              \/ getDegree(q) > maxDegree - 1
      THEN pc' = "error" ELSE pc' = "inverse"
  <2> DEFINE term(i) == mulScalar(subScalar(Pol("f", i), evaluatePol(Pol("R", i), point)),
                                  preL(i, point))
             lo == minus(FoldLeft(plus, Zero, [i \in F |-> term(i)]),
                         mulScalar(polynomialsShPlonk[W], ZT(point)))
  <2>1. \A i \in F : term(i) = Term(i, point)
    BY <1>4 DEF Term
  <2>2. [i \in F |-> term(i)] = [i \in F |-> Term(i, point)]
    BY <2>1
  <2>3. lo = l
    BY <1>3, <2>2
  <2>4. D = mulScalar(l, inv(ZTS2(point)))
    BY DEF Dividend
  <2>5. IF getDegree(lo) < 2 THEN pc' = "outOfBounds"
        ELSE IF \/ getDegree(lo) > maxDegree
                \/ ~dividedByX(mulScalar(lo, inv(ZTS2(point))), point)
                \/ getDegree(divByXSubValue(mulScalar(lo, inv(ZTS2(point))), point)) > maxDegree - 1
        THEN pc' = "error" ELSE pc' = "inverse"
    BY <1>6
  <2> HIDE DEF lo, l, D
  <2> QED
    BY <2>3, <2>4, <2>5
<1>9. RootsDiffer' = RootsDiffer /\ pc' # "Wp"
  <2>1. RootsDiffer' = RootsDiffer
    BY <1>1, SameRootsDiffer
  <2> HIDE DEF l, D, q
  <2> QED
    BY <1>8, <2>1
<1>10. HonestW'
  BY <1>9 DEF HonestW
<1>11. CASE RootsDiffer
  <2>1. getDegree(pW) <= maxDegree /\ evaluateAt(D, point) = 0
    BY <1>1, <1>2, <1>7, <1>11 DEF HonestInv, HonestW
  <2>2. /\ getDegree(l) \in Nat /\ getDegree(l) <= maxDegree /\ dividedByX(D, point)
        /\ getDegree(q) \in Nat /\ (getDegree(l) >= 2 => getDegree(q) <= maxDegree - 1)
    BY <1>1, <1>3, <1>5, <1>7, <2>1, WholeWp
  <2>3. maxDegree \in Nat
    BY <1>1, LargestDegrees
  <2> HIDE DEF l, D, q
  <2> DEFINE a == getDegree(l)
             b == getDegree(q)
             m == maxDegree
  <2>4. a \in Nat /\ b \in Nat /\ m \in Nat /\ a <= m /\ (a >= 2 => b <= m - 1)
    BY <2>2, <2>3
  <2> HIDE DEF a, b, m
  <2>5. a < 2 \/ (~(a > m) /\ ~(b > m - 1))
    BY <2>4
  <2>6. pc' \in {"outOfBounds", "inverse"}
    BY <1>8, <2>2, <2>5 DEF a, b, m
  <2> QED
    BY <1>10, <2>6 DEF HonestInv, NeverRefusesItself
<1>12. CASE ~RootsDiffer
  <2>1. rootsMap' # <<>>
    <3>1. 1 \in F
      BY <1>1, KeyFacts
    <3>2. DOMAIN rootsMap = F
      BY <1>5 DEF Roots
    <3>3. DOMAIN <<>> = {}
      OBVIOUS
    <3> QED
      BY <1>1, <3>1, <3>2, <3>3
  <2> QED
    BY <1>9, <1>10, <1>12, <2>1 DEF HonestInv, NeverRefusesItself
<1> QED
  BY <1>11, <1>12

\* An ended opening stays as it is.
LEMMA HonestStutter ==
  ASSUME HonestInv, UNCHANGED vars
  PROVE  HonestInv'
<1>1. /\ UNCHANGED <<key, buffCoefs, xiSeed, alpha, rootsMap>>
      /\ pc' = pc /\ polynomialCommitments' = polynomialCommitments
  BY DEF vars
<1>2. RootsDiffer' = RootsDiffer /\ maxDegree' = maxDegree
  BY <1>1, SameRootsDiffer
<1>3. \A x : Dividend(polynomialCommitments[W], x)' = Dividend(polynomialCommitments[W], x)
  <2>1. \A p, x : Dividend(p, x)' = Dividend(p, x)
    BY <1>1, SameDividend
  <2> QED
    BY <1>1, <2>1
<1>4. HonestW'
  BY <1>1, <1>2, <1>3 DEF HonestInv, HonestW
<1> QED
  BY <1>1, <1>2, <1>4 DEF HonestInv, NeverRefusesItself

\* No check of a degree or of a division refuses what an honest prover has computed: for
\* every key, input and challenge it is only refused when roots are equal or zero.
THEOREM NeverRefuses == Spec => []NeverRefusesItself
<1>1. Init => HonestInv
  BY DEF Init, HonestInv, HonestW, NeverRefusesItself
<1>2. IInv /\ HonestInv /\ [Next]_vars => HonestInv'
  <2> SUFFICES ASSUME IInv, HonestInv, [Next]_vars
               PROVE  HonestInv'
    OBVIOUS
  <2>1. CASE Commit \/ CalculateRoots \/ CalculateEvaluations \/ ComputeR
    BY <2>1, HonestEarlier
  <2>2. CASE ComputeW
    BY <2>2, HonestComputeW
  <2>3. CASE ComputeWp
    BY <2>3, HonestComputeWp
  <2>4. CASE getMontgomeryBatchedInverse
    <3>1. pc' = "done"
      BY <2>4 DEF getMontgomeryBatchedInverse
    <3> QED
      BY <3>1 DEF HonestInv, HonestW, NeverRefusesItself
  <2>5. CASE Ended \/ UNCHANGED vars
    BY <2>5, HonestStutter DEF Ended
  <2> QED
    BY <2>1, <2>2, <2>3, <2>4, <2>5 DEF Next
<1>3. HonestInv => NeverRefusesItself
  BY DEF HonestInv
<1> QED
  BY <1>1, <1>2, <1>3, Invariance, PTL DEF Spec

-----------------------------------------------------------------------------
\* The denominators that are inverted at the end.
\* An n-th root of 1 to a power, reduced modulo n.
LEMMA ReducedPower ==
  ASSUME NEW n \in Nat \ {0}, NEW b \in Fr, power(b, n) = 1, NEW e \in Nat
  PROVE  power(b, e % n) = power(b, e)
<1> DEFINE q == e \div n
           r == e % n
<1>0. n \in Nat /\ 0 \in Nat /\ 0 \in 0..(n - 1)
  OBVIOUS
<1>1. q \in Nat /\ r \in 0..(n - 1)
  BY <1>0, PlaceOfRow
<1>2. e = n * q + r
  <2>1. e \div n = q /\ e % n = r
    OBVIOUS
  <2> HIDE DEF q, r
  <2>2. e = n * q + r <=> e \div n = q /\ e % n = r
    BY <1>1, PlaceOfRow
  <2> QED
    BY <2>1, <2>2
<1> HIDE DEF q, r
<1>3. r \in Nat /\ n * q \in Nat
  BY <1>0, <1>1
<1>4. power(b, n * q) = power(power(b, n), q) /\ power(1, q) = 1
  BY <1>1, PowerOfPower, PowerOfOne, PIsNat
<1>5. power(b, n * q + r) = mul(power(b, n * q), power(b, r)) /\ power(b, r) \in Fr
  BY <1>3, PowerOfSum, PowerType
<1>6. power(b, e) = power(b, r)
  BY <1>2, <1>4, <1>5, MulLaws
<1> QED
  BY <1>6 DEF r

\* What the code multiplies for the (n - 1)-th power of a root: the power n - 2 of the
\* first root of its opening point, and another root.
LEMMA PowerOfRoot ==
  ASSUME NEW n \in Nat \ {0, 1}, NEW a \in Fr, NEW b \in Fr, power(b, n) = 1, NEW j \in 1..n
  PROVE  mul(power(a, n - 2), mul(a, power(b, ((n - 1) * (j - 1)) % n)))
           = power(mul(a, power(b, j - 1)), n - 1)
<1> DEFINE u == n - 1
           v == j - 1
           z == power(b, v)
<1>1. u \in Nat /\ v \in Nat /\ n - 2 \in Nat /\ u = (n - 2) + 1 /\ n \in Nat \ {0} /\ 1 \in Nat
  OBVIOUS
<1> HIDE DEF u, v
<1>2. u * v \in Nat /\ u * v = v * u
  BY <1>1
<1>3. power(b, (u * v) % n) = power(b, u * v)
  BY <1>1, <1>2, ReducedPower
<1>4. power(b, v * u) = power(z, u) /\ z \in Fr /\ power(z, u) \in Fr
  BY <1>1, PowerOfPower, PowerType
<1>5. power(a, u) = mul(power(a, n - 2), a) /\ power(a, n - 2) \in Fr /\ power(a, u) \in Fr
  <2>1. power(a, (n - 2) + 1) = mul(power(a, n - 2), power(a, 1)) /\ power(a, 1) = a
    BY <1>1, PowerOfSum, PowerOfOne
  <2> QED
    BY <1>1, <2>1, PowerType
<1> HIDE DEF z
<1>6. power(mul(a, z), u) = mul(power(a, u), power(z, u))
  BY <1>1, <1>4, PowerOfProduct
<1>7. mul(power(a, n - 2), mul(a, power(z, u))) = mul(mul(power(a, n - 2), a), power(z, u))
  BY <1>4, <1>5, MulLaws
<1>8. mul(power(a, n - 2), mul(a, power(b, (u * v) % n))) = power(mul(a, z), u)
  BY <1>2, <1>3, <1>4, <1>5, <1>6, <1>7
<1> QED
  BY <1>8 DEF u, v, z

\* The roots of an opening point: its first one times the powers of an n-th root of 1.
initialRoot(i, k) ==
  mul(wd(nPols(i), f[i].openingPoints[k]), power(xiSeed, key.powerW \div nPols(i)))

\* The n-th power of what multiplies it is 1.
LEMMA RootsOfPoint ==
  ASSUME KeyInv, xiSeed \in Fr, rootsMap = Roots(xiSeed), NEW i \in F,
         NEW k \in 1..Len(f[i].openingPoints), NEW j \in 1..nPols(i)
  PROVE  /\ initialRoot(i, k) \in Fr /\ w(nPols(i)) \in Fr /\ power(w(nPols(i)), nPols(i)) = 1
         /\ rootsMap[i][(k - 1) * nPols(i) + j]
              = mul(initialRoot(i, k), power(w(nPols(i)), j - 1))
<1> DEFINE n == nPols(i)
           c == key.N * n
           b == key.powerW \div n
           m == (k - 1) * n + j
<1>1. n \in Nat \ {0} /\ key.N \in Nat \ {0} /\ key.powerW \in Nat \ {0} /\ f[i].openingPoints[k] \in Nat
  BY KeyFacts
<1>2. key.powerW % n = 0 /\ (P - 1) % c = 0
  <2>1. \A a \in DOMAIN key.f : key.powerW % Len(key.f[a].pols) = 0
                               /\ (P - 1) % (key.N * Len(key.f[a].pols)) = 0
    BY ShKeyAssumption DEF KeyInv
  <2> QED
    BY <2>1 DEF nPols, f, F
<1>3. b \in Nat
  <2> DEFINE z == key.powerW
  <2>1. z \in Nat /\ z % n = 0 /\ b = z \div n
    BY <1>1, <1>2
  <2> HIDE DEF n, z, b
  <2> QED
    BY <1>1, <2>1, Multiple
<1>4. omega(c) \in Fr /\ power(omega(n), n) = 1
  BY <1>1, <1>2, OmegaPower
<1>5. omega(n) \in Fr
  <2>1. (P - 1) % (n * key.N) = 0
    <3>1. key.N * n = n * key.N
      BY <1>1
    <3> QED
      BY <1>2, <3>1
  <2> QED
    BY <1>1, <2>1, OmegaPower
<1>6. w(n) \in Fr /\ power(w(n), n) = 1
  BY <1>4, <1>5 DEF w
<1>7. initialRoot(i, k) \in Fr
  <2>1. wd(n, f[i].openingPoints[k]) \in Fr
    BY <1>1, <1>4, PowerType DEF wd
  <2>2. power(xiSeed, b) \in Fr
    BY <1>3, PowerType
  <2> QED
    BY <2>1, <2>2, Operations DEF initialRoot
<1>8. m \in 1..nRoots(i)
  BY PlaceOfRoot
<1>9. ((m - 1) \div n) + 1 = k /\ (m - 1) % n = j - 1
  <2> DEFINE q == k - 1
             r == j - 1
             e == m - 1
  <2>1. q \in Nat /\ r \in 0..(n - 1) /\ k = q + 1
    BY <1>1, KeyFacts
  <2>2. e = n * q + r
    <3>1. q * n = n * q /\ m = q * n + j
      BY <1>1, <2>1
    <3> HIDE DEF q
    <3>2. q * n \in Nat
      BY <1>1, <2>1
    <3> HIDE DEF m
    <3> QED
      BY <1>1, <3>1, <3>2
  <2> HIDE DEF q, r, e, n
  <2>3. e \in Nat
    BY <1>1, <2>1, <2>2, PlaceOfRow
  <2>4. \A d \in Nat : d = n * q + r <=> d \div n = q /\ d % n = r
    BY <1>1, <2>1, PlaceOfRow
  <2>5. e \div n = q /\ e % n = r
    BY <2>2, <2>3, <2>4
  <2> QED
    BY <2>1, <2>5 DEF e, r
<1>10. rootsMap[i][m] = root(xiSeed, i, m)
  BY <1>8 DEF Roots
<1>11. root(xiSeed, i, m) = mul(initialRoot(i, k), power(w(n), j - 1))
  BY <1>9 DEF root, initialRoot
<1> QED
  BY <1>6, <1>7, <1>10, <1>11

\* The factors in another order.
LEMMA FactorsMoved ==
  ASSUME NEW p \in Fr, NEW a \in Fr, NEW o \in Fr, NEW b \in Fr, NEW z \in Fr
  PROVE  mul(mul(mul(p, a), o), mul(b, z)) = mul(mul(mul(p, mul(a, b)), o), z)
<1> DEFINE q == mul(p, a)
           c == mul(p, mul(a, b))
<1>1. q \in Fr /\ mul(o, z) \in Fr /\ mul(a, b) \in Fr
  BY Operations
<1>2. mul(mul(q, o), mul(b, z)) = mul(mul(q, b), mul(o, z))
  BY <1>1, MulSwap
<1>3. mul(q, b) = c /\ c \in Fr
  BY <1>1, MulLaws, Operations
<1> HIDE DEF c
<1>4. mul(c, mul(o, z)) = mul(mul(c, o), z)
  BY <1>3, MulLaws
<1> QED
  BY <1>2, <1>3, <1>4 DEF c

\* What computeLi multiplies, for an f of several polynomials, are the differences of each
\* root of the opening point to all other roots, with the factor of y.
LEMMA ComputeLiIs ==
  ASSUME KeyInv, xiSeed \in Fr \ {0}, rootsMap = Roots(xiSeed), RootsTyped, y \in Fr, NEW i \in F,
         IsInjective(rootsMap[i]), nPols(i) > 1, NEW k \in 1..Len(f[i].openingPoints), NEW other,
         other = differencesOf(Values(i), k, Len(f[i].openingPoints))
  PROVE  computeLi(i, k, other)
           = product([j \in 1..nPols(i) |-> mul(differences(i, (k - 1) * nPols(i) + j),
                                                yMinus(i, (k - 1) * nPols(i) + j))])
<1> DEFINE n == nPols(i)
           K == Len(f[i].openingPoints)
           r == rootsMap[i]
           I == initialRoot(i, k)
           om == w(n)
           b == (k - 1) * n
           A == power(I, n - 2)
           place(j) == 1 + (((n - 1) * (j - 1)) % n)
           den1 == mul(mul(n % P, A), other)
<1>1. /\ n \in Nat \ {0, 1} /\ n \in Nat \ {0} /\ K \in Nat \ {0} /\ nRoots(i) = n * K /\ n - 2 \in Nat
      /\ n - 1 \in Nat /\ xiSeed \in Fr /\ 1 \in 1..n /\ k - 1 \in Nat /\ b \in Nat
  <2>1. n \in Nat \ {0} /\ n > 1 /\ K \in Nat \ {0} /\ nRoots(i) = n * K /\ k - 1 \in Nat
    BY KeyFacts DEF nRoots
  <2> DEFINE c == k - 1
  <2>2. c \in Nat
    BY <2>1
  <2> HIDE DEF n, K, c
  <2>3. c * n \in Nat
    BY <2>1, <2>2
  <2> QED
    BY <2>1, <2>3 DEF c
<1>2. Values(i) \in [1..K -> Fr \ {0}] /\ AreRootsOf(r, Values(i), n, K)
  BY RootsAreRoots
<1>3. I \in Fr /\ om \in Fr /\ power(om, n) = 1
  BY <1>1, RootsOfPoint
<1>4. \A j \in 1..n : r[b + j] = mul(I, power(om, j - 1))
  BY <1>1, RootsOfPoint
<1>5. other \in Fr
  <2> DEFINE T == (1..K) \ {k}
             g == [l \in T |-> sub(Values(i)[k], Values(i)[l])]
  <2>1. g \in [T -> Fr]
    <3>1. \A l \in 1..K : Values(i)[l] \in Fr
      BY <1>2
    <3> QED
      BY <3>1, Operations
  <2>2. IsFiniteSet(T)
    <3>1. T \subseteq 1..K
      OBVIOUS
    <3> HIDE DEF K, T
    <3>2. IsFiniteSet(1..K)
      BY <1>1, LastPlace
    <3> QED
      BY <3>1, <3>2, FS_Subset
  <2>3. other = product(g)
    BY DEF differencesOf
  <2> HIDE DEF T, g
  <2> QED
    BY <2>1, <2>2, <2>3, ProductLaws
<1>6. rootPower(i, k) = A
  <2>1. r[1 + (k - 1) * nPols(i)] = I
    <3>1. r[b + 1] = mul(I, power(om, 1 - 1)) /\ 1 - 1 = 0
      <4> HIDE DEF n, b, r, I, om
      <4> QED
        BY <1>1, <1>4
    <3>2. power(om, 0) = 1 /\ mul(I, 1) = I
      BY <1>3, PowerStep, ZeroLaws
    <3>3. b + 1 = 1 + b
      BY <1>1
    <3> QED
      BY <3>1, <3>2, <3>3
  <2>2. (IF nPols(i) > 2 THEN nPols(i) - 2 ELSE 0) = n - 2
    BY <1>1
  <2> QED
    BY <2>1, <2>2 DEF rootPower
<1>7. n % P \in Fr /\ A \in Fr
  <2>1. n \in Nat /\ n - 2 \in Nat
    BY <1>1
  <2>2. A \in Fr
    BY <1>3, <2>1, PowerType
  <2> HIDE DEF n, A
  <2>3. n % P \in Fr
    BY <2>1, NextElement
  <2> QED
    BY <2>2, <2>3
<1>8. ASSUME NEW j \in 1..n
      PROVE  mul(den1, mul(r[b + place(j)], yMinus(i, b + j)))
               = mul(differences(i, b + j), yMinus(i, b + j))
  <2> DEFINE e == (n - 1) * (j - 1)
             J == b + j
             B == r[b + place(j)]
             Y == yMinus(i, J)
  <2>1. e \in Nat /\ place(j) = 1 + (e % n)
    <3> DEFINE u == n - 1
               v == j - 1
    <3>1. u \in Nat /\ v \in Nat
      BY <1>1
    <3> HIDE DEF u, v
    <3>2. u * v \in Nat
      BY <3>1
    <3> QED
      BY <3>2 DEF u, v
  <2>2. place(j) \in 1..n /\ place(j) - 1 = e % n
    <3> HIDE DEF n, e
    <3>1. e % n \in 0..(n - 1)
      BY <1>1, <2>1
    <3> DEFINE c == e % n
    <3>2. c \in 0..(n - 1) /\ n \in Nat
      BY <1>1, <3>1
    <3> HIDE DEF c
    <3>3. 1 + c \in 1..n /\ (1 + c) - 1 = c
      BY <3>2
    <3> QED
      BY <2>1, <3>3 DEF c, e
  <2>3. B = mul(I, power(om, e % n))
    <3>1. r[b + place(j)] = mul(I, power(om, place(j) - 1))
      BY <1>4, <2>2
    <3> QED
      BY <2>2, <3>1
  <2>4. r[J] = mul(I, power(om, j - 1))
    BY <1>4
  <2> HIDE DEF I, om, n, K, b, place
  <2>5. mul(A, B) = power(r[J], n - 1)
    <3>1. mul(power(I, n - 2), mul(I, power(om, ((n - 1) * (j - 1)) % n)))
            = power(mul(I, power(om, j - 1)), n - 1)
      BY <1>1, <1>3, PowerOfRoot
    <3> QED
      BY <2>3, <2>4, <3>1
  <2>6. J = (k - 1) * n + j
    BY DEF b
  <2>7. differencesOf(r, J, n * K) = mul(slopeAt(r[J], n), differencesOf(Values(i), k, K))
    <3>1. k \in 1..K /\ Values(i) \in [1..K -> Fr]
      BY <1>2 DEF K
    <3>2. IsPlaceIn(J, k, n)
      BY <2>6 DEF IsPlaceIn
    <3> HIDE DEF J, r
    <3> QED
      BY <1>1, <1>2, <3>1, <3>2, RootFactors
  <2>8. differences(i, J) = mul(mul(n % P, mul(A, B)), other)
    BY <1>1, <2>5, <2>7 DEF differences, differencesOf, slopeAt, K
  <2>9. B \in Fr /\ Y \in Fr
    <3>1. b + place(j) \in 1..nRoots(i) /\ J \in 1..nRoots(i)
      BY <2>2, PlaceOfRoot DEF b, n
    <3>2. r[J] \in Fr /\ B \in Fr
      BY <3>1 DEF RootsTyped
    <3> QED
      BY <3>2, Operations DEF yMinus
  <2> HIDE DEF J, B, Y, A
  <2>10. mul(den1, mul(B, Y)) = mul(mul(mul(n % P, mul(A, B)), other), Y)
    BY <1>5, <1>7, <2>9, FactorsMoved
  <2> QED
    BY <2>8, <2>10 DEF B, Y, J
<1>9. computeLi(i, k, other) = product([j \in 1..n |-> mul(den1, mul(r[b + place(j)], yMinus(i, b + j)))])
  BY <1>6 DEF computeLi
<1>10. [j \in 1..n |-> mul(den1, mul(r[b + place(j)], yMinus(i, b + j)))]
         = [j \in 1..n |-> mul(differences(i, b + j), yMinus(i, b + j))]
  <2> HIDE DEF den1, r, b, place, n
  <2> QED
    BY <1>8
<1> QED
  BY <1>9, <1>10

\* What a verifier divides by for one root of an f, as the definition of the Lagrange
\* polynomials has it, and for all of them.
withY(i) == nPols(i) > 1 /\ Len(f[i].openingPoints) < 3
lagrangeFactor(i, j) == mul(differences(i, j), IF withY(i) THEN yMinus(i, j) ELSE 1)
lagrangeFactors(i) == product([j \in 1..nRoots(i) |-> lagrangeFactor(i, j)])

\* They are no zeros when the roots differ and y is none of them.
LEMMA FactorsNotZero ==
  ASSUME KeyInv, RootsTyped, y \in Fr, NEW i \in F
  PROVE  /\ \A j \in 1..nRoots(i) : /\ differences(i, j) \in Fr /\ yMinus(i, j) \in Fr
                                    /\ lagrangeFactor(i, j) \in Fr
         /\ lagrangeFactors(i) \in Fr
         /\ IsInjective(rootsMap[i]) /\ mulL(i, y) # 0 => lagrangeFactors(i) # 0
<1> DEFINE M == nRoots(i)
           r == rootsMap[i]
           g == [j \in 1..M |-> lagrangeFactor(i, j)]
           h == [j \in 1..M |-> sub(y, r[j])]
<1>1. M \in Nat /\ r \in [1..M -> Fr] /\ 1 \in Fr
  BY KeyFacts, PIsNat DEF RootsTyped
<1>2. \A j \in 1..M : differences(i, j) = differencesOf(r, j, M) /\ yMinus(i, j) = h[j]
  BY DEF differences, differencesOf, yMinus
<1>3. h \in [1..M -> Fr] /\ mulL(i, y) = product(h)
  BY <1>1, Operations DEF mulL
<1>4. IsFiniteSet(1..M) /\ lagrangeFactors(i) = product(g)
  BY <1>1, LastPlace DEF lagrangeFactors
<1> HIDE DEF M, r, h
<1>5. \A j \in 1..M : differencesOf(r, j, M) \in Fr /\ (IsInjective(r) => differencesOf(r, j, M) # 0)
  BY <1>1, DifferencesNotZero
<1>6. \A j \in 1..M : differences(i, j) \in Fr /\ yMinus(i, j) \in Fr
  BY <1>2, <1>3, <1>5
<1>7. \A j \in 1..M : lagrangeFactor(i, j) \in Fr
  BY <1>1, <1>6, Operations DEF lagrangeFactor
<1>8. ASSUME IsInjective(r), mulL(i, y) # 0, NEW j \in 1..M
      PROVE  lagrangeFactor(i, j) # 0
  <2>1. differences(i, j) # 0
    BY <1>2, <1>5, <1>8
  <2>2. yMinus(i, j) # 0
    BY <1>2, <1>3, <1>4, <1>8, ProductIsZero
  <2>3. 1 # 0
    OBVIOUS
  <2> QED
    BY <1>1, <1>6, <2>1, <2>2, <2>3, Cancel DEF lagrangeFactor
<1>9. g \in [1..M -> Fr] /\ \A j \in 1..M : g[j] = lagrangeFactor(i, j)
  BY <1>7
<1> HIDE DEF g
<1>10. product(g) \in Fr /\ (product(g) = 0 <=> \E j \in 1..M : g[j] = 0)
  BY <1>4, <1>9, ProductLaws, ProductIsZero
<1>11. IsInjective(r) /\ mulL(i, y) # 0 => product(g) # 0
  BY <1>8, <1>9, <1>10
<1> QED
  BY <1>4, <1>6, <1>7, <1>10, <1>11 DEF M, r

\* The values of an f's opening points, when there is one or there are two.
LEMMA OneOrTwoValues ==
  ASSUME KeyInv, xiSeed \in Fr, NEW i \in F, Len(f[i].openingPoints) \in {1, 2}
  PROVE  /\ Len(f[i].openingPoints) = 1 => differencesOf(Values(i), 1, 1) = 1
         /\ Len(f[i].openingPoints) = 2 =>
              /\ differencesOf(Values(i), 1, 2) = sub(xi(i, 1), xi(i, 2))
              /\ differencesOf(Values(i), 2, 2) = sub(xi(i, 2), xi(i, 1))
<1> DEFINE K == Len(f[i].openingPoints)
<1>1. K \in {1, 2} /\ Values(i) \in [1..K -> Fr]
  BY OpenValueIs DEF Values
<1>2. K = 2 => Values(i)[1] = xi(i, 1) /\ Values(i)[2] = xi(i, 2)
  BY DEF Values, xi
<1> HIDE DEF K
<1>3. /\ K = 1 => differencesOf(Values(i), 1, K) = 1
      /\ K = 2 => /\ differencesOf(Values(i), 1, K) = sub(Values(i)[1], Values(i)[2])
                  /\ differencesOf(Values(i), 2, K) = sub(Values(i)[2], Values(i)[1])
  BY <1>1, FewDifferences
<1> QED
  BY <1>2, <1>3 DEF K

\* What the code inverts of an f, in whatever way its shape has it computed.
LEMMA DenominatorsAre ==
  ASSUME KeyInv, xiSeed \in Fr \ {0}, rootsMap = Roots(xiSeed), RootsTyped, y \in Fr, NEW i \in F,
         IsInjective(rootsMap[i])
  PROVE  denominators(i) = lagrangeFactors(i)
<1> DEFINE n == nPols(i)
           K == Len(f[i].openingPoints)
           M == nRoots(i)
           r == rootsMap[i]
           g == [j \in 1..M |-> lagrangeFactor(i, j)]
<1>1. /\ n \in Nat \ {0} /\ K \in Nat \ {0} /\ M = n * K /\ xiSeed \in Fr /\ r \in [1..M -> Fr]
      /\ M \in Nat /\ lagrangeFactors(i) = product(g)
  BY KeyFacts DEF nRoots, RootsTyped, lagrangeFactors
<1>2. \A j \in 1..M : /\ differences(i, j) \in Fr /\ yMinus(i, j) \in Fr /\ lagrangeFactor(i, j) \in Fr
                      /\ differences(i, j) = differencesOf(r, j, M)
  BY FactorsNotZero DEF differences, differencesOf
<1>3. \A j \in 1..M : ~withY(i) => lagrangeFactor(i, j) = differences(i, j)
  BY <1>2, ZeroLaws DEF lagrangeFactor
<1>4. \A j \in 1..M : withY(i) => lagrangeFactor(i, j) = mul(differences(i, j), yMinus(i, j))
  BY DEF lagrangeFactor
<1>5. CASE K > 2
  <2>1. ~withY(i)
    BY <1>1, <1>5 DEF withY
  <2>2. g = [j \in 1..M |-> differences(i, j)]
    BY <1>3, <2>1
  <2> HIDE DEF g, K
  <2> QED
    BY <1>1, <1>5, <2>2 DEF denominators, computeLiMultipleOpeningPoints, K
<1>6. CASE K = 2 /\ n = 1
  <2>1. ~withY(i) /\ M = 2
    BY <1>1, <1>6 DEF withY
  <2>2. differencesOf(r, 1, M) = sub(r[1], r[2]) /\ differencesOf(r, 2, M) = sub(r[2], r[1])
    <3> HIDE DEF M, r
    <3> QED
      BY <1>1, <2>1, FewDifferences
  <2>3. lagrangeFactor(i, 1) = sub(r[1], r[2]) /\ lagrangeFactor(i, 2) = sub(r[2], r[1])
    BY <1>2, <1>3, <2>1, <2>2
  <2>4. product(g) = mul(sub(r[1], r[2]), sub(r[2], r[1]))
    <3> DEFINE low == [j \in 1..1 |-> g[j]]
               high == [j \in 1..1 |-> g[1 + j]]
    <3>1. g \in [1..M -> Fr] /\ AreHalves(low, high, g, 1) /\ M = 1 * 2 /\ 1 \in Nat
      BY <1>2, <2>1 DEF AreHalves
    <3>2. low \in [1..1 -> Fr] /\ high \in [1..1 -> Fr] /\ low[1] = sub(r[1], r[2]) /\ high[1] = sub(r[2], r[1])
      BY <1>2, <2>1, <2>3
    <3>3. product(g) = mul(product(low), product(high))
      <4> DEFINE c == 1
      <4>1. /\ c \in Nat /\ M = c * 2 /\ g \in [1..M -> Fr]
            /\ low \in [1..c -> Fr] /\ high \in [1..c -> Fr] /\ AreHalves(low, high, g, c)
        BY <3>1, <3>2
      <4> HIDE DEF c, g, low, high, r, M
      <4> QED
        BY <4>1, ProductOfHalves
    <3> HIDE DEF g, low, high, r, M
    <3>4. ASSUME NEW u \in [1..1 -> Fr]
          PROVE  product(u) = u[1]
      <4>1. 1..1 = {1} /\ (1..1) \ {1} = {} /\ 1 \in 1..1 /\ u[1] \in Fr
        OBVIOUS
      <4>2. IsFiniteSet(1..1) /\ IsFiniteSet({})
        <5>1. IsFiniteSet({}) /\ IsFiniteSet({1})
          BY FS_EmptySet, FS_Singleton
        <5> QED
          BY <4>1, <5>1
      <4> DEFINE v == Restrict(u, (1..1) \ {1})
      <4>3. v \in [{} -> Fr]
        BY <4>1 DEF Restrict
      <4>4. product(u) = mul(u[1], product(v))
        BY <4>1, <4>2, ProductLaws
      <4> HIDE DEF v
      <4>5. product(v) = 1
        BY <4>2, <4>3, ProductLaws
      <4> QED
        BY <4>1, <4>4, <4>5, ZeroLaws
    <3> QED
      BY <3>2, <3>3, <3>4
  <2> HIDE DEF g, r, M
  <2> QED
    BY <1>1, <1>6, <2>4 DEF denominators, computeLiTwoOpeningPoints, r
<1>7. CASE K = 2 /\ n # 1
  <2>1. withY(i) /\ n > 1 /\ 1 \in 1..K /\ 2 \in 1..K
    BY <1>1, <1>7 DEF withY
  <2> DEFINE low == [j \in 1..n |-> g[j]]
             high == [j \in 1..n |-> g[n + j]]
  <2>2. \A j \in 1..n : j \in 1..M /\ n + j \in 1..M /\ (1 - 1) * n + j = j /\ (2 - 1) * n + j = n + j
    BY <1>1, <1>7
  <2>3. computeLi(i, 1, sub(xi(i, 1), xi(i, 2)))
          = product([j \in 1..n |-> mul(differences(i, (1 - 1) * n + j), yMinus(i, (1 - 1) * n + j))])
    BY <1>1, <1>7, <2>1, OneOrTwoValues, ComputeLiIs
  <2>4. computeLi(i, 2, sub(xi(i, 2), xi(i, 1)))
          = product([j \in 1..n |-> mul(differences(i, (2 - 1) * n + j), yMinus(i, (2 - 1) * n + j))])
    BY <1>1, <1>7, <2>1, OneOrTwoValues, ComputeLiIs
  <2>5. low = [j \in 1..n |-> mul(differences(i, (1 - 1) * n + j), yMinus(i, (1 - 1) * n + j))]
    BY <1>4, <2>1, <2>2
  <2>6. high = [j \in 1..n |-> mul(differences(i, (2 - 1) * n + j), yMinus(i, (2 - 1) * n + j))]
    BY <1>4, <2>1, <2>2
  <2>7. product(g) = mul(product(low), product(high))
    <3>1. g \in [1..M -> Fr] /\ AreHalves(low, high, g, n) /\ M = n * 2 /\ n \in Nat
      BY <1>1, <1>2, <1>7 DEF AreHalves
    <3> HIDE DEF g, low, high, n, M
    <3> QED
      BY <3>1, ProductOfHalves
  <2> HIDE DEF g, low, high
  <2>8. denominators(i) = mul(computeLi(i, 1, sub(xi(i, 1), xi(i, 2))), computeLi(i, 2, sub(xi(i, 2), xi(i, 1))))
    BY <1>7 DEF denominators, computeLiTwoOpeningPoints
  <2> QED
    BY <1>1, <2>3, <2>4, <2>5, <2>6, <2>7, <2>8
<1>8. CASE K = 1
  <2>1. M = n /\ 1 \in 1..K /\ \A j \in 1..n : (1 - 1) * n + j = j
    BY <1>1, <1>8
  <2>2. CASE n > 1
    <3>1. withY(i)
      BY <1>1, <1>8, <2>2 DEF withY
    <3>2. computeLi(i, 1, 1)
            = product([j \in 1..n |-> mul(differences(i, (1 - 1) * n + j), yMinus(i, (1 - 1) * n + j))])
      BY <1>1, <1>8, <2>1, <2>2, OneOrTwoValues, ComputeLiIs
    <3>3. g = [j \in 1..n |-> mul(differences(i, (1 - 1) * n + j), yMinus(i, (1 - 1) * n + j))]
      BY <1>4, <2>1, <3>1
    <3> HIDE DEF g
    <3>4. denominators(i) = computeLi(i, 1, 1)
      BY <1>8, <2>2 DEF denominators, computeLiSingleOpeningPoint
    <3> QED
      BY <1>1, <3>2, <3>3, <3>4
  <2>3. CASE ~(n > 1)
    <3>1. ~withY(i) /\ n = 1 /\ M = 1
      BY <1>1, <2>1, <2>3 DEF withY
    <3>2. differencesOf(r, 1, M) = 1
      <4> HIDE DEF M, r
      <4> QED
        BY <1>1, <3>1, FewDifferences
    <3>3. \A j \in 1..M : g[j] = 1
      BY <1>2, <1>3, <3>1, <3>2
    <3>4. product(g) = power(1, M)
      <4>1. g = [k \in 1..M |-> 1]
        BY <3>3
      <4> HIDE DEF g, M
      <4> QED
        BY <1>1, <4>1, ProductOfConstant, PIsNat
    <3> HIDE DEF g
    <3>5. power(1, M) = 1
      BY <1>1, PIsNat, PowerOfOne
    <3>6. denominators(i) = 1
      <4>1. K = 1 /\ ~(K > 2) /\ K # 2 /\ ~(nPols(i) > 1)
        BY <1>8, <2>3
      <4> QED
        BY <4>1 DEF denominators
    <3> QED
      BY <1>1, <3>4, <3>5, <3>6
  <2>4. n > 1 \/ ~(n > 1)
    OBVIOUS
  <2> HIDE DEF g, n, K, M, r
  <2> QED
    BY <2>2, <2>3, <2>4
<1>9. K > 2 \/ K = 2 \/ K = 1
  <2> HIDE DEF K, n, M, r, g
  <2> QED
    BY <1>1
<1> HIDE DEF K, n, M, r, g
<1> QED
  BY <1>5, <1>6, <1>7, <1>8, <1>9

-----------------------------------------------------------------------------
\* What is inverted in one batch, and the inverse of an ended opening.
Divisor == mul(product([i \in FirstOfShape(F \ {1}) |-> mulL(i, y)]),
               product([i \in FirstOfShape(F) |-> denominators(i)]))
InverseInv == pc = "done" => inverse = inv(Divisor)

\* It depends on the key, the roots and the challenges only.
LEMMA SameDivisor ==
  ASSUME UNCHANGED <<key, buffCoefs, xiSeed, y, rootsMap>>
  PROVE  Divisor' = Divisor
<1>1. /\ f' = f /\ F' = F /\ key' = key /\ xiSeed' = xiSeed /\ y' = y /\ rootsMap' = rootsMap
      /\ \A i : nPols(i)' = nPols(i) /\ nRoots(i)' = nRoots(i)
  BY SameKey
<1>2. \A i, point : mulL(i, point)' = mulL(i, point)
  BY <1>1 DEF mulL
<1>3. \A i : Shape(i)' = Shape(i)
  BY <1>1 DEF Shape
<1>4. \A S : FirstOfShape(S)' = FirstOfShape(S)
  BY <1>3 DEF FirstOfShape
<1>5. \A i, k : xi(i, k)' = xi(i, k)
  BY <1>1 DEF xi, openValue, challengeXi, wd, omega, generator
<1>6. \A i, k, other : computeLi(i, k, other)' = computeLi(i, k, other)
  <2>1. \A i, k : rootPower(i, k)' = rootPower(i, k) /\ yMinus(i, k)' = yMinus(i, k)
    BY <1>1 DEF rootPower, yMinus
  <2> QED
    BY <1>1, <2>1 DEF computeLi
<1>7. \A i, j : differences(i, j)' = differences(i, j)
  BY <1>1 DEF differences
<1>8. \A i : computeLiMultipleOpeningPoints(i)' = computeLiMultipleOpeningPoints(i)
  BY <1>1, <1>7 DEF computeLiMultipleOpeningPoints
<1>9. \A i : computeLiTwoOpeningPoints(i)' = computeLiTwoOpeningPoints(i)
  BY <1>1, <1>5, <1>6 DEF computeLiTwoOpeningPoints
<1>10. \A i : computeLiSingleOpeningPoint(i)' = computeLiSingleOpeningPoint(i)
  BY <1>6 DEF computeLiSingleOpeningPoint
<1>11. \A i : denominators(i)' = denominators(i)
  BY <1>1, <1>8, <1>9, <1>10 DEF denominators
<1> DEFINE S == FirstOfShape(F \ {1})
           T == FirstOfShape(F)
<1>12. S' = S /\ T' = T
  <2>1. PICK A, B : A = F \ {1} /\ B = F
    OBVIOUS
  <2>2. FirstOfShape(A)' = FirstOfShape(A) /\ FirstOfShape(B)' = FirstOfShape(B)
    BY <1>4
  <2>3. (F \ {1})' = F \ {1}
    BY <1>1
  <2>4. S' = {i \in F \ {1} : \A j \in F \ {1} : Shape(j)' = Shape(i)' => i <= j}
    BY <2>3 DEF FirstOfShape
  <2>5. T' = {i \in F : \A j \in F : Shape(j)' = Shape(i)' => i <= j}
    BY <1>1 DEF FirstOfShape
  <2> QED
    BY <1>3, <2>4, <2>5 DEF FirstOfShape
<1>13. \A i : mulL(i, y)' = mulL(i, y)
  BY <1>1 DEF mulL
<1> QED
  BY <1>11, <1>12, <1>13 DEF Divisor

\* The code's inverse is that of a verifier's denominators when no divisor is zero.
LEMMA InverseIsOfDenominators ==
  ASSUME IInv, InverseInv
  PROVE  InvertsTheDenominators
<1> SUFFICES ASSUME pc = "done", Generic
             PROVE  mul(inverse, mul(product([i \in FirstOfShape(F \ {1}) |-> mulL(i, y)]),
                                     product([i \in FirstOfShape(F) |-> lagrangeFactors(i)]))) = 1
  <2>1. \A i : lagrangeFactors(i)
                 = product([j \in 1..nRoots(i) |->
                     mul(differences(i, j), IF nPols(i) > 1 /\ Len(f[i].openingPoints) < 3
                                            THEN yMinus(i, j) ELSE 1)])
    BY DEF lagrangeFactors, lagrangeFactor, withY
  <2> QED
    BY <2>1 DEF InvertsTheDenominators
<1> DEFINE S == FirstOfShape(F \ {1})
           T == FirstOfShape(F)
           g == [i \in S |-> mulL(i, y)]
           h == [i \in T |-> denominators(i)]
           l == [i \in T |-> lagrangeFactors(i)]
<1>1. KeyInv /\ ControlInv /\ rootsMap = Roots(xiSeed)
  BY DEF IInv, RootsInv
<1>2. RootsTyped /\ y \in Fr /\ xiSeed \in Fr \ {0} /\ \A i \in F : IsInjective(rootsMap[i]) /\ mulL(i, y) # 0
  BY <1>1, RootsAreTyped DEF ControlInv, Generic, RootsDiffer
<1>3. IsFiniteSet(S) /\ IsFiniteSet(T) /\ S \subseteq F /\ T \subseteq F
  <2>1. S \subseteq F /\ T \subseteq F
    BY DEF FirstOfShape
  <2>2. IsFiniteSet(F)
    BY <1>1, KeyFacts, LastPlace
  <2> QED
    BY <2>1, <2>2, FS_Subset
<1>4. ASSUME NEW i \in F
      PROVE  /\ mulL(i, y) \in Fr \ {0} /\ denominators(i) = lagrangeFactors(i)
             /\ lagrangeFactors(i) \in Fr \ {0}
  <2>1. mulL(i, y) \in Fr
    BY <1>1, <1>2, Zerofiers
  <2>2. lagrangeFactors(i) \in Fr \ {0}
    BY <1>1, <1>2, FactorsNotZero
  <2>3. denominators(i) = lagrangeFactors(i)
    BY <1>1, <1>2, DenominatorsAre
  <2> QED
    BY <1>2, <2>1, <2>2, <2>3
<1>5. g \in [S -> Fr \ {0}] /\ h \in [T -> Fr \ {0}] /\ h = l
  BY <1>3, <1>4
<1>6. inverse = inv(mul(product(g), product(h)))
  BY DEF InverseInv, Divisor
<1> HIDE DEF S, T, g, h, l
<1>7. product(g) \in Fr \ {0} /\ product(h) \in Fr \ {0}
  <2>1. g \in [S -> Fr] /\ h \in [T -> Fr]
    BY <1>5
  <2> QED
    BY <1>3, <1>5, <2>1, ProductLaws, ProductNotZero
<1> DEFINE d == mul(product(g), product(h))
<1>8. d \in Fr \ {0}
  BY <1>7, Operations, Cancel
<1>9. inv(d) \in Fr /\ mul(inv(d), d) = 1
  <2> HIDE DEF d
  <2>1. inv(d) \in Fr /\ mul(d, inv(d)) = 1
    BY <1>8, HasInverse
  <2> QED
    BY <1>8, <2>1, MulLaws
<1> QED
  BY <1>5, <1>6, <1>9 DEF d, S, T, g, l

\* getMontgomeryBatchedInverse of an opening yields the inverse of what a verifier divides
\* by: whatever the shape of an f has the code compute, by the derivative of X^n - x at a
\* root or by the differences, its value is the one that the definition of the Lagrange
\* polynomials has, for every key and for every challenges that leave no divisor zero.
THEOREM Inverts == Spec => []InvertsTheDenominators
<1>1. Init => InverseInv
  BY DEF Init, InverseInv
<1>2. IInv /\ InverseInv /\ [Next]_vars => InverseInv'
  <2> SUFFICES ASSUME IInv, InverseInv, [Next]_vars
               PROVE  InverseInv'
    OBVIOUS
  <2>1. CASE Commit
    <3>1. pc' \in {"error", "roots", "commit"}
      BY <2>1 DEF Commit
    <3> QED
      BY <3>1 DEF InverseInv
  <2>2. CASE CalculateRoots \/ CalculateEvaluations
    BY <2>2 DEF CalculateRoots, CalculateEvaluations, InverseInv
  <2>3. CASE ComputeR
    <3>1. pc' \in {"error", "W"}
      BY <2>3 DEF ComputeR
    <3> QED
      BY <3>1 DEF InverseInv
  <2>4. CASE ComputeW
    <3>1. pc' \in {"error", "Wp"}
      BY <2>4 DEF ComputeW
    <3> QED
      BY <3>1 DEF InverseInv
  <2>5. CASE ComputeWp
    <3>1. pc' \in {"error", "outOfBounds", "inverse"}
      BY <2>5 DEF ComputeWp
    <3> QED
      BY <3>1 DEF InverseInv
  <2>6. CASE getMontgomeryBatchedInverse
    <3>1. inverse' = inv(Divisor) /\ UNCHANGED <<key, buffCoefs, xiSeed, y, rootsMap>>
      BY <2>6 DEF getMontgomeryBatchedInverse, Divisor
    <3>2. Divisor' = Divisor
      BY <3>1, SameDivisor
    <3> QED
      BY <3>1, <3>2 DEF InverseInv
  <2>7. CASE Ended \/ UNCHANGED vars
    <3>1. pc' = pc /\ inverse' = inverse /\ UNCHANGED <<key, buffCoefs, xiSeed, y, rootsMap>>
      BY <2>7 DEF Ended, vars
    <3>2. Divisor' = Divisor
      BY <3>1, SameDivisor
    <3> QED
      BY <3>1, <3>2 DEF InverseInv
  <2> QED
    BY <2>1, <2>2, <2>3, <2>4, <2>5, <2>6, <2>7 DEF Next
<1>3. IInv /\ InverseInv => InvertsTheDenominators
  BY InverseIsOfDenominators
<1> QED
  BY <1>1, <1>2, <1>3, Invariance, PTL DEF Spec
=============================================================================
