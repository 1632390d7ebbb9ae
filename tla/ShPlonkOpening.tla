-------------------------- MODULE ShPlonkOpening --------------------------
(***************************************************************************)
(* The algebra of the opening (ShPlonkProver::commit and open): the        *)
(* polynomials of an f are interleaved into one, which is opened at the    *)
(* roots of its opening points.  PilFflonkProver has the order of the      *)
(* steps, the challenges and the transcript; here the challenges are any.  *)
(* A commitment is the polynomial it commits to.                           *)
(***************************************************************************)
EXTENDS Polynomials

CONSTANTS
  Keys,      \* the keys considered, as records (see KeyType)
  Inputs(_), \* the contents of the buffers of coefficients for a key
  Challenges \* what a challenge may be: [xiSeed, alpha, y : subsets of Fr]

Stages == 0..4

\* f has the fields of a ShPlonkPol; the f's are counted from 1, as sequences
\* are.  names is polsNamesStage; nThreads is omp_get_max_threads(); generator
\* is what the omegas of the shkey are powers of.
NotEmpty(s) == Len(s) \in Nat \ {0} /\ DOMAIN s = 1..Len(s)
KeyType(k) ==
  /\ {k.N, k.powerW, k.nThreads} \subseteq Nat \ {0}
  /\ k.generator \in Fr \ {0}
  /\ NotEmpty(k.f)
  /\ \A i \in DOMAIN k.f : /\ k.f[i].stage \in Stages
                           /\ k.f[i].degree \in Nat
                           /\ NotEmpty(k.f[i].pols) /\ NotEmpty(k.f[i].openingPoints)
                           /\ k.f[i].openingPoints \in Seq(0..(k.N - 1))
                           /\ DOMAIN k.f[i].stagePols = DOMAIN k.f[i].pols
                           /\ \A p \in ToSet(k.f[i].stagePols) : p.degree \in Nat

\* What the shkey provides: each polynomial is in one f, of one stage, that
\* lists it in one order and is long enough; the roots that are asked for are
\* there.
ASSUME ShKeyAssumption ==
  \A k \in Keys :
    /\ KeyType(k)
    /\ \A i \in DOMAIN k.f :
         LET pol == k.f[i]  n == Len(pol.pols) IN
         /\ IsInjective(pol.openingPoints) /\ IsInjective(pol.pols)
         /\ [j \in 1..n |-> pol.stagePols[j].name] = pol.pols
         /\ \A j \in 1..n : pol.stagePols[j].degree * n + (j - 1) <= pol.degree
         /\ ToSet(pol.pols) \subseteq Range(k.names[pol.stage])
         /\ k.powerW % n = 0 /\ (P - 1) % (k.N * n) = 0
    /\ \A i, j \in DOMAIN k.f :
         i # j => ToSet(k.f[i].pols) \cap ToSet(k.f[j].pols) = {}

\* Every coefficient of a committed polynomial is in the buffer of its stage.
ASSUME InputsAssumption ==
  \A k \in Keys : \A coefs \in Inputs(k) : \A i \in DOMAIN k.f :
    LET s == k.f[i].stage
    IN  \A p \in ToSet(k.f[i].stagePols) : \A row \in 0..(p.degree - 1) :
          \A id \in DOMAIN k.names[s] : coefs[s][row][id] \in Fr
ASSUME ChallengesAssumption == Challenges.xiSeed \cup Challenges.alpha \cup Challenges.y \subseteq Fr

VARIABLES
  key,
  buffCoefs,             \* [stage -> [coefficient -> [column -> element]]]
  pc, stage,
  xiSeed, alpha, y,      \* the challenges of the opening
  rootsMap,              \* of each f, a sequence
  polynomialsShPlonk,    \* by name
  polynomialCommitments, \* by name
  evaluationCommitments, \* by name and opening point
  inverse                \* evaluationCommitments["inv"]

vars == <<key, buffCoefs, pc, stage, xiSeed, alpha, y, rootsMap, polynomialsShPlonk,
          polynomialCommitments, evaluationCommitments, inverse>>

f == key.f
F == DOMAIN f
nPols(i) == Len(f[i].pols)
nRoots(i) == nPols(i) * Len(f[i].openingPoints)
PutAll(m, new) ==
  [name \in DOMAIN m \cup DOMAIN new |-> IF name \in DOMAIN new THEN new[name] ELSE m[name]]
Put(m, name, value) == PutAll(m, [n \in {name} |-> value])
Pol(name, i) == polynomialsShPlonk[<<name, i>>]
W == <<"W">>
Wp == <<"Wp">>

\* omegas: w"n" is an n-th root of 1, and w"n"_"k"d"n" one of the domain's root^k.
generator == key.generator
omega(order) == power(generator, (P - 1) \div order)
w(n) == omega(n)
wd(n, k) == power(omega(key.N * n), k)

challengeXi == power(xiSeed, key.powerW)

\* (Faulty variant: always xi itself.)
openValueXi(openingPoint) == challengeXi
openValue(openingPoint) == mul(challengeXi, power(wd(1, 1), openingPoint))

-----------------------------------------------------------------------------
\* commit
findPolId(s, name) == CHOOSE id \in DOMAIN key.names[s] : key.names[s][id] = name
findDegree(i, name) ==
  (CHOOSE p \in ToSet(f[i].stagePols) : p.name = name).degree

\* polsIds has the order of the stage, and lengths the one of the f.  (Faulty
\* variant: the columns are taken as they come.)
polsIdsInOrder(i, j) == j - 1
polsIds(i, j) == findPolId(f[i].stage, f[i].stagePols[j].name)
lengths(i, j) == findDegree(i, f[i].pols[j])
getCommittedPolynomial(i) ==
  [e \in 0..f[i].degree |->
     LET j == (e % nPols(i)) + 1
         row == e \div nPols(i)
     IN  IF row < lengths(i, j) THEN buffCoefs[f[i].stage][row][polsIds(i, j)] ELSE 0]
multiExponentiation(i, p) ==
  [e \in DOMAIN p |-> IF e \div nPols(i) < lengths(i, (e % nPols(i)) + 1) THEN p[e] ELSE 0]

Commit ==
  /\ pc = "commit"
  /\ LET committed == {i \in F : f[i].stage = stage}
     IN  IF \E i \in committed : getDegree(getCommittedPolynomial(i)) > f[i].degree
         THEN pc' = "error" /\ UNCHANGED <<stage, polynomialsShPlonk, polynomialCommitments>>
         ELSE /\ polynomialsShPlonk' =
                   PutAll(polynomialsShPlonk, [name \in {<<"f", i>> : i \in committed} |->
                                                 getCommittedPolynomial(name[2])])
              /\ polynomialCommitments' =
                   PutAll(polynomialCommitments, [name \in {<<"f", i>> : i \in committed} |->
                      multiExponentiation(name[2], getCommittedPolynomial(name[2]))])
              /\ stage' = Min({stage + 1, 4})
              /\ pc' = IF stage = 4 THEN "roots" ELSE "commit"
  /\ UNCHANGED <<key, buffCoefs, xiSeed, alpha, y, rootsMap, evaluationCommitments, inverse>>

-----------------------------------------------------------------------------
\* open
root(seed, i, m) ==
  LET n == nPols(i)
      openingPoint == f[i].openingPoints[((m - 1) \div n) + 1]
      initial == mul(wd(n, openingPoint), power(seed, key.powerW \div n))
  IN  mul(initial, power(w(n), (m - 1) % n))
CalculateRoots ==
  /\ pc = "roots"
  /\ \E seed \in Challenges.xiSeed :
       /\ xiSeed' = seed
       /\ rootsMap' = [i \in F |-> [m \in 1..nRoots(i) |-> root(seed, i, m)]]
  /\ pc' = "evaluations"
  /\ UNCHANGED <<key, buffCoefs, stage, alpha, y, polynomialsShPlonk, polynomialCommitments,
                 evaluationCommitments, inverse>>

\* The value of a polynomial at an opening point.  (Faulty variant: the name of
\* an evaluation lacks the opening point.)
evaluationNameOnly(name, openingPoint) == <<name, 0>>
evaluationName(name, openingPoint) == <<name, openingPoint>>
evaluation(i, j, openingPoint) ==
  LET nCoefs == findDegree(i, f[i].pols[j])
      id == findPolId(f[i].stage, f[i].pols[j])
      column == [row \in 0..(nCoefs - 1) |-> buffCoefs[f[i].stage][row][id]]
  IN  fastEvaluate(column, nCoefs, openValue(openingPoint), key.nThreads)
Opened ==
  UNION {{<<i, j, o>> : j \in 1..nPols(i), o \in ToSet(f[i].openingPoints)} : i \in F}
CalculateEvaluations ==
  /\ pc = "evaluations"
  /\ evaluationCommitments' =
       [name \in {evaluationName(f[t[1]].pols[t[2]], t[3]) : t \in Opened} |->
          LET t == CHOOSE t \in Opened : evaluationName(f[t[1]].pols[t[2]], t[3]) = name
          IN  evaluation(t[1], t[2], t[3])]
  /\ pc' = "R"
  /\ UNCHANGED <<key, buffCoefs, stage, xiSeed, alpha, y, rootsMap, polynomialsShPlonk,
                 polynomialCommitments, inverse>>

evaluatePol(p, x) == fastEvaluate(p, getDegree(p) + 1, x, key.nThreads)
R(i) == lagrangePolynomialInterpolation(
          rootsMap[i], [m \in 1..nRoots(i) |-> evaluatePol(Pol("f", i), rootsMap[i][m])])
ComputeR ==
  /\ pc = "R"
  /\ alpha' \in Challenges.alpha
  /\ polynomialsShPlonk' =
       PutAll(polynomialsShPlonk, [name \in {<<"R", i>> : i \in F} |-> R(name[2])])
  /\ pc' = IF \E i \in F : getDegree(polynomialsShPlonk'[<<"R", i>>]) > nRoots(i) - 1
           THEN "error" ELSE "W"
  /\ UNCHANGED <<key, buffCoefs, stage, xiSeed, y, rootsMap, polynomialCommitments,
                 evaluationCommitments, inverse>>

\* The powers of alpha.  (Faulty variant: from the first one.)
alphasFromAlpha(i) == power(alpha, i)
alphas(i) == power(alpha, i - 1)

\* f minus R, divided for one opening point after the other.
divided(i) ==
  LET d[k \in 0..Len(f[i].openingPoints)] ==
        IF k = 0 THEN mulScalar(minus(Pol("f", i), Pol("R", i)), alphas(i))
        ELSE divByZerofier(d[k - 1], nPols(i), openValue(f[i].openingPoints[k]))
  IN  d
NotDivisible ==
  \E i \in F : \E k \in DOMAIN f[i].openingPoints :
    ~dividedByZerofier(divided(i)[k - 1], nPols(i), openValue(f[i].openingPoints[k]))

nTotalRoots == SumFunction([i \in F |-> nRoots(i)])
maxDegreeW == Max({f[i].degree + nTotalRoots - nRoots(i) : i \in F})
ComputeW ==
  /\ pc = "W"
  /\ LET polynomialW ==
           FoldLeft(plus, Zero, [i \in F |-> divided(i)[Len(f[i].openingPoints)]])
     IN  IF \/ NotDivisible
            \/ maxDegreeW >= nTotalRoots /\ getDegree(polynomialW) > maxDegreeW - nTotalRoots
         THEN pc' = "error" /\ UNCHANGED <<polynomialsShPlonk, polynomialCommitments>>
         ELSE /\ polynomialsShPlonk' = Put(polynomialsShPlonk, W, polynomialW)
              /\ polynomialCommitments' = Put(polynomialCommitments, W, polynomialW)
              /\ pc' = "Wp"
  /\ UNCHANGED <<key, buffCoefs, stage, xiSeed, alpha, y, rootsMap, evaluationCommitments,
                 inverse>>

-----------------------------------------------------------------------------
mulL(i, point) == product([m \in 1..nRoots(i) |-> sub(point, rootsMap[i][m])])
preL(i, point) == mul(alphas(i), product([j \in F \ {i} |-> mulL(j, point)]))
ZT(point) == evaluate(zerofierPolynomial(FlattenSeq([i \in F |-> rootsMap[i]])), point)
ZTS2(point) == evaluate(zerofierPolynomial(FlattenSeq([i \in 1..(Len(f) - 1) |-> rootsMap[i + 1]])), point)
maxDegree == Max({f[i].degree : i \in F})

\* Wp is L divided by ZTS2(y)(X - y); W is multiplied by ZT(y) on the way.  A
\* division of a polynomial of degree 0 or 1 leaves the buffer.
ComputeWp ==
  /\ pc = "Wp"
  /\ \E point \in Challenges.y :
     LET scaledW == mulScalar(polynomialsShPlonk[W], ZT(point))
         term(i) == mulScalar(subScalar(Pol("f", i), evaluatePol(Pol("R", i), point)),
                              preL(i, point))
         L == minus(FoldLeft(plus, Zero, [i \in F |-> term(i)]), scaledW)
         dividend == mulScalar(L, inv(ZTS2(point)))
         quotient == divByXSubValue(dividend, point)
     IN  /\ y' = point
         /\ IF getDegree(L) < 2
            THEN pc' = "outOfBounds" /\ UNCHANGED <<polynomialsShPlonk, polynomialCommitments>>
            ELSE IF \/ getDegree(L) > maxDegree
                    \/ ~dividedByX(dividend, point)
                    \/ getDegree(quotient) > maxDegree - 1
            THEN pc' = "error" /\ UNCHANGED <<polynomialsShPlonk, polynomialCommitments>>
            ELSE /\ polynomialsShPlonk' = Put(Put(polynomialsShPlonk, W, scaledW), Wp, quotient)
                 /\ polynomialCommitments' = Put(polynomialCommitments, Wp, quotient)
                 /\ pc' = "inverse"
  /\ UNCHANGED <<key, buffCoefs, stage, xiSeed, alpha, rootsMap, evaluationCommitments, inverse>>
-----------------------------------------------------------------------------
\* The batched inverse: of the factors of y in the zerofiers, and of the
\* denominators of the Lagrange polynomials, once for each shape of an f (in the
\* code, for each name wName).  (Faulty variant: a root too many.)
Shape(i) == <<nPols(i), f[i].openingPoints>>
FirstOfShape(S) == {i \in S : \A j \in S : Shape(j) = Shape(i) => i <= j}
yMinus(i, m) == sub(y, rootsMap[i][m])
rootPowerTooHigh(i, k) == power(rootsMap[i][1 + (k - 1) * nPols(i)], nPols(i) - 1)
rootPower(i, k) ==
  power(rootsMap[i][1 + (k - 1) * nPols(i)], IF nPols(i) > 2 THEN nPols(i) - 2 ELSE 0)
xi(i, k) == openValue(f[i].openingPoints[k])

\* One opening point, or two: with the other's factor.
computeLi(i, k, other) ==
  LET len == nPols(i)
      den1 == mul(mul(len % P, rootPower(i, k)), other)
      at(j) == (k - 1) * len + j
  IN  product([j \in 1..len |->
        mul(den1, mul(rootsMap[i][at(1 + (((len - 1) * (j - 1)) % len))], yMinus(i, at(j))))])
computeLiSingleOpeningPoint(i) == computeLi(i, 1, 1)
computeLiTwoOpeningPoints(i) ==
  IF nPols(i) = 1 THEN mul(sub(rootsMap[i][1], rootsMap[i][2]), sub(rootsMap[i][2], rootsMap[i][1]))
  ELSE mul(computeLi(i, 1, sub(xi(i, 1), xi(i, 2))), computeLi(i, 2, sub(xi(i, 2), xi(i, 1))))
differences(i, j) == product([m \in (1..nRoots(i)) \ {j} |-> sub(rootsMap[i][j], rootsMap[i][m])])
computeLiMultipleOpeningPoints(i) == product([j \in 1..nRoots(i) |-> differences(i, j)])
denominators(i) ==
  IF Len(f[i].openingPoints) > 2 THEN computeLiMultipleOpeningPoints(i)
  ELSE IF Len(f[i].openingPoints) = 2 THEN computeLiTwoOpeningPoints(i)
  ELSE IF nPols(i) > 1 THEN computeLiSingleOpeningPoint(i) ELSE 1
getMontgomeryBatchedInverse ==
  /\ pc = "inverse"
  /\ inverse' = inv(mul(product([i \in FirstOfShape(F \ {1}) |-> mulL(i, y)]),
                        product([i \in FirstOfShape(F) |-> denominators(i)])))
  /\ pc' = "done"
  /\ UNCHANGED <<key, buffCoefs, stage, xiSeed, alpha, y, rootsMap, polynomialsShPlonk,
                 polynomialCommitments, evaluationCommitments>>

-----------------------------------------------------------------------------
Init ==
  /\ key \in Keys
  /\ buffCoefs \in Inputs(key)
  /\ pc = "commit" /\ stage = 0
  /\ xiSeed = 0 /\ alpha = 0 /\ y = 0
  /\ rootsMap = <<>> /\ polynomialsShPlonk = <<>> /\ polynomialCommitments = <<>>
  /\ evaluationCommitments = <<>> /\ inverse = 0

Ended == pc \in {"done", "error", "outOfBounds"} /\ UNCHANGED vars

Next == \/ Commit \/ CalculateRoots \/ CalculateEvaluations \/ ComputeR \/ ComputeW
        \/ ComputeWp \/ getMontgomeryBatchedInverse \/ Ended
Spec == Init /\ [][Next]_vars

-----------------------------------------------------------------------------
PolynomialsIn(m) == \A name \in DOMAIN m : \A e \in DOMAIN m[name] : m[name][e] \in Fr
TypeOK ==
  /\ pc \in {"commit", "roots", "evaluations", "R", "W", "Wp", "inverse", "done", "error",
             "outOfBounds"}
  /\ stage \in Stages /\ {xiSeed, alpha, y, inverse} \subseteq Fr
  /\ pc \notin {"commit", "roots"} =>
       \A i \in F : rootsMap[i] \in [1..nRoots(i) -> Fr]
  /\ PolynomialsIn(polynomialsShPlonk) /\ PolynomialsIn(polynomialCommitments)
  /\ evaluationCommitments = <<>> \/
       evaluationCommitments \in [{<<f[t[1]].pols[t[2]], t[3]>> : t \in Opened} -> Fr]

\* The challenges for which no divisor is zero: all but a few of the field.
RootsDiffer == xiSeed # 0 /\ \A i \in F : IsInjective(rootsMap[i])
Generic == RootsDiffer /\ \A i \in F : mulL(i, y) # 0

\* The equation of a verifier, who knows the key, the commitments, the
\* evaluations and the challenges: it recovers R from the evaluations, and the
\* pairing compares the two sides in the secret point tau.
Ri(i) == lagrangePolynomialInterpolation(rootsMap[i], [m \in 1..nRoots(i) |->
  sum([j \in 1..nPols(i) |->
    mul(power(rootsMap[i][m], j - 1),
        evaluationCommitments[<<f[i].pols[j],
                                f[i].openingPoints[((m - 1) \div nPols(i)) + 1]>>])])])
VerifierAccepts ==
  pc = "done" /\ Generic =>
    LET quotient(i) == mul(power(alpha, i - 1), mul(mulL(1, y), inv(mulL(i, y))))
        opened == FoldLeft(plus, Zero, [i \in F |->
          mulScalar(subScalar(polynomialCommitments[<<"f", i>>], evaluate(Ri(i), y)), quotient(i))])
        left == minus(opened, mulScalar(polynomialCommitments[W], mulL(1, y)))
    IN  \A tau \in Fr :
          evaluate(left, tau) = mul(sub(tau, y), evaluate(polynomialCommitments[Wp], tau))

\* No check of the degrees or of a division refuses what an honest prover has
\* computed, unless roots are equal or zero.
NeverRefusesItself == pc = "error" => rootsMap # <<>> /\ ~RootsDiffer

\* No division leaves its buffer unless a divisor is zero.  (With polynomials of
\* so low a degree that L has none, it would.)
DivisionsStayInside == pc = "outOfBounds" => ~Generic

\* evaluations["inv"] is the inverse of what a verifier divides by: the factors
\* of y, and by definition the denominators of the Lagrange polynomials at y.
InvertsTheDenominators ==
  pc = "done" /\ Generic =>
    LET withY(i) == nPols(i) > 1 /\ Len(f[i].openingPoints) < 3
        Lagrange(i) == product([j \in 1..nRoots(i) |->
          mul(differences(i, j), IF withY(i) THEN yMinus(i, j) ELSE 1)])
    IN  mul(inverse, mul(product([i \in FirstOfShape(F \ {1}) |-> mulL(i, y)]),
                         product([i \in FirstOfShape(F) |-> Lagrange(i)]))) = 1
=============================================================================
