---------------------------- MODULE Polynomials ----------------------------
(***************************************************************************)
(* What the operations of class Polynomial compute: functions from 0..d to *)
(* the field, with the highest coefficients possibly zero.  The rounds and *)
(* the threads of divByZerofier are in PolynomialDivision: here it is what *)
(* they compute when the threads divide n or have one place each.          *)
(***************************************************************************)
EXTENDS PrimeField, SequencesExt

Zero == [e \in {0} |-> 0]
coef(p, e) == IF e \in DOMAIN p THEN p[e] ELSE 0
getDegree(p) == Max({0} \cup {e \in DOMAIN p : p[e] # 0})

\* The value in x, from the highest coefficient down.
evaluateAt(p, x) == LET h[e \in Nat] == IF e \notin DOMAIN p THEN 0 ELSE add(p[e], mul(x, h[e + 1]))
                IN  h[0]

\* The shares of the threads: each sums its own coefficients, and the sums are
\* put together with powers of x^coefsThread.
fastEvaluate(c, nCoefs, x, nThreads) ==
  LET coefsThread == nCoefs \div nThreads
      share(i) == IF i = nThreads - 1 THEN coefsThread + (nCoefs % nThreads) ELSE coefsThread
      res(i) == evaluate([j \in 0..(share(i) - 1) |-> c[i * coefsThread + j]], x)
      xN == power(x, share(0))
  IN  sum([i \in 0..(nThreads - 1) |-> mul(power(xN, i), res(i))])

plus(p, q) == [e \in 0..Max({getDegree(p), getDegree(q)}) |-> add(coef(p, e), coef(q, e))]
minus(p, q) == [e \in 0..Max({getDegree(p), getDegree(q)}) |-> sub(coef(p, e), coef(q, e))]
mulScalar(p, v) == [e \in DOMAIN p |-> mul(p[e], v)]
subScalar(p, v) == [p EXCEPT ![0] = sub(@, v)]
byXSubValue(p, v) ==
  [e \in 0..(getDegree(p) + 1) |-> sub(coef(p, e - 1), mul(v, coef(p, e)))]

\* By X - v, from the highest coefficient down.
divByXSubValue(p, v) ==
  LET q[e \in Nat] == IF e >= getDegree(p) THEN 0 ELSE add(p[e + 1], mul(v, q[e + 1]))
  IN  [e \in 0..getDegree(p) |-> q[e]]
dividedByX(p, v) == coef(p, 0) = sub(0, mul(v, divByXSubValue(p, v)[0]))

\* By X^n - beta, from the lowest coefficient up: the n highest coefficients of
\* the result must be zero, which is not looked at in the first chunk.
divByZerofier(p, n, beta) ==
  LET q[e \in Nat] ==
        mul(inv(beta), sub(IF e < n THEN 0 ELSE q[e - n], coef(p, e)))
  IN  [e \in 0..getDegree(p) |-> q[e]]
dividedByZerofier(p, n, beta) ==
  LET quotient == divByZerofier(p, n, beta)
  IN  \A e \in n..getDegree(p) : e > getDegree(p) - n => quotient[e] = 0

\* By X^n - 1, all the coefficients.
divZh(p, n) ==
  LET q[e \in Nat] == sub(IF e < n THEN 0 ELSE q[e - n], p[e])
  IN  [e \in DOMAIN p |-> q[e]]

zerofierPolynomial(xArr) == FoldLeft(byXSubValue, [e \in {0} |-> 1], xArr)

computeLagrangePolynomial(i, xArr, yArr) ==
  LET numerator == zerofierPolynomial(RemoveAt(xArr, i))
  IN  mulScalar(numerator, mul(yArr[i], inv(evaluate(numerator, xArr[i]))))
lagrangePolynomialInterpolation(xArr, yArr) ==
  FoldLeft(plus, Zero, [i \in DOMAIN xArr |-> computeLagrangePolynomial(i, xArr, yArr)])
=============================================================================
