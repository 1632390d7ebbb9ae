---------------------------- MODULE PrimeField ----------------------------
(***************************************************************************)
(* The scalar field of the curve (AltBn128::Engine::fr), as the integers   *)
(* modulo a small prime, with its polynomials: functions from exponents to *)
(* coefficients.                                                           *)
(***************************************************************************)
EXTENDS Integers, Functions

CONSTANT P

ASSUME PrimeAssumption == P \in Nat \ {0, 1} /\ \A d \in 2..(P - 1) : P % d # 0

Fr == 0..(P - 1)
add(a, b) == (a + b) % P
sub(a, b) == (a - b) % P
mul(a, b) == (a * b) % P
inv(a) == IF a = 0 THEN 0 ELSE CHOOSE b \in Fr : mul(a, b) = 1
power(b, e) == LET p[k \in Nat] == IF k = 0 THEN 1 ELSE mul(b, p[k - 1]) IN p[e]

sum(f) == FoldFunction(add, 0, f)
product(f) == FoldFunction(mul, 1, f)
evaluate(p, x) == sum([e \in DOMAIN p |-> mul(p[e], power(x, e))])

\* The generator of the roots of unity that NTT_AltBn128 and the key use: a
\* power of the least element that is no square.
nqr == CHOOSE n \in Fr : /\ power(n, (P - 1) \div 2) = P - 1
                         /\ \A m \in 1..(n - 1) : power(m, (P - 1) \div 2) = 1
rootOfUnity(order) == power(nqr, (P - 1) \div order)
=============================================================================
