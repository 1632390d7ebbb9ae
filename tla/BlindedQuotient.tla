-------------------------- MODULE BlindedQuotient --------------------------
(***************************************************************************)
(* From the witness to the quotient: extend() interpolates the columns of  *)
(* stage 1, blinds them and evaluates them on the extended domain, where   *)
(* step42ns computes the constraints; their polynomial is divided by       *)
(* X^N - 1.  The transforms are what NTT shows NTT_AltBn128 to compute; of *)
(* the constraints of the shipped circuit, those of the Fibonacci sequence *)
(* are here (the arguments, stages 2 and 3, are in Lookup).                *)
(***************************************************************************)
EXTENDS Polynomials

CONSTANTS
  nBits, nBitsZK, qDeg, maxPolsOpenings,  \* of the key and of fflonkInfo
  names,       \* polsNamesStage[1]: the column's names, from column 0
  f,           \* the f's of stage 1: [pols, openingPoints : sequences]
  Witnesses,   \* what cm1_n may hold: rows of columns
  Blinds,      \* what the random elements of a column may be: sequences
  Garbage,     \* what the buffers may hold from an earlier proof
  Challenges   \* what challenges[4] may be

extendBits == CHOOSE e \in 0..qDeg : 2^e >= qDeg + 1 /\ \A d \in 0..(e - 1) : 2^d < qDeg + 1
N == 2^nBits
NCoefs == 2^(nBits + nBitsZK)
NExt == 2^(nBits + nBitsZK + extendBits)
extendBitsTotal == nBitsZK + extendBits
Columns == DOMAIN names

Matrix(rows) == [0..(rows - 1) -> [Columns -> Fr]]
column(m, c) == [row \in DOMAIN m |-> m[row][c]]

\* One random coefficient more than there are opening points.  (Faulty variant:
\* as many.)
numberOpenings(name) ==
  IF \E i \in DOMAIN f : name \in ToSet(f[i].pols)
  THEN Len(f[CHOOSE i \in DOMAIN f : name \in ToSet(f[i].pols)].openingPoints) ELSE 0
findNumberOpenings(name) ==
  IF \E i \in DOMAIN f : name \in ToSet(f[i].pols)
  THEN Len(f[CHOOSE i \in DOMAIN f : name \in ToSet(f[i].pols)].openingPoints) + 1 ELSE 0

\* What the circuit's compiler provides: room for the random coefficients, and
\* constraints of degree qDeg + 1 in polynomials with at most maxPolsOpenings;
\* those below have degree three, in the columns 0 and 1.
ASSUME BlindedQuotientAssumption ==
  /\ {nBits, nBitsZK} \subseteq Nat \ {0} /\ qDeg \in Nat \ {0, 1} /\ maxPolsOpenings \in Nat
  /\ {0, 1} \subseteq Columns
  /\ (P - 1) % NExt = 0 /\ NCoefs >= N + maxPolsOpenings
  /\ \A c \in Columns : findNumberOpenings(names[c]) \in 0..maxPolsOpenings
  /\ \A k \in DOMAIN f : f[k].openingPoints \in Seq(Nat)
  /\ Witnesses \subseteq Matrix(N)
  /\ Blinds \subseteq [1..(maxPolsOpenings + 1) -> Fr]
  /\ Garbage \cup Challenges \subseteq Fr

VARIABLES cm1_n, cm1_coefs, cm1_2ns, q_2ns,  \* rows
          pc, i, b,  \* the column that is blinded next, and the random elements so far
          a,         \* challenges[4]
          Q          \* the quotient, as commit takes it from q_2ns

vars == <<cm1_n, cm1_coefs, cm1_2ns, q_2ns, pc, i, b, a, Q>>

-----------------------------------------------------------------------------
\* The two transforms, of a column or of q.
NTT(p, size) == [e \in 0..(size - 1) |-> evaluateAt(p, power(rootOfUnity(size), e))]
INTT(v, size) == [e \in 0..(size - 1) |->
                    mul(inv(size), evaluateAt(v, power(inv(rootOfUnity(size)), e)))]

\* parset, before the coefficients are written.  (Faulty variant: they are not
\* cleared.)
left(buffer) == buffer
cleared(buffer) == [row \in DOMAIN buffer |-> [c \in Columns |-> 0]]

Interpolate ==
  /\ pc = "extend"
  /\ LET coefs == [c \in Columns |-> INTT(column(cm1_n, c), N)]
     IN  cm1_coefs' = [row \in 0..(NCoefs - 1) |->
           IF row < N THEN [c \in Columns |-> coefs[c][row]] ELSE cleared(cm1_coefs)[row]]
  /\ pc' = "blind" /\ i' = 0
  /\ UNCHANGED <<cm1_n, cm1_2ns, q_2ns, b, a, Q>>

\* A random multiple of X^N - 1 is added to a polynomial p of a column.
blinded(p, bs) ==
  [e \in DOMAIN p |-> add(sub(p[e], IF e \in DOMAIN bs THEN bs[e] ELSE 0),
                          IF e - N \in DOMAIN bs THEN bs[e - N] ELSE 0)]
BlindColumn ==
  /\ pc = "blind" /\ i \in Columns
  /\ \E random \in Blinds :
       LET bs == [e \in 0..(findNumberOpenings(names[i]) - 1) |-> random[e + 1]]
           p == blinded(column(cm1_coefs, i), bs)
       IN  /\ cm1_coefs' = [row \in DOMAIN cm1_coefs |-> [cm1_coefs[row] EXCEPT ![i] = p[row]]]
           /\ b' = Append(b, random)
  /\ i' = i + 1
  /\ UNCHANGED <<cm1_n, cm1_2ns, q_2ns, pc, a, Q>>

\* parset, parcpy, and the transform on the extended domain.
ExtendColumns ==
  /\ pc = "blind" /\ i \notin Columns
  /\ LET extended == [c \in Columns |-> NTT(column(cm1_coefs, c), NExt)]
     IN  cm1_2ns' = [row \in 0..(NExt - 1) |-> [c \in Columns |-> extended[c][row]]]
  /\ pc' = "constraints"
  /\ UNCHANGED <<cm1_n, cm1_coefs, q_2ns, i, b, a, Q>>

-----------------------------------------------------------------------------
\* The constants of the shipped circuit's Fibonacci sequence, and what the setup
\* extends them to, without random coefficients.
const_n == [L1 |-> [row \in 0..(N - 1) |-> IF row = 0 THEN 1 ELSE 0],
            LLAST |-> [row \in 0..(N - 1) |-> IF row = N - 1 THEN 1 ELSE 0]]
const_coefs == [L1 |-> INTT(const_n.L1, N), LLAST |-> INTT(const_n.LLAST, N)]
const_2ns == [L1 |-> NTT(const_coefs.L1, NExt), LLAST |-> NTT(const_coefs.LLAST, NExt)]

\* l2 is column 0 and l1 column 1; the first public is l1's, the others are l2's.
publics == <<cm1_n[0][1], cm1_n[0][0], cm1_n[N - 1][0]>>

\* The constraints of a row r and its next one, put together by multiplying with a
\* and adding the next.
constraints(r, next, L1, LLAST) ==
  <<mul(sub(next[1], r[0]), sub(1, LLAST)),
    mul(sub(next[0], add(mul(r[0], r[0]), mul(r[1], r[1]))), sub(1, LLAST)),
    mul(L1, sub(r[1], publics[1])),
    mul(L1, sub(r[0], publics[2])),
    mul(LLAST, sub(r[0], publics[3]))>>
combined(cs) == evaluateAt([e \in 0..(Len(cs) - 1) |-> cs[Len(cs) - e]], a)

\* The next row of the domain, on the extended one.  (Faulty variant: the next
\* row of the extended one.)
nextRowExtended(row) == (row + 1) % NExt
nextRow(row) == (row + 2^extendBitsTotal) % NExt

DrawChallenge ==
  /\ pc = "constraints" /\ a = 0
  /\ a' \in Challenges \ {0}
  /\ UNCHANGED <<cm1_n, cm1_coefs, cm1_2ns, q_2ns, pc, i, b, Q>>

\* The rows are computed in parallel: each writes its own.
CalculateQ ==
  /\ pc = "constraints" /\ a # 0
  /\ q_2ns' = [row \in 0..(NExt - 1) |->
       combined(constraints(cm1_2ns[row], cm1_2ns[nextRow(row)],
                            const_2ns.L1[row], const_2ns.LLAST[row]))]
  /\ pc' = "divide"
  /\ UNCHANGED <<cm1_n, cm1_coefs, cm1_2ns, i, b, a, Q>>

\* The degree the quotient may have, and the number of its coefficients in the
\* key.
domainSizeQ == qDeg * N + maxPolsOpenings * (qDeg + 1)

\* divZh looks for the degree of the quotient from that of the dividend down.
fixDegreeFrom(p, initial) ==
  getDegree([e \in 0..initial |-> p[e]])
DivideByZh ==
  /\ pc = "divide"
  /\ LET dividend == INTT(q_2ns, NExt)
         quotient == divZh(dividend, N)
     IN  /\ q_2ns' = quotient
         /\ IF fixDegreeFrom(quotient, getDegree(dividend)) > domainSizeQ
            THEN pc' = "error" /\ UNCHANGED Q
            ELSE pc' = "done" /\ Q' = [e \in 0..(domainSizeQ - 1) |-> coef(quotient, e)]
  /\ UNCHANGED <<cm1_n, cm1_coefs, cm1_2ns, i, b, a>>

-----------------------------------------------------------------------------
filled(rows, g) == [row \in 0..(rows - 1) |-> [c \in Columns |-> g]]
Init ==
  /\ cm1_n \in Witnesses
  /\ \E g \in Garbage : /\ cm1_coefs = filled(NCoefs, g) /\ cm1_2ns = filled(NExt, g)
                        /\ q_2ns = [row \in 0..(NExt - 1) |-> g]
  /\ pc = "extend" /\ i = 0 /\ b = <<>> /\ a = 0 /\ Q = Zero

Ended == pc \in {"done", "error"} /\ UNCHANGED vars

Next == \/ Interpolate \/ BlindColumn \/ ExtendColumns \/ DrawChallenge \/ CalculateQ
        \/ DivideByZh \/ Ended
Spec == Init /\ [][Next]_vars

-----------------------------------------------------------------------------
\* The committed polynomials and their extension agree with the witness: each
\* row of the domain is a row of the extended domain, and there they are the
\* same, whatever was drawn and whatever the buffers held before.
ExtendsTheWitness ==
  pc = "constraints" =>
    \A c \in Columns :
      /\ \A row \in 0..(N - 1) : cm1_2ns[row * 2^extendBitsTotal][c] = cm1_n[row][c]
      /\ \A row \in 0..(NExt - 1) :
           cm1_2ns[row][c] = evaluateAt(column(cm1_coefs, c), power(rootOfUnity(NExt), row))

\* What a proof shows of a column, its values at its opening points and one more
\* that enters the evaluation at y, could be of any other witness: there are
\* random coefficients for which that one has the same values there, and still
\* its own ones in the domain.
H == {power(rootOfUnity(N), row) : row \in 0..(N - 1)}
IsOpened(c) == \E j \in DOMAIN f : names[c] \in ToSet(f[j].pols)
OpeningsOf(c) == f[CHOOSE j \in DOMAIN f : names[c] \in ToSet(f[j].pols)].openingPoints
Shown(xi, y, c) ==
  Append([k \in DOMAIN OpeningsOf(c) |-> mul(xi, power(rootOfUnity(N), OpeningsOf(c)[k]))], y)
HidesTheWitness ==
  pc = "constraints" =>
    \A c \in Columns, other \in Witnesses, xi \in Challenges \ H, y \in Challenges \ H :
      LET points == Shown(xi, y, c)
          p == [e \in 0..(NCoefs - 1) |-> coef(INTT(column(other, c), N), e)]
          values == [k \in DOMAIN points |-> evaluateAt(column(cm1_coefs, c), points[k])]
          wanted == [k \in DOMAIN points |->
            mul(sub(values[k], evaluateAt(p, points[k])), inv(sub(power(points[k], N), 1)))]
          bs == lagrangePolynomialInterpolation(points, wanted)
          hidden == blinded(p, [e \in 0..(findNumberOpenings(names[c]) - 1) |-> coef(bs, e)])
      IN  IsOpened(c) /\ IsInjective(points) =>
            /\ \A k \in DOMAIN points : evaluateAt(hidden, points[k]) = values[k]
            /\ \A row \in 0..(N - 1) :
                 evaluateAt(hidden, power(rootOfUnity(N), row)) = other[row][c]

\* The equation that the verifier checks at xi holds in every point of the field,
\* for the committed quotient and the committed columns: the witness is one of
\* the circuit, and the prover does not refuse it.
OfTheCircuit(w) ==
  \A row \in 0..(N - 2) : /\ w[row + 1][1] = w[row][0]
                          /\ w[row + 1][0] = add(mul(w[row][0], w[row][0]), mul(w[row][1], w[row][1]))
QuotientOfTheConstraints ==
  pc \in {"done", "error"} /\ OfTheCircuit(cm1_n) =>
    /\ pc = "done"
    /\ \A x \in Fr :
         LET at(z) == [c \in Columns |-> evaluateAt(column(cm1_coefs, c), z)]
         IN  mul(evaluateAt(Q, x), sub(power(x, N), 1)) =
               combined(constraints(at(x), at(mul(x, rootOfUnity(N))),
                                    evaluateAt(const_coefs.L1, x), evaluateAt(const_coefs.LLAST, x)))
=============================================================================
