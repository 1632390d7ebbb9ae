------------------------------- MODULE Lookup -------------------------------
(***************************************************************************)
(* A plookup, from stage 2 to stage 3: calculateH1H2 sorts the values f    *)
(* that are looked up along the table t into h1 and h2; the rows of        *)
(* step3prev, in parallel, compute the numerators and denominators of the  *)
(* grand product; calculateZ accumulates it.  The lookup is proved by the  *)
(* grand product's return to 1 after the last row.                         *)
(***************************************************************************)
EXTENDS PrimeField, FiniteSets

CONSTANTS
  N,           \* the rows of the domain
  Values,      \* what f and t may hold
  Challenges   \* what the challenges gamma and delta may be

ASSUME LookupAssumption == N \in Nat \ {0} /\ Values \cup Challenges \subseteq Fr

Row == 0..(N - 1)
None == -1   \* not computed yet

VARIABLES
  t, f,           \* the table, and the values looked up (stage 2 committed them)
  challenge,      \* gamma and delta, that is challenges[2] and challenges[3]
  h1, h2,         \* cm2_n
  tExp, num, den, \* tmpExp_n: t again, the numerators, the denominators
  z,              \* cm3_n
  row,            \* where the thread of each row of step3prev is
  pc

vars == <<t, f, challenge, h1, h2, tExp, num, den, z, row, pc>>

Init ==
  /\ t \in [Row -> Values] /\ f \in [Row -> Values]
  /\ challenge \in [gamma : Challenges, delta : Challenges]
  /\ h1 = [i \in Row |-> None] /\ h2 = h1
  /\ tExp = t   \* by step2prev_first
  /\ num = h1 /\ den = h1 /\ z = h1
  /\ row = [i \in Row |-> "first"]
  /\ pc = "h1h2"

-----------------------------------------------------------------------------
\* calculateH1H2: idx_t keeps the last row of each value of the table, and s has
\* the values of t at their rows and those of f at these; s_sorted is in the
\* order of the rows.  (Faulty variant: s is sorted by value.)
idx_t(v) == CHOOSE i \in Row : t[i] = v /\ \A j \in Row : t[j] = v => j <= i
placeOfValue(v) == Cardinality({i \in Row : t[i] < v}) + Cardinality({i \in Row : f[i] < v})
sortedByValue ==
  [k \in 0..(2 * N - 1) |-> CHOOSE v \in Fr : placeOfValue(v) <= k /\ k < placeOfValue(v + 1)]
place(i) == i + Cardinality({x \in Row : idx_t(f[x]) < i})
s_sorted ==
  [k \in 0..(2 * N - 1) |-> t[CHOOSE i \in Row : place(i) <= k /\ k < place(i + 1)]]

CalculateH1H2 ==
  /\ pc = "h1h2"
  /\ IF \E i \in Row : f[i] \notin Range(t)
     THEN pc' = "exited" /\ UNCHANGED <<h1, h2>>
     ELSE /\ h1' = [i \in Row |-> s_sorted[2 * i]]
          /\ h2' = [i \in Row |-> s_sorted[2 * i + 1]]
          /\ pc' = "rows"
  /\ UNCHANGED <<t, f, challenge, tExp, num, den, z, row>>

\* The next row.
next(i) == (i + 1) % N

\* step3prev_first computes t again, at row i and at row i + 1, where the
\* thread of that row writes it as well: the same value.
FirstWrite(i) ==
  /\ pc = "rows" /\ row[i] = "first"
  /\ tExp' = [tExp EXCEPT ![i] = t[i]]
  /\ row' = [row EXCEPT ![i] = "second"]
  /\ UNCHANGED <<t, f, challenge, h1, h2, num, den, z, pc>>

SecondWrite(i) ==
  /\ pc = "rows" /\ row[i] = "second"
  /\ tExp' = [tExp EXCEPT ![next(i)] = t[next(i)]]
  /\ row' = [row EXCEPT ![i] = "products"]
  /\ UNCHANGED <<t, f, challenge, h1, h2, num, den, z, pc>>

\* gamma (1 + delta) + a + delta b
Term(a, b) == (challenge.gamma * (1 + challenge.delta) + a + challenge.delta * b) % P
Numerator(i) == mul(mul(add(f[i], challenge.gamma), Term(tExp[i], tExp[next(i)])),
                    1 + challenge.delta)
Denominator(i) == mul(Term(h1[i], h2[i]), Term(h2[i], h1[next(i)]))

Products(i) ==
  /\ pc = "rows" /\ row[i] = "products"
  /\ num' = [num EXCEPT ![i] = Numerator(i)]
  /\ den' = [den EXCEPT ![i] = Denominator(i)]
  /\ row' = [row EXCEPT ![i] = "ended"]
  /\ UNCHANGED <<t, f, challenge, h1, h2, tExp, z, pc>>

\* batchInverse: one inversion, of the product of all, and the products of those
\* before and after each.  (Faulty variant: those up to each.)
before(i) == product([x \in 0..(i - 1) |-> den[x]])
after(i) == product([x \in (i + 1)..(N - 1) |-> den[x]])
batchInverseOffByOne ==
  [i \in Row |-> mul(inv(before(N)), mul(before(i + 1), after(i)))]
batchInverse == [i \in Row |-> mul(inv(before(N)), mul(before(i), after(i)))]

Ratio(i) == mul(num[i], batchInverse[i])
CalculateZ ==
  /\ pc = "rows" /\ \A i \in Row : row[i] = "ended"
  /\ z' = [i \in Row |-> product([x \in 0..(i - 1) |-> Ratio(x)])]
  /\ pc' = "done"
  /\ UNCHANGED <<t, f, challenge, h1, h2, tExp, num, den, row>>

Ended == pc \in {"done", "exited"} /\ UNCHANGED vars

Next == \/ CalculateH1H2
        \/ (\E i \in Row : FirstWrite(i) \/ SecondWrite(i) \/ Products(i))
        \/ CalculateZ \/ Ended
Spec == Init /\ [][Next]_vars

-----------------------------------------------------------------------------
\* h1 and h2, read alternately, are f and t along t: two values follow each
\* other, the first after the last, as often as they do in t, and each value as
\* often itself as it is looked up.
Alternately == [k \in 0..(2 * N - 1) |-> IF k % 2 = 0 THEN h1[k \div 2] ELSE h2[k \div 2]]
SortedAlongTheTable ==
  pc \in {"rows", "done"} =>
    \A u, v \in Fr :
      Cardinality({k \in 0..(2 * N - 1) : Alternately[k] = u /\ Alternately[(k + 1) % (2 * N)] = v})
      = Cardinality({i \in Row : t[i] = u /\ t[next(i)] = v})
          + Cardinality({i \in Row : f[i] = u /\ f[i] = v})

\* The grand product of a lookup whose values are all in the table returns to 1
\* after the last row, unless a denominator vanishes, and whatever the order of
\* the rows: calculateZ's zkassert, which is compiled out.
GrandProductCloses ==
  pc = "done" /\ (\A i \in Row : den[i] # 0) =>
    /\ z[0] = 1
    /\ \A i \in Row : mul(z[i], num[i]) = mul(z[next(i)], den[i])
=============================================================================
