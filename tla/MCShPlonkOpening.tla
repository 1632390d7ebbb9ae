-------------------------- MODULE MCShPlonkOpening --------------------------
(***************************************************************************)
(* Four rows, modulo 73.  The equations are linear in the coefficients: one*)
(* input without zeros, and that one with 1 more in each of its places,    *)
(* span all.                                                               *)
(***************************************************************************)
EXTENDS ShPlonkOpening

Names(s, n) == [j \in 1..n |-> <<s, j>>]
Pol_(s, n, length, points) ==
  [stage |-> s, pols |-> Names(s, n), openingPoints |-> points,
   stagePols |-> [j \in 1..n |-> [name |-> <<s, j>>, degree |-> length]],
   degree |-> length * n + n - 1]

\* The columns of a stage are the reverse of the f's order.
Key(fs, threads) ==
  [N |-> 4, powerW |-> 6, nThreads |-> threads, generator |-> 5, f |-> fs,
   names |-> [s \in Stages |-> LET Of == {i \in DOMAIN fs : fs[i].stage = s}
                                   names == FlattenSeq([i \in DOMAIN fs |->
                                              IF i \in Of THEN fs[i].pols ELSE <<>>])
                               IN  [id \in 0..(Len(names) - 1) |-> names[Len(names) - id]]]]

\* As the shipped key: constants, one and two opening points, the quotient.
Shipped == <<Pol_(0, 2, 4, <<0>>), Pol_(1, 3, 7, <<0, 1>>), Pol_(4, 1, 9, <<0>>)>>
\* Three opening points, two of a single polynomial, and two f's of one shape.
Shapes == <<Pol_(0, 1, 4, <<0, 1>>), Pol_(1, 2, 8, <<0, 1, 3>>), Pol_(2, 2, 6, <<1>>),
            Pol_(3, 2, 7, <<1>>)>>

MCKeys == {Key(fs, threads) : fs \in {Shipped, Shapes}, threads \in {1, 3}}
MCChallenges == [xiSeed |-> {2, 5}, alpha |-> {0, 3}, y |-> {7, 11, 30}]

Ids(k, s) == DOMAIN k.names[s]
Rows(k, s) == 0..(Max({0} \cup {p.degree : p \in UNION {ToSet(k.f[i].stagePols) :
                                  i \in {i \in DOMAIN k.f : k.f[i].stage = s}}}) - 1)
Base(k) == [s \in Stages |-> [row \in Rows(k, s) |-> [id \in Ids(k, s) |->
              1 + ((7 * s + 3 * row * row + 5 * id) % (P - 1))]]]
MCInputs(k) ==
  {Base(k)} \cup UNION {{[Base(k) EXCEPT ![s][row][id] = (@ + 1) % P] :
                           row \in Rows(k, s), id \in Ids(k, s)} : s \in Stages}
=============================================================================
