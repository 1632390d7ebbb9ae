--------------------------- MODULE MCProverMemory ---------------------------
(***************************************************************************)
(* Circuits of two rows.  The first has everything the shipped one has,    *)
(* one of each; the second a permutation and a connection, and no          *)
(* constants; an f of the third is so long that the bytes of its powers of *)
(* tau are not counted in U32, and it has no arguments.                    *)
(***************************************************************************)
EXTENDS ProverMemory

MCf(i, stage, pols, openingPoints, length) ==
  [index |-> i, degree |-> length * Len(pols) + Len(pols) - 1,
   openingPoints |-> openingPoints, pols |-> pols,
   stages |-> <<[stage |-> stage,
                 pols |-> [k \in DOMAIN pols |-> [name |-> pols[k], degree |-> length]]]>>]
MCKey(f, names) ==
  [power |-> 1, powerW |-> 12, nPublics |-> 1, maxQDegree |-> 0, f |-> f,
   polsNamesStage |-> names, omegas |-> "w1_1d1" :> 5 @@ "w2" :> 7]
MCInfo(nConstants, cm1, cm2, cm3, tmpExp) ==
  [nConstants |-> nConstants, qDeg |-> 1, qDim |-> 1, nBitsZK |-> 2, nCm2 |-> cm2,
   section |-> "cm1_n" :> cm1 @@ "cm2_n" :> cm2 @@ "cm3_n" :> cm3 @@ "tmpExp_n" :> tmpExp,
   publics |-> <<[idx |-> 1, polId |-> 0]>>,
   cm_n |-> [k \in 1..cm1 |-> <<"cm1_n", k - 1>>] \o [k \in 1..cm2 |-> <<"cm2_n", k - 1>>]
              \o [k \in 1..cm3 |-> <<"cm3_n", k - 1>>],
   puCtx |-> <<>>, peCtx |-> <<>>, ciCtx |-> <<>>]
MCSteps(reads2, writes2, reads3prev, writes3prev, reads3, writes3) ==
  [step2prev |-> [reads |-> reads2, writes |-> writes2],
   step3prev |-> [reads |-> reads3prev, writes |-> writes3prev],
   step3 |-> [reads |-> reads3, writes |-> writes3]]

\* The looked-up polynomial is an intermediate one, in column 1 of cm3_n, and the
\* table an expression, in column 0 of tmpExp_n.
MCLookups ==
  [shKey |-> MCKey(0 :> MCf(0, 0, <<"C">>, <<0>>, 2) @@ 1 :> MCf(1, 0, <<"D">>, <<0, 1>>, 2)
                     @@ 2 :> MCf(2, 1, <<"b", "a">>, <<0>>, 4)
                     @@ 3 :> MCf(3, 2, <<"h1", "h2">>, <<0, 1>>, 5)
                     @@ 4 :> MCf(4, 3, <<"Z", "im">>, <<0, 1>>, 5)
                     @@ 5 :> MCf(5, 4, <<"Q">>, <<0>>, 8),
                   0 :> <<"C", "D">> @@ 1 :> <<"a", "b">> @@ 2 :> <<"h1", "h2">>
                     @@ 3 :> <<"Z", "im">> @@ 4 :> <<"Q">>),
   fflonkInfo |->
     [MCInfo(2, 2, 2, 2, 3) EXCEPT
        !.puCtx = <<[f |-> <<"cm3_n", 1>>, t |-> <<"tmpExp_n", 0>>,
                     num |-> <<"tmpExp_n", 1>>, den |-> <<"tmpExp_n", 2>>]>>],
   steps |-> MCSteps({<<"cm1_n", 0>>, <<"cm1_n", 1>>}, {<<"tmpExp_n", 0>>, <<"cm3_n", 1>>},
                     {<<"cm1_n", 0>>, <<"cm2_n", 0>>, <<"cm2_n", 1>>},
                     {<<"tmpExp_n", k>> : k \in 0..2} \cup {<<"cm3_n", 1>>},
                     {<<"cm1_n", 0>>}, {<<"tmpExp_n", 0>>, <<"cm3_n", 1>>}),
   zeros |-> {2}]  \* the leading coefficient of C

MCPermutation ==
  [shKey |-> MCKey(0 :> MCf(0, 1, <<"a">>, <<0>>, 4) @@ 1 :> MCf(1, 3, <<"Z1", "Z2">>, <<0, 1>>, 5)
                     @@ 2 :> MCf(2, 4, <<"Q">>, <<0>>, 8),
                   0 :> <<>> @@ 1 :> <<"a">> @@ 2 :> <<>> @@ 3 :> <<"Z1", "Z2">>
                     @@ 4 :> <<"Q">>),
   fflonkInfo |->
     [MCInfo(0, 1, 0, 2, 4) EXCEPT
        !.peCtx = <<[num |-> <<"tmpExp_n", 0>>, den |-> <<"tmpExp_n", 1>>]>>,
        !.ciCtx = <<[num |-> <<"tmpExp_n", 2>>, den |-> <<"tmpExp_n", 3>>]>>],
   steps |-> MCSteps({}, {}, {<<"cm1_n", 0>>}, {<<"tmpExp_n", k>> : k \in 0..3}, {}, {}),
   zeros |-> {}]

MCLong ==
  [shKey |-> MCKey(0 :> MCf(0, 0, <<"C">>, <<0>>, 2)
                     @@ 1 :> MCf(1, 1, <<"d", "b", "c", "a">>, <<0>>, 4)
                     @@ 2 :> MCf(2, 4, <<"Q">>, <<0>>, 8),
                   0 :> <<"C">> @@ 1 :> <<"a", "b", "c", "d">> @@ 2 :> <<>> @@ 3 :> <<>>
                     @@ 4 :> <<"Q">>),
   fflonkInfo |-> MCInfo(1, 4, 0, 0, 0),
   steps |-> MCSteps({}, {}, {}, {}, {}, {}),
   zeros |-> {}]

MCCircuits == {MCLookups, MCPermutation, MCLong}
MCPoints(n) == [k \in 1..n |-> <<"tau", k - 1>>]
MCg2 == [k \in 1..3 |-> <<"tau2", k - 1>>]
MCPTauFiles == {[points |-> MCPoints(30), g2 |-> MCg2], [points |-> MCPoints(8), g2 |-> MCg2],
                [points |-> MCPoints(30), g2 |-> <<>>]}
MCExecFiles == {[nSMap |-> 4, unmapped |-> {}], [nSMap |-> 2, unmapped |-> {}],
                [nSMap |-> 2, unmapped |-> {1, 2}]}
=============================================================================
