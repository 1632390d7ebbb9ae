------------------------- MODULE MCBlindedQuotient -------------------------
(***************************************************************************)
(* Four rows, modulo 97: the extended domain has 32.  Columns l2 and l1 of *)
(* the circuit are opened at two points, and a third one at one.  Two      *)
(* sequences, and the first of them with a wrong value.                    *)
(***************************************************************************)
EXTENDS BlindedQuotient

MCnames == [c \in 0..2 |-> <<"l2", "l1", "free">>[c + 1]]
MCf == <<[pols |-> <<"l1", "l2">>, openingPoints |-> <<0, 1>>],
         [pols |-> <<"free">>, openingPoints |-> <<0>>]>>
MCBlinds == {<<3, 60, 0, 8>>, <<96, 5, 41, 1>>}

Sequence(l2, l1) ==
  LET row[r \in 0..(N - 1)] ==
        IF r = 0 THEN <<l2, l1>>
        ELSE <<add(mul(row[r - 1][1], row[r - 1][1]), mul(row[r - 1][2], row[r - 1][2])),
               row[r - 1][1]>>
  IN  [r \in 0..(N - 1) |-> [c \in 0..2 |-> IF c = 2 THEN 7 * r ELSE row[r][c + 1]]]
MCWitnesses == {Sequence(1, 2), Sequence(40, 0), [Sequence(1, 2) EXCEPT ![2][0] = add(@, 1)]}
=============================================================================
