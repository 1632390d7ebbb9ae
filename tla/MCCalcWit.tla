----------------------------- MODULE MCCalcWit -----------------------------
(***************************************************************************)
(* Three keys, of which one to three are input signals, in a table of four *)
(* slots.  Of the five hashes two share the last slot and three the one    *)
(* before it, so that a search may have to go on past the end of the table.*)
(***************************************************************************)
EXTENDS CalcWit

MCKeys == <<"a", "b", "c">>
=============================================================================
